--------------------------- MODULE SupervisorProofs ---------------------------
(***************************************************************************)
(* Proofs about Supervisor for every number of callers, launches, stdout   *)
(* lines and outages.  None rests on the monitor of the service: the       *)
(* callers of start() and stop() overlap as they may.  What exposed records *)
(* is the one overlap in which the supervisor can lose a core.             *)
(***************************************************************************)
EXTENDS Supervisor, TLAPS

USE SupervisorAssumption

-----------------------------------------------------------------------------
(* The inductive invariant *)

\* A caller that has an instance of its own, not yet handed to a reader.
LaunchPc == {"launch", "recheck", "publish", "begin", "attach", "fail"}

Launching(c, i) == pc[c] \in LaunchPc /\ mine[c] = i

\* Instances are numbered as they are launched, each by one caller; only Attach
\* gives one its reader.
LaunchPart ==
    /\ \A i \in Instance : i > launched => reader[i] = "none" /\ ~held[i]
    /\ \A c \in Caller : pc[c] \in LaunchPc =>
          mine[c] \in Instance /\ mine[c] <= launched /\ reader[mine[c]] = "none"
    /\ \A c, d \in Caller : pc[c] \in LaunchPc /\ pc[d] \in LaunchPc /\ mine[c] = mine[d] => c = d

\* Whoever is about to publish readiness does it for an instance that reported it,
\* and whose reader had been started.
ReadyPart ==
    /\ delayedConnect # 0 => delayedConnect \in confirmed /\ reader[delayedConnect] # "none"
    /\ \A i \in Instance : reader[i] \in ConnectPc => i \in confirmed
    /\ looper.at \in ConnectPc => looper.inst \in confirmed /\ reader[looper.inst] # "none"
    /\ readySession # 0 => \E i \in Instance : session[i] = readySession /\ reader[i] # "none"

\* The engines of an instance are held by its launch, or by its reader until the
\* finally block.
HeldPart ==
    \A i \in Instance :
        held[i] => \/ reader[i] \notin {"none", "release", "wait", "exit", "done"}
                   \/ \E c \in Caller : Launching(c, i)

\* Between StartFlags and the last check of a launch.
Spawning == {"prepare", "launch", "recheck"}

\* Its launch has been overtaken: it will find launchGeneration changed.
Stale(c) == myGen[c] # launchGeneration

\* Every launch has a generation of its own.
GenerationPart ==
    /\ \A c \in Caller : myGen[c] <= launchGeneration
    /\ \A c, d \in Caller : pc[c] \in Spawning /\ pc[d] \in Spawning /\ myGen[c] = myGen[d] => c = d

\* A launch in the window that no other call has met is alone in it, nobody is
\* stopping, and every other launch on its way will fail.
WindowPart ==
    \A c \in Caller : pc[c] \in Window /\ mine[c] \notin exposed =>
        /\ \A d \in Caller \ {c} : pc[d] \notin InTheWay /\ (pc[d] \in Spawning => Stale(d))
        /\ ~shuttingDown
        /\ pc[c] = "begin" => currentInstance = mine[c]

\* A core whose launcher still answers for it.
Owned(i) == \E c \in Caller : pc[c] \in {"recheck", "publish", "fail"} /\ mine[c] = i

\* Core i is the current instance and nobody is about to forget it or to launch
\* another one; when a stop has been called, one that reaches it is on its way.
Reached(i) ==
    /\ currentInstance = i
    /\ process = i \/ \E c \in Caller : pc[c] = "begin" /\ mine[c] = i
    /\ \A d \in Caller :
          /\ pc[d] \notin {"stopClear", "stopProcess", "flags", "publish"}
          /\ pc[d] = "begin" => mine[d] = i
          /\ pc[d] \in Spawning => Stale(d)
    /\ shuttingDown => \E d \in Caller : pc[d] \in {"stopCancel", "stopDetach", "stopDestroy"}

CorePart == \A i \in Instance \ exposed : alive[i] /\ ~Owned(i) => Reached(i)

Beginning == \E c \in Caller : pc[c] = "begin"

\* The channel is the current instance's, but while one is being published.
OwnerPart ==
    /\ channel.owner \in {0, currentInstance} \cup exposed \/ Beginning
    /\ \A c \in Caller : pc[c] = "stopClear" => channel.owner \in {0} \cup exposed \/ Beginning

CallPart == GenerationPart /\ WindowPart /\ CorePart /\ OwnerPart

IInv ==
    /\ TypeOK /\ LaunchPart /\ ReadyPart /\ ReadyIsConfirmed /\ OutageFencesChannel /\ HeldPart
    /\ CallPart

-----------------------------------------------------------------------------
(* Types *)

\* TypeOK, one variable at a time.
Types ==
    /\ calls \in 0..MaxCalls /\ lines \in 0..MaxLines /\ outages \in 0..MaxNet
    /\ lock \in Caller \cup {"nobody"}
    /\ pc \in [Caller -> CallerPc] /\ back \in [Caller -> {"flags", "idle"}]
    /\ mine \in [Caller -> MaybeInstance] /\ myGen \in [Caller -> Nat]
    /\ shuttingDown \in BOOLEAN /\ running \in BOOLEAN /\ connected \in BOOLEAN
    /\ launchGeneration \in Nat
    /\ rejectedSession \in MaybeInstance /\ currentInstance \in MaybeInstance
    /\ process \in MaybeInstance /\ delayedConnect \in MaybeInstance
    /\ gracePeriod \in MaybeInstance /\ launched \in MaybeInstance
    /\ currentSession \in MaybeInstance /\ readySession \in MaybeInstance
    /\ carrierPath \in MaybeInstance
    /\ alive \in [Instance -> BOOLEAN] /\ cancelled \in [Instance -> BOOLEAN]
    /\ held \in [Instance -> BOOLEAN] /\ session \in [Instance -> MaybeInstance]
    /\ reader \in [Instance -> ReaderPc]
    /\ looper \in [at: {"idle", "dead"} \cup ConnectPc, inst: MaybeInstance]
    /\ channel \in ChannelState
    /\ carrier \in [path: MaybeInstance, ready: BOOLEAN]
    /\ confirmed \subseteq Instance /\ restored \subseteq Instance /\ exposed \subseteq Instance

LEMMA TypesAreTypes == TypeOK <=> Types
BY DEF TypeOK, Types

LEMMA NoInstance == 0 \in MaybeInstance /\ 0 \notin Instance /\ Instance \subseteq Nat /\ Instance \subseteq MaybeInstance
BY DEF Instance, MaybeInstance

\* A caller's step moves that caller alone, and exposes every launch that meets
\* another call in its window.
Moved(c, label) ==
    /\ label \in CallerPc /\ pc' = [pc EXCEPT ![c] = label] /\ pc' \in [Caller -> CallerPc]
    /\ exposed \subseteq exposed' /\ exposed' \subseteq Instance
    /\ \A d \in Caller : pc'[d] \in Window /\ mine[d] \notin exposed' =>
          \A e \in Caller : e # d => pc'[e] \notin InTheWay

LEMMA GotoMoves ==
    ASSUME Types, LaunchPart, NEW c \in Caller, NEW label \in CallerPc, Goto(c, label),
           label \in Window => pc[c] \in LaunchPc
    PROVE  Moved(c, label)
<1>1. pc' = [pc EXCEPT ![c] = label] /\ pc' \in [Caller -> CallerPc]
  BY DEF Goto, Types
<1> DEFINE Met == {d \in Caller : pc'[d] \in Window /\ \E e \in Caller \ {d} : pc'[e] \in InTheWay}
<1>2. exposed' = exposed \cup {mine[d] : d \in Met}
  BY DEF Goto
<1>3. \A d \in Met : mine[d] \in Instance
  BY <1>1 DEF LaunchPart, LaunchPc, Window, Types
<1>4. exposed \subseteq exposed' /\ exposed' \subseteq Instance
  BY <1>2, <1>3 DEF Types
<1>5. \A d \in Caller : pc'[d] \in Window /\ mine[d] \notin exposed' =>
          \A e \in Caller : e # d => pc'[e] \notin InTheWay
  BY <1>2
<1> QED
  BY <1>1, <1>4, <1>5 DEF Moved

LEMMA CallerMoves ==
    ASSUME Types, LaunchPart, NEW c \in Caller, CallStart(c) \/ CallStop(c) \/ CallerStep(c)
    PROVE  \E label \in CallerPc : Goto(c, label) /\ Moved(c, label)
<1> SUFFICES \E label \in CallerPc : Goto(c, label) /\ (label \in Window => pc[c] \in LaunchPc)
  BY GotoMoves
<1> USE DEF CallerPc, Window, LaunchPc
<1>1. CASE CallStart(c) \/ CallStop(c) \/ StartCheck(c) \/ StartFlags(c)
  BY <1>1 DEF CallStart, CallStop, StartCheck, StartFlags
<1>2. CASE Prepare(c) \/ Launch(c) \/ Recheck(c) \/ Publish(c) \/ Begin(c)
  BY <1>2 DEF Prepare, Launch, Recheck, Publish, Begin
<1>3. CASE Attach(c) \/ Fail(c)
  BY <1>3 DEF Attach, Fail, Return
<1>4. CASE StopFlags(c) \/ StopCancel(c) \/ StopDetach(c) \/ StopDestroy(c) \/ StopClear(c) \/ StopProcess(c)
  BY <1>4 DEF StopFlags, StopCancel, StopDetach, StopDestroy, StopClear, StopProcess, Return
<1> QED
  BY <1>1, <1>2, <1>3, <1>4 DEF CallerStep

LEMMA CallerTypes ==
    ASSUME Types, LaunchPart, NEW c \in Caller, CallStart(c) \/ CallStop(c) \/ CallerStep(c)
    PROVE  Types'
<1> USE NoInstance DEF Types, callerVars, flagVars, fieldVars, instVars, readerVars, sessionVars, carrierVars, readyVars, CallerPc
<1>0. pc' \in [Caller -> CallerPc] /\ exposed' \subseteq Instance
  BY CallerMoves DEF Moved
<1>1. ASSUME CallStart(c) PROVE Types'
  BY <1>0, <1>1 DEF CallStart, EnterMonitor, Instance, MaybeInstance
<1>2. ASSUME CallStop(c) PROVE Types'
  BY <1>0, <1>2 DEF CallStop, EnterMonitor
<1>3. ASSUME StartCheck(c) PROVE Types'
  BY <1>0, <1>3 DEF StartCheck
<1>4. ASSUME StartFlags(c) PROVE Types'
  <2>1. launchGeneration + 1 \in Nat
    OBVIOUS
  <2>2. myGen' \in [Caller -> Nat] /\ launchGeneration' \in Nat /\ pc' \in [Caller -> CallerPc]
    BY <1>0, <1>4, <2>1 DEF StartFlags
  <2> QED
    BY <1>0, <1>4, <2>2 DEF StartFlags
<1>5. ASSUME Prepare(c) PROVE Types'
  <2>1. launched + 1 \in Instance
    BY <1>0, <1>5 DEF Prepare, Instance, MaybeInstance
  <2>2. /\ pc' \in [Caller -> CallerPc] /\ mine' \in [Caller -> MaybeInstance]
        /\ launched' \in MaybeInstance /\ carrierPath' \in MaybeInstance
        /\ held' \in [Instance -> BOOLEAN] /\ session' \in [Instance -> MaybeInstance]
    BY <1>0, <1>5, <2>1 DEF Prepare
  <2> QED
    BY <1>0, <1>5, <2>2 DEF Prepare
<1>6. ASSUME Launch(c) PROVE Types'
  BY ZenonT(60), <1>0, <1>6 DEF Launch
<1>7. ASSUME Recheck(c) PROVE Types'
  BY <1>0, <1>7 DEF Recheck
<1>8. ASSUME Publish(c) PROVE Types'
  BY <1>0, <1>8 DEF Publish
<1>9. ASSUME Begin(c) PROVE Types'
  BY ZenonT(60), <1>0, <1>9 DEF Begin, ChannelBegin, NoChannel, ChannelState
<1>10. ASSUME Attach(c) PROVE Types'
  BY <1>0, <1>10 DEF Attach, Return, ReaderPc
<1>11. ASSUME Fail(c) PROVE Types'
  BY <1>0, <1>11 DEF Fail, Return
<1>12. ASSUME StopFlags(c) PROVE Types'
  BY <1>0, <1>12 DEF StopFlags
<1>13. ASSUME StopCancel(c) PROVE Types'
  BY <1>0, <1>13 DEF StopCancel
<1>14. ASSUME StopDetach(c) PROVE Types'
  BY <1>0, <1>14 DEF StopDetach
<1>15. ASSUME StopDestroy(c) PROVE Types'
  <2>1. NoChannel \in ChannelState
    BY DEF NoChannel, ChannelState
  <2>2. /\ channel' \in ChannelState /\ readySession' \in MaybeInstance
        /\ held' \in [Instance -> BOOLEAN] /\ alive' \in [Instance -> BOOLEAN]
    <3>1. CASE currentInstance = 0
      BY <1>15, <3>1 DEF StopDestroy
    <3>2. CASE currentInstance # 0
      <4>1. channel' \in {channel, NoChannel} /\ readySession' \in {readySession, 0}
        BY <1>15, <3>2 DEF StopDestroy, ChannelEnd, ClearLocalProxyReady
      <4>2. /\ held' = [held EXCEPT ![currentInstance] = FALSE]
            /\ alive' = [alive EXCEPT ![currentInstance] = FALSE]
        BY <1>15, <3>2 DEF StopDestroy
      <4> QED
        BY <2>1, <4>1, <4>2
    <3> QED
      BY <3>1, <3>2
  <2> QED
    BY <1>0, <1>15, <2>2 DEF StopDestroy
<1>16. ASSUME StopClear(c) PROVE Types'
  BY <1>0, <1>16 DEF StopClear, Return
<1>17. ASSUME StopProcess(c) PROVE Types'
  BY <1>0, <1>17 DEF StopProcess, Return
<1> QED
  BY <1>1, <1>2, <1>3, <1>4, <1>5, <1>6, <1>7, <1>8, <1>9, <1>10, <1>11, <1>12, <1>13, <1>14, <1>15, <1>16, <1>17 DEF CallerStep

LEMMA ChannelTypes ==
    ASSUME Types, NEW i \in Instance, NEW r \in BOOLEAN, NEW b \in BOOLEAN,
           ChannelReady(i, r, b) \/ ChannelNetworkLost(i) \/ ChannelLocalNetworkRestored(i)
           \/ ChannelSample(i) \/ ChannelEnd(i) \/ UNCHANGED channel
    PROVE  /\ channel' \in ChannelState
           /\ channel'.owner \in {0, channel.owner}
<1>1. channel \in ChannelState /\ NoChannel \in ChannelState /\ NoChannel.owner = 0
  BY NoInstance DEF Types, NoChannel, ChannelState
<1>2. CASE ChannelReady(i, r, b)
  BY ZenonT(60), <1>1, <1>2 DEF ChannelReady, ChannelState
<1>3. CASE ChannelNetworkLost(i) \/ ChannelLocalNetworkRestored(i) \/ ChannelSample(i)
  BY ZenonT(60), <1>1, <1>3 DEF ChannelNetworkLost, ChannelLocalNetworkRestored, ChannelSample, ChannelState
<1>4. CASE ChannelEnd(i) \/ UNCHANGED channel
  BY <1>1, <1>4 DEF ChannelEnd
<1> QED
  BY <1>2, <1>3, <1>4

LEMMA CarrierTypes ==
    ASSUME Types, NEW r \in BOOLEAN, SetAdminCarrierReady(r) \/ UNCHANGED carrier
    PROVE  carrier' \in [path: MaybeInstance, ready: BOOLEAN]
BY DEF Types, SetAdminCarrierReady

\* A step of the readiness handler, whoever makes it.
LEMMA ConnectTypes ==
    ASSUME Types, NEW i \in MaybeInstance, NEW at, NEW to, ConnectStep(i, at, to),
           at # "mark" \/ i # 0
    PROVE  /\ connected' \in BOOLEAN /\ readySession' \in MaybeInstance
           /\ channel' \in ChannelState /\ channel'.owner = channel.owner
           /\ carrier' \in [path: MaybeInstance, ready: BOOLEAN]
           /\ to \in (ConnectPc \ {"check"}) \cup {"back"} /\ at \in ConnectPc
<1> USE NoInstance DEF Types, ConnectPc
<1>1. CASE at = "check" /\ ConnectCheck(i, to)
  BY <1>1 DEF ConnectCheck
<1>2. CASE at = "set" /\ ConnectSet(to)
  BY <1>2 DEF ConnectSet
<1>3. CASE at = "proxy" /\ ConnectProxy(i, to)
  BY <1>3 DEF ConnectProxy
<1>4. CASE at = "mark" /\ ConnectMark(i, to)
  BY <1>4 DEF ConnectMark, MarkLocalProxyReady, MaybeInstance
<1>5. CASE at = "publish" /\ ConnectPublish(i, to)
  <2>1. carrier' \in [path: MaybeInstance, ready: BOOLEAN]
    BY <1>5, CarrierTypes DEF ConnectPublish
  <2>2. channel' \in ChannelState /\ channel'.owner = channel.owner
    BY <1>5 DEF ConnectPublish, ChannelReady, ChannelState
  <2> QED
    BY <1>5, <2>1, <2>2 DEF ConnectPublish
<1> QED
  BY <1>1, <1>2, <1>3, <1>4, <1>5 DEF ConnectStep

\* What a reader's step does to the rest.
ReaderFrame(i) ==
    /\ UNCHANGED <<callerVars, shuttingDown, launchGeneration, currentInstance, process, launched,
                   alive, cancelled, session, currentSession, carrierPath, looper, outages>>
    /\ reader[i] # "none"
    /\ \E l \in ReaderPc \ {"none"} : reader' = [reader EXCEPT ![i] = l]

LEMMA ReaderTypes ==
    ASSUME Types, NEW i \in Instance, ReaderStep(i)
    PROVE  Types' /\ ReaderFrame(i) /\ channel'.owner \in {0, channel.owner}
<1> DEFINE Goal == Types' /\ ReaderFrame(i) /\ channel'.owner \in {0, channel.owner}
<1> USE NoInstance DEF ReaderFrame, ReaderGo, callerVars, flagVars, fieldVars, instVars, readerVars,
        sessionVars, carrierVars, readyVars
<1>0. SUFFICES Goal
  OBVIOUS
<1> DEFINE Frame ==
        /\ UNCHANGED <<callerVars, shuttingDown, launchGeneration, currentInstance, process, launched,
                       alive, cancelled, session, currentSession, carrierPath, looper, outages>>
        /\ lines' \in 0..MaxLines /\ running' \in BOOLEAN /\ connected' \in BOOLEAN
        /\ rejectedSession' \in MaybeInstance /\ delayedConnect' \in MaybeInstance
        /\ gracePeriod' \in MaybeInstance /\ held' \in [Instance -> BOOLEAN]
        /\ readySession' \in MaybeInstance /\ confirmed' \subseteq Instance /\ UNCHANGED restored
        /\ carrier' \in [path: MaybeInstance, ready: BOOLEAN]
        /\ channel' \in ChannelState /\ channel'.owner \in {0, channel.owner}
        /\ reader[i] # "none" /\ \E l \in ReaderPc \ {"none"} : reader' = [reader EXCEPT ![i] = l]
<1>1. ASSUME Frame PROVE Goal
  <2>1. reader' \in [Instance -> ReaderPc]
    BY <1>1 DEF Types
  <2> QED
    BY <1>1, <2>1 DEF Types
<1> SUFFICES Frame
  BY <1>1
<1>2. ASSUME ReadLine(i) PROVE Frame
  <2>3. reader[i] # "none" /\ \E l \in ReaderPc \ {"none"} : reader' = [reader EXCEPT ![i] = l]
    BY <1>2 DEF ReadLine, ReaderPc, ConnectPc
  <2>4. lines' \in 0..MaxLines
    BY <1>2 DEF ReadLine, Types
  <2> QED
    BY <1>2, <2>3, <2>4 DEF ReadLine, Types
<1>3. ASSUME ReadEof(i) PROVE Frame
  <2>3. reader[i] # "none" /\ \E l \in ReaderPc \ {"none"} : reader' = [reader EXCEPT ![i] = l]
    BY <1>3 DEF ReadEof, ReaderPc, ConnectPc
  <2> QED
    BY <1>3, <2>3 DEF ReadEof, Types
<1>4. ASSUME ReadSample(i) PROVE Frame
  <2>1. channel' \in ChannelState /\ channel'.owner \in {0, channel.owner}
    BY <1>4, ChannelTypes DEF ReadSample
  <2>2. reader' = [reader EXCEPT ![i] = "read"] /\ "read" \in ReaderPc \ {"none"} /\ reader[i] # "none"
    BY <1>4 DEF ReadSample, Types, ReaderPc
  <2>4. lines' \in 0..MaxLines
    BY <1>4 DEF ReadSample, Types
  <2> QED
    BY <1>4, <2>1, <2>2, <2>4 DEF ReadSample, Types
<1>5. ASSUME LineListener(i) PROVE Frame
  <2>3. reader[i] # "none" /\ \E l \in ReaderPc \ {"none"} : reader' = [reader EXCEPT ![i] = l]
    BY <1>5 DEF LineListener, ReaderPc, ConnectPc
  <2> QED
    BY <1>5, <2>3 DEF LineListener, Types, MarkLocalProxyReady
<1>6. ASSUME LineDrop(i) PROVE Frame
  <2>2. carrier' \in [path: MaybeInstance, ready: BOOLEAN]
    BY <1>6, CarrierTypes DEF LineDrop
  <2>3. reader[i] # "none" /\ \E l \in ReaderPc \ {"none"} : reader' = [reader EXCEPT ![i] = l]
    BY <1>6 DEF LineDrop, ReaderPc, ConnectPc
  <2> QED
    BY <1>6, <2>2, <2>3 DEF LineDrop, Types
<1>7. ASSUME LineDropped(i) PROVE Frame
  <2>1. channel' \in ChannelState /\ channel'.owner \in {0, channel.owner}
    BY <1>7, ChannelTypes DEF LineDropped
  <2>2. carrier' \in [path: MaybeInstance, ready: BOOLEAN]
    BY <1>7, CarrierTypes DEF LineDropped
  <2>3. reader[i] # "none" /\ \E l \in ReaderPc \ {"none"} : reader' = [reader EXCEPT ![i] = l]
    BY <1>7 DEF LineDropped, ReaderPc, ConnectPc
  <2> QED
    BY <1>7, <2>1, <2>2, <2>3 DEF LineDropped, Types, ClearLocalProxyReady
<1>8. ASSUME LineFatal(i) PROVE Frame
  <2>3. reader[i] # "none" /\ \E l \in ReaderPc \ {"none"} : reader' = [reader EXCEPT ![i] = l]
    BY <1>8 DEF LineFatal, ReaderPc, ConnectPc
  <2> QED
    BY <1>8, <2>3 DEF LineFatal, Types
<1>9. ASSUME LineReject(i) PROVE Frame
  <2>1. channel' \in ChannelState /\ channel'.owner \in {0, channel.owner}
    BY <1>9, ChannelTypes DEF LineReject
  <2>2. carrier' \in [path: MaybeInstance, ready: BOOLEAN]
    BY <1>9, CarrierTypes DEF LineReject
  <2>3. reader[i] # "none" /\ \E l \in ReaderPc \ {"none"} : reader' = [reader EXCEPT ![i] = l]
    BY <1>9 DEF LineReject, ReaderPc, ConnectPc
  <2> QED
    BY <1>9, <2>1, <2>2, <2>3 DEF LineReject, Types
<1>10. ASSUME LineReady(i) PROVE Frame
  <2>3. reader[i] # "none" /\ \E l \in ReaderPc \ {"none"} : reader' = [reader EXCEPT ![i] = l]
    BY <1>10 DEF LineReady, ReaderPc, ConnectPc
  <2>4. /\ rejectedSession' \in MaybeInstance /\ delayedConnect' \in MaybeInstance
        /\ gracePeriod' \in MaybeInstance /\ confirmed' \subseteq Instance
    <3>1. CASE channel.waitingForNetwork
      BY <1>10, <3>1 DEF LineReady, Types
    <3>2. CASE ~channel.waitingForNetwork
      <4>1. /\ rejectedSession' = 0 /\ gracePeriod' = 0 /\ confirmed' = confirmed \cup {i}
            /\ delayedConnect' \in {i, 0}
        BY <1>10, <3>2 DEF LineReady
      <4> QED
        BY <4>1 DEF Types
    <3> QED
      BY <3>1, <3>2
  <2> QED
    BY <1>10, <2>3, <2>4 DEF LineReady, Types
<1>11. ASSUME ReaderConnect(i) PROVE Frame
  <2>1. PICK to \in ConnectPc \cup {"back"} :
           /\ ConnectStep(i, reader[i], to)
           /\ reader' = [reader EXCEPT ![i] = IF to = "back" THEN "read" ELSE to]
    BY <1>11 DEF ReaderConnect
  <2>2. /\ connected' \in BOOLEAN /\ readySession' \in MaybeInstance
        /\ channel' \in ChannelState /\ channel'.owner = channel.owner
        /\ carrier' \in [path: MaybeInstance, ready: BOOLEAN]
        /\ reader[i] \in ConnectPc
    BY <2>1, ConnectTypes
  <2>3. (IF to = "back" THEN "read" ELSE to) \in ReaderPc \ {"none"} /\ reader[i] # "none"
    BY <2>2 DEF ReaderPc, ConnectPc
  <2> QED
    BY <1>11, <2>1, <2>2, <2>3 DEF ReaderConnect, ConnectStep, Types
<1>12. ASSUME ReaderFinal(i) PROVE Frame
  <2>3. reader[i] # "none" /\ \E l \in ReaderPc \ {"none"} : reader' = [reader EXCEPT ![i] = l]
    BY <1>12 DEF ReaderFinal, ReaderPc, ConnectPc
  <2> QED
    BY <1>12, <2>3 DEF ReaderFinal, Types
<1>13. ASSUME ReaderRelease(i) PROVE Frame
  <2>1. channel' \in ChannelState /\ channel'.owner \in {0, channel.owner}
    BY <1>13, ChannelTypes DEF ReaderRelease
  <2>3. reader[i] # "none" /\ \E l \in ReaderPc \ {"none"} : reader' = [reader EXCEPT ![i] = l]
    BY <1>13 DEF ReaderRelease, ReaderPc, ConnectPc
  <2> QED
    BY <1>13, <2>1, <2>3 DEF ReaderRelease, Types, ClearLocalProxyReady
<1>14. ASSUME ReaderWait(i) PROVE Frame
  <2>3. reader[i] # "none" /\ \E l \in ReaderPc \ {"none"} : reader' = [reader EXCEPT ![i] = l]
    BY <1>14 DEF ReaderWait, ReaderPc, ConnectPc
  <2> QED
    BY <1>14, <2>3 DEF ReaderWait, Types
<1>15. ASSUME ReaderExit(i) PROVE Frame
  <2>2. carrier' \in [path: MaybeInstance, ready: BOOLEAN]
    BY <1>15, CarrierTypes DEF ReaderExit
  <2>3. reader[i] # "none" /\ \E l \in ReaderPc \ {"none"} : reader' = [reader EXCEPT ![i] = l]
    BY <1>15 DEF ReaderExit, ReaderPc, ConnectPc
  <2> QED
    BY <1>15, <2>2, <2>3 DEF ReaderExit, Types
<1> QED
  BY <1>2, <1>3, <1>4, <1>5, <1>6, <1>7, <1>8, <1>9, <1>10, <1>11, <1>12, <1>13, <1>14, <1>15 DEF ReaderStep

\* What a step of the main looper, of the network or of the system does to the rest.
OtherFrame ==
    UNCHANGED <<callerVars, shuttingDown, running, launchGeneration, rejectedSession, currentInstance,
                process, launched, cancelled, held, session, reader, lines, currentSession, carrierPath>>

LEMMA OtherTypes ==
    ASSUME Types, looper.at = "mark" => looper.inst # 0,
           \/ RunDelayedConnect \/ LooperConnect \/ RunGracePeriod
           \/ NetworkUnavailable \/ LocalNetworkRestored
           \/ \E i \in Instance : CoreDies(i)
    PROVE  Types' /\ OtherFrame /\ channel'.owner = channel.owner
<1> USE NoInstance DEF OtherFrame, callerVars, flagVars, fieldVars, instVars, readerVars, sessionVars,
        carrierVars, readyVars
<1>1. CASE RunDelayedConnect
  BY <1>1 DEF RunDelayedConnect, Types, ConnectPc
<1>2. CASE LooperConnect
  <2>1. PICK to \in ConnectPc \cup {"back"} :
           /\ ConnectStep(looper.inst, looper.at, to)
           /\ looper' = IF to = "back" THEN [at |-> "idle", inst |-> 0] ELSE [looper EXCEPT !.at = to]
    BY <1>2 DEF LooperConnect
  <2>2. looper.inst \in MaybeInstance
    BY DEF Types
  <2>3. /\ connected' \in BOOLEAN /\ readySession' \in MaybeInstance
        /\ channel' \in ChannelState /\ channel'.owner = channel.owner
        /\ carrier' \in [path: MaybeInstance, ready: BOOLEAN]
    BY <2>1, <2>2, ConnectTypes
  <2>4. looper' \in [at: {"idle", "dead"} \cup ConnectPc, inst: MaybeInstance]
    BY <2>1, <2>2 DEF Types
  <2> QED
    BY <1>2, <2>1, <2>3, <2>4 DEF LooperConnect, ConnectStep, Types
<1>3. CASE RunGracePeriod
  BY <1>3 DEF RunGracePeriod, Types
<1>4. CASE NetworkUnavailable
  <2>1. channel' \in ChannelState /\ channel'.owner = channel.owner
    <3>1. \/ UNCHANGED channel
          \/ channel' = [channel EXCEPT !.ready = FALSE, !.waitingForNetwork = TRUE, !.rtt = FALSE]
      BY <1>4 DEF NetworkUnavailable, ChannelNetworkLost
    <3>2. channel \in ChannelState
      BY DEF Types
    <3>3. CASE UNCHANGED channel
      BY <3>2, <3>3
    <3>4. CASE channel' # channel
      BY <3>1, <3>2, <3>4 DEF ChannelState
    <3> QED
      BY <3>3, <3>4
  <2>2. carrier' \in [path: MaybeInstance, ready: BOOLEAN]
    BY <1>4, CarrierTypes DEF NetworkUnavailable
  <2>3. outages' \in 0..MaxNet
    BY <1>4 DEF NetworkUnavailable, Types
  <2> QED
    BY <1>4, <2>1, <2>2, <2>3 DEF NetworkUnavailable, Types
<1>5. CASE LocalNetworkRestored
  <2>1. channel' \in ChannelState /\ channel'.owner = channel.owner
    <3>1. \/ UNCHANGED channel
          \/ channel' = [channel EXCEPT !.waitingForNetwork = FALSE, !.ready = TRUE]
      BY <1>5 DEF LocalNetworkRestored, ChannelLocalNetworkRestored
    <3>2. channel \in ChannelState
      BY DEF Types
    <3>3. CASE UNCHANGED channel
      BY <3>2, <3>3
    <3>4. CASE channel' # channel
      BY <3>1, <3>2, <3>4 DEF ChannelState
    <3> QED
      BY <3>3, <3>4
  <2>2. restored' \subseteq Instance
    <3>1. restored' = restored \/ (currentInstance # 0 /\ restored' = restored \cup {currentInstance})
      BY <1>5 DEF LocalNetworkRestored
    <3>2. restored \subseteq Instance /\ currentInstance \in Instance \cup {0}
      BY DEF Types, MaybeInstance
    <3> QED
      BY <3>1, <3>2
  <2> QED
    BY <1>5, <2>1, <2>2 DEF LocalNetworkRestored, Types
<1>6. CASE \E i \in Instance : CoreDies(i)
  BY <1>6 DEF CoreDies, Types
<1> QED
  BY <1>1, <1>2, <1>3, <1>4, <1>5, <1>6

LEMMA LooperDeadTypes ==
    ASSUME Types, LooperDead
    PROVE  /\ Types'
           /\ UNCHANGED <<callerVars, shuttingDown, launchGeneration, rejectedSession, fieldVars, instVars,
                          readerVars, channel, sessionVars, carrierVars, readyVars>>
           /\ looper'.at = "idle"
BY NoInstance DEF LooperDead, Types, callerVars, flagVars, fieldVars, instVars, readerVars, sessionVars,
                  carrierVars, readyVars

-----------------------------------------------------------------------------
(* Launches *)

\* What Prepare does to the launch, whichever way it leaves.
LEMMA PrepareMoves ==
    ASSUME Types, NEW c \in Caller, Prepare(c)
    PROVE  /\ launched' = launched + 1 /\ launched + 1 \in Instance /\ launched \in Nat
           /\ mine' = [mine EXCEPT ![c] = launched + 1] /\ held' = [held EXCEPT ![launched + 1] = TRUE]
           /\ pc' \in {[pc EXCEPT ![c] = "launch"], [pc EXCEPT ![c] = "fail"]}
           /\ pc[c] = "prepare" /\ UNCHANGED reader
<1>1. /\ launched' = launched + 1 /\ launched + 1 \in Instance /\ launched \in Nat
      /\ mine' = [mine EXCEPT ![c] = launched + 1] /\ held' = [held EXCEPT ![launched + 1] = TRUE]
      /\ pc[c] = "prepare" /\ UNCHANGED reader
  BY DEF Prepare, Types, Instance, MaybeInstance, readerVars
<1>2. Goto(c, "launch") \/ Goto(c, "fail")
  BY DEF Prepare
<1>3. pc' \in {[pc EXCEPT ![c] = "launch"], [pc EXCEPT ![c] = "fail"]}
  BY <1>2 DEF Goto
<1> QED
  BY <1>1, <1>3

LEMMA LaunchKept ==
    ASSUME Types, LaunchPart, NEW c \in Caller, CallStart(c) \/ CallStop(c) \/ CallerStep(c)
    PROVE  LaunchPart'
<1> USE NoInstance DEF Types, LaunchPart, LaunchPc
<1> USE DEF callerVars, flagVars, fieldVars, instVars, readerVars, sessionVars, carrierVars, readyVars, Goto, Return
<1>1. ASSUME CallStart(c) \/ CallStop(c) \/ StartCheck(c) \/ StartFlags(c)
      PROVE  LaunchPart'
  BY <1>1 DEF CallStart, CallStop, StartCheck, StartFlags
<1>2. ASSUME Prepare(c) PROVE LaunchPart'
  <2>1. /\ launched' = launched + 1 /\ launched + 1 \in Instance /\ launched \in Nat
        /\ mine' = [mine EXCEPT ![c] = launched + 1] /\ held' = [held EXCEPT ![launched + 1] = TRUE]
        /\ pc' \in {[pc EXCEPT ![c] = "launch"], [pc EXCEPT ![c] = "fail"]} /\ UNCHANGED reader
    BY <1>2, PrepareMoves
  <2>2. reader[launched + 1] = "none"
    BY <2>1
  <2>3. \A i \in Instance : i > launched' => reader'[i] = "none" /\ ~held'[i]
    BY <2>1
  <2>4. \A d \in Caller : pc'[d] \in LaunchPc => /\ mine'[d] \in Instance /\ mine'[d] <= launched'
                                                 /\ reader'[mine'[d]] = "none"
    <3> SUFFICES ASSUME NEW d \in Caller, pc'[d] \in LaunchPc
                 PROVE  /\ mine'[d] \in Instance /\ mine'[d] <= launched' /\ reader'[mine'[d]] = "none"
      OBVIOUS
    <3>1. CASE d = c
      BY <2>1, <2>2, <3>1
    <3>2. CASE d # c
      <4>1. pc'[d] = pc[d] /\ mine'[d] = mine[d]
        BY <2>1, <3>2
      <4>2. mine[d] \in Instance /\ mine[d] <= launched /\ reader[mine[d]] = "none"
        BY <4>1
      <4> HIDE DEF Types, LaunchPart
      <4>3. mine[d] <= launched + 1
        <5>1. mine[d] \in Nat
          BY <4>2
        <5> QED
          BY <2>1, <4>2, <5>1
      <4> QED
        BY <2>1, <4>1, <4>2, <4>3
    <3> QED
      BY <3>1, <3>2
  <2>5. \A d, e \in Caller : pc'[d] \in LaunchPc /\ pc'[e] \in LaunchPc /\ mine'[d] = mine'[e] => d = e
    BY <2>1
  <2> QED
    BY <2>3, <2>4, <2>5
<1>3. ASSUME Launch(c) \/ Recheck(c) \/ Publish(c) \/ Begin(c)
      PROVE  LaunchPart'
  BY <1>3 DEF Launch, Recheck, Publish, Begin
<1>4. ASSUME Attach(c) PROVE LaunchPart'
  <2>1. CASE pc' = [pc EXCEPT ![c] = "fail"] /\ UNCHANGED reader
    BY <1>4, <2>1 DEF Attach
  <2>2. CASE pc' = [pc EXCEPT ![c] = "idle"] /\ reader' = [reader EXCEPT ![mine[c]] = "read"]
    <3>1. UNCHANGED <<mine, launched, held>> /\ pc[c] = "attach"
      BY <1>4 DEF Attach
    <3>2. mine[c] \in Instance /\ mine[c] <= launched
      BY <3>1
    <3>3. \A i \in Instance : i # mine[c] => reader'[i] = reader[i]
      BY <2>2
    <3>4. \A i \in Instance : i > launched => reader'[i] = "none" /\ ~held[i]
      BY <3>2, <3>3
    <3>5. \A d \in Caller : pc'[d] \in LaunchPc => d # c /\ pc'[d] = pc[d]
      BY <2>2
    <3>6. \A d \in Caller : pc'[d] \in LaunchPc => mine[d] # mine[c]
      BY <3>1, <3>5
    <3>7. \A d \in Caller : pc'[d] \in LaunchPc =>
             mine[d] \in Instance /\ mine[d] <= launched /\ reader'[mine[d]] = "none"
      BY <3>3, <3>5, <3>6
    <3>8. \A d, e \in Caller : pc'[d] \in LaunchPc /\ pc'[e] \in LaunchPc /\ mine[d] = mine[e] => d = e
      BY <3>5
    <3> QED
      BY <3>1, <3>4, <3>7, <3>8
  <2> QED
    BY <1>4, <2>1, <2>2 DEF Attach
<1>5. ASSUME Fail(c) PROVE LaunchPart'
  BY <1>5 DEF Fail
<1>6. ASSUME StopFlags(c) \/ StopCancel(c) \/ StopDetach(c) \/ StopDestroy(c) \/ StopClear(c) \/ StopProcess(c)
      PROVE  LaunchPart'
  BY <1>6 DEF StopFlags, StopCancel, StopDetach, StopDestroy, StopClear, StopProcess
<1> QED
  BY <1>1, <1>2, <1>3, <1>4, <1>5, <1>6 DEF CallerStep

LEMMA ReaderKeepsLaunch ==
    ASSUME Types, LaunchPart, NEW i \in Instance, ReaderFrame(i), \A k \in Instance : held'[k] => held[k]
    PROVE  LaunchPart'
<1>1. PICK l \in ReaderPc \ {"none"} : reader' = [reader EXCEPT ![i] = l]
  BY DEF ReaderFrame
<1>2. UNCHANGED <<pc, mine, launched>> /\ reader[i] # "none"
  BY DEF ReaderFrame, callerVars
<1>3. \A k \in Instance : reader[k] = "none" => reader'[k] = "none"
  BY <1>1, <1>2 DEF Types
<1> QED
  BY <1>2, <1>3 DEF LaunchPart

\* Only the finally block of a reader changes what is held.
LEMMA ReaderHeld ==
    ASSUME Types, NEW i \in Instance, ReaderStep(i)
    PROVE  \/ UNCHANGED held /\ reader[i] # "final"
           \/ held' = [held EXCEPT ![i] = FALSE] /\ reader[i] = "final"
<1> USE DEF instVars, ConnectPc
<1>1. CASE ReaderConnect(i)
  <2>1. PICK to : ConnectStep(i, reader[i], to)
    BY <1>1 DEF ReaderConnect
  <2> QED
    BY <2>1 DEF ConnectStep
<1>2. CASE ReaderFinal(i)
  BY <1>2 DEF ReaderFinal
<1>3. CASE ReadLine(i) \/ ReadEof(i) \/ ReadSample(i) \/ LineListener(i) \/ LineDrop(i)
           \/ LineDropped(i) \/ LineFatal(i)
  BY <1>3 DEF ReadLine, ReadEof, ReadSample, LineListener, LineDrop, LineDropped, LineFatal
<1>4. CASE LineReject(i) \/ LineReady(i) \/ ReaderRelease(i) \/ ReaderWait(i) \/ ReaderExit(i)
  BY <1>4 DEF LineReject, LineReady, ReaderRelease, ReaderWait, ReaderExit
<1> QED
  BY <1>1, <1>2, <1>3, <1>4 DEF ReaderStep

-----------------------------------------------------------------------------
(* Engines *)

LEMMA HeldKept ==
    ASSUME Types, LaunchPart, HeldPart, NEW c \in Caller, CallStart(c) \/ CallStop(c) \/ CallerStep(c)
    PROVE  HeldPart'
<1> DEFINE Free == {"none", "release", "wait", "exit", "done"}
<1> USE NoInstance DEF Types, LaunchPc, Launching
<1> USE DEF callerVars, flagVars, fieldVars, instVars, readerVars, sessionVars, carrierVars, readyVars, Goto, Return
<1>1. ASSUME \/ CallStart(c) \/ CallStop(c) \/ StartCheck(c) \/ StartFlags(c)
             \/ StopFlags(c) \/ StopCancel(c) \/ StopDetach(c) \/ StopDestroy(c) \/ StopClear(c) \/ StopProcess(c)
      PROVE  HeldPart'
  <2>1. /\ \A i \in Instance : held'[i] => held[i]
        /\ UNCHANGED <<reader, mine>> /\ pc[c] \notin LaunchPc /\ \A d \in Caller : d # c => pc'[d] = pc[d]
    BY <1>1 DEF CallStart, CallStop, StartCheck, StartFlags, StopFlags, StopCancel, StopDetach,
                StopDestroy, StopClear, StopProcess
  <2> QED
    BY <2>1 DEF HeldPart
<1>2. ASSUME Prepare(c) PROVE HeldPart'
  <2>1. /\ launched + 1 \in Instance /\ UNCHANGED reader /\ pc[c] = "prepare"
        /\ mine' = [mine EXCEPT ![c] = launched + 1] /\ held' = [held EXCEPT ![launched + 1] = TRUE]
        /\ pc' \in {[pc EXCEPT ![c] = "launch"], [pc EXCEPT ![c] = "fail"]}
    BY <1>2, PrepareMoves
  <2> SUFFICES ASSUME NEW i \in Instance, held'[i]
               PROVE  reader'[i] \notin Free \/ \E d \in Caller : Launching(d, i)'
    BY DEF HeldPart
  <2>2. CASE i = launched + 1
    BY <2>1, <2>2
  <2>3. CASE i # launched + 1
    <3>1. held[i]
      BY <2>1, <2>3
    <3>2. CASE reader[i] \notin Free
      BY <2>1, <3>2
    <3>3. CASE \E d \in Caller : Launching(d, i)
      <4>1. PICK d \in Caller : Launching(d, i)
        BY <3>3
      <4>2. d # c /\ pc'[d] = pc[d] /\ mine'[d] = mine[d]
        BY <2>1, <4>1
      <4> QED
        BY <4>1, <4>2
    <3> QED
      BY <3>1, <3>2, <3>3 DEF HeldPart
  <2> QED
    BY <2>2, <2>3
<1>3. ASSUME Launch(c) \/ Recheck(c) \/ Publish(c) \/ Begin(c)
      PROVE  HeldPart'
  <2>1. /\ UNCHANGED <<held, reader, mine>> /\ pc'[c] \in LaunchPc /\ \A d \in Caller : d # c => pc'[d] = pc[d]
    BY <1>3 DEF Launch, Recheck, Publish, Begin
  <2> QED
    BY <2>1 DEF HeldPart
<1>4. ASSUME Attach(c) PROVE HeldPart'
  <2>1. /\ UNCHANGED <<held, mine>> /\ pc[c] = "attach"
        /\ \A d \in Caller : d # c => pc'[d] = pc[d]
        /\ \/ pc'[c] \in LaunchPc /\ UNCHANGED reader
           \/ reader' = [reader EXCEPT ![mine[c]] = "read"]
    BY <1>4 DEF Attach
  <2>2. mine[c] \in Instance /\ reader[mine[c]] = "none"
    BY <2>1 DEF LaunchPart
  <2> SUFFICES ASSUME NEW i \in Instance, held'[i]
               PROVE  reader'[i] \notin Free \/ \E d \in Caller : Launching(d, i)'
    BY DEF HeldPart
  <2>3. CASE reader' = [reader EXCEPT ![mine[c]] = "read"]
    <3>1. CASE i = mine[c]
      BY <2>2, <2>3, <3>1
    <3>2. CASE i # mine[c]
      BY <2>1, <2>3, <3>2 DEF HeldPart
    <3> QED
      BY <3>1, <3>2
  <2>4. CASE pc'[c] \in LaunchPc /\ UNCHANGED reader
    BY <2>1, <2>4 DEF HeldPart
  <2> QED
    BY <2>1, <2>3, <2>4
<1>5. ASSUME Fail(c) PROVE HeldPart'
  <2>1. /\ UNCHANGED <<reader, mine>> /\ held' = [held EXCEPT ![mine[c]] = FALSE]
        /\ \A d \in Caller : d # c => pc'[d] = pc[d]
    BY <1>5 DEF Fail
  <2> QED
    BY <2>1 DEF HeldPart
<1> QED
  BY <1>1, <1>2, <1>3, <1>4, <1>5 DEF CallerStep

LEMMA ReaderKeepsHeld ==
    ASSUME Types, HeldPart, NEW i \in Instance, ReaderStep(i)
    PROVE  HeldPart'
<1> DEFINE Free == {"none", "release", "wait", "exit", "done"}
<1>1. Types' /\ ReaderFrame(i)
  BY ReaderTypes
<1>2. UNCHANGED <<pc, mine>>
  BY <1>1 DEF ReaderFrame, callerVars
<1>3. \A k \in Instance : k # i => reader'[k] = reader[k]
  BY <1>1 DEF ReaderFrame, Types
<1>4. \A k \in Instance : held'[k] => held[k]
  BY ReaderHeld DEF Types
<1>5. held'[i] => reader'[i] \notin Free \/ reader[i] \in Free
  <2> USE DEF ReaderGo, Types, ConnectPc
  <2>1. CASE ReaderConnect(i)
    <3>1. PICK to \in ConnectPc \cup {"back"} : reader' = [reader EXCEPT ![i] = IF to = "back" THEN "read" ELSE to]
      BY <2>1 DEF ReaderConnect
    <3> QED
      BY <3>1
  <2>2. CASE ReaderFinal(i)
    BY <2>2, ReaderHeld DEF ReaderFinal
  <2>3. CASE ReadLine(i)
    <3>1. reader'[i] \in {"final", "listener", "drop", "fatal", "reject", "ready"}
      BY <2>3 DEF ReadLine
    <3> QED
      BY <3>1
  <2>5. CASE ReadEof(i) \/ ReadSample(i) \/ LineListener(i)
    BY <2>5 DEF ReadEof, ReadSample, LineListener
  <2>6. CASE LineDrop(i) \/ LineDropped(i) \/ LineFatal(i)
    <3>1. reader'[i] \in {"dropped", "fatal", "read"}
      BY <2>6 DEF LineDrop, LineDropped, LineFatal
    <3> QED
      BY <3>1
  <2>4. CASE LineReject(i) \/ LineReady(i) \/ ReaderRelease(i) \/ ReaderWait(i) \/ ReaderExit(i)
    BY ZenonT(60), <2>4 DEF LineReject, LineReady, ReaderRelease, ReaderWait, ReaderExit
  <2> QED
    BY <2>1, <2>2, <2>3, <2>4, <2>5, <2>6 DEF ReaderStep
<1> SUFFICES ASSUME NEW k \in Instance, held'[k]
             PROVE  reader'[k] \notin Free \/ \E d \in Caller : Launching(d, k)'
  BY DEF HeldPart
<1>6. reader[k] \notin Free \/ \E d \in Caller : Launching(d, k)
  BY <1>4 DEF HeldPart
<1>7. CASE reader[k] \notin Free
  BY <1>3, <1>5, <1>7
<1>8. CASE \E d \in Caller : Launching(d, k)
  BY <1>2, <1>8 DEF Launching
<1> QED
  BY <1>6, <1>7, <1>8

-----------------------------------------------------------------------------
(* Readiness *)

\* The readiness of the channel, and its fence.
ChannelPart == ReadyIsConfirmed /\ OutageFencesChannel

\* An update of the channel for instance i keeps it sound, where only an
\* instance that was confirmed or restored is made ready.
LEMMA ChannelKept ==
    ASSUME Types, ChannelPart, confirmed \subseteq confirmed', restored \subseteq restored', NEW i,
           \/ i \in confirmed' \cup restored' /\ (ChannelReady(i, TRUE, FALSE) \/ ChannelLocalNetworkRestored(i))
           \/ ChannelReady(i, FALSE, FALSE) \/ ChannelReady(i, FALSE, TRUE)
           \/ ChannelNetworkLost(i) \/ ChannelSample(i) \/ ChannelEnd(i) \/ ChannelBegin(i)
           \/ UNCHANGED channel
    PROVE  ChannelPart'
<1> USE DEF ChannelPart, ReadyIsConfirmed, OutageFencesChannel
<1>1. channel \in ChannelState
  BY DEF Types
<1> USE DEF ChannelState
<1>2. CASE i \in confirmed' \cup restored' /\ ChannelReady(i, TRUE, FALSE)
  BY <1>1, <1>2 DEF ChannelReady
<1>3. CASE i \in confirmed' \cup restored' /\ ChannelLocalNetworkRestored(i)
  BY <1>1, <1>3 DEF ChannelLocalNetworkRestored
<1>4. CASE ChannelReady(i, FALSE, FALSE)
  BY <1>1, <1>4 DEF ChannelReady
<1>5. CASE ChannelReady(i, FALSE, TRUE)
  BY <1>1, <1>5 DEF ChannelReady
<1>6. CASE ChannelNetworkLost(i)
  BY <1>1, <1>6 DEF ChannelNetworkLost
<1>7. CASE ChannelSample(i)
  BY <1>1, <1>7 DEF ChannelSample
<1>8. CASE ChannelEnd(i)
  BY <1>1, <1>8 DEF ChannelEnd, NoChannel
<1>9. CASE ChannelBegin(i)
  BY <1>1, <1>9 DEF ChannelBegin, NoChannel
<1>10. CASE UNCHANGED channel
  BY <1>10
<1> QED
  BY <1>2, <1>3, <1>4, <1>5, <1>6, <1>7, <1>8, <1>9, <1>10

\* A step that only lets confirmed instances with a reader get further.
LEMMA ReadyKept ==
    ASSUME Types, ReadyPart, confirmed \subseteq confirmed',
           \A k \in Instance : reader[k] # "none" => reader'[k] # "none" /\ session'[k] = session[k],
           \A k \in Instance : reader'[k] \in ConnectPc => k \in confirmed',
           \/ delayedConnect' \in {0, delayedConnect}
           \/ delayedConnect' \in confirmed' /\ reader'[delayedConnect'] # "none",
           \/ looper'.at \notin ConnectPc
           \/ looper.at \in ConnectPc /\ looper'.inst = looper.inst
           \/ delayedConnect # 0 /\ looper'.inst = delayedConnect,
           \/ readySession' \in {0, readySession}
           \/ \E k \in Instance : reader[k] # "none" /\ readySession' = session[k]
    PROVE  ReadyPart'
<1>1. delayedConnect' # 0 => delayedConnect' \in confirmed' /\ reader'[delayedConnect'] # "none"
  BY DEF ReadyPart, Types
<1>2. looper'.at \in ConnectPc => looper'.inst \in confirmed' /\ reader'[looper'.inst] # "none"
  BY DEF ReadyPart, Types
<1>3. readySession' # 0 => \E k \in Instance : session'[k] = readySession' /\ reader'[k] # "none"
  BY DEF ReadyPart
<1> QED
  BY <1>1, <1>2, <1>3 DEF ReadyPart

LEMMA CallerKeepsReady ==
    ASSUME Types, LaunchPart, ReadyPart, ChannelPart, NEW c \in Caller,
           CallStart(c) \/ CallStop(c) \/ CallerStep(c)
    PROVE  ReadyPart' /\ ChannelPart'
<1> DEFINE Step ==
        /\ UNCHANGED <<confirmed, restored, looper>>
        /\ \A k \in Instance : reader[k] # "none" => reader'[k] # "none" /\ session'[k] = session[k]
        /\ \A k \in Instance : reader'[k] \in ConnectPc => reader[k] \in ConnectPc
        /\ delayedConnect' \in {0, delayedConnect} /\ readySession' \in {0, readySession}
        /\ UNCHANGED channel \/ \E i : ChannelEnd(i) \/ ChannelBegin(i)
<1> USE NoInstance DEF Types, ConnectPc
<1> USE DEF callerVars, flagVars, fieldVars, instVars, readerVars, sessionVars, carrierVars, readyVars
<1>1. ASSUME \/ CallStart(c) \/ CallStop(c) \/ StartCheck(c) \/ StartFlags(c) \/ Launch(c) \/ Recheck(c)
             \/ Publish(c) \/ Fail(c)
      PROVE  Step
  BY <1>1 DEF CallStart, CallStop, StartCheck, StartFlags, Launch, Recheck, Publish, Fail
<1>2. ASSUME StopFlags(c) \/ StopCancel(c) \/ StopDetach(c) \/ StopClear(c) \/ StopProcess(c)
      PROVE  Step
  BY <1>2 DEF StopFlags, StopCancel, StopDetach, StopClear, StopProcess
<1>3. ASSUME Prepare(c) PROVE Step
  <2>1. /\ launched + 1 \in Instance /\ launched \in Nat
        /\ UNCHANGED <<confirmed, restored, looper, reader, delayedConnect, readySession, channel>>
        /\ session' = [session EXCEPT ![launched + 1] = currentSession]
    BY <1>3 DEF Prepare, Instance, MaybeInstance
  <2>2. reader[launched + 1] = "none"
    BY <2>1 DEF LaunchPart
  <2> QED
    BY <2>1, <2>2
<1>4. ASSUME Begin(c) PROVE Step
  BY <1>4 DEF Begin
<1>5. ASSUME Attach(c) PROVE Step
  BY <1>5 DEF Attach
<1>6. ASSUME StopDestroy(c) PROVE Step
  <2>1. /\ UNCHANGED <<confirmed, restored, looper, reader, session, delayedConnect>>
        /\ readySession' \in {0, readySession}
        /\ UNCHANGED channel \/ \E i : ChannelEnd(i)
    BY <1>6 DEF StopDestroy, ClearLocalProxyReady
  <2> QED
    BY <2>1
<1>7. Step
  BY <1>1, <1>2, <1>3, <1>4, <1>5, <1>6 DEF CallerStep
<1>8. ChannelPart'
  <2>1. confirmed \subseteq confirmed' /\ restored \subseteq restored'
    BY <1>7
  <2>2. CASE UNCHANGED channel
    BY <2>1, <2>2, ChannelKept
  <2>3. ASSUME NEW i, ChannelEnd(i) \/ ChannelBegin(i) PROVE ChannelPart'
    BY <2>1, <2>3, ChannelKept
  <2> QED
    BY <1>7, <2>2, <2>3
<1>9. \A k \in Instance : reader'[k] \in ConnectPc => k \in confirmed'
  BY <1>7 DEF ReadyPart
<1> HIDE DEF Types, ConnectPc
<1>10. ReadyPart'
  <2>1. looper'.at \notin ConnectPc \/ (looper.at \in ConnectPc /\ looper'.inst = looper.inst)
    BY <1>7
  <2> QED
    BY <1>7, <1>9, <2>1, ReadyKept
<1> QED
  BY <1>8, <1>10

\* The readiness handler marks the session of its own instance.
LEMMA ConnectKeepsReady ==
    ASSUME Types, ChannelPart, NEW i \in confirmed, NEW at, NEW to, ConnectStep(i, at, to)
    PROVE  /\ readySession' \in {readySession, session[i]}
           /\ UNCHANGED <<session, confirmed, restored, delayedConnect>>
           /\ ChannelPart'
<1>1. UNCHANGED <<session, confirmed, restored, delayedConnect>>
  BY DEF ConnectStep, fieldVars, instVars, readyVars
<1>2. readySession' \in {readySession, session[i]}
  BY DEF ConnectStep, ConnectCheck, ConnectSet, ConnectProxy, ConnectMark, ConnectPublish,
         MarkLocalProxyReady
<1>3. UNCHANGED channel \/ ChannelReady(i, TRUE, FALSE)
  BY DEF ConnectStep, ConnectCheck, ConnectSet, ConnectProxy, ConnectMark, ConnectPublish
<1> QED
  BY <1>1, <1>2, <1>3, ChannelKept

LEMMA ReaderKeepsReady ==
    ASSUME Types, ReadyPart, ChannelPart, NEW i \in Instance, ReaderStep(i)
    PROVE  ReadyPart' /\ ChannelPart'
<1> DEFINE Step ==
        /\ confirmed \subseteq confirmed' /\ UNCHANGED <<restored, session, looper>>
        /\ reader'[i] \in ConnectPc => i \in confirmed'
        /\ delayedConnect' \in {0, delayedConnect} \/ (delayedConnect' = i /\ i \in confirmed')
        /\ readySession' \in {0, readySession, session[i]}
        /\ ChannelPart'
<1>1. ReaderFrame(i)
  BY ReaderTypes
<1>2. /\ \A k \in Instance : reader[k] # "none" => reader'[k] # "none" /\ session'[k] = session[k]
      /\ \A k \in Instance : k # i => reader'[k] = reader[k]
      /\ reader[i] # "none" /\ reader'[i] # "none"
  BY <1>1 DEF ReaderFrame, Types
<1>3. Step
  <2> USE DEF fieldVars, instVars, readerVars, sessionVars, readyVars, ReaderGo
  <2>1. reader \in [Instance -> ReaderPc]
    BY DEF Types
  <2>2. CASE ReaderConnect(i)
    <3>1. PICK to \in ConnectPc \cup {"back"} :
             /\ ConnectStep(i, reader[i], to)
             /\ reader' = [reader EXCEPT ![i] = IF to = "back" THEN "read" ELSE to]
      BY <2>2 DEF ReaderConnect
    <3>2. i \in confirmed
      BY <3>1 DEF ConnectStep, ConnectPc, ReadyPart
    <3> QED
      BY <2>2, <3>1, <3>2, ConnectKeepsReady DEF ReaderConnect
  <2>3. CASE ReadLine(i) \/ ReadEof(i) \/ ReaderFinal(i) \/ ReaderWait(i)
    <3>1. /\ UNCHANGED <<confirmed, restored, session, looper, delayedConnect, readySession, channel>>
          /\ reader'[i] \in {"final", "listener", "drop", "fatal", "reject", "ready", "release", "wait",
                            "exit", "done"}
      BY <2>1, <2>3 DEF ReadLine, ReadEof, ReaderFinal, ReaderWait
    <3> QED
      BY <3>1, ChannelKept DEF ConnectPc
  <2>4. CASE LineListener(i) \/ LineDrop(i) \/ LineFatal(i) \/ ReaderExit(i)
    <3>1. /\ UNCHANGED <<confirmed, restored, session, looper, channel>>
          /\ readySession' \in {readySession, session[i]} /\ delayedConnect' \in {0, delayedConnect}
          /\ reader'[i] \in {"read", "dropped", "fatal", "done"}
      BY <2>1, <2>4 DEF LineListener, LineDrop, LineFatal, ReaderExit, MarkLocalProxyReady
    <3> QED
      BY <3>1, ChannelKept DEF ConnectPc
  <2>5. CASE ReadSample(i) \/ LineDropped(i) \/ LineReject(i) \/ ReaderRelease(i)
    <3>1. /\ UNCHANGED <<confirmed, restored, session, looper>>
          /\ readySession' \in {0, readySession} /\ delayedConnect' \in {0, delayedConnect}
          /\ reader'[i] \in {"read", "fatal", "wait"}
      BY <2>1, <2>5 DEF ReadSample, LineDropped, LineReject, ReaderRelease, ClearLocalProxyReady
    <3>2. ChannelSample(i) \/ ChannelReady(i, FALSE, FALSE) \/ ChannelReady(i, FALSE, TRUE) \/ ChannelEnd(i)
      BY <2>5 DEF ReadSample, LineDropped, LineReject, ReaderRelease
    <3>3. ChannelPart'
      BY <3>1, <3>2, ChannelKept
    <3> QED
      BY <3>1, <3>3 DEF ConnectPc
  <2>6. CASE LineReady(i)
    <3>1. UNCHANGED <<restored, session, looper, channel, readySession>>
      BY <2>6 DEF LineReady
    <3>2. \/ /\ UNCHANGED <<confirmed, restored, delayedConnect>> /\ reader'[i] = "read"
          \/ /\ confirmed' = confirmed \cup {i} /\ delayedConnect' \in {0, i}
      BY <2>1, <2>6 DEF LineReady
    <3>3. confirmed \subseteq confirmed' /\ ChannelPart'
      BY <3>1, <3>2, ChannelKept
    <3> QED
      BY <3>1, <3>2, <3>3 DEF ConnectPc
  <2> QED
    BY <2>2, <2>3, <2>4, <2>5, <2>6 DEF ReaderStep
<1>4. \A k \in Instance : reader'[k] \in ConnectPc => k \in confirmed'
  BY <1>2, <1>3 DEF ReadyPart
<1>5. \/ delayedConnect' \in {0, delayedConnect}
      \/ delayedConnect' \in confirmed' /\ reader'[delayedConnect'] # "none"
  BY <1>2, <1>3
<1>6. \/ readySession' \in {0, readySession}
      \/ \E k \in Instance : reader[k] # "none" /\ readySession' = session[k]
  BY <1>2, <1>3
<1>7. looper'.at \notin ConnectPc \/ (looper.at \in ConnectPc /\ looper'.inst = looper.inst)
  BY <1>3
<1> QED
  BY <1>2, <1>3, <1>4, <1>5, <1>6, <1>7, ReadyKept

LEMMA OtherKeepsReady ==
    ASSUME Types, ReadyPart, ChannelPart,
           \/ RunDelayedConnect \/ LooperConnect \/ RunGracePeriod \/ LooperDead
           \/ NetworkUnavailable \/ LocalNetworkRestored
           \/ \E i \in Instance : CoreDies(i)
    PROVE  ReadyPart' /\ ChannelPart'
<1> DEFINE Step ==
        /\ confirmed \subseteq confirmed' /\ UNCHANGED <<reader, session>>
        /\ delayedConnect' \in {0, delayedConnect}
        /\ \/ looper'.at \notin ConnectPc
           \/ looper.at \in ConnectPc /\ looper'.inst = looper.inst
           \/ delayedConnect # 0 /\ looper'.inst = delayedConnect
        /\ \/ readySession' = readySession
           \/ \E k \in Instance : reader[k] # "none" /\ readySession' = session[k]
        /\ ChannelPart'
<1>0. ASSUME Step PROVE ReadyPart' /\ ChannelPart'
  <2>1. \A k \in Instance : reader'[k] \in ConnectPc => k \in confirmed'
    BY <1>0 DEF ReadyPart
  <2> QED
    BY <1>0, <2>1, ReadyKept
<1> HIDE DEF Step
<1> USE DEF fieldVars, instVars, readerVars, sessionVars, readyVars
<1>1. CASE RunDelayedConnect
  <2>1. /\ UNCHANGED <<confirmed, restored, reader, session, readySession, channel>>
        /\ delayedConnect # 0 /\ delayedConnect' = 0 /\ looper'.inst = delayedConnect
    BY <1>1 DEF RunDelayedConnect
  <2>2. Step
    BY <2>1, ChannelKept DEF Step
  <2> QED
    BY <2>2, <1>0
<1>2. CASE LooperConnect
  <2>1. PICK to \in ConnectPc \cup {"back"} :
           /\ ConnectStep(looper.inst, looper.at, to)
           /\ looper' = IF to = "back" THEN [at |-> "idle", inst |-> 0] ELSE [looper EXCEPT !.at = to]
    BY <1>2 DEF LooperConnect
  <2>2. looper.at \in ConnectPc
    BY <2>1 DEF ConnectStep, ConnectPc
  <2>3. looper.inst \in confirmed /\ reader[looper.inst] # "none" /\ looper.inst \in Instance
    BY <2>2 DEF ReadyPart, Types
  <2>4. /\ readySession' \in {readySession, session[looper.inst]}
        /\ UNCHANGED <<session, confirmed, restored, delayedConnect>> /\ ChannelPart'
    BY <2>1, <2>3, ConnectKeepsReady
  <2>5. looper'.at \notin ConnectPc \/ looper'.inst = looper.inst
    BY <2>1 DEF ConnectPc, Types
  <2>6. UNCHANGED reader
    BY <1>2 DEF LooperConnect
  <2>7. Step
    BY <2>2, <2>3, <2>4, <2>5, <2>6 DEF Step
  <2> QED
    BY <2>7, <1>0
<1>3. CASE RunGracePeriod \/ LooperDead \/ \E i \in Instance : CoreDies(i)
  <2>1. /\ UNCHANGED <<confirmed, restored, reader, session, delayedConnect, readySession, channel>>
        /\ looper' = looper \/ looper'.at \notin ConnectPc
    BY <1>3 DEF RunGracePeriod, LooperDead, CoreDies, ConnectPc
  <2>2. Step
    BY <2>1, ChannelKept DEF Step
  <2> QED
    BY <2>2, <1>0
<1>4. CASE NetworkUnavailable
  <2>1. /\ UNCHANGED <<confirmed, restored, reader, session, delayedConnect, readySession, looper>>
        /\ UNCHANGED channel \/ \E i : ChannelNetworkLost(i)
    BY <1>4 DEF NetworkUnavailable
  <2>2. Step
    BY <2>1, ChannelKept DEF Step
  <2> QED
    BY <2>2, <1>0
<1>5. CASE LocalNetworkRestored
  <2>1. /\ UNCHANGED <<confirmed, reader, session, delayedConnect, readySession, looper>>
        /\ restored \subseteq restored'
        /\ UNCHANGED channel \/ \E i \in restored' : ChannelLocalNetworkRestored(i)
    BY <1>5 DEF LocalNetworkRestored
  <2>2. Step
    BY <2>1, ChannelKept DEF Step
  <2> QED
    BY <2>2, <1>0
<1> QED
  BY <1>1, <1>2, <1>3, <1>4, <1>5

-----------------------------------------------------------------------------
(* Calls that overlap *)

\* What any caller's step keeps of the others.
LEMMA CallerAlone ==
    ASSUME Types, LaunchPart, NEW c \in Caller, CallStart(c) \/ CallStop(c) \/ CallerStep(c)
    PROVE  /\ \A d \in Caller : d # c => pc'[d] = pc[d]
           /\ exposed \subseteq exposed'
           /\ \A d \in Caller : pc'[d] \in Window /\ mine[d] \notin exposed' =>
                 \A e \in Caller : e # d => pc'[e] \notin InTheWay
<1>1. PICK label \in CallerPc : Moved(c, label)
  BY CallerMoves
<1> QED
  BY <1>1 DEF Moved, Types

\* What caller c does to the fields that CallPart is about, by its position.
Effect(c) ==
    /\ pc[c] # "prepare" => UNCHANGED mine
    /\ pc[c] # "flags" => UNCHANGED myGen
    /\ pc[c] \notin {"flags", "stopFlags"} => UNCHANGED <<launchGeneration, shuttingDown>>
    /\ pc[c] \notin {"publish", "stopClear"} => UNCHANGED currentInstance
    /\ pc[c] \notin {"begin", "stopProcess"} => UNCHANGED process
    /\ pc[c] \notin {"launch", "fail", "stopDestroy"} => UNCHANGED alive
    /\ pc[c] \notin {"begin", "stopDestroy"} => UNCHANGED channel

StartEffect(c) ==
    /\ pc[c] = "idle" => pc'[c] \in {"check", "stopFlags"}
    /\ pc[c] = "check" => \/ pc'[c] = "stopFlags"
                          \/ pc'[c] = "flags" /\ (process = 0 \/ ~alive[process])
    /\ pc[c] = "flags" => /\ pc'[c] = "prepare" /\ ~shuttingDown'
                          /\ launchGeneration' = launchGeneration + 1
                          /\ myGen' = [myGen EXCEPT ![c] = launchGeneration + 1]
    /\ pc[c] = "prepare" => /\ pc'[c] = "fail" \/ (pc'[c] = "launch" /\ ~Stale(c))
                            /\ \A d \in Caller : d # c => mine'[d] = mine[d]
    /\ pc[c] = "launch" => \/ pc'[c] = "fail" /\ UNCHANGED alive
                           \/ /\ pc'[c] = "recheck" /\ ~Stale(c)
                              /\ alive' = [alive EXCEPT ![mine[c]] = TRUE]
    /\ pc[c] = "recheck" => pc'[c] = "fail" \/ (pc'[c] = "publish" /\ ~Stale(c) /\ ~shuttingDown)
    /\ pc[c] = "publish" => pc'[c] = "begin" /\ currentInstance' = mine[c]
    /\ pc[c] = "begin" => pc'[c] = "attach" /\ process' = mine[c] /\ channel'.owner = mine[c]
    /\ pc[c] = "attach" => pc'[c] \in {"idle", "fail"}
    /\ pc[c] = "fail" => pc'[c] = "idle" /\ alive' = [alive EXCEPT ![mine[c]] = FALSE]

StopEffect(c) ==
    /\ pc[c] = "stopFlags" => /\ pc'[c] = "stopCancel" /\ shuttingDown'
                              /\ launchGeneration' = launchGeneration + 1
    /\ pc[c] = "stopCancel" => pc'[c] = "stopDetach"
    /\ pc[c] = "stopDetach" => pc'[c] = "stopDestroy"
    /\ pc[c] = "stopDestroy" =>
          /\ pc'[c] = "stopClear"
          /\ \A i \in Instance : alive'[i] => alive[i] /\ i # currentInstance
          /\ channel'.owner = 0 \/ (channel'.owner = channel.owner /\ channel.owner # currentInstance)
    /\ pc[c] = "stopClear" => pc'[c] = "stopProcess" /\ currentInstance' = 0
    /\ pc[c] = "stopProcess" => pc'[c] \in {"flags", "idle"}

LEMMA CallerEffect ==
    ASSUME Types, NEW c \in Caller, CallStart(c) \/ CallStop(c) \/ CallerStep(c)
    PROVE  Effect(c) /\ StartEffect(c) /\ StopEffect(c)
<1> USE DEF Effect, StartEffect, StopEffect, callerVars, flagVars, fieldVars, instVars, Goto
<1>0. pc \in [Caller -> CallerPc] /\ mine \in [Caller -> MaybeInstance]
  BY DEF Types
<1>1. CASE CallStart(c) \/ CallStop(c)
  BY <1>0, <1>1 DEF CallStart, CallStop
<1>2. CASE StartCheck(c)
  BY <1>0, <1>2 DEF StartCheck
<1>3. CASE StartFlags(c)
  BY <1>0, <1>3 DEF StartFlags
<1>4. CASE Prepare(c)
  BY <1>0, <1>4 DEF Prepare, LaunchActive, Stale
<1>5. CASE Launch(c)
  BY <1>0, <1>5 DEF Launch, LaunchActive, Stale
<1>6. CASE Recheck(c)
  BY <1>0, <1>6 DEF Recheck, LaunchActive, Stale
<1>7. CASE Publish(c)
  BY <1>0, <1>7 DEF Publish
<1>8. CASE Begin(c)
  BY <1>0, <1>8 DEF Begin, ChannelBegin, NoChannel
<1>9. CASE Attach(c)
  BY <1>0, <1>9 DEF Attach, Return
<1>10. CASE Fail(c)
  BY <1>0, <1>10 DEF Fail, Return
<1>11. CASE StopFlags(c) \/ StopCancel(c) \/ StopDetach(c)
  BY <1>0, <1>11 DEF StopFlags, StopCancel, StopDetach
<1>12. CASE StopDestroy(c)
  <2>1. /\ \A i \in Instance : alive'[i] => alive[i] /\ i # currentInstance
        /\ channel'.owner = 0 \/ (channel'.owner = channel.owner /\ channel.owner # currentInstance)
    BY <1>12, NoInstance DEF StopDestroy, ChannelEnd, NoChannel, Types
  <2>2. pc[c] = "stopDestroy" /\ pc'[c] = "stopClear"
    BY <1>0, <1>12 DEF StopDestroy
  <2>3. UNCHANGED <<mine, myGen, launchGeneration, shuttingDown, currentInstance, process>>
    BY <1>12 DEF StopDestroy
  <2> QED
    BY <2>1, <2>2, <2>3
<1>13. CASE StopClear(c) \/ StopProcess(c)
  BY <1>0, <1>13 DEF StopClear, StopProcess, Return
<1> QED
  BY <1>1, <1>2, <1>3, <1>4, <1>5, <1>6, <1>7, <1>8, <1>9, <1>10, <1>11, <1>12, <1>13 DEF CallerStep

LEMMA GenerationKept ==
    ASSUME Types, LaunchPart, CallPart, NEW c \in Caller, CallStart(c) \/ CallStop(c) \/ CallerStep(c)
    PROVE  GenerationPart'
<1>1. /\ \A d \in Caller : d # c => pc'[d] = pc[d]
      /\ Effect(c) /\ StartEffect(c) /\ StopEffect(c)
  BY CallerAlone, CallerEffect
<1>2. pc[c] \in CallerPc /\ launchGeneration \in Nat /\ myGen \in [Caller -> Nat]
  BY DEF Types
<1>3. GenerationPart
  BY DEF CallPart
<1>4. CASE pc[c] = "flags"
  <2>1. /\ launchGeneration' = launchGeneration + 1 /\ myGen'[c] = launchGeneration + 1
        /\ \A d \in Caller : d # c => myGen'[d] = myGen[d]
    BY <1>1, <1>2, <1>4 DEF StartEffect
  <2> QED
    BY <1>1, <1>2, <1>3, <2>1 DEF GenerationPart
<1>5. CASE pc[c] # "flags"
  <2>1. UNCHANGED myGen
    BY <1>1, <1>5 DEF Effect
  <2>2. launchGeneration' \in {launchGeneration, launchGeneration + 1}
    BY <1>1, <1>5 DEF Effect, StopEffect
  <2>3. pc'[c] \in Spawning => pc[c] \in Spawning
    BY <1>1, <1>2, <1>5 DEF StartEffect, StopEffect, Spawning, CallerPc
  <2> QED
    BY <1>1, <1>2, <1>3, <2>1, <2>2, <2>3 DEF GenerationPart
<1> QED
  BY <1>4, <1>5

LEMMA WindowKept ==
    ASSUME Types, LaunchPart, CallPart, NEW c \in Caller, CallStart(c) \/ CallStop(c) \/ CallerStep(c)
    PROVE  WindowPart'
<1>1. /\ \A d \in Caller : d # c => pc'[d] = pc[d]
      /\ exposed \subseteq exposed'
      /\ \A d \in Caller : pc'[d] \in Window /\ mine[d] \notin exposed' =>
            \A e \in Caller : e # d => pc'[e] \notin InTheWay
      /\ Effect(c) /\ StartEffect(c) /\ StopEffect(c)
  BY CallerAlone, CallerEffect
<1>2. pc[c] \in CallerPc
  BY DEF Types
<1>3. GenerationPart /\ WindowPart
  BY DEF CallPart
<1> SUFFICES ASSUME NEW d \in Caller, pc'[d] \in Window, mine'[d] \notin exposed'
             PROVE  /\ \A e \in Caller \ {d} : pc'[e] \notin InTheWay /\ (pc'[e] \in Spawning => Stale(e)')
                    /\ ~shuttingDown'
                    /\ pc'[d] = "begin" => currentInstance' = mine'[d]
  BY DEF WindowPart
<1>4. CASE d = c
  <2>1. pc[c] \in {"recheck", "publish"}
    BY <1>1, <1>2, <1>4 DEF StartEffect, StopEffect, CallerPc, Window
  <2>2. UNCHANGED <<mine, myGen, launchGeneration, shuttingDown>>
    BY <1>1, <2>1 DEF Effect
  <2>3. \A e \in Caller \ {c} : pc'[e] \notin InTheWay /\ pc'[e] = pc[e]
    BY <1>1, <1>4, <2>2
  <2>4. CASE pc[c] = "recheck"
    <3>1. ~Stale(c) /\ ~shuttingDown /\ pc'[c] = "publish"
      BY <1>1, <1>4, <2>4 DEF StartEffect, Window
    <3>2. \A e \in Caller \ {c} : pc[e] \in Spawning => Stale(e)
      BY <1>3, <2>4, <3>1 DEF GenerationPart, Stale, Spawning
    <3> QED
      BY <1>4, <2>2, <2>3, <3>1, <3>2 DEF Stale
  <2>5. CASE pc[c] = "publish"
    <3>1. currentInstance' = mine[c]
      BY <1>1, <2>5 DEF StartEffect
    <3>2. /\ \A e \in Caller \ {c} : pc[e] \in Spawning => Stale(e)
          /\ ~shuttingDown
      BY <1>1, <1>3, <1>4, <2>2, <2>5 DEF WindowPart, Window
    <3> QED
      BY <1>4, <2>2, <2>3, <3>1, <3>2 DEF Stale
  <2> QED
    BY <2>1, <2>4, <2>5
<1>5. CASE d # c
  <2>1. pc'[d] = pc[d] /\ mine'[d] = mine[d]
    BY <1>1, <1>5 DEF Effect, StartEffect
  <2>2. /\ \A e \in Caller \ {d} : pc[e] \notin InTheWay /\ (pc[e] \in Spawning => Stale(e))
        /\ ~shuttingDown
        /\ pc[d] = "begin" => currentInstance = mine[d]
    BY <1>1, <1>3, <2>1 DEF WindowPart
  <2>3. \A e \in Caller \ {d} : pc'[e] \notin InTheWay
    BY <1>1, <2>1
  <2>4. pc[c] \notin InTheWay /\ pc'[c] \notin InTheWay
    BY <1>5, <2>2, <2>3
  <2>5. pc[c] \notin {"flags", "stopFlags", "publish", "stopClear"}
    BY <1>1, <2>4 DEF InTheWay, Window, StopEffect
  <2>6. UNCHANGED <<myGen, launchGeneration, shuttingDown, currentInstance>>
    BY <1>1, <2>5 DEF Effect
  <2>7. pc'[c] \in Spawning => pc[c] \in Spawning
    BY <1>1, <1>2, <2>5 DEF StartEffect, StopEffect, Spawning, CallerPc
  <2>8. \A e \in Caller \ {d} : pc'[e] \in Spawning => Stale(e)
    BY <1>1, <1>5, <2>2, <2>7
  <2> QED
    BY <2>1, <2>2, <2>3, <2>6, <2>8 DEF Stale
<1> QED
  BY <1>4, <1>5

LEMMA CoreKept ==
    ASSUME Types, LaunchPart, CallPart, NEW c \in Caller, CallStart(c) \/ CallStop(c) \/ CallerStep(c)
    PROVE  CorePart'
<1>1. /\ \A d \in Caller : d # c => pc'[d] = pc[d]
      /\ exposed \subseteq exposed'
      /\ \A d \in Caller : pc'[d] \in Window /\ mine[d] \notin exposed' =>
            \A e \in Caller : e # d => pc'[e] \notin InTheWay
      /\ Effect(c) /\ StartEffect(c) /\ StopEffect(c)
  BY CallerAlone, CallerEffect
<1>2. pc[c] \in CallerPc /\ alive \in [Instance -> BOOLEAN] /\ launchGeneration \in Nat
  BY DEF Types
<1>3. GenerationPart /\ WindowPart /\ \A i \in Instance \ exposed : alive[i] /\ ~Owned(i) => Reached(i)
  BY DEF CallPart, CorePart
<1> SUFFICES ASSUME NEW i \in Instance, i \notin exposed', alive'[i], ~Owned(i)'
             PROVE  Reached(i)'
  BY DEF CorePart
<1>4. i \notin exposed
  BY <1>1
<1>5. \A d \in Caller : d # c => mine'[d] = mine[d]
  BY <1>1 DEF Effect, StartEffect
<1>6. alive[i]
  <2>1. CASE pc[c] = "launch"
    <3>1. UNCHANGED mine
      BY <1>1, <2>1 DEF Effect
    <3>2. CASE pc'[c] = "recheck" /\ alive' = [alive EXCEPT ![mine[c]] = TRUE]
      BY <1>2, <3>1, <3>2 DEF Owned
    <3> QED
      BY <1>1, <2>1, <3>2 DEF StartEffect
  <2>2. CASE pc[c] # "launch"
    BY <1>1, <1>2, <2>2 DEF Effect, StartEffect, StopEffect
  <2> QED
    BY <2>1, <2>2
<1>7. CASE Owned(i)
  <2>1. pc[c] \in {"recheck", "publish", "fail"} /\ mine[c] = i
    BY <1>1, <1>5, <1>7 DEF Owned
  <2>2. UNCHANGED mine
    BY <1>1, <2>1 DEF Effect
  <2>3. pc[c] # "recheck"
    BY <1>1, <2>1, <2>2 DEF StartEffect, Owned
  <2>4. pc[c] # "fail"
    <3>1. pc[c] = "fail" => alive' = [alive EXCEPT ![i] = FALSE]
      BY <1>1, <2>1 DEF StartEffect
    <3> QED
      BY <1>2, <3>1
  <2>5. pc[c] = "publish" /\ pc'[c] = "begin" /\ currentInstance' = i
    BY <1>1, <2>1, <2>3, <2>4 DEF StartEffect
  <2>6. /\ \A d \in Caller \ {c} : pc[d] \notin InTheWay /\ (pc[d] \in Spawning => Stale(d))
        /\ ~shuttingDown
    BY <1>3, <1>4, <2>1, <2>5 DEF WindowPart, Window
  <2>7. UNCHANGED <<myGen, launchGeneration, shuttingDown>>
    BY <1>1, <2>5 DEF Effect
  <2>8. \A d \in Caller : /\ pc'[d] \notin {"stopClear", "stopProcess", "flags", "publish"}
                          /\ pc'[d] = "begin" => mine'[d] = i
                          /\ pc'[d] \in Spawning => Stale(d)'
    BY <1>1, <2>1, <2>2, <2>5, <2>6, <2>7 DEF InTheWay, Window, Spawning, Stale
  <2> QED
    BY <2>1, <2>2, <2>5, <2>6, <2>7, <2>8 DEF Reached
<1>8. CASE ~Owned(i)
  <2>1. Reached(i)
    BY <1>3, <1>4, <1>6, <1>8
  <2>2. pc[c] \notin {"stopClear", "stopProcess", "flags", "publish", "stopDestroy"}
    BY <1>1, <2>1 DEF Reached, StopEffect
  <2>3. UNCHANGED currentInstance /\ UNCHANGED myGen
    BY <1>1, <2>2 DEF Effect
  <2>4. process' = i \/ \E d \in Caller : pc'[d] = "begin" /\ mine'[d] = i
    <3>1. CASE pc[c] = "begin"
      BY <1>1, <2>1, <3>1 DEF Reached, StartEffect
    <3>2. CASE pc[c] # "begin" /\ process = i
      BY <1>1, <2>2, <3>2 DEF Effect
    <3>3. CASE pc[c] # "begin" /\ process # i
      BY <1>1, <1>5, <2>1, <3>3 DEF Reached
    <3> QED
      BY <3>1, <3>2, <3>3
  <2>5. pc'[c] # "flags"
    <3>1. CASE pc[c] = "check" /\ process = i
      BY <1>1, <1>6, <3>1, NoInstance DEF StartEffect
    <3>2. CASE pc[c] = "check" /\ process # i
      <4>1. PICK d \in Caller : pc[d] = "begin" /\ mine[d] = i
        BY <2>1, <3>2 DEF Reached
      <4>2. d # c /\ pc'[d] \in Window /\ mine[d] \notin exposed'
        BY <1>1, <3>2, <4>1 DEF Window
      <4>3. pc'[c] \notin InTheWay
        BY <1>1, <4>2
      <4> QED
        BY <4>3 DEF InTheWay
    <3>3. CASE pc[c] # "check"
      BY <1>1, <1>2, <2>2, <3>3 DEF StartEffect, StopEffect, CallerPc
    <3> QED
      BY <3>1, <3>2, <3>3
  <2>6. pc[c] \in Spawning => pc'[c] = "fail"
    BY <1>1, <2>1 DEF Reached, StartEffect, Spawning
  <2>7. /\ pc'[c] \notin {"stopClear", "stopProcess", "flags", "publish", "begin"}
        /\ pc'[c] \notin Spawning
    BY <1>1, <1>2, <2>2, <2>5, <2>6 DEF StartEffect, StopEffect, Spawning, CallerPc
  <2>8. \A d \in Caller : d # c /\ pc[d] \in Spawning => Stale(d)'
    <3>1. launchGeneration' \in {launchGeneration, launchGeneration + 1}
      BY <1>1, <2>2 DEF Effect, StopEffect
    <3>2. \A d \in Caller : myGen[d] \in Nat /\ myGen[d] <= launchGeneration
      BY <1>3 DEF GenerationPart, Types
    <3> QED
      BY <1>2, <2>1, <2>3, <3>1, <3>2 DEF Reached, Stale
  <2>9. \A d \in Caller : /\ pc'[d] \notin {"stopClear", "stopProcess", "flags", "publish"}
                          /\ pc'[d] = "begin" => mine'[d] = i
                          /\ pc'[d] \in Spawning => Stale(d)'
    BY <1>1, <1>5, <2>1, <2>7, <2>8 DEF Reached
  <2>10. shuttingDown' => \E d \in Caller : pc'[d] \in {"stopCancel", "stopDetach", "stopDestroy"}
    <3>1. CASE pc[c] \in {"stopFlags", "stopCancel", "stopDetach"}
      BY <1>1, <3>1 DEF StopEffect
    <3>2. CASE pc[c] \notin {"stopFlags", "stopCancel", "stopDetach"}
      <4>1. UNCHANGED shuttingDown
        BY <1>1, <2>2, <3>2 DEF Effect
      <4> QED
        BY <1>1, <2>1, <2>2, <3>2, <4>1 DEF Reached
    <3> QED
      BY <3>1, <3>2
  <2>11. currentInstance' = i
    BY <2>1, <2>3 DEF Reached
  <2> QED
    BY <2>4, <2>9, <2>10, <2>11 DEF Reached
<1> QED
  BY <1>7, <1>8

LEMMA OwnerKept ==
    ASSUME Types, LaunchPart, CallPart, NEW c \in Caller, CallStart(c) \/ CallStop(c) \/ CallerStep(c)
    PROVE  OwnerPart'
<1>1. /\ \A d \in Caller : d # c => pc'[d] = pc[d]
      /\ exposed \subseteq exposed'
      /\ Effect(c) /\ StartEffect(c) /\ StopEffect(c)
  BY CallerAlone, CallerEffect
<1>2. pc[c] \in CallerPc
  BY DEF Types
<1>3. WindowPart /\ OwnerPart
  BY DEF CallPart
<1>4. CASE pc[c] = "begin"
  <2>1. channel'.owner = mine[c] /\ pc'[c] = "attach" /\ UNCHANGED currentInstance
    BY <1>1, <1>4 DEF Effect, StartEffect
  <2>2. CASE mine[c] \in exposed
    BY <1>1, <2>1, <2>2 DEF OwnerPart
  <2>3. CASE mine[c] \notin exposed
    <3>1. currentInstance = mine[c] /\ \A d \in Caller \ {c} : pc[d] \notin InTheWay
      BY <1>3, <1>4, <2>3 DEF WindowPart, Window
    <3>2. \A d \in Caller : pc'[d] # "stopClear"
      BY <1>1, <2>1, <3>1 DEF InTheWay
    <3> QED
      BY <2>1, <3>1, <3>2 DEF OwnerPart
  <2> QED
    BY <2>2, <2>3
<1>5. CASE pc[c] # "begin"
  <2>1. Beginning => Beginning'
    BY <1>1, <1>5 DEF Beginning
  <2>2. channel'.owner \in {0, channel.owner}
    BY <1>1, <1>5 DEF Effect, StopEffect
  <2>3. CASE pc[c] = "publish"
    <3>1. Beginning'
      BY <1>1, <2>3 DEF StartEffect, Beginning
    <3> QED
      BY <3>1 DEF OwnerPart
  <2>4. CASE pc[c] = "stopClear"
    <3>1. channel.owner \in {0} \cup exposed \/ Beginning
      BY <1>3, <2>4 DEF OwnerPart
    <3> QED
      BY <1>1, <2>1, <2>2, <3>1 DEF OwnerPart
  <2>5. CASE pc[c] = "stopDestroy"
    <3>1. channel'.owner = 0 \/ (channel'.owner = channel.owner /\ channel.owner # currentInstance)
      BY <1>1, <2>5 DEF StopEffect
    <3>2. channel'.owner \in {0} \cup exposed' \/ Beginning'
      BY <1>1, <1>3, <2>1, <3>1 DEF OwnerPart
    <3> QED
      BY <3>2 DEF OwnerPart
  <2>6. CASE pc[c] \notin {"publish", "stopClear", "stopDestroy"}
    <3>1. UNCHANGED currentInstance
      BY <1>1, <2>6 DEF Effect
    <3>2. pc'[c] # "stopClear"
      BY <1>1, <1>2, <1>5, <2>6 DEF StartEffect, StopEffect, CallerPc
    <3> QED
      BY <1>1, <1>3, <2>1, <2>2, <3>1, <3>2 DEF OwnerPart
  <2> QED
    BY <2>3, <2>4, <2>5, <2>6
<1> QED
  BY <1>4, <1>5

\* No other step touches a caller or starts a core, or gives the channel away.
LEMMA OthersKeepCalls ==
    ASSUME CallPart,
           UNCHANGED <<pc, mine, myGen, launchGeneration, exposed, shuttingDown, currentInstance, process>>,
           \A i \in Instance : alive'[i] => alive[i], channel'.owner \in {0, channel.owner}
    PROVE  CallPart'
<1>1. GenerationPart' /\ WindowPart'
  BY DEF CallPart, GenerationPart, WindowPart, Stale
<1>2. CorePart'
  BY DEF CallPart, CorePart, Reached, Owned, Stale
<1>3. OwnerPart'
  BY DEF CallPart, OwnerPart, Beginning
<1> QED
  BY <1>1, <1>2, <1>3 DEF CallPart

-----------------------------------------------------------------------------
(* The steps together *)

LEMMA InitIInv ==
    ASSUME Init
    PROVE  IInv
<1>1. Types
  <2>1. /\ calls \in 0..MaxCalls /\ lines \in 0..MaxLines /\ outages \in 0..MaxNet
        /\ launchGeneration \in Nat
    BY DEF Init
  <2>2. /\ lock \in Caller \cup {"nobody"}
        /\ pc \in [Caller -> CallerPc] /\ back \in [Caller -> {"flags", "idle"}]
        /\ mine \in [Caller -> MaybeInstance] /\ myGen \in [Caller -> Nat]
    BY NoInstance DEF Init, CallerPc
  <2>3. /\ alive \in [Instance -> BOOLEAN] /\ cancelled \in [Instance -> BOOLEAN]
        /\ held \in [Instance -> BOOLEAN] /\ session \in [Instance -> MaybeInstance]
        /\ reader \in [Instance -> ReaderPc]
    BY NoInstance DEF Init, ReaderPc
  <2>4. /\ looper \in [at: {"idle", "dead"} \cup ConnectPc, inst: MaybeInstance]
        /\ channel \in ChannelState /\ carrier \in [path: MaybeInstance, ready: BOOLEAN]
        /\ confirmed \subseteq Instance /\ restored \subseteq Instance /\ exposed \subseteq Instance
    BY NoInstance DEF Init, NoChannel, ChannelState
  <2>5. /\ shuttingDown \in BOOLEAN /\ running \in BOOLEAN /\ connected \in BOOLEAN
        /\ rejectedSession = 0 /\ currentInstance = 0 /\ process = 0 /\ delayedConnect = 0
        /\ gracePeriod = 0 /\ launched = 0 /\ currentSession = 0 /\ readySession = 0 /\ carrierPath = 0
    BY DEF Init
  <2> QED
    BY <2>1, <2>2, <2>3, <2>4, <2>5, NoInstance DEF Types
<1>2. TypeOK
  BY <1>1, TypesAreTypes
<1>3. LaunchPart
  BY DEF Init, LaunchPart, LaunchPc
<1>4. ReadyPart
  BY DEF Init, ReadyPart, ConnectPc
<1>5. ReadyIsConfirmed /\ OutageFencesChannel
  BY DEF Init, ReadyIsConfirmed, OutageFencesChannel, NoChannel
<1>6. HeldPart
  BY DEF Init, HeldPart
<1>7. CallPart
  BY DEF Init, CallPart, GenerationPart, WindowPart, Window, Spawning, CorePart, OwnerPart, NoChannel
<1> QED
  BY <1>2, <1>3, <1>4, <1>5, <1>6, <1>7 DEF IInv

\* The parts of the invariant, in the form the lemmas use.
Parts == Types /\ LaunchPart /\ ReadyPart /\ ChannelPart /\ HeldPart /\ CallPart

LEMMA IInvParts == IInv <=> Parts
BY TypesAreTypes DEF IInv, Parts, ChannelPart

LEMMA CallerKeeps ==
    ASSUME Parts, NEW c \in Caller, CallStart(c) \/ CallStop(c) \/ CallerStep(c)
    PROVE  Parts'
<1>1. Types' /\ LaunchPart' /\ HeldPart'
  BY CallerTypes, LaunchKept, HeldKept DEF Parts
<1>2. ReadyPart' /\ ChannelPart'
  BY CallerKeepsReady DEF Parts
<1>3. CallPart'
  <2>1. GenerationPart' /\ WindowPart' /\ CorePart' /\ OwnerPart'
    BY GenerationKept, WindowKept, CoreKept, OwnerKept DEF Parts
  <2> QED
    BY <2>1 DEF CallPart
<1> QED
  BY <1>1, <1>2, <1>3 DEF Parts

LEMMA ReaderKeeps ==
    ASSUME Parts, NEW i \in Instance, ReaderStep(i)
    PROVE  Parts'
<1>1. Types' /\ ReaderFrame(i) /\ channel'.owner \in {0, channel.owner}
  BY ReaderTypes DEF Parts
<1>2. \A k \in Instance : held'[k] => held[k]
  BY ReaderHeld DEF Parts, Types
<1>3. LaunchPart' /\ HeldPart'
  BY <1>1, <1>2, ReaderKeepsLaunch, ReaderKeepsHeld DEF Parts
<1>4. ReadyPart' /\ ChannelPart'
  BY ReaderKeepsReady DEF Parts
<1>5. CallPart'
  BY <1>1, OthersKeepCalls DEF Parts, ReaderFrame, callerVars
<1> QED
  BY <1>1, <1>3, <1>4, <1>5 DEF Parts

\* A runnable that marks a session does it for an instance.
LEMMA LooperHasInstance ==
    ASSUME Types, ReadyPart, looper.at = "mark"
    PROVE  looper.inst # 0
BY NoInstance DEF Types, ReadyPart, ConnectPc

LEMMA OtherKeeps ==
    ASSUME Parts,
           \/ RunDelayedConnect \/ LooperConnect \/ RunGracePeriod \/ LooperDead
           \/ NetworkUnavailable \/ LocalNetworkRestored
           \/ \E i \in Instance : CoreDies(i)
    PROVE  Parts'
<1>1. /\ Types'
      /\ UNCHANGED <<pc, mine, myGen, launchGeneration, exposed, shuttingDown, currentInstance, process,
                     launched, held, reader>>
      /\ channel'.owner = channel.owner
  <2>1. CASE LooperDead
    BY <2>1, LooperDeadTypes DEF Parts, callerVars, fieldVars, instVars, readerVars
  <2>2. CASE ~LooperDead
    BY <2>2, LooperHasInstance, OtherTypes DEF Parts, OtherFrame, callerVars
  <2> QED
    BY <2>1, <2>2
<1>2. LaunchPart' /\ HeldPart'
  BY <1>1 DEF Parts, LaunchPart, HeldPart, Launching
<1>3. ReadyPart' /\ ChannelPart'
  BY OtherKeepsReady DEF Parts
<1>4. \A i \in Instance : alive'[i] => alive[i]
  <2>1. CASE \E i \in Instance : CoreDies(i)
    BY <2>1 DEF CoreDies, Parts, Types
  <2>2. CASE ~\E i \in Instance : CoreDies(i)
    BY <2>2 DEF RunDelayedConnect, LooperConnect, RunGracePeriod, LooperDead, NetworkUnavailable,
                LocalNetworkRestored, ConnectStep, instVars
  <2> QED
    BY <2>1, <2>2
<1>5. CallPart'
  BY <1>1, <1>4, OthersKeepCalls DEF Parts
<1> QED
  BY <1>1, <1>2, <1>3, <1>5 DEF Parts

LEMMA StepIInv ==
    ASSUME IInv, [Next]_vars
    PROVE  IInv'
<1>1. Parts
  BY IInvParts
<1>2. ASSUME \E c \in Caller : CallStart(c) \/ CallStop(c) \/ CallerStep(c)
      PROVE  Parts'
  BY <1>1, <1>2, CallerKeeps
<1>3. ASSUME \E i \in Instance : ReaderStep(i)
      PROVE  Parts'
  BY <1>1, <1>3, ReaderKeeps
<1>4. ASSUME LooperStep \/ NetworkUnavailable \/ LocalNetworkRestored \/ \E i \in Instance : CoreDies(i)
      PROVE  Parts'
  BY <1>1, <1>4, OtherKeeps DEF LooperStep
<1>5. ASSUME UNCHANGED vars
      PROVE  Parts'
  BY <1>1, <1>5 DEF vars, callerVars, flagVars, fieldVars, instVars, readerVars, sessionVars, carrierVars, readyVars,
         Parts, Types, LaunchPart, ReadyPart, ChannelPart, ReadyIsConfirmed, OutageFencesChannel,
         HeldPart, Launching, CallPart, GenerationPart, WindowPart, CorePart, Reached, Owned, OwnerPart,
         Beginning, Stale
<1>6. Parts'
  BY <1>2, <1>3, <1>4, <1>5 DEF Next
<1>7. (IInv <=> Parts)'
  BY TypesAreTypes, PTL DEF IInv, Parts, ChannelPart
<1> QED
  BY <1>6, <1>7

-----------------------------------------------------------------------------
(* The theorems *)

\* The inductive invariant holds of every reachable state, whether or not the
\* callers of start() and stop() exclude each other.
THEOREM Inductive == Spec => []IInv
<1>1. Init => IInv
  BY InitIInv
<1>2. IInv /\ [Next]_vars => IInv'
  BY StepIInv
<1> QED
  BY <1>1, <1>2, PTL DEF Spec

\* Type correctness of the supervisor's fields and of what it publishes.
THEOREM SupervisorTypeCorrect == Spec => []TypeOK
<1>1. IInv => TypeOK
  BY DEF IInv
<1> QED
  BY <1>1, Inductive, PTL

\* For every number of callers, launches and late lines: a channel shown as ready
\* was reported ready by the very process that owns it, or the service restored it
\* itself after an outage.
THEOREM ReadyIsReported == Spec => []ReadyIsConfirmed
<1>1. IInv => ReadyIsConfirmed
  BY DEF IInv
<1> QED
  BY <1>1, Inductive, PTL

\* For every number of outages: while its instance waits for the network the
\* channel is neither ready nor has a round trip time.
THEOREM OutageIsFenced == Spec => []OutageFencesChannel
<1>1. IInv => OutageFencesChannel
  BY DEF IInv
<1> QED
  BY <1>1, Inductive, PTL

\* The session that getReady() names always had a core launched for it.
THEOREM ReadySessionWasLaunched == Spec => []ReadySessionHasCore
<1>1. IInv => ReadySessionHasCore
  BY DEF IInv, ReadyPart, ReadySessionHasCore
<1> QED
  BY <1>1, Inductive, PTL

\* Between calls whoever still holds engines, a route file and an app server is a
\* launch whose reader will release them.
THEOREM EnginesAreReleased == Spec => []NoLeakedEngines
<1>1. IInv => NoLeakedEngines
  BY DEF IInv, HeldPart, Launching, LaunchPc, Quiet, NoLeakedEngines
<1> QED
  BY <1>1, Inductive, PTL

\* However many callers of start() and stop() overlap, with or without a monitor: no
\* call leaves a core behind that the supervisor can no longer stop, unless that core
\* met another call between its last check and its publication.
THEOREM NoCoreIsOrphaned == Spec => []NoOrphan
<1>1. IInv => NoOrphan
  BY DEF IInv, CallPart, CorePart, Reached, Owned, Quiet, NoOrphan
<1> QED
  BY <1>1, Inductive, PTL

\* However many calls overlap, once they are over and the last word was a stop no
\* core runs, but for one that met another call in that window.
THEOREM StopIsComplete == Spec => []StopLeavesNoCore
<1>1. IInv => StopLeavesNoCore
  BY DEF IInv, CallPart, CorePart, Reached, Owned, Quiet, StopLeavesNoCore
<1> QED
  BY <1>1, Inductive, PTL

\* However many calls overlap, between them the channel is the current instance's
\* whatever the readers of earlier instances still do, or that of a core that met
\* another call in the window.
THEOREM ChannelIsCurrent == Spec => []ChannelFollowsInstance
<1>1. IInv => ChannelFollowsInstance
  BY DEF IInv, CallPart, OwnerPart, Beginning, Quiet, ChannelFollowsInstance
<1> QED
  BY <1>1, Inductive, PTL
=============================================================================
