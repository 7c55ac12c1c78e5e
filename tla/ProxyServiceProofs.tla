-------------------------- MODULE ProxyServiceProofs --------------------------
(***************************************************************************)
(* Proofs about ProxyService for every number of service objects, accepted *)
(* starts, waiting events and changes of the sharing settings, in both     *)
(* routing modes: no interleaving of stopProxy, which takes no lock, with  *)
(* a start leaves isProxyStarting set when every thread is done.           *)
(***************************************************************************)
EXTENDS ProxyService, TLAPS

USE ProxyAssumption

-----------------------------------------------------------------------------
(* The inductive invariant *)

\* A start that was not accepted yet has no coroutine; a coroutine works for a
\* service object that was made.
JobPart ==
    \A n \in Starts :
        /\ n > session => job[n].pc = "none" /\ job[n].svc = 0 /\ ~job[n].cancelled
        /\ job[n].pc # "none" => job[n].svc \in 1..made

\* startupJob is a coroutine of its own service object; objects are made in order.
ObjectPart ==
    /\ service <= made
    /\ destroying => service # 0
    /\ \A i \in Services :
          /\ startupJob[i] # 0 => startupJob[i] <= session /\ job[startupJob[i]].svc = i
          /\ i > made => ~alreadyStopping[i]

\* Who is inside stopProxy: a coroutine that stops itself, or the main looper,
\* which accepts no start meanwhile.
StopperPart ==
    /\ \A t \in Threads : stopper[t].pc # "idle" => stopper[t].svc \in 1..made
    /\ \A n \in Starts : stopper[n].pc # "idle" => job[n].pc = "stopping" /\ ~stopper[n].destroy
    /\ stopper[Main].pc \notin {"idle", "flags"} => ~isProxyStarting

\* Events only wait for a service object that collects them.
EventPart == bus > 0 => service # 0

FlagsPending == \E t \in Threads : stopper[t].pc = "flags"

StartupPc == {"new", "begin", "spawn", "publish", "launched", "wait", "decide", "running", "timeout"}

\* Coroutine n of the service object has yet to settle its start.
Settles(n) == job[n].pc \in StartupPc /\ job[n].svc = service /\ ~job[n].cancelled

\* Coroutine n is inside stopProxy of the service object, past the flags: it will
\* ask for onDestroy.
EndsService(n) == stopper[n].pc \in {"cancel", "bridge", "core", "self"} /\ stopper[n].svc = service

\* Somebody will clear isProxyStarting: a stopProxy about to clear the flags, the
\* coroutine of the start, onDestroy, or a stopProxy that leads to onDestroy.
Cleared == FlagsPending \/ destroying \/ \E n \in Starts : Settles(n) \/ EndsService(n)

\* While a start is under way alreadyStopping is only set by a stopProxy that has
\* not cleared the flags yet.
StartPart ==
    isProxyStarting => /\ Cleared
                       /\ service # 0 /\ alreadyStopping[service] => FlagsPending

IInv == TypeOK /\ JobPart /\ ObjectPart /\ StopperPart /\ EventPart /\ StartPart

-----------------------------------------------------------------------------
(* Helpers *)

JobType == [pc : JobPc, svc : 0..MaxServices, cancelled : BOOLEAN, ready : BOOLEAN]
SupType == [running : BOOLEAN, connected : BOOLEAN, launch : 0..MaxStarts, current : 0..MaxStarts]
StopperType == [pc : StopPc, svc : 0..MaxServices, destroy : BOOLEAN]

\* A coroutine moves; it stays with its object, and cancelled until it ends.
Moves(n, to) ==
    /\ job' \in [Starts -> JobType]
    /\ job'[n].pc = to /\ job'[n].svc = job[n].svc /\ job'[n].cancelled = (job[n].cancelled /\ to # "ended")
    /\ \A m \in Starts : m # n => job'[m] = job[m]

LEMMA JobMoves ==
    ASSUME TypeOK, NEW n \in Starts, NEW to \in JobPc, JobGoes(n, to)
    PROVE  Moves(n, to)
<1>1. job \in [Starts -> JobType]
  BY DEF TypeOK, JobType
<1> DEFINE r == [job[n] EXCEPT !.pc = to, !.ready = FALSE, !.cancelled = job[n].cancelled /\ to # "ended"]
<1>2. job' = [job EXCEPT ![n] = r]
  BY <1>1 DEF JobGoes
<1>3. job[n] \in JobType /\ (job[n].cancelled /\ to # "ended") \in BOOLEAN
  BY <1>1 DEF JobType
<1>4. r.pc = to /\ r.svc = job[n].svc /\ r.cancelled = (job[n].cancelled /\ to # "ended") /\ r \in JobType
  BY <1>3 DEF JobType
<1> HIDE DEF r
<1> QED
  BY <1>1, <1>2, <1>4 DEF Moves

\* cancel() only marks coroutines of the set.
Marked(J) ==
    /\ job' \in [Starts -> JobType]
    /\ \A n \in Starts : /\ job'[n].pc = job[n].pc /\ job'[n].svc = job[n].svc
                         /\ job'[n].cancelled => job[n].cancelled \/ n \in J

LEMMA CancelMarks ==
    ASSUME TypeOK, NEW J, Cancel(J)
    PROVE  Marked(J)
<1>1. job \in [Starts -> JobType]
  BY DEF TypeOK, JobType
<1>2. \A n \in Starts : job'[n] = IF n \in J /\ job[n].pc # "ended"
                                  THEN [job[n] EXCEPT !.cancelled = TRUE] ELSE job[n]
  BY DEF Cancel
<1>3. \A n \in Starts : job'[n] \in JobType
  BY ZenonT(60), <1>1, <1>2 DEF JobType
<1>4. DOMAIN job' = Starts /\ job' = [n \in Starts |-> job'[n]]
  BY DEF Cancel
<1>5. \A n \in Starts : /\ job'[n].pc = job[n].pc /\ job'[n].svc = job[n].svc
                        /\ job'[n].cancelled => job[n].cancelled \/ n \in J
  BY <1>1, <1>2 DEF JobType
<1> QED
  BY <1>3, <1>4, <1>5 DEF Marked

LEMMA StopBeginsTypes ==
    ASSUME TypeOK, NEW t \in Threads, NEW i \in 0..MaxServices, NEW d \in BOOLEAN, StopBegins(t, i, d)
    PROVE  /\ alreadyStopping' \in [Services -> BOOLEAN] /\ stopper' \in [Threads -> StopperType]
           /\ stopper'[t] = [pc |-> "flags", svc |-> i, destroy |-> d]
           /\ \A u \in Threads : u # t => stopper'[u] = stopper[u]
BY DEF TypeOK, StopBegins, StopperType, StopPc

LEMMA StopGoesTypes ==
    ASSUME TypeOK, NEW t \in Threads, NEW from, NEW to \in StopPc, StopGoes(t, from, to)
    PROVE  /\ stopper' \in [Threads -> StopperType]
           /\ stopper'[t].pc = to /\ stopper'[t].svc = stopper[t].svc /\ stopper'[t].destroy = stopper[t].destroy
           /\ \A u \in Threads : u # t => stopper'[u] = stopper[u]
BY DEF TypeOK, StopGoes, StopperType

SocksTypes == readySession' \in 0..MaxStarts /\ active' \in BOOLEAN /\ bridge' \in BOOLEAN

LEMMA Zero == 0 \in 0..MaxStarts /\ 0 \in 0..MaxServices /\ 0 \in 0..MaxBus
OBVIOUS

LEMMA ProxyNotReadyTypes ==
    ASSUME TypeOK, NEW n, ProxyNotReady(n) \/ UNCHANGED socks
    PROVE  SocksTypes
<1>1. CASE UNCHANGED socks
  BY <1>1 DEF TypeOK, socks, SocksTypes
<1>2. CASE ProxyNotReady(n) /\ ~UNCHANGED socks
  <2>1. readySession' = 0 /\ active' = FALSE /\ bridge' = FALSE
    BY <1>2 DEF ProxyNotReady
  <2> QED
    BY <2>1, Zero DEF SocksTypes
<1> QED
  BY <1>1, <1>2

LEMMA DispatchTypes ==
    ASSUME TypeOK, Dispatch \/ UNCHANGED bus
    PROVE  bus' \in 0..MaxBus
BY DEF TypeOK, Dispatch

LEMMA ThreadsAre == Starts \subseteq Threads /\ Main \in Threads /\ Main \notin Starts /\ 0 \notin Services
BY DEF Threads, Starts, Main, Services

-----------------------------------------------------------------------------
(* Types *)

\* TypeOK with the record sets named.
LEMMA Fields ==
    TypeOK => /\ job \in [Starts -> JobType] /\ sup \in [Services -> SupType]
              /\ stopper \in [Threads -> StopperType]
BY DEF TypeOK, JobType, SupType, StopperType

LEMMA StopTypes ==
    ASSUME TypeOK, NEW t \in Threads, StopStep(t)
    PROVE  TypeOK'
<1> USE DEF flags, object, sharing, socks
<1>1. stopper[t].svc \in 0..MaxServices /\ 0 \in 0..MaxServices
  BY Fields, Zero DEF StopperType
<1>2. CASE StopFlags(t)
  <2>1. stopper' \in [Threads -> StopperType]
    BY <1>2, StopGoesTypes DEF StopFlags, StopPc
  <2> QED
    BY <1>2, <2>1 DEF StopFlags, TypeOK, StopperType
<1>3. CASE StopCancel(t)
  <2>1. stopper' \in [Threads -> StopperType]
    BY <1>3, StopGoesTypes DEF StopCancel, StopPc
  <2>2. job' \in [Starts -> JobType]
    BY <1>3, CancelMarks DEF StopCancel, Marked
  <2>3. startupJob' \in [Services -> 0..MaxStarts]
    BY <1>3, Zero DEF StopCancel, TypeOK
  <2> QED
    BY <1>3, <2>1, <2>2, <2>3 DEF StopCancel, TypeOK, StopperType, JobType
<1>4. CASE StopBridge(t)
  <2>1. stopper' \in [Threads -> StopperType]
    BY <1>4, StopGoesTypes DEF StopBridge, StopPc
  <2> QED
    BY <1>4, <2>1 DEF StopBridge, TypeOK, StopperType
<1>5. CASE StopCore(t)
  <2> DEFINE i == stopper[t].svc
  <2>1. stopper' \in [Threads -> StopperType]
    BY <1>5, StopGoesTypes DEF StopCore, StopPc
  <2>2. SocksTypes
    BY <1>5, ProxyNotReadyTypes DEF StopCore, SupervisorStop
  <2>3. sup' \in [Services -> SupType]
    BY <1>5, Fields, Zero DEF StopCore, SupervisorStop, SupType
  <2>4. core' \in [Starts -> {"none", "alive", "exited", "dead"}]
    BY <1>5 DEF StopCore, SupervisorStop, TypeOK
  <2> QED
    BY <1>5, <2>1, <2>2, <2>3, <2>4 DEF StopCore, TypeOK, StopperType, SupType, SocksTypes
<1>6. CASE StopSelf(t)
  <2>1. stopper' \in [Threads -> StopperType]
    BY <1>6, Fields, <1>1 DEF StopSelf, StopperType, StopPc
  <2>2. job' \in [Starts -> JobType]
    <3>1. CASE stopper[t].destroy
      BY <1>6, <3>1, CancelMarks DEF StopSelf, Gone, Marked
    <3>2. CASE ~stopper[t].destroy /\ t = Main
      BY <1>6, <3>2, Fields DEF StopSelf
    <3>3. CASE ~stopper[t].destroy /\ t # Main
      <4>1. t \in Starts /\ JobGoes(t, "ended") /\ "ended" \in JobPc
        BY <1>6, <3>3 DEF StopSelf, Threads, JobPc
      <4> QED
        BY <4>1, JobMoves DEF Moves
    <3> QED
      BY <3>1, <3>2, <3>3
  <2>3. service' \in 0..MaxServices /\ destroying' \in BOOLEAN /\ bus' \in 0..MaxBus
    BY <1>6, Zero DEF StopSelf, Gone, TypeOK
  <2> QED
    BY <1>6, <2>1, <2>2, <2>3 DEF StopSelf, TypeOK, StopperType, JobType
<1> QED
  BY <1>2, <1>3, <1>4, <1>5, <1>6 DEF StopStep

LEMMA UsedTypes ==
    ASSUME TypeOK, NEW i \in Services, ServiceUsed(i)
    PROVE  service' = i /\ service' \in 0..MaxServices /\ made' \in 0..MaxServices
BY DEF ServiceUsed, TypeOK, Services

LEMMA MainTypes ==
    ASSUME TypeOK,
           \/ \E i \in Services : Connect(i) \/ ConnectFails(i) \/ ConnectIgnored(i) \/ Disconnect(i)
           \/ StopService \/ MainStep
    PROVE  TypeOK'
<1> USE DEF flags, object, sharing, socks
<1>1. ASSUME NEW i \in Services, Connect(i) PROVE TypeOK'
  <2>1. service' \in 0..MaxServices /\ made' \in 0..MaxServices
    BY <1>1, UsedTypes DEF Connect
  <2>2. session' \in 0..MaxStarts /\ session + 1 \in Starts /\ i \in 0..MaxServices
    <3>1. session \in 0..MaxStarts /\ session < MaxStarts /\ session' = session + 1
      BY <1>1 DEF Connect, TypeOK
    <3> QED
      BY <3>1 DEF Starts, Services
  <2>3. job' \in [Starts -> JobType]
    BY ZenonT(60), <1>1, <2>2, Fields DEF Connect, JobType, JobPc
  <2>4. alreadyStopping' \in [Services -> BOOLEAN] /\ startupJob' \in [Services -> 0..MaxStarts]
    BY <1>1, <2>2 DEF Connect, TypeOK, Starts
  <2> QED
    BY <1>1, <2>1, <2>2, <2>3, <2>4 DEF Connect, TypeOK, JobType
<1>2. ASSUME NEW i \in Services, ConnectFails(i) PROVE TypeOK'
  <2>1. service' \in 0..MaxServices /\ made' \in 0..MaxServices
    BY <1>2, UsedTypes DEF ConnectFails
  <2>2. session' \in 0..MaxStarts /\ i \in 0..MaxServices
    BY <1>2 DEF ConnectFails, TypeOK, Services
  <2>3. alreadyStopping' \in [Services -> BOOLEAN] /\ stopper' \in [Threads -> StopperType]
    BY <1>2, <2>2, StopBeginsTypes, ThreadsAre DEF ConnectFails
  <2> QED
    BY <1>2, <2>1, <2>2, <2>3 DEF ConnectFails, TypeOK, StopperType
<1>3. ASSUME NEW i \in Services, ConnectIgnored(i) PROVE TypeOK'
  <2>1. service' \in 0..MaxServices /\ made' \in 0..MaxServices
    BY <1>3, UsedTypes DEF ConnectIgnored
  <2> QED
    BY <1>3, <2>1 DEF ConnectIgnored, TypeOK
<1>4. ASSUME NEW i \in Services, Disconnect(i) PROVE TypeOK'
  <2>1. service' \in 0..MaxServices /\ made' \in 0..MaxServices /\ i \in 0..MaxServices
    BY <1>4, UsedTypes DEF Disconnect, Services
  <2>2. alreadyStopping' \in [Services -> BOOLEAN] /\ stopper' \in [Threads -> StopperType]
    <3>1. CASE alreadyStopping[i]
      BY <1>4, <3>1, Fields DEF Disconnect, TypeOK
    <3>2. CASE ~alreadyStopping[i]
      BY <1>4, <3>2, <2>1, StopBeginsTypes, ThreadsAre DEF Disconnect
    <3> QED
      BY <3>1, <3>2
  <2> QED
    BY <1>4, <2>1, <2>2 DEF Disconnect, TypeOK, StopperType
<1>5. CASE StopService
  BY <1>5 DEF StopService, TypeOK
<1>6. CASE OnDestroy
  <2>1. CASE alreadyStopping[service]
    <3>1. job' \in [Starts -> JobType]
      BY <1>6, <2>1, CancelMarks DEF OnDestroy, Gone, Marked
    <3> QED
      BY <1>6, <2>1, <3>1, Zero DEF OnDestroy, Gone, TypeOK, JobType
  <2>2. CASE ~alreadyStopping[service]
    <3>1. alreadyStopping' \in [Services -> BOOLEAN] /\ stopper' \in [Threads -> StopperType]
      BY <1>6, <2>2, StopBeginsTypes, ThreadsAre DEF OnDestroy, TypeOK
    <3> QED
      BY <1>6, <2>2, <3>1 DEF OnDestroy, TypeOK, StopperType
  <2> QED
    BY <2>1, <2>2
<1>7. CASE Collect
  <2>1. alreadyStopping' \in [Services -> BOOLEAN] /\ stopper' \in [Threads -> StopperType]
    <3>1. CASE StopBegins(Main, service, FALSE)
      BY <3>1, StopBeginsTypes, ThreadsAre DEF TypeOK
    <3>2. CASE UNCHANGED <<alreadyStopping, stopper>>
      BY <3>2, Fields DEF TypeOK
    <3> QED
      BY <1>7, <3>1, <3>2 DEF Collect
  <2>2. bus' \in 0..MaxBus
    BY <1>7 DEF Collect, TypeOK
  <2> QED
    BY <1>7, <2>1, <2>2 DEF Collect, TypeOK, StopperType
<1> QED
  BY <1>1, <1>2, <1>3, <1>4, <1>5, <1>6, <1>7 DEF MainStep

LEMMA JobStopsTypes ==
    ASSUME TypeOK, NEW n \in Starts, JobStops(n)
    PROVE  /\ job' \in [Starts -> JobType] /\ alreadyStopping' \in [Services -> BOOLEAN]
           /\ stopper' \in [Threads -> StopperType]
<1>1. job[n].svc \in 0..MaxServices /\ n \in Threads /\ "ended" \in JobPc /\ "stopping" \in JobPc
  BY Fields, ThreadsAre DEF JobType, JobPc
<1>2. CASE alreadyStopping[job[n].svc]
  <2>1. JobGoes(n, "ended") /\ UNCHANGED <<alreadyStopping, stopper>>
    BY <1>2 DEF JobStops
  <2> QED
    BY <2>1, <1>1, JobMoves, Fields DEF Moves, TypeOK
<1>3. CASE ~alreadyStopping[job[n].svc]
  <2>1. JobGoes(n, "stopping") /\ StopBegins(n, job[n].svc, FALSE)
    BY <1>3 DEF JobStops
  <2> QED
    BY <2>1, <1>1, JobMoves, StopBeginsTypes DEF Moves
<1> QED
  BY <1>2, <1>3

\* The updates of a supervisor that leave it a supervisor.
LEMMA SupUpdates ==
    ASSUME TypeOK, NEW i, NEW k \in 0..MaxStarts
    PROVE  /\ [sup EXCEPT ![i].running = FALSE, ![i].connected = FALSE] \in [Services -> SupType]
           /\ [sup EXCEPT ![i].current = k] \in [Services -> SupType]
<1>1. sup \in [Services -> SupType]
  BY Fields
<1>2. ASSUME NEW r \in SupType
      PROVE  /\ [r EXCEPT !.running = FALSE, !.connected = FALSE] \in SupType
             /\ [r EXCEPT !.current = k] \in SupType
  BY DEF SupType
<1>3. [sup EXCEPT ![i].current = k] \in [Services -> SupType]
  BY <1>1 DEF SupType
<1>4. [sup EXCEPT ![i] = [sup[i] EXCEPT !.running = FALSE, !.connected = FALSE]] \in [Services -> SupType]
  BY <1>1, <1>2
<1> QED
  BY <1>1, <1>3, <1>4 DEF SupType

LEMMA JobTypes ==
    ASSUME TypeOK, NEW n \in Starts, JobStep(n)
    PROVE  TypeOK'
<1> USE DEF flags, object, sharing, socks
<1>0. \A to \in JobPc : JobGoes(n, to) => job' \in [Starts -> JobType]
  BY JobMoves DEF Moves
<1>1. CASE JobCancelled(n)
  <2>1. job' \in [Starts -> JobType]
    BY <1>0, <1>1 DEF JobCancelled, JobPc
  <2> QED
    BY <1>1, <2>1 DEF JobCancelled, TypeOK, JobType
<1>2. CASE JobDispatched(n)
  <2>1. job' \in [Starts -> JobType]
    BY <1>0, <1>2 DEF JobDispatched, JobPc
  <2> QED
    BY <1>2, <2>1 DEF JobDispatched, TypeOK, JobType
<1>3. CASE JobStart(n)
  <2> DEFINE i == job[n].svc
             cur == sup[i].current
  <2>1. job' \in [Starts -> JobType]
    BY <1>0, <1>3 DEF JobStart, JobPc
  <2>2. SocksTypes
    BY <1>3, ProxyNotReadyTypes DEF JobStart
  <2>3. core' \in [Starts -> {"none", "alive", "exited", "dead"}]
    <3>1. core \in [Starts -> {"none", "alive", "exited", "dead"}]
      BY DEF TypeOK
    <3>2. core' \in {core, [core EXCEPT ![cur] = "dead"]}
      BY <1>3 DEF JobStart
    <3> QED
      BY <3>1, <3>2
  <2>4. sup' \in [Services -> SupType]
    <3>1. PICK r : r \in {0, cur} /\ sup' = [sup EXCEPT ![i] = [running |-> TRUE, connected |-> FALSE,
                                                               launch |-> n, current |-> r]]
      BY <1>3 DEF JobStart
    <3>2. ASSUME i \in Services PROVE [running |-> TRUE, connected |-> FALSE, launch |-> n, current |-> r] \in SupType
      BY <3>1, <3>2, Fields, Zero DEF SupType, Starts
    <3> QED
      BY <3>1, <3>2, Fields
  <2> QED
    BY <1>3, <2>1, <2>2, <2>3, <2>4 DEF JobStart, TypeOK, JobType, SupType, SocksTypes
<1>4. ASSUME NEW ok \in BOOLEAN, JobSpawn(n, ok) PROVE TypeOK'
  <2>1. job' \in [Starts -> JobType]
    BY <1>0, <1>4 DEF JobSpawn, JobPc
  <2>2. core' \in [Starts -> {"none", "alive", "exited", "dead"}]
    BY <1>4 DEF JobSpawn, TypeOK
  <2>3. bus' \in 0..MaxBus
    BY <1>4, DispatchTypes DEF JobSpawn
  <2>4. sup' \in [Services -> SupType]
    <3>1. sup' \in {sup, [sup EXCEPT ![job[n].svc].running = FALSE, ![job[n].svc].connected = FALSE]}
      BY <1>4 DEF JobSpawn
    <3>2. [sup EXCEPT ![job[n].svc].running = FALSE, ![job[n].svc].connected = FALSE] \in [Services -> SupType]
      BY SupUpdates, Zero
    <3> QED
      BY <3>1, <3>2, Fields
  <2> QED
    BY <1>4, <2>1, <2>2, <2>3, <2>4 DEF JobSpawn, TypeOK, JobType, SupType
<1>5. CASE JobPublish(n)
  <2>1. job' \in [Starts -> JobType]
    BY <1>0, <1>5 DEF JobPublish, JobPc
  <2>2. sup' \in [Services -> SupType]
    <3>1. n \in 0..MaxStarts
      BY DEF Starts
    <3> QED
      BY <1>5, <3>1, SupUpdates DEF JobPublish
  <2> QED
    BY <1>5, <2>1, <2>2 DEF JobPublish, TypeOK, JobType, SupType
<1>6. CASE JobLaunched(n)
  <2>1. /\ job' \in [Starts -> JobType] /\ alreadyStopping' \in [Services -> BOOLEAN]
        /\ stopper' \in [Threads -> StopperType]
    <3>1. CASE IsRunning(job[n].svc)
      BY <1>0, <1>6, <3>1, Fields DEF JobLaunched, JobPc, TypeOK
    <3>2. CASE ~IsRunning(job[n].svc)
      BY <1>6, <3>2, JobStopsTypes DEF JobLaunched
    <3> QED
      BY <3>1, <3>2
  <2> QED
    BY <1>6, <2>1 DEF JobLaunched, TypeOK, JobType, StopperType
<1>7. ASSUME NEW timeout \in BOOLEAN, JobWaits(n, timeout) PROVE TypeOK'
  <2>1. PICK ok \in BOOLEAN : job' = [job EXCEPT ![n] = [job[n] EXCEPT !.pc = "decide", !.ready = ok]]
    BY <1>7 DEF JobWaits, IsLocalProxyReady, IsRunning
  <2>2. job' \in [Starts -> JobType]
    BY ZenonT(60), <2>1, Fields DEF JobType, JobPc
  <2> QED
    BY SMTT(60), <1>7, <2>2 DEF JobWaits, TypeOK, JobType
<1>8. CASE JobDecides(n)
  <2>1. job' \in [Starts -> JobType]
    BY <1>0, <1>8 DEF JobDecides, JobPc
  <2> QED
    BY <1>8, <2>1 DEF JobDecides, TypeOK, JobType
<1>9. CASE JobRuns(n)
  <2>1. job' \in [Starts -> JobType]
    BY <1>0, <1>9 DEF JobRuns, JobPc
  <2> QED
    BY <1>9, <2>1 DEF JobRuns, TypeOK, JobType
<1>10. CASE JobTimesOut(n)
  <2>1. /\ job' \in [Starts -> JobType] /\ alreadyStopping' \in [Services -> BOOLEAN]
        /\ stopper' \in [Threads -> StopperType]
    BY <1>10, JobStopsTypes DEF JobTimesOut
  <2>2. bus' \in 0..MaxBus
    BY <1>10, DispatchTypes DEF JobTimesOut
  <2> QED
    BY <1>10, <2>1, <2>2 DEF JobTimesOut, TypeOK, JobType, StopperType
<1>11. CASE JobShares(n)
  <2>1. job' \in [Starts -> JobType]
    BY <1>0, <1>11 DEF JobShares, JobPc
  <2>2. bridge' \in BOOLEAN
    BY <1>11 DEF JobShares, TypeOK
  <2> QED
    BY <1>11, <2>1, <2>2 DEF JobShares, TypeOK, JobType
<1>12. ASSUME NEW ok \in BOOLEAN, JobBridges(n, ok) PROVE TypeOK'
  <2>1. job' \in [Starts -> JobType]
    BY <1>0, <1>12 DEF JobBridges, JobPc
  <2> QED
    BY <1>12, <2>1 DEF JobBridges, TypeOK, JobType
<1> QED
  BY <1>1, <1>2, <1>3, <1>4, <1>5, <1>6, <1>7, <1>8, <1>9, <1>10, <1>11, <1>12 DEF JobStep

\* The user interface and the core, which leave the control of the service alone.
Control == <<flags, service, made, alreadyStopping, startupJob, job, stopper, session>>

RestStep ==
    \/ \E n \in Starts : CoreReady(n) \/ CoreDrops(n) \/ CoreExits(n) \/ ReaderEnds(n)
    \/ ToggleSharing \/ RefreshReads \/ \E ok \in BOOLEAN : RefreshStarts(ok)

LEMMA RestTypes ==
    ASSUME TypeOK, RestStep
    PROVE  TypeOK' /\ UNCHANGED <<Control, destroying>>
<1> USE DEF flags, object, sharing, socks, Control
<1>1. ASSUME NEW n \in Starts, CoreReady(n) PROVE TypeOK' /\ UNCHANGED <<Control, destroying>>
  <2>1. sup' \in [Services -> SupType]
    BY <1>1, Fields DEF CoreReady, SupType
  <2>2. SocksTypes
    BY <1>1 DEF CoreReady, ProxyReady, TypeOK, SocksTypes, Starts
  <2> QED
    BY <1>1, <2>1, <2>2 DEF CoreReady, TypeOK, SupType, SocksTypes
<1>2. ASSUME NEW n \in Starts, CoreDrops(n) PROVE TypeOK' /\ UNCHANGED <<Control, destroying>>
  <2>1. sup' \in [Services -> SupType]
    BY <1>2, Fields DEF CoreDrops, SupType
  <2>2. SocksTypes /\ bus' \in 0..MaxBus
    BY <1>2, ProxyNotReadyTypes, DispatchTypes DEF CoreDrops
  <2> QED
    BY <1>2, <2>1, <2>2 DEF CoreDrops, TypeOK, SupType, SocksTypes
<1>3. ASSUME NEW n \in Starts, CoreExits(n) PROVE TypeOK' /\ UNCHANGED <<Control, destroying>>
  <2>1. core' \in [Starts -> {"none", "alive", "exited", "dead"}]
    BY <1>3 DEF CoreExits, TypeOK
  <2> QED
    BY <1>3, <2>1 DEF CoreExits, TypeOK
<1>4. ASSUME NEW n \in Starts, ReaderEnds(n) PROVE TypeOK' /\ UNCHANGED <<Control, destroying>>
  <2>1. core' \in [Starts -> {"none", "alive", "exited", "dead"}]
    BY <1>4 DEF ReaderEnds, TypeOK
  <2>2. sup' \in [Services -> SupType]
    <3>1. sup' \in {sup, [sup EXCEPT ![Owner(n)].running = FALSE, ![Owner(n)].connected = FALSE]}
      BY <1>4 DEF ReaderEnds
    <3>2. [sup EXCEPT ![Owner(n)].running = FALSE, ![Owner(n)].connected = FALSE] \in [Services -> SupType]
      BY SupUpdates, Zero
    <3> QED
      BY <3>1, <3>2, Fields
  <2>3. SocksTypes /\ bus' \in 0..MaxBus
    BY <1>4, ProxyNotReadyTypes, DispatchTypes DEF ReaderEnds
  <2> QED
    BY <1>4, <2>1, <2>2, <2>3 DEF ReaderEnds, TypeOK, SupType, SocksTypes
<1>5. CASE ToggleSharing
  <2>1. share' \in BOOLEAN /\ toggles' \in 0..MaxToggles /\ refresher' = "read"
    BY <1>5 DEF ToggleSharing, TypeOK
  <2> QED
    BY <1>5, <2>1 DEF ToggleSharing, TypeOK
<1>6. CASE RefreshReads
  <2>1. bridge' \in BOOLEAN /\ refresher' \in {"idle", "start"}
    BY <1>6 DEF RefreshReads, TypeOK
  <2> QED
    BY <1>6, <2>1 DEF RefreshReads, TypeOK
<1>7. ASSUME NEW ok \in BOOLEAN, RefreshStarts(ok) PROVE TypeOK' /\ UNCHANGED <<Control, destroying>>
  BY <1>7 DEF RefreshStarts, TypeOK
<1> QED
  BY <1>1, <1>2, <1>3, <1>4, <1>5, <1>6, <1>7 DEF RestStep

-----------------------------------------------------------------------------
(* The control of the service *)

Parts == JobPart /\ ObjectPart /\ StopperPart /\ StartPart

\* The user interface and the core take no part in it.
LEMMA RestKeeps ==
    ASSUME Parts, UNCHANGED <<Control, destroying>>
    PROVE  Parts'
BY DEF Parts, Control, flags, JobPart, ObjectPart, StopperPart, StartPart, Cleared, FlagsPending, Settles,
       EndsService

LEMMA StopServiceKeeps ==
    ASSUME TypeOK, Parts, StopService
    PROVE  Parts'
<1>1. UNCHANGED Control /\ destroying' /\ service # 0
  BY DEF StopService, Control
<1>2. JobPart' /\ ObjectPart' /\ StopperPart'
  BY <1>1 DEF Parts, Control, flags, JobPart, ObjectPart, StopperPart
<1>3. StartPart'
  BY <1>1 DEF Parts, Control, flags, StartPart, Cleared, FlagsPending
<1> QED
  BY <1>2, <1>3 DEF Parts

\* The service object an intent is delivered to: the one there is, or a new one.
LEMMA UsedObject ==
    ASSUME TypeOK, Parts, NEW i \in Services, ServiceUsed(i)
    PROVE  /\ service' = i /\ i \in 1..made' /\ made' \in {made, made + 1} /\ made \in Nat
           /\ service \in {0, i}
           /\ service = 0 => i = made + 1 /\ ~alreadyStopping[i]
           /\ service # 0 => made' = made
<1>1. made \in 0..MaxServices /\ service \in 0..MaxServices /\ service <= made
  BY DEF TypeOK, Parts, ObjectPart
<1>2. CASE service # 0
  BY <1>1, <1>2 DEF ServiceUsed
<1>3. CASE service = 0
  <2>1. i = made + 1 /\ service' = i /\ made' = i
    BY <1>3 DEF ServiceUsed
  <2>2. i > made
    BY <1>1, <2>1
  <2> QED
    BY <1>1, <1>3, <2>1, <2>2 DEF Parts, ObjectPart
<1> QED
  BY <1>2, <1>3

\* With no service object only a stopProxy about to clear the flags is left to
\* settle a start.
LEMMA GoneMeansFlags ==
    ASSUME TypeOK, Parts, service = 0, isProxyStarting
    PROVE  FlagsPending
<1>1. ~destroying
  BY DEF Parts, ObjectPart
<1>2. ASSUME NEW n \in Starts PROVE ~Settles(n) /\ ~EndsService(n)
  BY ThreadsAre DEF Parts, JobPart, StopperPart, Settles, EndsService, StartupPc
<1> QED
  BY <1>1, <1>2 DEF Parts, StartPart, Cleared

LEMMA IgnoredKeeps ==
    ASSUME TypeOK, Parts, NEW i \in Services, ServiceUsed(i),
           UNCHANGED <<flags, destroying, alreadyStopping, startupJob, job, stopper, session>>
    PROVE  Parts'
<1>1. /\ service' = i /\ i \in 1..made' /\ made' \in {made, made + 1} /\ made \in Nat /\ service \in {0, i}
      /\ service = 0 => i = made + 1 /\ ~alreadyStopping[i]
  BY UsedObject
<1>2. JobPart' /\ StopperPart'
  BY <1>1 DEF Parts, flags, JobPart, StopperPart
<1>3. ObjectPart'
  BY <1>1 DEF Parts, ObjectPart, Services
<1>4. StartPart'
  <2>1. CASE service = i
    BY <1>1, <2>1 DEF Parts, flags, StartPart, Cleared, FlagsPending, Settles, EndsService
  <2>2. CASE service = 0
    BY <1>1, <2>2, GoneMeansFlags DEF Parts, flags, StartPart, Cleared, FlagsPending
  <2> QED
    BY <1>1, <2>1, <2>2
<1> QED
  BY <1>2, <1>3, <1>4 DEF Parts

LEMMA ConnectKeeps ==
    ASSUME TypeOK, TypeOK', Parts, NEW i \in Services, Connect(i)
    PROVE  Parts'
<1>0. PICK n \in Starts : n = session + 1
  <2>1. session \in 0..MaxStarts /\ session < MaxStarts
    BY DEF Connect, TypeOK
  <2> QED
    BY <2>1 DEF Starts
<1>1. /\ service' = i /\ i \in 1..made' /\ made' \in {made, made + 1} /\ made \in Nat /\ service \in {0, i}
      /\ service = 0 => i = made + 1 /\ ~alreadyStopping[i]
  BY UsedObject DEF Connect
<1>2. session \in Nat /\ n \in Nat /\ n > session /\ session' = n /\ job[n].pc = "none" /\ ~job[n].cancelled
  <2>1. session \in Nat /\ session' = n
    BY <1>0 DEF Connect, TypeOK
  <2>2. n \in Nat /\ n > session
    BY <2>1, <1>0
  <2> QED
    BY <2>1, <2>2 DEF Parts, JobPart
<1>3. /\ job'[n].pc = "new" /\ job'[n].svc = i /\ ~job'[n].cancelled
      /\ \A m \in Starts : m # n => job'[m] = job[m]
  <2>1. job' = [job EXCEPT ![n] = [job[n] EXCEPT !.pc = "new", !.svc = i]] /\ job[n] \in JobType
    BY <1>0, <1>2, Fields DEF Connect
  <2> QED
    BY <1>2, <2>1, Fields DEF JobType
<1>4. /\ stopper[Main].pc = "idle" /\ UNCHANGED <<stopper, destroying>>
      /\ ~alreadyStopping'[i] /\ \A k \in Services : k # i => alreadyStopping'[k] = alreadyStopping[k]
      /\ startupJob'[i] = n /\ \A k \in Services : k # i => startupJob'[k] = startupJob[k]
  BY <1>0 DEF Connect, ServiceUsed, MainIdle, TypeOK
<1>5. JobPart'
  <2>1. ASSUME NEW m \in Starts
        PROVE  /\ m > session' => job'[m].pc = "none" /\ job'[m].svc = 0 /\ ~job'[m].cancelled
               /\ job'[m].pc # "none" => job'[m].svc \in 1..made'
    <3>1. CASE m = n
      BY <3>1, <1>1, <1>2, <1>3
    <3>2. CASE m # n
      <4>1. m > session' => m > session
        BY <1>2 DEF Starts
      <4>2. job'[m] = job[m] /\ 1..made \subseteq 1..made'
        BY <3>2, <1>1, <1>3
      <4> QED
        BY <4>1, <4>2 DEF Parts, JobPart
    <3> QED
      BY <3>1, <3>2
  <2> QED
    BY <2>1 DEF JobPart
<1>6. ObjectPart'
  <2>1. service' <= made' /\ (destroying' => service' # 0)
    BY <1>1 DEF Services
  <2>2. ASSUME NEW k \in Services
        PROVE  /\ startupJob'[k] # 0 => startupJob'[k] <= session' /\ job'[startupJob'[k]].svc = k
               /\ k > made' => ~alreadyStopping'[k]
    <3>1. CASE k = i
      <4>1. startupJob'[k] = n /\ ~alreadyStopping'[k] /\ job'[n].svc = k
        BY <3>1, <1>3, <1>4
      <4> QED
        BY <4>1, <1>2
    <3>2. CASE k # i
      <4>1. startupJob[k] \in 0..MaxStarts
        BY DEF TypeOK
      <4>2. startupJob[k] # 0 => startupJob[k] <= session /\ startupJob[k] \in Starts /\ job[startupJob[k]].svc = k
        BY <4>1 DEF Parts, ObjectPart, Starts
      <4>3. startupJob[k] # 0 => startupJob[k] # n /\ startupJob[k] <= n
        BY <4>1, <4>2, <1>0, <1>2
      <4>4. k > made' => k > made
        BY <1>1 DEF Services
      <4>5. startupJob'[k] = startupJob[k] /\ alreadyStopping'[k] = alreadyStopping[k]
        BY <3>2, <1>4
      <4>6. k > made' => ~alreadyStopping'[k]
        BY <4>4, <4>5 DEF Parts, ObjectPart
      <4>7. startupJob[k] # 0 => job'[startupJob[k]] = job[startupJob[k]]
        BY <4>2, <4>3, <1>3
      <4> QED
        BY <4>2, <4>3, <4>5, <4>6, <4>7, <1>2
    <3> QED
      BY <3>1, <3>2
  <2> QED
    BY <2>1, <2>2 DEF ObjectPart
<1>7. StopperPart'
  BY <1>1, <1>2, <1>3, <1>4 DEF Parts, StopperPart
<1>8. StartPart'
  <2>1. Settles(n)'
    BY <1>1, <1>3 DEF Settles, StartupPc
  <2> QED
    BY <2>1, <1>1, <1>2, <1>4 DEF StartPart, Cleared
<1> QED
  BY <1>5, <1>6, <1>7, <1>8 DEF Parts

\* stopProxy begins on the main looper, for the service object there is.
LEMMA MainStops ==
    ASSUME TypeOK, Parts, MainIdle, NEW i \in Services, NEW d \in BOOLEAN, StopBegins(Main, i, d),
           service' = i, i \in 1..made', made' \in {made, made + 1}, made \in Nat,
           session' \in {session, session + 1}, UNCHANGED <<destroying, startupJob, job>>
    PROVE  Parts'
<1>1. /\ stopper'[Main] = [pc |-> "flags", svc |-> i, destroy |-> d]
      /\ \A u \in Threads : u # Main => stopper'[u] = stopper[u]
  BY StopBeginsTypes, ThreadsAre DEF Services
<1>2. \A k \in Services : k # i => alreadyStopping'[k] = alreadyStopping[k]
  BY DEF StopBegins, TypeOK
<1>3. session \in Nat /\ session' \in Nat
  BY DEF TypeOK
<1>4. JobPart'
  BY <1>3 DEF Parts, JobPart, Starts
<1>5. ObjectPart'
  <2>1. \A k \in Services : startupJob[k] \in Nat
    BY DEF TypeOK
  <2>2. \A k \in Services : k > made' => k > made /\ k # i
    BY DEF Services
  <2> QED
    BY <1>2, <1>3, <2>1, <2>2 DEF Parts, ObjectPart, Services
<1>6. StopperPart'
  BY <1>1, ThreadsAre DEF Parts, StopperPart
<1>7. FlagsPending'
  BY <1>1, ThreadsAre DEF FlagsPending
<1> QED
  BY <1>4, <1>5, <1>6, <1>7 DEF Parts, StartPart, Cleared

\* stopProxy of thread t goes on: the main looper while no start is accepted, a
\* coroutine on its way to stopSelf.
LEMMA StopGoesOn ==
    ASSUME TypeOK, Parts, NEW t \in Threads, StopFlags(t) \/ StopCancel(t) \/ StopBridge(t) \/ StopCore(t)
    PROVE  Parts'
<1> DEFINE Past == {"cancel", "bridge", "core", "self"}
           i == stopper[t].svc
<1>1. PICK from \in StopPc \ {"idle", "self"}, to \in Past : StopGoes(t, from, to) /\ (from = "flags" <=> StopFlags(t))
  BY DEF StopFlags, StopCancel, StopBridge, StopCore, StopPc, StopGoes
<1>2. /\ stopper[t].pc = from /\ stopper'[t].pc = to /\ stopper'[t].svc = i
      /\ stopper'[t].destroy = stopper[t].destroy
      /\ \A u \in Threads : u # t => stopper'[u] = stopper[u]
  BY <1>1, StopGoesTypes DEF StopGoes, StopPc
<1>3. i \in 1..made /\ i \in Services
  BY <1>2 DEF Parts, StopperPart, TypeOK, Services
<1>4. UNCHANGED <<service, made, destroying, alreadyStopping, session>>
  BY DEF StopFlags, StopCancel, StopBridge, StopCore, object
<1>5. /\ isProxyStarting' => isProxyStarting /\ from # "flags"
      /\ from = "flags" => ~isProxyStarting'
  BY <1>1 DEF StopFlags, StopCancel, StopBridge, StopCore, StopGoes, flags
<1>6. /\ \A n \in Starts : /\ job'[n].pc = job[n].pc /\ job'[n].svc = job[n].svc
                           /\ job'[n].cancelled => job[n].cancelled \/ (n = startupJob[i] /\ from # "flags")
      /\ \A k \in Services : startupJob'[k] \in {0, startupJob[k]}
  <2>1. CASE StopCancel(t)
    <3>1. Marked({startupJob[i]})
      BY <2>1, CancelMarks DEF StopCancel
    <3> QED
      BY <2>1, <3>1, <1>1 DEF StopCancel, StopGoes, Marked, TypeOK
  <2>2. CASE ~StopCancel(t)
    BY <2>2 DEF StopFlags, StopBridge, StopCore
  <2> QED
    BY <2>1, <2>2
<1>7. JobPart'
  <2>1. \A n \in Starts : n > session => n # startupJob[i]
    <3>1. startupJob[i] \in Nat /\ session \in Nat
      BY <1>3 DEF TypeOK
    <3>2. startupJob[i] # 0 => startupJob[i] <= session
      BY <1>3 DEF Parts, ObjectPart
    <3> QED
      BY <3>1, <3>2 DEF Starts
  <2> QED
    BY <2>1, <1>4, <1>6 DEF Parts, JobPart
<1>8. ObjectPart'
  <2>1. \A k \in Services : startupJob[k] # 0 => startupJob[k] \in Starts
    BY DEF TypeOK, Starts
  <2> QED
    BY <2>1, <1>4, <1>6 DEF Parts, ObjectPart
<1>9. StopperPart'
  <2>1. \A u \in Threads : stopper'[u].pc # "idle" => stopper[u].pc # "idle" /\ stopper'[u].svc = stopper[u].svc
                                                       /\ stopper'[u].destroy = stopper[u].destroy
    BY <1>2
  <2>2. stopper'[Main].pc \notin {"idle", "flags"} => ~isProxyStarting'
    BY <1>2, <1>5, ThreadsAre DEF Parts, StopperPart
  <2> QED
    BY <2>1, <2>2, <1>4, <1>6, ThreadsAre DEF Parts, StopperPart
<1>10. StartPart'
  <2> SUFFICES ASSUME isProxyStarting' PROVE Cleared' /\ (service' # 0 /\ alreadyStopping'[service'] => FlagsPending')
    BY DEF StartPart
  <2>1. isProxyStarting /\ from # "flags" /\ t \in Starts
    <3>1. isProxyStarting /\ from # "flags"
      BY <1>5
    <3> QED
      BY <3>1, <1>2 DEF Parts, StopperPart, Threads
  <2>2. FlagsPending => FlagsPending'
    BY <1>2, <2>1 DEF FlagsPending
  <2>3. ASSUME NEW n \in Starts, EndsService(n) PROVE EndsService(n)'
    BY <2>3, <1>2, <1>4, ThreadsAre DEF EndsService
  <2>4. ASSUME NEW n \in Starts, Settles(n) PROVE Settles(n)' \/ EndsService(t)'
    <3>1. CASE n = startupJob[i]
      <4>1. job[n].svc = i
        BY <3>1, <1>3, ThreadsAre DEF Parts, ObjectPart, Main, Starts
      <4> QED
        BY <4>1, <2>4, <1>2, <1>4 DEF Settles, EndsService
    <3>2. CASE n # startupJob[i]
      BY <3>2, <2>4, <1>4, <1>6 DEF Settles
    <3> QED
      BY <3>1, <3>2
  <2>5. Cleared'
    BY <2>1, <2>2, <2>3, <2>4, <1>4 DEF Parts, StartPart, Cleared
  <2> QED
    BY <2>1, <2>2, <2>5, <1>4 DEF Parts, StartPart
<1> QED
  BY <1>7, <1>8, <1>9, <1>10 DEF Parts

\* The service object goes, when no start is under way or one whose flags are about
\* to be cleared.
LEMMA GoneKeeps ==
    ASSUME TypeOK, Parts, service' = 0, ~destroying', Marked({n \in Starts : job[n].svc = service}), service # 0,
           UNCHANGED <<flags, made, alreadyStopping, startupJob, session>>, isProxyStarting => FlagsPending',
           \A t \in Threads : stopper'[t] = stopper[t] \/ stopper'[t].pc = "idle"
    PROVE  Parts'
<1>1. JobPart'
  BY DEF Parts, JobPart, Marked
<1>2. ObjectPart'
  <2>1. \A k \in Services : startupJob[k] # 0 => startupJob[k] \in Starts
    BY DEF TypeOK, Starts
  <2>2. made \in Nat
    BY DEF TypeOK
  <2> QED
    BY <2>1, <2>2 DEF Parts, ObjectPart, Marked
<1>3. StopperPart'
  BY ThreadsAre DEF Parts, StopperPart, Marked, flags
<1>4. StartPart'
  BY DEF StartPart, Cleared, flags
<1> QED
  BY <1>1, <1>2, <1>3, <1>4 DEF Parts

LEMMA StopSelfKeeps ==
    ASSUME TypeOK, Parts, NEW t \in Threads, StopSelf(t)
    PROVE  Parts'
<1> DEFINE i == stopper[t].svc
<1>1. /\ stopper[t].pc = "self" /\ stopper'[t].pc = "idle" /\ ~stopper'[t].destroy
      /\ \A u \in Threads : u # t => stopper'[u] = stopper[u]
      /\ UNCHANGED <<flags, made, alreadyStopping, startupJob, session>>
  BY DEF StopSelf, TypeOK
<1>2. i \in 1..made /\ made \in Nat
  BY <1>1 DEF Parts, StopperPart, TypeOK
<1>3. CASE t = Main /\ stopper[t].destroy
  <2>1. ~isProxyStarting
    BY <1>1, <1>3 DEF Parts, StopperPart
  <2>2. service' = 0 /\ ~destroying' /\ Marked({n \in Starts : job[n].svc = i})
    BY <1>3, CancelMarks DEF StopSelf, Gone
  <2>3. \A n \in Starts : job'[n].pc = job[n].pc /\ job'[n].svc = job[n].svc
    BY <2>2 DEF Marked
  <2>4. JobPart'
    BY <1>1, <1>2, <2>2 DEF Parts, JobPart, Marked
  <2>5. ObjectPart'
    <3>1. \A k \in Services : startupJob[k] # 0 => startupJob[k] \in Starts
      BY DEF TypeOK, Starts
    <3> QED
      BY <1>1, <1>2, <2>2, <2>3, <3>1 DEF Parts, ObjectPart
  <2>6. StopperPart'
    BY <1>1, <2>3, ThreadsAre DEF Parts, StopperPart, flags
  <2>7. StartPart'
    BY <1>1, <2>1 DEF StartPart, flags
  <2> QED
    BY <2>4, <2>5, <2>6, <2>7 DEF Parts
<1>4. CASE t = Main /\ ~stopper[t].destroy
  <2>1. ~isProxyStarting
    BY <1>1, <1>4 DEF Parts, StopperPart
  <2>2. UNCHANGED <<service, job>> /\ (destroying' => destroying \/ service = i)
    BY <1>4 DEF StopSelf
  <2>3. JobPart' /\ ObjectPart'
    BY <1>1, <1>2, <2>2 DEF Parts, JobPart, ObjectPart
  <2>4. StopperPart'
    BY <1>1, <2>2, ThreadsAre DEF Parts, StopperPart, flags
  <2>5. StartPart'
    BY <1>1, <2>1 DEF StartPart, flags
  <2> QED
    BY <2>3, <2>4, <2>5 DEF Parts
<1>5. CASE t # Main
  <2>1. t \in Starts /\ job[t].pc = "stopping" /\ ~stopper[t].destroy
    BY <1>1, <1>5 DEF Parts, StopperPart, Threads
  <2>2. UNCHANGED service /\ (destroying' <=> destroying \/ service = i) /\ JobGoes(t, "ended")
    BY <1>5, <2>1 DEF StopSelf
  <2>3. Moves(t, "ended")
    BY <2>1, <2>2, JobMoves DEF JobPc
  <2>4. JobPart'
    BY <1>1, <2>1, <2>3 DEF Parts, JobPart, Moves
  <2>5. ObjectPart'
    <3>1. \A k \in Services : startupJob[k] # 0 => startupJob[k] \in Starts
      BY DEF TypeOK, Starts
    <3>2. \A n \in Starts : job'[n].svc = job[n].svc
      BY <2>1, <2>3 DEF Moves
    <3>3. destroying' => service # 0
      BY <1>2, <2>2 DEF Parts, ObjectPart
    <3> QED
      BY <1>1, <1>2, <2>2, <3>1, <3>2, <3>3 DEF Parts, ObjectPart
  <2>6. StopperPart'
    BY <1>1, <1>5, <2>1, <2>3, ThreadsAre DEF Parts, StopperPart, Moves, flags
  <2>7. StartPart'
    <3>1. FlagsPending => FlagsPending'
      BY <1>1 DEF FlagsPending
    <3>2. ASSUME NEW n \in Starts, Settles(n) PROVE Settles(n)'
      BY <3>2, <2>1, <2>2, <2>3 DEF Settles, Moves, StartupPc
    <3>3. ASSUME NEW n \in Starts, EndsService(n) PROVE EndsService(n)' \/ destroying'
      BY <3>3, <1>1, <2>2, ThreadsAre DEF EndsService
    <3> QED
      BY <3>1, <3>2, <3>3, <1>1, <2>2 DEF Parts, StartPart, Cleared, flags
  <2> QED
    BY <2>4, <2>5, <2>6, <2>7 DEF Parts
<1> QED
  BY <1>3, <1>4, <1>5

\* A coroutine moves, and settles its start or leaves it to someone else.
LEMMA JobGoesOn ==
    ASSUME TypeOK, Parts, NEW n \in Starts, NEW to \in JobPc \ {"none"}, Moves(n, to),
           job[n].pc \notin {"none", "stopping"},
           UNCHANGED <<service, made, destroying, alreadyStopping, startupJob, stopper, session>>,
           isProxyStarting' => /\ isProxyStarting
                               /\ Settles(n) => to \in StartupPc \/ FlagsPending
    PROVE  Parts'
<1>1. JobPart'
  BY DEF Parts, JobPart, Moves
<1>2. ObjectPart'
  <2>1. \A k \in Services : startupJob[k] # 0 => startupJob[k] \in Starts
    BY DEF TypeOK, Starts
  <2>2. \A m \in Starts : job'[m].svc = job[m].svc
    BY DEF Moves
  <2> QED
    BY <2>1, <2>2 DEF Parts, ObjectPart
<1>3. StopperPart'
  <2>1. \A m \in Starts : stopper[m].pc # "idle" => m # n
    BY DEF Parts, StopperPart
  <2> QED
    BY <2>1 DEF Parts, StopperPart, Moves
<1>4. StartPart'
  <2> SUFFICES ASSUME isProxyStarting' PROVE Cleared' /\ (service' # 0 /\ alreadyStopping'[service'] => FlagsPending')
    BY DEF StartPart
  <2>1. FlagsPending => FlagsPending'
    BY DEF FlagsPending
  <2>2. ASSUME NEW m \in Starts, EndsService(m) PROVE EndsService(m)'
    BY <2>2 DEF EndsService
  <2>3. ASSUME NEW m \in Starts, Settles(m) PROVE Settles(m)' \/ FlagsPending
    <3>1. CASE m = n
      BY <3>1, <2>3 DEF Settles, Moves, StartupPc
    <3>2. CASE m # n
      BY <3>2, <2>3 DEF Settles, Moves
    <3> QED
      BY <3>1, <3>2
  <2> QED
    BY <2>1, <2>2, <2>3 DEF Parts, StartPart, Cleared
<1> QED
  BY <1>1, <1>2, <1>3, <1>4 DEF Parts

\* A coroutine calls stopProxy: it begins one, or somebody else's is under way.
LEMMA JobStopsKeeps ==
    ASSUME TypeOK, Parts, NEW n \in Starts, JobStops(n), job[n].pc \notin {"none", "stopping"},
           UNCHANGED <<flags, service, made, destroying, startupJob, session>>
    PROVE  Parts'
<1> DEFINE i == job[n].svc
<1>1. i \in 1..made /\ i \in Services /\ made \in Nat
  BY DEF Parts, JobPart, TypeOK, Services
<1>2. CASE alreadyStopping[i]
  <2>1. Moves(n, "ended") /\ UNCHANGED <<alreadyStopping, stopper>>
    BY <1>2, JobMoves DEF JobStops, JobPc
  <2>2. isProxyStarting /\ Settles(n) => FlagsPending
    BY <1>1, <1>2 DEF Parts, StartPart, Settles
  <2> QED
    BY <2>1, <2>2, JobGoesOn DEF flags, JobPc
<1>3. CASE ~alreadyStopping[i]
  <2>1. JobGoes(n, "stopping") /\ StopBegins(n, i, FALSE)
    BY <1>3 DEF JobStops
  <2>2. Moves(n, "stopping")
    BY <2>1, JobMoves DEF JobPc
  <2>3. /\ stopper'[n] = [pc |-> "flags", svc |-> i, destroy |-> FALSE]
        /\ \A u \in Threads : u # n => stopper'[u] = stopper[u]
    <3>1. i \in 0..MaxServices /\ n \in Threads /\ FALSE \in BOOLEAN
      BY <1>1, ThreadsAre DEF Services
    <3> HIDE DEF i
    <3> QED
      BY <2>1, <3>1, StopBeginsTypes
  <2>4. \A k \in Services : k # i => alreadyStopping'[k] = alreadyStopping[k]
    BY <2>1 DEF StopBegins, TypeOK
  <2>5. JobPart'
    BY <2>2 DEF Parts, JobPart, Moves
  <2>6. ObjectPart'
    <3>1. \A k \in Services : startupJob[k] # 0 => startupJob[k] \in Starts
      BY DEF TypeOK, Starts
    <3>2. \A m \in Starts : job'[m].svc = job[m].svc
      BY <2>2 DEF Moves
    <3>3. \A k \in Services : k > made => k # i
      BY <1>1
    <3> QED
      BY <2>4, <3>1, <3>2, <3>3 DEF Parts, ObjectPart
  <2>7. StopperPart'
    BY <1>1, <2>2, <2>3, ThreadsAre DEF Parts, StopperPart, Moves, flags
  <2>8. FlagsPending'
    BY <2>3, ThreadsAre DEF FlagsPending
  <2> QED
    BY <2>5, <2>6, <2>7, <2>8 DEF Parts, StartPart, Cleared
<1> QED
  BY <1>2, <1>3

LEMMA JobKeeps ==
    ASSUME TypeOK, Parts, NEW n \in Starts, JobStep(n)
    PROVE  Parts'
<1> USE DEF flags, object, At
<1> DEFINE Same == UNCHANGED <<service, made, destroying, alreadyStopping, startupJob, stopper, session>>
           Live == job[n].pc \notin {"none", "stopping"}
<1>0. \A to \in JobPc \ {"none"} : JobGoes(n, to) => Moves(n, to)
  BY JobMoves
<1>1. ASSUME NEW to \in StartupPc, Live, Same, JobGoes(n, to), UNCHANGED flags PROVE Parts'
  <2>1. to \in JobPc \ {"none"}
    BY DEF StartupPc, JobPc
  <2> QED
    BY <1>0, <1>1, <2>1, JobGoesOn
<1>2. CASE JobCancelled(n)
  <2>1. Live /\ Same /\ JobGoes(n, "ended") /\ ~Settles(n) /\ UNCHANGED flags
    BY <1>2 DEF JobCancelled, Settles
  <2> QED
    BY <1>0, <2>1, JobGoesOn DEF JobPc
<1>3. CASE JobDispatched(n)
  BY <1>1, <1>3 DEF JobDispatched, StartupPc
<1>4. CASE JobStart(n)
  BY <1>1, <1>4 DEF JobStart, StartupPc
<1>5. ASSUME NEW ok \in BOOLEAN, JobSpawn(n, ok) PROVE Parts'
  BY <1>1, <1>5 DEF JobSpawn, StartupPc
<1>6. CASE JobPublish(n)
  BY <1>1, <1>6 DEF JobPublish, StartupPc
<1>7. CASE JobLaunched(n)
  <2>1. CASE IsRunning(job[n].svc)
    BY <1>1, <1>7, <2>1 DEF JobLaunched, StartupPc
  <2>2. CASE ~IsRunning(job[n].svc)
    BY <1>7, <2>2, JobStopsKeeps DEF JobLaunched
  <2> QED
    BY <2>1, <2>2
<1>8. ASSUME NEW timeout \in BOOLEAN, JobWaits(n, timeout) PROVE Parts'
  <2>1. PICK ok \in BOOLEAN : job' = [job EXCEPT ![n] = [job[n] EXCEPT !.pc = "decide", !.ready = ok]]
    BY <1>8 DEF JobWaits, IsLocalProxyReady, IsRunning
  <2>2. job \in [Starts -> JobType] /\ [job[n] EXCEPT !.pc = "decide", !.ready = ok] \in JobType
    BY <2>1, Fields DEF JobType, JobPc
  <2>3. job' \in [Starts -> JobType]
    BY <2>1, <2>2
  <2>4. job'[n].pc = "decide" /\ job'[n].svc = job[n].svc /\ job'[n].cancelled = job[n].cancelled
    BY <2>1, <2>2 DEF JobType
  <2>5. job'[n].cancelled = (job[n].cancelled /\ "decide" # "ended")
    <3>1. job[n].cancelled \in BOOLEAN
      BY <2>2 DEF JobType
    <3> QED
      BY <3>1, <2>4
  <2>6. Moves(n, "decide")
    BY <2>1, <2>2, <2>3, <2>4, <2>5 DEF Moves
  <2>7. Live /\ Same /\ UNCHANGED flags /\ "decide" \in JobPc \ {"none"} /\ "decide" \in StartupPc
    BY <1>8 DEF JobWaits, JobPc, StartupPc
  <2> QED
    BY SMTT(60), <2>6, <2>7, JobGoesOn
<1>9. CASE JobDecides(n)
  <2>1. Live /\ Same /\ UNCHANGED flags
    BY <1>9 DEF JobDecides
  <2>2. CASE alreadyStopping[job[n].svc]
    <3>1. JobGoes(n, "ended")
      BY <1>9, <2>2 DEF JobDecides
    <3>2. job[n].svc # 0
      BY <2>1, Fields DEF Parts, JobPart
    <3>3. isProxyStarting /\ Settles(n) => FlagsPending
      BY <2>2, <3>2 DEF Parts, StartPart, Settles
    <3> QED
      BY <1>0, <2>1, <3>1, <3>3, JobGoesOn DEF JobPc
  <2>3. CASE ~alreadyStopping[job[n].svc]
    BY <1>1, <1>9, <2>1, <2>3 DEF JobDecides, StartupPc
  <2> QED
    BY <2>2, <2>3
<1>10. CASE JobRuns(n)
  <2>1. Live /\ Same /\ JobGoes(n, "share") /\ ~isProxyStarting'
    BY <1>10 DEF JobRuns
  <2> QED
    BY <1>0, <2>1, JobGoesOn DEF JobPc
<1>11. CASE JobTimesOut(n)
  BY <1>11, JobStopsKeeps DEF JobTimesOut
<1>12. CASE JobShares(n) \/ \E ok \in BOOLEAN : JobBridges(n, ok)
  <2>1. Live /\ Same /\ (JobGoes(n, "bridge") \/ JobGoes(n, "ended")) /\ ~Settles(n) /\ UNCHANGED flags
    BY <1>12 DEF JobShares, JobBridges, Settles, StartupPc
  <2> QED
    BY <1>0, <2>1, JobGoesOn DEF JobPc
<1> QED
  BY <1>2, <1>3, <1>4, <1>5, <1>6, <1>7, <1>8, <1>9, <1>10, <1>11, <1>12 DEF JobStep

LEMMA MainKeeps ==
    ASSUME TypeOK, TypeOK', Parts, EventPart,
           \/ \E i \in Services : Connect(i) \/ ConnectFails(i) \/ ConnectIgnored(i) \/ Disconnect(i)
           \/ StopService \/ MainStep
    PROVE  Parts'
<1>1. ASSUME NEW i \in Services, ConnectFails(i) PROVE Parts'
  <2>1. /\ service' = i /\ i \in 1..made' /\ made' \in {made, made + 1} /\ made \in Nat
        /\ MainIdle /\ StopBegins(Main, i, FALSE) /\ session' \in {session, session + 1}
        /\ UNCHANGED <<destroying, startupJob, job>>
    BY <1>1, UsedObject DEF ConnectFails, ServiceUsed
  <2> QED
    BY <2>1, MainStops
<1>2. ASSUME NEW i \in Services, ConnectIgnored(i) PROVE Parts'
  BY <1>2, IgnoredKeeps DEF ConnectIgnored
<1>3. ASSUME NEW i \in Services, Disconnect(i) PROVE Parts'
  <2>1. CASE alreadyStopping[i]
    BY <1>3, <2>1, IgnoredKeeps DEF Disconnect
  <2>2. CASE ~alreadyStopping[i]
    <3>1. /\ service' = i /\ i \in 1..made' /\ made' \in {made, made + 1} /\ made \in Nat
          /\ MainIdle /\ StopBegins(Main, i, FALSE) /\ session' = session
          /\ UNCHANGED <<destroying, startupJob, job>>
      BY <1>3, <2>2, UsedObject DEF Disconnect, ServiceUsed
    <3> QED
      BY <3>1, MainStops
  <2> QED
    BY <2>1, <2>2
<1>4. service # 0 => service \in Services /\ service \in 1..made /\ made \in Nat
  BY DEF Parts, ObjectPart, TypeOK, Services
<1>5. CASE OnDestroy
  <2>1. MainIdle /\ destroying /\ service # 0 /\ UNCHANGED <<flags, made, startupJob, session>>
    BY <1>5 DEF OnDestroy, Parts, ObjectPart
  <2>2. CASE alreadyStopping[service]
    <3>1. Gone(service) /\ UNCHANGED <<alreadyStopping, stopper>>
      BY <1>5, <2>2 DEF OnDestroy
    <3>2. isProxyStarting => FlagsPending'
      BY <2>1, <2>2, <3>1 DEF Parts, StartPart, FlagsPending
    <3>3. service' = 0 /\ ~destroying' /\ Marked({n \in Starts : job[n].svc = service})
      BY <3>1, CancelMarks DEF Gone
    <3> QED
      BY <2>1, <3>1, <3>2, <3>3, GoneKeeps
  <2>3. CASE ~alreadyStopping[service]
    <3>1. StopBegins(Main, service, TRUE) /\ UNCHANGED <<job, service, destroying>>
      BY <1>5, <2>3 DEF OnDestroy
    <3> QED
      BY <1>4, <2>1, <3>1, MainStops
  <2> QED
    BY <2>2, <2>3
<1>6. CASE Collect
  <2>1. MainIdle /\ UNCHANGED <<flags, service, made, destroying, startupJob, job, session>>
    BY <1>6 DEF Collect, object
  <2>2. CASE UNCHANGED <<alreadyStopping, stopper>>
    BY <2>1, <2>2, RestKeeps DEF Control
  <2>3. CASE StopBegins(Main, service, FALSE) /\ service # 0
    BY <1>4, <2>1, <2>3, MainStops
  <2>4. service # 0 \/ UNCHANGED <<alreadyStopping, stopper>>
    BY <1>6 DEF Collect, EventPart
  <2> QED
    BY <1>6, <2>2, <2>3, <2>4 DEF Collect
<1> QED
  BY <1>1, <1>2, <1>3, <1>5, <1>6, ConnectKeeps, StopServiceKeeps DEF MainStep

LEMMA EventsKept ==
    ASSUME TypeOK, EventPart, Next
    PROVE  EventPart'
<1> USE DEF object, EventPart
<1>1. ASSUME \/ bus' = bus /\ (service' = service \/ service' # 0)
             \/ Dispatch /\ service' = service
             \/ bus' = 0
             \/ bus > 0 /\ service' = service
      PROVE  EventPart'
  <2>1. bus \in Nat
    BY DEF TypeOK
  <2>2. CASE Dispatch /\ service' = service
    BY <2>1, <2>2 DEF Dispatch
  <2> QED
    BY <1>1, <2>2
<1>2. ASSUME NEW i \in Services, Connect(i) \/ ConnectFails(i) \/ ConnectIgnored(i) \/ Disconnect(i)
      PROVE  EventPart'
  <2>1. bus' = bus /\ service' # 0
    BY <1>2, UsedTypes, ThreadsAre DEF Connect, ConnectFails, ConnectIgnored, Disconnect
  <2> QED
    BY <2>1, <1>1
<1>3. CASE StopService \/ MainStep
  BY <1>1, <1>3 DEF StopService, MainStep, OnDestroy, Gone, Collect
<1>4. ASSUME NEW t \in Threads, StopStep(t) PROVE EventPart'
  BY <1>1, <1>4 DEF StopStep, StopFlags, StopCancel, StopBridge, StopCore, StopSelf, Gone
<1>5. ASSUME NEW n \in Starts, JobStep(n) PROVE EventPart'
  BY <1>1, <1>5 DEF JobStep, JobCancelled, JobDispatched, JobStart, JobSpawn, JobPublish, JobLaunched,
         JobWaits, JobDecides, JobRuns, JobTimesOut, JobShares, JobBridges
<1>6. ASSUME NEW n \in Starts, CoreReady(n) \/ CoreDrops(n) \/ CoreExits(n) \/ ReaderEnds(n) PROVE EventPart'
  BY <1>1, <1>6 DEF CoreReady, CoreDrops, CoreExits, ReaderEnds
<1>7. CASE ToggleSharing \/ RefreshReads \/ \E ok \in BOOLEAN : RefreshStarts(ok)
  BY <1>1, <1>7 DEF ToggleSharing, RefreshReads, RefreshStarts
<1> QED
  BY <1>2, <1>3, <1>4, <1>5, <1>6, <1>7 DEF Next

-----------------------------------------------------------------------------
(* The steps together *)

LEMMA InitIInv ==
    ASSUME Init
    PROVE  IInv
<1>1. TypeOK
  <2>1. /\ job \in [Starts -> JobType] /\ sup \in [Services -> SupType] /\ stopper \in [Threads -> StopperType]
        /\ startupJob \in [Services -> 0..MaxStarts]
    BY Zero DEF Init, JobType, SupType, StopperType, JobPc, StopPc
  <2>2. toggles \in 0..MaxToggles
    BY DEF Init
  <2> QED
    BY <2>1, <2>2, Zero DEF Init, TypeOK, JobType, SupType, StopperType
<1>2. JobPart /\ ObjectPart /\ EventPart /\ StartPart
  BY DEF Init, JobPart, ObjectPart, EventPart, StartPart
<1>3. StopperPart
  BY ThreadsAre DEF Init, StopperPart
<1> QED
  BY <1>1, <1>2, <1>3 DEF IInv

LEMMA StepIInv ==
    ASSUME IInv, [Next]_vars
    PROVE  IInv'
<1>1. TypeOK /\ Parts /\ EventPart
  BY DEF IInv, Parts
<1>2. ASSUME Next PROVE TypeOK' /\ Parts'
  <2>1. ASSUME \/ \E i \in Services : Connect(i) \/ ConnectFails(i) \/ ConnectIgnored(i) \/ Disconnect(i)
               \/ StopService \/ MainStep
        PROVE  TypeOK' /\ Parts'
    BY <1>1, <2>1, MainTypes, MainKeeps
  <2>2. ASSUME NEW t \in Threads, StopStep(t) PROVE TypeOK' /\ Parts'
    BY <1>1, <2>2, StopTypes, StopGoesOn, StopSelfKeeps DEF StopStep
  <2>3. ASSUME NEW n \in Starts, JobStep(n) PROVE TypeOK' /\ Parts'
    BY <1>1, <2>3, JobTypes, JobKeeps
  <2>4. ASSUME RestStep PROVE TypeOK' /\ Parts'
    BY <1>1, <2>4, RestTypes, RestKeeps
  <2> QED
    BY <1>2, <2>1, <2>2, <2>3, <2>4 DEF Next, RestStep
<1>3. ASSUME UNCHANGED vars PROVE TypeOK' /\ Parts' /\ EventPart'
  <2>1. TypeOK' /\ EventPart'
    BY <1>1, <1>3 DEF vars, flags, object, socks, sharing, TypeOK, EventPart
  <2>2. UNCHANGED <<Control, destroying>>
    BY <1>3 DEF vars, object, Control
  <2> QED
    BY <1>1, <2>1, <2>2, RestKeeps
<1> QED
  BY <1>1, <1>2, <1>3, EventsKept DEF IInv, Parts

-----------------------------------------------------------------------------
(* The theorems *)

\* The inductive invariant holds of every reachable state.
THEOREM Inductive == Spec => []IInv
<1>1. Init => IInv
  BY InitIInv
<1>2. IInv /\ [Next]_vars => IInv'
  BY StepIInv
<1> QED
  BY <1>1, <1>2, PTL DEF Spec

\* Type correctness of the service objects, their supervisors, coroutines and cores.
THEOREM ProxyTypeCorrect == Spec => []TypeOK
<1>1. IInv => TypeOK
  BY DEF IInv
<1> QED
  BY <1>1, Inductive, PTL

\* For every number of service objects and starts: when all threads are done
\* isProxyStarting is not left set, so a further start intent is not ignored for ever.
THEOREM StartsSettle == Spec => []NoStuckStart
<1>1. IInv => NoStuckStart
  <2> SUFFICES ASSUME IInv, Quiet, isProxyStarting PROVE FALSE
    BY DEF NoStuckStart
  <2>1. \A n \in Starts : ~Settles(n) /\ stopper[n].pc = "idle"
    BY DEF IInv, StopperPart, Quiet, Settles, StartupPc
  <2>2. ~FlagsPending /\ \A n \in Starts : ~EndsService(n)
    BY <2>1 DEF FlagsPending, EndsService, Quiet, MainIdle, Threads
  <2> QED
    BY <2>1, <2>2 DEF IInv, StartPart, Cleared, Quiet
<1> QED
  BY <1>1, Inductive, PTL
=============================================================================
