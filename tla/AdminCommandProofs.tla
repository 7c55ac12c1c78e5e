-------------------------- MODULE AdminCommandProofs --------------------------
(***************************************************************************)
(* Proofs about AdminCommand for every number of threads, calls, kills and *)
(* turns of the rights.                                                    *)
(***************************************************************************)
EXTENDS AdminCommand, TLAPS

USE AdminAssumption

-----------------------------------------------------------------------------
(* The inductive invariant, part by part. *)

Running(t) == frame[t].at # "idle"

\* A running command has its own number, already given out.
FramesDistinct ==
    /\ \A t \in Threads : Running(t) => frame[t].id \in 1..calls
    /\ \A t, u \in Threads : Running(t) /\ Running(u) /\ frame[t].id = frame[u].id => t = u

\* Whoever changes the server holds its lock.
LockOwned == \A t \in Threads : Changing(t) => lock = t

\* A signed durable change is the stored envelope: only the holder of the lock
\* replaces or clears it.
DurableKept ==
    \A t \in Threads :
        frame[t].at \in {"signed", "wait"} /\ frame[t].kind = "durable" =>
            durable # None /\ frame[t].op = durable.op

\* A durable request that the server may still apply is the stored one, and once
\* it is applied the envelope stays until the result is known.
EnvelopeGuards ==
    /\ \A m \in requests : m.kind = "durable" /\ outcome[m.op] = "none" =>
          durable # None /\ m.op = durable.op
    /\ applications = 0
       \/ (applications = 1 /\ durable # None /\ outcome[durable.op] # "none")

\* Before its own submission a command is still being checked.
NotYetSent ==
    \A t \in Threads :
        frame[t].at \in {"check", "ask", "probe", "snapshot", "checked", "signed"}
        /\ frame[t].kind # "snapshot" => frame[t].phase # "SENDING"

\* A signed command has its operation.
SignedHasOp == \A t \in Threads : frame[t].at \in {"signed", "wait"} => frame[t].op \in OpId

\* Replies report what the server remembers.
RepliesTrue == \A r \in replies : outcome[r.op] = r.status

\* The probe of a command waits for its own operation, and its success is known
\* to the server from then on.
ProbeOwned ==
    \A t \in Threads :
        /\ frame[t].at = "probe" => frame[t].op = <<frame[t].id, "probe">>
        /\ frame[t].at \in {"snapshot", "checked", "signed", "wait"}
              => outcome[<<frame[t].id, "probe">>] = "ok"

\* Only a submitted command is in sent, and while it runs its phase says so.
SentIsSending ==
    \A s \in sent :
        /\ s.call \in 1..calls
        /\ \A t \in Threads : Running(t) /\ frame[t].id = s.call =>
              /\ frame[t].phase = "SENDING"
              /\ \/ frame[t].at = "wait"
                 \/ frame[t].kind = "snapshot" /\ frame[t].at \in {"probe", "snapshot"}

\* A record is truthful: the server stands behind applied and failed, and a command
\* recorded as cancelled is over and was never submitted.
Truthful(r) ==
    /\ r.status \in {"applied", "failed"} => r.id \in OpId
    /\ r.status = "applied" => outcome[r.id] = "ok"
    /\ r.status = "failed" => outcome[r.id] \in {"denied", "rejected"}
    /\ r.status = "cancelled_local" =>
          \E n \in 1..calls :
              /\ r.id = <<n, "frame">>
              /\ \A t \in Threads : Running(t) => frame[t].id # n
              /\ \A s \in sent : s.call # n

HistoryTruthful == \A r \in history : Truthful(r)

\* The latest probe is the one the interface waits for.
LatestProbeKnown == live.probe = newest.probe /\ LatestProbeWins

IInv ==
    /\ TypeOK /\ FramesDistinct /\ LockOwned /\ DurableKept /\ SignedHasOp
    /\ RepliesTrue /\ ProbeOwned /\ SentIsSending /\ HistoryTruthful
    /\ SentWithLiveAccess /\ LatestProbeKnown /\ EnvelopeGuards /\ NotYetSent

-----------------------------------------------------------------------------
(* Identifiers and helpers. *)

LEMMA IdFacts ==
    /\ \A n \in CallId : /\ <<n, "probe">> \in OpId /\ <<n, "main">> \in OpId
                         /\ <<n, "frame">> \in FrameId /\ <<n, "frame">> \notin OpId
    /\ \A m, n \in CallId : <<m, "frame">> = <<n, "frame">> => m = n
BY DEF OpId, FrameId

LEMMA NoFrameType == NoFrame \in Frame /\ NoFrame.at = "idle" /\ NoFrame.kind = "read"
BY DEF NoFrame, Frame, Kind

\* The records the history may hold.
HistoryRecord == [id: OpId \cup FrameId, status: Status]

LEMMA UpdateType ==
    ASSUME NEW h \in SUBSET HistoryRecord, NEW id, NEW status \in Status
    PROVE  Update(h, id, status) \in SUBSET HistoryRecord
BY DEF Update, HistoryRecord

LEMMA RecordType ==
    ASSUME NEW h \in SUBSET HistoryRecord, NEW id \in OpId \cup FrameId, NEW status \in Status
    PROVE  Record(h, id, status) \in SUBSET HistoryRecord
BY DEF Record, HistoryRecord

LEMMA RunningId ==
    ASSUME TypeOK, FramesDistinct, NEW t \in Threads, Running(t)
    PROVE  frame[t].id \in CallId
BY DEF TypeOK, FramesDistinct, CallId

\* The updates of a frame, field by field.
LEMMA FrameUpdates ==
    ASSUME NEW f \in Frame
    PROVE  /\ \A o \in OpId : [f EXCEPT !.op = o, !.at = "probe"] \in Frame
           /\ \A o \in OpId : [f EXCEPT !.op = o, !.at = "signed"] \in Frame
           /\ [f EXCEPT !.at = "wait"] \in Frame /\ [f EXCEPT !.at = "checked"] \in Frame
           /\ \A n \in Nat : [f EXCEPT !.at = "ask", !.probe = n] \in Frame
           /\ \A n \in Nat : [f EXCEPT !.at = "snapshot", !.snap = n] \in Frame
           /\ \A depth : \A p \in {"CHECKING", "FORMING", "SENDING"} : PhaseAt(f, depth, p) \in Frame
BY ZenonT(60) DEF Frame, PhaseAt

LEMMA LeaveType ==
    ASSUME TypeOK, FramesDistinct, NEW t \in Threads, Running(t),
           NEW STATE h, h \in SUBSET HistoryRecord, NEW failed \in BOOLEAN, Leave(t, h, failed)
    PROVE  /\ lock' \in Threads \cup {None}
           /\ frame' \in [Threads -> Frame] /\ workflow' \in [Threads -> BOOLEAN]
           /\ history' \in SUBSET HistoryRecord
<1>1. lock' \in Threads \cup {None}
  BY DEF TypeOK, Leave
<1>2. frame' \in [Threads -> Frame] /\ workflow' \in [Threads -> BOOLEAN]
  BY NoFrameType DEF TypeOK, Leave
<1>3. <<frame[t].id, "frame">> \in FrameId /\ "cancelled_local" \in Status
  <2>1. frame[t].id \in CallId
    BY RunningId
  <2> QED BY <2>1, IdFacts DEF Status
<1>4. history' \in SUBSET HistoryRecord
  BY <1>3, RecordType DEF Leave
<1> QED BY <1>1, <1>2, <1>4

LEMMA ProbeType ==
    ASSUME TypeOK, NEW t \in Threads, NEW state \in Access, FinishAccessProbe(t, state)
    PROVE  live' \in [probe: Nat, state: Access] /\ newest' \in [probe: Nat, found: Access]
BY DEF TypeOK, FinishAccessProbe

LEMMA FailedProbeType ==
    ASSUME NEW denied
    PROVE  FailedProbe(denied) \in Access
BY DEF FailedProbe, Access

\* What a step of a thread changes keeps its type.
LEMMA TypeStep ==
    ASSUME TypeOK, FramesDistinct, DurableKept, SignedHasOp, [Next]_vars
    PROVE  TypeOK'
<1> USE DEF HistoryRecord
<1> USE DEF controlVars, cmdVars, probeVars, serverVars, netVars, ghostVars, budget
<1>0. history \in SUBSET HistoryRecord /\ (history' \in SUBSET HistoryRecord => history' \subseteq HistoryRecord)
  BY DEF TypeOK
<1>1. ASSUME NEW t \in Threads, StartWorkflow(t) PROVE TypeOK'
  BY <1>1 DEF StartWorkflow, TypeOK
<1>2. ASSUME NEW t \in Threads, EndWorkflow(t) PROVE TypeOK'
  BY <1>2 DEF EndWorkflow, TypeOK
<1>3. ASSUME NEW t \in Threads, NEW k \in Kind, Call(t, k) PROVE TypeOK'
  <2>1. calls' \in 0..MaxCalls /\ calls + 1 \in CallId
    BY <1>3 DEF Call, TypeOK, CallId
  <2>2. "cancelled_local" \in Status /\ <<calls + 1, "frame">> \in FrameId
    BY <2>1, IdFacts DEF Status
  <2>3. history' \in SUBSET HistoryRecord
    BY <1>0, <1>3, <2>2, RecordType DEF Call
  <2>4. [NoFrame EXCEPT !.at = "check", !.id = calls + 1, !.kind = k] \in Frame
    BY <2>1, NoFrameType DEF Frame
  <2>5. lock' \in Threads \cup {None} /\ frame' \in [Threads -> Frame]
    BY <1>3, <2>4 DEF Call, TypeOK
  <2> QED BY <1>3, <2>1, <2>3, <2>5 DEF Call, TypeOK
<1>4. ASSUME NEW t \in Threads, StartProbe(t) PROVE TypeOK'
  <2>1. CASE StartAccessProbe /\ UNCHANGED <<history, workflow, lock>>
             /\ frame' = [frame EXCEPT ![t] = [@ EXCEPT !.at = "ask", !.probe = live.probe + 1]]
    <3>1. live' \in [probe: Nat, state: Access] /\ newest' \in [probe: Nat, found: Access]
      BY <2>1 DEF StartAccessProbe, TypeOK, Access
    <3>2. frame' \in [Threads -> Frame]
      <4>1. live.probe + 1 \in Nat
        BY DEF TypeOK
      <4>2. [frame[t] EXCEPT !.at = "ask", !.probe = live.probe + 1] \in Frame
        BY <4>1, FrameUpdates DEF TypeOK
      <4> QED BY <2>1, <4>2 DEF TypeOK
    <3> QED BY <1>4, <2>1, <3>1, <3>2 DEF StartProbe, TypeOK
  <2>2. CASE Leave(t, history, TRUE) /\ UNCHANGED probeVars
    BY <1>0, <1>4, <2>2, LeaveType DEF StartProbe, TypeOK, Running
  <2> QED BY <1>4, <2>1, <2>2 DEF StartProbe
<1>5. ASSUME NEW t \in Threads, Ask(t) PROVE TypeOK'
  <2> DEFINE depth == IF frame[t].kind = "snapshot" THEN 1 ELSE 2
             o == <<frame[t].id, "probe">>
  <2>0. frame[t].id \in CallId /\ o \in OpId
    BY <1>5, RunningId, IdFacts DEF Ask, Running
  <2> HIDE DEF o, depth
  <2>1. CASE grant
    <3>1. frame' = [frame EXCEPT ![t] = [PhaseAt(frame[t], depth, "SENDING") EXCEPT !.op = o, !.at = "probe"]]
      BY <1>5, <2>1 DEF Ask, o, depth
    <3>2. frame' \in [Threads -> Frame]
      <4>1. PhaseAt(frame[t], depth, "SENDING") \in Frame
        BY FrameUpdates DEF TypeOK
      <4>2. [PhaseAt(frame[t], depth, "SENDING") EXCEPT !.op = o, !.at = "probe"] \in Frame
        BY <2>0, <4>1, FrameUpdates
      <4> QED BY <3>1, <4>2 DEF TypeOK
    <3>3. history' \in SUBSET HistoryRecord
      <4>1. history' = Record(history, o, "pending")
        BY <1>5, <2>1 DEF Ask, o
      <4>2. "pending" \in Status
        BY DEF Status
      <4> QED BY <1>0, <2>0, <4>1, <4>2, RecordType
    <3>4. requests' \subseteq [op: OpId, rev: Nat, kind: Kind] /\ sent' \subseteq [call: CallId, kind: Kind]
      BY <1>5, <2>0, <2>1 DEF Ask, TypeOK, Kind, o, depth
    <3> QED BY <1>5, <2>1, <3>2, <3>3, <3>4 DEF Ask, TypeOK
  <2>2. CASE ~grant
    BY <1>0, <1>5, <2>2, LeaveType, ProbeType, FailedProbeType DEF Ask, TypeOK, Running
  <2> QED BY <2>1, <2>2 DEF TypeOK
<1>6. ASSUME NEW t \in Threads, ProbeFails(t) PROVE TypeOK'
  <2>1. PICK denied \in BOOLEAN :
           /\ FinishAccessProbe(t, FailedProbe(denied))
           /\ Leave(t, Update(history, frame[t].op, IF denied THEN "failed" ELSE "unknown"), TRUE)
    BY <1>6 DEF ProbeFails
  <2>2. Update(history, frame[t].op, IF denied THEN "failed" ELSE "unknown") \in SUBSET HistoryRecord
    BY <1>0, UpdateType DEF Status
  <2> QED BY <1>6, <2>1, <2>2, LeaveType, ProbeType, FailedProbeType
          DEF ProbeFails, TypeOK, Running
<1>7. ASSUME NEW t \in Threads, ProbeAnswered(t) PROVE TypeOK'
  <2>1. PICK r \in Reply(t) :
           \/ /\ FinishAccessProbe(t, FailedProbe(FALSE))
              /\ Leave(t, Update(history, frame[t].op, "applied"), TRUE)
           \/ /\ frame' = [frame EXCEPT ![t] = [@ EXCEPT !.at = "snapshot", !.snap = r.rev]]
              /\ history' = Update(history, frame[t].op, "applied")
              /\ UNCHANGED <<live, newest, workflow, lock>>
    BY <1>7 DEF ProbeAnswered
  <2>2. Update(history, frame[t].op, "applied") \in SUBSET HistoryRecord
    BY <1>0, UpdateType DEF Status
  <2>3. r.rev \in Nat
    BY DEF Reply, TypeOK
  <2>4. CASE Leave(t, Update(history, frame[t].op, "applied"), TRUE)
             /\ FinishAccessProbe(t, FailedProbe(FALSE))
    BY <1>7, <2>2, <2>4, LeaveType, ProbeType, FailedProbeType
       DEF ProbeAnswered, TypeOK, Running
  <2>5. CASE /\ frame' = [frame EXCEPT ![t] = [@ EXCEPT !.at = "snapshot", !.snap = r.rev]]
             /\ history' = Update(history, frame[t].op, "applied")
             /\ UNCHANGED <<live, newest, workflow, lock>>
    <3>1. frame' \in [Threads -> Frame]
      BY <2>3, <2>5, FrameUpdates DEF TypeOK
    <3> QED BY <1>7, <2>2, <2>5, <3>1 DEF ProbeAnswered, TypeOK
  <2> QED BY <2>1, <2>4, <2>5
<1>8. ASSUME NEW t \in Threads, StoreSnapshot(t) PROVE TypeOK'
  <2>1. live' \in [probe: Nat, state: Access] /\ newest' \in [probe: Nat, found: Access]
    BY <1>8, ProbeType DEF StoreSnapshot, Access
  <2>2. cachedRev' \in Nat
    BY <1>8 DEF StoreSnapshot, TypeOK, Frame
  <2>3. CASE /\ frame' = [frame EXCEPT ![t].at = "checked"]
             /\ UNCHANGED <<history, workflow, lock>>
    <3>1. frame' \in [Threads -> Frame]
      BY <2>3 DEF TypeOK, Frame
    <3> QED BY <1>8, <2>1, <2>2, <2>3, <3>1 DEF StoreSnapshot, TypeOK
  <2>4. ASSUME NEW failed \in BOOLEAN, Leave(t, history, failed) PROVE TypeOK'
    <3>1. Running(t)
      BY <1>8 DEF StoreSnapshot, Running
    <3>2. /\ lock' \in Threads \cup {None}
          /\ frame' \in [Threads -> Frame] /\ workflow' \in [Threads -> BOOLEAN]
          /\ history' \in SUBSET HistoryRecord
      BY <1>0, <2>4, <3>1, LeaveType
    <3> QED BY <1>8, <2>1, <2>2, <3>2 DEF StoreSnapshot, TypeOK
  <2> QED BY <1>8, <2>3, <2>4 DEF StoreSnapshot
<1>9. ASSUME NEW t \in Threads, Form(t) PROVE TypeOK'
  <2> DEFINE stored == frame[t].kind = "durable" /\ durable # None
             o == IF stored THEN durable.op ELSE <<frame[t].id, "main">>
  <2>1. frame[t].id \in CallId
    BY <1>9, RunningId DEF Form, Running
  <2>2. o \in OpId
    BY <2>1, IdFacts DEF TypeOK
  <2> HIDE DEF o
  <2>3. frame' \in [Threads -> Frame]
    <3>1. PhaseAt(frame[t], 1, "FORMING") \in Frame
      BY FrameUpdates DEF TypeOK
    <3>2. [PhaseAt(frame[t], 1, "FORMING") EXCEPT !.op = o, !.at = "signed"] \in Frame
      BY <2>2, <3>1, FrameUpdates
    <3> QED BY <1>9, <3>2 DEF Form, TypeOK, o
  <2>4. history' \in SUBSET HistoryRecord
    BY <1>0, <1>9, <2>2, RecordType DEF Form, Status, o
  <2>5. durable' \in [op: OpId, rev: Nat] \cup {None}
    BY <1>9, <2>2 DEF Form, TypeOK, Frame, o
  <2> QED BY <1>9, <2>3, <2>4, <2>5 DEF Form, TypeOK
<1>10. ASSUME NEW t \in Threads, Send(t) PROVE TypeOK'
  <2>1. frame[t].id \in CallId
    BY <1>10, RunningId DEF Send, Running
  <2>2. frame' \in [Threads -> Frame]
    <3>1. PhaseAt(frame[t], 1, "SENDING") \in Frame
      BY FrameUpdates DEF TypeOK
    <3>2. [PhaseAt(frame[t], 1, "SENDING") EXCEPT !.at = "wait"] \in Frame
      BY <3>1, FrameUpdates
    <3> QED BY <1>10, <3>2 DEF Send, TypeOK
  <2>3. (IF frame[t].kind = "durable" THEN durable.rev ELSE frame[t].snap) \in Nat
    BY <1>10 DEF Send, DurableKept, TypeOK, Frame
  <2>4. frame[t].op \in OpId
    BY <1>10 DEF Send, SignedHasOp
  <2>5. /\ requests' \subseteq [op: OpId, rev: Nat, kind: Kind]
        /\ sent' \subseteq [call: CallId, kind: Kind]
    BY <1>10, <2>1, <2>3, <2>4 DEF Send, TypeOK, Frame
  <2> QED BY <1>10, <2>2, <2>5 DEF Send, TypeOK
<1>11. ASSUME NEW t \in Threads, Applied(t) PROVE TypeOK'
  <2>1. Update(history, frame[t].op, "applied") \in SUBSET HistoryRecord
    BY <1>0, UpdateType DEF Status
  <2>2. durable' \in [op: OpId, rev: Nat] \cup {None} /\ applications' \in Nat
    <3>1. ClearDurable(t) \/ UNCHANGED <<durable, applications>>
      BY <1>11 DEF Applied
    <3> QED BY <3>1 DEF ClearDurable, TypeOK
  <2>3. PICK failed \in BOOLEAN : Leave(t, Update(history, frame[t].op, "applied"), failed)
    BY <1>11 DEF Applied
  <2> QED BY <1>11, <2>1, <2>2, <2>3, LeaveType DEF Applied, TypeOK, Running
<1>12. ASSUME NEW t \in Threads, Rejected(t) PROVE TypeOK'
  <2>1. Update(history, frame[t].op, "failed") \in SUBSET HistoryRecord
    BY <1>0, UpdateType DEF Status
  <2>2. durable' \in [op: OpId, rev: Nat] \cup {None} /\ applications' \in Nat
    <3>1. ClearDurable(t)
      BY <1>12 DEF Rejected
    <3> QED BY <3>1 DEF ClearDurable, TypeOK
  <2> QED BY <1>12, <2>1, <2>2, LeaveType DEF Rejected, TypeOK, Running
<1>13. ASSUME NEW t \in Threads, Unanswered(t) PROVE TypeOK'
  <2>1. Update(history, frame[t].op, "unknown") \in SUBSET HistoryRecord
    BY <1>0, UpdateType DEF Status
  <2> QED BY <1>13, <2>1, LeaveType DEF Unanswered, TypeOK, Running
<1>20. ASSUME NEW t \in Threads, FormFails(t) PROVE TypeOK'
  BY <1>0, <1>20, LeaveType DEF FormFails, TypeOK, Running
<1>14. ASSUME Crash PROVE TypeOK'
  BY <1>14, NoFrameType DEF Crash, TypeOK, Access
<1>15. ASSUME GrantTurns PROVE TypeOK'
  BY <1>15 DEF GrantTurns, TypeOK
<1>16. ASSUME ConfirmSshSession PROVE TypeOK'
  BY <1>16 DEF ConfirmSshSession, TypeOK, Access
<1>17. ASSUME RightsTurn PROVE TypeOK'
  <2>1. allowed' \in BOOLEAN
    BY <1>17, Zenon DEF RightsTurn, TypeOK
  <2>2. serverRev' \in Nat /\ turns' \in 0..MaxTurns
    BY <1>17, SMT DEF RightsTurn, TypeOK
  <2> QED BY <1>17, <2>1, <2>2 DEF RightsTurn, TypeOK
<1>18. ASSUME NEW m \in requests, Serve(m) PROVE TypeOK'
  <2>1. PICK v \in {"ok", "denied", "rejected", "partial"} :
          /\ outcome' = [outcome EXCEPT ![m.op] = v]
          /\ replies' = replies \cup {[op |-> m.op, status |-> v, rev |-> serverRev]}
    BY ZenonT(60), <1>18 DEF Serve, Verdict, TypeOK
  <2>2. /\ outcome' \in [OpId -> {"none", "ok", "denied", "rejected", "partial"}]
        /\ replies' \subseteq [op: OpId, status: {"ok", "denied", "rejected", "partial"}, rev: Nat]
    BY <2>1 DEF TypeOK
  <2>3. serverRev' \in Nat /\ applications' \in Nat
    BY <1>18 DEF Serve, TypeOK
  <2> QED BY <1>18, <2>2, <2>3 DEF Serve, TypeOK
<1>19. CASE UNCHANGED vars
  BY <1>19 DEF TypeOK, vars
<1> QED
  BY <1>1, <1>2, <1>3, <1>4, <1>5, <1>6, <1>7, <1>8, <1>9, <1>10, <1>11, <1>12, <1>13, <1>14,
     <1>15, <1>16, <1>17, <1>18, <1>19, <1>20 DEF Next, CommandStep

-----------------------------------------------------------------------------
(* A step of a command either ends it or moves it on. *)

Ends(t) ==
    /\ frame' = [frame EXCEPT ![t] = NoFrame]
    /\ \E failed \in BOOLEAN :
          /\ workflow' = [workflow EXCEPT ![t] = workflow[t] /\ ~failed]
          /\ lock' = IF lock = t /\ ~(workflow[t] /\ ~failed) THEN None ELSE lock

Goes(t) ==
    /\ \A u \in Threads \ {t} : frame'[u] = frame[u]
    /\ frame'[t].id = frame[t].id /\ frame'[t].kind = frame[t].kind /\ frame'[t].at # "idle"
    /\ UNCHANGED <<lock, workflow>>

LEMMA LeaveEnds ==
    ASSUME NEW t, NEW STATE h, NEW failed \in BOOLEAN, Leave(t, h, failed)
    PROVE  Ends(t)
BY DEF Leave, Ends

LEMMA StepShape ==
    ASSUME TypeOK, TypeOK', NEW t \in Threads, CommandStep(t)
    PROVE  Running(t) /\ calls' = calls /\ (Ends(t) \/ Goes(t))
<1> USE DEF Running, controlVars
<1>0. frame \in [Threads -> Frame]
  BY DEF TypeOK
<1>1. CASE StartProbe(t)
  <2>1. CASE /\ frame' = [frame EXCEPT ![t] = [@ EXCEPT !.at = "ask", !.probe = live.probe + 1]]
             /\ UNCHANGED <<history, workflow, lock>>
    BY <1>0, <1>1, <2>1 DEF StartProbe, Goes, Frame
  <2> QED BY <1>1, <2>1, LeaveEnds DEF StartProbe
<1>2. CASE Ask(t)
  <2>1. ASSUME NEW depth, NEW o,
               frame' = [frame EXCEPT ![t] = [PhaseAt(frame[t], depth, "SENDING")
                                                  EXCEPT !.op = o, !.at = "probe"]],
               UNCHANGED <<workflow, lock>>
        PROVE  Goes(t)
    BY <1>0, <2>1 DEF Goes, PhaseAt, Frame
  <2> QED BY <1>2, <2>1, LeaveEnds DEF Ask
<1>3. CASE ProbeFails(t)
  BY <1>3, LeaveEnds DEF ProbeFails
<1>4. CASE ProbeAnswered(t)
  <2>1. ASSUME NEW n, frame' = [frame EXCEPT ![t] = [@ EXCEPT !.at = "snapshot", !.snap = n]],
               UNCHANGED <<workflow, lock>>
        PROVE  Goes(t)
    BY <1>0, <2>1 DEF Goes, Frame
  <2> QED BY <1>4, <2>1, LeaveEnds DEF ProbeAnswered
<1>5. CASE StoreSnapshot(t)
  <2>1. CASE frame' = [frame EXCEPT ![t].at = "checked"] /\ UNCHANGED <<workflow, lock>>
    BY <1>0, <1>5, <2>1 DEF StoreSnapshot, Goes, Frame
  <2> QED BY <1>5, <2>1, LeaveEnds DEF StoreSnapshot
<1>6. CASE Form(t)
  <2>1. ASSUME NEW o,
               frame' = [frame EXCEPT ![t] = [PhaseAt(frame[t], 1, "FORMING")
                                                  EXCEPT !.op = o, !.at = "signed"]],
               UNCHANGED <<workflow, lock>>
        PROVE  Goes(t)
    BY <1>0, <2>1 DEF Goes, PhaseAt, Frame
  <2> QED BY <1>6, <2>1 DEF Form
<1>7. CASE Send(t)
  <2>1. CASE /\ frame' = [frame EXCEPT ![t] = [PhaseAt(frame[t], 1, "SENDING")
                                                  EXCEPT !.at = "wait"]]
             /\ UNCHANGED <<workflow, lock>>
    BY <1>0, <1>7, <2>1 DEF Send, Goes, PhaseAt, Frame
  <2> QED BY <1>7, <2>1 DEF Send
<1>8. CASE Applied(t)
  BY <1>8, LeaveEnds DEF Applied
<1>9. CASE Rejected(t)
  BY <1>9, LeaveEnds DEF Rejected
<1>10. CASE Unanswered(t)
  BY <1>10, LeaveEnds DEF Unanswered
<1>11. CASE FormFails(t)
  BY <1>11, LeaveEnds DEF FormFails
<1> QED BY <1>1, <1>2, <1>3, <1>4, <1>5, <1>6, <1>7, <1>8, <1>9, <1>10, <1>11 DEF CommandStep

LEMMA FramesDistinctStep ==
    ASSUME TypeOK, TypeOK', FramesDistinct, [Next]_vars
    PROVE  FramesDistinct'
<1> USE DEF FramesDistinct, Running
<1>1. ASSUME NEW t \in Threads, StartWorkflow(t) \/ EndWorkflow(t) PROVE FramesDistinct'
  BY <1>1 DEF StartWorkflow, EndWorkflow
<1>2. ASSUME NEW t \in Threads, NEW k \in Kind, Call(t, k) PROVE FramesDistinct'
  <2>1. calls \in Nat /\ calls' = calls + 1
    BY <1>2 DEF Call, TypeOK
  <2>2. CASE UNCHANGED frame
    BY <2>1, <2>2
  <2>3. CASE frame' = [frame EXCEPT ![t] =
                          [NoFrame EXCEPT !.at = "check", !.id = calls + 1, !.kind = k]]
    <3>1. frame'[t].id = calls + 1 /\ \A u \in Threads \ {t} : frame'[u] = frame[u]
      BY <2>3 DEF TypeOK, NoFrame
    <3> QED BY <2>1, <3>1
  <2> QED BY <1>2, <2>2, <2>3 DEF Call
<1>3. ASSUME NEW t \in Threads, CommandStep(t) PROVE FramesDistinct'
  <2>1. Running(t) /\ calls' = calls /\ (Ends(t) \/ Goes(t))
    BY <1>3, StepShape
  <2>2. /\ \A u \in Threads \ {t} : frame'[u] = frame[u]
        /\ frame'[t].at = "idle" \/ frame'[t].id = frame[t].id
    BY <2>1, NoFrameType DEF Ends, Goes, TypeOK
  <2> QED BY <2>1, <2>2
<1>4. CASE Crash
  BY <1>4, NoFrameType DEF Crash
<1>5. CASE UNCHANGED <<frame, calls>>
  BY <1>5
<1> QED BY <1>1, <1>2, <1>3, <1>4, <1>5 DEF Next, GrantTurns, ConfirmSshSession, RightsTurn,
           Serve, vars, controlVars, cmdVars

\* The lock: whoever changes the server keeps it until it ends.
LEMMA LockOwnedStep ==
    ASSUME TypeOK, TypeOK', LockOwned, [Next]_vars
    PROVE  LockOwned'
<1> USE DEF LockOwned, Changing
<1>1. ASSUME NEW t \in Threads, StartWorkflow(t) PROVE LockOwned'
  BY <1>1 DEF StartWorkflow, TypeOK
<1>2. ASSUME NEW t \in Threads, EndWorkflow(t) PROVE LockOwned'
  BY <1>2 DEF EndWorkflow, TypeOK
<1>3. ASSUME NEW t \in Threads, NEW k \in Kind, Call(t, k) PROVE LockOwned'
  <2>1. CASE UNCHANGED <<lock, frame>>
    BY <1>3, <2>1 DEF Call
  <2>2. CASE /\ ~(Mutation(k) /\ ~workflow[t] /\ lock # None)
             /\ lock' = IF Mutation(k) /\ ~workflow[t] THEN t ELSE lock
             /\ frame' = [frame EXCEPT ![t] =
                             [NoFrame EXCEPT !.at = "check", !.id = calls + 1, !.kind = k]]
    <3>1. frame'[t].kind = k /\ \A u \in Threads \ {t} : frame'[u] = frame[u]
      BY <2>2 DEF TypeOK, NoFrame
    <3>2. workflow' = workflow
      BY <1>3 DEF Call
    <3> QED BY <2>2, <3>1, <3>2 DEF TypeOK
  <2> QED BY <1>3, <2>1, <2>2 DEF Call
<1>4. ASSUME NEW t \in Threads, CommandStep(t) PROVE LockOwned'
  <2>0. Running(t) /\ (Ends(t) \/ Goes(t))
    BY <1>4, StepShape
  <2>1. CASE Goes(t)
    <3>1. /\ \A u \in Threads \ {t} : frame'[u] = frame[u]
          /\ frame'[t].kind = frame[t].kind /\ UNCHANGED <<lock, workflow>>
      BY <2>1 DEF Goes, TypeOK
    <3> QED BY <2>0, <3>1 DEF Running
  <2>2. CASE Ends(t)
    <3>1. PICK failed \in BOOLEAN :
            /\ workflow' = [workflow EXCEPT ![t] = workflow[t] /\ ~failed]
            /\ lock' = IF lock = t /\ ~(workflow[t] /\ ~failed) THEN None ELSE lock
      BY <2>2 DEF Ends
    <3>2. frame'[t].at = "idle" /\ \A u \in Threads \ {t} : frame'[u] = frame[u]
      BY <2>2, NoFrameType DEF Ends, TypeOK
    <3>3. workflow'[t] = (workflow[t] /\ ~failed) /\ \A u \in Threads \ {t} : workflow'[u] = workflow[u]
      BY <3>1 DEF TypeOK
    <3> QED BY <3>1, <3>2, <3>3
  <2> QED BY <2>0, <2>1, <2>2
<1>5. CASE Crash
  BY <1>5, NoFrameType DEF Crash
<1>6. CASE UNCHANGED <<lock, frame, workflow>>
  BY <1>6
<1> QED BY <1>1, <1>2, <1>3, <1>4, <1>5, <1>6 DEF Next, GrantTurns, ConfirmSshSession, RightsTurn,
           Serve, vars, controlVars, cmdVars

LEMMA CallShape ==
    ASSUME TypeOK, NEW t \in Threads, NEW k \in Kind, Call(t, k)
    PROVE  /\ \A u \in Threads \ {t} : frame'[u] = frame[u]
           /\ frame[t].at = "idle" /\ calls' = calls + 1
           /\ \/ frame' = frame
              \/ frame'[t].at = "check" /\ frame'[t].id = calls + 1 /\ frame'[t].phase = "CHECKING"
<1>1. CASE frame' = [frame EXCEPT ![t] =
                        [NoFrame EXCEPT !.at = "check", !.id = calls + 1, !.kind = k]]
  BY <1>1 DEF Call, TypeOK, NoFrame
<1> QED BY <1>1 DEF Call

\* The position, the operation and the phase after each move.
Move(t, from, to) == frame[t].at = from /\ frame'[t].at = to
SamePhase(t) == frame'[t].phase = frame[t].phase

LEMMA Moves ==
    ASSUME TypeOK, NEW t \in Threads, CommandStep(t), ~Ends(t)
    PROVE  \/ StartProbe(t) /\ Move(t, "check", "ask") /\ SamePhase(t)
           \/ /\ Ask(t) /\ Move(t, "ask", "probe") /\ frame'[t].op = <<frame[t].id, "probe">>
              /\ IF frame[t].kind = "snapshot" THEN frame'[t].phase = "SENDING" ELSE SamePhase(t)
           \/ ProbeAnswered(t) /\ Move(t, "probe", "snapshot") /\ SamePhase(t)
           \/ /\ StoreSnapshot(t) /\ Move(t, "snapshot", "checked") /\ SamePhase(t)
              /\ frame[t].kind # "snapshot"
           \/ /\ Form(t) /\ Move(t, "checked", "signed") /\ frame'[t].phase = "FORMING"
              /\ frame'[t].op = IF frame[t].kind = "durable" /\ durable # None THEN durable.op
                                ELSE <<frame[t].id, "main">>
           \/ /\ Send(t) /\ Move(t, "signed", "wait") /\ frame'[t].phase = "SENDING"
              /\ frame'[t].op = frame[t].op
<1> USE DEF Move, SamePhase
<1>0. frame \in [Threads -> Frame]
  BY DEF TypeOK
<1>1. CASE StartProbe(t)
  <2>1. frame' = [frame EXCEPT ![t] = [@ EXCEPT !.at = "ask", !.probe = live.probe + 1]]
    BY <1>1, LeaveEnds DEF StartProbe
  <2> QED BY <1>0, <1>1, <2>1 DEF StartProbe, Frame
<1>2. CASE Ask(t)
  <2> DEFINE depth == IF frame[t].kind = "snapshot" THEN 1 ELSE 2
             o == <<frame[t].id, "probe">>
  <2>1. frame' = [frame EXCEPT ![t] = [PhaseAt(frame[t], depth, "SENDING")
                                           EXCEPT !.op = o, !.at = "probe"]]
    BY <1>2, LeaveEnds DEF Ask
  <2>2. frame[t].at = "ask"
    BY <1>2 DEF Ask
  <2> HIDE DEF o
  <2>3. frame'[t].at = "probe" /\ frame'[t].op = o
    BY <1>0, <2>1 DEF PhaseAt, Frame
  <2>4. IF frame[t].kind = "snapshot" THEN frame'[t].phase = "SENDING" ELSE SamePhase(t)
    BY <1>0, <2>1 DEF PhaseAt, Frame
  <2> QED BY <1>2, <2>2, <2>3, <2>4 DEF o
<1>3. CASE ProbeAnswered(t)
  <2>1. PICK n : frame' = [frame EXCEPT ![t] = [@ EXCEPT !.at = "snapshot", !.snap = n]]
    BY <1>3, LeaveEnds DEF ProbeAnswered
  <2> QED BY ZenonT(60), <1>0, <1>3, <2>1 DEF ProbeAnswered, Frame
<1>4. CASE StoreSnapshot(t)
  <2>1. frame' = [frame EXCEPT ![t].at = "checked"] /\ frame[t].kind # "snapshot"
    BY <1>4, LeaveEnds DEF StoreSnapshot
  <2> QED BY <1>0, <1>4, <2>1 DEF StoreSnapshot, Frame
<1>5. CASE Form(t)
  <2> DEFINE o == IF frame[t].kind = "durable" /\ durable # None THEN durable.op
                  ELSE <<frame[t].id, "main">>
  <2>1. frame' = [frame EXCEPT ![t] = [PhaseAt(frame[t], 1, "FORMING")
                                           EXCEPT !.op = o, !.at = "signed"]]
    BY <1>5 DEF Form
  <2>2. frame[t].at = "checked"
    BY <1>5 DEF Form
  <2> HIDE DEF o
  <2>3. frame'[t].at = "signed" /\ frame'[t].op = o /\ frame'[t].phase = "FORMING"
    BY <1>0, <2>1 DEF PhaseAt, Frame
  <2> QED BY <1>5, <2>2, <2>3 DEF o
<1>6. CASE Send(t)
  <2>1. frame' = [frame EXCEPT ![t] = [PhaseAt(frame[t], 1, "SENDING") EXCEPT !.at = "wait"]]
    BY <1>6 DEF Send
  <2> QED BY <1>0, <1>6, <2>1 DEF Send, PhaseAt, Frame
<1> QED BY <1>1, <1>2, <1>3, <1>4, <1>5, <1>6, LeaveEnds
        DEF CommandStep, ProbeFails, Applied, Rejected, Unanswered, FormFails

-----------------------------------------------------------------------------
(* The envelope, the operations and the server's memory. *)

\* Two durable changes never run side by side.
LEMMA OneDurable ==
    ASSUME LockOwned, NEW t \in Threads, NEW u \in Threads, Running(t), Running(u),
           frame[t].kind = "durable", frame[u].kind = "durable"
    PROVE  t = u
BY DEF LockOwned, Changing, Mutation, Running

\* What forming a durable change stores.
LEMMA FormStores ==
    ASSUME TypeOK, FramesDistinct, NEW t \in Threads, Form(t), frame[t].kind = "durable"
    PROVE  /\ durable' # None
           /\ durable'.op = IF durable # None THEN durable.op ELSE <<frame[t].id, "main">>
<1>1. <<frame[t].id, "main">> \in OpId /\ frame[t].snap \in Nat
  BY RunningId, IdFacts DEF Form, Running, TypeOK, Frame
<1>2. CASE durable # None
  <2>1. durable.op \in OpId
    BY <1>2 DEF TypeOK
  <2>2. [op |-> durable.op, rev |-> frame[t].snap] \in [op: OpId, rev: Nat]
    BY <1>1, <2>1
  <2> QED BY <1>2, <2>2 DEF Form
<1>3. CASE durable = None
  <2>1. [op |-> <<frame[t].id, "main">>, rev |-> frame[t].snap] \in [op: OpId, rev: Nat]
    BY <1>1
  <2> QED BY <1>3, <2>1 DEF Form
<1> QED BY <1>2, <1>3

\* Only the answered command itself clears the envelope.
LEMMA DurableOfStep ==
    ASSUME NEW t \in Threads, CommandStep(t), ~Form(t)
    PROVE  \/ UNCHANGED <<durable, applications>>
           \/ /\ frame[t].at = "wait" /\ frame[t].kind = "durable"
              /\ \E v \in {"ok", "denied", "rejected"} : Confirmed(t, v)
              /\ durable' = None /\ applications' = 0
<1>1. ClearDurable(t) => \/ UNCHANGED <<durable, applications>>
                         \/ frame[t].kind = "durable" /\ durable' = None /\ applications' = 0
  BY DEF ClearDurable
<1>2. CASE Applied(t)
  BY <1>1, <1>2 DEF Applied
<1>3. CASE Rejected(t)
  BY <1>1, <1>3 DEF Rejected
<1>4. CASE ~Applied(t) /\ ~Rejected(t)
  BY <1>4 DEF CommandStep, StartProbe, Ask, ProbeFails, ProbeAnswered, StoreSnapshot, Send,
              Unanswered, FormFails, ghostVars
<1> QED BY <1>2, <1>3, <1>4

LEMMA DurableKeptStep ==
    ASSUME TypeOK, TypeOK', FramesDistinct, LockOwned, DurableKept, [Next]_vars
    PROVE  DurableKept'
<1> USE DEF DurableKept
<1>1. ASSUME NEW t \in Threads, StartWorkflow(t) \/ EndWorkflow(t) PROVE DurableKept'
  BY <1>1 DEF StartWorkflow, EndWorkflow
<1>2. ASSUME NEW t \in Threads, NEW k \in Kind, Call(t, k) PROVE DurableKept'
  <2>1. UNCHANGED durable
    BY <1>2 DEF Call
  <2> QED BY <1>2, <2>1, CallShape
<1>3. ASSUME NEW t \in Threads, CommandStep(t) PROVE DurableKept'
  <2>0. Running(t) /\ (Ends(t) \/ Goes(t)) /\ \A u \in Threads \ {t} : frame'[u] = frame[u]
    BY <1>3, StepShape DEF Ends, Goes, TypeOK
  <2>1. ASSUME NEW u \in Threads \ {t}, frame'[u].at \in {"signed", "wait"}, frame'[u].kind = "durable"
        PROVE  durable' # None /\ frame'[u].op = durable'.op
    <3>1. frame'[u] = frame[u] /\ Running(u) /\ frame[t].kind # "durable"
      BY <2>0, <2>1, OneDurable DEF Running
    <3>2. durable' = durable
      BY <1>3, <3>1, DurableOfStep DEF Form
    <3> QED BY <2>1, <3>1, <3>2
  <2>2. ASSUME frame'[t].at \in {"signed", "wait"}, frame'[t].kind = "durable"
        PROVE  durable' # None /\ frame'[t].op = durable'.op
    <3>1. ~Ends(t)
      BY <2>2, NoFrameType DEF Ends, TypeOK
    <3>2. frame[t].kind = "durable"
      BY <2>0, <2>2, <3>1 DEF Goes
    <3>3. CASE Form(t) /\ frame'[t].op = IF frame[t].kind = "durable" /\ durable # None
                                         THEN durable.op ELSE <<frame[t].id, "main">>
      BY <3>2, <3>3, FormStores
    <3>4. CASE Send(t) /\ frame'[t].op = frame[t].op
      BY <3>2, <3>4 DEF Send
    <3> QED BY <1>3, <2>2, <3>1, <3>3, <3>4, Moves DEF Move
  <2> QED BY <2>1, <2>2
<1>4. CASE Crash
  BY <1>4, NoFrameType DEF Crash
<1>5. CASE UNCHANGED <<frame, durable>>
  BY <1>5
<1> QED BY <1>1, <1>2, <1>3, <1>4, <1>5 DEF Next, GrantTurns, ConfirmSshSession, RightsTurn,
           Serve, vars, cmdVars

LEMMA SignedHasOpStep ==
    ASSUME TypeOK, TypeOK', FramesDistinct, SignedHasOp, [Next]_vars
    PROVE  SignedHasOp'
<1> USE DEF SignedHasOp
<1>1. ASSUME NEW t \in Threads, StartWorkflow(t) \/ EndWorkflow(t) PROVE SignedHasOp'
  BY <1>1 DEF StartWorkflow, EndWorkflow
<1>2. ASSUME NEW t \in Threads, NEW k \in Kind, Call(t, k) PROVE SignedHasOp'
  BY <1>2, CallShape
<1>3. ASSUME NEW t \in Threads, CommandStep(t) PROVE SignedHasOp'
  <2>0. frame \in [Threads -> Frame] /\ \A u \in Threads \ {t} : frame'[u] = frame[u]
    BY <1>3, StepShape DEF Ends, Goes, TypeOK
  <2>1. CASE Form(t)
    <3>1. frame[t].id \in CallId
      BY <2>1, RunningId DEF Form, Running
    <3>2. frame'[t].op = IF frame[t].kind = "durable" /\ durable # None THEN durable.op
                         ELSE <<frame[t].id, "main">>
      BY <2>0, <2>1 DEF Form, PhaseAt, Frame
    <3>3. frame'[t].op \in OpId
      BY <3>1, <3>2, IdFacts DEF TypeOK
    <3> QED BY <2>0, <3>3
  <2>2. CASE Send(t)
    <3>1. frame'[t].op = frame[t].op
      BY <2>0, <2>2 DEF Send, PhaseAt, Frame
    <3> QED BY <2>0, <2>2, <3>1 DEF Send
  <2>3. CASE Ends(t)
    BY <2>0, <2>3, NoFrameType DEF Ends
  <2>4. CASE ~Form(t) /\ ~Send(t) /\ ~Ends(t)
    <3>1. frame'[t].at \notin {"signed", "wait"}
      BY <1>3, <2>4, Moves DEF Move
    <3> QED BY <2>0, <3>1
  <2> QED BY <2>1, <2>2, <2>3, <2>4
<1>4. CASE Crash
  BY <1>4, NoFrameType DEF Crash
<1>5. CASE UNCHANGED frame
  BY SMTT(60), <1>5
<1> QED BY <1>1, <1>2, <1>3, <1>4, <1>5 DEF Next, GrantTurns, ConfirmSshSession, RightsTurn,
           Serve, vars, cmdVars

\* A verdict of the server is final.
OutcomeKept == \A o \in OpId : outcome[o] # "none" => outcome'[o] = outcome[o]

LEMMA OutcomeStep ==
    ASSUME TypeOK, [Next]_vars
    PROVE  OutcomeKept
<1> USE DEF serverVars
<1>1. ASSUME NEW m \in requests, Serve(m) PROVE OutcomeKept
  <2>1. m.op \in OpId
    BY DEF TypeOK
  <2>2. PICK v : /\ outcome' = [outcome EXCEPT ![m.op] = v]
                 /\ outcome[m.op] # "none" => v = outcome[m.op]
    BY <1>1 DEF Serve
  <2> QED BY <2>1, <2>2 DEF OutcomeKept, TypeOK
<1>2. CASE UNCHANGED outcome
  BY <1>2 DEF OutcomeKept
<1> QED BY ZenonT(60), <1>1, <1>2 DEF Next, StartWorkflow, EndWorkflow, Call, CommandStep, StartProbe, Ask,
           ProbeFails, ProbeAnswered, StoreSnapshot, Form, Send, Applied, Rejected, Unanswered,
           FormFails, Crash, GrantTurns, ConfirmSshSession, RightsTurn, vars

LEMMA RepliesTrueStep ==
    ASSUME TypeOK, TypeOK', RepliesTrue, [Next]_vars
    PROVE  RepliesTrue'
<1> USE DEF RepliesTrue
<1>0. \A r \in replies : outcome'[r.op] = r.status
  BY OutcomeStep DEF OutcomeKept, TypeOK
<1>1. ASSUME NEW m \in requests, Serve(m) PROVE RepliesTrue'
  <2>1. PICK v : /\ outcome' = [outcome EXCEPT ![m.op] = v]
                 /\ replies' = replies \cup {[op |-> m.op, status |-> v, rev |-> serverRev]}
    BY <1>1 DEF Serve
  <2>2. m.op \in OpId
    BY DEF TypeOK
  <2> QED BY <1>0, <2>1, <2>2 DEF TypeOK
<1>2. CASE replies' = replies
  BY <1>0, <1>2
<1> QED BY ZenonT(60), <1>1, <1>2 DEF Next, StartWorkflow, EndWorkflow, Call, CommandStep, StartProbe, Ask,
           ProbeFails, ProbeAnswered, StoreSnapshot, Form, Send, Applied, Rejected, Unanswered,
           FormFails, Crash, GrantTurns, ConfirmSshSession, RightsTurn, vars, netVars

LEMMA ProbeOwnedStep ==
    ASSUME TypeOK, TypeOK', FramesDistinct, RepliesTrue, ProbeOwned, [Next]_vars
    PROVE  ProbeOwned'
<1> USE DEF ProbeOwned
<1>0. ASSUME NEW u \in Threads, frame'[u] = frame[u]
      PROVE  /\ frame'[u].at = "probe" => frame'[u].op = <<frame'[u].id, "probe">>
             /\ frame'[u].at \in {"snapshot", "checked", "signed", "wait"}
                   => outcome'[<<frame'[u].id, "probe">>] = "ok"
  <2>1. CASE frame[u].at \in {"snapshot", "checked", "signed", "wait"}
    <3>1. <<frame[u].id, "probe">> \in OpId
      BY <2>1, RunningId, IdFacts DEF Running
    <3> QED BY <1>0, <2>1, <3>1, OutcomeStep DEF OutcomeKept
  <2>2. CASE frame[u].at \notin {"snapshot", "checked", "signed", "wait"}
    BY <1>0, <2>2
  <2> QED BY <2>1, <2>2
<1>1. ASSUME NEW t \in Threads, NEW k \in Kind, Call(t, k) PROVE ProbeOwned'
  BY <1>0, <1>1, CallShape
<1>2. ASSUME NEW t \in Threads, CommandStep(t) PROVE ProbeOwned'
  <2>0. frame \in [Threads -> Frame] /\ \A u \in Threads \ {t} : frame'[u] = frame[u]
    BY <1>2, StepShape DEF Ends, Goes, TypeOK
  <2>1. CASE Ends(t)
    BY <1>0, <2>0, <2>1, NoFrameType DEF Ends
  <2>2. CASE ~Ends(t)
    <3>1. frame'[t].id = frame[t].id
      BY <1>2, <2>2, StepShape DEF Goes
    <3>2. CASE Move(t, "check", "ask")
      BY <1>0, <2>0, <3>2 DEF Move
    <3>3. CASE Move(t, "ask", "probe") /\ frame'[t].op = <<frame[t].id, "probe">>
      BY <1>0, <2>0, <3>1, <3>3 DEF Move
    <3>4. CASE ProbeAnswered(t) /\ Move(t, "probe", "snapshot")
      <4>1. outcome[<<frame[t].id, "probe">>] = "ok" /\ outcome' = outcome
        BY <3>4 DEF ProbeAnswered, Reply, RepliesTrue, serverVars, Move
      <4> QED BY <1>0, <2>0, <3>1, <3>4, <4>1 DEF Move
    <3>5. CASE /\ StoreSnapshot(t) \/ Form(t) \/ Send(t)
               /\ \/ Move(t, "snapshot", "checked") \/ Move(t, "checked", "signed")
                  \/ Move(t, "signed", "wait")
      <4>1. outcome' = outcome
        BY <3>5 DEF StoreSnapshot, Form, Send, serverVars
      <4> QED BY ZenonT(60), <1>0, <2>0, <3>1, <3>5, <4>1 DEF Move
    <3> QED BY <1>2, <2>2, <3>2, <3>3, <3>4, <3>5, Moves
  <2> QED BY <2>1, <2>2
<1>3. CASE Crash
  BY <1>3, NoFrameType DEF Crash
<1>4. CASE UNCHANGED frame
  BY <1>0, <1>4
<1> QED BY <1>1, <1>2, <1>3, <1>4 DEF Next, StartWorkflow, EndWorkflow, GrantTurns,
           ConfirmSshSession, RightsTurn, Serve, vars, cmdVars

-----------------------------------------------------------------------------
(* Submissions and the history. *)

\* What a step adds to sent: the command that moves.
LEMMA SentOfStep ==
    ASSUME TypeOK, NEW t \in Threads, CommandStep(t)
    PROVE  \/ sent' = sent
           \/ /\ ~Ends(t)
              /\ sent' = sent \cup {[call |-> frame[t].id, kind |-> frame[t].kind]}
              /\ Send(t) \/ (Ask(t) /\ frame[t].kind = "snapshot")
<1>0. frame \in [Threads -> Frame]
  BY DEF TypeOK
<1>1. CASE Ask(t) /\ frame[t].kind = "snapshot" /\ grant
  <2>1. sent' = sent \cup {[call |-> frame[t].id, kind |-> frame[t].kind]}
    BY <1>1 DEF Ask
  <2>2. PICK o, depth : frame' = [frame EXCEPT ![t] = [PhaseAt(frame[t], depth, "SENDING")
                                                          EXCEPT !.op = o, !.at = "probe"]]
    BY <1>1 DEF Ask
  <2>3. frame'[t].at = "probe"
    BY <1>0, <2>2 DEF PhaseAt, Frame
  <2>4. ~Ends(t)
    BY <1>0, <2>3, NoFrameType DEF Ends
  <2> QED BY <1>1, <2>1, <2>4
<1>2. CASE Ask(t) /\ ~(frame[t].kind = "snapshot" /\ grant)
  <2>1. CASE ~grant
    BY <1>2, <2>1 DEF Ask
  <2>2. CASE frame[t].kind # "snapshot" /\ grant
    BY <1>2, <2>2 DEF Ask
  <2> QED BY <1>2, <2>1, <2>2
<1>3. CASE Send(t)
  <2>1. frame'[t].at = "wait"
    BY <1>0, <1>3 DEF Send, PhaseAt, Frame
  <2>2. ~Ends(t)
    BY <1>0, <2>1, NoFrameType DEF Ends
  <2>3. sent' = sent \cup {[call |-> frame[t].id, kind |-> frame[t].kind]}
    BY <1>3 DEF Send
  <2> QED BY <1>3, <2>2, <2>3
<1>4. CASE ~Ask(t) /\ ~Send(t)
  BY <1>4 DEF CommandStep, StartProbe, ProbeFails, ProbeAnswered, StoreSnapshot, Form,
              Applied, Rejected, Unanswered, FormFails, ghostVars
<1> QED BY <1>1, <1>2, <1>3, <1>4

LEMMA SentIsSendingStep ==
    ASSUME TypeOK, TypeOK', FramesDistinct, SentIsSending, [Next]_vars
    PROVE  SentIsSending'
<1> USE DEF SentIsSending, Running
<1>0. calls \in Nat /\ calls' \in Nat
  BY DEF TypeOK
<1>1. ASSUME NEW t \in Threads, NEW k \in Kind, Call(t, k) PROVE SentIsSending'
  <2>1. sent' = sent
    BY <1>1 DEF Call, ghostVars
  <2> QED BY <1>0, <1>1, <2>1, CallShape
<1>2. ASSUME NEW t \in Threads, CommandStep(t) PROVE SentIsSending'
  <2>0. Running(t) /\ calls' = calls /\ (Ends(t) \/ Goes(t))
    BY <1>2, StepShape
  <2>1. CASE Ends(t)
    <3>1. frame'[t].at = "idle" /\ \A u \in Threads \ {t} : frame'[u] = frame[u]
      BY <2>1, NoFrameType DEF Ends, TypeOK
    <3>2. sent' = sent
      BY <1>2, <2>1, SentOfStep
    <3> QED BY <2>0, <3>1, <3>2
  <2>2. CASE ~Ends(t)
    <3>1. /\ \A u \in Threads \ {t} : frame'[u] = frame[u]
          /\ frame'[t].id = frame[t].id /\ frame'[t].kind = frame[t].kind
      BY <2>0, <2>2 DEF Goes
    <3>2. \A s \in sent : frame[t].id = s.call =>
             /\ frame'[t].phase = "SENDING"
             /\ frame'[t].kind = "snapshot" /\ frame'[t].at \in {"probe", "snapshot"}
      BY <1>2, <2>0, <2>2, <3>1, Moves DEF Move, SamePhase
    <3>3. CASE sent' = sent
      BY <2>0, <3>1, <3>2, <3>3
    <3>4. CASE /\ sent' = sent \cup {[call |-> frame[t].id, kind |-> frame[t].kind]}
               /\ Send(t) \/ (Ask(t) /\ frame[t].kind = "snapshot")
      <4>1. /\ frame'[t].phase = "SENDING"
            /\ \/ frame'[t].at = "wait"
               \/ frame'[t].kind = "snapshot" /\ frame'[t].at = "probe"
        <5>1. CASE Send(t)
          BY <1>2, <2>2, <5>1, Moves DEF Move, Send
        <5>2. CASE Ask(t) /\ frame[t].kind = "snapshot"
          BY <1>2, <2>2, <3>1, <5>2, Moves DEF Move, Ask
        <5> QED BY <3>4, <5>1, <5>2
      <4>2. frame[t].id \in 1..calls
        BY <2>0 DEF FramesDistinct
      <4> QED BY <2>0, <3>1, <3>2, <3>4, <4>1, <4>2 DEF FramesDistinct
    <3> QED BY <1>2, <3>3, <3>4, SentOfStep
  <2> QED BY <2>1, <2>2
<1>3. CASE Crash
  BY <1>3, NoFrameType DEF Crash, ghostVars
<1>4. CASE UNCHANGED <<frame, calls, sent>>
  BY <1>4
<1> QED BY <1>1, <1>2, <1>3, <1>4 DEF Next, StartWorkflow, EndWorkflow, GrantTurns,
           ConfirmSshSession, RightsTurn, Serve, vars, cmdVars, controlVars, ghostVars

LEMMA SentWithLiveAccessStep ==
    ASSUME TypeOK, TypeOK', FramesDistinct, ProbeOwned, SentWithLiveAccess, [Next]_vars
    PROVE  SentWithLiveAccess'
<1> USE DEF SentWithLiveAccess
<1>0. \A s \in sent : s.kind # "snapshot" => outcome'[<<s.call, "probe">>] = "ok"
  <2>1. \A s \in sent : <<s.call, "probe">> \in OpId
    BY IdFacts DEF TypeOK
  <2> QED BY <2>1, OutcomeStep DEF OutcomeKept
<1>1. ASSUME NEW t \in Threads, CommandStep(t) PROVE SentWithLiveAccess'
  <2>1. CASE sent' = sent
    BY <1>0, <2>1
  <2>2. CASE /\ Send(t)
             /\ sent' = sent \cup {[call |-> frame[t].id, kind |-> frame[t].kind]}
    <3>1. outcome[<<frame[t].id, "probe">>] = "ok" /\ outcome' = outcome
      BY <2>2 DEF Send, ProbeOwned, serverVars
    <3> QED BY <1>0, <2>2, <3>1
  <2>3. CASE /\ frame[t].kind = "snapshot"
             /\ sent' = sent \cup {[call |-> frame[t].id, kind |-> frame[t].kind]}
    BY <1>0, <2>3
  <2> QED BY <1>1, <2>1, <2>2, <2>3, SentOfStep
<1>2. CASE sent' = sent
  BY <1>0, <1>2
<1> QED BY <1>1, <1>2 DEF Next, StartWorkflow, EndWorkflow, Call, Crash, GrantTurns,
           ConfirmSshSession, RightsTurn, Serve, vars, ghostVars

\* Running commands keep their numbers and new ones get the next; only a running
\* command is submitted.
LEMMA NumbersKept ==
    ASSUME TypeOK, TypeOK', FramesDistinct, [Next]_vars
    PROVE  /\ calls' \in {calls, calls + 1}
           /\ \A t \in Threads : Running(t)' =>
                 (Running(t) /\ frame'[t].id = frame[t].id) \/ frame'[t].id = calls + 1
           /\ \A s \in sent' : s \in sent \/ \E t \in Threads : Running(t) /\ frame[t].id = s.call
<1> USE DEF Running
<1>1. ASSUME NEW t \in Threads, NEW k \in Kind, Call(t, k)
      PROVE  /\ calls' = calls + 1 /\ sent' = sent
             /\ \A u \in Threads : Running(u)' =>
                   (Running(u) /\ frame'[u].id = frame[u].id) \/ frame'[u].id = calls + 1
  BY <1>1, CallShape DEF Call, ghostVars
<1>2. ASSUME NEW t \in Threads, CommandStep(t)
      PROVE  /\ calls' = calls
             /\ \A u \in Threads : Running(u)' => Running(u) /\ frame'[u].id = frame[u].id
             /\ \A s \in sent' : s \in sent \/ (frame[t].id = s.call /\ Running(t))
  <2>1. Running(t) /\ calls' = calls /\ (Ends(t) \/ Goes(t))
    BY <1>2, StepShape
  <2>2. \A u \in Threads : Running(u)' => Running(u) /\ frame'[u].id = frame[u].id
    BY <2>1, NoFrameType DEF Ends, Goes, TypeOK
  <2> QED BY <1>2, <2>1, <2>2, SentOfStep
<1>3. CASE Crash
  BY <1>3, NoFrameType DEF Crash, ghostVars
<1>4. CASE UNCHANGED <<frame, calls, sent>>
  BY <1>4
<1> QED BY <1>1, <1>2, <1>3, <1>4 DEF Next, StartWorkflow, EndWorkflow, GrantTurns,
           ConfirmSshSession, RightsTurn, Serve, vars, cmdVars, controlVars, ghostVars

\* A truthful record stays truthful.
LEMMA TruthfulKept ==
    ASSUME TypeOK, TypeOK', FramesDistinct, [Next]_vars, NEW r, Truthful(r)
    PROVE  Truthful(r)'
<1>1. calls \in Nat /\ calls' \in {calls, calls + 1}
  BY NumbersKept DEF TypeOK
<1>2. r.status \in {"applied", "failed"} => outcome'[r.id] = outcome[r.id]
  BY OutcomeStep DEF OutcomeKept, Truthful
<1>3. CASE r.status = "cancelled_local"
  <2>1. PICK n \in 1..calls :
          /\ r.id = <<n, "frame">>
          /\ \A t \in Threads : Running(t) => frame[t].id # n
          /\ \A s \in sent : s.call # n
    BY <1>3 DEF Truthful
  <2>2. n \in 1..calls' /\ n # calls + 1
    BY <1>1
  <2>3. \A t \in Threads : Running(t)' => frame'[t].id # n
    BY <2>1, <2>2, NumbersKept
  <2>4. \A s \in sent' : s.call # n
    BY <2>1, NumbersKept
  <2> QED BY <1>3, <2>1, <2>2, <2>3, <2>4 DEF Truthful
<1>4. CASE r.status # "cancelled_local"
  BY <1>2, <1>4 DEF Truthful
<1> QED BY <1>3, <1>4

\* The records a command writes when it ends.
LEMMA LeaveTruthful ==
    ASSUME TypeOK, TypeOK', FramesDistinct, SentIsSending, [Next]_vars,
           NEW t \in Threads, CommandStep(t), NEW STATE h, NEW failed \in BOOLEAN, Leave(t, h, failed),
           \A r \in h : Truthful(r)'
    PROVE  HistoryTruthful'
<1>1. Running(t) /\ calls' = calls /\ Ends(t)
  BY StepShape, LeaveEnds
<1>2. frame[t].id \in 1..calls
  BY <1>1 DEF FramesDistinct
<1>3. sent' = sent
  BY <1>1, SentOfStep
<1>4. CASE failed /\ frame[t].phase # "SENDING"
  <2>1. history' = h \cup {[id |-> <<frame[t].id, "frame">>, status |-> "cancelled_local"]}
    BY <1>4 DEF Leave, Record
  <2>2. \A u \in Threads : Running(u)' => frame'[u].id # frame[t].id
    BY <1>1, NoFrameType DEF Ends, Running, FramesDistinct, TypeOK
  <2>3. \A s \in sent' : s.call # frame[t].id
    BY <1>1, <1>3, <1>4 DEF SentIsSending
  <2>4. ASSUME NEW r, r = [id |-> <<frame[t].id, "frame">>, status |-> "cancelled_local"]
        PROVE  Truthful(r)'
    <3>1. r.id = <<frame[t].id, "frame">> /\ r.status = "cancelled_local"
      BY <2>4
    <3> QED BY <1>1, <1>2, <2>2, <2>3, <3>1 DEF Truthful
  <2> QED BY <2>1, <2>4 DEF HistoryTruthful
<1>5. CASE ~(failed /\ frame[t].phase # "SENDING")
  BY <1>5 DEF Leave, HistoryTruthful
<1> QED BY <1>4, <1>5

\* What the server has not settled, and what it has said, may be recorded.
LEMMA UpdateTruthful ==
    ASSUME TypeOK, TypeOK', FramesDistinct, RepliesTrue, HistoryTruthful, [Next]_vars,
           NEW t \in Threads, CommandStep(t), NEW status \in {"applied", "failed", "unknown"},
           status = "applied" => Confirmed(t, "ok"),
           status = "failed" => Confirmed(t, "denied") \/ Confirmed(t, "rejected")
    PROVE  \A r \in Update(history, frame[t].op, status) : Truthful(r)'
<1>1. outcome' = outcome
  BY DEF CommandStep, StartProbe, Ask, ProbeFails, ProbeAnswered, StoreSnapshot, Form, Send,
         Applied, Rejected, Unanswered, FormFails, serverVars
<1>2. \A v : Confirmed(t, v) => frame[t].op \in OpId /\ outcome[frame[t].op] = v
  BY DEF Confirmed, Reply, RepliesTrue, TypeOK
<1>3. ASSUME NEW r \in Update(history, frame[t].op, status) PROVE Truthful(r)'
  <2>1. CASE r \in history
    BY <2>1, TruthfulKept DEF HistoryTruthful
  <2>2. CASE \E q \in history : q.id = frame[t].op /\ r = [q EXCEPT !.status = status]
    <3>1. PICK q \in history : q.id = frame[t].op /\ r = [q EXCEPT !.status = status]
      BY <2>2
    <3>2. r.id = frame[t].op /\ r.status = status
      BY <3>1 DEF TypeOK
    <3> QED BY <1>1, <1>2, <3>2 DEF Truthful
  <2> QED BY <1>3, <2>1, <2>2 DEF Update
<1> QED BY <1>3

LEMMA PendingTruthful ==
    ASSUME TypeOK, TypeOK', FramesDistinct, HistoryTruthful, [Next]_vars,
           \E id : history' = Record(history, id, "pending")
    PROVE  HistoryTruthful'
<1>1. PICK id : history' = Record(history, id, "pending")
  OBVIOUS
<1>2. \A r \in history : Truthful(r)'
  BY TruthfulKept DEF HistoryTruthful
<1>3. Truthful([id |-> id, status |-> "pending"])'
  BY DEF Truthful
<1> QED BY <1>1, <1>2, <1>3 DEF Record, HistoryTruthful

LEMMA HistoryTruthfulStep ==
    ASSUME TypeOK, TypeOK', FramesDistinct, RepliesTrue, SentIsSending, HistoryTruthful,
           [Next]_vars
    PROVE  HistoryTruthful'
<1>0. \A r \in history : Truthful(r)'
  BY TruthfulKept DEF HistoryTruthful
<1>1. ASSUME NEW t \in Threads, NEW k \in Kind, Call(t, k) PROVE HistoryTruthful'
  <2>1. CASE history' = history
    BY <1>0, <2>1 DEF HistoryTruthful
  <2>2. CASE history' = Record(history, <<calls + 1, "frame">>, "cancelled_local") /\ frame' = frame
    <3>1. calls' = calls + 1 /\ calls \in Nat /\ sent' = sent
      BY <1>1 DEF Call, TypeOK, ghostVars
    <3>2. \A u \in Threads : Running(u)' => frame'[u].id # calls + 1
      BY <2>2, <3>1 DEF Running, FramesDistinct
    <3>3. \A s \in sent' : s.call # calls + 1
      BY <3>1 DEF SentIsSending
    <3>4. ASSUME NEW r, r = [id |-> <<calls + 1, "frame">>, status |-> "cancelled_local"]
          PROVE  Truthful(r)'
      <4>1. /\ r.id = <<calls + 1, "frame">> /\ r.status = "cancelled_local"
            /\ calls + 1 \in 1..calls'
        BY <3>1, <3>4
      <4> QED BY <3>1, <3>2, <3>3, <4>1 DEF Truthful
    <3> QED BY <1>0, <2>2, <3>4 DEF HistoryTruthful, Record
  <2> QED BY <1>1, <2>1, <2>2 DEF Call
<1>2. ASSUME NEW t \in Threads, CommandStep(t) PROVE HistoryTruthful'
  <2>1. CASE history' = history
    BY <1>0, <2>1 DEF HistoryTruthful
  <2>2. ASSUME NEW failed \in BOOLEAN, Leave(t, history, failed) PROVE HistoryTruthful'
    BY <1>0, <1>2, <2>2, LeaveTruthful
  <2>3. CASE StartProbe(t)
    BY <2>1, <2>2, <2>3 DEF StartProbe
  <2>4. CASE Ask(t)
    BY <2>2, <2>4, PendingTruthful DEF Ask
  <2>5. CASE ProbeFails(t)
    <3>1. PICK denied \in BOOLEAN :
            /\ denied => Confirmed(t, "denied")
            /\ Leave(t, Update(history, frame[t].op, IF denied THEN "failed" ELSE "unknown"), TRUE)
      BY <2>5 DEF ProbeFails
    <3>2. \A r \in Update(history, frame[t].op, IF denied THEN "failed" ELSE "unknown") : Truthful(r)'
      BY <1>2, <3>1, UpdateTruthful
    <3> QED BY <1>2, <3>1, <3>2, LeaveTruthful
  <2>6. CASE ProbeAnswered(t)
    <3>1. Confirmed(t, "ok")
      BY <2>6 DEF ProbeAnswered, Confirmed
    <3>2. \A r \in Update(history, frame[t].op, "applied") : Truthful(r)'
      BY <1>2, <3>1, UpdateTruthful
    <3>3. CASE history' = Update(history, frame[t].op, "applied")
      BY <3>2, <3>3 DEF HistoryTruthful
    <3>4. CASE Leave(t, Update(history, frame[t].op, "applied"), TRUE)
      BY <1>2, <3>2, <3>4, LeaveTruthful
    <3> QED BY <2>6, <3>3, <3>4 DEF ProbeAnswered
  <2>7. CASE StoreSnapshot(t)
    BY <2>1, <2>2, <2>7 DEF StoreSnapshot
  <2>8. CASE Form(t)
    BY <2>8, PendingTruthful DEF Form
  <2>9. CASE Send(t)
    BY <2>1, <2>9 DEF Send
  <2>10. CASE Applied(t)
    <3>1. Confirmed(t, "ok")
      BY <2>10 DEF Applied
    <3>2. \A r \in Update(history, frame[t].op, "applied") : Truthful(r)'
      BY <1>2, <3>1, UpdateTruthful
    <3>3. PICK failed \in BOOLEAN : Leave(t, Update(history, frame[t].op, "applied"), failed)
      BY <2>10 DEF Applied
    <3> QED BY <1>2, <3>2, <3>3, LeaveTruthful
  <2>11. CASE Rejected(t)
    <3>1. Confirmed(t, "denied") \/ Confirmed(t, "rejected")
      BY <2>11 DEF Rejected
    <3>2. \A r \in Update(history, frame[t].op, "failed") : Truthful(r)'
      BY <1>2, <3>1, UpdateTruthful
    <3> QED BY <1>2, <2>11, <3>2, LeaveTruthful DEF Rejected
  <2>12. CASE Unanswered(t)
    <3>1. \A r \in Update(history, frame[t].op, "unknown") : Truthful(r)'
      BY <1>2, UpdateTruthful
    <3> QED BY <1>2, <2>12, <3>1, LeaveTruthful DEF Unanswered
  <2>13. CASE FormFails(t)
    BY <2>2, <2>13 DEF FormFails
  <2> QED BY <1>2, <2>3, <2>4, <2>5, <2>6, <2>7, <2>8, <2>9, <2>10, <2>11, <2>12, <2>13
          DEF CommandStep
<1>3. CASE history' = history
  BY <1>0, <1>3 DEF HistoryTruthful
<1> QED BY <1>1, <1>2, <1>3 DEF Next, StartWorkflow, EndWorkflow, Crash, GrantTurns,
           ConfirmSshSession, RightsTurn, Serve, vars

-----------------------------------------------------------------------------
(* The access state shown to the user. *)

LEMMA LatestProbeStep ==
    ASSUME TypeOK, LatestProbeKnown, [Next]_vars
    PROVE  LatestProbeKnown'
<1> USE DEF LatestProbeKnown, LatestProbeWins, probeVars
<1>1. ASSUME NEW t \in Threads, NEW state, FinishAccessProbe(t, state) PROVE LatestProbeKnown'
  BY <1>1 DEF FinishAccessProbe, TypeOK
<1>2. CASE StartAccessProbe
  BY <1>2 DEF StartAccessProbe, TypeOK
<1>3. CASE UNCHANGED <<live, newest>>
  BY <1>3
<1>4. CASE ConfirmSshSession
  BY <1>4 DEF ConfirmSshSession, TypeOK
<1>5. CASE Crash
  BY <1>5 DEF Crash
<1>6. ASSUME NEW t \in Threads, CommandStep(t) PROVE LatestProbeKnown'
  BY <1>1, <1>2, <1>3, <1>6 DEF CommandStep, StartProbe, Ask, ProbeFails, ProbeAnswered,
     StoreSnapshot, Form, Send, Applied, Rejected, Unanswered, FormFails
<1> QED BY <1>3, <1>4, <1>5, <1>6 DEF Next, StartWorkflow, EndWorkflow, Call, GrantTurns,
           RightsTurn, Serve, vars

-----------------------------------------------------------------------------
(* The durable envelope and the server. *)

LEMMA EnvelopeGuardsStep ==
    ASSUME TypeOK, TypeOK', FramesDistinct, DurableKept, RepliesTrue, EnvelopeGuards, [Next]_vars
    PROVE  EnvelopeGuards'
<1> USE DEF EnvelopeGuards
<1>0. \A m \in requests : m.op \in OpId
  BY DEF TypeOK
<1>1. ASSUME NEW t \in Threads, CommandStep(t) PROVE EnvelopeGuards'
  <2>0. outcome' = outcome
    BY <1>1 DEF CommandStep, StartProbe, Ask, ProbeFails, ProbeAnswered, StoreSnapshot, Form,
                Send, Applied, Rejected, Unanswered, FormFails, serverVars
  <2>1. CASE Form(t)
    <3>1. UNCHANGED <<requests, applications>>
      BY <2>1 DEF Form, netVars, ghostVars
    <3>2. CASE frame[t].kind = "durable"
      BY <2>0, <2>1, <3>1, <3>2, FormStores
    <3>3. CASE frame[t].kind # "durable"
      <4>1. durable' = durable
        BY <2>1, <3>3 DEF Form
      <4> QED BY <2>0, <3>1, <4>1
    <3> QED BY <3>2, <3>3
  <2>2. CASE Send(t)
    <3>1. /\ UNCHANGED <<durable, applications>>
          /\ \A m \in requests' : m \in requests \/ (m.op = frame[t].op /\ m.kind = frame[t].kind)
      BY <2>2 DEF Send
    <3>2. frame[t].kind = "durable" => durable # None /\ frame[t].op = durable.op
      BY <2>2 DEF Send, DurableKept
    <3> QED BY <2>0, <3>1, <3>2
  <2>3. CASE Ask(t)
    <3>1. /\ UNCHANGED <<durable, applications>>
          /\ \A m \in requests' : m \in requests \/ m.kind = "snapshot"
      <4>1. CASE grant
        BY <2>3, <4>1 DEF Ask
      <4>2. CASE ~grant
        BY <2>3, <4>2 DEF Ask
      <4> QED BY <4>1, <4>2
    <3> QED BY <2>0, <3>1
  <2>4. CASE ~Form(t) /\ ~Send(t) /\ ~Ask(t)
    <3>1. requests' = requests
      BY <1>1, <2>4 DEF CommandStep, StartProbe, ProbeFails, ProbeAnswered, StoreSnapshot,
                        Applied, Rejected, Unanswered, FormFails, netVars
    <3>2. CASE UNCHANGED <<durable, applications>>
      BY <2>0, <3>1, <3>2
    <3>3. CASE /\ frame[t].at = "wait" /\ frame[t].kind = "durable"
               /\ \E v \in {"ok", "denied", "rejected"} : Confirmed(t, v)
               /\ durable' = None /\ applications' = 0
      <4>1. outcome[frame[t].op] # "none" /\ frame[t].op = durable.op
        BY <3>3 DEF Confirmed, Reply, RepliesTrue, DurableKept
      <4> QED BY <2>0, <3>1, <3>3, <4>1
    <3> QED BY <1>1, <2>4, <3>2, <3>3, DurableOfStep
  <2> QED BY <2>1, <2>2, <2>3, <2>4
<1>2. ASSUME NEW m \in requests, Serve(m) PROVE EnvelopeGuards'
  <2>1. PICK v \in {"ok", "denied", "rejected", "partial"} : outcome' = [outcome EXCEPT ![m.op] = v]
    BY <1>2 DEF Serve, Verdict, TypeOK
  <2>2. outcome'[m.op] # "none" /\ \A o \in OpId : o # m.op => outcome'[o] = outcome[o]
    BY <1>0, <2>1 DEF TypeOK
  <2>3. UNCHANGED <<requests, durable>>
    BY <1>2 DEF Serve
  <2>4. \A q \in requests : q.kind = "durable" /\ outcome'[q.op] = "none" =>
           durable # None /\ q.op = durable.op
    BY <1>0, <2>2
  <2>5. durable # None => durable.op \in OpId
    BY DEF TypeOK
  <2>6. CASE applications' = applications
    BY <2>2, <2>3, <2>4, <2>5, <2>6
  <2>7. CASE m.kind = "durable" /\ outcome[m.op] = "none" /\ applications' = applications + 1
    <3>1. durable # None /\ m.op = durable.op /\ applications = 0
      BY <2>7
    <3> QED BY <2>2, <2>3, <2>4, <2>7, <3>1
  <2>8. applications' = applications
        \/ (m.kind = "durable" /\ outcome[m.op] = "none" /\ applications' = applications + 1)
    BY <1>2 DEF Serve
  <2> QED BY <2>6, <2>7, <2>8
<1>3. CASE UNCHANGED <<requests, outcome, durable, applications>>
  BY <1>3
<1> QED BY <1>1, <1>2, <1>3 DEF Next, StartWorkflow, EndWorkflow, Call, Crash, GrantTurns,
           ConfirmSshSession, RightsTurn, vars, netVars, serverVars, ghostVars

-----------------------------------------------------------------------------
(* Commands that end before their submission. *)

LEMMA NotYetSentStep ==
    ASSUME TypeOK, TypeOK', NotYetSent, [Next]_vars
    PROVE  NotYetSent'
<1> USE DEF NotYetSent
<1>1. ASSUME NEW t \in Threads, NEW k \in Kind, Call(t, k) PROVE NotYetSent'
  BY <1>1, CallShape
<1>2. ASSUME NEW t \in Threads, CommandStep(t) PROVE NotYetSent'
  <2>0. (Ends(t) \/ Goes(t)) /\ \A u \in Threads \ {t} : frame'[u] = frame[u]
    BY <1>2, StepShape DEF Ends, Goes, TypeOK
  <2>1. CASE Ends(t)
    BY <2>0, <2>1, NoFrameType DEF Ends, TypeOK
  <2>2. CASE ~Ends(t)
    <3>1. frame'[t].kind = frame[t].kind
      BY <2>0, <2>2 DEF Goes
    <3>2. frame'[t].at \in {"check", "ask", "probe", "snapshot", "checked", "signed"}
          /\ frame'[t].kind # "snapshot"
             => \/ frame'[t].phase = "FORMING"
                \/ /\ frame'[t].phase = frame[t].phase
                   /\ frame[t].at \in {"check", "ask", "probe", "snapshot"}
      BY <1>2, <2>2, <3>1, Moves DEF Move, SamePhase
    <3> QED BY <2>0, <3>1, <3>2
  <2> QED BY <2>1, <2>2
<1>3. CASE Crash
  BY <1>3, NoFrameType DEF Crash
<1>4. CASE UNCHANGED frame
  BY <1>4
<1> QED BY <1>1, <1>2, <1>3, <1>4 DEF Next, StartWorkflow, EndWorkflow, GrantTurns,
           ConfirmSshSession, RightsTurn, Serve, vars, cmdVars

-----------------------------------------------------------------------------
(* The theorems. *)

LEMMA Initially == Init => IInv
<1> SUFFICES ASSUME Init PROVE IInv
  OBVIOUS
<1>1. TypeOK
  BY NoFrameType DEF Init, TypeOK, Access
<1>2. FramesDistinct /\ LockOwned /\ DurableKept /\ SignedHasOp /\ ProbeOwned
  BY NoFrameType DEF Init, FramesDistinct, LockOwned, DurableKept, SignedHasOp, ProbeOwned,
     Running, Changing
<1>3. RepliesTrue /\ SentIsSending /\ HistoryTruthful /\ SentWithLiveAccess
  BY DEF Init, RepliesTrue, SentIsSending, HistoryTruthful, SentWithLiveAccess
<1>4. LatestProbeKnown /\ EnvelopeGuards
  BY DEF Init, LatestProbeKnown, LatestProbeWins, EnvelopeGuards
<1>5. NotYetSent
  BY NoFrameType DEF Init, NotYetSent
<1> QED BY <1>1, <1>2, <1>3, <1>4, <1>5 DEF IInv

LEMMA Inductive == IInv /\ [Next]_vars => IInv'
<1> SUFFICES ASSUME IInv, [Next]_vars PROVE IInv'
  OBVIOUS
<1> USE DEF IInv
<1>1. TypeOK'
  BY TypeStep
<1>2. FramesDistinct' /\ LockOwned'
  BY <1>1, FramesDistinctStep, LockOwnedStep
<1>3. DurableKept' /\ SignedHasOp'
  BY <1>1, DurableKeptStep, SignedHasOpStep
<1>4. RepliesTrue' /\ ProbeOwned'
  BY <1>1, RepliesTrueStep, ProbeOwnedStep
<1>5. SentIsSending' /\ HistoryTruthful'
  BY <1>1, SentIsSendingStep, HistoryTruthfulStep
<1>6. SentWithLiveAccess' /\ LatestProbeKnown'
  BY <1>1, SentWithLiveAccessStep, LatestProbeStep
<1>7. EnvelopeGuards' /\ NotYetSent'
  BY <1>1, EnvelopeGuardsStep, NotYetSentStep
<1> QED BY <1>1, <1>2, <1>3, <1>4, <1>5, <1>6, <1>7

\* The inductive invariant holds in every state of AdminRepository's command path.
THEOREM Invariant == Spec => []IInv
BY Initially, Inductive, PTL DEF Spec

\* Locks, frames, envelope, history, messages and the server keep their types.
THEOREM AdminTypeCorrect == Spec => []TypeOK
<1>1. IInv => TypeOK
  BY DEF IInv
<1> QED BY <1>1, Invariant, PTL

\* Whatever the number of threads, two changes of one server never run side by side:
\* a change keeps the lock of AdminCommandControl from its first step to its last.
THEOREM ChangesExclude == Spec => []OneChangeAtATime
<1>1. IInv => OneChangeAtATime
  BY DEF IInv, LockOwned, OneChangeAtATime
<1> QED BY <1>1, Invariant, PTL

\* The command history never says applied, failed or cancelled of a command of which
\* it is not so (updateCommandStatus and the finally block of run).
THEOREM HistoryTruth == Spec => []HistoryIsTrue
<1>1. IInv => HistoryIsTrue
  <2> SUFFICES ASSUME IInv, NEW r \in history
               PROVE  /\ r.status = "cancelled_local" => \A s \in sent : <<s.call, "frame">> # r.id
                      /\ r.status = "applied" => outcome[r.id] = "ok"
                      /\ r.status = "failed" => outcome[r.id] \in {"denied", "rejected"}
    BY DEF HistoryIsTrue
  <2>1. Truthful(r)
    BY DEF IInv, HistoryTruthful
  <2>2. ASSUME r.status = "cancelled_local", NEW s \in sent PROVE <<s.call, "frame">> # r.id
    <3>1. PICK n \in 1..calls : r.id = <<n, "frame">> /\ s.call # n
      BY <2>1, <2>2 DEF Truthful
    <3> QED BY <3>1
  <2> QED BY <2>1, <2>2 DEF Truthful
<1> QED BY <1>1, Invariant, PTL

\* A submitted command had a live answer to its own access probe (executeAdminApiCommand).
THEOREM LiveAccess == Spec => []SentWithLiveAccess
<1>1. IInv => SentWithLiveAccess
  BY DEF IInv
<1> QED BY <1>1, Invariant, PTL

\* An overtaken probe never changes what the interface shows (finishAccessProbe).
THEOREM LatestProbe == Spec => []LatestProbeWins
<1>1. IInv => LatestProbeWins
  BY DEF IInv, LatestProbeKnown
<1> QED BY <1>1, Invariant, PTL

\* A durable change is applied at most once until its result is known, whatever is
\* lost, repeated, retried or killed (durableKey of executeAdminApiCommand).
THEOREM DurableOnce == Spec => []AppliedAtMostOnce
<1>1. IInv => AppliedAtMostOnce
  BY DEF IInv, EnvelopeGuards, AppliedAtMostOnce
<1> QED BY <1>1, Invariant, PTL

\* A command that ends before its submission is recorded as cancelled locally (run).
THEOREM CancelledIsRecorded == Spec => UnsentIsCancelled
<1> DEFINE Unsent(t) ==
      /\ frame[t].at \in {"ask", "probe", "snapshot", "checked", "signed"}
      /\ frame'[t].at = "idle"
      /\ frame[t].kind # "snapshot" /\ crashes' = crashes
           Cancelled(t) ==
      [id |-> <<frame[t].id, "frame">>, status |-> "cancelled_local"] \in history'
<1>1. ASSUME IInv, [Next]_vars, NEW t \in Threads, Unsent(t) PROVE Cancelled(t)
  <2>1. ASSUME NEW STATE h, Leave(t, h, TRUE) PROVE Cancelled(t)
    <3>1. frame[t].phase # "SENDING"
      BY <1>1 DEF IInv, NotYetSent
    <3> QED BY <2>1, <3>1 DEF Leave, Record
  <2>2. CASE CommandStep(t)
    <3>1. Ends(t)
      BY <1>1, <2>2, StepShape, TypeStep DEF IInv, Goes
    <3>2. CASE StartProbe(t) \/ Applied(t) \/ Rejected(t) \/ Unanswered(t)
      BY <1>1, <3>2 DEF StartProbe, Applied, Rejected, Unanswered
    <3>7. CASE Form(t) \/ Send(t)
      <4>0. frame \in [Threads -> Frame]
        BY <1>1 DEF IInv, TypeOK
      <4>1. ASSUME NEW o,
                   frame' = [frame EXCEPT ![t] = [PhaseAt(frame[t], 1, "FORMING")
                                                      EXCEPT !.op = o, !.at = "signed"]]
            PROVE  frame'[t].at # "idle"
        BY <4>0, <4>1 DEF PhaseAt, Frame
      <4>2. CASE frame' = [frame EXCEPT ![t] = [PhaseAt(frame[t], 1, "SENDING")
                                                   EXCEPT !.at = "wait"]]
        BY <1>1, <4>0, <4>2 DEF PhaseAt, Frame
      <4> QED BY <1>1, <3>7, <4>1, <4>2 DEF Form, Send
    <3>8. CASE FormFails(t)
      BY <2>1, <3>8 DEF FormFails
    <3>3. CASE Ask(t)
      <4>1. ASSUME NEW depth, NEW o,
                   frame' = [frame EXCEPT ![t] = [PhaseAt(frame[t], depth, "SENDING")
                                                      EXCEPT !.op = o, !.at = "probe"]]
            PROVE  FALSE
        BY <1>1, <4>1 DEF IInv, TypeOK, Frame, PhaseAt
      <4> QED BY <2>1, <3>3, <4>1 DEF Ask
    <3>4. CASE ProbeFails(t)
      BY <2>1, <3>4 DEF ProbeFails
    <3>5. CASE ProbeAnswered(t)
      <4>1. CASE Leave(t, Update(history, frame[t].op, "applied"), TRUE)
        BY <2>1, <4>1
      <4>2. ASSUME NEW n, frame' = [frame EXCEPT ![t] = [@ EXCEPT !.at = "snapshot", !.snap = n]]
            PROVE  FALSE
        BY <1>1, <4>2 DEF IInv, TypeOK, Frame
      <4> QED BY <3>5, <4>1, <4>2 DEF ProbeAnswered
    <3>6. CASE StoreSnapshot(t)
      <4>1. CASE frame' = [frame EXCEPT ![t].at = "checked"]
        BY <1>1, <4>1 DEF IInv, TypeOK, Frame
      <4> QED BY <1>1, <2>1, <3>6, <4>1 DEF StoreSnapshot
    <3> QED BY <2>2, <3>2, <3>3, <3>4, <3>5, <3>6, <3>7, <3>8 DEF CommandStep
  <2>3. CASE ~CommandStep(t)
    <3>1. frame'[t] = frame[t] \/ crashes' # crashes
      <4>1. ASSUME NEW u \in Threads, CommandStep(u) PROVE frame'[t] = frame[t]
        BY <1>1, <2>3, <4>1, StepShape, TypeStep DEF IInv, Ends, Goes, TypeOK
      <4>2. ASSUME NEW u \in Threads, NEW k \in Kind, Call(u, k) PROVE frame'[t] = frame[t]
        BY <1>1, <4>2, CallShape DEF IInv
      <4>3. CASE Crash
        BY <1>1, <4>3 DEF Crash, IInv, TypeOK
      <4>4. CASE frame' = frame
        BY <4>4
      <4> QED BY <1>1, <4>1, <4>2, <4>3, <4>4 DEF Next, StartWorkflow, EndWorkflow, GrantTurns,
              ConfirmSshSession, RightsTurn, Serve, vars, cmdVars
    <3> QED BY <1>1, <3>1
  <2> QED BY <2>2, <2>3
<1>2. IInv /\ [Next]_vars =>
        [\A t \in Threads :
          frame[t].at \in {"ask", "probe", "snapshot", "checked", "signed"}
          /\ frame'[t].at = "idle"
          /\ frame[t].kind # "snapshot" /\ crashes' = crashes
          => [id |-> <<frame[t].id, "frame">>, status |-> "cancelled_local"] \in history']_vars
  BY <1>1
<1> QED BY <1>2, Invariant, PTL DEF Spec, UnsentIsCancelled
=============================================================================
