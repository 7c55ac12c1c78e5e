----------------------------- MODULE AdminCommand -----------------------------
(***************************************************************************)
(* Administrative commands to one managed server: AdminCommandControl, the *)
(* command path of AdminRepository (executeAdminApiCommand and the signed  *)
(* access probe getClusterSnapshot that precedes every command), the       *)
(* durable request envelope, the command history and the live access state *)
(* of the user interface.                                                  *)
(*                                                                         *)
(* Threads run the synchronous repository calls.  Requests and replies may *)
(* be lost, delayed without bound and answered to another command; the     *)
(* application may be killed at any moment, which leaves the storage.  The *)
(* server is external: it authorises every request, checks the expected    *)
(* policy revision of a change and remembers the outcome of each operation *)
(* id, which is what the code relies on when it resends an envelope        *)
(* ("Preserves envelope.opId for command idempotency").                    *)
(***************************************************************************)
EXTENDS Naturals, FiniteSets

CONSTANTS
    Threads,     \* threads that call the repository
    Kinds,       \* kinds of commands they issue, of Kind
    MaxCalls,    \* bound on the calls of executeAdminApiCommand
    MaxCrashes,  \* bound on kills of the application
    MaxTurns,    \* bound on changes of the administrator's rights and of the policy by others
    None

\* The snapshot itself, another read, a change, and a change whose envelope is kept
\* in storage until its result is known (durableKey).
Kind == {"snapshot", "read", "change", "durable"}

CallId == 1..MaxCalls
OpId == CallId \X {"probe", "main"}
FrameId == CallId \X {"frame"}

ASSUME AdminAssumption ==
    /\ Kinds \subseteq Kind
    /\ MaxCalls \in Nat /\ MaxCrashes \in Nat /\ MaxTurns \in Nat
    /\ None \notin Threads /\ None \notin OpId /\ None \notin [op: OpId, rev: Nat]

VARIABLES
    lock,          \* holder of the server's mutation lock
    calls, crashes, turns,  \* used budgets
    frame,         \* per thread: position and locals of the command it runs
    workflow,      \* per thread: inside a workflow, which owns the lock
    live,          \* _liveAccessFlow of the server: probeId and state
    newest,        \* history: the probe that started last, and what it found
    grant,         \* the local signed grant is valid
    cachedRev,     \* revision of the stored snapshot receipt
    history,       \* command history: records of id and status
    durable,       \* the stored request envelope, or None
    allowed, serverRev, outcome,  \* server: rights, policy revision, results by operation
    requests, replies,            \* messages, never removed: late and repeated ones included
    sent,          \* history: frames that submitted their command
    applications   \* history: durable changes applied since the key was last cleared

controlVars == <<lock, calls>>
cmdVars == <<frame, workflow>>
probeVars == <<live, newest>>
serverVars == <<allowed, serverRev, outcome>>
netVars == <<requests, replies>>
ghostVars == <<sent, applications>>
budget == <<crashes, turns>>
vars == <<controlVars, cmdVars, probeVars, grant, cachedRev, history, durable,
          serverVars, netVars, ghostVars, budget>>

Status == {"pending", "applied", "failed", "unknown", "cancelled_local"}
Access == {"NONE", "CHECKING", "READY", "DENIED", "UNAVAILABLE"}
Mutation(k) == k \in {"change", "durable"}

\* Position of a command, Frame.id, its kind, Frame.phase, the operation whose reply
\* it waits for, its access probe and the revision of its fresh snapshot.
Frame ==
    [at: {"idle", "check", "ask", "probe", "snapshot", "checked", "signed", "wait"},
     id: CallId \cup {0}, kind: Kind, phase: {"CHECKING", "FORMING", "SENDING"},
     op: OpId \cup {None}, probe: Nat, snap: Nat]
NoFrame ==
    [at |-> "idle", id |-> 0, kind |-> "read", phase |-> "CHECKING", op |-> None,
     probe |-> 0, snap |-> 0]

TypeOK ==
    /\ lock \in Threads \cup {None} /\ calls \in 0..MaxCalls
    /\ crashes \in 0..MaxCrashes /\ turns \in 0..MaxTurns
    /\ frame \in [Threads -> Frame] /\ workflow \in [Threads -> BOOLEAN]
    /\ live \in [probe: Nat, state: Access] /\ newest \in [probe: Nat, found: Access]
    /\ grant \in BOOLEAN /\ cachedRev \in Nat
    /\ history \subseteq [id: OpId \cup FrameId, status: Status]
    /\ durable \in [op: OpId, rev: Nat] \cup {None}
    /\ allowed \in BOOLEAN /\ serverRev \in Nat
    /\ outcome \in [OpId -> {"none", "ok", "denied", "rejected", "partial"}]
    /\ requests \subseteq [op: OpId, rev: Nat, kind: Kind]
    /\ replies \subseteq [op: OpId, status: {"ok", "denied", "rejected", "partial"}, rev: Nat]
    /\ sent \subseteq [call: CallId, kind: Kind]
    /\ applications \in Nat

Init ==
    /\ lock = None /\ calls = 0 /\ crashes = 0 /\ turns = 0
    /\ frame = [t \in Threads |-> NoFrame] /\ workflow = [t \in Threads |-> FALSE]
    /\ live = [probe |-> 0, state |-> "NONE"] /\ newest = [probe |-> 0, found |-> "NONE"]
    /\ grant = TRUE /\ cachedRev = 0
    /\ history = {} /\ durable = None
    /\ allowed = TRUE /\ serverRev = 0 /\ outcome = [o \in OpId |-> "none"]
    /\ requests = {} /\ replies = {}
    /\ sent = {} /\ applications = 0
-----------------------------------------------------------------------------
(* AdminCommandControl and the history. *)

\* Mutants: a phase that never moves, and one that a nested probe moves too.
PhaseAtNever(f, depth, p) == f
PhaseAtAnyDepth(f, depth, p) == [f EXCEPT !.phase = p]

\* phase(): only the frame itself moves, not the probe nested in it.
PhaseAt(f, depth, p) == IF depth = 1 THEN [f EXCEPT !.phase = p] ELSE f

Record(h, id, status) == h \cup {[id |-> id, status |-> status]}

\* Mutant: the server's own word is stored as the status.
UpdateRaw(h, id, status) ==
    {r \in h : r.id # id} \cup
    {[r EXCEPT !.status = IF status = "applied" THEN "ok" ELSE status] :
        r \in {q \in h : q.id = id}}

\* updateCommandStatus
Update(h, id, status) ==
    {r \in h : r.id # id} \cup {[r EXCEPT !.status = status] : r \in {q \in h : q.id = id}}

\* Mutants: a command of a workflow gives the workflow's lock away; a failed command
\* keeps the lock.
LeaveUnlocks(t, h, failed) ==
    /\ history' = h
    /\ frame' = [frame EXCEPT ![t] = NoFrame]
    /\ workflow' = [workflow EXCEPT ![t] = workflow[t] /\ ~failed]
    /\ lock' = IF lock = t THEN None ELSE lock
LeaveKeepsLock(t, h, failed) ==
    /\ history' = h
    /\ frame' = [frame EXCEPT ![t] = NoFrame]
    /\ workflow' = [workflow EXCEPT ![t] = workflow[t] /\ ~failed]
    /\ lock' = IF lock = t /\ ~failed /\ ~workflow[t] THEN None ELSE lock

\* The end of run(): the finally block, and the history h.  A command that fails
\* before it is submitted was cancelled locally; a failure also ends the workflow.
Leave(t, h, failed) ==
    /\ history' = IF failed /\ frame[t].phase # "SENDING"
                  THEN Record(h, <<frame[t].id, "frame">>, "cancelled_local") ELSE h
    /\ frame' = [frame EXCEPT ![t] = NoFrame]
    /\ workflow' = [workflow EXCEPT ![t] = workflow[t] /\ ~failed]
    /\ lock' = IF lock = t /\ ~(workflow[t] /\ ~failed) THEN None ELSE lock

StartWorkflow(t) ==
    /\ frame[t].at = "idle" /\ ~workflow[t] /\ calls < MaxCalls /\ lock = None
    /\ lock' = t /\ workflow' = [workflow EXCEPT ![t] = TRUE]
    /\ UNCHANGED <<calls, frame, probeVars, grant, cachedRev, history, durable, serverVars,
                   netVars, ghostVars>>
    /\ UNCHANGED budget

EndWorkflow(t) ==
    /\ frame[t].at = "idle" /\ workflow[t]
    /\ lock' = None /\ workflow' = [workflow EXCEPT ![t] = FALSE]
    /\ UNCHANGED <<calls, frame, probeVars, grant, cachedRev, history, durable, serverVars,
                   netVars, ghostVars>>
    /\ UNCHANGED budget

\* run() of a command: inside a workflow the lock is already owned.
Call(t, k) ==
    /\ frame[t].at = "idle" /\ k \in Kinds
    /\ calls < MaxCalls /\ calls' = calls + 1
    /\ IF Mutation(k) /\ ~workflow[t] /\ lock # None
       THEN /\ history' = Record(history, <<calls + 1, "frame">>, "cancelled_local")
            /\ UNCHANGED <<lock, frame>>
       ELSE /\ lock' = IF Mutation(k) /\ ~workflow[t] THEN t ELSE lock
            /\ frame' = [frame EXCEPT ![t] =
                            [NoFrame EXCEPT !.at = "check", !.id = calls + 1, !.kind = k]]
            /\ UNCHANGED history
    /\ UNCHANGED <<workflow, probeVars, grant, cachedRev, durable, serverVars, netVars,
                   ghostVars>>
    /\ UNCHANGED budget
-----------------------------------------------------------------------------
(* The access probe. *)

StartAccessProbe ==
    /\ live' = [probe |-> live.probe + 1,
                state |-> IF live.state \in {"READY", "DENIED"} THEN live.state ELSE "CHECKING"]
    /\ newest' = [probe |-> newest.probe + 1, found |-> "NONE"]

\* Mutant: the last probe to end wins.
FinishAnyProbe(t, state) ==
    /\ live' = [live EXCEPT !.state = state]
    /\ newest' = IF newest.probe = frame[t].probe THEN [newest EXCEPT !.found = state] ELSE newest

\* A probe that is no longer the latest leaves the state alone.
FinishAccessProbe(t, state) ==
    /\ live' = IF live.probe = frame[t].probe THEN [live EXCEPT !.state = state] ELSE live
    /\ newest' = IF newest.probe = frame[t].probe THEN [newest EXCEPT !.found = state] ELSE newest

FailedProbe(denied) ==
    IF denied \/ ~grant \/ live.state = "DENIED" THEN "DENIED" ELSE "UNAVAILABLE"

\* getClusterSnapshot of a snapshot command starts with the probe, any other command
\* with the local grant.
StartProbe(t) ==
    /\ frame[t].at = "check"
    /\ \/ /\ frame[t].kind = "snapshot" \/ grant
          /\ StartAccessProbe
          /\ frame' = [frame EXCEPT ![t] = [@ EXCEPT !.at = "ask", !.probe = live.probe + 1]]
          /\ UNCHANGED <<history, workflow, lock>>
       \/ /\ frame[t].kind # "snapshot" /\ ~grant
          /\ Leave(t, history, TRUE)
          /\ UNCHANGED probeVars
    /\ UNCHANGED <<calls, grant, cachedRev, durable, serverVars, netVars, ghostVars>>
    /\ UNCHANGED budget

\* The signed snapshot request: for a snapshot command this is the submission, for
\* any other a nested run().
Ask(t) ==
    LET depth == IF frame[t].kind = "snapshot" THEN 1 ELSE 2
        o == <<frame[t].id, "probe">>
    IN
    /\ frame[t].at = "ask"
    /\ \/ /\ grant
          /\ frame' = [frame EXCEPT ![t] = [PhaseAt(frame[t], depth, "SENDING")
                                               EXCEPT !.op = o, !.at = "probe"]]
          /\ requests' = requests \cup {[op |-> o, rev |-> 0, kind |-> "snapshot"]}
          /\ history' = Record(history, o, "pending")
          /\ sent' = IF depth = 1 THEN sent \cup {[call |-> frame[t].id, kind |-> "snapshot"]}
                     ELSE sent
          /\ UNCHANGED <<live, newest, workflow, lock>>
       \/ /\ ~grant
          /\ FinishAccessProbe(t, FailedProbe(FALSE))
          /\ Leave(t, history, TRUE)
          /\ UNCHANGED <<requests, sent>>
    /\ UNCHANGED <<calls, grant, cachedRev, durable, serverVars, replies, applications>>
    /\ UNCHANGED budget

\* Mutant: the operation id of the reply is not compared.
AnyReply(t) == replies

\* confirmServerResponse: the reply must be to the pending operation.  Silence, an
\* alien reply and a partial result leave the outcome unknown.
Reply(t) == {r \in replies : r.op = frame[t].op}
Confirmed(t, status) == \E r \in Reply(t) : r.status = status

ProbeFails(t) ==
    /\ frame[t].at = "probe"
    /\ \E denied \in BOOLEAN :
          /\ denied => Confirmed(t, "denied")
          /\ FinishAccessProbe(t, FailedProbe(denied))
          /\ Leave(t, Update(history, frame[t].op, IF denied THEN "failed" ELSE "unknown"), TRUE)
    /\ UNCHANGED <<calls, grant, cachedRev, durable, serverVars, netVars, ghostVars>>
    /\ UNCHANGED budget

\* A snapshot with a wrong hash or authority, or older than the stored one, is
\* refused.
ProbeAnswered(t) ==
    /\ frame[t].at = "probe"
    /\ \E r \in Reply(t) :
          /\ r.status = "ok"
          /\ \/ /\ FinishAccessProbe(t, FailedProbe(FALSE))
                /\ Leave(t, Update(history, frame[t].op, "applied"), TRUE)
             \/ /\ r.rev >= cachedRev
                /\ frame' = [frame EXCEPT ![t] = [@ EXCEPT !.at = "snapshot", !.snap = r.rev]]
                /\ history' = Update(history, frame[t].op, "applied")
                /\ UNCHANGED <<live, newest, workflow, lock>>
    /\ UNCHANGED <<calls, grant, cachedRev, durable, serverVars, netVars, ghostVars>>
    /\ UNCHANGED budget

\* The receipt is stored in a step of its own: no lock covers the comparison
\* before it.  Then the live role decides, and a pending installation or a lost
\* connection may still block a change.
StoreSnapshot(t) ==
    /\ frame[t].at = "snapshot"
    /\ cachedRev' = frame[t].snap
    /\ FinishAccessProbe(t, "READY")
    /\ \/ /\ frame[t].kind # "snapshot"
          /\ frame' = [frame EXCEPT ![t].at = "checked"]
          /\ UNCHANGED <<history, workflow, lock>>
       \/ frame[t].kind = "snapshot" /\ Leave(t, history, FALSE)
       \/ Mutation(frame[t].kind) /\ Leave(t, history, TRUE)
    /\ UNCHANGED <<calls, grant, durable, serverVars, netVars, ghostVars>>
    /\ UNCHANGED budget
-----------------------------------------------------------------------------
(* The command itself. *)

\* FORMING: a stored envelope keeps its operation id, and its content while it has
\* not expired; a new one is stored before it is used.
Form(t) ==
    LET stored == frame[t].kind = "durable" /\ durable # None
        o == IF stored THEN durable.op ELSE <<frame[t].id, "main">>
    IN
    /\ frame[t].at = "checked"
    /\ frame' = [frame EXCEPT ![t] = [PhaseAt(frame[t], 1, "FORMING")
                                         EXCEPT !.op = o, !.at = "signed"]]
    /\ \/ stored /\ UNCHANGED durable
       \/ durable' = IF frame[t].kind = "durable" THEN [op |-> o, rev |-> frame[t].snap] ELSE durable
    /\ history' = Record(history, o, "pending")
    /\ UNCHANGED <<controlVars, workflow, probeVars, grant, cachedRev, serverVars, netVars,
                   ghostVars>>
    /\ UNCHANGED budget

\* Forming, signing or storing the envelope may throw, and so may the choice of the
\* channel after the command was recorded: the command ends before its submission.
FormFails(t) ==
    /\ frame[t].at \in {"checked", "signed"}
    /\ Leave(t, history, TRUE)
    /\ UNCHANGED <<calls, probeVars, grant, cachedRev, durable, serverVars, netVars,
                   ghostVars>>
    /\ UNCHANGED budget

Send(t) ==
    /\ frame[t].at = "signed"
    /\ frame' = [frame EXCEPT ![t] = [PhaseAt(frame[t], 1, "SENDING")
                                         EXCEPT !.at = "wait"]]
    /\ requests' = requests \cup
          {[op |-> frame[t].op, kind |-> frame[t].kind,
            rev |-> IF frame[t].kind = "durable" THEN durable.rev ELSE frame[t].snap]}
    /\ sent' = sent \cup {[call |-> frame[t].id, kind |-> frame[t].kind]}
    /\ UNCHANGED <<controlVars, workflow, probeVars, grant, cachedRev, history, durable,
                   serverVars, replies, applications>>
    /\ UNCHANGED budget

ClearDurable(t) ==
    IF frame[t].kind = "durable" THEN durable' = None /\ applications' = 0
    ELSE UNCHANGED <<durable, applications>>

\* The answer may still fail to decode, which leaves the envelope in storage.
Applied(t) ==
    /\ frame[t].at = "wait" /\ Confirmed(t, "ok")
    /\ \/ Leave(t, Update(history, frame[t].op, "applied"), FALSE) /\ ClearDurable(t)
       \/ /\ Leave(t, Update(history, frame[t].op, "applied"), TRUE)
          /\ UNCHANGED <<durable, applications>>
    /\ UNCHANGED <<calls, probeVars, grant, cachedRev, serverVars, netVars, sent>>
    /\ UNCHANGED budget

Rejected(t) ==
    /\ frame[t].at = "wait" /\ (Confirmed(t, "denied") \/ Confirmed(t, "rejected"))
    /\ ClearDurable(t)
    /\ Leave(t, Update(history, frame[t].op, "failed"), TRUE)
    /\ UNCHANGED <<calls, probeVars, grant, cachedRev, serverVars, netVars, sent>>
    /\ UNCHANGED budget

\* Mutant: the envelope is forgotten when no answer comes.
UnansweredForgets(t) ==
    /\ frame[t].at = "wait"
    /\ Leave(t, Update(history, frame[t].op, "unknown"), TRUE)
    /\ durable' = IF frame[t].kind = "durable" THEN None ELSE durable
    /\ UNCHANGED <<calls, probeVars, grant, cachedRev, serverVars, netVars, ghostVars>>
    /\ UNCHANGED budget

Unanswered(t) ==
    /\ frame[t].at = "wait"
    /\ Leave(t, Update(history, frame[t].op, "unknown"), TRUE)
    /\ UNCHANGED <<calls, probeVars, grant, cachedRev, durable, serverVars, netVars,
                   ghostVars>>
    /\ UNCHANGED budget
-----------------------------------------------------------------------------
(* Storage survives the application, nothing else does. *)

Crash ==
    /\ crashes < MaxCrashes /\ crashes' = crashes + 1
    /\ lock' = None
    /\ frame' = [t \in Threads |-> NoFrame] /\ workflow' = [t \in Threads |-> FALSE]
    /\ live' = [probe |-> 0, state |-> "NONE"] /\ newest' = [probe |-> 0, found |-> "NONE"]
    /\ UNCHANGED <<calls, grant, cachedRev, history, durable, serverVars, netVars, ghostVars>>
    /\ UNCHANGED turns

\* Grants expire and are renewed.
GrantTurns ==
    /\ turns < MaxTurns /\ turns' = turns + 1
    /\ grant' = ~grant
    /\ UNCHANGED <<controlVars, cmdVars, probeVars, cachedRev, history, durable, serverVars,
                   netVars, ghostVars>>
    /\ UNCHANGED crashes
\* confirmSshSession: a new SSH session counts as a successful probe.
ConfirmSshSession ==
    /\ turns < MaxTurns /\ turns' = turns + 1
    /\ live' = [probe |-> live.probe + 1, state |-> "READY"]
    /\ newest' = [probe |-> newest.probe + 1, found |-> "READY"]
    /\ UNCHANGED <<controlVars, cmdVars, grant, cachedRev, history, durable, serverVars,
                   netVars, ghostVars>>
    /\ UNCHANGED crashes
-----------------------------------------------------------------------------
(* The server. *)

\* Another administrator revokes or restores the rights, or changes the policy.
RightsTurn ==
    /\ turns < MaxTurns /\ turns' = turns + 1
    /\ \/ allowed' = ~allowed /\ UNCHANGED serverRev
       \/ serverRev' = serverRev + 1 /\ UNCHANGED allowed
    /\ UNCHANGED <<controlVars, cmdVars, probeVars, grant, cachedRev, history, durable,
                   outcome, netVars, ghostVars>>
    /\ UNCHANGED crashes

Verdict(m) ==
    IF ~allowed THEN {"denied"}
    ELSE IF ~Mutation(m.kind) THEN {"ok"}
    ELSE IF m.rev # serverRev THEN {"rejected"}
    ELSE {"ok", "partial"}

\* A request is served once; its repetition gets the same answer.
Serve(m) ==
    LET fresh == outcome[m.op] = "none" IN
    \E v \in IF fresh THEN Verdict(m) ELSE {outcome[m.op]} :
        /\ outcome' = [outcome EXCEPT ![m.op] = v]
        /\ replies' = replies \cup {[op |-> m.op, status |-> v, rev |-> serverRev]}
        /\ IF fresh /\ Mutation(m.kind) /\ v \in {"ok", "partial"}
           THEN /\ serverRev' = serverRev + 1
                /\ applications' = IF m.kind = "durable" THEN applications + 1
                                   ELSE applications
           ELSE UNCHANGED <<serverRev, applications>>
        /\ UNCHANGED <<controlVars, cmdVars, probeVars, grant, cachedRev, history, durable,
                       allowed, requests, sent>>
        /\ UNCHANGED budget
-----------------------------------------------------------------------------
CommandStep(t) ==
    \/ StartProbe(t) \/ Ask(t) \/ ProbeFails(t) \/ ProbeAnswered(t) \/ StoreSnapshot(t)
    \/ Form(t) \/ FormFails(t) \/ Send(t) \/ Applied(t) \/ Rejected(t) \/ Unanswered(t)

Next ==
    \/ \E t \in Threads :
          \/ StartWorkflow(t) \/ EndWorkflow(t) \/ \E k \in Kind : Call(t, k)
          \/ CommandStep(t)
    \/ Crash \/ GrantTurns \/ ConfirmSshSession \/ RightsTurn
    \/ \E m \in requests : Serve(m)

Spec == Init /\ [][Next]_vars

\* Every wait has a timeout and a workflow is a finite list of commands.
FairSpec == Spec /\ \A t \in Threads : WF_vars(CommandStep(t)) /\ WF_vars(EndWorkflow(t))
-----------------------------------------------------------------------------
(* Properties *)

Changing(t) == workflow[t] \/ (frame[t].at # "idle" /\ Mutation(frame[t].kind))

\* Two changes of one server never run side by side, workflows included
\* (AdminCommandControl.kt 59-80).
OneChangeAtATime == \A t, u \in Threads : Changing(t) /\ Changing(u) => t = u

\* The history tells the truth about the server: cancelled locally means that the
\* command was never submitted, applied that the server did it, failed that the
\* server refused it, whatever was lost, repeated or killed in between (3402-3409,
\* 3520-3532).
HistoryIsTrue ==
    \A r \in history :
        /\ r.status = "cancelled_local" => \A s \in sent : <<s.call, "frame">> # r.id
        /\ r.status = "applied" => outcome[r.id] = "ok"
        /\ r.status = "failed" => outcome[r.id] \in {"denied", "rejected"}

\* Cached snapshots never authorise a command: a submitted command's own probe was
\* answered by the server, which then granted access (3380-3400, 3232).
SentWithLiveAccess ==
    \A s \in sent : s.kind # "snapshot" => outcome[<<s.call, "probe">>] = "ok"

\* Until its result is known a durable change is applied at most once, across
\* lost answers, expiry, retries and restarts (3465-3486, 3525, 3540).
AppliedAtMostOnce == applications <= 1

\* The user interface shows what the latest probe found; an earlier probe that
\* ends later does not overwrite it (224-245).
LatestProbeWins == newest.found # "NONE" => live.state = newest.found

\* A command that ends without having been submitted is in the history as
\* cancelled locally, even when its nested probe was sent or its envelope is stored
\* (33-41, 70-79).
UnsentIsCancelled ==
    [][\A t \in Threads :
          frame[t].at \in {"ask", "probe", "snapshot", "checked", "signed"}
          /\ frame'[t].at = "idle"
          /\ frame[t].kind # "snapshot" /\ crashes' = crashes
          => [id |-> <<frame[t].id, "frame">>, status |-> "cancelled_local"] \in history']_vars

\* The mutation lock is always given back (70-79).
LockIsReleased == lock # None ~> lock = None

\* An outdated snapshot never replaces a newer one (3750-3754).
SnapshotNeverGoesBack == [][cachedRev' >= cachedRev]_vars
=============================================================================
