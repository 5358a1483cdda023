---------------------------- MODULE SmartAction ----------------------------
(***************************************************************************)
(* SmartActionService: smart actions that wait for an approval, the        *)
(* decision on it, and the completion that runs the tool.                  *)
(*                                                                         *)
(* A smart action that needs an approval is two rows written together: an  *)
(* approval request and a smart_action_run.  The decision is stored first, *)
(* then complete_approval reads both rows back, runs the tool and stores   *)
(* its result on the run.  complete_approval is also reached on its own,   *)
(* from AgentService.resume and from iteration sessions, so nothing ties a *)
(* completion to the decision it rests on but what it reads.               *)
(*                                                                         *)
(* Workers are the threads of the API pool and the CLI processes.  A store *)
(* method is two steps: its SELECTs, which run in autocommit mode, and the *)
(* transaction of its writes.  The request is read before the run; the two *)
(* are one step here, because a run never returns to pending_approval.     *)
(* Audit, event history and execution records are left out.                *)
(***************************************************************************)
EXTENDS Naturals, FiniteSets

CONSTANTS
  Requests,   \* smart action invocations
  People,     \* technicians and administrators
  Admins,     \* those of them with the administrator role
  AdminTools, \* may a tool demand an administrator's approval? {FALSE}, BOOLEAN
  Workers,    \* threads and processes that run handlers
  Crashes     \* TRUE: a worker may die between two of its steps

ASSUME PeopleAssumption ==
  /\ Requests # {}
  /\ People # {}
  /\ Admins \subseteq People
  /\ AdminTools \subseteq BOOLEAN
  /\ Crashes \in BOOLEAN

System == "system:approval-expiry"
Cancellation == "system:cancellation"
Nobody == "nobody"
ASSUME SystemAssumption == {System, Cancellation, Nobody} \cap People = {}

Decisions == {"approved", "rejected", "pending"}
Statuses == Decisions \cup {"absent", "expired"}

\* Any result that is not a success (failed, provider_not_configured) is
\* "failed": the code only stores it.
Results == {"success", "failed"}
RunStatuses == Results \cup {"none", "pending_approval", "rejected"}
Answers == RunStatuses \cup {"error"}

Labels == {"idle", "expire", "decide", "complete", "tool", "record", "store"}

VARIABLES
  request,   \* approval_requests: the status and the approver
  run,       \* smart_action_runs: status, requesting actor, admin-only tool?
  overdue,   \* has the request's deadline passed?
  worker,    \* where each worker is in a service call, and its locals
  returned,  \* what each worker's last service call returned or raised
  ranFor,    \* history: the approvers for whom the tool was run
  tools,     \* history: how often the tool was run, 2 standing for more
  reported,  \* history: the results the tool reported
  decided    \* history: decisions committed on the request

vars == <<request, run, overdue, worker, returned,
          ranFor, tools, reported, decided>>
tables == <<request, run>>
history == <<ranFor, tools, reported, decided>>

(***************************************************************************)
(* The locals of a call: the request, the approver, whether the caller has *)
(* the administrator role, the decision or the result carried, and whether *)
(* a SELECT saw a pending row past its deadline ("expire": whether to go   *)
(* on with complete_approval).                                             *)
(***************************************************************************)
Frames == [at: Labels, req: Requests, by: People \cup {Cancellation, Nobody},
           admin: BOOLEAN, arg: Decisions \cup Results \cup {"none"},
           flag: BOOLEAN]

Frame(label, r, p, admin, arg, flag) ==
  [at |-> label, req |-> r, by |-> p, admin |-> admin, arg |-> arg, flag |-> flag]

Idle == Frame("idle", CHOOSE r \in Requests : TRUE, Nobody, FALSE, "none", FALSE)

\* The same call at its next step.
Advance(frame, label, arg, flag) ==
  Frame(label, frame.req, frame.by, frame.admin, arg, flag)

Init ==
  /\ request = [r \in Requests |-> [status |-> "absent", approver |-> Nobody]]
  /\ run = [r \in Requests |-> [status |-> "none", actor |-> Nobody, admin |-> FALSE]]
  /\ overdue = [r \in Requests |-> FALSE]
  /\ worker = [w \in Workers |-> Idle]
  /\ returned = [w \in Workers |-> "none"]
  /\ ranFor = [r \in Requests |-> {}]
  /\ tools = [r \in Requests |-> 0]
  /\ reported = [r \in Requests |-> {}]
  /\ decided = [r \in Requests |-> {}]

-----------------------------------------------------------------------------
IsIdle(w) == worker[w].at = "idle"
Goto(w, frame) == worker' = [worker EXCEPT ![w] = frame]

\* A call returns answer to its caller, or raises ("error").
Return(w, answer) ==
  /\ Goto(w, Idle)
  /\ returned' = [returned EXCEPT ![w] = answer]

\* Mutant: a pending row is expired before its time.
MutOverdue(r) == request[r].status = "pending"

Overdue(r) == request[r].status = "pending" /\ overdue[r]

\* _require_action_role, for a caller who is an administrator or not.
HasRole(admin, r) == run[r].admin => admin

-----------------------------------------------------------------------------
(***************************************************************************)
(* invoke.                                                                 *)
(***************************************************************************)

\* The draft succeeded: create_pending_smart_action writes both rows.  The
\* draft is a run of the tool without _approval_completed and not counted in
\* tools: a tool whose manifest demands the approval only describes what it
\* would do, one gated by the caller (require_approval) does all of its work.
InvokeGated(w, r, p, admin) ==
  /\ IsIdle(w)
  /\ run[r].status = "none"
  /\ request' = [request EXCEPT ![r].status = "pending"]
  /\ run' = [run EXCEPT ![r] = [status |-> "pending_approval", actor |-> p, admin |-> admin]]
  /\ Return(w, "pending_approval")
  /\ UNCHANGED <<overdue, history>>

\* No approval is needed, or the draft of one that needs it failed:
\* _persist_result stores the run with its result.
InvokeDirect(w, r, p, result) ==
  /\ IsIdle(w)
  /\ run[r].status = "none"
  /\ run' = [run EXCEPT ![r] = [status |-> result, actor |-> p, admin |-> FALSE]]
  /\ Return(w, result)
  /\ UNCHANGED <<request, overdue, history>>

\* The clock passes expires_at.
Deadline(r) ==
  /\ request[r].status # "absent"
  /\ ~overdue[r]
  /\ overdue' = [overdue EXCEPT ![r] = TRUE]
  /\ UNCHANGED <<tables, worker, returned, history>>

-----------------------------------------------------------------------------
(***************************************************************************)
(* Expiry, by any read of an overdue request.                              *)
(***************************************************************************)

\* get_approval_request or list_approval_requests finds an overdue row.
ReadOverdue(w, r) ==
  /\ IsIdle(w)
  /\ Overdue(r)
  /\ Goto(w, Frame("expire", r, Nobody, FALSE, "none", FALSE))
  /\ UNCHANGED <<tables, overdue, returned, history>>

\* The run's UPDATE is guarded by the run's own status, not the request's.
ExpireRun(row) ==
  IF row.status = "pending_approval" THEN [row EXCEPT !.status = "rejected"] ELSE row

\* _expire_approval_request: two guarded UPDATEs in one transaction.
Expire(w) ==
  LET r == worker[w].req
  IN  /\ worker[w].at = "expire"
      /\ request' = IF request[r].status = "pending"
                      THEN [request EXCEPT ![r] = [status |-> "expired", approver |-> System]]
                      ELSE request
      /\ run' = [run EXCEPT ![r] = ExpireRun(run[r])]
      /\ Goto(w, IF worker[w].flag THEN Advance(worker[w], "complete", "none", FALSE) ELSE Idle)
      /\ UNCHANGED <<overdue, returned, history>>

-----------------------------------------------------------------------------
(***************************************************************************)
(* update_approval: store the decision, then complete.                     *)
(***************************************************************************)

\* What the checks before the UPDATE demand of the row that was read.
MayDecide(r, decision, admin) ==
  /\ request[r].status = "pending"
  /\ decision = "approved" => HasRole(admin, r)

UpdateApproval(w, r, decision, p, admin) ==
  /\ IsIdle(w)
  /\ request[r].status # "absent"
  /\ IF MayDecide(r, decision, admin)
       THEN /\ Goto(w, Frame("decide", r, p, admin, decision, Overdue(r)))
            /\ UNCHANGED returned
       ELSE Return(w, "error")
  /\ UNCHANGED <<tables, overdue, history>>

\* The UPDATE names the id alone.
DecideCommit(w) ==
  LET r == worker[w].req
      decision == worker[w].arg
  IN  /\ worker[w].at = "decide"
      /\ ~worker[w].flag
      /\ request' = [request EXCEPT ![r] = [status |-> decision, approver |-> worker[w].by]]
      /\ decided' = [decided EXCEPT ![r] = @ \cup {decision}]
      /\ Goto(w, Advance(worker[w], "complete", "none", FALSE))
      /\ UNCHANGED <<run, overdue, returned, ranFor, tools, reported>>

\* A row seen overdue is expired or decided by now: the call raises, and the
\* expiry it wrote is rolled back with the transaction.
DecideRollback(w) ==
  /\ worker[w].at = "decide"
  /\ worker[w].flag
  /\ Return(w, "error")
  /\ UNCHANGED <<tables, overdue, history>>

-----------------------------------------------------------------------------
(***************************************************************************)
(* complete_approval.                                                      *)
(***************************************************************************)

\* AgentService.resume completes in its own name; an iteration session in
\* the name of the approver it read, with the role of its own actor.
CompleteApproval(w, r, p, admin) ==
  /\ IsIdle(w)
  /\ request[r].status # "absent"
  /\ Goto(w, Frame("complete", r, p, admin, "none", FALSE))
  /\ UNCHANGED <<tables, overdue, returned, history>>

\* Mutant: the requester may complete its own action.
MutSelfApproval(frame) == FALSE

SelfApproval(frame) == frame.by = run[frame.req].actor

MayRun(frame) == HasRole(frame.admin, frame.req)

\* Mutant: the status of the run is not looked at.
MutRunWaits(r) == TRUE

RunWaits(r) == run[r].status = "pending_approval"

\* The reads, and the branch they decide.
CompleteRead(w) ==
  LET frame == worker[w]
      r == frame.req
      status == request[r].status
  IN  /\ frame.at = "complete"
      /\ \/ /\ Overdue(r)
            /\ Goto(w, Advance(frame, "expire", "none", TRUE))
            /\ UNCHANGED returned
         \/ /\ ~Overdue(r)
            /\ SelfApproval(frame)
            /\ Return(w, "error")
         \/ /\ ~Overdue(r)
            /\ ~SelfApproval(frame)
            /\ \/ status = "expired" /\ Return(w, "rejected")
               \/ status = "pending" /\ Return(w, "pending_approval")
               \/ /\ status = "rejected"
                  /\ Goto(w, Advance(frame, "record", "rejected", FALSE))
                  /\ UNCHANGED returned
               \/ status = "approved" /\ ~RunWaits(r) /\ Return(w, run[r].status)
               \/ status = "approved" /\ RunWaits(r) /\ ~MayRun(frame) /\ Return(w, "error")
               \/ /\ status = "approved" /\ RunWaits(r) /\ MayRun(frame)
                  /\ Goto(w, Advance(frame, "tool", "none", FALSE))
                  /\ UNCHANGED returned
      /\ UNCHANGED <<tables, overdue, history>>

\* _safe_run calls the tool; an exception is a failed result.
Tool(w, result) ==
  LET r == worker[w].req
  IN  /\ worker[w].at = "tool"
      /\ ranFor' = [ranFor EXCEPT ![r] = @ \cup {worker[w].by}]
      /\ tools' = [tools EXCEPT ![r] = IF @ = 2 THEN 2 ELSE @ + 1]
      /\ reported' = [reported EXCEPT ![r] = @ \cup {result}]
      /\ Goto(w, Advance(worker[w], "record", result, FALSE))
      /\ UNCHANGED <<tables, overdue, returned, decided>>

\* Mutant: whoever completes may store the result.
MutMayRecord(frame) ==
  /\ run[frame.req].status = "pending_approval"
  /\ request[frame.req].status \in {"approved", "rejected"}

\* The checks of complete_smart_action_run.  The one on the result's status is
\* left out: no tool of the registry reports one it refuses.
MayRecord(frame) ==
  /\ run[frame.req].status = "pending_approval"
  /\ request[frame.req].status \in {"approved", "rejected"}
  /\ request[frame.req].approver = frame.by

RecordSelect(w) ==
  /\ worker[w].at = "record"
  /\ IF MayRecord(worker[w])
       THEN /\ Goto(w, Advance(worker[w], "store", worker[w].arg, FALSE))
            /\ UNCHANGED returned
       ELSE Return(w, "error")
  /\ UNCHANGED <<tables, overdue, history>>

\* ... and its UPDATE, by id alone.
RecordCommit(w) ==
  /\ worker[w].at = "store"
  /\ run' = [run EXCEPT ![worker[w].req].status = worker[w].arg]
  /\ Return(w, worker[w].arg)
  /\ UNCHANGED <<request, overdue, history>>

\* The process of a worker dies.
Crash(w) ==
  /\ Crashes
  /\ ~IsIdle(w)
  /\ Return(w, "error")
  /\ UNCHANGED <<tables, overdue, history>>

-----------------------------------------------------------------------------
Step(w) ==
  \/ Expire(w)
  \/ DecideCommit(w)
  \/ DecideRollback(w)
  \/ CompleteRead(w)
  \/ \E result \in Results : Tool(w, result)
  \/ RecordSelect(w)
  \/ RecordCommit(w)

Invoke(w, r, p) ==
  \/ \E admin \in AdminTools : InvokeGated(w, r, p, admin)
  \/ \E result \in Results : InvokeDirect(w, r, p, result)

\* POST /approval-requests/{id}, whose decision the caller chooses.
Decide(w, r, p) ==
  \E decision \in Decisions : UpdateApproval(w, r, decision, p, p \in Admins)

\* Iteration session of q: the request is approved and the run still waits.
CompleteForSession(w, r, q) ==
  /\ request[r].status = "approved"
  /\ run[r].status = "pending_approval"
  /\ CompleteApproval(w, r, request[r].approver, q \in Admins)

Start(w) ==
  \E r \in Requests :
    \/ ReadOverdue(w, r)
    \/ \E p \in People :
         \/ Invoke(w, r, p)
         \/ Decide(w, r, p)
         \/ CompleteApproval(w, r, p, p \in Admins)
         \/ CompleteForSession(w, r, p)

\* AgentService.cancel by the requester rejects in the name of the system.
CancelDecision(w, r, p) ==
  UpdateApproval(w, r, "rejected", Cancellation, p \in Admins)

Next ==
  \/ \E w \in Workers : Step(w) \/ Start(w) \/ Crash(w)
  \/ \E w \in Workers, r \in Requests, p \in People : CancelDecision(w, r, p)
  \/ \E r \in Requests : Deadline(r)

Spec == Init /\ [][Next]_vars

-----------------------------------------------------------------------------
(***************************************************************************)
(* Properties.                                                             *)
(***************************************************************************)

\* Every variable has its type.
TypeOK ==
  /\ request \in [Requests -> [status: Statuses,
                               approver: People \cup {System, Cancellation, Nobody}]]
  /\ run \in [Requests -> [status: RunStatuses, actor: People \cup {Nobody}, admin: BOOLEAN]]
  /\ overdue \in [Requests -> BOOLEAN]
  /\ worker \in [Workers -> Frames]
  /\ returned \in [Workers -> Answers]
  /\ ranFor \in [Requests -> SUBSET (People \cup {Cancellation, Nobody})]
  /\ tools \in [Requests -> 0..2]
  /\ reported \in [Requests -> SUBSET Results]
  /\ decided \in [Requests -> SUBSET Decisions]

\* A request that gates a run (a direct invocation has none).
IsGated(r) == request[r].status # "absent"

\* A gated tool runs only once an approval was stored, never in the name of the
\* actor that requested it, and a tool reserved for administrators only in the
\* name of one of them, whoever completes the approval and however stale what
\* he read is (complete_approval).
RunsForAuthorized ==
  \A r \in Requests :
    /\ tools[r] > 0 => "approved" \in decided[r]
    /\ \A p \in ranFor[r] :
         /\ p # run[r].actor
         /\ p \in People /\ run[r].admin => p \in Admins

\* The outcome on a gated run is one its tool reported, or a rejection that
\* was decided or due: no completion stores a result of its own making.
OutcomeIsBacked ==
  \A r \in Requests : IsGated(r) =>
    /\ run[r].status \in Results => run[r].status \in reported[r]
    /\ run[r].status = "rejected" => "rejected" \in decided[r] \/ overdue[r]

\* An invoked action keeps its row, a decision leaves its trace, and an
\* approval is in the name of a person with the role the tool demands.
TablesOK ==
  \A r \in Requests :
    /\ run[r].status = "none" => ~IsGated(r) /\ tools[r] = 0 /\ ranFor[r] = {}
    /\ request[r].status \in {"approved", "rejected"} => request[r].status \in decided[r]
    /\ request[r].status = "approved" =>
         /\ request[r].approver \in People
         /\ run[r].admin => request[r].approver \in Admins

\* What each step of a call may rely on, however old its reads are.
FrameOK(frame) ==
  LET r == frame.req
  IN  frame.at # "idle" =>
        /\ IsGated(r)
        /\ frame.by \in People /\ frame.admin /\ run[r].admin => frame.by \in Admins
        /\ frame.at = "expire" => overdue[r]
        /\ frame.at = "decide" =>
             /\ frame.arg \in Decisions
             /\ frame.arg = "approved" => frame.by \in People /\ HasRole(frame.admin, r)
        /\ frame.at = "tool" =>
             /\ frame.by # run[r].actor
             /\ HasRole(frame.admin, r)
             /\ "approved" \in decided[r]
        /\ frame.at \in {"record", "store"} =>
             \/ frame.arg \in reported[r]
             \/ frame.arg = "rejected" /\ "rejected" \in decided[r]

\* The inductive invariant for any number of workers.
SmartInv ==
  /\ TypeOK
  /\ TablesOK
  /\ \A w \in Workers : FrameOK(worker[w])
  /\ RunsForAuthorized
  /\ OutcomeIsBacked

\* One call at a time: once a run has an outcome neither the outcome nor the
\* number of tool calls changes again, whatever is decided, resumed or expired
\* afterwards, and wherever a process dies in between.
OutcomeIsFinal ==
  [][\A r \in Requests :
       run[r].status \notin {"none", "pending_approval"} =>
         run'[r].status = run[r].status /\ tools'[r] = tools[r]]_vars

\* One call at a time: the outcome of a run agrees with the decision stored on
\* its request, and an executed run was approved by somebody else than its
\* actor (complete_smart_action_run; the self-approval check comes later than
\* the decision it is about).
AgreesWithDecision ==
  \A r \in Requests : IsGated(r) =>
    /\ run[r].status \in Results =>
         /\ request[r].status = "approved"
         /\ request[r].approver \in People \ {run[r].actor}
    /\ run[r].status = "rejected" => request[r].status \in {"rejected", "expired"}
    /\ request[r].status = "expired" => run[r].status = "rejected"

\* The tool of a request is run at most once.  It is not, even one call at a
\* time: after a self-approval that was stored and then refused, each
\* resumption by somebody else runs the tool and is refused only when it
\* records the result (complete_smart_action_run: it is not the approver).
ToolRunsOnce == \A r \in Requests : tools[r] < 2
=============================================================================
