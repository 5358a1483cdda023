---------------------------- MODULE ApprovalGate ----------------------------
(***************************************************************************)
(* The approval_requests table of WAIT Local Agent and the handlers that   *)
(* decide, edit, expire and execute a request.                             *)
(*                                                                         *)
(* Handlers run on the threads of the API pool and in CLI processes, here  *)
(* the Workers.  A Store method opens its own SQLite connection: a SELECT  *)
(* that precedes the first write runs in autocommit mode, and the writes   *)
(* of the method commit together.  A method is therefore two steps, the    *)
(* SELECT (...Select) and the write transaction (...Commit), and anything  *)
(* may happen between them.  An exception rolls the transaction back.      *)
(*                                                                         *)
(* Consecutive get_approval_request calls of one handler are one step: a   *)
(* get changes the table only by expiring the row, and ReadOverdue lets    *)
(* any worker do that at any moment.                                       *)
(***************************************************************************)
EXTENDS Naturals, FiniteSets

CONSTANTS
  Requests,    \* ids of approval requests
  Kinds,       \* the kinds of request that are created
  Workers,     \* threads and processes that run handlers
  PowerCli,    \* TRUE: Power Platform requests are executed from the CLI too
  Crashes,     \* TRUE: a worker may die between two of its steps
  MaxEdits,    \* bound on payload edits of one request
  MaxApplied   \* bound on provider writes that take effect, per request

(***************************************************************************)
(* The action types, as far as the handlers tell them apart: "psa" is      *)
(* halopsa.* and connectwise.*, "power" the Power Platform stages and      *)
(* rollbacks, "workflow" what a workflow run waits for and nothing         *)
(* executes.                                                               *)
(***************************************************************************)
AllKinds == {"psa", "m365", "teams", "runbook", "power", "workflow"}

ASSUME BoundsAssumption ==
  /\ Requests # {}
  /\ Kinds \subseteq AllKinds
  /\ PowerCli \in BOOLEAN
  /\ Crashes \in BOOLEAN
  /\ MaxEdits \in Nat
  /\ MaxApplied \in Nat \ {0}

Decisions == {"approved", "rejected", "pending"}
Statuses == {"absent", "expired"} \cup Decisions

\* Execution statuses nothing may follow (views._TERMINAL_EXECUTION_STATUSES).
Terminal == {"succeeded", "verified", "unverified", "submitted"}
Results == Terminal \cup {"failed", "blocked"}
ExecStatuses == Results \cup {"not_started", "running"}

RunStatuses == {"none", "pending_approval", "approved", "rejected"}

Labels == {"idle", "link", "expire", "decide", "edit", "check", "claim",
           "call", "record", "store"}

VARIABLES
  approval,   \* the table: kind, status, exec(ution_status), payload version
  overdue,    \* has the deadline expires_at passed?
  workflow,   \* status of the workflow run linked to the request
  worker,     \* where each worker is in its handler, and its locals
  applied,    \* history: provider writes that took effect
  succeeded,  \* history: provider writes reported as successful
  reviewed,   \* history: payload versions stored when an approval committed
  written     \* history: payload versions sent by writes that took effect

vars == <<approval, overdue, workflow, worker,
          applied, succeeded, reviewed, written>>
history == <<applied, succeeded, reviewed, written>>

Rows == [kind: Kinds \cup {"none"}, status: Statuses, exec: ExecStatuses,
         payload: 0..MaxEdits]

(***************************************************************************)
(* The locals of a handler: the request, the decision or the result it     *)
(* carries, whether its SELECT saw a pending row past its deadline, the    *)
(* allow_completed argument, and the payload it read.                      *)
(***************************************************************************)
Frames == [at: Labels, req: Requests, arg: Decisions \cup Results \cup {"none"},
           lapsed: BOOLEAN, allow: BOOLEAN, sent: 0..MaxEdits]

Frame(label, r, arg, lapsed, allow, sent) ==
  [at |-> label, req |-> r, arg |-> arg, lapsed |-> lapsed, allow |-> allow, sent |-> sent]

\* A handler about to take the step label for r, and no handler.
At(label, r) == Frame(label, r, "none", FALSE, FALSE, 0)
Idle == At("idle", CHOOSE r \in Requests : TRUE)

\* The same handler at its next step, with a new argument.
Advance(frame, label, arg, lapsed) ==
  Frame(label, frame.req, arg, lapsed, frame.allow, frame.sent)

Init ==
  /\ approval = [r \in Requests |->
                   [kind |-> "none", status |-> "absent",
                    exec |-> "not_started", payload |-> 0]]
  /\ overdue = [r \in Requests |-> FALSE]
  /\ workflow = [r \in Requests |-> "none"]
  /\ worker = [w \in Workers |-> Idle]
  /\ applied = [r \in Requests |-> 0]
  /\ succeeded = [r \in Requests |-> 0]
  /\ reviewed = [r \in Requests |-> {}]
  /\ written = [r \in Requests |-> {}]

-----------------------------------------------------------------------------
(***************************************************************************)
(* Helpers.                                                                *)
(***************************************************************************)
IsIdle(w) == worker[w].at = "idle"
Goto(w, frame) == worker' = [worker EXCEPT ![w] = frame]
Finish(w) == Goto(w, Idle)

\* _approval_expired applied to a row that is still pending.
Overdue(r) == approval[r].status = "pending" /\ overdue[r]

\* _expire_approval_request: the guarded UPDATE of the approval row ...
ExpireRow(row) == IF row.status = "pending" THEN [row EXCEPT !.status = "expired"] ELSE row

\* Mutant: the linked run is forgotten.
MutExpireRun(run) == run

\* ... and the UPDATE of the linked workflow run, which has no such guard.
ExpireRun(run) == IF run = "none" THEN "none" ELSE "rejected"

\* _workflow_status_for_approval, applied to the linked run if there is one.
WorkflowStatus(run, decision) ==
  IF run = "none" THEN "none"
  ELSE IF decision = "pending" THEN "pending_approval" ELSE decision

\* Mutant: one check for all, which misses verified and submitted writes.
MutPriorStateAllows(row) == row.exec # "succeeded"

\* The prior-execution check each execute function makes on the row it read.
PriorStateAllows(row) ==
  /\ row.kind \in {"psa", "power"} => row.exec \notin Terminal
  /\ row.kind = "m365" => row.exec # "succeeded"
  /\ row.kind = "runbook" => row.exec = "not_started"

\* Mutant: the status is not looked at.
MutExecutable(row) ==
  /\ row.kind \notin {"none", "workflow"}
  /\ PriorStateAllows(row)

\* What execute functions demand of the row they read.
Executable(row) ==
  /\ row.kind # "workflow"
  /\ row.status = "approved"
  /\ PriorStateAllows(row)

-----------------------------------------------------------------------------
(***************************************************************************)
(* Creation, and the deadline.                                             *)
(***************************************************************************)

\* create_approval_request; run_workflow_template goes on to link its run.
Create(w, r, kind) ==
  /\ IsIdle(w)
  /\ approval[r].status = "absent"
  /\ approval' = [approval EXCEPT ![r] = [kind |-> kind, status |-> "pending",
                                          exec |-> "not_started", payload |-> 0]]
  /\ IF kind = "workflow" THEN Goto(w, At("link", r)) ELSE UNCHANGED worker
  /\ UNCHANGED <<overdue, workflow, history>>

\* create_workflow_run: a transaction of its own, after the request exists.
Link(w) ==
  /\ worker[w].at = "link"
  /\ workflow' = [workflow EXCEPT ![worker[w].req] = "pending_approval"]
  /\ Finish(w)
  /\ UNCHANGED <<approval, overdue, history>>

\* The clock passes expires_at.
Deadline(r) ==
  /\ approval[r].status # "absent"
  /\ ~overdue[r]
  /\ overdue' = [overdue EXCEPT ![r] = TRUE]
  /\ UNCHANGED <<approval, workflow, worker, history>>

-----------------------------------------------------------------------------
(***************************************************************************)
(* get_approval_request and list_approval_requests.                        *)
(***************************************************************************)

\* The SELECT of a read that finds a pending row past its deadline.
ReadOverdue(w, r) ==
  /\ IsIdle(w)
  /\ Overdue(r)
  /\ Goto(w, At("expire", r))
  /\ UNCHANGED <<approval, overdue, workflow, history>>

\* The write transaction of that read.
Expire(w) ==
  /\ worker[w].at = "expire"
  /\ LET r == worker[w].req IN
       /\ approval' = [approval EXCEPT ![r] = ExpireRow(approval[r])]
       /\ workflow' = [workflow EXCEPT ![r] = ExpireRun(workflow[r])]
  /\ Finish(w)
  /\ UNCHANGED <<overdue, history>>

-----------------------------------------------------------------------------
(***************************************************************************)
(* update_approval_request: the decision.                                  *)
(***************************************************************************)

\* Mutant: completed requests may be decided again.
MutDecideSelect(w, r, decision) ==
  /\ IsIdle(w)
  /\ approval[r].status \notin {"absent", "expired"}
  /\ Goto(w, Frame("decide", r, decision, Overdue(r), TRUE, 0))
  /\ UNCHANGED <<approval, overdue, workflow, history>>

\* The SELECT and the checks on the row it returned.
DecideSelect(w, r, decision) ==
  LET row == approval[r]
      allowed == workflow[r] # "none"
  IN  /\ IsIdle(w)
      /\ row.status \notin {"absent", "expired"}
      /\ row.status = "pending" \/ allowed
      /\ Goto(w, Frame("decide", r, decision, Overdue(r), allowed, 0))
      /\ UNCHANGED <<approval, overdue, workflow, history>>

\* A row seen overdue is expired first and the checks see the outcome.
DecideRefused(w) ==
  LET frame == worker[w]
      row == ExpireRow(approval[frame.req])
  IN  frame.lapsed /\ (row.status = "expired" \/ ~frame.allow)

\* The transaction: an UPDATE by id alone, or a rollback.
DecideCommit(w) ==
  LET r == worker[w].req
      decision == worker[w].arg
      acts == decision = "approved" /\ approval[r].kind \in {"psa", "m365"}
  IN  /\ worker[w].at = "decide"
      /\ ~DecideRefused(w)
      /\ approval' = [approval EXCEPT ![r].status = decision]
      /\ workflow' = [workflow EXCEPT ![r] = WorkflowStatus(workflow[r], decision)]
      /\ reviewed' = IF decision = "approved"
                       THEN [reviewed EXCEPT ![r] = @ \cup {approval[r].payload}]
                       ELSE reviewed
      /\ Goto(w, IF acts THEN At("check", r) ELSE Idle)
      /\ UNCHANGED <<overdue, applied, succeeded, written>>

DecideRollback(w) ==
  /\ worker[w].at = "decide"
  /\ DecideRefused(w)
  /\ Finish(w)
  /\ UNCHANGED <<approval, overdue, workflow, history>>

-----------------------------------------------------------------------------
(***************************************************************************)
(* update_approval_request_payload, reached through the PSA field editors. *)
(***************************************************************************)

\* Mutant: decided requests may be edited.
MutEditSelect(w, r) ==
  /\ IsIdle(w)
  /\ approval[r].kind = "psa"
  /\ approval[r].payload < MaxEdits
  /\ Goto(w, Frame("edit", r, "none", Overdue(r), FALSE, 0))
  /\ UNCHANGED <<approval, overdue, workflow, history>>

\* The SELECT, which refuses a row that is not pending.
EditSelect(w, r) ==
  /\ IsIdle(w)
  /\ approval[r].kind = "psa"
  /\ approval[r].status = "pending"
  /\ approval[r].payload < MaxEdits
  /\ Goto(w, Frame("edit", r, "none", Overdue(r), FALSE, 0))
  /\ UNCHANGED <<approval, overdue, workflow, history>>

\* A row seen overdue ends up expired or decided: both are refused.
EditCommit(w) ==
  LET r == worker[w].req
  IN  /\ worker[w].at = "edit"
      /\ ~worker[w].lapsed
      /\ approval[r].payload < MaxEdits
      /\ approval' = [approval EXCEPT ![r].payload = @ + 1]
      /\ Finish(w)
      /\ UNCHANGED <<overdue, workflow, history>>

EditRollback(w) ==
  /\ worker[w].at = "edit"
  /\ worker[w].lapsed
  /\ Finish(w)
  /\ UNCHANGED <<approval, overdue, workflow, history>>

-----------------------------------------------------------------------------
(***************************************************************************)
(* Execution.                                                              *)
(***************************************************************************)

\* After its checks an execute function calls the provider, or claims first.
Proceed(w, r) ==
  Goto(w, Frame(IF approval[r].kind = "power" THEN "claim" ELSE "call",
                r, "none", FALSE, FALSE, approval[r].payload))

\* The execute endpoints and commands: read the row and check it.
Execute(w, r) ==
  /\ IsIdle(w)
  /\ Executable(approval[r])
  /\ Proceed(w, r)
  /\ UNCHANGED <<approval, overdue, workflow, history>>

\* The CLI commands execute-stage and execute-rollback check the decision
\* only, and neither look at the prior execution nor claim.
ExecuteFromCli(w, r) ==
  /\ PowerCli
  /\ IsIdle(w)
  /\ approval[r].kind = "power"
  /\ approval[r].status = "approved"
  /\ Goto(w, Frame("call", r, "none", FALSE, FALSE, approval[r].payload))
  /\ UNCHANGED <<approval, overdue, workflow, history>>

\* The decision endpoint calls the execute function of its connector.
ExecuteDecided(w) ==
  LET r == worker[w].req
  IN  /\ worker[w].at = "check"
      /\ CASE Overdue(r) -> Goto(w, At("expire", r))
           [] Executable(approval[r]) -> Proceed(w, r)
           [] OTHER -> Finish(w)
      /\ UNCHANGED <<approval, overdue, workflow, history>>

\* Mutant: a running command may be claimed again.
MutClaimRunning(row) == row.status = "approved" /\ row.exec \notin Terminal

\* Mutant: a finished command may be claimed again.
MutClaimFinished(row) == row.status = "approved" /\ row.exec # "running"

\* claim_approval_execution: one conditional UPDATE.
Claimable(row) == row.status = "approved" /\ row.exec \notin Terminal \cup {"running"}

Claim(w) ==
  LET r == worker[w].req
  IN  /\ worker[w].at = "claim"
      /\ IF Claimable(approval[r])
           THEN /\ approval' = [approval EXCEPT ![r].exec = "running"]
                /\ Goto(w, Advance(worker[w], "call", "none", FALSE))
           ELSE Finish(w) /\ UNCHANGED approval
      /\ UNCHANGED <<overdue, workflow, history>>

Return(w, result) == Goto(w, Advance(worker[w], "record", result, FALSE))

\* Mutant: no kind records a refused call.
MutCallBlocked(w) ==
  /\ worker[w].at = "call"
  /\ Finish(w)
  /\ UNCHANGED <<approval, overdue, workflow, history>>

\* The call is refused before it leaves (flags, configuration), and recorded
\* as blocked.  A runbook raises instead, and so does an M365 action whose
\* payload or vault entry its execute function refuses.
CallBlocked(w) ==
  /\ worker[w].at = "call"
  /\ \/ approval[worker[w].req].kind # "runbook" /\ Return(w, "blocked")
     \/ approval[worker[w].req].kind \in {"runbook", "m365"} /\ Finish(w)
  /\ UNCHANGED <<approval, overdue, workflow, history>>

\* The provider refuses or cannot be reached: nothing changed there.
CallFailed(w) ==
  /\ worker[w].at = "call"
  /\ Return(w, "failed")
  /\ UNCHANGED <<approval, overdue, workflow, history>>

\* The write takes effect at the provider ...
TakeEffect(w) ==
  LET r == worker[w].req
  IN  /\ worker[w].at = "call"
      /\ applied[r] < MaxApplied
      /\ applied' = [applied EXCEPT ![r] = @ + 1]
      /\ written' = [written EXCEPT ![r] = @ \cup {worker[w].sent}]

\* ... but the answer is lost, and a transport error is a failed result.
CallTimesOut(w) ==
  /\ TakeEffect(w)
  /\ Return(w, "failed")
  /\ UNCHANGED <<approval, overdue, workflow, succeeded, reviewed>>

\* ... and is confirmed.  PSA writes are then read back.
CallSucceeds(w, result) ==
  /\ IF approval[worker[w].req].kind = "psa" THEN result # "succeeded"
                                             ELSE result = "succeeded"
  /\ TakeEffect(w)
  /\ succeeded' = [succeeded EXCEPT ![worker[w].req] = @ + 1]
  /\ Return(w, result)
  /\ UNCHANGED <<approval, overdue, workflow, reviewed>>

\* record_approval_execution: the SELECT, which refuses an expired row ...
RecordSelect(w) ==
  LET r == worker[w].req
  IN  /\ worker[w].at = "record"
      /\ IF approval[r].status = "expired"
           THEN Finish(w)
           ELSE Goto(w, Advance(worker[w], "store", worker[w].arg, Overdue(r)))
      /\ UNCHANGED <<approval, overdue, workflow, history>>

\* Mutant: a result that may not be recorded releases the claim.
MutRecordCommit(w) ==
  LET r == worker[w].req
      refused == worker[w].lapsed /\ ExpireRow(approval[r]).status = "expired"
  IN  /\ worker[w].at = "store"
      /\ approval' = [approval EXCEPT ![r].exec = IF refused THEN "not_started" ELSE worker[w].arg]
      /\ Finish(w)
      /\ UNCHANGED <<overdue, workflow, history>>

\* ... and the transaction, an UPDATE by id alone unless the row expires now.
RecordCommit(w) ==
  LET r == worker[w].req
      refused == worker[w].lapsed /\ ExpireRow(approval[r]).status = "expired"
  IN  /\ worker[w].at = "store"
      /\ approval' = IF refused THEN approval
                     ELSE [approval EXCEPT ![r].exec = worker[w].arg]
      /\ Finish(w)
      /\ UNCHANGED <<overdue, workflow, history>>

-----------------------------------------------------------------------------
\* A worker dies: its uncommitted work is lost, the table is not.
Crash(w) ==
  /\ Crashes
  /\ ~IsIdle(w)
  /\ Finish(w)
  /\ UNCHANGED <<approval, overdue, workflow, history>>

\* A handler that has started goes on.
Step(w) ==
  \/ Link(w) \/ Expire(w)
  \/ DecideCommit(w) \/ DecideRollback(w)
  \/ EditCommit(w) \/ EditRollback(w)
  \/ ExecuteDecided(w) \/ Claim(w)
  \/ CallBlocked(w) \/ CallFailed(w) \/ CallTimesOut(w)
  \/ \E result \in Terminal : CallSucceeds(w, result)
  \/ RecordSelect(w) \/ RecordCommit(w)

\* A request reaches an idle worker.
Start(w, r) ==
  \/ \E kind \in Kinds : Create(w, r, kind)
  \/ ReadOverdue(w, r) \/ EditSelect(w, r) \/ Execute(w, r) \/ ExecuteFromCli(w, r)
  \/ \E decision \in Decisions : DecideSelect(w, r, decision)

Next ==
  \/ \E w \in Workers : Step(w) \/ Crash(w)
  \/ \E w \in Workers, r \in Requests : Start(w, r)
  \/ \E r \in Requests : Deadline(r)

Spec == Init /\ [][Next]_vars

\* A handler that has started is run to its end by its thread.
FairSpec == Spec /\ \A w \in Workers : WF_vars(Step(w))

-----------------------------------------------------------------------------
(***************************************************************************)
(* Properties under every interleaving of the workers, crashes included.   *)
(***************************************************************************)

\* The table, the handlers' locals and the history have the types the code
\* gives them; an idle worker holds nothing.
TypeOK ==
  /\ approval \in [Requests -> Rows]
  /\ overdue \in [Requests -> BOOLEAN]
  /\ workflow \in [Requests -> RunStatuses]
  /\ worker \in [Workers -> Frames]
  /\ applied \in [Requests -> 0..MaxApplied]
  /\ succeeded \in [Requests -> Nat]
  /\ reviewed \in [Requests -> SUBSET (0..MaxEdits)]
  /\ written \in [Requests -> SUBSET (0..MaxEdits)]

\* The requests of one kind.
OfKind(kind) == {r \in Requests : approval[r].kind = kind}

\* The workers between a successful claim and the end of their handler.
Inside(r) == {w \in Workers : worker[w].req = r /\ worker[w].at \in {"call", "record", "store"}}

\* claim_approval_execution reserves a Power Platform request: as long as the
\* API alone executes it, two workers are never inside its command at once,
\* and while one is, the row says "running", whatever the others decide,
\* expire or record meanwhile.
ClaimExcludes ==
  \A r \in OfKind("power") : \A w1, w2 \in Inside(r) : w1 = w2 /\ approval[r].exec = "running"

\* A claimed command succeeds at most once, across crashes, expiries that
\* stop the result from being recorded, and decisions changed while it ran.
ClaimedSucceedsOnce == \A r \in OfKind("power") : succeeded[r] <= 1

\* What the row says of a claimed command is true: it shows success only if
\* the command succeeded, and once it has succeeded the row never again says
\* that it failed or did not start.
ClaimedRowIsTruthful ==
  \A r \in OfKind("power") :
    /\ approval[r].exec \in Terminal => succeeded[r] = 1
    /\ succeeded[r] = 1 => approval[r].exec \in {"running", "succeeded"}

\* Provider writes happen only for requests somebody approved: no order of
\* decisions, edits, expiries, crashes and executions makes an execute
\* function write for a request no approval was ever committed for.
WrittenOnlyIfApproved == \A r \in Requests : written[r] # {} => reviewed[r] # {}

\* The claim path of the Power Platform endpoints implements the exclusive
\* reservation that ExclusiveExecution specifies.
Reservation == INSTANCE ExclusiveExecution WITH
  Jobs <- Requests,
  phase <- [r \in Requests |->
              CASE approval[r].kind = "power" /\ approval[r].exec = "running" -> "held"
                [] approval[r].kind = "power" /\ approval[r].exec \in Terminal -> "done"
                [] OTHER -> "open"],
  inside <- [r \in Requests |-> IF approval[r].kind = "power" THEN Inside(r) ELSE {}],
  wins <- [r \in Requests |-> IF approval[r].kind = "power" THEN succeeded[r] ELSE 0]

\* Every behaviour of the handlers is a behaviour of that specification.
ImplementsReservation == Reservation!ASpec

-----------------------------------------------------------------------------
(***************************************************************************)
(* The inductive invariant behind the properties above.                    *)
(***************************************************************************)

\* A handler carries what its label needs, for a request that exists.
FramesOK ==
  \A w \in Workers :
    /\ worker[w].at = "decide" => worker[w].arg \in Decisions
    /\ worker[w].at \in {"record", "store"} => worker[w].arg \in Results
    /\ worker[w].at # "idle" => approval[worker[w].req].status # "absent"

\* An approved request, one whose execution has passed its checks and one
\* that has been written was approved at some moment.
ApprovedOK ==
  /\ \A r \in Requests :
       approval[r].status = "approved" \/ written[r] # {} => reviewed[r] # {}
  /\ \A w \in Workers :
       worker[w].at \in {"claim", "call"} => reviewed[worker[w].req] # {}

\* The row of a claimed request agrees with the history ...
ClaimRowOK(r) ==
  /\ succeeded[r] \in {0, 1}
  /\ approval[r].exec \in Terminal => approval[r].exec = "succeeded"
  /\ approval[r].exec = "succeeded" => succeeded[r] = 1
  /\ succeeded[r] = 1 => approval[r].exec \in {"running", "succeeded"}

\* ... and with the only worker that may be inside it.
ClaimHolderOK(r, w) ==
  /\ approval[r].exec = "running"
  /\ \A v \in Inside(r) : v = w
  /\ worker[w].at = "call" => succeeded[r] = 0
  /\ worker[w].at \in {"record", "store"} =>
       /\ worker[w].arg \in {"succeeded", "failed", "blocked"}
       /\ worker[w].arg = "succeeded" <=> succeeded[r] = 1

ClaimOK ==
  \A r \in Requests :
    /\ approval[r].status = "absent" => succeeded[r] = 0 /\ approval[r].exec = "not_started"
    /\ approval[r].kind = "power" =>
         ClaimRowOK(r) /\ \A w \in Inside(r) : ClaimHolderOK(r, w)

\* The conjunction is inductive: a worker inside a claimed command is the
\* only one, carries the outcome the history records, and its row still says
\* "running", so no interleaving lets a second worker in, unless the CLI
\* goes around the claim.
IndInv == TypeOK /\ FramesOK /\ ApprovedOK /\ (PowerCli \/ ClaimOK)

-----------------------------------------------------------------------------
(***************************************************************************)
(* Properties of handlers of one request that do not overlap.             *)
(***************************************************************************)

\* The requests all of whose executions check the prior execution state
\* report success at most once; Teams messages, and Power Platform commands
\* run from the CLI, have no such check.
SucceedsOnce ==
  \A r \in OfKind("psa") \cup OfKind("m365") \cup OfKind("runbook") : succeeded[r] <= 1

\* What reaches the provider is the payload that was stored when the request
\* was approved: edits stop at the decision.
WritesWhatWasApproved == \A r \in Requests : written[r] \subseteq reviewed[r]

\* The run a workflow waits on shows the decision of its approval request,
\* and "rejected" once that has expired.
RunFollowsDecision ==
  \A r \in OfKind("workflow") : workflow[r] # "none" =>
    workflow[r] = IF approval[r].status = "expired" THEN "rejected"
                  ELSE WorkflowStatus(workflow[r], approval[r].status)

\* A decision, an expiry and the payload they were about are final: only
\* requests a workflow run waits on may be decided again, and never after
\* they expired.
DecisionIsFinal ==
  [][\A r \in Requests :
       approval[r].status \in {"approved", "rejected", "expired"} =>
         /\ approval'[r].payload = approval[r].payload
         /\ \/ approval'[r].status = approval[r].status
            \/ approval[r].kind = "workflow" /\ approval[r].status # "expired"]_vars

\* A claimed command is eventually settled: the row does not say "running"
\* for ever.
ClaimIsSettled ==
  \A r \in Requests : approval[r].exec = "running" ~> approval[r].exec # "running"

-----------------------------------------------------------------------------
(***************************************************************************)
(* What the documentation and the tests say of requests, stated for        *)
(* overlapping handlers.                                                   *)
(***************************************************************************)

\* "Technician may edit only the fields payload while pending."
EditedOnlyWhilePending ==
  [][\A r \in OfKind("psa") : approval'[r].payload # approval[r].payload =>
        approval[r].status = "pending"]_vars

\* "Any physically executed outcome cannot be executed again."
ExecutedOnce == \A r \in OfKind("psa") : succeeded[r] <= 1

\* "PAC execution must not run for a terminal approval", and "the CLI exposes
\* the same boundary".
NotRunWhenTerminal ==
  [][\A r \in OfKind("power") : applied'[r] # applied[r] =>
        approval[r].exec \notin Terminal]_vars
=============================================================================
