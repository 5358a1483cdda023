------------------------------ MODULE AgentRun ------------------------------
(***************************************************************************)
(* AgentService: runs of a reviewed agent definition, composed with        *)
(* SmartAction.  A run executes the definition's steps through             *)
(* SmartActionService.invoke, pauses where a tool needs an approval, and   *)
(* is resumed, cancelled or retried by handlers that work on the copy of   *)
(* the agent_runs row they read at their start.                            *)
(*                                                                         *)
(* A worker is a stack of two frames: caller[w] is where it is in          *)
(* AgentService, worker[w] where it is in the SmartActionService call made *)
(* from there, and returned[w] what that call answered.  Every step of     *)
(* this module is a step of SmartAction or leaves its variables alone.     *)
(*                                                                         *)
(* The steps of a definition have distinct tools, so a step stands for its *)
(* tool.  The definition does not change: a run keeps its revision         *)
(* (_definition_for_run).  ExecutionRecorder's rows are left out.          *)
(***************************************************************************)
EXTENDS SmartAction, Sequences

CONSTANTS
  Runs,          \* ids of agent runs
  NSteps,        \* configured steps of the definition
  GatedSteps,    \* steps whose tool needs an approval
  RetriedSteps,  \* steps with failure policy "retry" ...
  StepRetries,   \* ... and their max_retries
  FallbackFrom,  \* the step with failure policy "fallback" (0: none) ...
  FallbackTo,    \* ... and the step of its fallback tool
  Aware,         \* values of result_aware that occur
  MaxSteps,      \* max_steps of the definition
  MaxRetries     \* MAX_AGENT_RETRIES

Steps == 1..NSteps

ASSUME DefinitionAssumption ==
  /\ Runs # {}
  /\ NSteps \in Nat \ {0}
  /\ GatedSteps \subseteq Steps
  /\ RetriedSteps \subseteq Steps
  /\ StepRetries \in Nat \ {0}
  /\ FallbackFrom \in 0..NSteps
  /\ FallbackTo \in Steps \ {FallbackFrom}
  /\ FallbackFrom \notin RetriedSteps
  /\ Aware \subseteq BOOLEAN
  /\ MaxSteps \in Nat /\ MaxSteps >= NSteps
  /\ MaxRetries \in Nat

Finished == {"completed", "failed", "rejected", "cancelled"}
AgentStatuses == Finished \cup {"none", "queued", "pending_approval"}

VARIABLES
  agent,   \* agent_runs
  caller   \* where each worker is in AgentService, and its locals

agentVars == <<request, run, overdue, worker, returned,
               ranFor, tools, reported, decided, agent, caller>>

Records == [step: Steps, req: Requests, status: Answers \cup {"cancelled"}]

\* A row of agent_runs: step is current_step, an index from 0; state_json holds
\* the step records, which of them waits for an approval (0: none) and
\* retry_count.
Rows == [status: AgentStatuses, actor: People \cup {Nobody}, aware: BOOLEAN,
         step: Nat, records: Seq(Records),
         pending: Nat, retries: 0..MaxRetries]

NoRow == [status |-> "none", actor |-> Nobody, aware |-> FALSE, step |-> 0,
          records |-> <<>>, pending |-> 0, retries |-> 0]

(***************************************************************************)
(* The locals of a handler: the run, the copy of its row, who called, the  *)
(* queued steps, the attempted tools, the step at hand, the request of its *)
(* latest invocation and the number of the attempt.                        *)
(***************************************************************************)
Out == [at |-> "out", id |-> CHOOSE a \in Runs : TRUE, row |-> NoRow, by |-> Nobody,
        queue |-> <<>>, tried |-> {}, step |-> 0,
        req |-> CHOOSE r \in Requests : TRUE, attempt |-> 0]

AgentInit ==
  /\ Init
  /\ agent = [a \in Runs |-> NoRow]
  /\ caller = [w \in Workers |-> Out]

-----------------------------------------------------------------------------
Call(w, frame) == caller' = [caller EXCEPT ![w] = frame]
Leave(w) == Call(w, Out)

\* No call is under way; and: the service call made from label has returned.
IsOut(w) == IsIdle(w) /\ caller[w].at = "out"
Back(w, label) == IsIdle(w) /\ caller[w].at = label

\* update_agent_run: the whole row is overwritten, by id alone.
Update(frame, status, step, row) ==
  agent' = [agent EXCEPT ![frame.id] =
              [row EXCEPT !.status = status, !.step = step]]

\* _finish: the row gets its status and the handler returns.
FinishRun(w, status, step, row) ==
  /\ Update(caller[w], status, step, row)
  /\ Leave(w)

Fresh == {r \in Requests : run[r].status = "none"}
StepsFrom(start) == [i \in 1..(NSteps - start) |-> start + i]
Recorded(row) == {row.records[i].step : i \in 1..Len(row.records)}

\* The frame that enters _continue at start_step with the given row.
Loop(frame, start, row) ==
  [frame EXCEPT !.at = "loop", !.row = row, !.tried = {}, !.attempt = 0,
                !.queue = IF row.aware THEN <<>> ELSE StepsFrom(start)]

\* The current_step at which the loop stops in step s: its index, or the
\* number of records before the step.
Position(frame, s) ==
  IF frame.row.aware THEN Len(frame.row.records) - frame.attempt ELSE s - 1

-----------------------------------------------------------------------------
(***************************************************************************)
(* run and retry.                                                          *)
(***************************************************************************)

\* run: create_agent_run, then _continue from the first step.
RunAgent(w, a, p, aware, retries) ==
  LET row == [NoRow EXCEPT !.status = "queued", !.actor = p, !.aware = aware,
                           !.retries = retries]
  IN  /\ IsOut(w)
      /\ agent[a].status = "none"
      /\ agent' = [agent EXCEPT ![a] = row]
      /\ Call(w, Loop([Out EXCEPT !.id = a, !.by = p], 0, row))
      /\ UNCHANGED vars

MayRetry(row) == row.status \in {"failed", "cancelled"} /\ row.retries < MaxRetries

\* retry: a new run with the next retry_count.
RetryAgent(w, a, b, p) ==
  /\ MayRetry(agent[a])
  /\ RunAgent(w, b, p, agent[a].aware, agent[a].retries + 1)

-----------------------------------------------------------------------------
(***************************************************************************)
(* _continue and _continue_result_aware.                                   *)
(***************************************************************************)

\* _select_result_aware_step: tools with no record yet; the model may pick.
Candidates(row) == Steps \ Recorded(row)

\* The steps the loop may take next.
NextSteps(frame) ==
  CASE frame.queue # <<>> -> {Head(frame.queue)}
    [] /\ frame.queue = <<>> /\ frame.row.aware
       /\ Len(frame.row.records) < MaxSteps -> Candidates(frame.row)
    [] OTHER -> {}

LoopEnds(w) ==
  /\ Back(w, "loop")
  /\ NextSteps(caller[w]) = {}
  /\ FinishRun(w, "completed",
               IF caller[w].row.aware THEN Len(caller[w].row.records) ELSE NSteps,
               caller[w].row)
  /\ UNCHANGED vars

\* execution_timeout_seconds has passed at the head of the loop; the model has
\* not been asked for a step yet.
TimesOut(w) ==
  LET frame == caller[w]
  IN  /\ Back(w, "loop")
      /\ \/ /\ frame.queue # <<>>
            /\ FinishRun(w, "failed", Position(frame, Head(frame.queue)), frame.row)
         \/ /\ frame.queue = <<>>
            /\ frame.row.aware /\ Len(frame.row.records) < MaxSteps
            /\ FinishRun(w, "failed", Len(frame.row.records), frame.row)
      /\ UNCHANGED vars

\* A tool that this loop already attempted is passed over.
SkipAttempted(w) ==
  /\ Back(w, "loop")
  /\ \E s \in NextSteps(caller[w]) : ~caller[w].row.aware /\ s \in caller[w].tried
  /\ Call(w, [caller[w] EXCEPT !.queue = Tail(@)])
  /\ UNCHANGED <<vars, agent>>

\* smart_actions.invoke: a gated tool waits, unless its draft fails.
InvokeStep(w, r, s) ==
  IF s \in GatedSteps
    THEN \/ \E admin \in AdminTools : InvokeGated(w, r, caller[w].row.actor, admin)
         \/ InvokeDirect(w, r, caller[w].row.actor, "failed")
    ELSE \E result \in Results : InvokeDirect(w, r, caller[w].row.actor, result)

\* The first attempt of a step.
Attempt(w) ==
  /\ Back(w, "loop")
  /\ Fresh # {}
  /\ LET r == CHOOSE x \in Fresh : TRUE
     IN  \E s \in NextSteps(caller[w]) :
           /\ caller[w].row.aware \/ s \notin caller[w].tried
           /\ InvokeStep(w, r, s)
           /\ Call(w, [caller[w] EXCEPT
                !.at = "invoked", !.step = s, !.req = r, !.tried = @ \cup {s},
                !.queue = IF @ = <<>> THEN <<>> ELSE Tail(@), !.attempt = 0])
  /\ UNCHANGED agent

\* The row with the record of the invocation that just returned.
WithRecord(w) ==
  [caller[w].row EXCEPT
     !.records = Append(@, [step |-> caller[w].step, req |-> caller[w].req,
                            status |-> returned[w]])]

\* Mutant: the index of the record that waits is off by one.
MutPause(w) ==
  /\ Back(w, "invoked")
  /\ returned[w] = "pending_approval"
  /\ FinishRun(w, "pending_approval", Position(caller[w], caller[w].step),
               [WithRecord(w) EXCEPT !.pending = Len(WithRecord(w).records) + 1])
  /\ UNCHANGED vars

\* The tool waits for an approval: the run pauses.
Pause(w) ==
  /\ Back(w, "invoked")
  /\ returned[w] = "pending_approval"
  /\ FinishRun(w, "pending_approval", Position(caller[w], caller[w].step),
               [WithRecord(w) EXCEPT !.pending = Len(WithRecord(w).records)])
  /\ UNCHANGED vars

\* Mutant: a failed tool does not stop the loop.
MutStepDone(w) ==
  LET row == [WithRecord(w) EXCEPT !.pending = 0]
  IN  /\ Back(w, "invoked")
      /\ returned[w] \in {"success", "failed"}
      /\ Update(caller[w], "queued",
                IF row.aware THEN Len(row.records) ELSE caller[w].step, row)
      /\ Call(w, [caller[w] EXCEPT !.at = "loop", !.row = row, !.attempt = 0])
      /\ UNCHANGED vars

\* The tool succeeded: the row is written, and the loop goes on.
StepDone(w) ==
  LET row == [WithRecord(w) EXCEPT !.pending = 0]
  IN  /\ Back(w, "invoked")
      /\ returned[w] = "success"
      /\ Update(caller[w], "queued",
                IF row.aware THEN Len(row.records) ELSE caller[w].step, row)
      /\ Call(w, [caller[w] EXCEPT !.at = "loop", !.row = row, !.attempt = 0])
      /\ UNCHANGED vars

StepFailed(w) == Back(w, "invoked") /\ returned[w] = "failed"

\* Policy "retry": the same tool again, a bounded number of times.
RetryStep(w) ==
  /\ StepFailed(w)
  /\ caller[w].step \in RetriedSteps
  /\ caller[w].attempt < StepRetries
  /\ Fresh # {}
  /\ LET r == CHOOSE x \in Fresh : TRUE
     IN  /\ InvokeStep(w, r, caller[w].step)
         /\ Call(w, [caller[w] EXCEPT !.row = WithRecord(w), !.req = r, !.attempt = @ + 1])
  /\ UNCHANGED agent

\* Mutant: the tools attempted so far are not consulted.
MutFallbackOpen(frame, row) == TRUE

\* Policy "fallback": the other tool was not attempted in this loop, or has
\* no record and the records leave room for it.
FallbackOpen(frame, row) ==
  IF row.aware THEN FallbackTo \notin Recorded(row) /\ Len(row.records) < MaxSteps
               ELSE FallbackTo \notin frame.tried

FallBack(w) ==
  LET row == WithRecord(w)
  IN  /\ StepFailed(w)
      /\ caller[w].step = FallbackFrom
      /\ FallbackOpen(caller[w], row)
      /\ Update(caller[w], "queued",
                IF row.aware THEN Len(row.records) ELSE caller[w].step - 1, row)
      /\ Call(w, [caller[w] EXCEPT !.at = "loop", !.row = row, !.attempt = 0,
                                   !.queue = <<FallbackTo>> \o @])
      /\ UNCHANGED vars

\* No retry and no fallback is left: the run fails.
GiveUp(w) ==
  /\ StepFailed(w)
  /\ caller[w].step \in RetriedSteps => caller[w].attempt = StepRetries
  /\ caller[w].step = FallbackFrom => ~FallbackOpen(caller[w], WithRecord(w))
  /\ FinishRun(w, "failed", Position(caller[w], caller[w].step), WithRecord(w))
  /\ UNCHANGED vars

\* invoke raises: the payload has a reserved field, the ticket is quarantined,
\* or the definition's approval expiry is out of range.  Only a KeyError, an
\* unknown tool, is caught: the row stays as it was last written.
InvokeRaises(w) ==
  /\ \/ /\ Back(w, "loop")
        /\ \E s \in NextSteps(caller[w]) : caller[w].row.aware \/ s \notin caller[w].tried
     \/ /\ StepFailed(w)
        /\ caller[w].step \in RetriedSteps
        /\ caller[w].attempt < StepRetries
  /\ Call(w, [caller[w] EXCEPT !.at = "raised"])
  /\ UNCHANGED <<vars, agent>>

\* The error leaves run, retry or resume, and the handler answers with it.
Unwinds(w) ==
  /\ Back(w, "raised")
  /\ Leave(w)
  /\ UNCHANGED <<vars, agent>>

-----------------------------------------------------------------------------
(***************************************************************************)
(* resume.                                                                 *)
(***************************************************************************)

PendingRequest(row) == row.records[row.pending].req

\* The endpoint reads the run.
Resume(w, a, p) ==
  /\ IsOut(w)
  /\ agent[a].status = "pending_approval"
  /\ p # agent[a].actor
  /\ Call(w, [Out EXCEPT !.at = "resume", !.id = a, !.row = agent[a], !.by = p,
                         !.req = PendingRequest(agent[a])])
  /\ UNCHANGED <<vars, agent>>

\* get_approval_request expires an overdue request before it returns it.
ReadExpires(w) ==
  /\ Back(w, "resume") \/ Back(w, "cancel")
  /\ caller[w].row.pending # 0
  /\ ReadOverdue(w, caller[w].req)
  /\ UNCHANGED <<agent, caller>>

\* A pending request is approved first; then the approval is completed.
ResumeApproves(w) ==
  LET r == caller[w].req
  IN  /\ Back(w, "resume")
      /\ request[r].status = "pending" /\ ~Overdue(r)
      /\ UpdateApproval(w, r, "approved", caller[w].by, caller[w].by \in Admins)
      /\ Call(w, [caller[w] EXCEPT !.at = "approving"])
      /\ UNCHANGED agent

ResumeCompletes(w) ==
  LET r == caller[w].req
  IN  /\ \/ Back(w, "resume") /\ request[r].status # "pending"
         \/ Back(w, "approving") /\ returned[w] # "error"
      /\ CompleteApproval(w, r, caller[w].by, caller[w].by \in Admins)
      /\ Call(w, [caller[w] EXCEPT !.at = "completing"])
      /\ UNCHANGED agent

\* The service raised: the handler answers 409 and writes nothing.
Raises(w) ==
  /\ Back(w, "approving") \/ Back(w, "completing") \/ Back(w, "cancelling")
  /\ returned[w] = "error"
  /\ Leave(w)
  /\ UNCHANGED <<vars, agent>>

\* The row with the answer on the record that was waiting.
Answered(w) ==
  [caller[w].row EXCEPT !.records[caller[w].row.pending].status = returned[w],
                        !.pending = 0]

ResumeContinues(w) ==
  /\ Back(w, "completing")
  /\ returned[w] = "success"
  /\ Call(w, Loop(caller[w], caller[w].row.step + 1, Answered(w)))
  /\ UNCHANGED <<vars, agent>>

ResumeEnds(w) ==
  /\ Back(w, "completing")
  /\ returned[w] \notin {"success", "error"}
  /\ FinishRun(w, IF returned[w] = "rejected" THEN "rejected" ELSE "failed",
               caller[w].row.step, Answered(w))
  /\ UNCHANGED vars

-----------------------------------------------------------------------------
(***************************************************************************)
(* cancel.                                                                 *)
(***************************************************************************)

\* Mutant: a run may be cancelled whatever its status.
MutMayCancel(row) == row.status # "none"

MayCancel(row) == row.status \in {"queued", "pending_approval"}

Cancel(w, a, p) ==
  /\ IsOut(w)
  /\ MayCancel(agent[a])
  /\ Call(w, [Out EXCEPT !.at = "cancel", !.id = a, !.row = agent[a], !.by = p,
                         !.req = IF agent[a].pending = 0 THEN @
                                                         ELSE PendingRequest(agent[a])])
  /\ UNCHANGED <<vars, agent>>

\* Mutant: the pending approval is left as it is.
MutMustReject(frame) == FALSE

\* Does the run's approval still have to be rejected?
MustReject(frame) == frame.row.pending # 0 /\ request[frame.req].status = "pending"

\* Mutant: the cancellation writes the decision itself.
MutCancelRejects(w) ==
  LET frame == caller[w]
  IN  /\ Back(w, "cancel")
      /\ MustReject(frame)
      /\ request' = [request EXCEPT ![frame.req].status = "rejected"]
      /\ Call(w, [frame EXCEPT !.at = "cancelling"])
      /\ UNCHANGED <<run, overdue, worker, returned, history, agent>>

CancelRejects(w) ==
  LET frame == caller[w]
      approver == IF frame.by = frame.row.actor THEN Cancellation ELSE frame.by
  IN  /\ Back(w, "cancel")
      /\ MustReject(frame)
      /\ ~Overdue(frame.req)
      /\ UpdateApproval(w, frame.req, "rejected", approver, frame.by \in Admins)
      /\ Call(w, [frame EXCEPT !.at = "cancelling"])
      /\ UNCHANGED agent

CancelWrites(w) ==
  LET row == caller[w].row
  IN  /\ \/ Back(w, "cancel") /\ ~MustReject(caller[w])
         \/ Back(w, "cancelling") /\ returned[w] # "error"
      /\ FinishRun(w, "cancelled", row.step,
                   IF row.pending = 0 THEN row
                   ELSE [row EXCEPT !.records[row.pending].status = "cancelled",
                                    !.pending = 0])
      /\ UNCHANGED vars

-----------------------------------------------------------------------------
\* A step inside the service call, and calls from the approval inbox.
ServiceStep(w) == Step(w) /\ UNCHANGED <<agent, caller>>

Inbox(w) ==
  /\ IsOut(w)
  /\ \E r \in Requests :
       \/ ReadOverdue(w, r)
       \/ \E p \in People : Decide(w, r, p)
  /\ UNCHANGED <<agent, caller>>

\* The process dies wherever it is.
AgentCrash(w) ==
  /\ Crashes
  /\ caller[w].at # "out" \/ ~IsIdle(w)
  /\ IF IsIdle(w) THEN UNCHANGED vars ELSE Crash(w)
  /\ Leave(w)
  /\ UNCHANGED agent

AgentStep(w) ==
  \/ LoopEnds(w) \/ TimesOut(w) \/ SkipAttempted(w) \/ Attempt(w)
  \/ Pause(w) \/ StepDone(w) \/ RetryStep(w) \/ FallBack(w) \/ GiveUp(w) \/ Unwinds(w)
  \/ ReadExpires(w) \/ ResumeApproves(w) \/ ResumeCompletes(w) \/ Raises(w)
  \/ ResumeContinues(w) \/ ResumeEnds(w)
  \/ CancelRejects(w) \/ CancelWrites(w)

AgentStart(w) ==
  \E a \in Runs, p \in People :
    \/ \E aware \in Aware : RunAgent(w, a, p, aware, 0)
    \/ \E b \in Runs : RetryAgent(w, a, b, p)
    \/ Resume(w, a, p)
    \/ Cancel(w, a, p)

AgentNext ==
  \/ \E w \in Workers :
       \/ ServiceStep(w) \/ AgentStep(w) \/ InvokeRaises(w)
       \/ AgentStart(w) \/ Inbox(w) \/ AgentCrash(w)
  \/ \E r \in Requests : Deadline(r) /\ UNCHANGED <<agent, caller>>

AgentSpec == AgentInit /\ [][AgentNext]_agentVars

\* A handler that has begun runs to its end: threads are not starved.
AgentFairSpec ==
  AgentSpec /\ \A w \in Workers : WF_agentVars(ServiceStep(w) \/ AgentStep(w))

-----------------------------------------------------------------------------
(***************************************************************************)
(* Properties.                                                             *)
(***************************************************************************)

RecordedRequests(row) == {row.records[i].req : i \in 1..Len(row.records)}

\* Every variable has its type.
AgentTypeOK ==
  /\ TypeOK
  /\ agent \in [Runs -> Rows]
  /\ \A a \in Runs : agent[a].pending \in 0..Len(agent[a].records)

\* One call at a time: a finished run is never written again, and none of its
\* tools runs any more, even if its approvals are decided, resumed or expire
\* later (update_agent_run overwrites whatever status the row has).
FinishedIsQuiet ==
  [][\A a \in Runs : agent[a].status \in Finished =>
       /\ agent'[a] = agent[a]
       /\ \A r \in RecordedRequests(agent[a]) : tools'[r] = tools[r]]_agentVars

\* An approval-gated fallback that skips steps: when the run is resumed, it
\* goes on after the step that paused, and the skipped ones are lost.
FallbackSkips == FallbackFrom # 0 /\ FallbackTo \in GatedSteps /\ FallbackTo > FallbackFrom + 1

\* One call at a time: a completed run has executed every configured step, and
\* the smart action run of each succeeded, save for a step that fell back;
\* pauses, resumptions and retries in between lose no step (_continue), but for
\* a fallback that skips some, and a result-aware run that used up max_steps.
CompletedRanEveryStep ==
  \A a \in Runs :
    /\ agent[a].status = "completed"
    /\ IF agent[a].aware THEN Len(agent[a].records) < MaxSteps ELSE ~FallbackSkips
    => \A s \in Steps : \E i \in 1..Len(agent[a].records) :
         LET record == agent[a].records[i]
         IN  record.step = s /\ (run[record.req].status = "success" \/ s = FallbackFrom)

\* One call at a time: no approval recorded on a cancelled run is left waiting
\* for a decision that would run its tool (cancel rejects it first).
CancelRevokes ==
  \A a \in Runs : agent[a].status = "cancelled" =>
    \A r \in RecordedRequests(agent[a]) :
      request[r].status # "pending"

\* Whatever the agents do, the smart actions below them behave as SmartAction
\* says: a handler reaches their tables only through the service's calls.
ImplementsSmartAction == Spec

\* The loop ends, whatever its policies do: a queued run finishes or pauses,
\* if none of its invocations raises.
RunSettles ==
  \A a \in Runs :
    [](\A w \in Workers : caller[w].id = a => caller[w].at # "raised")
      => (agent[a].status = "queued" ~> agent[a].status # "queued")

\* Every queued run finishes or pauses.  It does not: after an invocation that
\* raised, nothing moves it but a cancellation.
QueuedRunSettles ==
  \A a \in Runs : agent[a].status = "queued" ~> agent[a].status # "queued"

\* A resumption of a run whose approval was rejected ends the run.
RejectionEndsRun ==
  [][\A w \in Workers :
       /\ Back(w, "completing")
       /\ request[caller[w].req].status = "rejected"
       /\ caller'[w].at = "out"
       => agent'[caller[w].id].status \in Finished]_agentVars
=============================================================================
