# WAIT Local Agent: TLA+ models, checks and proofs

WAIT Local Agent is a self-hosted assistant for managed service providers. It
ingests tickets from PSA systems, runs bounded agents and playbooks on them, and
writes back to providers (HaloPSA, ConnectWise, Microsoft 365, Power Platform)
only behind approvals. Its state is one SQLite file (`store.py`). The FastAPI
endpoints are synchronous functions run on a thread pool, the scheduler moves its
jobs to threads, and the command line is a process of its own; all of them share
the file. The hard part of the program is therefore what these threads and
processes do to the same rows, and what is left when one of them dies.

This directory models that part: the approval gate, the smart actions and the agent
runs above them, the event deliveries, the poll lease and the ticket sink behind it,
the polling of founder scans, and the principals whose roles all of them ask for.
Paths below are relative to `src/wait_local_agent/` of the repository unless they
start with `docs/`, `packs/` or `tests/`.

## Inventory

| Component | State | Operations | What makes it hard, and correct |
|---|---|---|---|
| Approval requests (`store.py`, `connectors.py`, `api/routers/tickets.py`, `psa_connectors.py`, `m365.py`, `cli.py`) | `approval_requests`: status, payload, execution status, deadline; the linked `workflow_runs` row | create, read (which expires), decide, edit payload, execute, record | Each store method reads, checks and then writes in separate steps; provider calls time out or crash before they are recorded. Nothing may be written unapproved, and writes must be what was approved, once. |
| Power Platform claim (`api/routers/consultant.py`, `power_platform_deployment.py`) | `execution_status = running` | claim, run `pac`, record | One conditional UPDATE reserves a long external command. One owner, one success, a truthful row. |
| Event deliveries (`event_dispatch.py`, `store.py`) | `event_deliveries`: status, attempts per agent and playbook, retry count, next retry | receive, pass over agents and playbooks, claim a retry, finish | A long pass works on locals and writes once; operators, the retry worker and duplicates compete. No replay of what returned, bounded runs, every delivery settles. |
| Ingestion poller (`ingestion_poller.py`, `store.py`) | `sync_cursors`: status, lease token and expiry, `last_synced_at` | read cursor, claim lease, sweep pages, check lease, write page, finish | A lease with a fencing token, checked in one transaction and used in another; crashes. |
| Smart actions (`smart_actions.py`, `store.py`) | `smart_action_runs` and their approval requests | invoke, decide, complete, record, expire | The decision is stored before the checks of the completion, and the tool runs before its result is accepted. A tool runs for somebody authorised; an outcome agrees with its decision. |
| Agent runtime (`agents.py`) | `agent_runs`: status, current step, step records, pending approval, retry count | run, pause, resume, cancel, retry, fall back | Handlers work on a copy of the row; a resumption may meet an approval that was decided elsewhere. Finished runs stay finished; no step is lost. |
| Agent backfills (`api/routers/agents.py`) | a list of tickets with a status | start, pause, resume, cancel | The worker overwrites the status it read at its start. |
| Ticket sink (`store.py` 2310-2935, 3234-3359, 4569-4790) | tickets, mappings, unmapped records | ingest a batch, verify a mapping, release from quarantine, assign by hand | Owners follow verified mappings and are kept; a verification misses no ticket. |
| Principals and sessions (`store.py` 1014-2180, `capabilities.py`, `api/auth_routes.py`) | principals, credentials, roles, sessions, grants | create, grant, revoke, activate, deactivate | Four ways to lose an administrator; guards count before they remove. Deactivation ends all access. |
| Founder artifacts (`lp_polling.py`, `api/founder.py`) | `founder_artifacts`: scan, polling status, attempts, start, claim | save, preview, upload, launch, poll, watch | A claim without an owner around a remote call; giving up takes no claim. Polls exclude each other, every polling ends. |
| Scheduler (`scheduler.py`) | APScheduler jobs mirrored from a table | reconcile, run | One instance per job; restarts. |
| Iteration sessions (`packs/agent_platform/iterations.py`) | versioned sessions | create, continue, modify, finish | Approvals consumed once. |

Left out because they are I/O, generation or read-only computation: provider
clients and collectors, reports, evaluation, knowledge and chat, consultant
documents and packages, baselines, backup, vault, migrations, update channel, the
API shell, the desktop wrapper. `PROJECT.json` lists each with its reason.

How the components meet: the poller writes tickets, which the dispatcher's events
refer to; the dispatcher runs agents and playbooks, which create approval requests
and wait; a decision on a request executes it, and a resumption continues the agent.
The dispatcher and the gate both
test whether a ticket is quarantined. The scheduler starts polls and retries.

## Modules

| Module | Models |
|---|---|
| `ApprovalGate` | the approval requests, their decisions, edits, expiry and execution, and the Power Platform claim |
| `ExclusiveExecution` | the abstract promise of the claim: a job is open, held or done, at most one worker is inside, and it is won at most once |
| `ApprovalGateProofs` | the invariant, the properties and the refinement, proved |
| `EventDelivery`, `MCEventDelivery` | the dispatcher and its retries; the MC module names two agents, one depending on the other |
| `EventDeliveryProofs` | its invariant and properties, proved |
| `IngestionPoll`, `IngestionPollProofs` | the poll lease and the sweep; proofs |
| `SmartAction`, `MCSmartAction` | smart actions, their approvals and their completion |
| `SmartActionProofs` | its invariant and properties, proved |
| `AgentRun` | agent runs; extends `SmartAction` and composes with it, and is shown to implement it |
| `AgentRunProofs` | the refinement, and its invariants and properties, proved |
| `Principals`, `MCPrincipals`, `PrincipalsProofs` | principals, roles, credentials, sessions, capability grants; proofs |
| `TicketSink`, `MCTicketSink`, `TicketSinkProofs` | the ticket sink, the mappings and the quarantine; proofs |
| `FounderScan`, `FounderScanProofs` | the polling of founder scans by the scheduler and by watchers; proofs |

### ApprovalGate

`approval`, `overdue` and `workflow` are the row, its deadline and the linked run.
`worker` holds where each thread or process is in its handler, and its locals.
`applied`, `succeeded`, `reviewed` and `written` record what happened at the
provider and at each approval; no action's guard reads them, except that
`MaxApplied` bounds `applied`.

Python's `sqlite3` opens a transaction at the first write, so the SELECT at the
head of a store method is outside the transaction that follows: `DecideSelect` and
`DecideCommit`, `EditSelect` and `EditCommit`, `RecordSelect` and `RecordCommit`,
`ReadOverdue` and `Expire` are the two halves of one method. A method that sees an
overdue pending row begins its transaction with the expiry UPDATE and tests the
outcome; `lapsed` remembers that it did. When the test raises, the expiry is rolled
back with the rest (`DecideRollback`, `EditRollback`, the refusal in
`RecordCommit`). `claim_approval_execution` rests on one conditional UPDATE and is
one step.

| Action | Code |
|---|---|
| `Create`, `Link` | `create_approval_request`; `create_workflow_run`, which `run_workflow_template` calls afterwards |
| `ReadOverdue`, `Expire` | `get_approval_request`, `list_approval_requests`, `_expire_approval_request` |
| `Decide...` | the decision endpoint and command, `update_approval_request` |
| `Edit...` | `update_halopsa_approval_fields`, `update_connectwise_approval_fields`, `update_approval_request_payload` |
| `ExecuteDecided` | the execution the decision endpoint appends for PSA and M365 requests |
| `Execute` | the execute endpoints and commands with their checks (`PriorStateAllows` has one conjunct per execute function that has a check) |
| `ExecuteFromCli` | `execute-stage` and `execute-rollback` of the CLI |
| `Claim` | `claim_approval_execution` |
| `CallBlocked`, `CallFailed`, `CallTimesOut`, `CallSucceeds` | what `execute_write`, the Graph clients, `pac` and the runbook runner may answer; a lost answer is a failed result of a write that took effect; a runbook that is refused, and an M365 action whose payload or vault entry is, raise and record nothing |
| `Record...` | `record_approval_execution` |
| `Crash` | the death of a thread or process; SQLite discards its open transaction |

Payloads are version numbers, comments and results are left out, and the tenant
and role checks in front of the handlers only remove behaviours. A request's
ticket is taken not to be quarantined.

### EventDelivery

The rows are the deliveries of one event type for one ticket (what run-once and
dependencies look at). A worker's record is the locals of `_process_delivery`.
`MatchFirst` and `MatchRetry` select the agents, with any set of eligible ones
since definitions may be edited between passes; `Skip`, `Defer` and `Run` are one
iteration of the loop, in any order; `NextRound` and `AgentsDone` its end;
`RunPlaybook` the second loop; `Finish` the UPDATE. `Claim` is
`claim_event_delivery_retry`, reached through `OperatorRetry` or `RetryDue`. An
attempt is "pending" for every result that is not "completed", as in the code.

### IngestionPoll

One connector instance. The lease's transactions are BEGIN IMMEDIATE and so single
steps; the check before a page is a read of its own. A worker stands for the token
of its current poll. `WritePage` ends the sweep when the page is committed and
seeding the operational graph then raises. `clock` counts clean finishes, so that
`last_synced_at` can be compared, and `seen` records what a sweep met: dropped rows or
transient failures ("trouble") on any page, and the empty page. Deadlines, throttling and
retries of a fetch are the results it may have (`transient`, `FetchFails`).

### SmartAction

`request` and `run` are the two rows of a gated invocation, `overdue` the deadline.
`worker` is where a thread is in a service call and `returned` what its last call
answered, for the module that composes with this one. `ranFor`, `tools`, `reported`
and `decided` record for whom and how often the approved tool ran, what it reported and what
was decided. The draft an invocation makes (`smart_actions.py:9262`) is not counted. It is a
run of the tool without `_approval_completed`: a tool whose manifest demands the approval
then only describes what it would do, but one that is gated by the approval policy of an
agent alone (`require_approval`) does all of its work in the draft, before the approval.
What is said here of tools is about the run after the approval. The statuses a
tool may report are "success" and "failed", which stands for `provider_not_configured` too;
`complete_smart_action_run` refuses any other (`store.py:8078`), and no tool of the registry
reports one.

| Action | Code |
|---|---|
| `InvokeGated`, `InvokeDirect` | `invoke`: the two rows of `create_pending_smart_action`; a direct or failed result stored by `_persist_result` |
| `ReadOverdue`, `Expire` | `get_approval_request`, `list_approval_requests`, `_expire_approval_request` |
| `UpdateApproval`, `DecideCommit`, `DecideRollback` | `update_approval` and the store's `update_approval_request`; goes on to the completion |
| `CompleteApproval`, `CompleteForSession` | `complete_approval` called by `AgentService.resume` and by an iteration session |
| `CompleteRead` | its reads and branches: expired, self-approval, rejected, still pending, already run, role |
| `Tool`, `RecordSelect`, `RecordCommit` | the tool, and `complete_smart_action_run` |
| `CancelDecision` | the rejection `AgentService.cancel` makes in the name of the system |

`update_approval` reads the row twice. An overdue row that the first read sees is
expired by it (`ReadOverdue`, `Expire`); `UpdateApproval` on an overdue row is the
one that became overdue between the reads, whose transaction is rolled back. The
ticket of a request is taken not to be quarantined, and tools stay registered.

### AgentRun

`agent` is the `agent_runs` row and `caller` the locals of a handler. A worker is a
stack: `caller[w]` in `AgentService`, `worker[w]` in the service call made from
there. The parameters describe one definition: which steps need approval, retry or
fall back, and whether it is result-aware. `RunAgent` and `RetryAgent` create rows;
`Attempt`, `SkipAttempted`, `RetryStep`, `StepDone`, `FallBack`, `GiveUp`, `Pause`, `TimesOut`
and `LoopEnds` are the loops of `_continue` and `_continue_result_aware`;
`Resume...` and `Cancel...` the handlers of those names; `Inbox` decides approvals behind the
agent's back. An invocation may raise (`InvokeRaises`: a reserved payload field, an expiry out
of range, a quarantined ticket); `agents.py:1113` catches only a KeyError, so the error leaves
the loop (`Unwinds`) and the row stays as it was last written. `update_agent_run` overwrites the row with the copy. The model that
picks the next tool of a result-aware run may pick any candidate.

### Principals

Each table is a variable. A method with checks is a `Begin` and a `...Commit`; one
whose UPDATE stands alone is one step. `GuardPasses` is `_guard_last_msp_admin`.
The refusals of acting on oneself are left out because the bootstrap operator and
the CLI have no such refusal, and display names and external identities because nothing
here depends on them.

### TicketSink

`tables` holds tickets and open unmapped records. A batch is a BEGIN IMMEDIATE
transaction, taken record by record on a draft that commits or is dropped; no
other write happens while it is open (`Unlocked`). A verification reads before its
write lock. `manual` remembers tickets an operator assigned, which are the
exception to the rule on owners: `reclassify_quarantined_ticket` takes any held
ticket, although its docstring (`store.py:2889`) and
`docs/concepts/clients-and-connectors.md:140` speak of legacy tickets without
provenance.

### FounderScan

`row` is the `founder_artifacts` row, `scans` counts the scans Launch Passport made.
Timestamps are kept as what the code asks of them: `due` (has `next_attempt_at`
come), `late` (is `max_duration` over since the scan was queued) and the age of a claim.

| Action | Code |
|---|---|
| `SaveArtifact`, `LaunchScan`, `QueueScan` | `save_founder_artifact`; the remote call of `open_founder_launch_scan` and the UPDATE after it |
| `Tick`, `Watch` | the scheduler's job; `watch_founder_scan` of the CLI |
| `ReadRow`, `Claim`, `Poll`, `Persist`, `Release` | `advance_founder_scan_once`, step by step |
| `PollRaises` | an error inside the claimed `try`: the claim is released, nothing is written |
| `GiveUp` | its two exits that write without a claim: safe mode, and a spent budget |
| `BecomesDue`, `BecomesLate`, `ClaimAges`, `Crash` | time, and the death of a process |

A claim may pass its 120 seconds at any time, under a living poll too: requests have
timeouts of 30 seconds and are retried, and a poll makes two. `overrun` remembers the
artifacts this happened to, until the last poll that was inside has left, and `bare` those
whose end was written without a claim while a poll was about to write. The
bundle, the preview an upload needs, reports, watches without an artifact and
watchers with larger bounds than the scheduler's are left out.

## Runs

| Run | Bounds | Checks |
|---|---|---|
| `GateSequential` | 1 request of any kind, 1 worker, 2 edits, 2 effects, CLI included; 1,334 states | handlers that do not overlap: `SucceedsOnce`, `WritesWhatWasApproved`, `RunFollowsDecision`, `DecisionIsFinal`, and under fairness `ClaimIsSettled` |
| `GateConcurrent` | 1 request of any kind, 2 workers with crashes; 480,937 states | `IndInv`, `ClaimExcludes`, `ClaimedSucceedsOnce`, `ClaimedRowIsTruthful`, `WrittenOnlyIfApproved`, and the refinement `ImplementsReservation` |
| `EventConcurrent` | 2 deliveries, 2 agents, 1 playbook, 1 retry, 2 workers with crashes; 1,268,515 states | `NotReplayed`, `RunsBounded`, `CompletedIsClean`, `CompletedIsFinal` |
| `EventSettles` | the same with 1 worker and no crash; 114,002 states | `Settles` |
| `PollFaults` | 2 workers, 2 pages, 2 clean finishes, 2 faults; 556,788 states | `StaleWritesBounded`, `LeaseRespected`, `FencedFinish`, `IdleIsClean`, `LeaseReleased` |
| `SmartConcurrent` | 1 request, 2 people, one an administrator, 2 workers with crashes; 1,438,782 states | `RunsForAuthorized`, `OutcomeIsBacked` |
| `AgentCrashes` | 2 runs of 2 steps, the second gated and retried, the first falling back to it; 2 smart actions, 1 worker with crashes; 255,585 states | `AgentTypeOK`, `CancelRevokes`, `AgreesWithDecision`, `FinishedIsQuiet`, `OutcomeIsFinal` |
| `AgentSettles` | 3 steps, the first and the last gated, the second retried, the first falling back to it; ordinary and result-aware, 1 run, 4 smart actions, no crash; 161,625 states | `CompletedRanEveryStep`, `RunSettles`, and the refinement `ImplementsSmartAction` |
| `Principals` | 2 principals, 2 clients, 2 credentials, 1 session, 1 worker; 1,397,525 states | `PrincipalsInv`, `InactiveIsShutOut`, `ConfinedToItsClient`, `AdminRemains` |
| `TicketSink` | 2 clients, 2 companies, 1 ticket, 2 workers; 97,182 states | `OwnersFollowMappings`, `OwnerIsKept` |
| `FounderScan` | 1 artifact, 2 scans, the scheduler and a watcher, 2 attempts, 1 crash or error inside a poll, claims that age at any time; 584,195 states | `PollsExclude`, `EndedStaysEnded`, and under fairness `ScanSettles` |

Why the bounds are enough to meet the interesting cases. No handler touches two
requests, so requests do not interact and one is enough; two workers make every
race between a SELECT and a write; two effects and two edits make a second write
and a payload that differs from the approved one. Two deliveries are what run-once
and dependencies across deliveries need; one retry makes a first pass, a retry and
an exhausted counter. Two pages make a degradation on one page and a clean end
after it, and a stale write after a good one; two faults make a crash and another
one during recovery. Smart actions do not interact, so one is enough under two
overlapping workers; agent runs need two, for a retry and for a second pause. Two
principals make an administrator and the one who remains; two companies and two
clients make every conflict over one ticket. Polls of two artifacts share only the
scheduler's turn; two scans make a watcher of the older one, and two attempts a poll
before the last. What the theorems cover holds beyond these bounds.

Deadlock is checked in the poll runs. The other systems may stop: a request may
stay undecided, a delivery that used up its retries rests, and ids run out.

`PowerCli` says whether the CLI commands that bypass the claim are used. The claim
is a promise about the endpoints; with the commands it is not kept.

### Disagreements with the documentation and the tests

One run checks what a test says, and TLC finds a behaviour of the code that breaks
it.

| Run | Sentence | What happens |
|---|---|---|
| `AgentRejected` | `tests/test_agents.py:2286` `test_agent_runtime_timeout_and_rejected_approval_are_terminal` | The test replaces `complete_approval` by a stub that answers "rejected". The real one raises for an approval the inbox rejected. In TLC's trace the requester rejects its own request: the rejection is stored, the self-approval check then raises, and the smart-action run stays `pending_approval`; when somebody else resumes, the completion is refused because he is not the approver (`store.py:8096`), and the agent run stays `pending_approval`. If somebody else rejects, the smart-action run is completed at once and a resumption is refused for that (`store.py:8077`), a longer trace with the same end. |

Further definitions state a sentence of the documentation or of a docstring, or what one would
expect of the code, and do not hold either. Each can be checked by naming it in a cfg of its
module's runs:

| Definition | Sentence | What happens |
|---|---|---|
| `ApprovalGate!ExecutedOnce`, two workers | `docs/concepts/security-model.md:321` "Any physically executed outcome cannot be executed again." | Two overlapping executions both pass the check on `execution_status` and both write. |
| `ApprovalGate!EditedOnlyWhilePending`, two workers | `docs/concepts/security-model.md:314` "Technician may edit only the fields payload while pending." | The edit's check precedes its transaction; a decision commits in between. |
| `ApprovalGate!NotRunWhenTerminal`, `PowerCli = TRUE` | `docs/consultant/consultant-power-platform-deployment.md:53` "The CLI exposes the same boundary:", with `tests/test_consultant_routes.py:1262` | The CLI neither checks the prior execution nor claims. |
| `EventDelivery!RunOncePerEntity` | `docs/concepts/architecture.md:293` "run-once-per-entity protection" | A skipped agent leaves no attempt; when the delivery's playbook fails, the retry takes all listed agents for failed and runs it. |
| `EventDelivery!WaitsForUpstream` | `docs/concepts/architecture.md:299` "waits for upstream completion" | A delivery whose agents paused for approval is completed, and so counts its agents as completed. |
| `IngestionPoll!SyncTimeKept` | `docs/concepts/clients-and-connectors.md:98` "Degraded and failed finishes preserve the historical successful sync time" | The cursor is read before the claim; a clean finish in between is overwritten with the older time. |
| `FounderScan!ResultKept` | `store.py:10927` "Claim one poll briefly so a CLI watcher and scheduler do not race." | A caller whose budget is spent writes `timed_out` without a claim, over the result another poll has just stored. |
| `FounderScan!EndIsFinal` | the same | The `timed_out` written without a claim (`api/founder.py:638`) is put back to `running` by the poll that is inside. |
| `AgentRun!QueuedRunSettles` | none: every queued run finishes or pauses | An invocation raises something else than a KeyError (`agents.py:1113`, `smart_actions.py:9194`); the row stays `queued` until somebody cancels it. |
| `SmartAction!ToolRunsOnce`, one worker, no crash | none: the tool of a request runs at most once | The requester's approval of its own request is stored and then refused; each resumption by somebody else runs the tool and is refused only when it records the result (`store.py:8096`). |

The properties of `GateSequential` are stated for handlers that do not overlap
because the code keeps them only then. With two workers a decision whose SELECT
preceded the deadline can approve a row that has expired (`store.py:5853`), and an
expiry that lost the race to a decision still rejects the workflow run of the
approved request (`store.py:4446`). For the same reason the runs of `AgentRun` and
`Principals` have one worker. With two, one of two overlapping completions can
overwrite the outcome of the other (`OutcomeIsFinal`, `AgreesWithDecision`), a resumption can
revive a run that was cancelled meanwhile (`FinishedIsQuiet`), both of the last two
administrators can be removed (`AdminRemains`), and a credential or session can be issued to
a principal that is just being deactivated (`InactiveIsShutOut`). So these runs say nothing of
the overlaps their hazards name. Crashes they do cover: the properties named in
this paragraph hold when a worker dies between two steps, and of those of `GateSequential` all
but `SucceedsOnce` do, since a worker that dies after the provider's success and before the
UPDATE leaves a row that lets the next execution through. `CancelRevokes` speaks of approvals
the row of the run knows of; one whose handler died before it recorded the pause is not among them. `CompletedRanEveryStep` names two exceptions the code makes. Where a step falls
back to a gated tool further down, the resumption continues behind that tool, and the
steps in between are never run (`FallbackSkips`; 3 steps, `GatedSteps = {3}`,
`FallbackFrom = 1`, `FallbackTo = 3` show it). And a result-aware run completes when it
has used up `max_steps`, whatever is left. `PollsExclude` excepts
artifacts a poll of which outlived its claim: the claim is then taken over, and the release of
the first poll frees the claim of the second. `EndedStaysEnded` excepts these and the ends that
were written without a claim during a poll.

## Fairness

`ClaimIsSettled` assumes that a handler that has started runs to its end (its
thread is scheduled and every provider call has a timeout) and that no process
dies. `Settles` assumes the same of a pass, and that the retry worker, an interval
job of the scheduler, comes back to each due delivery; its batch limit takes due
deliveries in order, so none is passed over for ever. `LeaseReleased` assumes that
the `connector_poll` job recurs, that polls go on, and that time passes;
it is stated for sweeps that end within their lease, which the bounds of
`_validate_bounds` are for. Crashes are allowed there: that is what it is about. `RunSettles` assumes that an
agent handler that has begun runs to its end, for each worker, and no more: nobody
needs to resume or cancel anything. It is stated for runs none of whose invocations raises;
that one raises is possible at any invocation and never owed. `ScanSettles` assumes that a poll that has begun
goes on unless its process dies, that the scheduler's job recurs, and that time passes;
there are finitely many crashes and scans. Errors inside a poll are counted with the crashes:
such an attempt is not counted, and a row without a launch is ended by nothing else in the
model, while in the code its `max_duration` ends it.

## Proofs

The theorems hold for any sets of requests, workers, deliveries, agents and
playbooks and any bounds, from the named assumptions `BoundsAssumption`,
`EventAssumption`, `PollAssumption`, `PeopleAssumption`, `SystemAssumption`,
`ReservedAssumption`, `FounderAssumption`, `DefinitionAssumption` and `NamesAssumption`, which
only type the constants and keep the reserved names apart. `DefinitionAssumption` also takes
over what `_validate_definition` of `agents.py` demands (`max_steps` covers the steps, a step
has one failure policy), and `NamesAssumption` says that the sets whose rows the code counts are
finite. A theorem about calls that do not overlap has, in `SmartAction`, `AgentRun` and
`Principals`, the hypothesis `OneAtATime`, that there is at most one worker. It is what the runs
of these properties have, and with two workers the properties fail (see above); everything else
in them stays arbitrary. Such a theorem is still about many calls on many rows, in every order,
and where the module has crashes a call may be broken off anywhere. In `ApprovalGate` the
hypothesis is weaker, `[]Apart`: no two handlers of the same request are under way. Any number
of workers may be busy with different requests.

*ApprovalGate.* `ClaimExcludes` is not inductive: it does not say that a worker
which is about to record carries what happened. `IndInv` adds that every handler
carries what its label needs for a request that exists (`FramesOK`), that a
request which is approved, past its checks or written was approved at some moment
(`ApprovedOK`), and that for a claimed request the row, the history and the only
worker inside agree (`ClaimOK`): the row says "running" exactly as long as a second
claim must fail, and the worker's result is "succeeded" if and only if the history
has a success. The last part needs that the CLI does not bypass the claim, so the
theorems about claims assume `~PowerCli`; `ApprovalBeforeWrite` and `TypeCorrect`
do not. `ClaimImplementsReservation` maps `running` to held, the terminal statuses
to done and everything else to open, and shows each step to be a step of
`ExclusiveExecution` or a stutter.

For handlers of one request that do not overlap, `SerialInv` adds that what a handler selected
is still so when it writes (`StillTrue`: a row read as pending is pending, the payload about to be
sent is one that was reviewed) and that the rows agree with the history and the linked run
(`RowAgrees`). A step of a handler touches nothing the others look at (`Untouched`), so their part
of the invariant is kept. `ApprovedPayloadIsWritten`, `RunShowsDecision` and `DecisionsAreFinal`
follow, crashes included. For `CheckedSucceedOnce`, `OnceInv` says that a request that has
succeeded shows it in its row or has a handler that is about to record it (`Shown`), and that
this handler's record will not be refused (`AnswerStands`), so that the check on
`execution_status` never meets a success it cannot see. The theorem has `[]Apart` and one more
hypothesis, that no worker dies with a success it has not recorded (`LosesSuccess`). Both are
needed (two overlapping executions, or that crash, make two successes), and the theorem says
that there is no third way.

*EventDelivery.* `NotReplayed` rests on memory: a run that returned is remembered by
the attempts of the failed row, or by the only pass over the delivery (`FailedOK`,
`PassesOK`, `OneProcessor`), and no pass has an agent ahead of it that returned.
`RunsBounded` follows from the same invariant, since a pass may run each agent once
and every pass but the first has raised the count. `CompletedIsClean` is about what a pass
forgets: the status is computed from the errors of the pass, while the attempts carry failures of
earlier ones. `CleanInv` says that every agent whose last attempt failed is an error of the
pass under way or still ahead of it (`KnowsErrors`), so a pass without errors has none left.

*IngestionPoll.* A poll that wrote a page without the lease cannot get it back, so
the check before the next page stops it (`StaleOK`). `RowSteps` says that the token
changes only by a claim of a lease that is not live or by a finish of its owner;
`LiveLeaseKept` and `FinishIsFenced` follow. `IdleAfterCleanSweep` compares the row with what the
sweep met (`seen`): `CleanOK` says that until it ends a sweep has met no empty page and remembers
any trouble, and that one about to finish as idle met an empty page and nothing else; by
`StaleOK` it wrote no page without its lease if it still has it.

*SmartAction.* What a completion read may be out of date when the tool runs, so
`RunsForAuthorized` cannot rest on the rows. `FrameOK` therefore says of each label
only what no other worker can take back: that a decision was made, a deadline
passed or a tool reported something (these only grow), that the run has its actor and its
role (these never change), and who the caller is. The lemma `Grows` states this once,
one lemma per action carries the frames over it, and `RunsForAuthorized` and
`OutcomeIsBacked` are conjuncts of the invariant `SmartInv`. When calls do not overlap, what a
call read is still there when it writes (`StillTrue`), and a request that waits has a run that
waits (`WaitsTogether`); with these `SerialInv` proves `AgreesWithDecision` and `OutcomeIsFinal`.

*AgentRun.* `AgentInv` joins `SmartInv` with the shape of rows and handlers (`AgentShape`), for any
number of workers. Under it every step of an agent handler is a step of `SmartAction` or leaves
its variables alone, which is `AgentsImplementSmartAction`, so the theorems about smart actions
hold inside agent runs too: `AgentOutcomesAgree` and `AgentOutcomesAreFinal` are obtained so. `FinishedIsQuiet` and `CancelRevokes` need that the copy
of the row a handler works on is as good as the row: its run is not finished, its records name
invocations that exist, all of them decided but the pending one (`HandlerOK`); what a service call is about and what its answer
means (`CallOK`); and that no two runs record the same request (`RunsApart`), since a
decision on a shared one would run a tool of a finished run. `QuietInv` is their conjunction.
`NoStepIsLost` rests on `CoverInv`, the invariant of the loop: for some k the first k steps
are done and the queue holds the steps after k, with at most a fallback's target ahead of
them; a run that waits for an approval waits in the step after the ones that are done, which
is where a resumption goes on.

*Principals.* The guards count rows. The lemma `MoreThanOne` turns what the counts decide into
quantifiers, `FlatMeans` shows `PrincipalsInv` to be equivalent to `FlatInv`, and the rest works with
the latter. `Ready` says of each method between its checks and its commit that the checks
would still pass: another administrator remains before the last credential, role or activation of one is
removed, and a customer's new role or grant is for its only client. `AdministratorRemains` follows by
showing who remains for each of the four ways to lose an administrator.

*TicketSink.* A batch changes nothing but its draft until it commits, so
`OwnersFollowMappings` alone says nothing of the step that commits it. `SinkInv` adds
`DraftOK`: at most one batch is open, its draft follows the mappings as well, and
keeps every owner the tables have (nobody else writes while it is open). `RowsOK`
says that a stored ticket has a company. The lemma `OfferedIsGood` shows that
one more record keeps a draft good, `VerifyCommitStep` that a verification releases
all tickets it has to; `OwnerIsKept` then follows from the same invariant.

*FounderScan.* The claim names no owner, so what protects a poll is that it is the only
one inside. `FounderInv` says this together with its reason (`ClaimOK`): while a poll is
inside, the row's claim is held, so no second one begins, and the row has not ended before that
poll writes it, unless the claim was overrun or the end was written without one.
`EndedStaysEnded` follows because only a poll inside writes "running" (`FramesOK`). The theorems
have no hypothesis: claims age, polls fail and processes die at any moment.

All invariants named here are proved to be inductive, `CoverInv` together with `QuietInv`;
`IndInv` and `PrincipalsInv` are checked in a run as well. Every safety property and every
refinement of a passing run is a theorem.

Model-checked only: the liveness properties (`ClaimIsSettled`, `Settles`, `LeaseReleased`,
`RunSettles`, `ScanSettles`), which are out of the prover's reach, and the violation that
`AgentRejected` finds.

## Not modelled

The components listed as left out in the inventory; of the modelled ones: dry runs and
refused invocations of smart actions, which write an audit row; the revisions of agent
definitions (a run keeps its own); tickets ingested locally, whose upsert is guarded by a
SELECT of its own (`store.py:4816`); external identities of principals; the
quarantine test before a completion, which leaves the approval as it is. Supervisor delegation, playbooks and the scheduler
compose the handlers above one after the other and add no shared state of
their own but a checkpoint.

## Plan

1. Agent backfills on top of `AgentRun`: the worker of `_process_backfill` against pause,
   cancel and a second worker.
2. `IterationSession`: versions, and approvals consumed once; the preview an upload of a
   founder artifact needs.
3. `EventDelivery` with the runs of `AgentRun` in place of their results, and
   `IngestionPoll` with `TicketSink`, so that a stale page meets a real sink.
4. Proofs: what `Apart` does for `ApprovalGate` done for `SmartAction` and `AgentRun`, whose
   theorems about calls that do not overlap still assume one worker.
