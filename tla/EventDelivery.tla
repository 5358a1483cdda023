--------------------------- MODULE EventDelivery ----------------------------
(***************************************************************************)
(* EventDispatcher and the event_deliveries table: the deliveries of one   *)
(* event type for one ticket, each with its own idempotency key, the       *)
(* agents and the playbook subscriptions that match them, and the retries. *)
(*                                                                         *)
(* A delivery is processed by the thread that inserted it (the webhook,    *)
(* the CLI, the scheduler) or that claimed its retry (an operator, the     *)
(* retry worker).  The pass works on locals, reads the table to decide     *)
(* whether an agent runs, and writes the row once, at its end.  Agent and  *)
(* playbook runs touch no delivery, so a run and what precedes it in its   *)
(* iteration are one step.                                                 *)
(***************************************************************************)
EXTENDS Naturals, FiniteSets

CONSTANTS
  Deliveries,   \* idempotency keys
  Agents,       \* event-triggered agent definitions
  Playbooks,    \* playbook subscriptions of the client
  RunOnce,      \* agents with run_once_per_entity
  DependsOn,    \* depends_on_agent_ids of every agent
  MaxRetries,   \* max_retries of every delivery
  Workers,      \* threads and processes that dispatch or retry
  Crashes       \* TRUE: a worker may die during a pass

ASSUME EventAssumption ==
  /\ Deliveries # {}
  /\ RunOnce \subseteq Agents
  /\ DependsOn \in [Agents -> SUBSET Agents]
  /\ MaxRetries \in Nat
  /\ Crashes \in BOOLEAN

VARIABLES
  delivery,   \* the rows
  worker,     \* the pass each worker is in
  runs,       \* history: runs of an agent for a delivery
  returned,   \* history: those that returned a result
  completed   \* history: <<delivery, agent>> of the runs that completed

vars == <<delivery, worker, runs, returned, completed>>
history == <<runs, returned, completed>>

RowStatuses == {"absent", "received", "retrying", "completed", "failed"}

\* "none": no entry in agent_attempts.  "pending" is every result of a run
\* that is not "completed": it waits for an approval, or it failed.
AttemptStatuses == {"none", "completed", "pending", "failed", "blocked"}
Attempts == [Agents -> AttemptStatuses]
PlayAttempts == [Playbooks -> AttemptStatuses]

\* Mutant: runs that wait for an approval are retried too.
MutRetryable == {"failed", "blocked", "pending"}

\* The attempts a retry repeats.
Retryable == {"failed", "blocked"}

\* agents is agent_ids_json, scheduled says that next_retry_at is set.
RowType == [status: RowStatuses, agents: SUBSET Agents, attempts: Attempts,
            plays: PlayAttempts, count: 0..MaxRetries, scheduled: BOOLEAN]

\* The locals of _process_delivery; pending and deferred are the pending and
\* next_pending lists, todo the subscriptions still to run.
PassType == [at: {"idle", "match", "agents", "playbooks"}, row: Deliveries,
             retry: BOOLEAN, matched: SUBSET Agents, attempts: Attempts,
             done: SUBSET Agents, pending: SUBSET Agents,
             deferred: SUBSET Agents, progressed: BOOLEAN, errors: BOOLEAN,
             plays: PlayAttempts, todo: SUBSET Playbooks]

NoAttempts == [a \in Agents |-> "none"]
NoPlays == [p \in Playbooks |-> "none"]

\* A pass over a row before the definitions are matched, and no pass.
Pass(at, d, retry) ==
  [at |-> at, row |-> d, retry |-> retry, matched |-> {},
   attempts |-> NoAttempts, done |-> {}, pending |-> {}, deferred |-> {},
   progressed |-> FALSE, errors |-> FALSE, plays |-> NoPlays, todo |-> {}]
Idle == Pass("idle", CHOOSE d \in Deliveries : TRUE, FALSE)

Init ==
  /\ delivery = [d \in Deliveries |->
       [status |-> "absent", agents |-> {}, attempts |-> NoAttempts,
        plays |-> NoPlays, count |-> 0, scheduled |-> FALSE]]
  /\ worker = [w \in Workers |-> Idle]
  /\ runs = [d \in Deliveries |-> [a \in Agents |-> 0]]
  /\ returned = [d \in Deliveries |-> [a \in Agents |-> 0]]
  /\ completed = {}

-----------------------------------------------------------------------------
IsIdle(w) == worker[w].at = "idle"
Goto(w, pass) == worker' = [worker EXCEPT ![w] = pass]

\* has_event_agent_run and has_completed_event_agent_run.
HasRun(a) ==
  \E d \in Deliveries : delivery[d].status \in {"completed", "failed"} /\ a \in delivery[d].agents
HasCompleted(a) ==
  \E d \in Deliveries : delivery[d].status = "completed" /\ a \in delivery[d].agents

\* An agent skipped because it has already run for the ticket.
SkippedOnce(pass, a) == ~pass.retry /\ a \in RunOnce /\ HasRun(a)

\* The dependencies of an agent that are not completed.
Unmet(pass, a) == {b \in DependsOn[a] : b \notin pass.done /\ ~HasCompleted(b)}

-----------------------------------------------------------------------------
\* dispatch: create_event_delivery inserts the row.  A key that is already
\* there returns the stored result and changes nothing.
Receive(w, d) ==
  /\ IsIdle(w)
  /\ delivery[d].status = "absent"
  /\ delivery' = [delivery EXCEPT ![d].status = "received"]
  /\ Goto(w, Pass("match", d, FALSE))
  /\ UNCHANGED history

\* Mutant: a claim is not counted.
MutClaimUncounted(w, d) ==
  /\ IsIdle(w)
  /\ delivery[d].status = "failed"
  /\ delivery[d].count < MaxRetries
  /\ delivery' = [delivery EXCEPT ![d].status = "retrying", ![d].scheduled = FALSE]
  /\ Goto(w, Pass("match", d, TRUE))
  /\ UNCHANGED history

\* Mutant: a completed delivery may be claimed.
MutClaimCompleted(w, d) ==
  /\ IsIdle(w)
  /\ delivery[d].status \in {"failed", "completed"}
  /\ delivery[d].count < MaxRetries
  /\ delivery' = [delivery EXCEPT ![d].status = "retrying", ![d].count = @ + 1,
                                  ![d].scheduled = FALSE]
  /\ Goto(w, Pass("match", d, TRUE))
  /\ UNCHANGED history

\* claim_event_delivery_retry: one conditional UPDATE.
Claim(w, d) ==
  /\ IsIdle(w)
  /\ delivery[d].status = "failed"
  /\ delivery[d].count < MaxRetries
  /\ delivery' = [delivery EXCEPT ![d].status = "retrying", ![d].count = @ + 1,
                                  ![d].scheduled = FALSE]
  /\ Goto(w, Pass("match", d, TRUE))
  /\ UNCHANGED history

\* POST /automation/event-deliveries/{id}/retry.
OperatorRetry(w, d) == Claim(w, d)

\* retry_due, for a delivery whose next_retry_at has come.
RetryDue(w, d) == delivery[d].scheduled /\ Claim(w, d)

\* The attempts a retry starts from: a row without any counts all its agents
\* as failed.
PriorAttempts(row) ==
  IF row.attempts = NoAttempts
    THEN [a \in Agents |-> IF a \in row.agents THEN "failed" ELSE "none"]
    ELSE row.attempts

\* The first pass takes every enabled agent whose filters match.
MatchFirst(w, matching) ==
  /\ worker[w].at = "match"
  /\ ~worker[w].retry
  /\ Goto(w, [worker[w] EXCEPT !.at = "agents", !.matched = matching, !.pending = matching])
  /\ UNCHANGED <<delivery, history>>

\* A retry takes the failed and blocked ones that still match; the others
\* are errors.
MatchRetry(w, matching) ==
  LET row == delivery[worker[w].row]
      prior == PriorAttempts(row)
      retryable == {a \in Agents : prior[a] \in Retryable}
  IN  /\ worker[w].at = "match"
      /\ worker[w].retry
      /\ Goto(w, [worker[w] EXCEPT
                    !.at = "agents",
                    !.matched = row.agents,
                    !.attempts = [a \in Agents |-> IF a \in retryable \ matching THEN "failed" ELSE prior[a]],
                    !.done = {a \in Agents : prior[a] = "completed"},
                    !.pending = retryable \cap matching,
                    !.errors = retryable \ matching # {},
                    !.plays = row.plays])
      /\ UNCHANGED <<delivery, history>>

\* One iteration over pending: the agent has run before ...
Skip(w, a) ==
  LET pass == worker[w]
  IN  /\ pass.at = "agents"
      /\ a \in pass.pending
      /\ SkippedOnce(pass, a)
      /\ Goto(w, [pass EXCEPT !.pending = pass.pending \ {a},
                              !.done = IF HasCompleted(a) THEN pass.done \cup {a} ELSE pass.done,
                              !.progressed = TRUE])
      /\ UNCHANGED <<delivery, history>>

\* ... or waits for another ...
Defer(w, a) ==
  LET pass == worker[w]
  IN  /\ pass.at = "agents"
      /\ a \in pass.pending
      /\ ~SkippedOnce(pass, a)
      /\ Unmet(pass, a) # {}
      /\ Goto(w, [pass EXCEPT !.pending = pass.pending \ {a},
                              !.deferred = pass.deferred \cup {a}])
      /\ UNCHANGED <<delivery, history>>

\* ... or runs: it completes, ends otherwise ("pending") or raises ("failed").
Run(w, a, outcome) ==
  LET pass == worker[w]
      d == pass.row
  IN  /\ pass.at = "agents"
      /\ a \in pass.pending
      /\ ~SkippedOnce(pass, a)
      /\ Unmet(pass, a) = {}
      /\ Goto(w, [pass EXCEPT
                    !.pending = pass.pending \ {a},
                    !.attempts = [pass.attempts EXCEPT ![a] = outcome],
                    !.done = IF outcome = "completed" THEN pass.done \cup {a} ELSE pass.done,
                    !.progressed = TRUE,
                    !.errors = pass.errors \/ outcome = "failed"])
      /\ runs' = [runs EXCEPT ![d][a] = @ + 1]
      /\ returned' = IF outcome = "failed" THEN returned ELSE [returned EXCEPT ![d][a] = @ + 1]
      /\ completed' = IF outcome = "completed" THEN completed \cup {<<d, a>>} ELSE completed
      /\ UNCHANGED delivery

\* The deferred agents are tried again while something progressed.
NextRound(w) ==
  LET pass == worker[w]
  IN  /\ pass.at = "agents"
      /\ pass.pending = {}
      /\ pass.deferred # {}
      /\ pass.progressed
      /\ Goto(w, [pass EXCEPT !.pending = pass.deferred, !.deferred = {}, !.progressed = FALSE])
      /\ UNCHANGED <<delivery, history>>

\* Mutant: what stays deferred is blocked without an error.
MutAgentsDone(w, enabled) ==
  LET pass == worker[w]
  IN  /\ pass.at = "agents"
      /\ pass.pending = {}
      /\ pass.deferred = {} \/ ~pass.progressed
      /\ Goto(w, [pass EXCEPT
                    !.at = "playbooks",
                    !.attempts = [a \in Agents |-> IF a \in pass.deferred THEN "blocked" ELSE pass.attempts[a]],
                    !.todo = {p \in enabled : pass.retry => pass.plays[p] \in Retryable}])
      /\ UNCHANGED <<delivery, history>>

\* Otherwise they are blocked.  The enabled subscriptions follow, on a retry
\* those that failed.
AgentsDone(w, enabled) ==
  LET pass == worker[w]
  IN  /\ pass.at = "agents"
      /\ pass.pending = {}
      /\ pass.deferred = {} \/ ~pass.progressed
      /\ Goto(w, [pass EXCEPT
                    !.at = "playbooks",
                    !.attempts = [a \in Agents |-> IF a \in pass.deferred THEN "blocked" ELSE pass.attempts[a]],
                    !.errors = pass.errors \/ pass.deferred # {},
                    !.todo = {p \in enabled : pass.retry => pass.plays[p] \in Retryable}])
      /\ UNCHANGED <<delivery, history>>

\* run_msp_playbook for one subscription.
RunPlaybook(w, p, outcome) ==
  LET pass == worker[w]
  IN  /\ pass.at = "playbooks"
      /\ p \in pass.todo
      /\ Goto(w, [pass EXCEPT !.todo = pass.todo \ {p},
                              !.plays = [pass.plays EXCEPT ![p] = outcome],
                              !.errors = pass.errors \/ outcome = "failed"])
      /\ UNCHANGED <<delivery, history>>

\* The status a pass ends with.
Outcome(pass) == IF pass.errors THEN "failed" ELSE "completed"

\* Mutant: the last retry is not scheduled.
MutFinish(w) ==
  LET pass == worker[w]
      row == delivery[pass.row]
  IN  /\ pass.at = "playbooks"
      /\ pass.todo = {}
      /\ delivery' = [delivery EXCEPT ![pass.row] =
           [status |-> Outcome(pass), agents |-> pass.matched, attempts |-> pass.attempts,
            plays |-> pass.plays, count |-> row.count,
            scheduled |-> pass.errors /\ row.count + 1 < MaxRetries]]
      /\ Goto(w, Idle)
      /\ UNCHANGED history

\* update_event_delivery, by id alone.
Finish(w) ==
  LET pass == worker[w]
      row == delivery[pass.row]
  IN  /\ pass.at = "playbooks"
      /\ pass.todo = {}
      /\ delivery' = [delivery EXCEPT ![pass.row] =
           [status |-> Outcome(pass), agents |-> pass.matched, attempts |-> pass.attempts,
            plays |-> pass.plays, count |-> row.count,
            scheduled |-> pass.errors /\ row.count < MaxRetries]]
      /\ Goto(w, Idle)
      /\ UNCHANGED history

\* The process dies during a pass: nothing takes the delivery up again.
Crash(w) ==
  /\ Crashes
  /\ ~IsIdle(w)
  /\ Goto(w, Idle)
  /\ UNCHANGED <<delivery, history>>

Outcomes == {"completed", "pending", "failed"}

\* A pass that has begun goes on.
Step(w) ==
  \/ \E matching \in SUBSET Agents : MatchFirst(w, matching) \/ MatchRetry(w, matching)
  \/ \E a \in Agents : Skip(w, a) \/ Defer(w, a) \/ \E outcome \in Outcomes : Run(w, a, outcome)
  \/ NextRound(w)
  \/ \E enabled \in SUBSET Playbooks : AgentsDone(w, enabled)
  \/ \E p \in Playbooks, outcome \in Outcomes : RunPlaybook(w, p, outcome)
  \/ Finish(w)

Next ==
  \/ \E w \in Workers : Step(w) \/ Crash(w)
  \/ \E w \in Workers, d \in Deliveries : Receive(w, d) \/ OperatorRetry(w, d) \/ RetryDue(w, d)

Spec == Init /\ [][Next]_vars

\* A pass that has begun is run to its end by its thread, and the scheduler
\* runs the retry worker again and again.
FairSpec ==
  /\ Spec
  /\ \A w \in Workers : WF_vars(Step(w))
  /\ \A d \in Deliveries : WF_vars(\E w \in Workers : RetryDue(w, d))

-----------------------------------------------------------------------------
(***************************************************************************)
(* Properties under every interleaving of the workers, crashes included.   *)
(***************************************************************************)

\* The rows, the locals of every pass and the history have their types.
TypeOK ==
  /\ delivery \in [Deliveries -> RowType]
  /\ worker \in [Workers -> PassType]
  /\ runs \in [Deliveries -> [Agents -> Nat]]
  /\ returned \in [Deliveries -> [Agents -> Nat]]
  /\ completed \subseteq Deliveries \X Agents

\* The workers in a pass over a delivery.
Processing(d) == {w \in Workers : ~IsIdle(w) /\ worker[w].row = d}

\* create_event_delivery and claim_event_delivery_retry hand a delivery to
\* one worker: two never process it at once, and nobody processes a delivery
\* whose row shows an outcome.
OneProcessor ==
  \A d \in Deliveries : \A w1, w2 \in Processing(d) :
    w1 = w2 /\ delivery[d].status \in {"received", "retrying"}

\* Successful agent attempts are not replayed: an agent run that returned,
\* completed or waiting for an approval, is never repeated for the same
\* delivery, by no retry, no second worker and after no crash.
NotReplayed == \A d \in Deliveries, a \in Agents : returned[d][a] <= 1

\* Retries are capped: every run of an agent for a delivery but the first
\* is paid for by a claimed retry, of which there are at most MaxRetries.
RunsBounded == \A d \in Deliveries, a \in Agents : runs[d][a] <= delivery[d].count + 1

\* A delivery shown as completed has no failed or blocked agent: an agent
\* that fails, waits in vain for its dependencies or is no longer eligible
\* when it should be retried keeps the delivery failed.
CompletedIsClean ==
  \A d \in Deliveries : delivery[d].status = "completed" =>
    \A a \in Agents : delivery[d].attempts[a] \notin Retryable

\* The outcome of a completed delivery is final, although the UPDATE that
\* ends a pass tests nothing.
CompletedIsFinal ==
  [][\A d \in Deliveries :
       delivery[d].status = "completed" => delivery'[d] = delivery[d]]_vars

\* When no worker dies, every delivery is completed or has used up its
\* retries in the end: the retry worker finds each failed one again.
Settles ==
  \A d \in Deliveries :
    delivery[d].status # "absent" ~>
      \/ delivery[d].status = "completed"
      \/ delivery[d].status = "failed" /\ delivery[d].count = MaxRetries

-----------------------------------------------------------------------------
(***************************************************************************)
(* The inductive invariant behind NotReplayed and RunsBounded.             *)
(***************************************************************************)

\* A delivery nobody has received has no history.
FreshOK ==
  \A d \in Deliveries : delivery[d].status = "absent" =>
    \A a \in Agents : runs[d][a] = 0 /\ returned[d][a] = 0

\* The attempts of a row that may be claimed again remember what returned.
RemembersOK(d, attempts) ==
  \A a \in Agents : returned[d][a] > 0 => attempts[a] \in {"completed", "pending"}
FailedOK == \A d \in Deliveries : delivery[d].status = "failed" => RemembersOK(d, delivery[d].attempts)

\* A retry that has not matched yet finds that memory in the row, a first
\* pass has no history, and each has a run of every agent to spend ...
MatchOK(pass) ==
  pass.at = "match" =>
    /\ pass = Pass("match", pass.row, pass.retry)
    /\ pass.retry => RemembersOK(pass.row, delivery[pass.row].attempts)
    /\ ~pass.retry => \A a \in Agents : returned[pass.row][a] = 0
    /\ \A a \in Agents : runs[pass.row][a] <= delivery[pass.row].count

\* ... and afterwards carries it, and never has an agent that returned ahead.
AgentsOK(pass) ==
  pass.at \in {"agents", "playbooks"} =>
    /\ RemembersOK(pass.row, pass.attempts)
    /\ \A a \in pass.pending \cup pass.deferred :
         returned[pass.row][a] = 0 /\ runs[pass.row][a] <= delivery[pass.row].count

PassesOK == \A w \in Workers : MatchOK(worker[w]) /\ AgentsOK(worker[w])

\* The lists of a pass are disjoint, and empty once the agents are done.
ListsOK ==
  \A w \in Workers :
    /\ worker[w].pending \cap worker[w].deferred = {}
    /\ worker[w].at = "playbooks" => worker[w].pending = {}

\* Inductive: a retry never repeats a run that returned, because the row or
\* the only pass over it remembers the run.
EventInv ==
  /\ TypeOK /\ OneProcessor /\ NotReplayed /\ RunsBounded
  /\ FreshOK /\ FailedOK /\ PassesOK /\ ListsOK

-----------------------------------------------------------------------------
(***************************************************************************)
(* What the documentation says of agents across the deliveries of a ticket *)
(***************************************************************************)

\* "run-once-per-entity protection": an agent with run_once_per_entity does
\* not complete twice for the same event and ticket.
RunOncePerEntity ==
  \A a \in RunOnce : Cardinality({d \in Deliveries : <<d, a>> \in completed}) <= 1

\* The dispatcher "waits for upstream completion": an agent runs only after
\* each agent it depends on has completed a run for the event and ticket.
WaitsForUpstream ==
  \A a \in Agents : (\E d \in Deliveries : runs[d][a] > 0) =>
    \A b \in DependsOn[a] : \E d \in Deliveries : <<d, b>> \in completed
=============================================================================
