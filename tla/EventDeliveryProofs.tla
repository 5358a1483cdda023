------------------------ MODULE EventDeliveryProofs -------------------------
(***************************************************************************)
(* EventInv is an invariant of the dispatcher for any number of            *)
(* deliveries, agents, playbooks, retries and workers.                     *)
(***************************************************************************)
EXTENDS EventDelivery, TLAPS

\* A fresh pass is well typed.
LEMMA PassTyped ==
  ASSUME NEW at \in {"idle", "match", "agents", "playbooks"},
         NEW d \in Deliveries, NEW retry \in BOOLEAN
  PROVE  /\ Pass(at, d, retry) \in PassType
         /\ Pass(at, d, retry).at = at
         /\ Pass(at, d, retry).row = d
         /\ Pass(at, d, retry).retry = retry
         /\ Pass(at, d, retry).pending = {}
         /\ Pass(at, d, retry).deferred = {}
BY DEF Pass, PassType, Attempts, PlayAttempts, AttemptStatuses, NoAttempts, NoPlays

\* So is an idle worker: the CHOOSE in Idle has a witness.
LEMMA IdleTyped ==
  Idle \in PassType /\ Idle.at = "idle" /\ Idle.pending = {} /\ Idle.deferred = {}
<1>1. PICK d \in Deliveries : d = CHOOSE e \in Deliveries : TRUE
  BY EventAssumption
<1>2. Idle = Pass("idle", d, FALSE)
  BY <1>1 DEF Idle
<1> QED
  BY <1>2 DEF Pass, PassType, Attempts, PlayAttempts, AttemptStatuses, NoAttempts, NoPlays

\* The part of the invariant about one pass.
PassOK(pass) ==
  /\ MatchOK(pass) /\ AgentsOK(pass)
  /\ pass.pending \cap pass.deferred = {}
  /\ pass.at = "playbooks" => pass.pending = {}

\* A step that changes one worker's locals and nothing else keeps the
\* invariant if the new locals satisfy their part of it.
LEMMA LocalStep ==
  ASSUME EventInv, NEW w \in Workers, NEW q \in PassType,
         worker' = [worker EXCEPT ![w] = q],
         UNCHANGED <<delivery, history>>,
         q.at # "idle" => worker[w].at # "idle" /\ q.row = worker[w].row,
         PassOK(q)
  PROVE  EventInv'
<1>1. TypeOK'
  BY DEF EventInv, TypeOK, history
<1>2. /\ worker'[w] = q
      /\ \A v \in Workers : v # w => worker'[v] = worker[v]
      /\ delivery' = delivery /\ runs' = runs /\ returned' = returned
  BY DEF EventInv, TypeOK, history
<1>3. \A d \in Deliveries : Processing(d)' \subseteq Processing(d)
  BY <1>2 DEF Processing, IsIdle
<1>4. OneProcessor'
  BY <1>2, <1>3 DEF EventInv, OneProcessor
<1>5. NotReplayed' /\ RunsBounded' /\ FreshOK' /\ FailedOK'
  BY <1>2 DEF EventInv, NotReplayed, RunsBounded, FreshOK, FailedOK, RemembersOK
<1>6. PassesOK' /\ ListsOK'
  BY <1>2 DEF EventInv, PassesOK, ListsOK, PassOK, MatchOK, AgentsOK, RemembersOK
<1> QED
  BY <1>1, <1>4, <1>5, <1>6 DEF EventInv

\* Initially nothing has been received and nobody works.
LEMMA InitEventInv == Init => EventInv
<1> SUFFICES ASSUME Init PROVE EventInv
  OBVIOUS
<1>1. TypeOK
  <2>1. delivery \in [Deliveries -> RowType]
    BY EventAssumption DEF Init, RowType, RowStatuses, Attempts, PlayAttempts,
       AttemptStatuses, NoAttempts, NoPlays
  <2>2. worker \in [Workers -> PassType]
    BY IdleTyped DEF Init
  <2> QED
    BY <2>1, <2>2 DEF Init, TypeOK
<1>2. \A w \in Workers : worker[w].at = "idle" /\ worker[w].pending = {} /\ worker[w].deferred = {}
  BY IdleTyped DEF Init
<1>3. OneProcessor
  BY <1>2 DEF OneProcessor, Processing, IsIdle
<1>4. \A d \in Deliveries, a \in Agents :
        runs[d][a] = 0 /\ returned[d][a] = 0 /\ delivery[d].count = 0 /\ delivery[d].status = "absent"
  BY DEF Init
<1>5. NotReplayed /\ RunsBounded /\ FreshOK /\ FailedOK
  BY <1>4 DEF NotReplayed, RunsBounded, FreshOK, FailedOK, Init
<1>6. PassesOK /\ ListsOK
  BY <1>2 DEF PassesOK, ListsOK, MatchOK, AgentsOK
<1> QED
  BY <1>1, <1>3, <1>5, <1>6 DEF EventInv

-----------------------------------------------------------------------------
\* A worker that processes a delivery is the only one, and the row shows it.
LEMMA SoleProcessor ==
  ASSUME EventInv, NEW w \in Workers, worker[w].at # "idle"
  PROVE  /\ worker[w].row \in Deliveries
         /\ delivery[worker[w].row].status \in {"received", "retrying"}
         /\ \A v \in Workers : worker[v].at # "idle" /\ worker[v].row = worker[w].row => v = w
<1>1. worker[w].row \in Deliveries
  BY DEF EventInv, TypeOK, PassType
<1>2. w \in Processing(worker[w].row)
  BY DEF Processing, IsIdle
<1>3. \A v \in Workers : worker[v].at # "idle" /\ worker[v].row = worker[w].row
        => v \in Processing(worker[w].row)
  BY DEF Processing, IsIdle
<1> QED
  BY <1>1, <1>2, <1>3 DEF EventInv, OneProcessor

\* The types of what a pass handles.
LEMMA Types ==
  ASSUME EventInv, NEW w \in Workers
  PROVE  /\ worker[w] \in PassType
         /\ worker[w].row \in Deliveries
         /\ worker[w].attempts \in Attempts
         /\ delivery[worker[w].row] \in RowType
         /\ delivery[worker[w].row].attempts \in Attempts
         /\ delivery[worker[w].row].count \in Nat
         /\ \A a \in Agents : runs[worker[w].row][a] \in Nat /\ returned[worker[w].row][a] \in Nat
         /\ PassOK(worker[w])
<1>1. worker[w] \in PassType /\ worker[w].row \in Deliveries
  BY DEF EventInv, TypeOK, PassType
<1>2. delivery[worker[w].row] \in RowType
  BY <1>1 DEF EventInv, TypeOK
<1>3. PassOK(worker[w])
  BY DEF EventInv, PassesOK, ListsOK, PassOK
<1> QED
  BY <1>1, <1>2, <1>3, EventAssumption DEF EventInv, TypeOK, RowType, PassType

\* Matching gives the first pass the agents that match, and no history.
LEMMA MatchFirstKeeps ==
  ASSUME EventInv, NEW w \in Workers, NEW matching \in SUBSET Agents, MatchFirst(w, matching)
  PROVE  EventInv'
<1> DEFINE pass == worker[w]
           q == [pass EXCEPT !.at = "agents", !.matched = matching, !.pending = matching]
<1>1. pass \in PassType /\ pass.at = "match" /\ ~pass.retry /\ PassOK(pass)
  BY Types DEF MatchFirst
<1>2. pass.deferred = {} /\ pass.row \in Deliveries
  BY <1>1, Types, PassTyped DEF PassOK, MatchOK, PassType
<1>3. q \in PassType /\ q.at = "agents" /\ q.row = pass.row /\ q.pending = matching /\ q.deferred = {}
  BY <1>1, <1>2 DEF PassType
<1>4. \A a \in Agents : returned[q.row][a] = 0 /\ runs[q.row][a] <= delivery[q.row].count
  BY <1>1, <1>3 DEF PassOK, MatchOK
<1>5. PassOK(q)
  BY <1>3, <1>4 DEF PassOK, MatchOK, AgentsOK, RemembersOK
<1>6. worker' = [worker EXCEPT ![w] = q] /\ UNCHANGED <<delivery, history>>
  BY DEF MatchFirst, Goto
<1> HIDE DEF q
<1> QED
  BY <1>1, <1>3, <1>5, <1>6, LocalStep

\* A retry takes only agents whose runs did not return.
LEMMA MatchRetryKeeps ==
  ASSUME EventInv, NEW w \in Workers, NEW matching \in SUBSET Agents, MatchRetry(w, matching)
  PROVE  EventInv'
<1> DEFINE pass == worker[w]
           row == delivery[pass.row]
           prior == PriorAttempts(row)
           retryable == {a \in Agents : prior[a] \in Retryable}
           after == [a \in Agents |-> IF a \in retryable \ matching THEN "failed" ELSE prior[a]]
           q == [pass EXCEPT !.at = "agents", !.matched = row.agents, !.attempts = after,
                   !.done = {a \in Agents : prior[a] = "completed"},
                   !.pending = retryable \cap matching,
                   !.errors = retryable \ matching # {}, !.plays = row.plays]
<1>1. pass \in PassType /\ pass.at = "match" /\ pass.retry /\ PassOK(pass) /\ row \in RowType
  BY Types DEF MatchRetry
<1>2. pass.deferred = {} /\ pass.row \in Deliveries
  BY <1>1, Types, PassTyped DEF PassOK, MatchOK, PassType
<1>3. prior \in Attempts /\ row.attempts \in Attempts
  BY <1>1 DEF PriorAttempts, RowType, Attempts, AttemptStatuses
<1>4. \A a \in Agents : returned[pass.row][a] > 0 => row.attempts[a] \in {"completed", "pending"}
  BY <1>1 DEF PassOK, MatchOK, RemembersOK
<1>5. \A a \in Agents : returned[pass.row][a] > 0 => prior[a] \in {"completed", "pending"}
  BY <1>3, <1>4 DEF PriorAttempts, NoAttempts
<1>6. after \in Attempts /\ \A a \in Agents : a \notin retryable => after[a] = prior[a]
  BY <1>3 DEF Attempts, AttemptStatuses
<1>7. \A a \in Agents : returned[pass.row][a] > 0 => a \notin retryable /\ after[a] \in {"completed", "pending"}
  BY <1>5, <1>6 DEF Retryable
<1> HIDE DEF prior, after
<1>8. /\ q \in PassType /\ q.at = "agents" /\ q.row = pass.row
      /\ q.pending = retryable \cap matching /\ q.deferred = {} /\ q.attempts = after
  BY <1>1, <1>2, <1>6 DEF PassType, RowType
<1>9. \A a \in retryable \cap matching : returned[pass.row][a] = 0 /\ runs[pass.row][a] <= row.count
  BY <1>1, <1>7, Types DEF PassOK, MatchOK
<1>10. PassOK(q)
  BY <1>7, <1>8, <1>9 DEF PassOK, MatchOK, AgentsOK, RemembersOK
<1>11. worker' = [worker EXCEPT ![w] = q] /\ UNCHANGED <<delivery, history>>
  BY DEF MatchRetry, Goto, prior, after
<1> HIDE DEF q
<1> QED
  BY <1>1, <1>8, <1>10, <1>11, LocalStep

\* Skipping and deferring only move an agent out of pending.
LEMMA SkipKeeps ==
  ASSUME EventInv, NEW w \in Workers, NEW a \in Agents, Skip(w, a) \/ Defer(w, a)
  PROVE  EventInv'
<1> DEFINE pass == worker[w]
<1>1. pass \in PassType /\ pass.at = "agents" /\ a \in pass.pending /\ PassOK(pass)
  BY Types DEF Skip, Defer
<1>2. PICK q \in PassType :
        /\ worker' = [worker EXCEPT ![w] = q]
        /\ q.at = "agents" /\ q.row = pass.row /\ q.attempts = pass.attempts
        /\ q.pending = pass.pending \ {a}
        /\ q.deferred \in {pass.deferred, pass.deferred \cup {a}}
  <2>1. CASE Skip(w, a)
    <3> DEFINE q == [pass EXCEPT !.pending = pass.pending \ {a},
                       !.done = IF HasCompleted(a) THEN pass.done \cup {a} ELSE pass.done,
                       !.progressed = TRUE]
    <3>1. q \in PassType /\ q.at = "agents" /\ q.row = pass.row /\ q.attempts = pass.attempts
          /\ q.pending = pass.pending \ {a} /\ q.deferred = pass.deferred
      BY <1>1 DEF PassType
    <3>2. worker' = [worker EXCEPT ![w] = q]
      BY <2>1 DEF Skip, Goto
    <3> QED
      BY <3>1, <3>2
  <2>2. CASE Defer(w, a)
    <3> DEFINE q == [pass EXCEPT !.pending = pass.pending \ {a},
                                 !.deferred = pass.deferred \cup {a}]
    <3>1. q \in PassType /\ q.at = "agents" /\ q.row = pass.row /\ q.attempts = pass.attempts
          /\ q.pending = pass.pending \ {a} /\ q.deferred = pass.deferred \cup {a}
      BY <1>1 DEF PassType
    <3>2. worker' = [worker EXCEPT ![w] = q]
      BY <2>2 DEF Defer, Goto
    <3> QED
      BY <3>1, <3>2
  <2> QED
    BY <2>1, <2>2
<1>3. UNCHANGED <<delivery, history>>
  BY DEF Skip, Defer
<1>4. q.pending \cup q.deferred \subseteq pass.pending \cup pass.deferred /\ q.pending \cap q.deferred = {}
  BY <1>1, <1>2 DEF PassOK
<1>5. PassOK(q)
  BY <1>1, <1>2, <1>4 DEF PassOK, MatchOK, AgentsOK, RemembersOK
<1> QED
  BY <1>1, <1>2, <1>3, <1>5, LocalStep

\* The next round starts with what was deferred.
LEMMA NextRoundKeeps ==
  ASSUME EventInv, NEW w \in Workers, NextRound(w)
  PROVE  EventInv'
<1> DEFINE pass == worker[w]
           q == [pass EXCEPT !.pending = pass.deferred, !.deferred = {}, !.progressed = FALSE]
<1>1. pass \in PassType /\ pass.at = "agents" /\ PassOK(pass)
  BY Types DEF NextRound
<1>2. /\ q \in PassType /\ q.at = "agents" /\ q.row = pass.row /\ q.attempts = pass.attempts
      /\ q.pending = pass.deferred /\ q.deferred = {}
  BY <1>1 DEF PassType
<1>3. PassOK(q)
  BY <1>1, <1>2 DEF PassOK, MatchOK, AgentsOK, RemembersOK
<1>4. worker' = [worker EXCEPT ![w] = q] /\ UNCHANGED <<delivery, history>>
  BY DEF NextRound, Goto
<1> HIDE DEF q
<1> QED
  BY <1>1, <1>2, <1>3, <1>4, LocalStep

\* Blocking what stays deferred forgets no run that returned.
LEMMA AgentsDoneKeeps ==
  ASSUME EventInv, NEW w \in Workers, NEW enabled \in SUBSET Playbooks, AgentsDone(w, enabled)
  PROVE  EventInv'
<1> DEFINE pass == worker[w]
           after == [a \in Agents |-> IF a \in pass.deferred THEN "blocked" ELSE pass.attempts[a]]
           q == [pass EXCEPT !.at = "playbooks", !.attempts = after,
                   !.errors = pass.errors \/ pass.deferred # {},
                   !.todo = {p \in enabled : pass.retry => pass.plays[p] \in Retryable}]
<1>1. pass \in PassType /\ pass.at = "agents" /\ pass.pending = {} /\ PassOK(pass)
      /\ pass.attempts \in Attempts
  BY Types DEF AgentsDone
<1>2. after \in Attempts
  BY <1>1 DEF Attempts, AttemptStatuses
<1>3. \A a \in Agents : returned[pass.row][a] > 0 =>
        pass.attempts[a] \in {"completed", "pending"} /\ a \notin pass.deferred
  BY <1>1 DEF PassOK, AgentsOK, RemembersOK
<1>4. \A a \in Agents : returned[pass.row][a] > 0 => after[a] \in {"completed", "pending"}
  BY <1>3
<1> HIDE DEF after
<1>5. /\ q \in PassType /\ q.at = "playbooks" /\ q.row = pass.row /\ q.attempts = after
      /\ q.pending = {} /\ q.deferred = pass.deferred
  BY <1>1, <1>2 DEF PassType
<1>6. PassOK(q)
  BY <1>1, <1>4, <1>5 DEF PassOK, MatchOK, AgentsOK, RemembersOK
<1>7. worker' = [worker EXCEPT ![w] = q] /\ UNCHANGED <<delivery, history>>
  BY DEF AgentsDone, Goto, after
<1> HIDE DEF q
<1> QED
  BY <1>1, <1>5, <1>6, <1>7, LocalStep

\* A playbook run does not touch what the pass knows of its agents.
LEMMA RunPlaybookKeeps ==
  ASSUME EventInv, NEW w \in Workers, NEW p \in Playbooks, NEW outcome \in Outcomes,
         RunPlaybook(w, p, outcome)
  PROVE  EventInv'
<1> DEFINE pass == worker[w]
           plays == [pass.plays EXCEPT ![p] = outcome]
           q == [pass EXCEPT !.todo = pass.todo \ {p}, !.plays = plays,
                             !.errors = pass.errors \/ outcome = "failed"]
<1>1. pass \in PassType /\ pass.at = "playbooks" /\ PassOK(pass)
  BY Types DEF RunPlaybook
<1>2. plays \in PlayAttempts
  BY <1>1 DEF PassType, PlayAttempts, AttemptStatuses, Outcomes
<1> HIDE DEF plays
<1>3. /\ q \in PassType /\ q.at = "playbooks" /\ q.row = pass.row /\ q.attempts = pass.attempts
      /\ q.pending = pass.pending /\ q.deferred = pass.deferred
  BY <1>1, <1>2 DEF PassType
<1>4. PassOK(q)
  BY <1>1, <1>3 DEF PassOK, MatchOK, AgentsOK, RemembersOK
<1>5. worker' = [worker EXCEPT ![w] = q] /\ UNCHANGED <<delivery, history>>
  BY DEF RunPlaybook, Goto, plays
<1> HIDE DEF q
<1> QED
  BY <1>1, <1>3, <1>4, <1>5, LocalStep

\* A crash leaves the row as it is, and no pass to answer for it.
LEMMA CrashKeeps ==
  ASSUME EventInv, NEW w \in Workers, Crash(w)
  PROVE  EventInv'
<1>1. worker' = [worker EXCEPT ![w] = Idle] /\ UNCHANGED <<delivery, history>>
  BY DEF Crash, Goto
<1>2. PassOK(Idle)
  BY IdleTyped DEF PassOK, MatchOK, AgentsOK
<1> QED
  BY <1>1, <1>2, IdleTyped, LocalStep

-----------------------------------------------------------------------------
\* An idle worker takes up a delivery nobody processes: the row keeps its
\* attempts, the pass starts empty and has a run of every agent to spend.
LEMMA TakeUp ==
  ASSUME EventInv, NEW w \in Workers, NEW d \in Deliveries, NEW retry \in BOOLEAN, NEW row \in RowType,
         worker[w].at = "idle",
         delivery[d].status \notin {"received", "retrying"},
         row.status \in {"received", "retrying"},
         row.attempts = delivery[d].attempts,
         row.count >= delivery[d].count,
         delivery' = [delivery EXCEPT ![d] = row],
         worker' = [worker EXCEPT ![w] = Pass("match", d, retry)],
         UNCHANGED history,
         retry => RemembersOK(d, row.attempts),
         ~retry => \A a \in Agents : returned[d][a] = 0,
         \A a \in Agents : runs[d][a] <= row.count
  PROVE  EventInv'
<1> DEFINE q == Pass("match", d, retry)
<1>1. q \in PassType /\ q.at = "match" /\ q.row = d /\ q.retry = retry /\ q.pending = {} /\ q.deferred = {}
  BY PassTyped
<1>2. q = Pass("match", q.row, q.retry)
  BY <1>1
<1> HIDE DEF q
<1>3. /\ worker'[w] = q /\ \A v \in Workers : v # w => worker'[v] = worker[v]
      /\ delivery'[d] = row /\ \A e \in Deliveries : e # d => delivery'[e] = delivery[e]
      /\ runs' = runs /\ returned' = returned /\ completed' = completed
  BY DEF EventInv, TypeOK, history, q
<1>4. TypeOK'
  BY <1>1, <1>3 DEF EventInv, TypeOK, q
<1>5. \A v \in Workers : worker[v].at # "idle" => worker[v].row \in Deliveries /\ worker[v].row # d
  BY SoleProcessor
<1>6. OneProcessor'
  BY <1>1, <1>3, <1>5 DEF EventInv, OneProcessor, Processing, IsIdle
<1>7. NotReplayed'
  BY <1>3 DEF EventInv, NotReplayed
<1>8. RunsBounded'
  <2>1. \A a \in Agents : runs[d][a] <= row.count + 1
    BY EventAssumption DEF EventInv, TypeOK, RowType
  <2> QED
    BY <1>3, <2>1 DEF EventInv, RunsBounded
<1>9. FreshOK' /\ FailedOK'
  BY <1>3 DEF EventInv, FreshOK, FailedOK, RemembersOK
<1>10. \A v \in Workers : v # w => PassOK(worker[v])'
  <2> SUFFICES ASSUME NEW v \in Workers, v # w PROVE PassOK(worker[v])'
    OBVIOUS
  <2>1. PassOK(worker[v]) /\ worker'[v] = worker[v]
    BY <1>3, Types
  <2>2. CASE worker[v].at = "idle"
    BY <2>1, <2>2 DEF PassOK, MatchOK, AgentsOK
  <2>3. CASE worker[v].at # "idle"
    <3>1. delivery'[worker[v].row] = delivery[worker[v].row]
      BY <1>3, <1>5, <2>3
    <3> QED
      BY <1>3, <2>1, <3>1 DEF PassOK, MatchOK, AgentsOK, RemembersOK
  <2> QED
    BY <2>2, <2>3
<1>11. PassOK(worker[w])'
  <2>1. MatchOK(worker[w])'
    BY <1>1, <1>2, <1>3 DEF MatchOK, RemembersOK
  <2> QED
    BY <1>1, <1>3, <2>1 DEF PassOK, AgentsOK
<1>12. PassesOK' /\ ListsOK'
  BY <1>10, <1>11 DEF PassesOK, ListsOK, PassOK
<1> QED
  BY <1>4, <1>6, <1>7, <1>8, <1>9, <1>12 DEF EventInv

\* A new delivery has no history.
LEMMA ReceiveKeeps ==
  ASSUME EventInv, NEW w \in Workers, NEW d \in Deliveries, Receive(w, d)
  PROVE  EventInv'
<1> DEFINE row == [delivery[d] EXCEPT !.status = "received"]
<1>1. delivery[d] \in RowType /\ delivery[d].status = "absent" /\ worker[w].at = "idle"
  BY DEF EventInv, TypeOK, Receive, IsIdle
<1>2. /\ row \in RowType /\ row.status = "received"
      /\ row.attempts = delivery[d].attempts /\ row.count = delivery[d].count
      /\ row.count \in Nat
  BY <1>1, EventAssumption DEF RowType, RowStatuses
<1>3. delivery' = [delivery EXCEPT ![d] = row]
      /\ worker' = [worker EXCEPT ![w] = Pass("match", d, FALSE)] /\ UNCHANGED history
  BY DEF Receive, Goto
<1>4. \A a \in Agents : returned[d][a] = 0 /\ runs[d][a] = 0
  BY <1>1 DEF EventInv, FreshOK
<1> HIDE DEF row
<1>5. \A a \in Agents : runs[d][a] <= row.count
  BY <1>2, <1>4
<1>6. row.count >= delivery[d].count
  BY <1>2
<1> QED
  BY <1>1, <1>2, <1>3, <1>4, <1>5, <1>6, TakeUp

\* A claimed retry pays for one more run, and its row remembers the others.
LEMMA ClaimKeeps ==
  ASSUME EventInv, NEW w \in Workers, NEW d \in Deliveries, Claim(w, d)
  PROVE  EventInv'
<1> DEFINE row == [delivery[d] EXCEPT !.status = "retrying", !.count = delivery[d].count + 1, !.scheduled = FALSE]
<1>1. delivery[d] \in RowType /\ delivery[d].status = "failed" /\ worker[w].at = "idle"
      /\ delivery[d].count < MaxRetries
  BY DEF EventInv, TypeOK, Claim, IsIdle
<1>2. /\ row \in RowType /\ row.status = "retrying"
      /\ row.attempts = delivery[d].attempts /\ row.count = delivery[d].count + 1
      /\ delivery[d].count \in Nat
  <2>1. PICK n \in 0..MaxRetries : n = delivery[d].count + 1
    BY <1>1, EventAssumption DEF RowType
  <2>2. [delivery[d] EXCEPT !.status = "retrying", !.count = n, !.scheduled = FALSE] \in RowType
    BY <1>1 DEF RowType, RowStatuses
  <2> QED
    BY <1>1, <2>1, <2>2, EventAssumption DEF RowType
<1>3. delivery' = [delivery EXCEPT ![d] = row]
      /\ worker' = [worker EXCEPT ![w] = Pass("match", d, TRUE)] /\ UNCHANGED history
  BY <1>1 DEF Claim, Goto, RowType
<1>4. RemembersOK(d, delivery[d].attempts)
  BY <1>1 DEF EventInv, FailedOK
<1>5. \A a \in Agents : runs[d][a] <= delivery[d].count + 1
  BY DEF EventInv, RunsBounded
<1> HIDE DEF row
<1>6. row.count >= delivery[d].count
  BY <1>2
<1> QED
  BY <1>1, <1>2, <1>3, <1>4, <1>5, <1>6, TakeUp

-----------------------------------------------------------------------------
\* A run is of an agent that has not returned for this delivery, and the
\* pass remembers it if it returns.
LEMMA RunKeeps ==
  ASSUME EventInv, NEW w \in Workers, NEW a \in Agents, NEW outcome \in Outcomes, Run(w, a, outcome)
  PROVE  EventInv'
<1> DEFINE pass == worker[w]
           after == [pass.attempts EXCEPT ![a] = outcome]
           q == [pass EXCEPT !.pending = pass.pending \ {a}, !.attempts = after,
                   !.done = IF outcome = "completed" THEN pass.done \cup {a} ELSE pass.done,
                   !.progressed = TRUE, !.errors = pass.errors \/ outcome = "failed"]
<1>1. PICK d \in Deliveries : d = pass.row
  BY Types
<1>2. /\ pass \in PassType /\ pass.at = "agents" /\ a \in pass.pending /\ PassOK(pass)
      /\ pass.attempts \in Attempts /\ delivery[d].count \in Nat
      /\ \A b \in Agents : runs[d][b] \in Nat /\ returned[d][b] \in Nat
  BY <1>1, Types DEF Run
<1>3. after \in Attempts /\ after[a] = outcome /\ \A b \in Agents : b # a => after[b] = pass.attempts[b]
  BY <1>2 DEF Attempts, AttemptStatuses, Outcomes
<1> HIDE DEF after
<1>4. /\ q \in PassType /\ q.at = "agents" /\ q.row = d /\ q.attempts = after
      /\ q.pending = pass.pending \ {a} /\ q.deferred = pass.deferred
  BY <1>1, <1>2, <1>3 DEF PassType
<1>5. worker' = [worker EXCEPT ![w] = q] /\ delivery' = delivery
  BY DEF Run, Goto, after
<1> HIDE DEF q
<1>6. /\ runs' = [runs EXCEPT ![d][a] = @ + 1]
      /\ returned' = IF outcome = "failed" THEN returned ELSE [returned EXCEPT ![d][a] = @ + 1]
      /\ completed' = IF outcome = "completed" THEN completed \cup {<<d, a>>} ELSE completed
  BY <1>1 DEF Run
<1>7. /\ runs'[d][a] = runs[d][a] + 1
      /\ returned'[d][a] = IF outcome = "failed" THEN returned[d][a] ELSE returned[d][a] + 1
      /\ \A b \in Agents : b # a => runs'[d][b] = runs[d][b] /\ returned'[d][b] = returned[d][b]
      /\ \A e \in Deliveries : e # d => runs'[e] = runs[e] /\ returned'[e] = returned[e]
  BY <1>6 DEF EventInv, TypeOK
<1>8. TypeOK'
  <2>1. runs' \in [Deliveries -> [Agents -> Nat]] /\ returned' \in [Deliveries -> [Agents -> Nat]]
    BY <1>2, <1>6 DEF EventInv, TypeOK
  <2>2. completed' \subseteq Deliveries \X Agents
    BY <1>6 DEF EventInv, TypeOK
  <2> QED
    BY <1>4, <1>5, <2>1, <2>2 DEF EventInv, TypeOK
<1>9. worker'[w] = q /\ \A v \in Workers : v # w => worker'[v] = worker[v]
  BY <1>5 DEF EventInv, TypeOK
<1>10. \A e \in Deliveries : Processing(e)' \subseteq Processing(e)
  BY <1>1, <1>2, <1>4, <1>9 DEF Processing, IsIdle
<1>11. OneProcessor'
  BY <1>5, <1>10 DEF EventInv, OneProcessor
<1>12. returned[d][a] = 0 /\ runs[d][a] <= delivery[d].count
  BY <1>1, <1>2 DEF PassOK, AgentsOK
<1>13. NotReplayed'
  BY <1>7, <1>12 DEF EventInv, NotReplayed
<1>14. RunsBounded'
  <2>1. runs'[d][a] <= delivery[d].count + 1
    BY <1>2, <1>7, <1>12
  <2> QED
    BY <1>5, <1>7, <2>1 DEF EventInv, RunsBounded
<1>15. delivery[d].status \in {"received", "retrying"}
  BY <1>1, <1>2, SoleProcessor
<1>16. FreshOK' /\ FailedOK'
  BY <1>5, <1>7, <1>15 DEF EventInv, FreshOK, FailedOK, RemembersOK
<1>17. PassOK(worker[w])'
  <2>1. \A b \in Agents : returned'[d][b] > 0 => after[b] \in {"completed", "pending"}
    BY <1>1, <1>2, <1>3, <1>7, <1>12 DEF PassOK, AgentsOK, RemembersOK, Outcomes
  <2>2. \A b \in q.pending \cup q.deferred : b \in Agents /\ b # a /\ b \in pass.pending \cup pass.deferred
    BY <1>2, <1>4 DEF PassOK, PassType
  <2>3. \A b \in q.pending \cup q.deferred : returned'[d][b] = 0 /\ runs'[d][b] <= delivery'[d].count
    BY <1>1, <1>2, <1>5, <1>7, <2>2 DEF PassOK, AgentsOK
  <2>4. q.pending \cap q.deferred = {}
    BY <1>2, <1>4 DEF PassOK
  <2> QED
    BY <1>4, <1>9, <2>1, <2>3, <2>4 DEF PassOK, MatchOK, AgentsOK, RemembersOK
<1>18. ASSUME NEW v \in Workers, v # w PROVE PassOK(worker[v])'
  <2>1. PassOK(worker[v]) /\ worker'[v] = worker[v]
    BY <1>9, <1>18, Types
  <2>2. CASE worker[v].at = "idle"
    BY <2>1, <2>2 DEF PassOK, MatchOK, AgentsOK
  <2>3. CASE worker[v].at # "idle"
    <3>1. worker[v].row \in Deliveries /\ worker[v].row # d
      BY <1>1, <1>2, <1>18, <2>3, SoleProcessor
    <3>2. runs'[worker[v].row] = runs[worker[v].row] /\ returned'[worker[v].row] = returned[worker[v].row]
      BY <1>7, <3>1
    <3> QED
      BY <1>5, <2>1, <3>2 DEF PassOK, MatchOK, AgentsOK, RemembersOK
  <2> QED
    BY <2>2, <2>3
<1>19. PassesOK' /\ ListsOK'
  BY <1>17, <1>18 DEF PassesOK, ListsOK, PassOK
<1> QED
  BY <1>8, <1>11, <1>13, <1>14, <1>16, <1>19 DEF EventInv

\* The end of a pass writes down what it remembers.
LEMMA FinishKeeps ==
  ASSUME EventInv, NEW w \in Workers, Finish(w)
  PROVE  EventInv'
<1> DEFINE pass == worker[w]
<1>1. PICK d \in Deliveries : d = pass.row
  BY Types
<1>2. /\ pass \in PassType /\ pass.at = "playbooks" /\ PassOK(pass)
      /\ pass.attempts \in Attempts /\ delivery[d] \in RowType
  BY <1>1, Types DEF Finish
<1> DEFINE row == [status |-> Outcome(pass), agents |-> pass.matched, attempts |-> pass.attempts,
                   plays |-> pass.plays, count |-> delivery[d].count,
                   scheduled |-> pass.errors /\ delivery[d].count < MaxRetries]
<1>3. row \in RowType /\ row.status \in {"completed", "failed"} /\ row.attempts = pass.attempts
      /\ row.count = delivery[d].count
  BY <1>2 DEF RowType, RowStatuses, PassType, Outcome
<1>4. delivery' = [delivery EXCEPT ![d] = row] /\ worker' = [worker EXCEPT ![w] = Idle]
      /\ UNCHANGED history
  BY <1>1 DEF Finish, Goto
<1> HIDE DEF row
<1>5. /\ worker'[w] = Idle /\ \A v \in Workers : v # w => worker'[v] = worker[v]
      /\ delivery'[d] = row /\ \A e \in Deliveries : e # d => delivery'[e] = delivery[e]
      /\ runs' = runs /\ returned' = returned /\ completed' = completed
  BY <1>4 DEF EventInv, TypeOK, history
<1>6. TypeOK'
  BY <1>3, <1>4, <1>5, IdleTyped DEF EventInv, TypeOK
<1>7. ASSUME NEW v \in Workers, v # w, worker[v].at # "idle"
      PROVE  worker[v].row \in Deliveries /\ worker[v].row # d
  BY <1>1, <1>2, <1>7, SoleProcessor
<1>8. OneProcessor'
  BY <1>5, <1>7, IdleTyped DEF EventInv, OneProcessor, Processing, IsIdle
<1>9. NotReplayed' /\ RunsBounded'
  BY <1>3, <1>5 DEF EventInv, NotReplayed, RunsBounded
<1>10. RemembersOK(d, pass.attempts)
  BY <1>1, <1>2 DEF PassOK, AgentsOK
<1>11. FreshOK' /\ FailedOK'
  BY <1>3, <1>5, <1>10 DEF EventInv, FreshOK, FailedOK, RemembersOK
<1>12. PassOK(worker[w])'
  BY <1>5, IdleTyped DEF PassOK, MatchOK, AgentsOK
<1>13. ASSUME NEW v \in Workers, v # w PROVE PassOK(worker[v])'
  <2>1. PassOK(worker[v]) /\ worker'[v] = worker[v]
    BY <1>5, <1>13, Types
  <2>2. CASE worker[v].at = "idle"
    BY <2>1, <2>2 DEF PassOK, MatchOK, AgentsOK
  <2>3. CASE worker[v].at # "idle"
    <3>1. delivery'[worker[v].row] = delivery[worker[v].row]
      BY <1>5, <1>7, <1>13, <2>3
    <3> QED
      BY <1>5, <2>1, <3>1 DEF PassOK, MatchOK, AgentsOK, RemembersOK
  <2> QED
    BY <2>2, <2>3
<1>14. PassesOK' /\ ListsOK'
  BY <1>12, <1>13 DEF PassesOK, ListsOK, PassOK
<1> QED
  BY <1>6, <1>8, <1>9, <1>11, <1>14 DEF EventInv

-----------------------------------------------------------------------------
\* Every step of the dispatcher preserves the invariant.
LEMMA NextEventInv == EventInv /\ [Next]_vars => EventInv'
<1> SUFFICES ASSUME EventInv, [Next]_vars PROVE EventInv'
  OBVIOUS
<1>1. CASE UNCHANGED vars
  BY <1>1 DEF vars, EventInv, TypeOK, OneProcessor, Processing, IsIdle, NotReplayed, RunsBounded,
     FreshOK, FailedOK, PassesOK, ListsOK, MatchOK, AgentsOK, RemembersOK
<1>2. ASSUME NEW w \in Workers, Step(w) PROVE EventInv'
  BY <1>2, MatchFirstKeeps, MatchRetryKeeps, SkipKeeps, RunKeeps, NextRoundKeeps,
     AgentsDoneKeeps, RunPlaybookKeeps, FinishKeeps DEF Step
<1>3. ASSUME NEW w \in Workers, Crash(w) PROVE EventInv'
  BY <1>3, CrashKeeps
<1>4. ASSUME NEW w \in Workers, NEW d \in Deliveries,
             Receive(w, d) \/ OperatorRetry(w, d) \/ RetryDue(w, d)
      PROVE  EventInv'
  BY <1>4, ReceiveKeeps, ClaimKeeps DEF OperatorRetry, RetryDue
<1> QED
  BY <1>1, <1>2, <1>3, <1>4 DEF Next

\* The rows, the passes and the history of runs agree under every
\* interleaving of dispatches, retries and crashes.
THEOREM EventInvariance == Spec => []EventInv
  BY InitEventInv, NextEventInv, PTL DEF Spec

\* An agent run that returned is never repeated for its delivery.
THEOREM ReturnedOnce == Spec => []NotReplayed
<1>1. EventInv => NotReplayed
  BY DEF EventInv
<1> QED
  BY <1>1, EventInvariance, PTL

\* An agent runs for a delivery at most once per claimed retry, and once more.
THEOREM RetriesCapRuns == Spec => []RunsBounded
<1>1. EventInv => RunsBounded
  BY DEF EventInv
<1> QED
  BY <1>1, EventInvariance, PTL

\* The outcome of a completed delivery never changes: nobody processes it.
THEOREM CompletionIsFinal == Spec => CompletedIsFinal
<1>1. EventInv /\ [Next]_vars =>
        [\A d \in Deliveries : delivery[d].status = "completed" => delivery'[d] = delivery[d]]_vars
  <2> SUFFICES ASSUME EventInv, Next, NEW d \in Deliveries, delivery[d].status = "completed"
               PROVE  delivery'[d] = delivery[d]
    OBVIOUS
  <2>1. ASSUME NEW w \in Workers, Step(w) PROVE delivery'[d] = delivery[d]
    <3>1. CASE Finish(w)
      <4>1. worker[w].row # d
        BY <3>1, SoleProcessor DEF Finish
      <4> QED
        BY <3>1, <4>1 DEF Finish, EventInv, TypeOK
    <3>2. CASE ~Finish(w)
      BY <2>1, <3>2 DEF Step, MatchFirst, MatchRetry, Skip, Defer, Run, NextRound, AgentsDone, RunPlaybook
    <3> QED
      BY <3>1, <3>2
  <2>2. ASSUME NEW w \in Workers, Crash(w) PROVE delivery'[d] = delivery[d]
    BY <2>2 DEF Crash
  <2>3. ASSUME NEW w \in Workers, NEW e \in Deliveries,
               Receive(w, e) \/ OperatorRetry(w, e) \/ RetryDue(w, e)
        PROVE  delivery'[d] = delivery[d]
    BY <2>3 DEF Receive, OperatorRetry, RetryDue, Claim, EventInv, TypeOK
  <2> QED
    BY <2>1, <2>2, <2>3 DEF Next
<1> QED
  BY <1>1, EventInvariance, PTL DEF Spec, CompletedIsFinal

-----------------------------------------------------------------------------
(***************************************************************************)
(* A pass knows of every failed or blocked agent.                          *)
(***************************************************************************)

\* Such an agent is an error of the pass, or one a retry has still to run.
KnowsErrors(pass) ==
  pass.at \in {"agents", "playbooks"} =>
    \A a \in Agents : pass.attempts[a] \in Retryable =>
      \/ pass.errors
      \/ /\ pass.retry /\ pass.at = "agents"
         /\ a \in pass.pending \cup pass.deferred

CleanInv ==
  /\ EventInv /\ CompletedIsClean
  /\ \A w \in Workers : KnowsErrors(worker[w])

\* A step of one pass that leaves the rows alone.
LEMMA CleanLocal ==
  ASSUME CleanInv, EventInv', NEW w \in Workers, NEW q,
         worker' = [worker EXCEPT ![w] = q], delivery' = delivery, KnowsErrors(q)
  PROVE  CleanInv'
<1>1. worker'[w] = q /\ \A v \in Workers : v # w => worker'[v] = worker[v]
  BY DEF CleanInv, EventInv, TypeOK
<1>2. \A v \in Workers : KnowsErrors(worker[v])'
  BY <1>1 DEF CleanInv, KnowsErrors
<1> QED
  BY <1>2 DEF CleanInv, CompletedIsClean

\* A pass that has matched its agents.
LEMMA CleanMatch ==
  ASSUME CleanInv, EventInv', NEW w \in Workers, NEW matching \in SUBSET Agents,
         MatchFirst(w, matching) \/ MatchRetry(w, matching)
  PROVE  CleanInv'
<1> DEFINE pass == worker[w]
<1>1. /\ EventInv /\ pass \in PassType /\ pass.at = "match" /\ PassOK(pass)
      /\ pass.row \in Deliveries /\ delivery[pass.row] \in RowType
  BY Types DEF CleanInv, MatchFirst, MatchRetry
<1>2. CASE MatchFirst(w, matching)
  <2> DEFINE q == [pass EXCEPT !.at = "agents", !.matched = matching, !.pending = matching]
  <2>1. worker' = [worker EXCEPT ![w] = q] /\ delivery' = delivery
    BY <1>2 DEF MatchFirst, Goto
  <2>2. pass.attempts = NoAttempts
    BY <1>1 DEF PassOK, MatchOK, Pass
  <2>3. q.attempts = NoAttempts
    BY <1>1, <2>2 DEF PassType
  <2> HIDE DEF q
  <2>4. KnowsErrors(q)
    BY <2>3 DEF KnowsErrors, NoAttempts, Retryable
  <2> QED
    BY <2>1, <2>4, CleanLocal
<1>3. CASE MatchRetry(w, matching)
  <2> DEFINE row == delivery[pass.row]
             prior == PriorAttempts(row)
             retryable == {a \in Agents : prior[a] \in Retryable}
             after == [a \in Agents |-> IF a \in retryable \ matching THEN "failed" ELSE prior[a]]
             q == [pass EXCEPT !.at = "agents", !.matched = row.agents, !.attempts = after,
                     !.done = {a \in Agents : prior[a] = "completed"},
                     !.pending = retryable \cap matching,
                     !.errors = retryable \ matching # {}, !.plays = row.plays]
  <2>1. worker' = [worker EXCEPT ![w] = q] /\ delivery' = delivery
    BY <1>3 DEF MatchRetry, Goto
  <2>2. \A a \in Agents : after[a] \in Retryable => a \in retryable
    BY DEF Retryable
  <2> HIDE DEF retryable, after
  <2>3. /\ q.attempts = after /\ q.pending = retryable \cap matching
        /\ q.errors = (retryable \ matching # {}) /\ q.at = "agents" /\ q.retry
    BY <1>1, <1>3 DEF PassType, MatchRetry
  <2> HIDE DEF q
  <2>4. KnowsErrors(q)
    BY <2>2, <2>3 DEF KnowsErrors
  <2> QED
    BY <2>1, <2>4, CleanLocal
<1> QED
  BY <1>2, <1>3

\* An iteration over the agents of a pass.
LEMMA CleanAgent ==
  ASSUME CleanInv, EventInv', NEW w \in Workers, NEW a \in Agents,
         Skip(w, a) \/ Defer(w, a) \/ \E outcome \in Outcomes : Run(w, a, outcome)
  PROVE  CleanInv'
<1> DEFINE pass == worker[w]
<1>1. /\ EventInv /\ pass \in PassType /\ pass.at = "agents" /\ KnowsErrors(pass)
      /\ pass.attempts \in Attempts /\ delivery' = delivery
  BY Types DEF CleanInv, Skip, Defer, Run
<1>2. CASE Skip(w, a)
  <2> DEFINE q == [pass EXCEPT !.pending = pass.pending \ {a},
                     !.done = IF HasCompleted(a) THEN pass.done \cup {a} ELSE pass.done,
                     !.progressed = TRUE]
  <2>1. worker' = [worker EXCEPT ![w] = q]
    BY <1>2 DEF Skip, Goto
  <2>2. /\ q.attempts = pass.attempts /\ q.errors = pass.errors
        /\ ~pass.retry
    BY <1>1, <1>2 DEF PassType, Skip, SkippedOnce
  <2> HIDE DEF q
  <2>3. KnowsErrors(q)
    BY <1>1, <2>2 DEF KnowsErrors
  <2> QED
    BY <1>1, <2>1, <2>3, CleanLocal
<1>3. CASE Defer(w, a)
  <2> DEFINE q == [pass EXCEPT !.pending = pass.pending \ {a},
                               !.deferred = pass.deferred \cup {a}]
  <2>1. worker' = [worker EXCEPT ![w] = q]
    BY <1>3 DEF Defer, Goto
  <2>2. /\ q.attempts = pass.attempts /\ q.errors = pass.errors /\ q.retry = pass.retry
        /\ q.at = "agents" /\ q.pending = pass.pending \ {a} /\ q.deferred = pass.deferred \cup {a}
    BY <1>1 DEF PassType
  <2> HIDE DEF q
  <2>3. KnowsErrors(q)
    BY <1>1, <2>2 DEF KnowsErrors
  <2> QED
    BY <1>1, <2>1, <2>3, CleanLocal
<1>4. ASSUME NEW outcome \in Outcomes, Run(w, a, outcome) PROVE CleanInv'
  <2> DEFINE after == [pass.attempts EXCEPT ![a] = outcome]
             q == [pass EXCEPT !.pending = pass.pending \ {a}, !.attempts = after,
                     !.done = IF outcome = "completed" THEN pass.done \cup {a} ELSE pass.done,
                     !.progressed = TRUE, !.errors = pass.errors \/ outcome = "failed"]
  <2>1. worker' = [worker EXCEPT ![w] = q]
    BY <1>4 DEF Run, Goto
  <2>2. after[a] = outcome /\ \A b \in Agents : b # a => after[b] = pass.attempts[b]
    BY <1>1 DEF Attempts
  <2> HIDE DEF after
  <2>3. /\ q.attempts = after /\ q.retry = pass.retry /\ q.at = "agents"
        /\ q.errors = (pass.errors \/ outcome = "failed")
        /\ q.pending = pass.pending \ {a} /\ q.deferred = pass.deferred
    BY <1>1 DEF PassType
  <2> HIDE DEF q
  <2>4. outcome \in Retryable => outcome = "failed"
    BY DEF Outcomes, Retryable
  <2>5. KnowsErrors(q)
    BY <1>1, <2>2, <2>3, <2>4 DEF KnowsErrors
  <2> QED
    BY <1>1, <2>1, <2>5, CleanLocal
<1> QED
  BY <1>2, <1>3, <1>4

\* The rounds of a pass, its playbooks and its death.
LEMMA CleanGoesOn ==
  ASSUME CleanInv, EventInv', NEW w \in Workers,
         \/ NextRound(w) \/ Crash(w)
         \/ \E enabled \in SUBSET Playbooks : AgentsDone(w, enabled)
         \/ \E p \in Playbooks, outcome \in Outcomes : RunPlaybook(w, p, outcome)
  PROVE  CleanInv'
<1> DEFINE pass == worker[w]
<1>1. /\ EventInv /\ pass \in PassType /\ KnowsErrors(pass)
      /\ pass.attempts \in Attempts /\ delivery' = delivery
  BY Types DEF CleanInv, NextRound, Crash, AgentsDone, RunPlaybook
<1>2. CASE NextRound(w)
  <2> DEFINE q == [pass EXCEPT !.pending = pass.deferred, !.deferred = {}, !.progressed = FALSE]
  <2>1. worker' = [worker EXCEPT ![w] = q] /\ pass.at = "agents" /\ pass.pending = {}
    BY <1>2 DEF NextRound, Goto
  <2>2. /\ q.attempts = pass.attempts /\ q.errors = pass.errors /\ q.retry = pass.retry
        /\ q.at = "agents" /\ q.pending = pass.deferred
    BY <1>1, <2>1 DEF PassType
  <2> HIDE DEF q
  <2>3. KnowsErrors(q)
    BY <1>1, <2>1, <2>2 DEF KnowsErrors
  <2> QED
    BY <1>1, <2>1, <2>3, CleanLocal
<1>3. CASE Crash(w)
  <2>1. KnowsErrors(Idle)
    BY IdleTyped DEF KnowsErrors
  <2> QED
    BY <1>1, <1>3, <2>1, CleanLocal DEF Crash, Goto
<1>4. ASSUME NEW enabled \in SUBSET Playbooks, AgentsDone(w, enabled) PROVE CleanInv'
  <2> DEFINE after == [a \in Agents |-> IF a \in pass.deferred THEN "blocked" ELSE pass.attempts[a]]
             q == [pass EXCEPT !.at = "playbooks", !.attempts = after,
                     !.errors = pass.errors \/ pass.deferred # {},
                     !.todo = {p \in enabled : pass.retry => pass.plays[p] \in Retryable}]
  <2>1. worker' = [worker EXCEPT ![w] = q] /\ pass.at = "agents" /\ pass.pending = {}
    BY <1>4 DEF AgentsDone, Goto
  <2>2. \A a \in Agents : a \notin pass.deferred => after[a] = pass.attempts[a]
    OBVIOUS
  <2> HIDE DEF after
  <2>3. q.attempts = after /\ q.errors = (pass.errors \/ pass.deferred # {})
    BY <1>1 DEF PassType
  <2> HIDE DEF q
  <2>4. KnowsErrors(q)
    BY <1>1, <2>1, <2>2, <2>3 DEF KnowsErrors
  <2> QED
    BY <1>1, <2>1, <2>4, CleanLocal
<1>5. ASSUME NEW p \in Playbooks, NEW outcome \in Outcomes, RunPlaybook(w, p, outcome)
      PROVE  CleanInv'
  <2> DEFINE plays == [pass.plays EXCEPT ![p] = outcome]
             q == [pass EXCEPT !.todo = pass.todo \ {p}, !.plays = plays,
                               !.errors = pass.errors \/ outcome = "failed"]
  <2>1. worker' = [worker EXCEPT ![w] = q] /\ pass.at = "playbooks"
    BY <1>5 DEF RunPlaybook, Goto
  <2> HIDE DEF plays
  <2>2. q.attempts = pass.attempts /\ q.errors = (pass.errors \/ outcome = "failed")
    BY <1>1 DEF PassType
  <2> HIDE DEF q
  <2>3. KnowsErrors(q)
    BY <1>1, <2>1, <2>2 DEF KnowsErrors
  <2> QED
    BY <1>1, <2>1, <2>3, CleanLocal
<1> QED
  BY <1>2, <1>3, <1>4, <1>5

\* The steps that write a row: a pass begins, or ends with its outcome.
LEMMA CleanWrites ==
  ASSUME CleanInv, EventInv', NEW w \in Workers,
         Finish(w) \/ \E d \in Deliveries : Receive(w, d) \/ Claim(w, d)
  PROVE  CleanInv'
<1>1. TypeOK
  BY DEF CleanInv, EventInv
<1>2. ASSUME NEW d \in Deliveries, Receive(w, d) \/ Claim(w, d) PROVE CleanInv'
  <2>1. PICK q : worker' = [worker EXCEPT ![w] = q] /\ q.at = "match"
    <3>1. Pass("match", d, FALSE).at = "match" /\ Pass("match", d, TRUE).at = "match"
      BY DEF Pass
    <3> QED
      BY <1>2, <3>1 DEF Receive, Claim, Goto
  <2>2. worker'[w] = q /\ \A v \in Workers : v # w => worker'[v] = worker[v]
    BY <1>1, <2>1 DEF TypeOK
  <2>3. \A v \in Workers : KnowsErrors(worker[v])'
    BY <2>1, <2>2 DEF CleanInv, KnowsErrors
  <2>4. /\ delivery'[d].status # "completed"
        /\ \A e \in Deliveries : e # d => delivery'[e] = delivery[e]
    <3>1. CASE Receive(w, d)
      BY <1>1, <3>1 DEF Receive, TypeOK, RowType
    <3>2. CASE Claim(w, d)
      <4> DEFINE row == [delivery[d] EXCEPT !.status = "retrying",
                           !.count = delivery[d].count + 1, !.scheduled = FALSE]
      <4>1. row.status = "retrying"
        BY <1>1 DEF TypeOK, RowType
      <4>2. delivery' = [delivery EXCEPT ![d] = row]
        BY <1>1, <3>2 DEF Claim, TypeOK, RowType
      <4> HIDE DEF row
      <4> QED
        BY <1>1, <4>1, <4>2 DEF TypeOK
    <3> QED
      BY <1>2, <3>1, <3>2
  <2> QED
    BY <2>3, <2>4 DEF CleanInv, CompletedIsClean
<1>3. CASE Finish(w)
  <2>1. PICK d \in Deliveries : d = worker[w].row
    BY Types DEF CleanInv
  <2>2. /\ delivery'[d].status = "completed" => ~worker[w].errors
        /\ delivery'[d].attempts = worker[w].attempts
        /\ \A e \in Deliveries : e # d => delivery'[e] = delivery[e]
    BY <1>1, <1>3, <2>1 DEF Finish, TypeOK, Outcome
  <2>3. worker[w].at = "playbooks" /\ KnowsErrors(worker[w])
    BY <1>3 DEF Finish, CleanInv
  <2>4. CompletedIsClean'
    BY <2>2, <2>3 DEF CleanInv, CompletedIsClean, KnowsErrors
  <2>5. \A v \in Workers : KnowsErrors(worker[v])'
    BY <1>1, <1>3, IdleTyped DEF CleanInv, KnowsErrors, TypeOK, Finish, Goto
  <2> QED
    BY <2>4, <2>5 DEF CleanInv
<1> QED
  BY <1>2, <1>3

\* A delivery is shown as completed only if none of its agents has failed or
\* is blocked, for any agents, dependencies, retries, workers and crashes.
THEOREM CompletedAreClean == Spec => []CompletedIsClean
<1>1. Init => CleanInv
  <2> SUFFICES ASSUME Init PROVE CleanInv
    OBVIOUS
  <2>1. CompletedIsClean
    BY DEF Init, CompletedIsClean
  <2>2. \A w \in Workers : KnowsErrors(worker[w])
    BY IdleTyped DEF Init, KnowsErrors
  <2> QED
    BY <2>1, <2>2, InitEventInv DEF CleanInv
<1>2. CleanInv /\ [Next]_vars => CleanInv'
  <2> SUFFICES ASSUME CleanInv, [Next]_vars PROVE CleanInv'
    OBVIOUS
  <2>0. EventInv'
    BY NextEventInv DEF CleanInv
  <2>1. CASE UNCHANGED vars
    BY <2>0, <2>1 DEF vars, CleanInv, CompletedIsClean, KnowsErrors
  <2>2. ASSUME NEW w \in Workers, Step(w) \/ Crash(w) PROVE CleanInv'
    BY <2>0, <2>2, CleanMatch, CleanAgent, CleanGoesOn, CleanWrites DEF Step
  <2>3. ASSUME NEW w \in Workers, NEW d \in Deliveries,
               Receive(w, d) \/ OperatorRetry(w, d) \/ RetryDue(w, d)
        PROVE  CleanInv'
    BY <2>0, <2>3, CleanWrites DEF OperatorRetry, RetryDue
  <2> QED
    BY <2>1, <2>2, <2>3 DEF Next
<1>3. CleanInv => CompletedIsClean
  BY DEF CleanInv
<1> QED
  BY <1>1, <1>2, <1>3, PTL DEF Spec
=============================================================================
