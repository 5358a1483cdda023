------------------------- MODULE ApprovalGateProofs -------------------------
(***************************************************************************)
(* Proofs about ApprovalGate for every set of requests, workers and kinds, *)
(* with or without crashes, and every bound.                               *)
(***************************************************************************)
EXTENDS ApprovalGate, TLAPS

\* The frame constructor builds well typed frames with the given fields.
LEMMA FrameType ==
  ASSUME NEW label \in Labels, NEW r \in Requests,
         NEW arg \in Decisions \cup Results \cup {"none"},
         NEW lapsed \in BOOLEAN, NEW allow \in BOOLEAN, NEW sent \in 0..MaxEdits
  PROVE  Frame(label, r, arg, lapsed, allow, sent) \in Frames
BY DEF Frame, Frames

\* A handler about to take a step has a well typed frame.
LEMMA AtType ==
  ASSUME NEW label \in Labels, NEW r \in Requests
  PROVE  At(label, r) \in Frames /\ At(label, r).at = label /\ At(label, r).req = r
<1>1. 0 \in 0..MaxEdits
  BY BoundsAssumption
<1> QED
  BY <1>1, FrameType DEF At, Frame

\* So has an idle worker: the CHOOSE in Idle has a witness.
LEMMA IdleType == Idle \in Frames /\ Idle.at = "idle"
<1>1. (CHOOSE r \in Requests : TRUE) \in Requests
  BY BoundsAssumption
<1> QED
  BY <1>1, AtType DEF Idle, Labels

\* A handler that goes on keeps its request.
LEMMA AdvanceType ==
  ASSUME NEW f \in Frames, NEW label \in Labels,
         NEW arg \in Decisions \cup Results \cup {"none"}, NEW lapsed \in BOOLEAN
  PROVE  /\ Advance(f, label, arg, lapsed) \in Frames
         /\ Advance(f, label, arg, lapsed).at = label
         /\ Advance(f, label, arg, lapsed).req = f.req
         /\ Advance(f, label, arg, lapsed).arg = arg
BY DEF Advance, Frame, Frames

\* Expiry changes nothing of a row but its status.
LEMMA ExpireRowType ==
  ASSUME NEW row \in Rows
  PROVE  /\ ExpireRow(row) \in Rows
         /\ ExpireRow(row).kind = row.kind
         /\ ExpireRow(row).exec = row.exec
         /\ ExpireRow(row).payload = row.payload
         /\ ExpireRow(row).status = "approved" => row.status = "approved"
         /\ ExpireRow(row).status = "absent" <=> row.status = "absent"
BY DEF ExpireRow, Rows, Statuses

\* Initially no request exists and every worker is idle.
LEMMA InitIndInv == Init => IndInv
<1> SUFFICES ASSUME Init PROVE IndInv
  OBVIOUS
<1> USE IdleType, BoundsAssumption DEF Init
<1>1. TypeOK
  BY DEF TypeOK, Rows, Statuses, ExecStatuses, RunStatuses, Results
<1>2. FramesOK
  BY DEF FramesOK
<1>3. ApprovedOK
  BY DEF ApprovedOK
<1>4. ClaimOK
  BY DEF ClaimOK, ClaimRowOK, Inside, Terminal
<1> QED
  BY <1>1, <1>2, <1>3, <1>4 DEF IndInv

-----------------------------------------------------------------------------
\* Every step keeps the types.
LEMMA StepType ==
  ASSUME TypeOK, FramesOK, NEW w \in Workers, Step(w) \/ Crash(w)
  PROVE  TypeOK'
<1> USE IdleType DEF Goto, Finish, history
<1>0. /\ worker[w] \in Frames /\ worker[w].req \in Requests
      /\ worker[w].sent \in 0..MaxEdits
      /\ approval[worker[w].req] \in Rows
  BY DEF TypeOK, Frames
<1>a. /\ At("check", worker[w].req) \in Frames
      /\ At("expire", worker[w].req) \in Frames
  BY <1>0, AtType DEF Labels
<1>b. /\ Advance(worker[w], "call", "none", FALSE) \in Frames
      /\ \A result \in Results : Advance(worker[w], "record", result, FALSE) \in Frames
      /\ \A b \in BOOLEAN : Advance(worker[w], "store", worker[w].arg, b) \in Frames
  <2>1. worker[w].arg \in Decisions \cup Results \cup {"none"}
    BY <1>0 DEF Frames
  <2>2. {"call", "record", "store"} \subseteq Labels
    BY DEF Labels
  <2>3. Advance(worker[w], "call", "none", FALSE) \in Frames
    BY <1>0, <2>2, AdvanceType
  <2>4. \A result \in Results : Advance(worker[w], "record", result, FALSE) \in Frames
    BY <1>0, <2>2, AdvanceType
  <2>5. \A b \in BOOLEAN : Advance(worker[w], "store", worker[w].arg, b) \in Frames
    BY <1>0, <2>1, <2>2, AdvanceType
  <2> QED
    BY <2>3, <2>4, <2>5
<1>c. \A label \in {"claim", "call"} :
        Frame(label, worker[w].req, "none", FALSE, FALSE, approval[worker[w].req].payload) \in Frames
  BY <1>0, FrameType DEF Labels, Rows
<1>1. CASE Link(w)
  BY <1>0, <1>1 DEF Link, TypeOK, RunStatuses
<1>2. CASE Expire(w)
  BY <1>0, <1>2, ExpireRowType DEF Expire, TypeOK, RunStatuses, ExpireRun
<1>3. CASE DecideCommit(w)
  <2>1. worker[w].arg \in Decisions
    BY <1>3 DEF DecideCommit, FramesOK
  <2>2. [approval[worker[w].req] EXCEPT !.status = worker[w].arg] \in Rows
    BY <1>0, <2>1 DEF Rows, Statuses
  <2>3. WorkflowStatus(workflow[worker[w].req], worker[w].arg) \in RunStatuses
    BY <2>1 DEF WorkflowStatus, RunStatuses, Decisions
  <2>4. approval[worker[w].req].payload \in 0..MaxEdits
    BY <1>0 DEF Rows
  <2> QED
    BY <1>0, <1>3, <1>a, <2>2, <2>3, <2>4 DEF DecideCommit, TypeOK
<1>4. CASE DecideRollback(w) \/ EditRollback(w) \/ Crash(w)
  BY <1>0, <1>4 DEF DecideRollback, EditRollback, Crash, TypeOK
<1>5. CASE EditCommit(w)
  <2>1. approval[worker[w].req].payload + 1 \in 0..MaxEdits
    BY <1>0, <1>5, BoundsAssumption DEF EditCommit, Rows
  <2> QED
    BY <1>0, <1>5, <2>1 DEF EditCommit, TypeOK, Rows
<1>6. CASE ExecuteDecided(w)
  BY <1>0, <1>6, <1>a, <1>c DEF ExecuteDecided, Proceed, TypeOK
<1>7. CASE Claim(w)
  <2>1. [approval[worker[w].req] EXCEPT !.exec = "running"] \in Rows
    BY <1>0 DEF Rows, ExecStatuses
  <2>2. approval' \in [Requests -> Rows]
    BY <1>0, <1>7, <2>1 DEF Claim, TypeOK
  <2>3. worker' \in [Workers -> Frames]
    BY <1>7, <1>b DEF Claim, TypeOK
  <2> QED
    BY <1>7, <2>2, <2>3 DEF Claim, TypeOK
<1>8. CASE CallBlocked(w) \/ CallFailed(w)
  <2>1. {"blocked", "failed"} \subseteq Results
    BY DEF Results
  <2>2. worker' \in [Workers -> Frames]
    BY <1>8, <1>b, <2>1 DEF CallBlocked, CallFailed, Return, TypeOK
  <2> QED
    BY <1>8, <2>2 DEF CallBlocked, CallFailed, TypeOK
<1>9. CASE CallTimesOut(w)
  <2>1. applied[worker[w].req] + 1 \in 0..MaxApplied
    BY <1>0, <1>9, BoundsAssumption DEF CallTimesOut, TakeEffect, TypeOK
  <2> QED
    BY <1>0, <1>9, <1>b, <2>1 DEF CallTimesOut, TakeEffect, Return, TypeOK, Results
<1>10. CASE \E result \in Terminal : CallSucceeds(w, result)
  <2>1. applied[worker[w].req] + 1 \in 0..MaxApplied
    BY <1>0, <1>10, BoundsAssumption DEF CallSucceeds, TakeEffect, TypeOK
  <2>2. Terminal \subseteq Results
    BY DEF Results
  <2>3. worker' \in [Workers -> Frames]
    <3>1. PICK result \in Terminal : CallSucceeds(w, result)
      BY <1>10
    <3>2. Advance(worker[w], "record", result, FALSE) \in Frames
      BY <1>b, <2>2
    <3> QED
      BY <3>1, <3>2 DEF CallSucceeds, Return, TypeOK
  <2>4. succeeded' \in [Requests -> Nat]
    BY <1>0, <1>10 DEF CallSucceeds, TypeOK
  <2>5. applied' \in [Requests -> 0..MaxApplied]
    BY <1>0, <1>10, <2>1 DEF CallSucceeds, TakeEffect, TypeOK
  <2>6. written' \in [Requests -> SUBSET (0..MaxEdits)]
    BY <1>0, <1>10 DEF CallSucceeds, TakeEffect, TypeOK
  <2> QED
    BY <1>10, <2>3, <2>4, <2>5, <2>6 DEF CallSucceeds, TypeOK
<1>11. CASE RecordSelect(w)
  BY <1>0, <1>11, <1>b DEF RecordSelect, TypeOK, Overdue
<1>12. CASE RecordCommit(w)
  <2>1. worker[w].arg \in ExecStatuses
    BY <1>12 DEF RecordCommit, FramesOK, ExecStatuses
  <2> QED
    BY <1>0, <1>12, <2>1 DEF RecordCommit, TypeOK, Rows
<1> QED
  BY <1>1, <1>2, <1>3, <1>4, <1>5, <1>6, <1>7, <1>8, <1>9, <1>10, <1>11, <1>12 DEF Step

\* So does the start of a handler.
LEMMA StartType ==
  ASSUME TypeOK, NEW w \in Workers, NEW r \in Requests, Start(w, r)
  PROVE  TypeOK'
<1> USE DEF Goto, history
<1>0. approval[r] \in Rows /\ Overdue(r) \in BOOLEAN /\ 0 \in 0..MaxEdits
  BY BoundsAssumption DEF TypeOK, Overdue
<1>1. ASSUME NEW kind \in Kinds, Create(w, r, kind)
      PROVE  TypeOK'
  <2>1. [kind |-> kind, status |-> "pending", exec |-> "not_started", payload |-> 0] \in Rows
    BY <1>0 DEF Rows, Statuses, Decisions, ExecStatuses
  <2>2. At("link", r) \in Frames
    BY AtType DEF Labels
  <2> QED
    BY <1>1, <2>1, <2>2 DEF Create, TypeOK
<1>2. CASE ReadOverdue(w, r)
  <2>1. At("expire", r) \in Frames
    BY AtType DEF Labels
  <2> QED
    BY <1>2, <2>1 DEF ReadOverdue, TypeOK
<1>3. CASE EditSelect(w, r)
  <2>1. Frame("edit", r, "none", Overdue(r), FALSE, 0) \in Frames
    BY <1>0, FrameType DEF Labels
  <2> QED
    BY <1>3, <2>1 DEF EditSelect, TypeOK
<1>4. CASE Execute(w, r)
  <2>1. \A label \in {"claim", "call"} :
          Frame(label, r, "none", FALSE, FALSE, approval[r].payload) \in Frames
    BY <1>0, FrameType DEF Labels, Rows
  <2> QED
    BY <1>4, <2>1 DEF Execute, Proceed, TypeOK
<1>5. CASE ExecuteFromCli(w, r)
  <2>1. Frame("call", r, "none", FALSE, FALSE, approval[r].payload) \in Frames
    BY <1>0, FrameType DEF Labels, Rows
  <2> QED
    BY <1>5, <2>1 DEF ExecuteFromCli, TypeOK
<1>6. ASSUME NEW decision \in Decisions, DecideSelect(w, r, decision)
      PROVE  TypeOK'
  <2>1. Frame("decide", r, decision, Overdue(r), workflow[r] # "none", 0) \in Frames
    BY <1>0, FrameType DEF Labels
  <2> QED
    BY <1>6, <2>1 DEF DecideSelect, TypeOK
<1> QED
  BY <1>1, <1>2, <1>3, <1>4, <1>5, <1>6 DEF Start

-----------------------------------------------------------------------------
\* A handler never changes the kind of a row, creates one or removes one.
LEMMA StepRows ==
  ASSUME TypeOK, FramesOK, NEW w \in Workers, Step(w) \/ Crash(w), NEW r \in Requests
  PROVE  /\ approval'[r].kind = approval[r].kind
         /\ approval'[r].status = "absent" <=> approval[r].status = "absent"
<1>0. /\ worker[w].req \in Requests
      /\ \A q \in Requests : approval[q] \in Rows
      /\ worker[w].at # "idle" => approval[worker[w].req].status # "absent"
  BY DEF TypeOK, Frames, FramesOK
<1>1. CASE Expire(w)
  BY <1>0, <1>1, ExpireRowType DEF Expire, TypeOK
<1>2. CASE DecideCommit(w)
  <2>1. worker[w].arg # "absent"
    BY <1>2 DEF DecideCommit, FramesOK, Decisions
  <2> QED
    BY <1>0, <1>2, <2>1 DEF DecideCommit, TypeOK, Rows
<1>3. CASE EditCommit(w)
  BY <1>0, <1>3 DEF EditCommit, TypeOK, Rows
<1>4. CASE Claim(w)
  <2>1. \/ approval' = [approval EXCEPT ![worker[w].req].exec = "running"]
        \/ UNCHANGED approval
    BY <1>4 DEF Claim
  <2> QED
    BY <1>0, <2>1 DEF TypeOK, Rows
<1>5. CASE RecordCommit(w)
  BY <1>0, <1>5 DEF RecordCommit, TypeOK, Rows
<1>6. CASE UNCHANGED approval
  BY <1>6
<1> QED
  BY <1>1, <1>2, <1>3, <1>4, <1>5, <1>6
  DEF Step, Link, DecideRollback, EditRollback, ExecuteDecided, CallBlocked, CallFailed,
      CallTimesOut, CallSucceeds, RecordSelect, Crash

\* Only claiming and recording change the execution status of a row.
LEMMA StepExec ==
  ASSUME TypeOK, NEW w \in Workers, Step(w) \/ Crash(w),
         ~Claim(w), ~RecordCommit(w), NEW r \in Requests
  PROVE  approval'[r].exec = approval[r].exec
<1>0. worker[w].req \in Requests /\ \A q \in Requests : approval[q] \in Rows
  BY DEF TypeOK, Frames
<1>1. CASE Expire(w)
  BY <1>0, <1>1, ExpireRowType DEF Expire, TypeOK
<1>2. CASE DecideCommit(w)
  BY <1>0, <1>2 DEF DecideCommit, TypeOK, Rows
<1>3. CASE EditCommit(w)
  BY <1>0, <1>3 DEF EditCommit, TypeOK, Rows
<1>4. CASE UNCHANGED approval
  BY <1>4
<1> QED
  BY <1>1, <1>2, <1>3, <1>4
  DEF Step, Link, DecideRollback, EditRollback, ExecuteDecided, CallBlocked, CallFailed,
      CallTimesOut, CallSucceeds, RecordSelect, Crash

-----------------------------------------------------------------------------
\* FramesOK survives when one worker takes a good frame and no row vanishes.
LEMMA FramesKept ==
  ASSUME TypeOK, FramesOK, NEW w \in Workers, NEW f \in Frames,
         worker' = [worker EXCEPT ![w] = f],
         \A r \in Requests : approval'[r].status = "absent" => approval[r].status = "absent",
         f.at = "decide" => f.arg \in Decisions,
         f.at \in {"record", "store"} => f.arg \in Results,
         f.at # "idle" => approval'[f.req].status # "absent"
  PROVE  FramesOK'
<1> SUFFICES ASSUME NEW v \in Workers
             PROVE  /\ worker'[v].at = "decide" => worker'[v].arg \in Decisions
                    /\ worker'[v].at \in {"record", "store"} => worker'[v].arg \in Results
                    /\ worker'[v].at # "idle" => approval'[worker'[v].req].status # "absent"
  BY DEF FramesOK
<1>1. CASE v = w
  BY <1>1 DEF TypeOK
<1>2. CASE v # w
  BY <1>2 DEF TypeOK, FramesOK, Frames
<1> QED
  BY <1>1, <1>2

\* A handler that goes on keeps FramesOK.
LEMMA StepFrames ==
  ASSUME TypeOK, FramesOK, NEW w \in Workers, Step(w) \/ Crash(w)
  PROVE  FramesOK'
<1>0. /\ worker[w] \in Frames /\ worker[w].req \in Requests
      /\ worker[w].at # "idle" => approval[worker[w].req].status # "absent"
      /\ worker[w].arg \in Decisions \cup Results \cup {"none"}
  BY DEF TypeOK, Frames, FramesOK
<1>r. \A r \in Requests : approval'[r].status = "absent" <=> approval[r].status = "absent"
  BY StepRows
<1>t. TypeOK'
  BY StepType
<1>1. CASE Finish(w)
  <2>1. worker' = [worker EXCEPT ![w] = Idle]
    BY <1>1 DEF Finish, Goto
  <2> QED
    BY <2>1, <1>r, IdleType, FramesKept
<1>2. ASSUME NEW label \in {"check", "expire"}, worker[w].at # "idle",
             Goto(w, At(label, worker[w].req))
      PROVE  FramesOK'
  <2>1. /\ At(label, worker[w].req) \in Frames
        /\ At(label, worker[w].req).at = label
        /\ At(label, worker[w].req).req = worker[w].req
    BY <1>0, AtType DEF Labels
  <2> QED
    BY <1>0, <1>2, <1>r, <2>1, FramesKept DEF Goto
<1>3. CASE ExecuteDecided(w) /\ Proceed(w, worker[w].req)
  <2> DEFINE label == IF approval[worker[w].req].kind = "power" THEN "claim" ELSE "call"
             f == Frame(label, worker[w].req, "none", FALSE, FALSE,
                        approval[worker[w].req].payload)
  <2>1. f \in Frames /\ f.at \in {"claim", "call"} /\ f.req = worker[w].req
    <3>1. approval[worker[w].req].payload \in 0..MaxEdits
      BY <1>0 DEF TypeOK, Rows
    <3>2. f \in Frames
      BY <1>0, <3>1, FrameType DEF Labels
    <3> QED
      BY <3>2 DEF Frame
  <2>2. worker' = [worker EXCEPT ![w] = f]
    BY <1>3 DEF Proceed, Goto
  <2>3. worker[w].at # "idle"
    BY <1>3 DEF ExecuteDecided
  <2> QED
    BY <1>0, <1>r, <2>1, <2>2, <2>3, FramesKept
<1>4. ASSUME NEW label \in {"call", "record", "store"},
             NEW arg \in Results \cup {"none"}, NEW lapsed \in BOOLEAN,
             worker[w].at # "idle",
             label # "call" => arg \in Results,
             Goto(w, Advance(worker[w], label, arg, lapsed))
      PROVE  FramesOK'
  <2> DEFINE f == Advance(worker[w], label, arg, lapsed)
  <2>1. f \in Frames /\ f.at = label /\ f.req = worker[w].req /\ f.arg = arg
    <3>1. label \in Labels /\ arg \in Decisions \cup Results \cup {"none"}
      BY DEF Labels
    <3>2. f \in Frames
      BY <1>0, <3>1 DEF Advance, Frame, Frames
    <3> QED
      BY <3>2 DEF Advance, Frame
  <2>2. worker' = [worker EXCEPT ![w] = f]
    BY <1>4 DEF Goto
  <2> HIDE DEF f
  <2> QED
    BY <1>0, <1>4, <1>r, <2>1, <2>2, FramesKept
<1>5. CASE DecideCommit(w)
  BY <1>5, <1>1, <1>2 DEF DecideCommit, Finish
<1>6. CASE ExecuteDecided(w)
  BY <1>6, <1>1, <1>2, <1>3 DEF ExecuteDecided
<1>7. CASE Claim(w)
  BY <1>7, <1>1, <1>4 DEF Claim
<1>8. CASE CallBlocked(w) \/ CallFailed(w)
  BY <1>8, <1>1, <1>4 DEF CallBlocked, CallFailed, Return, Results
<1>9. CASE CallTimesOut(w)
  BY <1>9, <1>4 DEF CallTimesOut, TakeEffect, Return, Results
<1>10. CASE \E result \in Terminal : CallSucceeds(w, result)
  BY <1>10, <1>4 DEF CallSucceeds, TakeEffect, Return, Results
<1>11. CASE RecordSelect(w)
  <2>1. worker[w].arg \in Results /\ worker[w].at # "idle"
    BY <1>11 DEF RecordSelect, FramesOK
  <2>2. Overdue(worker[w].req) \in BOOLEAN
    BY DEF Overdue
  <2> QED
    BY <1>11, <1>1, <1>4, <2>1, <2>2 DEF RecordSelect
<1> QED
  BY <1>1, <1>5, <1>6, <1>7, <1>8, <1>9, <1>10, <1>11
  DEF Step, Link, Expire, DecideRollback, EditCommit, EditRollback, RecordCommit, Crash

\* Starting a handler keeps FramesOK: the request exists.
LEMMA StartFrames ==
  ASSUME TypeOK, FramesOK, NEW w \in Workers, NEW r \in Requests, Start(w, r)
  PROVE  FramesOK'
<1>0. /\ \A q \in Requests : approval[q] \in Rows
      /\ Overdue(r) \in BOOLEAN /\ 0 \in 0..MaxEdits
  BY BoundsAssumption DEF TypeOK, Overdue
<1>1. ASSUME NEW kind \in Kinds, Create(w, r, kind)
      PROVE  FramesOK'
  <2>1. /\ \A q \in Requests : approval'[q].status = "absent" => approval[q].status = "absent"
        /\ approval'[r].status # "absent"
    BY <1>1 DEF Create, TypeOK
  <2>2. CASE UNCHANGED worker
    BY <2>1, <2>2 DEF FramesOK, TypeOK, Frames
  <2>3. CASE Goto(w, At("link", r))
    <3>1. /\ At("link", r) \in Frames
          /\ At("link", r).at = "link"
          /\ At("link", r).req = r
      BY AtType DEF Labels
    <3> QED
      BY <2>1, <2>3, <3>1, FramesKept DEF Goto
  <2> QED
    BY <1>1, <2>2, <2>3 DEF Create
<1>2. ASSUME NEW f \in Frames, Goto(w, f), f.req = r,
             f.at \in {"expire", "edit", "claim", "call", "decide"},
             f.at = "decide" => f.arg \in Decisions,
             approval[r].status # "absent", UNCHANGED approval
      PROVE  FramesOK'
  BY <1>2, FramesKept DEF Goto
<1>3. CASE ReadOverdue(w, r)
  <2>1. /\ At("expire", r) \in Frames
        /\ At("expire", r).at = "expire"
        /\ At("expire", r).req = r
    BY AtType DEF Labels
  <2> QED
    BY <1>2, <1>3, <2>1 DEF ReadOverdue, Overdue
<1>4. CASE EditSelect(w, r)
  <2> DEFINE f == Frame("edit", r, "none", Overdue(r), FALSE, 0)
  <2>1. f \in Frames
    BY <1>0, FrameType DEF Labels
  <2>2. f.at = "edit" /\ f.req = r
    BY DEF Frame
  <2> QED
    BY <1>2, <1>4, <2>1, <2>2 DEF EditSelect
<1>5. CASE Execute(w, r)
  <2> DEFINE label == IF approval[r].kind = "power" THEN "claim" ELSE "call"
             f == Frame(label, r, "none", FALSE, FALSE, approval[r].payload)
  <2>1. f \in Frames
    BY <1>0, FrameType DEF Labels, Rows
  <2>2. f.at \in {"claim", "call"} /\ f.req = r
    BY DEF Frame
  <2>3. Goto(w, f) /\ approval[r].status # "absent" /\ UNCHANGED approval
    BY <1>5 DEF Execute, Executable, Proceed
  <2> HIDE DEF f
  <2> QED
    BY <1>2, <2>1, <2>2, <2>3
<1>6. CASE ExecuteFromCli(w, r)
  <2> DEFINE f == Frame("call", r, "none", FALSE, FALSE, approval[r].payload)
  <2>1. f \in Frames
    BY <1>0, FrameType DEF Labels, Rows
  <2>2. f.at = "call" /\ f.req = r
    BY DEF Frame
  <2>3. Goto(w, f) /\ approval[r].status # "absent" /\ UNCHANGED approval
    BY <1>6 DEF ExecuteFromCli
  <2> HIDE DEF f
  <2> QED
    BY <1>2, <2>1, <2>2, <2>3
<1>7. ASSUME NEW decision \in Decisions, DecideSelect(w, r, decision)
      PROVE  FramesOK'
  <2> DEFINE f == Frame("decide", r, decision, Overdue(r), workflow[r] # "none", 0)
  <2>1. f \in Frames
    BY <1>0, FrameType DEF Labels
  <2>2. f.at = "decide" /\ f.req = r /\ f.arg = decision
    BY DEF Frame
  <2>3. Goto(w, f) /\ approval[r].status # "absent" /\ UNCHANGED approval
    BY <1>7 DEF DecideSelect
  <2> HIDE DEF f
  <2> QED
    BY <1>2, <2>1, <2>2, <2>3
<1> QED
  BY <1>1, <1>3, <1>4, <1>5, <1>6, <1>7 DEF Start

-----------------------------------------------------------------------------
\* The control flow of a handler, as far as execution is concerned.
LEMMA StepControl ==
  ASSUME TypeOK, NEW w \in Workers, Step(w) \/ Crash(w)
  PROVE  LET r == worker[w].req IN
         /\ \A v \in Workers : v # w => worker'[v] = worker[v]
         /\ worker'[w].at # "idle" => worker'[w].req = r
         /\ worker'[w].at = "claim" => Executable(approval[r])
         /\ worker'[w].at = "call" =>
              \/ approval[r].kind # "power" /\ Executable(approval[r]) /\ ~Claim(w)
              \/ Claim(w) /\ Claimable(approval[r])
         /\ worker'[w].at = "record" => worker[w].at = "call"
         /\ worker'[w].at = "store" =>
              worker[w].at = "record" /\ worker'[w].arg = worker[w].arg
<1> DEFINE r == worker[w].req
           P == /\ \A v \in Workers : v # w => worker'[v] = worker[v]
                /\ worker'[w].at # "idle" => worker'[w].req = r
                /\ worker'[w].at = "claim" => Executable(approval[r])
                /\ worker'[w].at = "call" =>
                     \/ approval[r].kind # "power" /\ Executable(approval[r]) /\ ~Claim(w)
                     \/ Claim(w) /\ Claimable(approval[r])
                /\ worker'[w].at = "record" => worker[w].at = "call"
                /\ worker'[w].at = "store" =>
                     worker[w].at = "record" /\ worker'[w].arg = worker[w].arg
<1> SUFFICES P
  OBVIOUS
<1>1. CASE Finish(w)
  BY <1>1, IdleType DEF Finish, Goto, TypeOK
<1>2. ASSUME NEW label \in {"check", "expire"}, Goto(w, At(label, r))
      PROVE  P
  BY <1>2 DEF Goto, At, Frame, TypeOK
<1>3. CASE ExecuteDecided(w) /\ Executable(approval[r]) /\ Proceed(w, r)
  <2>1. ~Claim(w)
    BY <1>3 DEF ExecuteDecided, Claim
  <2> QED
    BY <1>3, <2>1 DEF Proceed, Goto, Frame, TypeOK
<1>4. CASE worker[w].at = "call" /\ \E result \in Results : Return(w, result)
  BY <1>4 DEF Return, Goto, Advance, Frame, TypeOK
<1>5. CASE DecideCommit(w)
  BY <1>5, <1>1, <1>2 DEF DecideCommit, Finish
<1>6. CASE ExecuteDecided(w)
  BY <1>6, <1>1, <1>2, <1>3 DEF ExecuteDecided
<1>7. CASE Claim(w)
  <2>1. CASE Claimable(approval[r])
    <3>1. worker' = [worker EXCEPT ![w] = Advance(worker[w], "call", "none", FALSE)]
      BY <1>7, <2>1 DEF Claim, Goto
    <3> QED
      BY <1>7, <2>1, <3>1 DEF Advance, Frame, TypeOK
  <2>2. CASE ~Claimable(approval[r])
    BY <1>1, <1>7, <2>2 DEF Claim
  <2> QED
    BY <2>1, <2>2
<1>8. CASE CallBlocked(w) \/ CallFailed(w)
  BY <1>8, <1>1, <1>4 DEF CallBlocked, CallFailed, Results
<1>9. CASE CallTimesOut(w)
  BY <1>9, <1>4 DEF CallTimesOut, TakeEffect, Results
<1>10. CASE \E result \in Terminal : CallSucceeds(w, result)
  BY <1>10, <1>4 DEF CallSucceeds, TakeEffect, Results
<1>11. CASE RecordSelect(w)
  <2>1. CASE Goto(w, Advance(worker[w], "store", worker[w].arg, Overdue(r)))
    BY <1>11, <2>1 DEF RecordSelect, Goto, Advance, Frame, TypeOK
  <2> QED
    BY <1>1, <1>11, <2>1 DEF RecordSelect
<1> QED
  BY <1>1, <1>5, <1>6, <1>7, <1>8, <1>9, <1>10, <1>11
  DEF Step, Link, Expire, DecideRollback, EditCommit, EditRollback, RecordCommit, Crash

\* A step never forgets an approval; a row becomes approved, or is written,
\* only if it has been approved.
LEMMA StepApproved ==
  ASSUME TypeOK, FramesOK, ApprovedOK, NEW w \in Workers, Step(w) \/ Crash(w)
  PROVE  ApprovedOK'
<1>0. worker[w].req \in Requests /\ \A q \in Requests : approval[q] \in Rows
  BY DEF TypeOK, Frames
<1>1. \A q \in Requests : reviewed[q] # {} => reviewed'[q] # {}
  <2>1. CASE DecideCommit(w)
    BY <1>0, <2>1 DEF DecideCommit, TypeOK
  <2>2. CASE UNCHANGED reviewed
    BY <2>2
  <2> QED
    BY <2>1, <2>2
    DEF Step, Link, Expire, DecideRollback, EditCommit, EditRollback, ExecuteDecided, Claim,
        CallBlocked, CallFailed, CallTimesOut, CallSucceeds, RecordSelect, RecordCommit,
        Crash, history
<1>2. \A q \in Requests : approval'[q].status = "approved" => reviewed'[q] # {}
  <2>1. CASE DecideCommit(w)
    BY <1>0, <1>1, <2>1 DEF DecideCommit, TypeOK, ApprovedOK, Rows
  <2>2. ASSUME \A q \in Requests :
                 approval'[q].status = "approved" => approval[q].status = "approved"
        PROVE  \A q \in Requests : approval'[q].status = "approved" => reviewed'[q] # {}
    BY <1>1, <2>2 DEF ApprovedOK
  <2>3. CASE Expire(w)
    BY <1>0, <2>2, <2>3, ExpireRowType DEF Expire, TypeOK
  <2>4. CASE EditCommit(w)
    BY <1>0, <2>2, <2>4 DEF EditCommit, TypeOK, Rows
  <2>5. CASE Claim(w)
    <3>1. \/ approval' = [approval EXCEPT ![worker[w].req].exec = "running"]
          \/ UNCHANGED approval
      BY <2>5 DEF Claim
    <3>2. \A q \in Requests : approval'[q].status = approval[q].status
      BY <1>0, <3>1 DEF TypeOK, Rows
    <3> QED
      BY <2>2, <3>2
  <2>6. CASE RecordCommit(w)
    BY <1>0, <2>2, <2>6 DEF RecordCommit, TypeOK, Rows
  <2>7. CASE UNCHANGED approval
    BY <2>2, <2>7
  <2> QED
    BY <2>1, <2>3, <2>4, <2>5, <2>6, <2>7
    DEF Step, Link, DecideRollback, EditRollback, ExecuteDecided, CallBlocked, CallFailed,
        CallTimesOut, CallSucceeds, RecordSelect, Crash
<1>3. \A q \in Requests : written'[q] # {} => reviewed'[q] # {}
  <2>1. CASE TakeEffect(w)
    BY <1>0, <1>1, <2>1 DEF TakeEffect, TypeOK, ApprovedOK
  <2>2. CASE UNCHANGED written
    BY <1>1, <2>2 DEF ApprovedOK
  <2> QED
    BY <2>1, <2>2
    DEF Step, Link, Expire, DecideCommit, DecideRollback, EditCommit, EditRollback,
        ExecuteDecided, Claim, CallBlocked, CallFailed, CallTimesOut, CallSucceeds,
        RecordSelect, RecordCommit, Crash, history
<1>4. ASSUME NEW v \in Workers, worker'[v].at \in {"claim", "call"}
      PROVE  reviewed'[worker'[v].req] # {}
  <2>1. CASE v # w
    <3>1. worker'[v] = worker[v] /\ worker[v].req \in Requests
      BY <2>1, StepControl DEF TypeOK, Frames
    <3> QED
      BY <1>1, <1>4, <3>1 DEF ApprovedOK
  <2>2. CASE v = w
    <3>1. worker'[w].req = worker[w].req
      BY <1>4, <2>2, StepControl
    <3>2. \/ Executable(approval[worker[w].req])
          \/ Claim(w)
      BY <1>4, <2>2, StepControl
    <3>3. reviewed[worker[w].req] # {}
      BY <1>0, <3>2 DEF Executable, Claim, ApprovedOK
    <3> QED
      BY <1>0, <1>1, <2>2, <3>1, <3>3
  <2> QED
    BY <2>1, <2>2
<1> QED
  BY <1>2, <1>3, <1>4 DEF ApprovedOK

\* A step touches no row but the one its worker is on.
LEMMA StepOtherRows ==
  ASSUME TypeOK, NEW w \in Workers, Step(w) \/ Crash(w),
         NEW r \in Requests, r # worker[w].req
  PROVE  approval'[r] = approval[r] /\ succeeded'[r] = succeeded[r]
<1>1. CASE Claim(w)
  <2>1. \/ approval' = [approval EXCEPT ![worker[w].req].exec = "running"]
        \/ UNCHANGED approval
    BY <1>1 DEF Claim
  <2> QED
    BY <1>1, <2>1 DEF Claim, TypeOK, history
<1>2. CASE ~Claim(w)
  BY <1>2
  DEF Step, Link, Expire, DecideCommit, DecideRollback, EditCommit, EditRollback,
      ExecuteDecided, CallBlocked, CallFailed, CallTimesOut, CallSucceeds,
      RecordSelect, RecordCommit, Crash, history, TypeOK
<1> QED
  BY <1>1, <1>2

\* The claim invariant: a worker that enters finds nobody inside and no
\* success, and only the one inside changes the row's execution status.
LEMMA StepClaim ==
  ASSUME TypeOK, FramesOK, ClaimOK, NEW w \in Workers, Step(w) \/ Crash(w)
  PROVE  ClaimOK'
<1> DEFINE q == worker[w].req
           In == {"call", "record", "store"}
<1>0. q \in Requests /\ worker \in [Workers -> Frames] /\ approval \in [Requests -> Rows]
  BY DEF TypeOK, Frames
<1>1. ASSUME NEW r \in Requests, approval'[r].status = "absent"
      PROVE  succeeded'[r] = 0 /\ approval'[r].exec = "not_started"
  <2>1. approval[r].status = "absent"
    BY <1>1, StepRows
  <2>2. CASE r # q
    BY <2>1, <2>2, StepOtherRows DEF ClaimOK
  <2>3. CASE r = q
    <3>1. worker[w].at = "idle"
      BY <2>1, <2>3 DEF FramesOK
    <3> QED
      BY <3>1
      DEF Step, Link, Expire, DecideCommit, DecideRollback, EditCommit, EditRollback,
          ExecuteDecided, Claim, CallBlocked, CallFailed, CallTimesOut, CallSucceeds,
          TakeEffect, RecordSelect, RecordCommit, Crash, IsIdle
  <2> QED
    BY <2>2, <2>3
<1>2. ASSUME NEW r \in Requests, approval'[r].kind = "power"
      PROVE  ClaimRowOK(r)' /\ \A v \in Inside(r)' : ClaimHolderOK(r, v)'
  <2>0. /\ approval[r].kind = "power"
        /\ ClaimRowOK(r)
        /\ \A v \in Inside(r) : ClaimHolderOK(r, v)
    BY <1>2, StepRows DEF ClaimOK
  <2>1. \A v \in Workers : v # w => worker'[v] = worker[v]
    BY StepControl
  <2>2. ASSUME w \notin Inside(r)', approval'[r].exec = approval[r].exec,
               succeeded'[r] = succeeded[r]
        PROVE  ClaimRowOK(r)' /\ \A v \in Inside(r)' : ClaimHolderOK(r, v)'
    <3>1. ClaimRowOK(r)'
      BY <2>0, <2>2 DEF ClaimRowOK
    <3>2. \A v \in Inside(r)' : v \in Inside(r) /\ worker'[v] = worker[v]
      BY <2>1, <2>2 DEF Inside
    <3>3. \A v \in Inside(r)' : ClaimHolderOK(r, v)'
      BY <2>0, <2>2, <3>2 DEF ClaimHolderOK
    <3> QED
      BY <3>1, <3>3
  <2>3. CASE r # q
    <3>1. w \notin Inside(r)'
      BY <2>3, StepControl DEF Inside
    <3> QED
      BY <2>2, <2>3, <3>1, StepOtherRows
  <2>4. CASE r = q /\ worker[w].at \notin In
    <3>1. succeeded'[r] = succeeded[r]
      BY <2>4
      DEF Step, Link, Expire, DecideCommit, DecideRollback, EditCommit, EditRollback,
          ExecuteDecided, Claim, CallBlocked, CallFailed, CallTimesOut, CallSucceeds,
          TakeEffect, RecordSelect, RecordCommit, Crash, history
    <3>2. ~RecordCommit(w)
      BY <2>4 DEF RecordCommit
    <3>3. CASE Claim(w) /\ Claimable(approval[q])
      <4>1. approval' = [approval EXCEPT ![q].exec = "running"]
        BY <3>3 DEF Claim
      <4>2. worker'[w].at = "call"
        BY <1>0, <3>3 DEF Claim, Goto, Advance, Frame
      <4>3. approval'[r].exec = "running"
        BY <1>0, <2>4, <4>1 DEF Rows
      <4>4. approval[r].exec # "running" /\ succeeded[r] = 0
        BY <2>0, <2>4, <3>3 DEF Claimable, ClaimRowOK, Terminal
      <4>5. Inside(r) = {}
        BY <2>0, <4>4 DEF ClaimHolderOK
      <4>6. \A v \in Inside(r)' : v = w
        BY <2>1, <4>5 DEF Inside
      <4>7. ClaimRowOK(r)'
        BY <3>1, <4>3, <4>4 DEF ClaimRowOK, Terminal
      <4>8. ClaimHolderOK(r, w)'
        BY <3>1, <4>2, <4>3, <4>4, <4>6 DEF ClaimHolderOK
      <4> QED
        BY <4>6, <4>7, <4>8
    <3>4. CASE ~(Claim(w) /\ Claimable(approval[q]))
      <4>1. worker'[w].at \notin In
        BY <2>0, <2>4, <3>4, StepControl
      <4>2. approval'[r].exec = approval[r].exec
        <5>1. CASE Claim(w)
          BY <3>4, <5>1 DEF Claim
        <5>2. CASE ~Claim(w)
          BY <3>2, <5>2, StepExec
        <5> QED
          BY <5>1, <5>2
      <4> QED
        BY <2>2, <3>1, <4>1, <4>2 DEF Inside
    <3> QED
      BY <3>3, <3>4
  <2>5. CASE r = q /\ worker[w].at \in In
    <3>1. w \in Inside(r) /\ ClaimHolderOK(r, w)
      BY <2>0, <2>5 DEF Inside
    <3>2. approval[r].exec = "running" /\ succeeded[r] \in {0, 1}
      BY <2>0, <3>1 DEF ClaimHolderOK, ClaimRowOK
    <3>3. \A v \in Inside(r)' : v = w
      BY <2>1, <3>1 DEF Inside, ClaimHolderOK
    <3>5. CASE RecordCommit(w)
      <4>1. worker'[w].at = "idle" /\ succeeded'[r] = succeeded[r]
        BY <1>0, <3>5, IdleType DEF RecordCommit, Finish, Goto, history
      <4>2. approval'[r].exec \in {"running", worker[w].arg}
        BY <1>0, <2>5, <3>2, <3>5 DEF RecordCommit, Rows
      <4>3. /\ worker[w].arg \in {"succeeded", "failed", "blocked"}
            /\ worker[w].arg = "succeeded" <=> succeeded[r] = 1
        BY <3>1, <3>5 DEF RecordCommit, ClaimHolderOK
      <4>4. ClaimRowOK(r)'
        BY <3>2, <4>1, <4>2, <4>3 DEF ClaimRowOK, Terminal
      <4>5. Inside(r)' = {}
        BY <3>3, <4>1 DEF Inside
      <4> QED
        BY <4>4, <4>5
    <3>6. CASE CallBlocked(w) \/ CallFailed(w) \/ CallTimesOut(w)
      <4>1. PICK result \in {"failed", "blocked"} : Return(w, result) \/ Finish(w)
        BY <3>6 DEF CallBlocked, CallFailed, CallTimesOut
      <4>2. /\ succeeded'[r] = succeeded[r] /\ worker[w].at = "call"
            /\ UNCHANGED approval
        BY <3>6 DEF CallBlocked, CallFailed, CallTimesOut, TakeEffect, history
      <4>3. succeeded[r] = 0
        BY <3>1, <4>2 DEF ClaimHolderOK
      <4>4. \/ worker'[w].at = "record" /\ worker'[w].arg = result
            \/ worker'[w].at = "idle"
        BY <1>0, <4>1, IdleType DEF Return, Finish, Goto, Advance, Frame
      <4>5. ClaimRowOK(r)'
        BY <2>0, <4>2 DEF ClaimRowOK
      <4>6. w \in Inside(r)' => ClaimHolderOK(r, w)'
        BY <3>2, <3>3, <4>2, <4>3, <4>4 DEF ClaimHolderOK, Inside
      <4> QED
        BY <3>3, <4>5, <4>6
    <3>7. CASE \E result \in Terminal : CallSucceeds(w, result)
      <4>1. PICK result \in Terminal : CallSucceeds(w, result)
        BY <3>7
      <4>2. result = "succeeded" /\ worker[w].at = "call" /\ UNCHANGED approval
        BY <2>0, <2>5, <4>1 DEF CallSucceeds, TakeEffect
      <4>3. succeeded[r] = 0
        BY <3>1, <4>2 DEF ClaimHolderOK
      <4>4. succeeded'[r] = 1
        BY <2>5, <4>1, <4>3 DEF CallSucceeds, TypeOK
      <4>5. worker'[w].at = "record" /\ worker'[w].arg = "succeeded"
        BY <1>0, <4>1, <4>2 DEF CallSucceeds, Return, Goto, Advance, Frame
      <4>6. ClaimRowOK(r)'
        BY <3>2, <4>2, <4>4 DEF ClaimRowOK, Terminal
      <4>7. ClaimHolderOK(r, w)'
        BY <3>2, <3>3, <4>2, <4>4, <4>5 DEF ClaimHolderOK
      <4> QED
        BY <3>3, <4>6, <4>7
    <3>4. CASE RecordSelect(w) /\ worker'[w].at = "idle"
      BY <2>2, <3>4 DEF RecordSelect, Inside, history
    <3>8. CASE RecordSelect(w) /\ worker'[w].at # "idle"
      <4>1. /\ worker[w].at = "record" /\ UNCHANGED approval
            /\ succeeded'[r] = succeeded[r]
        BY <3>8 DEF RecordSelect, history
      <4>2. worker'[w].at = "store" /\ worker'[w].arg = worker[w].arg
        BY <1>0, <3>8, IdleType DEF RecordSelect, Finish, Goto, Advance, Frame
      <4>3. ClaimRowOK(r)'
        BY <2>0, <4>1 DEF ClaimRowOK
      <4>4. ClaimHolderOK(r, w)'
        BY <3>1, <3>2, <3>3, <4>1, <4>2 DEF ClaimHolderOK
      <4> QED
        BY <3>3, <4>3, <4>4
    <3>9. CASE Crash(w)
      <4>1. worker'[w].at = "idle" /\ UNCHANGED approval /\ UNCHANGED succeeded
        BY <1>0, <3>9, IdleType DEF Crash, Finish, Goto, history
      <4> QED
        BY <2>2, <4>1 DEF Inside
    <3> QED
      BY <2>5, <3>4, <3>5, <3>6, <3>7, <3>8, <3>9
      DEF Step, Link, Expire, DecideCommit, DecideRollback, EditCommit, EditRollback,
          ExecuteDecided, Claim, RecordSelect
  <2> QED
    BY <2>3, <2>4, <2>5
<1> QED
  BY <1>1, <1>2 DEF ClaimOK

\* What starting a handler changes: one frame, and the row if it is created.
LEMMA StartControl ==
  ASSUME TypeOK, NEW w \in Workers, NEW r \in Requests, Start(w, r)
  PROVE  /\ worker[w].at = "idle"
         /\ \A v \in Workers : v # w => worker'[v] = worker[v]
         /\ worker'[w].at \notin {"record", "store"}
         /\ worker'[w].at # "idle" => worker'[w].req = r
         /\ worker'[w].at \in {"claim", "call"} => approval[r].status = "approved"
         /\ worker'[w].at = "call" => approval[r].kind # "power" \/ PowerCli
         /\ UNCHANGED history
         /\ \/ UNCHANGED approval
            \/ /\ approval[r].status = "absent"
               /\ \E kind \in Kinds :
                    approval' = [approval EXCEPT ![r] =
                      [kind |-> kind, status |-> "pending", exec |-> "not_started", payload |-> 0]]
<1> USE DEF TypeOK, Goto, At, Frame, IsIdle, history
<1>1. ASSUME NEW kind \in Kinds, Create(w, r, kind)
      PROVE  /\ worker[w].at = "idle"
             /\ \A v \in Workers : v # w => worker'[v] = worker[v]
             /\ worker'[w].at \in {"idle", "link"}
             /\ worker'[w].at # "idle" => worker'[w].req = r
  BY <1>1 DEF Create
<1>2. CASE ReadOverdue(w, r)
  BY <1>2 DEF ReadOverdue
<1>3. CASE EditSelect(w, r)
  BY <1>3 DEF EditSelect
<1>4. CASE Execute(w, r)
  BY <1>4 DEF Execute, Executable, Proceed
<1>5. ASSUME NEW decision \in Decisions, DecideSelect(w, r, decision)
      PROVE  /\ worker[w].at = "idle"
             /\ \A v \in Workers : v # w => worker'[v] = worker[v]
             /\ worker'[w].at = "decide"
             /\ worker'[w].req = r
             /\ UNCHANGED <<approval, history>>
  BY <1>5 DEF DecideSelect
<1>6. CASE \E kind \in Kinds : Create(w, r, kind)
  <2>1. PICK kind \in Kinds : Create(w, r, kind)
    BY <1>6
  <2>2. /\ UNCHANGED history
        /\ approval[r].status = "absent"
        /\ approval' = [approval EXCEPT ![r] =
             [kind |-> kind, status |-> "pending", exec |-> "not_started", payload |-> 0]]
    BY <2>1 DEF Create
  <2> QED
    BY <1>1, <2>1, <2>2
<1>7. CASE \E decision \in Decisions : DecideSelect(w, r, decision)
  BY <1>5, <1>7
<1>8. CASE ExecuteFromCli(w, r)
  BY <1>8 DEF ExecuteFromCli
<1> QED
  BY <1>2, <1>3, <1>4, <1>6, <1>7, <1>8 DEF Start

\* Starting a handler approves nothing, and executes only what was approved.
LEMMA StartApproved ==
  ASSUME TypeOK, ApprovedOK, NEW w \in Workers, NEW r \in Requests, Start(w, r)
  PROVE  ApprovedOK'
<1>1. UNCHANGED <<reviewed, written>>
  BY StartControl DEF history
<1>2. \A q \in Requests : approval'[q].status = "approved" => approval[q].status = "approved"
  BY StartControl DEF TypeOK
<1>3. ASSUME NEW v \in Workers, worker'[v].at \in {"claim", "call"}
      PROVE  reviewed[worker'[v].req] # {}
  <2>1. CASE v # w
    BY <1>3, <2>1, StartControl DEF ApprovedOK
  <2>2. CASE v = w
    BY <1>3, <2>2, StartControl DEF ApprovedOK
  <2> QED
    BY <2>1, <2>2
<1> QED
  BY <1>1, <1>2, <1>3 DEF ApprovedOK

\* Starting a handler of the API enters no claimed command.
LEMMA StartClaim ==
  ASSUME ~PowerCli, TypeOK, FramesOK, ClaimOK, NEW w \in Workers, NEW r \in Requests, Start(w, r)
  PROVE  ClaimOK'
<1>1. UNCHANGED succeeded
  BY StartControl DEF history
<1>2. \A q \in Requests :
        /\ approval'[q].exec = approval[q].exec
        /\ approval'[q].status = "absent" => approval[q].status = "absent"
        /\ approval'[q].kind = approval[q].kind \/ (q = r /\ approval[r].status = "absent")
  BY StartControl DEF TypeOK, ClaimOK
<1>3. ASSUME NEW q \in Requests, approval'[q].kind = "power"
      PROVE  ClaimRowOK(q)' /\ \A v \in Inside(q)' : ClaimHolderOK(q, v)'
  <2>1. CASE q = r /\ approval[r].status = "absent"
    <3>1. succeeded[r] = 0 /\ approval[r].exec = "not_started"
      BY <2>1 DEF ClaimOK
    <3>2. \A v \in Workers : v # w => worker'[v] = worker[v]
      BY StartControl
    <3>3. w \notin Inside(r)'
      BY <2>1, StartControl DEF Inside
    <3>4. Inside(r)' = {}
      BY <2>1, <3>2, <3>3 DEF Inside, FramesOK
    <3> QED
      BY <1>1, <1>2, <2>1, <3>1, <3>4 DEF ClaimRowOK, Terminal
  <2>2. CASE ~(q = r /\ approval[r].status = "absent")
    <3>1. /\ approval[q].kind = "power"
          /\ ClaimRowOK(q)
          /\ \A v \in Inside(q) : ClaimHolderOK(q, v)
      BY <1>2, <1>3, <2>2 DEF ClaimOK
    <3>2. \A v \in Inside(q)' : v \in Inside(q) /\ worker'[v] = worker[v]
      BY <3>1, StartControl DEF Inside
    <3>3. ClaimRowOK(q)'
      BY <1>1, <1>2, <3>1 DEF ClaimRowOK
    <3>4. \A v \in Inside(q)' : ClaimHolderOK(q, v)'
      BY <1>1, <1>2, <3>1, <3>2 DEF ClaimHolderOK
    <3> QED
      BY <3>3, <3>4
  <2> QED
    BY <2>1, <2>2
<1> QED
  BY <1>1, <1>2, <1>3 DEF ClaimOK

-----------------------------------------------------------------------------
\* Every step of the system preserves the inductive invariant.
LEMMA NextIndInv == IndInv /\ [Next]_vars => IndInv'
<1> SUFFICES ASSUME IndInv, [Next]_vars PROVE IndInv'
  OBVIOUS
<1>0. TypeOK /\ FramesOK /\ ApprovedOK /\ (PowerCli \/ ClaimOK)
  BY DEF IndInv
<1>1. ASSUME NEW w \in Workers, Step(w) \/ Crash(w)
      PROVE  IndInv'
  BY <1>0, <1>1, StepType, StepFrames, StepApproved, StepClaim DEF IndInv
<1>2. ASSUME NEW w \in Workers, NEW r \in Requests, Start(w, r)
      PROVE  IndInv'
  BY <1>0, <1>2, StartType, StartFrames, StartApproved, StartClaim DEF IndInv
<1>3. ASSUME NEW r \in Requests, Deadline(r)
      PROVE  IndInv'
  <2>1. TypeOK'
    BY <1>0, <1>3 DEF Deadline, TypeOK, history
  <2>2. UNCHANGED <<approval, worker, succeeded, reviewed, written>>
    BY <1>3 DEF Deadline, history
  <2> QED
    BY <1>0, <2>1, <2>2
    DEF IndInv, FramesOK, ApprovedOK, ClaimOK, ClaimRowOK, ClaimHolderOK, Inside
<1>4. CASE UNCHANGED vars
  BY <1>0, <1>4
  DEF vars, IndInv, TypeOK, FramesOK, ApprovedOK, ClaimOK, ClaimRowOK, ClaimHolderOK, Inside
<1> QED
  BY <1>1, <1>2, <1>3, <1>4 DEF Next

\* The inductive invariant holds in every reachable state: the table, the
\* handlers' locals and the history agree under every interleaving of the
\* approval handlers.
THEOREM Invariance == Spec => []IndInv
BY InitIndInv, NextIndInv, PTL DEF Spec

\* Type correctness of the approval table and of the handlers.
THEOREM TypeCorrect == Spec => []TypeOK
<1>1. IndInv => TypeOK
  BY DEF IndInv
<1> QED
  BY <1>1, Invariance, PTL

\* claim_approval_execution admits one worker at a time, for any number of
\* workers and requests, whatever crashes, expires or is decided meanwhile.
THEOREM ClaimIsExclusive ==
  ASSUME ~PowerCli
  PROVE  Spec => []ClaimExcludes
<1>1. IndInv => ClaimExcludes
  BY DEF IndInv, ClaimOK, ClaimExcludes, ClaimHolderOK, OfKind
<1> QED
  BY <1>1, Invariance, PTL

\* A claimed command is never run again after it has succeeded.
THEOREM ClaimedAtMostOnce ==
  ASSUME ~PowerCli
  PROVE  Spec => []ClaimedSucceedsOnce
<1>1. IndInv => ClaimedSucceedsOnce
  BY DEF IndInv, ClaimOK, ClaimedSucceedsOnce, ClaimRowOK, OfKind
<1> QED
  BY <1>1, Invariance, PTL

\* The execution status of a claimed request never contradicts what its
\* command did.
THEOREM ClaimedRowTruth ==
  ASSUME ~PowerCli
  PROVE  Spec => []ClaimedRowIsTruthful
<1>1. IndInv => ClaimedRowIsTruthful
  BY DEF IndInv, ClaimOK, ClaimedRowIsTruthful, ClaimRowOK, OfKind
<1> QED
  BY <1>1, Invariance, PTL

\* No execute function writes to a provider for a request that was never
\* approved.
THEOREM ApprovalBeforeWrite == Spec => []WrittenOnlyIfApproved
<1>1. IndInv => WrittenOnlyIfApproved
  BY DEF IndInv, ApprovedOK, WrittenOnlyIfApproved
<1> QED
  BY <1>1, Invariance, PTL

-----------------------------------------------------------------------------
(***************************************************************************)
(* The claim path implements ExclusiveExecution.                           *)
(***************************************************************************)
PhaseOf(r) ==
  CASE approval[r].kind = "power" /\ approval[r].exec = "running" -> "held"
    [] approval[r].kind = "power" /\ approval[r].exec \in Terminal -> "done"
    [] OTHER -> "open"
InsideOf(r) == IF approval[r].kind = "power" THEN Inside(r) ELSE {}
WinsOf(r) == IF approval[r].kind = "power" THEN succeeded[r] ELSE 0

\* A step that leaves the mapped state of every request alone is a stutter
\* of the reservation.
LEMMA Stutters ==
  ASSUME \A r \in Requests : /\ PhaseOf(r)' = PhaseOf(r)
                             /\ InsideOf(r)' = InsideOf(r)
                             /\ WinsOf(r)' = WinsOf(r)
  PROVE  UNCHANGED Reservation!avars
BY DEF Reservation!avars, PhaseOf, InsideOf, WinsOf

\* A step that changes the mapped state of one request only.
LEMMA MapsTo ==
  ASSUME NEW w \in Workers, NEW q \in Requests,
         \A r \in Requests : r # q => /\ PhaseOf(r)' = PhaseOf(r)
                                      /\ InsideOf(r)' = InsideOf(r)
                                      /\ WinsOf(r)' = WinsOf(r),
         \/ /\ PhaseOf(q) = "open" /\ PhaseOf(q)' = "held"
            /\ InsideOf(q)' = {w} /\ WinsOf(q)' = WinsOf(q)
         \/ /\ InsideOf(q) = {w} /\ WinsOf(q) = 0 /\ WinsOf(q)' = 1
            /\ PhaseOf(q)' = PhaseOf(q) /\ InsideOf(q)' = InsideOf(q)
         \/ /\ InsideOf(q) = {w} /\ InsideOf(q)' = {} /\ WinsOf(q)' = WinsOf(q)
            /\ PhaseOf(q)' \in {PhaseOf(q), IF WinsOf(q) = 1 THEN "done" ELSE "open"}
  PROVE  Reservation!ANext
<1> DEFINE phase == [r \in Requests |-> PhaseOf(r)]
           inside == [r \in Requests |-> InsideOf(r)]
           wins == [r \in Requests |-> WinsOf(r)]
<1>1. CASE /\ PhaseOf(q) = "open" /\ PhaseOf(q)' = "held"
           /\ InsideOf(q)' = {w} /\ WinsOf(q)' = WinsOf(q)
  <2>1. /\ phase[q] = "open" /\ phase' = [phase EXCEPT ![q] = "held"]
        /\ inside' = [inside EXCEPT ![q] = {w}]
        /\ UNCHANGED wins
    BY <1>1
  <2>2. Reservation!Acquire(w, q)
    BY <2>1 DEF Reservation!Acquire, PhaseOf, InsideOf, WinsOf
  <2> QED
    BY <2>2 DEF Reservation!ANext
<1>2. CASE /\ InsideOf(q) = {w} /\ WinsOf(q) = 0 /\ WinsOf(q)' = 1
           /\ PhaseOf(q)' = PhaseOf(q) /\ InsideOf(q)' = InsideOf(q)
  <2>1. /\ inside[q] = {w} /\ wins[q] = 0 /\ wins' = [wins EXCEPT ![q] = 1]
        /\ UNCHANGED <<phase, inside>>
    BY <1>2
  <2>2. Reservation!Win(w, q)
    BY <2>1 DEF Reservation!Win, PhaseOf, InsideOf, WinsOf
  <2> QED
    BY <2>2 DEF Reservation!ANext
<1>3. CASE /\ InsideOf(q) = {w} /\ InsideOf(q)' = {} /\ WinsOf(q)' = WinsOf(q)
           /\ PhaseOf(q)' = PhaseOf(q)
  <2>1. /\ inside[q] = {w} /\ inside' = [inside EXCEPT ![q] = {}]
        /\ UNCHANGED <<phase, wins>>
    BY <1>3
  <2>2. Reservation!Abandon(w, q)
    BY <2>1 DEF Reservation!Abandon, PhaseOf, InsideOf, WinsOf
  <2> QED
    BY <2>2 DEF Reservation!ANext
<1>4. CASE /\ InsideOf(q) = {w} /\ InsideOf(q)' = {} /\ WinsOf(q)' = WinsOf(q)
           /\ PhaseOf(q)' = IF WinsOf(q) = 1 THEN "done" ELSE "open"
  <2>1. /\ inside[q] = {w} /\ inside' = [inside EXCEPT ![q] = {}]
        /\ phase' = [phase EXCEPT ![q] = IF wins[q] = 1 THEN "done" ELSE "open"]
        /\ UNCHANGED wins
    BY <1>4
  <2>2. Reservation!Settle(w, q)
    BY <2>1 DEF Reservation!Settle, PhaseOf, InsideOf, WinsOf
  <2> QED
    BY <2>2 DEF Reservation!ANext
<1> QED
  BY <1>1, <1>2, <1>3, <1>4

\* A step of a handler is a step or a stutter of the reservation.
LEMMA StepSimulates ==
  ASSUME ~PowerCli, IndInv, IndInv', NEW w \in Workers, Step(w) \/ Crash(w)
  PROVE  Reservation!ANext \/ UNCHANGED Reservation!avars
<1> DEFINE In == {"call", "record", "store"}
<1>q. PICK q \in Requests : q = worker[w].req
  BY DEF IndInv, TypeOK, Frames
<1> USE <1>q
<1>0. /\ TypeOK /\ FramesOK /\ ClaimOK /\ ClaimOK'
      /\ q \in Requests /\ worker \in [Workers -> Frames] /\ approval \in [Requests -> Rows]
  BY DEF IndInv, TypeOK, Frames
<1>1. \A v \in Workers : v # w => worker'[v] = worker[v]
  BY <1>0, StepControl
<1>2. ASSUME NEW r \in Requests, r # q
      PROVE  PhaseOf(r)' = PhaseOf(r) /\ InsideOf(r)' = InsideOf(r) /\ WinsOf(r)' = WinsOf(r)
  <2>1. approval'[r] = approval[r] /\ succeeded'[r] = succeeded[r]
    BY <1>0, <1>2, StepOtherRows
  <2>2. w \notin Inside(r) /\ w \notin Inside(r)'
    BY <1>0, <1>2, StepControl DEF Inside
  <2>3. Inside(r)' = Inside(r)
    BY <1>1, <2>2 DEF Inside
  <2> QED
    BY <2>1, <2>3 DEF PhaseOf, InsideOf, WinsOf
<1>3. approval'[q].kind = approval[q].kind
  BY <1>0, StepRows
<1>4. CASE approval[q].kind # "power"
  <2>1. PhaseOf(q)' = PhaseOf(q) /\ InsideOf(q)' = InsideOf(q) /\ WinsOf(q)' = WinsOf(q)
    BY <1>3, <1>4 DEF PhaseOf, InsideOf, WinsOf
  <2> QED
    BY <1>2, <2>1, Stutters
<1>5. CASE approval[q].kind = "power"
  <2>0. /\ ClaimRowOK(q) /\ ClaimRowOK(q)'
        /\ \A v \in Inside(q) : ClaimHolderOK(q, v)
        /\ \A v \in Inside(q)' : ClaimHolderOK(q, v)'
        /\ InsideOf(q) = Inside(q) /\ InsideOf(q)' = Inside(q)'
        /\ WinsOf(q) = succeeded[q] /\ WinsOf(q)' = succeeded'[q]
    BY <1>0, <1>3, <1>5 DEF ClaimOK, InsideOf, WinsOf
  <2>1. ASSUME approval'[q].exec = approval[q].exec, succeeded'[q] = succeeded[q],
               worker[w].at \in In <=> worker'[w].at \in In
        PROVE  UNCHANGED Reservation!avars
    <3>1. w \in Inside(q)' <=> w \in Inside(q)
      BY <1>0, <2>1, StepControl DEF Inside
    <3>2. Inside(q)' = Inside(q)
      BY <1>1, <3>1 DEF Inside
    <3>3. PhaseOf(q)' = PhaseOf(q)
      BY <1>3, <2>1 DEF PhaseOf
    <3> QED
      BY <1>2, <2>0, <2>1, <3>2, <3>3, Stutters
  <2>2. ASSUME worker[w].at \in In, worker'[w].at \notin In, succeeded'[q] = succeeded[q],
               \/ approval'[q].exec = approval[q].exec
               \/ approval'[q].exec = worker[w].arg /\ worker[w].at = "store"
        PROVE  Reservation!ANext
    <3>1. w \in Inside(q) /\ ClaimHolderOK(q, w)
      BY <2>0, <2>2 DEF Inside
    <3>2. Inside(q) = {w} /\ Inside(q)' = {}
      BY <1>1, <2>2, <3>1 DEF ClaimHolderOK, Inside
    <3>3. PhaseOf(q)' \in {PhaseOf(q), IF WinsOf(q) = 1 THEN "done" ELSE "open"}
      <4>1. CASE approval'[q].exec = approval[q].exec
        BY <1>3, <4>1 DEF PhaseOf
      <4>2. CASE approval'[q].exec = worker[w].arg /\ worker[w].at = "store"
        <5>1. /\ approval'[q].exec \in {"succeeded", "failed", "blocked"}
              /\ approval'[q].exec = "succeeded" <=> succeeded[q] = 1
          BY <3>1, <4>2 DEF ClaimHolderOK
        <5> QED
          BY <1>3, <1>5, <2>0, <5>1 DEF PhaseOf, Terminal
      <4> QED
        BY <2>2, <4>1, <4>2
    <3>4. WinsOf(q)' = WinsOf(q)
      BY <2>0, <2>2
    <3> QED
      BY <1>0, <1>2, <2>0, <3>2, <3>3, <3>4, MapsTo
  <2>3. CASE Claim(w) /\ Claimable(approval[q])
    <3>1. approval' = [approval EXCEPT ![q].exec = "running"] /\ UNCHANGED succeeded
      BY <2>3 DEF Claim, history
    <3>2. worker'[w].at = "call" /\ worker'[w].req = q
      <4>1. worker' = [worker EXCEPT ![w] = Advance(worker[w], "call", "none", FALSE)]
        BY <2>3 DEF Claim, Goto
      <4> QED
        BY <1>0, <4>1 DEF Advance, Frame
    <3>3. approval'[q].exec = "running"
      BY <1>0, <3>1 DEF Rows
    <3>4. PhaseOf(q) = "open" /\ PhaseOf(q)' = "held"
      <4>1. approval[q].exec # "running" /\ approval[q].exec \notin Terminal
        BY <2>3 DEF Claimable
      <4>2. PhaseOf(q) = "open"
        BY <4>1 DEF PhaseOf
      <4>3. PhaseOf(q)' = "held"
        BY <1>3, <1>5, <3>3 DEF PhaseOf, Terminal
      <4> QED
        BY <4>2, <4>3
    <3>5. Inside(q)' = {w}
      <4>1. w \in Inside(q)'
        BY <3>2 DEF Inside
      <4> QED
        BY <2>0, <4>1 DEF ClaimHolderOK
    <3>6. WinsOf(q)' = WinsOf(q)
      BY <2>0, <3>1
    <3> QED
      BY <1>0, <1>2, <2>0, <3>4, <3>5, <3>6, MapsTo
  <2>4. CASE \E result \in Terminal : CallSucceeds(w, result)
    <3>1. PICK result \in Terminal : CallSucceeds(w, result)
      BY <2>4
    <3>2. /\ worker[w].at = "call" /\ UNCHANGED approval
          /\ succeeded' = [succeeded EXCEPT ![q] = @ + 1]
      BY <3>1 DEF CallSucceeds, TakeEffect
    <3>3. worker'[w].at = "record" /\ worker'[w].req = q
      BY <1>0, <3>1 DEF CallSucceeds, Return, Goto, Advance, Frame
    <3>4. w \in Inside(q) /\ ClaimHolderOK(q, w)
      BY <2>0, <3>2 DEF Inside
    <3>5. succeeded[q] = 0 /\ succeeded'[q] = 1
      BY <1>0, <3>2, <3>4 DEF ClaimHolderOK, TypeOK
    <3>6. Inside(q) = {w} /\ Inside(q)' = Inside(q)
      BY <1>1, <3>3, <3>4 DEF ClaimHolderOK, Inside
    <3>7. PhaseOf(q)' = PhaseOf(q)
      BY <3>2 DEF PhaseOf
    <3> QED
      BY <1>0, <1>2, <2>0, <3>5, <3>6, <3>7, MapsTo
  <2>5. CASE Crash(w) \/ RecordSelect(w)
    <3>1. UNCHANGED <<approval, succeeded>>
      BY <2>5 DEF Crash, RecordSelect, history
    <3>2. worker'[w].at \in In => worker[w].at \in In
      BY <1>0, <2>5, IdleType DEF Crash, RecordSelect, Finish, Goto
    <3> QED
      BY <2>1, <2>2, <3>1, <3>2
  <2>6. CASE RecordCommit(w)
    <3>1. worker[w].at = "store" /\ worker'[w].at = "idle" /\ UNCHANGED succeeded
      BY <1>0, <2>6, IdleType DEF RecordCommit, Finish, Goto, history
    <3>2. approval'[q].exec \in {approval[q].exec, worker[w].arg}
      BY <1>0, <2>6 DEF RecordCommit, Rows
    <3> QED
      BY <2>2, <3>1, <3>2
  <2>7. CASE CallBlocked(w) \/ CallFailed(w) \/ CallTimesOut(w)
    <3>1. worker[w].at = "call" /\ UNCHANGED <<approval, succeeded>>
      BY <2>7 DEF CallBlocked, CallFailed, CallTimesOut, TakeEffect, history
    <3>2. PICK result \in {"failed", "blocked"} : Return(w, result)
      BY <1>5, <2>7 DEF CallBlocked, CallFailed, CallTimesOut
    <3>3. worker'[w].at = "record"
      BY <1>0, <3>2 DEF Return, Goto, Advance, Frame
    <3> QED
      BY <2>1, <3>1, <3>3
  <2>8. CASE /\ worker[w].at \notin In
             /\ ~(Claim(w) /\ Claimable(approval[q]))
    <3>1. worker'[w].at \notin In
      BY <1>0, <1>5, <2>8, StepControl
    <3>2. succeeded'[q] = succeeded[q]
      BY <2>8
      DEF Step, Link, Expire, DecideCommit, DecideRollback, EditCommit, EditRollback,
          ExecuteDecided, Claim, CallBlocked, CallFailed, CallTimesOut, CallSucceeds,
          TakeEffect, RecordSelect, RecordCommit, Crash, history
    <3>3. approval'[q].exec = approval[q].exec
      <4>1. CASE Claim(w)
        BY <2>8, <4>1 DEF Claim
      <4>2. CASE ~Claim(w)
        <5>1. ~RecordCommit(w)
          BY <2>8 DEF RecordCommit
        <5> QED
          BY <1>0, <4>2, <5>1, StepExec
      <4> QED
        BY <4>1, <4>2
    <3> QED
      BY <2>1, <2>8, <3>1, <3>2, <3>3
  <2> QED
    BY <2>3, <2>4, <2>5, <2>6, <2>7, <2>8
    DEF Step, Link, Expire, DecideCommit, DecideRollback, EditCommit, EditRollback,
        ExecuteDecided, Claim
<1> QED
  BY <1>4, <1>5

\* Starting a handler, creating a request and the clock are stutters.
LEMMA StartSimulates ==
  ASSUME ~PowerCli, IndInv, NEW w \in Workers, NEW r \in Requests, Start(w, r)
  PROVE  UNCHANGED Reservation!avars
<1>0. TypeOK /\ FramesOK /\ ClaimOK
  BY DEF IndInv
<1>1. UNCHANGED succeeded
  BY <1>0, StartControl DEF history
<1>2. ASSUME NEW q \in Requests
      PROVE  PhaseOf(q)' = PhaseOf(q) /\ InsideOf(q)' = InsideOf(q) /\ WinsOf(q)' = WinsOf(q)
  <2>1. CASE approval'[q] = approval[q]
    <3>1. InsideOf(q)' = InsideOf(q)
      <4>1. /\ worker[w].at = "idle"
            /\ \A v \in Workers : v # w => worker'[v] = worker[v]
            /\ worker'[w].at \notin {"record", "store"}
        BY <1>0, StartControl
      <4>2. worker'[w].at = "call" => worker'[w].req = r /\ approval[r].kind # "power"
        BY <1>0, StartControl
      <4>3. approval[q].kind = "power" => Inside(q)' = Inside(q)
        BY <4>1, <4>2 DEF Inside
      <4> QED
        BY <2>1, <4>3 DEF InsideOf
    <3> QED
      BY <1>1, <2>1, <3>1 DEF PhaseOf, WinsOf
  <2>2. CASE approval'[q] # approval[q]
    <3>1. /\ q = r /\ approval[q].status = "absent"
          /\ approval'[q].exec = "not_started"
      BY <1>0, <2>2, StartControl DEF TypeOK
    <3>2. succeeded[q] = 0 /\ approval[q].exec = "not_started"
      BY <1>0, <3>1 DEF ClaimOK
    <3>3. Inside(q) = {} /\ Inside(q)' = {}
      <4>1. \A v \in Workers : v # w => worker'[v] = worker[v]
        BY <1>0, StartControl
      <4>2. Inside(q) = {}
        BY <1>0, <3>1 DEF Inside, FramesOK
      <4>3. w \notin Inside(q)'
        BY <1>0, <3>1, StartControl DEF Inside
      <4> QED
        BY <4>1, <4>2, <4>3 DEF Inside
    <3> QED
      BY <1>1, <3>1, <3>2, <3>3 DEF PhaseOf, InsideOf, WinsOf, Terminal
  <2> QED
    BY <2>1, <2>2
<1> QED
  BY <1>2, Stutters

\* The claim path of the Power Platform endpoints implements the exclusive
\* reservation: every behaviour of the approval handlers, mapped to phase,
\* holder and successes, is a behaviour of ExclusiveExecution.
THEOREM ClaimImplementsReservation ==
  ASSUME ~PowerCli
  PROVE  Spec => ImplementsReservation
<1>1. Init => Reservation!AInit
  BY IdleType DEF Init, Reservation!AInit, Inside, Terminal
<1>2. IndInv /\ IndInv' /\ [Next]_vars => [Reservation!ANext]_(Reservation!avars)
  <2> SUFFICES ASSUME IndInv, IndInv', [Next]_vars
               PROVE  Reservation!ANext \/ UNCHANGED Reservation!avars
    OBVIOUS
  <2>1. ASSUME NEW r \in Requests, Deadline(r)
        PROVE  UNCHANGED Reservation!avars
    BY <2>1, Stutters DEF Deadline, history, PhaseOf, InsideOf, WinsOf, Inside
  <2>2. CASE UNCHANGED vars
    BY <2>2, Stutters DEF vars, PhaseOf, InsideOf, WinsOf, Inside
  <2> QED
    BY <2>1, <2>2, StepSimulates, StartSimulates DEF Next
<1> QED
  BY <1>1, <1>2, Invariance, PTL DEF Spec, ImplementsReservation, Reservation!ASpec

-----------------------------------------------------------------------------
(***************************************************************************)
(* Handlers of one request that do not overlap.  What a handler read of    *)
(* its row is then still true when it writes, whatever other workers do    *)
(* with other requests at the same time.                                   *)
(***************************************************************************)

\* No two handlers of the same request are under way.
Apart ==
  \A v, w \in Workers :
    v # w /\ worker[v].at # "idle" /\ worker[w].at # "idle" => worker[v].req # worker[w].req

\* What a row, its run and the history say of each other.
RowAgrees(r) ==
  /\ approval[r].status = "absent" => workflow[r] = "none" /\ succeeded[r] = 0
  /\ workflow[r] # "none" => approval[r].kind = "workflow"
  /\ workflow[r] # "none" =>
       workflow[r] = IF approval[r].status = "expired" THEN "rejected"
                     ELSE WorkflowStatus(workflow[r], approval[r].status)
  /\ approval[r].status = "approved" => approval[r].payload \in reviewed[r]
  /\ written[r] \subseteq reviewed[r]

\* What the handler f relies on, in a table and its history of approvals.
StillTrue(f, table, seen) ==
  LET row == table[f.req]
  IN  /\ f.at = "link" => row.kind = "workflow" /\ row.status = "pending"
      /\ f.at = "expire" => row.status = "pending"
      /\ f.at = "decide" => /\ row.status = "pending" \/ row.kind = "workflow"
                            /\ row.status # "expired"
                            /\ f.lapsed => row.status = "pending"
      /\ f.at = "edit" => row.status = "pending"
      /\ f.at \in {"claim", "call"} => row.status = "approved" /\ f.sent \in seen[f.req]

SerialInv ==
  /\ IndInv
  /\ \A r \in Requests : RowAgrees(r)
  /\ \A w \in Workers : StillTrue(worker[w], approval, reviewed)

\* The body of DecisionIsFinal.
KeepsDecisions ==
  \A r \in Requests :
    approval[r].status \in {"approved", "rejected", "expired"} =>
      /\ approval'[r].payload = approval[r].payload
      /\ \/ approval'[r].status = approval[r].status
         \/ approval[r].kind = "workflow" /\ approval[r].status # "expired"

\* A step of w changes nothing the other handlers look at.
Untouched(w) ==
  \A v \in Workers \ {w} : worker[v].at # "idle" =>
    /\ approval'[worker[v].req] = approval[worker[v].req]
    /\ reviewed'[worker[v].req] = reviewed[worker[v].req]
    /\ succeeded'[worker[v].req] = succeeded[worker[v].req]

\* A handler that changes its own request only leaves the others alone.
LEMMA OthersUntouched ==
  ASSUME TypeOK, Apart, NEW w \in Workers, worker[w].at # "idle",
         \A q \in Requests \ {worker[w].req} : /\ approval'[q] = approval[q]
                                               /\ reviewed'[q] = reviewed[q]
                                               /\ succeeded'[q] = succeeded[q]
  PROVE  Untouched(w)
BY DEF TypeOK, Frames, Apart, Untouched

\* So does one that writes nothing.
LEMMA NothingTouched ==
  ASSUME UNCHANGED <<approval, reviewed, succeeded>>
  PROVE  \A w : Untouched(w)
BY DEF Untouched

\* The step of w keeps what the others rely on.
LEMMA OnlyHandler ==
  ASSUME SerialInv, NEW w \in Workers, Untouched(w), NEW f,
         worker' = [worker EXCEPT ![w] = f], StillTrue(f, approval', reviewed')
  PROVE  \A v \in Workers : StillTrue(worker[v], approval, reviewed)'
<1> SUFFICES ASSUME NEW v \in Workers PROVE StillTrue(worker'[v], approval', reviewed')
  OBVIOUS
<1>1. CASE v = w
  BY <1>1 DEF SerialInv, IndInv, TypeOK
<1>2. CASE v # w
  <2>1. worker'[v] = worker[v] /\ StillTrue(worker[v], approval, reviewed)
    BY <1>2 DEF SerialInv, IndInv, TypeOK
  <2>2. CASE worker[v].at = "idle"
    BY <2>1, <2>2 DEF StillTrue
  <2>3. CASE worker[v].at # "idle"
    BY <1>2, <2>1, <2>3 DEF Untouched, StillTrue
  <2> QED
    BY <2>2, <2>3
<1> QED
  BY <1>1, <1>2

\* An idle worker relies on nothing.
LEMMA IdleRelies == \A table, seen : StillTrue(Idle, table, seen)
BY IdleType DEF StillTrue

\* A step that leaves the table, the runs and the history alone.
LEMMA SerialRead ==
  ASSUME SerialInv, UNCHANGED <<approval, workflow, history>>,
         NEW w \in Workers, NEW f,
         worker' = [worker EXCEPT ![w] = f], StillTrue(f, approval, reviewed)
  PROVE  /\ \A r \in Requests : RowAgrees(r)'
         /\ \A v \in Workers : StillTrue(worker[v], approval, reviewed)'
         /\ KeepsDecisions
<1>1. approval' = approval /\ reviewed' = reviewed /\ succeeded' = succeeded
  BY DEF history
<1>2. \A v \in Workers : StillTrue(worker[v], approval, reviewed)'
  BY <1>1, NothingTouched, OnlyHandler
<1>3. \A r \in Requests : RowAgrees(r)'
  BY DEF SerialInv, RowAgrees, history
<1>4. KeepsDecisions
  BY <1>1 DEF KeepsDecisions
<1> QED
  BY <1>2, <1>3, <1>4

\* The handlers that read the row and go on with what it says.
LEMMA SerialSelect ==
  ASSUME SerialInv, NEW w \in Workers, NEW r \in Requests,
         \/ ReadOverdue(w, r) \/ EditSelect(w, r) \/ Execute(w, r) \/ ExecuteFromCli(w, r)
         \/ \E decision \in Decisions : DecideSelect(w, r, decision)
  PROVE  /\ \A q \in Requests : RowAgrees(q)'
         /\ \A v \in Workers : StillTrue(worker[v], approval, reviewed)'
         /\ KeepsDecisions
<1>1. UNCHANGED <<approval, workflow, history>>
  BY DEF ReadOverdue, EditSelect, Execute, ExecuteFromCli, DecideSelect
<1>0. RowAgrees(r)
  BY DEF SerialInv
<1>2. CASE ReadOverdue(w, r)
  <2>1. StillTrue(At("expire", r), approval, reviewed)
    BY <1>2 DEF ReadOverdue, Overdue, StillTrue, At, Frame
  <2> QED
    BY <1>1, <1>2, <2>1, SerialRead DEF ReadOverdue, Goto
<1>3. CASE EditSelect(w, r)
  <2> DEFINE f == Frame("edit", r, "none", Overdue(r), FALSE, 0)
  <2>1. StillTrue(f, approval, reviewed)
    BY <1>3 DEF EditSelect, StillTrue, Frame
  <2>2. worker' = [worker EXCEPT ![w] = f]
    BY <1>3 DEF EditSelect, Goto
  <2> HIDE DEF f
  <2> QED
    BY <1>1, <2>1, <2>2, SerialRead
<1>4. ASSUME NEW label \in {"claim", "call"}, approval[r].status = "approved",
             Goto(w, Frame(label, r, "none", FALSE, FALSE, approval[r].payload))
      PROVE  /\ \A q \in Requests : RowAgrees(q)'
             /\ \A v \in Workers : StillTrue(worker[v], approval, reviewed)'
             /\ KeepsDecisions
  <2> DEFINE f == Frame(label, r, "none", FALSE, FALSE, approval[r].payload)
  <2>1. StillTrue(f, approval, reviewed)
    BY <1>0, <1>4 DEF StillTrue, Frame, RowAgrees
  <2>2. worker' = [worker EXCEPT ![w] = f]
    BY <1>4 DEF Goto
  <2> HIDE DEF f
  <2> QED
    BY <1>1, <2>1, <2>2, SerialRead
<1>5. CASE Execute(w, r)
  BY <1>4, <1>5 DEF Execute, Executable, Proceed
<1>6. CASE ExecuteFromCli(w, r)
  BY <1>4, <1>6 DEF ExecuteFromCli
<1>7. ASSUME NEW decision \in Decisions, DecideSelect(w, r, decision)
      PROVE  /\ \A q \in Requests : RowAgrees(q)'
             /\ \A v \in Workers : StillTrue(worker[v], approval, reviewed)'
             /\ KeepsDecisions
  <2> DEFINE f == Frame("decide", r, decision, Overdue(r), workflow[r] # "none", 0)
  <2>1. StillTrue(f, approval, reviewed)
    BY <1>0, <1>7 DEF DecideSelect, StillTrue, Frame, RowAgrees, Overdue
  <2>2. worker' = [worker EXCEPT ![w] = f]
    BY <1>7 DEF DecideSelect, Goto
  <2> HIDE DEF f
  <2> QED
    BY <1>1, <2>1, <2>2, SerialRead
<1> QED
  BY <1>2, <1>3, <1>5, <1>6, <1>7

\* The steps of a handler that read, give up or hear from the provider.
LEMMA SerialGoesOn ==
  ASSUME SerialInv, NEW w \in Workers,
         \/ DecideRollback(w) \/ EditRollback(w) \/ ExecuteDecided(w)
         \/ CallBlocked(w) \/ CallFailed(w) \/ RecordSelect(w) \/ Crash(w)
  PROVE  /\ \A q \in Requests : RowAgrees(q)'
         /\ \A v \in Workers : StillTrue(worker[v], approval, reviewed)'
         /\ KeepsDecisions
<1> DEFINE r == worker[w].req
           Goal == /\ \A q \in Requests : RowAgrees(q)'
                   /\ \A v \in Workers : StillTrue(worker[v], approval, reviewed)'
                   /\ KeepsDecisions
<1>0. r \in Requests /\ RowAgrees(r)
  BY DEF SerialInv, IndInv, TypeOK, Frames
<1>1. UNCHANGED <<approval, workflow, history>>
  BY DEF DecideRollback, EditRollback, ExecuteDecided, CallBlocked, CallFailed, RecordSelect, Crash
<1>2. ASSUME Finish(w) PROVE Goal
  BY <1>1, <1>2, IdleRelies, SerialRead DEF Finish, Goto
<1>3. ASSUME NEW result, Return(w, result) PROVE Goal
  <2> DEFINE f == Advance(worker[w], "record", result, FALSE)
  <2>1. StillTrue(f, approval, reviewed)
    BY DEF StillTrue, Advance, Frame
  <2>2. worker' = [worker EXCEPT ![w] = f]
    BY <1>3 DEF Return, Goto
  <2> HIDE DEF f
  <2> QED
    BY <1>1, <2>1, <2>2, SerialRead
<1>4. ASSUME NEW label \in {"claim", "call"}, approval[r].status = "approved",
             Goto(w, Frame(label, r, "none", FALSE, FALSE, approval[r].payload))
      PROVE  Goal
  <2> DEFINE f == Frame(label, r, "none", FALSE, FALSE, approval[r].payload)
  <2>1. StillTrue(f, approval, reviewed)
    BY <1>0, <1>4 DEF StillTrue, Frame, RowAgrees
  <2>2. worker' = [worker EXCEPT ![w] = f]
    BY <1>4 DEF Goto
  <2> HIDE DEF f
  <2> QED
    BY <1>1, <2>1, <2>2, SerialRead
<1>5. ASSUME Overdue(r), Goto(w, At("expire", r)) PROVE Goal
  <2>1. StillTrue(At("expire", r), approval, reviewed)
    BY <1>5 DEF Overdue, StillTrue, At, Frame
  <2> QED
    BY <1>1, <1>5, <2>1, SerialRead DEF Goto
<1>6. ASSUME NEW b, Goto(w, Advance(worker[w], "store", worker[w].arg, b)) PROVE Goal
  <2> DEFINE f == Advance(worker[w], "store", worker[w].arg, b)
  <2>1. StillTrue(f, approval, reviewed)
    BY DEF StillTrue, Advance, Frame
  <2>2. worker' = [worker EXCEPT ![w] = f]
    BY <1>6 DEF Goto
  <2> HIDE DEF f
  <2> QED
    BY <1>1, <2>1, <2>2, SerialRead
<1> HIDE DEF Goal
<1>7. ASSUME DecideRollback(w) \/ EditRollback(w) \/ Crash(w) PROVE Goal
  BY <1>2, <1>7 DEF DecideRollback, EditRollback, Crash
<1>8. ASSUME CallBlocked(w) \/ CallFailed(w) PROVE Goal
  BY <1>2, <1>3, <1>8 DEF CallBlocked, CallFailed
<1>9. ASSUME RecordSelect(w) PROVE Goal
  BY <1>2, <1>6, <1>9 DEF RecordSelect
<1>10. ASSUME ExecuteDecided(w) PROVE Goal
  <2>1. ASSUME Overdue(r) PROVE Goal
    BY <1>5, <1>10, <2>1 DEF ExecuteDecided, Overdue, Executable
  <2>2. ASSUME ~Overdue(r) /\ Executable(approval[r]) PROVE Goal
    <3>1. Proceed(w, r)
      BY <1>10, <2>2 DEF ExecuteDecided
    <3> QED
      BY <1>4, <2>2, <3>1 DEF Proceed, Executable
  <2>3. ASSUME ~Overdue(r) /\ ~Executable(approval[r]) PROVE Goal
    BY <1>2, <1>10, <2>3 DEF ExecuteDecided
  <2> QED
    BY <2>1, <2>2, <2>3
<1> QED
  BY <1>7, <1>8, <1>9, <1>10 DEF Goal

\* Creating a request: only a workflow's handler goes on, to link its run.
LEMMA SerialCreate ==
  ASSUME SerialInv, NEW w \in Workers, NEW r \in Requests,
         NEW kind \in Kinds, Create(w, r, kind)
  PROVE  /\ \A q \in Requests : RowAgrees(q)'
         /\ \A v \in Workers : StillTrue(worker[v], approval, reviewed)'
         /\ KeepsDecisions
<1>0. TypeOK /\ RowAgrees(r) /\ approval[r].status = "absent"
  BY DEF SerialInv, IndInv, Create
<1>1. /\ \A q \in Requests \ {r} : approval'[q] = approval[q]
      /\ approval'[r] = [kind |-> kind, status |-> "pending",
                         exec |-> "not_started", payload |-> 0]
      /\ UNCHANGED <<overdue, workflow, applied, succeeded, reviewed, written>>
  BY <1>0 DEF Create, TypeOK, history
<1>2. \A q \in Requests : RowAgrees(q)'
  <2>1. RowAgrees(r)'
    BY <1>0, <1>1 DEF RowAgrees
  <2>2. \A q \in Requests \ {r} : RowAgrees(q)'
    BY <1>1 DEF SerialInv, RowAgrees
  <2> QED
    BY <2>1, <2>2
<1>3. KeepsDecisions
  BY <1>0, <1>1 DEF KeepsDecisions
<1>u. Untouched(w)
  BY <1>0, <1>1 DEF SerialInv, IndInv, FramesOK, TypeOK, Frames, Untouched
<1>4. CASE kind = "workflow"
  <2>1. worker' = [worker EXCEPT ![w] = At("link", r)]
    BY <1>4 DEF Create, Goto
  <2>2. StillTrue(At("link", r), approval', reviewed')
    BY <1>1, <1>4 DEF StillTrue, At, Frame
  <2> QED
    BY <1>u, <1>2, <1>3, <2>1, <2>2, OnlyHandler
<1>5. CASE kind # "workflow"
  <2>1. worker' = [worker EXCEPT ![w] = worker[w]] /\ worker[w].at = "idle"
    BY <1>0, <1>5 DEF Create, IsIdle, TypeOK
  <2>2. StillTrue(worker[w], approval', reviewed')
    BY <2>1 DEF StillTrue
  <2>3. \A v \in Workers : StillTrue(worker[v], approval, reviewed)'
    BY <1>u, <2>1, <2>2, OnlyHandler
  <2> QED
    BY <1>2, <1>3, <2>3
<1> QED
  BY <1>4, <1>5

\* The writes of a handler that ends with them.
LEMMA SerialLink ==
  ASSUME SerialInv, Apart, NEW w \in Workers, Link(w) \/ Expire(w)
  PROVE  /\ \A q \in Requests : RowAgrees(q)'
         /\ \A v \in Workers : StillTrue(worker[v], approval, reviewed)'
         /\ KeepsDecisions
<1>r. PICK r \in Requests : r = worker[w].req
  BY DEF SerialInv, IndInv, TypeOK, Frames
<1>0. /\ TypeOK /\ r \in Requests /\ RowAgrees(r)
      /\ StillTrue(worker[w], approval, reviewed) /\ approval[r] \in Rows
  BY <1>r DEF SerialInv, IndInv, TypeOK, Frames
<1>u. Untouched(w)
  BY <1>0, OthersUntouched DEF Link, Expire, TypeOK, history
<1>1. \A v \in Workers : StillTrue(worker[v], approval, reviewed)'
  BY <1>u, IdleRelies, OnlyHandler DEF Link, Expire, Finish, Goto
<1>2. approval[r].status = "pending"
  BY <1>r, <1>0 DEF Link, Expire, StillTrue
<1>3. CASE Link(w)
  <2>1. /\ UNCHANGED <<approval, succeeded, reviewed, written>>
        /\ workflow'[r] = "pending_approval"
        /\ \A q \in Requests \ {r} : workflow'[q] = workflow[q]
    BY <1>r, <1>0, <1>3 DEF Link, TypeOK, history
  <2>2. RowAgrees(r)'
    BY <1>0, <1>2, <1>3, <2>1 DEF RowAgrees, Link, StillTrue, WorkflowStatus
  <2>3. \A q \in Requests \ {r} : RowAgrees(q)'
    BY <2>1 DEF SerialInv, RowAgrees
  <2>4. KeepsDecisions
    BY <2>1 DEF KeepsDecisions
  <2> QED
    BY <1>1, <2>2, <2>3, <2>4
<1>4. CASE Expire(w)
  <2>1. /\ UNCHANGED <<succeeded, reviewed, written>>
        /\ approval'[r] = ExpireRow(approval[r])
        /\ \A q \in Requests \ {r} : approval'[q] = approval[q]
        /\ workflow'[r] = ExpireRun(workflow[r])
        /\ \A q \in Requests \ {r} : workflow'[q] = workflow[q]
    BY <1>r, <1>0, <1>4 DEF Expire, TypeOK, history
  <2>2. approval'[r].status = "expired" /\ approval'[r].kind = approval[r].kind
    BY <1>0, <1>2, <2>1 DEF ExpireRow, Rows
  <2>3. RowAgrees(r)'
    BY <1>0, <1>2, <2>1, <2>2 DEF RowAgrees, ExpireRun
  <2>4. \A q \in Requests \ {r} : RowAgrees(q)'
    BY <2>1 DEF SerialInv, RowAgrees
  <2>5. KeepsDecisions
    BY <1>2, <2>1 DEF KeepsDecisions
  <2> QED
    BY <1>1, <2>3, <2>4, <2>5
<1> QED
  BY <1>3, <1>4

\* The decision: the row is pending, or a workflow run waits on it.
LEMMA SerialDecide ==
  ASSUME SerialInv, Apart, NEW w \in Workers, DecideCommit(w)
  PROVE  /\ \A q \in Requests : RowAgrees(q)'
         /\ \A v \in Workers : StillTrue(worker[v], approval, reviewed)'
         /\ KeepsDecisions
<1>r. PICK r \in Requests : r = worker[w].req
  BY DEF SerialInv, IndInv, TypeOK, Frames
<1> DEFINE decision == worker[w].arg
<1>0. /\ TypeOK /\ r \in Requests /\ RowAgrees(r) /\ decision \in Decisions
      /\ StillTrue(worker[w], approval, reviewed) /\ approval[r] \in Rows
      /\ approval[r].status # "absent"
  BY <1>r DEF SerialInv, IndInv, TypeOK, Frames, FramesOK, DecideCommit
<1>1. /\ approval[r].status \notin {"absent", "expired"}
      /\ approval[r].status = "pending" \/ approval[r].kind = "workflow"
  BY <1>r, <1>0 DEF DecideCommit, StillTrue
<1>2. /\ UNCHANGED <<succeeded, written>>
      /\ approval'[r] = [approval[r] EXCEPT !.status = decision]
      /\ \A q \in Requests \ {r} : approval'[q] = approval[q]
      /\ workflow'[r] = WorkflowStatus(workflow[r], decision)
      /\ \A q \in Requests \ {r} : workflow'[q] = workflow[q]
  BY <1>r, <1>0 DEF DecideCommit, TypeOK
<1>3. /\ approval'[r].status = decision
      /\ approval'[r].kind = approval[r].kind
      /\ approval'[r].payload = approval[r].payload
  BY <1>0, <1>2 DEF Rows
<1>4. /\ \A q \in Requests \ {r} : reviewed'[q] = reviewed[q]
      /\ reviewed[r] \subseteq reviewed'[r]
      /\ decision = "approved" => approval[r].payload \in reviewed'[r]
  BY <1>r, <1>0 DEF DecideCommit, TypeOK
<1>5. RowAgrees(r)'
  BY <1>0, <1>2, <1>3, <1>4 DEF RowAgrees, WorkflowStatus, Decisions
<1>6. \A q \in Requests \ {r} : RowAgrees(q)'
  BY <1>2, <1>4 DEF SerialInv, RowAgrees
<1>7. KeepsDecisions
  BY <1>1, <1>2, <1>3 DEF KeepsDecisions
<1>8. \A v \in Workers : StillTrue(worker[v], approval, reviewed)'
  <2>1. StillTrue(At("check", r), approval', reviewed')
    BY DEF StillTrue, At, Frame
  <2>2. \/ worker' = [worker EXCEPT ![w] = Idle]
        \/ worker' = [worker EXCEPT ![w] = At("check", r)]
    BY <1>r DEF DecideCommit, Goto
  <2>3. Untouched(w)
    BY <1>r, <1>0, <1>2, <1>4, OthersUntouched DEF DecideCommit
  <2> QED
    BY <2>1, <2>2, <2>3, IdleRelies, OnlyHandler
<1> QED
  BY <1>5, <1>6, <1>7, <1>8

\* The edit: the row is still pending.
LEMMA SerialEdit ==
  ASSUME SerialInv, Apart, NEW w \in Workers, EditCommit(w)
  PROVE  /\ \A q \in Requests : RowAgrees(q)'
         /\ \A v \in Workers : StillTrue(worker[v], approval, reviewed)'
         /\ KeepsDecisions
<1>r. PICK r \in Requests : r = worker[w].req
  BY DEF SerialInv, IndInv, TypeOK, Frames
<1>0. /\ TypeOK /\ r \in Requests /\ RowAgrees(r)
      /\ StillTrue(worker[w], approval, reviewed) /\ approval[r] \in Rows
  BY <1>r DEF SerialInv, IndInv, TypeOK, Frames
<1>1. approval[r].status = "pending"
  BY <1>r, <1>0 DEF EditCommit, StillTrue
<1>2. /\ UNCHANGED <<workflow, succeeded, reviewed, written>>
      /\ approval'[r].status = approval[r].status
      /\ approval'[r].kind = approval[r].kind
      /\ \A q \in Requests \ {r} : approval'[q] = approval[q]
  BY <1>r, <1>0 DEF EditCommit, TypeOK, Rows, history
<1>3. RowAgrees(r)'
  BY <1>0, <1>1, <1>2 DEF RowAgrees
<1>4. \A q \in Requests \ {r} : RowAgrees(q)'
  BY <1>2 DEF SerialInv, RowAgrees
<1>5. KeepsDecisions
  BY <1>1, <1>2 DEF KeepsDecisions
<1>6. \A v \in Workers : StillTrue(worker[v], approval, reviewed)'
  <2>1. Untouched(w)
    BY <1>r, <1>0, <1>2, OthersUntouched DEF EditCommit
  <2> QED
    BY <2>1, IdleRelies, OnlyHandler DEF EditCommit, Finish, Goto
<1> QED
  BY <1>3, <1>4, <1>5, <1>6

\* The claim and the record change the execution status of a row only.
LEMMA SerialExec ==
  ASSUME SerialInv, Apart, NEW w \in Workers, Claim(w) \/ RecordCommit(w)
  PROVE  /\ \A q \in Requests : RowAgrees(q)'
         /\ \A v \in Workers : StillTrue(worker[v], approval, reviewed)'
         /\ KeepsDecisions
<1>r. PICK r \in Requests : r = worker[w].req
  BY DEF SerialInv, IndInv, TypeOK, Frames
<1> DEFINE f == Advance(worker[w], "call", "none", FALSE)
<1>0. /\ TypeOK /\ r \in Requests
      /\ StillTrue(worker[w], approval, reviewed)
      /\ \A q \in Requests : approval[q] \in Rows
  BY <1>r DEF SerialInv, IndInv, TypeOK, Frames
<1>1. /\ UNCHANGED <<workflow, succeeded, reviewed, written>>
      /\ \A q \in Requests : /\ approval'[q].status = approval[q].status
                             /\ approval'[q].kind = approval[q].kind
                             /\ approval'[q].payload = approval[q].payload
      /\ \A q \in Requests \ {r} : approval'[q] = approval[q]
  <2>1. UNCHANGED <<workflow, succeeded, reviewed, written>>
    BY DEF Claim, RecordCommit, history
  <2>2. \/ approval' = approval
        \/ approval' = [approval EXCEPT ![r].exec = "running"]
        \/ approval' = [approval EXCEPT ![r].exec = worker[w].arg]
    BY <1>r DEF Claim, RecordCommit
  <2>3. \A q \in Requests \ {r} : approval'[q] = approval[q]
    BY <1>0, <2>2 DEF TypeOK
  <2>4. /\ approval'[r].status = approval[r].status
        /\ approval'[r].kind = approval[r].kind
        /\ approval'[r].payload = approval[r].payload
    BY <1>0, <2>2 DEF TypeOK, Rows
  <2> QED
    BY <2>1, <2>3, <2>4
<1>2. \A q \in Requests : RowAgrees(q)'
  BY <1>1 DEF SerialInv, RowAgrees
<1>3. KeepsDecisions
  BY <1>1 DEF KeepsDecisions
<1>4. \A v \in Workers : StillTrue(worker[v], approval, reviewed)'
  <2>1. \/ worker' = [worker EXCEPT ![w] = Idle]
        \/ worker' = [worker EXCEPT ![w] = f] /\ worker[w].at = "claim"
    BY DEF Claim, RecordCommit, Finish, Goto
  <2>2. worker[w].at = "claim" => StillTrue(f, approval', reviewed')
    BY <1>r, <1>0, <1>1 DEF StillTrue, Advance, Frame
  <2> HIDE DEF f
  <2>3. Untouched(w)
    BY <1>r, <1>0, <1>1, OthersUntouched DEF Claim, RecordCommit
  <2> QED
    BY <2>1, <2>2, <2>3, IdleRelies, OnlyHandler
<1> QED
  BY <1>2, <1>3, <1>4

\* A write that takes effect sends what was approved.
LEMMA SerialCall ==
  ASSUME SerialInv, Apart, NEW w \in Workers,
         CallTimesOut(w) \/ \E result \in Terminal : CallSucceeds(w, result)
  PROVE  /\ \A q \in Requests : RowAgrees(q)'
         /\ \A v \in Workers : StillTrue(worker[v], approval, reviewed)'
         /\ KeepsDecisions
<1>r. PICK r \in Requests : r = worker[w].req
  BY DEF SerialInv, IndInv, TypeOK, Frames
<1>0. /\ TypeOK /\ r \in Requests /\ RowAgrees(r)
      /\ StillTrue(worker[w], approval, reviewed)
  BY <1>r DEF SerialInv, IndInv, TypeOK, Frames
<1>1. /\ approval[r].status = "approved"
      /\ worker[w].sent \in reviewed[r]
  BY <1>r, <1>0 DEF CallTimesOut, CallSucceeds, TakeEffect, StillTrue
<1>2. /\ UNCHANGED <<approval, workflow, reviewed>>
      /\ written' = [written EXCEPT ![r] = @ \cup {worker[w].sent}]
      /\ succeeded' = succeeded \/ succeeded' = [succeeded EXCEPT ![r] = @ + 1]
  BY <1>r DEF CallTimesOut, CallSucceeds, TakeEffect
<1>3. RowAgrees(r)'
  BY <1>0, <1>1, <1>2 DEF RowAgrees, TypeOK
<1>4. \A q \in Requests \ {r} : RowAgrees(q)'
  BY <1>0, <1>2 DEF SerialInv, RowAgrees, TypeOK
<1>5. KeepsDecisions
  BY <1>2 DEF KeepsDecisions
<1>6. PICK result : worker' = [worker EXCEPT ![w] = Advance(worker[w], "record", result, FALSE)]
  BY DEF CallTimesOut, CallSucceeds, Return, Goto
<1>7. \A v \in Workers : StillTrue(worker[v], approval, reviewed)'
  <2> DEFINE f == Advance(worker[w], "record", result, FALSE)
  <2>1. StillTrue(f, approval', reviewed')
    BY DEF StillTrue, Advance, Frame
  <2>2. worker' = [worker EXCEPT ![w] = f]
    BY <1>6
  <2> HIDE DEF f
  <2>3. Untouched(w)
    BY <1>r, <1>0, <1>2, OthersUntouched
       DEF CallTimesOut, CallSucceeds, TakeEffect, TypeOK
  <2> QED
    BY <2>1, <2>2, <2>3, OnlyHandler
<1> QED
  BY <1>3, <1>4, <1>5, <1>7

\* Every step of handlers of different requests keeps the invariant and what
\* was decided.
LEMMA SerialNext ==
  ASSUME SerialInv, Apart, [Next]_vars
  PROVE  SerialInv' /\ KeepsDecisions
<1> DEFINE Goal == /\ \A q \in Requests : RowAgrees(q)'
                   /\ \A v \in Workers : StillTrue(worker[v], approval, reviewed)'
                   /\ KeepsDecisions
<1>0. IndInv'
  BY NextIndInv DEF SerialInv
<1>1. SUFFICES Goal
  BY <1>0 DEF SerialInv
<1>2. CASE UNCHANGED vars \/ \E r \in Requests : Deadline(r)
  <2>1. UNCHANGED <<approval, workflow, worker, succeeded, reviewed, written>>
    BY <1>2 DEF vars, Deadline, history
  <2> QED
    BY <2>1 DEF SerialInv, RowAgrees, StillTrue, KeepsDecisions
<1>3. ASSUME NEW w \in Workers, Step(w) \/ Crash(w) PROVE Goal
  BY <1>3, SerialLink, SerialDecide, SerialEdit, SerialExec, SerialCall, SerialGoesOn DEF Step
<1>4. ASSUME NEW w \in Workers, NEW r \in Requests, Start(w, r) PROVE Goal
  <2>1. CASE \E kind \in Kinds : Create(w, r, kind)
    BY <2>1, SerialCreate
  <2>2. CASE ~\E kind \in Kinds : Create(w, r, kind)
    BY <1>4, <2>2, SerialSelect DEF Start
  <2> QED
    BY <2>1, <2>2
<1> QED
  BY <1>2, <1>3, <1>4 DEF Next

\* Nothing has been created yet.
LEMMA InitSerialInv == Init => SerialInv
<1> SUFFICES ASSUME Init PROVE SerialInv
  OBVIOUS
<1>1. \A r \in Requests : RowAgrees(r)
  BY DEF Init, RowAgrees
<1>2. \A w \in Workers : StillTrue(worker[w], approval, reviewed)
  BY IdleRelies DEF Init
<1> QED
  BY <1>1, <1>2, InitIndInv DEF SerialInv

\* If handlers of one request do not overlap, what reaches a provider is a
\* payload that was stored when somebody approved the request, wherever
\* workers die and whatever handlers of other requests do meanwhile.
THEOREM ApprovedPayloadIsWritten == Spec /\ []Apart => []WritesWhatWasApproved
<1>1. SerialInv /\ Apart /\ [Next]_vars => SerialInv'
  BY SerialNext
<1>2. SerialInv => WritesWhatWasApproved
  BY DEF SerialInv, RowAgrees, WritesWhatWasApproved
<1> QED
  BY <1>1, <1>2, InitSerialInv, PTL DEF Spec

\* If handlers of one request do not overlap, the run a workflow waits on
\* never shows anything but the decision on its request, or its expiry.
THEOREM RunShowsDecision == Spec /\ []Apart => []RunFollowsDecision
<1>1. SerialInv /\ Apart /\ [Next]_vars => SerialInv'
  BY SerialNext
<1>2. SerialInv => RunFollowsDecision
  BY DEF SerialInv, RowAgrees, RunFollowsDecision, OfKind
<1> QED
  BY <1>1, <1>2, InitSerialInv, PTL DEF Spec

\* If handlers of one request do not overlap, neither a decision nor an
\* expiry nor the payload they were about is ever changed, but for the
\* decisions a workflow run waits on.
THEOREM DecisionsAreFinal == Spec /\ []Apart => DecisionIsFinal
<1>1. SerialInv /\ Apart /\ [Next]_vars => SerialInv'
  BY SerialNext
<1>2. SerialInv /\ Apart /\ [Next]_vars => [KeepsDecisions]_vars
  BY SerialNext
<1> QED
  BY <1>1, <1>2, InitSerialInv, PTL DEF Spec, DecisionIsFinal, KeepsDecisions

-----------------------------------------------------------------------------
(***************************************************************************)
(* One success per request, if its handlers do not overlap.  A worker that *)
(* dies between a success of the provider and the UPDATE leaves a row that *)
(* lets the next execution through; any other crash is harmless.           *)
(***************************************************************************)

\* The kinds all of whose execute functions look at the prior execution.
Checked == {"psa", "m365", "runbook"}

\* Requests succeed at most once, with a status their kind can have.
RowSays(row, wins) ==
  row.kind \in Checked =>
    /\ wins \in {0, 1}
    /\ row.kind # "psa" /\ row.exec \in Terminal => row.exec = "succeeded"

\* Has f the answer of the provider, not yet recorded, for r?
Recording(f, r) == f.req = r /\ f.at \in {"record", "store"}

\* The row of a request that has succeeded says so, or a handler will.
Shown(r) ==
  approval[r].kind \in Checked /\ succeeded[r] = 1 =>
    approval[r].exec \in Terminal \/ \E w \in Workers : Recording(worker[w], r)

\* The same of a row and its history, if w goes on as f and the others stay.
Told(w, f, r, row, wins) ==
  row.kind \in Checked /\ wins = 1 =>
    \/ row.exec \in Terminal
    \/ Recording(f, r)
    \/ \E v \in Workers \ {w} : Recording(worker[v], r)

\* A call of f would be the first to succeed; an answer f has will be recorded.
AnswerStands(f, row, wins) ==
  row.kind \in Checked =>
    /\ f.at = "call" => wins = 0
    /\ f.at \in {"record", "store"} =>
         /\ row.status = "approved"
         /\ f.arg \in Terminal <=> wins = 1
         /\ row.kind # "psa" /\ f.arg \in Terminal => f.arg = "succeeded"
    /\ f.at = "store" => ~f.lapsed

OnceInv ==
  /\ SerialInv
  /\ \A r \in Requests : RowSays(approval[r], succeeded[r]) /\ Shown(r)
  /\ \A w \in Workers :
       AnswerStands(worker[w], approval[worker[w].req], succeeded[worker[w].req])

\* A worker dies with a success it has not recorded.
LosesSuccess ==
  \E w \in Workers :
    Crash(w) /\ worker[w].at \in {"record", "store"} /\ worker[w].arg \in Terminal

\* The step of w keeps the answers of the others.
LEMMA OnlyAnswer ==
  ASSUME OnceInv, SerialInv', NEW w \in Workers, Untouched(w), NEW f,
         worker' = [worker EXCEPT ![w] = f],
         AnswerStands(f, approval'[f.req], succeeded'[f.req]),
         \A r \in Requests : RowSays(approval'[r], succeeded'[r]),
         \A r \in Requests : Told(w, f, r, approval'[r], succeeded'[r])
  PROVE  OnceInv'
<1>1. worker'[w] = f /\ \A v \in Workers \ {w} : worker'[v] = worker[v]
  BY DEF OnceInv, SerialInv, IndInv, TypeOK
<1>2. \A r \in Requests : Shown(r)'
  BY <1>1 DEF Shown, Told
<1>3. ASSUME NEW v \in Workers
      PROVE  AnswerStands(worker'[v], approval'[worker'[v].req], succeeded'[worker'[v].req])
  <2>1. CASE v = w
    BY <1>1, <2>1
  <2>2. CASE v # w /\ worker[v].at = "idle"
    BY <1>1, <2>2 DEF AnswerStands
  <2>3. CASE v # w /\ worker[v].at # "idle"
    BY <1>1, <2>3 DEF OnceInv, Untouched
  <2> QED
    BY <2>1, <2>2, <2>3
<1> QED
  BY <1>2, <1>3 DEF OnceInv

\* A step after which the rows say the same of the executions, of a worker
\* that takes an answer with it or had none that matters.
LEMMA OnceQuiet ==
  ASSUME OnceInv, SerialInv', NEW w \in Workers, Untouched(w), NEW f,
         worker' = [worker EXCEPT ![w] = f],
         AnswerStands(f, approval'[f.req], succeeded'[f.req]),
         succeeded' = succeeded,
         \A r \in Requests : /\ approval'[r].kind = approval[r].kind
                             /\ approval'[r].exec = approval[r].exec,
         \A r \in Requests : Recording(worker[w], r) =>
            Recording(f, r) \/ approval[r].kind \notin Checked \/ succeeded[r] # 1
  PROVE  OnceInv'
<1>1. \A r \in Requests : RowSays(approval'[r], succeeded'[r])
  BY DEF OnceInv, RowSays
<1>2. \A r \in Requests : Told(w, f, r, approval'[r], succeeded'[r])
  BY DEF OnceInv, Shown, Told
<1> QED
  BY <1>1, <1>2, OnlyAnswer

\* No answer is needed of a worker that is not at the provider.
LEMMA NothingStands ==
  ASSUME NEW f, f.at \notin {"call", "record", "store"}
  PROVE  \A row, wins : AnswerStands(f, row, wins)
BY DEF AnswerStands

\* An execution that passes its checks has not succeeded before.
LEMMA FirstSuccess ==
  ASSUME OnceInv, NEW r \in Requests, \A v \in Workers : ~Recording(worker[v], r),
         Executable(approval[r]) \/ Claimable(approval[r]), approval[r].kind \in Checked
  PROVE  succeeded[r] = 0
<1>1. approval[r].exec \notin Terminal
  <2>1. approval[r].kind # "psa" /\ approval[r].exec \in Terminal =>
          approval[r].exec = "succeeded"
    BY DEF OnceInv, RowSays
  <2> QED
    BY <2>1 DEF Executable, PriorStateAllows, Claimable, Checked, Terminal
<1>2. succeeded[r] \in {0, 1} /\ Shown(r)
  BY DEF OnceInv, RowSays
<1> QED
  BY <1>1, <1>2 DEF Shown

\* A handler that starts or goes on to call the provider.
LEMMA OnceProceed ==
  ASSUME OnceInv, Apart', SerialInv', NEW w \in Workers, NEW r \in Requests,
         worker[w].at \notin {"record", "store"}, UNCHANGED <<approval, reviewed, succeeded>>,
         Executable(approval[r]) \/ approval[r].kind = "power", NEW label \in {"claim", "call"},
         Goto(w, Frame(label, r, "none", FALSE, FALSE, approval[r].payload))
  PROVE  OnceInv'
<1> DEFINE f == Frame(label, r, "none", FALSE, FALSE, approval[r].payload)
<1>1. worker' = [worker EXCEPT ![w] = f]
  BY DEF Goto
<1>2. f.req = r /\ f.at = label
  BY DEF Frame
<1>4. \A q \in Requests : ~Recording(worker[w], q)
  BY DEF Recording
<1> HIDE DEF f
<1>5. \A v \in Workers : ~Recording(worker[v], r)
  <2>1. worker'[w] = f /\ \A v \in Workers \ {w} : worker'[v] = worker[v]
    BY <1>1 DEF OnceInv, SerialInv, IndInv, TypeOK
  <2> QED
    BY <1>2, <1>4, <2>1 DEF Apart, Recording
<1>3. AnswerStands(f, approval'[f.req], succeeded'[f.req])
  BY <1>2, <1>5, FirstSuccess DEF AnswerStands, Checked
<1> QED
  BY <1>1, <1>3, <1>4, NothingTouched, OnceQuiet

\* The starts of a handler.
LEMMA OnceStart ==
  ASSUME OnceInv, Apart', SerialInv', NEW w \in Workers, NEW r \in Requests, Start(w, r)
  PROVE  OnceInv'
<1>0. TypeOK /\ worker[w].at = "idle" /\ \A q \in Requests : ~Recording(worker[w], q)
  BY DEF OnceInv, SerialInv, IndInv, Start, Create, ReadOverdue, EditSelect, Execute,
         ExecuteFromCli, DecideSelect, IsIdle, Recording
<1>1. ASSUME NEW kind \in Kinds, Create(w, r, kind)
      PROVE  OnceInv'
  <2>1. /\ \A q \in Requests \ {r} : approval'[q] = approval[q]
        /\ approval'[r].kind = kind /\ approval'[r].exec = "not_started"
        /\ succeeded' = succeeded /\ reviewed' = reviewed
    BY <1>0, <1>1 DEF Create, TypeOK, history
  <2>u. Untouched(w)
    BY <1>0, <1>1, <2>1 DEF OnceInv, SerialInv, IndInv, FramesOK, TypeOK, Frames, Untouched, Create
  <2>2. succeeded[r] = 0
    BY <1>1 DEF OnceInv, SerialInv, RowAgrees, Create
  <2>3. \A q \in Requests : RowSays(approval'[q], succeeded'[q])
    <3>1. RowSays(approval'[r], succeeded'[r])
      BY <2>1, <2>2 DEF RowSays, Terminal
    <3> QED
      BY <2>1, <3>1 DEF OnceInv
  <2>4. ASSUME NEW f PROVE \A q \in Requests : Told(w, f, q, approval'[q], succeeded'[q])
    <3>1. Told(w, f, r, approval'[r], succeeded'[r])
      BY <2>1, <2>2 DEF Told
    <3>2. \A q \in Requests \ {r} : Told(w, f, q, approval'[q], succeeded'[q])
      BY <1>0, <2>1 DEF OnceInv, Shown, Told
    <3> QED
      BY <3>1, <3>2
  <2>5. CASE kind = "workflow"
    <3>1. worker' = [worker EXCEPT ![w] = At("link", r)] /\ At("link", r).at = "link"
      BY <1>1, <2>5 DEF Create, Goto, At, Frame
    <3> QED
      BY <2>u, <2>3, <2>4, <3>1, NothingStands, OnlyAnswer
  <2>6. CASE kind # "workflow"
    <3>1. worker' = worker
      BY <1>1, <2>6 DEF Create
    <3>2. worker' = [worker EXCEPT ![w] = worker[w]]
      BY <1>0, <3>1 DEF TypeOK
    <3> QED
      BY <1>0, <2>u, <2>3, <2>4, <3>2, NothingStands, OnlyAnswer
  <2> QED
    BY <2>5, <2>6
<1>2. ASSUME NEW f, f.at \notin {"call", "record", "store"},
             UNCHANGED <<approval, reviewed, succeeded>>, worker' = [worker EXCEPT ![w] = f]
      PROVE  OnceInv'
  BY <1>0, <1>2, NothingTouched, NothingStands, OnceQuiet
<1>3. CASE ReadOverdue(w, r)
  <2>1. At("expire", r).at = "expire"
    BY DEF At, Frame
  <2> QED
    BY <1>2, <1>3, <2>1 DEF ReadOverdue, Goto, history
<1>4. CASE EditSelect(w, r)
  <2> DEFINE f == Frame("edit", r, "none", Overdue(r), FALSE, 0)
  <2>1. f.at = "edit" /\ worker' = [worker EXCEPT ![w] = f]
    BY <1>4 DEF EditSelect, Goto, Frame
  <2> HIDE DEF f
  <2> QED
    BY <1>2, <1>4, <2>1 DEF EditSelect, history
<1>5. ASSUME NEW decision \in Decisions, DecideSelect(w, r, decision)
      PROVE  OnceInv'
  <2> DEFINE f == Frame("decide", r, decision, Overdue(r), workflow[r] # "none", 0)
  <2>1. f.at = "decide" /\ worker' = [worker EXCEPT ![w] = f]
    BY <1>5 DEF DecideSelect, Goto, Frame
  <2> HIDE DEF f
  <2> QED
    BY <1>2, <1>5, <2>1 DEF DecideSelect, history
<1>6. CASE Execute(w, r)
  BY <1>0, <1>6, OnceProceed DEF Execute, Proceed, history
<1>7. CASE ExecuteFromCli(w, r)
  BY <1>0, <1>7, OnceProceed DEF ExecuteFromCli, history
<1> QED
  BY <1>1, <1>3, <1>4, <1>5, <1>6, <1>7 DEF Start

\* The steps of a handler before it calls the provider.
LEMMA OnceBefore ==
  ASSUME OnceInv, Apart, Apart', SerialInv', NEW w \in Workers,
         \/ Link(w) \/ Expire(w) \/ DecideCommit(w) \/ DecideRollback(w)
         \/ EditCommit(w) \/ EditRollback(w) \/ ExecuteDecided(w)
  PROVE  OnceInv'
<1>r. PICK r \in Requests : r = worker[w].req
  BY DEF OnceInv, SerialInv, IndInv, TypeOK, Frames
<1>0. /\ TypeOK /\ FramesOK /\ worker[w].at \notin {"record", "store"} /\ succeeded' = succeeded
      /\ \A q \in Requests : ~Recording(worker[w], q)
  BY DEF OnceInv, SerialInv, IndInv, Link, Expire, DecideCommit, DecideRollback, EditCommit,
         EditRollback, ExecuteDecided, Recording, history
<1>1. \A q \in Requests : /\ approval'[q].kind = approval[q].kind
                          /\ approval'[q].exec = approval[q].exec
  <2>1. Step(w) /\ ~Claim(w) /\ ~RecordCommit(w)
    BY DEF Step, Claim, RecordCommit, Link, Expire, DecideCommit, DecideRollback, EditCommit,
           EditRollback, ExecuteDecided
  <2> QED
    BY <1>0, <2>1, StepRows, StepExec
<1>u. Untouched(w)
  <2>1. \A q \in Requests \ {r} : approval'[q] = approval[q] /\ reviewed'[q] = reviewed[q]
    BY <1>r, <1>0 DEF Link, Expire, DecideCommit, DecideRollback, EditCommit, EditRollback,
                      ExecuteDecided, TypeOK, history
  <2>2. worker[w].at # "idle"
    BY DEF Link, Expire, DecideCommit, DecideRollback, EditCommit, EditRollback, ExecuteDecided
  <2> QED
    BY <1>r, <1>0, <2>1, <2>2, OthersUntouched
<1>2. ASSUME NEW f, f.at \notin {"call", "record", "store"}, worker' = [worker EXCEPT ![w] = f]
      PROVE  OnceInv'
  BY <1>0, <1>1, <1>2, <1>u, NothingStands, OnceQuiet
<1>3. /\ Idle.at = "idle" /\ At("check", r).at = "check" /\ At("expire", r).at = "expire"
  BY IdleType DEF At, Frame
<1>4. CASE Finish(w) \/ Goto(w, At("check", r)) \/ Goto(w, At("expire", r))
  BY <1>2, <1>3, <1>4 DEF Finish, Goto
<1>5. CASE Executable(approval[r]) /\ Proceed(w, r) /\ ExecuteDecided(w)
  BY <1>0, <1>5, OnceProceed DEF Proceed, ExecuteDecided, history
<1>6. CASE DecideCommit(w)
  BY <1>r, <1>4, <1>6 DEF DecideCommit, Finish
<1>7. CASE ExecuteDecided(w)
  <2>1. \/ Overdue(r) /\ ~Executable(approval[r])
        \/ ~Overdue(r)
    BY DEF Overdue, Executable
  <2> QED
    BY <1>r, <1>4, <1>5, <1>7, <2>1 DEF ExecuteDecided
<1> QED
  BY <1>4, <1>6, <1>7 DEF Link, Expire, DecideRollback, EditCommit, EditRollback

\* The claim.
LEMMA OnceClaim ==
  ASSUME OnceInv, Apart, SerialInv', NEW w \in Workers, Claim(w)
  PROVE  OnceInv'
<1>r. PICK r \in Requests : r = worker[w].req
  BY DEF OnceInv, SerialInv, IndInv, TypeOK, Frames
<1>0. /\ TypeOK /\ worker[w].at = "claim" /\ succeeded' = succeeded
      /\ \A q \in Requests : ~Recording(worker[w], q)
  BY DEF OnceInv, SerialInv, IndInv, Claim, Recording, history
<1>u. /\ Untouched(w)
      /\ \A v \in Workers : ~Recording(worker[v], r)
  <2>1. \A q \in Requests \ {r} : approval'[q] = approval[q] /\ reviewed'[q] = reviewed[q]
    BY <1>r, <1>0 DEF Claim, TypeOK, history
  <2>2. Untouched(w)
    BY <1>r, <1>0, <2>1, OthersUntouched
  <2> QED
    BY <1>r, <1>0, <2>2 DEF Apart, Recording
<1>1. CASE ~Claimable(approval[r])
  <2>1. worker' = [worker EXCEPT ![w] = Idle] /\ approval' = approval
    BY <1>r, <1>1 DEF Claim, Finish, Goto
  <2> QED
    BY <1>0, <1>u, <2>1, IdleType, NothingStands, OnceQuiet
<1>2. CASE Claimable(approval[r])
  <2> DEFINE f == Advance(worker[w], "call", "none", FALSE)
  <2>1. worker' = [worker EXCEPT ![w] = f] /\ f.req = r /\ f.at = "call"
    BY <1>r, <1>2 DEF Claim, Goto, Advance, Frame
  <2>2. /\ approval'[r].kind = approval[r].kind /\ approval'[r].exec = "running"
        /\ \A q \in Requests \ {r} : approval'[q] = approval[q]
    BY <1>r, <1>0, <1>2 DEF Claim, TypeOK, Rows
  <2>3. approval[r].kind \in Checked => succeeded[r] = 0
    BY <1>u, <1>2, FirstSuccess
  <2>4. AnswerStands(f, approval'[f.req], succeeded'[f.req])
    BY <1>0, <2>1, <2>2, <2>3 DEF AnswerStands
  <2> HIDE DEF f
  <2>5. \A q \in Requests : RowSays(approval'[q], succeeded'[q])
    <3>1. RowSays(approval'[r], succeeded'[r])
      BY <1>0, <2>2, <2>3 DEF RowSays, Terminal
    <3> QED
      BY <1>0, <2>2, <3>1 DEF OnceInv
  <2>6. \A q \in Requests : Told(w, f, q, approval'[q], succeeded'[q])
    <3>1. Told(w, f, r, approval'[r], succeeded'[r])
      BY <1>0, <2>2, <2>3 DEF Told
    <3>2. \A q \in Requests \ {r} : Told(w, f, q, approval'[q], succeeded'[q])
      BY <1>0, <2>2 DEF OnceInv, Shown, Told
    <3> QED
      BY <3>1, <3>2
  <2> QED
    BY <1>u, <2>1, <2>4, <2>5, <2>6, OnlyAnswer
<1> QED
  BY <1>1, <1>2

\* The provider's answers other than a confirmed success.
LEMMA OnceUnconfirmed ==
  ASSUME OnceInv, SerialInv', NEW w \in Workers,
         CallBlocked(w) \/ CallFailed(w) \/ CallTimesOut(w)
  PROVE  OnceInv'
<1>r. PICK r \in Requests : r = worker[w].req
  BY DEF OnceInv, SerialInv, IndInv, TypeOK, Frames
<1>0. /\ worker[w].at = "call" /\ UNCHANGED <<approval, succeeded>> /\ Untouched(w)
      /\ \A q \in Requests : ~Recording(worker[w], q)
  BY NothingTouched DEF CallBlocked, CallFailed, CallTimesOut, TakeEffect, Recording, history
<1>1. /\ StillTrue(worker[w], approval, reviewed)
      /\ AnswerStands(worker[w], approval[r], succeeded[r])
  BY <1>r DEF OnceInv, SerialInv
<1>2. CASE Finish(w)
  BY <1>0, <1>2, IdleType, NothingStands, OnceQuiet DEF Finish, Goto
<1>3. ASSUME NEW result \in {"failed", "blocked"}, Return(w, result) PROVE OnceInv'
  <2> DEFINE f == Advance(worker[w], "record", result, FALSE)
  <2>1. /\ worker' = [worker EXCEPT ![w] = f]
        /\ f.req = r /\ f.at = "record" /\ f.arg = result
    BY <1>r, <1>3 DEF Return, Goto, Advance, Frame
  <2> HIDE DEF f
  <2>2. /\ approval[r].status = "approved" /\ result \notin Terminal
        /\ approval[r].kind \in Checked => succeeded[r] = 0
    BY <1>r, <1>0, <1>1, <1>3 DEF AnswerStands, StillTrue, Terminal
  <2>3. AnswerStands(f, approval'[f.req], succeeded'[f.req])
    BY <1>0, <2>1, <2>2 DEF AnswerStands
  <2> QED
    BY <1>0, <2>1, <2>3, OnceQuiet
<1> QED
  BY <1>2, <1>3 DEF CallBlocked, CallFailed, CallTimesOut

\* A confirmed success, the first of its request.
LEMMA OnceSucceeds ==
  ASSUME OnceInv, Apart, SerialInv', NEW w \in Workers,
         NEW result \in Terminal, CallSucceeds(w, result)
  PROVE  OnceInv'
<1>r. PICK r \in Requests : r = worker[w].req
  BY DEF OnceInv, SerialInv, IndInv, TypeOK, Frames
<1> DEFINE f == Advance(worker[w], "record", result, FALSE)
<1>0. TypeOK /\ worker[w].at = "call" /\ approval' = approval
  BY DEF OnceInv, SerialInv, IndInv, CallSucceeds, TakeEffect
<1>1. /\ StillTrue(worker[w], approval, reviewed)
      /\ AnswerStands(worker[w], approval[r], succeeded[r])
  BY <1>r DEF OnceInv, SerialInv
<1>2. /\ approval[r].status = "approved"
      /\ approval[r].kind \in Checked => succeeded[r] = 0
  BY <1>r, <1>0, <1>1 DEF StillTrue, AnswerStands
<1>3. /\ succeeded'[r] = succeeded[r] + 1
      /\ \A q \in Requests \ {r} : succeeded'[q] = succeeded[q]
  BY <1>r, <1>0 DEF CallSucceeds, TypeOK
<1>4. /\ worker' = [worker EXCEPT ![w] = f]
      /\ f.req = r /\ f.at = "record" /\ f.arg = result
  BY <1>r DEF CallSucceeds, Return, Goto, Advance, Frame
<1>5. approval[r].kind # "psa" => result = "succeeded"
  BY <1>r DEF CallSucceeds
<1> HIDE DEF f
<1>6. AnswerStands(f, approval'[f.req], succeeded'[f.req])
  BY <1>0, <1>2, <1>3, <1>4, <1>5 DEF AnswerStands
<1>7. \A q \in Requests : RowSays(approval'[q], succeeded'[q])
  <2>1. RowSays(approval'[r], succeeded'[r])
    BY <1>0, <1>2, <1>3 DEF RowSays, OnceInv
  <2> QED
    BY <1>0, <1>3, <2>1 DEF OnceInv
<1>8. \A q \in Requests : Told(w, f, q, approval'[q], succeeded'[q])
  <2>1. Told(w, f, r, approval'[r], succeeded'[r])
    BY <1>4 DEF Told, Recording
  <2>2. \A q \in Requests \ {r} : Told(w, f, q, approval'[q], succeeded'[q])
    BY <1>0, <1>3 DEF OnceInv, Shown, Told, Recording
  <2> QED
    BY <2>1, <2>2
<1>9. Untouched(w)
  BY <1>r, <1>0, <1>3, OthersUntouched DEF CallSucceeds
<1> QED
  BY <1>4, <1>6, <1>7, <1>8, <1>9, OnlyAnswer

\* The SELECT of the record finds the approved row again ...
LEMMA OnceRecordSelect ==
  ASSUME OnceInv, SerialInv', NEW w \in Workers, RecordSelect(w)
  PROVE  OnceInv'
<1>r. PICK r \in Requests : r = worker[w].req
  BY DEF OnceInv, SerialInv, IndInv, TypeOK, Frames
<1>0. worker[w].at = "record" /\ UNCHANGED <<approval, succeeded>> /\ Untouched(w)
  BY NothingTouched DEF RecordSelect, history
<1>1. AnswerStands(worker[w], approval[r], succeeded[r])
  BY <1>r DEF OnceInv
<1>2. approval[r].kind \in Checked => approval[r].status = "approved" /\ ~Overdue(r)
  BY <1>0, <1>1 DEF AnswerStands, Overdue
<1>3. CASE approval[r].status = "expired"
  <2>1. worker' = [worker EXCEPT ![w] = Idle]
    BY <1>r, <1>3 DEF RecordSelect, Finish, Goto
  <2>2. \A q \in Requests : Recording(worker[w], q) => approval[q].kind \notin Checked
    BY <1>r, <1>2, <1>3 DEF Recording
  <2> QED
    BY <1>0, <2>1, <2>2, IdleType, NothingStands, OnceQuiet
<1>4. CASE approval[r].status # "expired"
  <2> DEFINE f == Advance(worker[w], "store", worker[w].arg, Overdue(r))
  <2>1. /\ worker' = [worker EXCEPT ![w] = f]
        /\ f.req = r /\ f.at = "store" /\ f.arg = worker[w].arg /\ f.lapsed = Overdue(r)
    BY <1>r, <1>4 DEF RecordSelect, Goto, Advance, Frame
  <2> HIDE DEF f
  <2>2. AnswerStands(f, approval'[f.req], succeeded'[f.req])
    BY <1>0, <1>1, <1>2, <2>1 DEF AnswerStands
  <2>3. \A q \in Requests : Recording(worker[w], q) => Recording(f, q)
    BY <1>r, <2>1 DEF Recording
  <2> QED
    BY <1>0, <2>1, <2>2, <2>3, OnceQuiet
<1> QED
  BY <1>3, <1>4

\* ... and the UPDATE makes the row say what the provider did.
LEMMA OnceRecordCommit ==
  ASSUME OnceInv, Apart, SerialInv', NEW w \in Workers, RecordCommit(w)
  PROVE  OnceInv'
<1>r. PICK r \in Requests : r = worker[w].req
  BY DEF OnceInv, SerialInv, IndInv, TypeOK, Frames
<1>0. /\ TypeOK /\ worker[w].at = "store" /\ succeeded' = succeeded
      /\ worker' = [worker EXCEPT ![w] = Idle]
  BY DEF OnceInv, SerialInv, IndInv, RecordCommit, Finish, Goto, history
<1>1. /\ AnswerStands(worker[w], approval[r], succeeded[r])
      /\ RowSays(approval[r], succeeded[r])
  BY <1>r DEF OnceInv
<1>2. /\ approval'[r].kind = approval[r].kind
      /\ \A q \in Requests \ {r} : approval'[q] = approval[q]
      /\ approval[r].kind \in Checked => approval'[r].exec = worker[w].arg
  <2>1. approval[r].kind \in Checked => ~worker[w].lapsed
    BY <1>0, <1>1 DEF AnswerStands
  <2> QED
    BY <1>r, <1>0, <2>1 DEF RecordCommit, TypeOK, Rows
<1>3. \A q \in Requests : RowSays(approval'[q], succeeded'[q])
  <2>1. RowSays(approval'[r], succeeded'[r])
    BY <1>0, <1>1, <1>2 DEF RowSays, AnswerStands
  <2> QED
    BY <1>0, <1>2, <2>1 DEF OnceInv
<1>4. \A q \in Requests : Told(w, Idle, q, approval'[q], succeeded'[q])
  <2>1. Told(w, Idle, r, approval'[r], succeeded'[r])
    BY <1>0, <1>1, <1>2 DEF Told, AnswerStands
  <2>2. \A q \in Requests \ {r} : Told(w, Idle, q, approval'[q], succeeded'[q])
    BY <1>r, <1>0, <1>2 DEF OnceInv, Shown, Told, Recording
  <2> QED
    BY <2>1, <2>2
<1>5. Untouched(w)
  BY <1>r, <1>0, <1>2, OthersUntouched DEF RecordCommit, history
<1> QED
  BY <1>0, <1>3, <1>4, <1>5, IdleType, NothingStands, OnlyAnswer

\* A worker that dies without a success in hand takes nothing with it.
LEMMA OnceCrash ==
  ASSUME OnceInv, SerialInv', NEW w \in Workers, Crash(w), ~LosesSuccess
  PROVE  OnceInv'
<1>r. PICK r \in Requests : r = worker[w].req
  BY DEF OnceInv, SerialInv, IndInv, TypeOK, Frames
<1>1. /\ UNCHANGED <<approval, succeeded>> /\ Untouched(w)
      /\ worker' = [worker EXCEPT ![w] = Idle]
  BY NothingTouched DEF Crash, Finish, Goto, history
<1>2. AnswerStands(worker[w], approval[r], succeeded[r])
  BY <1>r DEF OnceInv
<1>3. worker[w].at \in {"record", "store"} => worker[w].arg \notin Terminal
  BY DEF LosesSuccess
<1>4. \A q \in Requests : Recording(worker[w], q) =>
        approval[q].kind \notin Checked \/ succeeded[q] # 1
  BY <1>r, <1>2, <1>3 DEF Recording, AnswerStands
<1> QED
  BY <1>1, <1>4, IdleType, NothingStands, OnceQuiet

\* Every step keeps the invariant, unless a success is lost.
LEMMA OnceNext ==
  ASSUME OnceInv, Apart, Apart', [Next]_vars, [~LosesSuccess]_vars
  PROVE  OnceInv'
<1>0. SerialInv'
  BY SerialNext DEF OnceInv
<1>1. CASE UNCHANGED vars \/ \E r \in Requests : Deadline(r)
  <2>1. UNCHANGED <<approval, worker, succeeded>>
    BY <1>1 DEF vars, Deadline, history
  <2> QED
    BY <1>0, <2>1 DEF OnceInv, Shown
<1>2. ASSUME NEW w \in Workers, Step(w) PROVE OnceInv'
  BY <1>0, <1>2, OnceBefore, OnceClaim, OnceUnconfirmed, OnceSucceeds, OnceRecordSelect,
     OnceRecordCommit DEF Step
<1>3. ASSUME NEW w \in Workers, NEW r \in Requests, Start(w, r) PROVE OnceInv'
  BY <1>0, <1>3, OnceStart
<1>4. ASSUME NEW w \in Workers, Crash(w) PROVE OnceInv'
  <2>1. CASE UNCHANGED vars
    BY <1>1, <2>1
  <2>2. CASE ~LosesSuccess
    BY <1>0, <1>4, <2>2, OnceCrash
  <2> QED
    BY <2>1, <2>2
<1> QED
  BY <1>1, <1>2, <1>3, <1>4 DEF Next

\* A PSA ticket write, M365 action or runbook is reported successful twice in
\* two ways only: two handlers of the request overlap, or a worker dies with
\* a success it has not recorded.  Without these it succeeds at most once,
\* whatever fails, is retried, edited or decided in between, wherever else
\* workers die and however handlers of different requests interleave.
THEOREM CheckedSucceedOnce ==
  Spec /\ []Apart /\ [][~LosesSuccess]_vars => []SucceedsOnce
<1>1. Init => OnceInv
  <2> SUFFICES ASSUME Init PROVE OnceInv
    OBVIOUS
  <2>1. \A r \in Requests : RowSays(approval[r], succeeded[r])
    BY DEF Init, RowSays, Terminal
  <2>2. \A r \in Requests : Shown(r)
    BY DEF Init, Shown
  <2>3. \A w \in Workers : worker[w] = Idle
    BY DEF Init
  <2> QED
    BY <2>1, <2>2, <2>3, IdleType, NothingStands, InitSerialInv DEF OnceInv
<1>2. OnceInv /\ Apart /\ Apart' /\ [Next]_vars /\ [~LosesSuccess]_vars => OnceInv'
  BY OnceNext
<1>3. OnceInv => SucceedsOnce
  BY DEF OnceInv, RowSays, SucceedsOnce, OfKind, Checked
<1> QED
  BY <1>1, <1>2, <1>3, PTL DEF Spec
=============================================================================
