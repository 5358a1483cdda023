--------------------------- MODULE AgentRunProofs ---------------------------
(***************************************************************************)
(* Proofs about AgentRun, in three layers.  For any number of workers its  *)
(* rows and frames have their types (AgentInv) and every step of a handler *)
(* is a step of SmartAction or leaves its tables alone.  If handlers do    *)
(* not overlap, runs share no request and only the request a run waits for *)
(* may be pending (QuietInv).  On top of that the loop of a run loses no   *)
(* step (CoverInv).                                                        *)
(***************************************************************************)
EXTENDS AgentRun, SmartActionProofs, SequenceTheorems

-----------------------------------------------------------------------------
(***************************************************************************)
(* Types of rows and frames.                                               *)
(***************************************************************************)

CallerLabels == {"out", "loop", "invoked", "resume", "approving", "completing",
                 "cancel", "cancelling", "raised"}

CallerFrames ==
  [at: CallerLabels, id: Runs, row: Rows, by: People \cup {Nobody}, queue: Seq(Steps),
   tried: SUBSET Steps, step: 0..NSteps, req: Requests, attempt: Nat]

\* A row of a run that exists, in the table or in a handler's hands.
RowOK(row) ==
  /\ row \in Rows
  /\ row.pending \in 0..Len(row.records)
  /\ row.status # "none" => row.actor \in People

\* ... and what only holds in the table.
StoredOK(row) ==
  /\ RowOK(row)
  /\ row.status = "pending_approval" => row.pending # 0

\* The locals of a handler.
CallerOK(frame) ==
  /\ frame \in CallerFrames
  /\ RowOK(frame.row)
  /\ frame.at # "out" => frame.by \in People /\ frame.row.actor \in People
  /\ frame.at = "invoked" => frame.step \in Steps
  /\ frame.at \in {"resume", "approving", "completing"} => frame.row.pending # 0
  /\ frame.attempt <= Len(frame.row.records)

AgentShape ==
  /\ agent \in [Runs -> Rows]
  /\ \A a \in Runs : StoredOK(agent[a])
  /\ caller \in [Workers -> CallerFrames]
  /\ \A w \in Workers : CallerOK(caller[w])

\* The inductive invariant for any number of workers.
AgentInv == SmartInv /\ AgentShape

\* The vocabulary.
LEMMA AgentWords ==
  /\ {"queued", "pending_approval", "completed", "failed", "rejected", "cancelled"}
       \subseteq AgentStatuses \ {"none"}
  /\ "none" \in AgentStatuses
BY DEF AgentStatuses, Finished

\* The row of a run that does not exist, and the frame of a worker that is idle.
LEMMA OutOK == StoredOK(NoRow) /\ CallerOK(Out) /\ Out.at = "out"
<1>1. NoRow \in Rows
  BY AgentWords, DefinitionAssumption DEF NoRow, Rows
<1>2. StoredOK(NoRow)
  BY <1>1 DEF NoRow, StoredOK, RowOK
<1>3. Out.at = "out" /\ Out.row = NoRow /\ Out.attempt = 0
  BY DEF Out
<1>4. Out \in CallerFrames
  <2>1. (CHOOSE a \in Runs : TRUE) \in Runs /\ (CHOOSE r \in Requests : TRUE) \in Requests
    BY DefinitionAssumption, PeopleAssumption
  <2>2. <<>> \in Seq(Steps) /\ 0 \in 0..NSteps /\ "out" \in CallerLabels
    BY DefinitionAssumption DEF CallerLabels
  <2>3. QED
    BY <1>1, <2>1, <2>2 DEF Out, CallerFrames
<1>5. Len(NoRow.records) = 0
  BY DEF NoRow
<1>6. QED
  BY <1>2, <1>3, <1>4, <1>5 DEF CallerOK, StoredOK

\* The row that update_agent_run stores, and a handler's row with new records.
Written(row, status, step) == [row EXCEPT !.status = status, !.step = step]
Listing(row, records, pending) == [row EXCEPT !.records = records, !.pending = pending]

\* A row that is written keeps its actor, records, pending record and retries.
LEMMA RowWritten ==
  ASSUME NEW row, RowOK(row), NEW status \in AgentStatuses, NEW step \in Nat
  PROVE  /\ Written(row, status, step) \in Rows
         /\ Written(row, status, step).status = status
         /\ Written(row, status, step).step = step
         /\ Written(row, status, step).actor = row.actor
         /\ Written(row, status, step).records = row.records
         /\ Written(row, status, step).pending = row.pending
         /\ Written(row, status, step).aware <=> row.aware
<1>1. row \in Rows
  BY DEF RowOK
<1>2. QED
  BY <1>1 DEF Rows, Written

\* The row of a handler with a new record list and pending record.
LEMMA RowListing ==
  ASSUME NEW row, RowOK(row), NEW records \in Seq(Records), NEW pending \in 0..Len(records)
  PROVE  /\ RowOK(Listing(row, records, pending))
         /\ Listing(row, records, pending).status = row.status
         /\ Listing(row, records, pending).step = row.step
         /\ Listing(row, records, pending).actor = row.actor
         /\ Listing(row, records, pending).records = records
         /\ Listing(row, records, pending).pending = pending
         /\ Listing(row, records, pending).aware <=> row.aware
<1>1. row \in Rows /\ pending \in Nat
  BY DEF RowOK
<1>2. /\ Listing(row, records, pending) \in Rows
      /\ Listing(row, records, pending).status = row.status
      /\ Listing(row, records, pending).step = row.step
      /\ Listing(row, records, pending).actor = row.actor
      /\ Listing(row, records, pending).records = records
      /\ Listing(row, records, pending).pending = pending
      /\ Listing(row, records, pending).aware <=> row.aware
  BY <1>1 DEF Rows, Listing
<1>3. QED
  BY <1>2 DEF RowOK

-----------------------------------------------------------------------------
(***************************************************************************)
(* The steps of a handler keep the types.                                  *)
(***************************************************************************)

\* A handler moves on and writes nothing.
LEMMA ShapeMoves ==
  ASSUME AgentShape, NEW w \in Workers, NEW frame, CallerOK(frame),
         Call(w, frame), UNCHANGED agent
  PROVE  AgentShape'
<1>1. /\ caller' \in [Workers -> CallerFrames]
      /\ \A v \in Workers : CallerOK(caller'[v])
  BY DEF AgentShape, Call, CallerOK
<1>2. QED
  BY <1>1 DEF AgentShape

\* A handler writes the row of its run and moves on.
LEMMA ShapeWrites ==
  ASSUME AgentShape, NEW w \in Workers, NEW frame, CallerOK(frame), Call(w, frame),
         NEW status \in AgentStatuses, NEW step \in Nat, NEW row, RowOK(row),
         row.actor \in People, status = "pending_approval" => row.pending # 0,
         Update(caller[w], status, step, row)
  PROVE  AgentShape'
<1> DEFINE new == Written(row, status, step)
<1>1. /\ caller' \in [Workers -> CallerFrames]
      /\ \A v \in Workers : CallerOK(caller'[v])
  BY DEF AgentShape, Call, CallerOK
<1>2. /\ new \in Rows /\ new.status = status /\ new.actor = row.actor
      /\ new.records = row.records /\ new.pending = row.pending
  BY RowWritten
<1>3. StoredOK(new)
  BY <1>2 DEF StoredOK, RowOK
<1>4. agent' = [agent EXCEPT ![caller[w].id] = new]
  BY DEF Update, Written
<1>5. agent' \in [Runs -> Rows] /\ \A a \in Runs : StoredOK(agent'[a])
  BY <1>2, <1>3, <1>4 DEF AgentShape
<1>6. QED
  BY <1>1, <1>5 DEF AgentShape

\* A handler writes the row of its run and returns.
LEMMA ShapeFinishes ==
  ASSUME AgentShape, NEW w \in Workers,
         NEW status \in AgentStatuses, NEW step \in Nat, NEW row, RowOK(row),
         row.actor \in People, status = "pending_approval" => row.pending # 0,
         FinishRun(w, status, step, row)
  PROVE  AgentShape'
BY OutOK, ShapeWrites DEF FinishRun, Leave

\* What a handler at work holds.
LEMMA AtWork ==
  ASSUME AgentShape, NEW w \in Workers, caller[w].at # "out"
  PROVE  /\ caller[w] \in CallerFrames /\ RowOK(caller[w].row)
         /\ caller[w].by \in People /\ caller[w].row.actor \in People
         /\ caller[w].id \in Runs /\ caller[w].req \in Requests /\ caller[w].step \in 0..NSteps
         /\ caller[w].queue \in Seq(Steps) /\ caller[w].tried \subseteq Steps
         /\ caller[w].row.records \in Seq(Records) /\ caller[w].row.step \in Nat
         /\ caller[w].attempt \in Nat /\ caller[w].attempt <= Len(caller[w].row.records)
         /\ caller[w].row.pending \in 0..Len(caller[w].row.records)
         /\ Len(caller[w].row.records) \in Nat
<1>1. CallerOK(caller[w])
  BY DEF AgentShape
<1>2. caller[w] \in CallerFrames /\ caller[w].row \in Rows
  BY <1>1 DEF CallerOK, RowOK
<1>3. caller[w].row.records \in Seq(Records) /\ caller[w].row.step \in Nat
  BY <1>2 DEF Rows
<1>4. QED
  BY <1>1, <1>2, <1>3 DEF CallerOK, CallerFrames, RowOK

\* The record of the call that just returned.
LEMMA RecordAdded ==
  ASSUME AgentShape, TypeOK, NEW w \in Workers, caller[w].at = "invoked"
  PROVE  /\ RowOK(WithRecord(w))
         /\ WithRecord(w).actor \in People
         /\ (WithRecord(w).aware <=> caller[w].row.aware)
         /\ WithRecord(w).status = caller[w].row.status
         /\ WithRecord(w).pending = caller[w].row.pending
         /\ WithRecord(w).records =
              Append(caller[w].row.records, [step |-> caller[w].step, req |-> caller[w].req,
                                             status |-> returned[w]])
         /\ WithRecord(w).records \in Seq(Records)
         /\ Len(WithRecord(w).records) = Len(caller[w].row.records) + 1
<1> DEFINE row == caller[w].row
           record == [step |-> caller[w].step, req |-> caller[w].req, status |-> returned[w]]
           records == Append(row.records, record)
<1>1. RowOK(row) /\ row.actor \in People /\ row.records \in Seq(Records) /\ row \in Rows
  BY AtWork DEF RowOK
<1>2. caller[w].step \in Steps /\ caller[w].req \in Requests
  BY AtWork DEF AgentShape, CallerOK
<1>3. returned[w] \in Answers
  BY DEF TypeOK
<1>4. record \in Records
  BY <1>2, <1>3 DEF Records
<1> HIDE DEF record
<1>5. records \in Seq(Records) /\ Len(records) = Len(row.records) + 1 /\ Len(row.records) \in Nat
  BY <1>1, <1>4
<1>6. row.pending \in 0..Len(records)
  BY <1>1, <1>5 DEF RowOK
<1>7. WithRecord(w) = Listing(row, records, row.pending)
  BY <1>1 DEF WithRecord, Rows, Listing, record
<1> HIDE DEF records, row
<1>8. /\ RowOK(WithRecord(w)) /\ WithRecord(w).actor = row.actor
      /\ WithRecord(w).status = row.status
      /\ WithRecord(w).records = records /\ WithRecord(w).pending = row.pending
      /\ (WithRecord(w).aware <=> row.aware)
  BY <1>1, <1>5, <1>6, <1>7, RowListing
<1>9. QED
  BY <1>1, <1>5, <1>8, Zenon DEF records, row, record

\* ... which is one more.
LEMMA RecordCounts ==
  ASSUME AgentShape, TypeOK, NEW w \in Workers, caller[w].at = "invoked"
  PROVE  /\ RowOK(WithRecord(w)) /\ WithRecord(w).actor \in People
         /\ WithRecord(w).records \in Seq(Records)
         /\ Len(WithRecord(w).records) = Len(caller[w].row.records) + 1
         /\ Len(WithRecord(w).records) \in Nat \ {0}
         /\ 0 \in 0..Len(WithRecord(w).records)
<1>1. /\ RowOK(WithRecord(w)) /\ WithRecord(w).actor \in People
      /\ WithRecord(w).records \in Seq(Records)
      /\ Len(WithRecord(w).records) = Len(caller[w].row.records) + 1
  BY RecordAdded, Zenon
<1>2. Len(caller[w].row.records) \in Nat
  BY AtWork
<1>3. QED
  BY <1>1, <1>2

\* A frame, from its fields.
Held(label, id, row, by, queue, tried, step, req, attempt) ==
  [at |-> label, id |-> id, row |-> row, by |-> by, queue |-> queue, tried |-> tried,
   step |-> step, req |-> req, attempt |-> attempt]

\* A frame of a handler at work is in order if its fields are.
LEMMA HeldOK ==
  ASSUME NEW label \in CallerLabels, NEW id \in Runs, NEW row, RowOK(row), row.actor \in People,
         NEW by \in People, NEW queue \in Seq(Steps), NEW tried \in SUBSET Steps,
         NEW step \in 0..NSteps, NEW req \in Requests, NEW attempt \in Nat,
         label = "invoked" => step \in Steps,
         label \in {"resume", "approving", "completing"} => row.pending # 0,
         attempt <= Len(row.records)
  PROVE  CallerOK(Held(label, id, row, by, queue, tried, step, req, attempt))
<1> DEFINE f == Held(label, id, row, by, queue, tried, step, req, attempt)
<1>1. row \in Rows
  BY DEF RowOK
<1>2. /\ f \in CallerFrames /\ f.at = label /\ f.row = row /\ f.by = by
      /\ f.step = step /\ f.attempt = attempt
  BY <1>1 DEF Held, CallerFrames
<1>3. QED
  BY <1>2 DEF CallerOK

\* The loop starts with the steps from start on.
LEMMA StepsFromType ==
  ASSUME NEW start \in Nat
  PROVE  StepsFrom(start) \in Seq(Steps)
<1>1. CASE start >= NSteps
  <2>1. 1..(NSteps - start) = 1..0
    BY <1>1, DefinitionAssumption
  <2>2. \A i \in 1..0 : FALSE
    OBVIOUS
  <2>3. StepsFrom(start) \in [1..0 -> Steps]
    BY <2>1, <2>2 DEF StepsFrom
  <2>4. QED
    BY <2>3
<1>2. CASE start < NSteps
  <2>1. NSteps - start \in Nat
    BY <1>2, DefinitionAssumption
  <2>2. \A i \in 1..(NSteps - start) : start + i \in Steps
    BY <1>2, DefinitionAssumption DEF Steps
  <2>3. StepsFrom(start) \in [1..(NSteps - start) -> Steps]
    BY <2>2 DEF StepsFrom
  <2>4. QED
    BY <2>1, <2>3
<1>3. QED
  BY <1>1, <1>2, DefinitionAssumption

\* The frame that enters the loop.
LEMMA LoopOK ==
  ASSUME NEW frame \in CallerFrames, frame.by \in People, NEW start \in Nat,
         NEW row, RowOK(row), row.actor \in People
  PROVE  CallerOK(Loop(frame, start, row))
<1> DEFINE queue == IF row.aware THEN <<>> ELSE StepsFrom(start)
<1>1. queue \in Seq(Steps)
  BY StepsFromType
<1>7. Loop(frame, start, row) =
        [frame EXCEPT !.at = "loop", !.row = row, !.tried = {}, !.attempt = 0, !.queue = queue]
  BY Zenon DEF Loop
<1> HIDE DEF queue
<1>2. Loop(frame, start, row) =
        Held("loop", frame.id, row, frame.by, queue, {}, frame.step, frame.req, 0)
  BY <1>7 DEF Held, CallerFrames
<1>3. /\ frame.id \in Runs /\ frame.step \in 0..NSteps /\ frame.req \in Requests
      /\ {} \in SUBSET Steps /\ 0 \in Nat /\ 0 <= Len(row.records)
  BY DEF CallerFrames, RowOK, Rows
<1> DEFINE label == "loop"
<1>4. label \in CallerLabels /\ label # "invoked"
      /\ label \notin {"resume", "approving", "completing"}
  BY DEF CallerLabels
<1> HIDE DEF label
<1>5. CallerOK(Held(label, frame.id, row, frame.by, queue, {}, frame.step, frame.req, 0))
  BY <1>1, <1>3, <1>4, HeldOK
<1>6. QED
  BY <1>2, <1>5 DEF label

\* The loop takes configured steps.
LEMMA NextStepsType ==
  ASSUME NEW frame, frame.queue \in Seq(Steps)
  PROVE  NextSteps(frame) \subseteq Steps
<1>1. CASE frame.queue # <<>>
  <2>1. Head(frame.queue) \in Steps
    BY <1>1
  <2>2. NextSteps(frame) = {Head(frame.queue)}
    BY <1>1 DEF NextSteps
  <2>3. QED
    BY <2>1, <2>2
<1>2. CASE frame.queue = <<>>
  <2>1. NextSteps(frame) \in {Candidates(frame.row), {}}
    BY <1>2 DEF NextSteps
  <2>2. QED
    BY <2>1 DEF Candidates
<1>3. QED
  BY <1>1, <1>2

\* Where the loop stops.
LEMMA PositionType ==
  ASSUME AgentShape, NEW w \in Workers, caller[w].at # "out", NEW s \in Steps
  PROVE  Position(caller[w], s) \in Nat
<1>1. s - 1 \in Nat
  BY DefinitionAssumption DEF Steps
<1>2. Len(caller[w].row.records) - caller[w].attempt \in Nat
  BY AtWork
<1>3. QED
  BY <1>1, <1>2 DEF Position

\* A handler that only moves to its next label.
LEMMA Relabelled ==
  ASSUME AgentShape, NEW w \in Workers, caller[w].at # "out",
         NEW label \in CallerLabels \ {"invoked"},
         label \in {"approving", "completing"} => caller[w].row.pending # 0,
         label # "resume"
  PROVE  CallerOK([caller[w] EXCEPT !.at = label])
<1> DEFINE f == caller[w]
<1>1. /\ f \in CallerFrames /\ RowOK(f.row) /\ f.by \in People /\ f.row.actor \in People
      /\ f.id \in Runs /\ f.req \in Requests /\ f.step \in 0..NSteps
      /\ f.queue \in Seq(Steps) /\ f.tried \in SUBSET Steps
      /\ f.attempt \in Nat /\ f.attempt <= Len(f.row.records)
  BY AtWork
<1> HIDE DEF f
<1>2. [f EXCEPT !.at = label] =
        Held(label, f.id, f.row, f.by, f.queue, f.tried, f.step, f.req, f.attempt)
  BY <1>1 DEF Held, CallerFrames
<1>3. f.row.pending # 0 \/ label \notin {"resume", "approving", "completing"}
  BY DEF f
<1>4. CallerOK(Held(label, f.id, f.row, f.by, f.queue, f.tried, f.step, f.req, f.attempt))
  BY <1>1, <1>3, HeldOK
<1>5. QED
  BY <1>2, <1>4 DEF f

\* The row with an answer on the record that waited.
LEMMA AnsweredOK ==
  ASSUME AgentShape, TypeOK, NEW w \in Workers, caller[w].at # "out", caller[w].row.pending # 0
  PROVE  /\ RowOK(Answered(w)) /\ Answered(w).actor \in People
         /\ Answered(w).pending = 0 /\ (Answered(w).aware <=> caller[w].row.aware)
         /\ Answered(w).records =
              [caller[w].row.records EXCEPT ![caller[w].row.pending].status = returned[w]]
         /\ Answered(w).records \in Seq(Records)
<1> DEFINE row == caller[w].row
           records == [row.records EXCEPT ![row.pending].status = returned[w]]
<1>1. /\ RowOK(row) /\ row \in Rows /\ row.actor \in People /\ row.records \in Seq(Records)
      /\ row.pending \in 1..Len(row.records)
  BY AtWork DEF RowOK
<1>2. returned[w] \in Answers \cup {"cancelled"}
  BY DEF TypeOK
<1>3. records \in Seq(Records)
  <2>1. row.records[row.pending] \in Records
    BY <1>1
  <2>2. [row.records[row.pending] EXCEPT !.status = returned[w]] \in Records
    BY <1>2, <2>1 DEF Records
  <2>3. records = [row.records EXCEPT ![row.pending] =
                     [row.records[row.pending] EXCEPT !.status = returned[w]]]
    BY <1>1
  <2>4. QED
    BY <1>1, <2>2, <2>3
<1>4. Answered(w) = Listing(row, records, 0)
  BY <1>1 DEF Answered, Listing, Rows
<1>5. 0 \in 0..Len(records)
  BY <1>3
<1> HIDE DEF records, row
<1>6. /\ RowOK(Answered(w)) /\ Answered(w).actor = row.actor
      /\ Answered(w).records = records /\ Answered(w).pending = 0
      /\ (Answered(w).aware <=> row.aware)
  BY <1>1, <1>3, <1>4, <1>5, RowListing
<1>7. QED
  BY <1>1, <1>3, <1>6, Zenon DEF records, row

\* run and retry create a row and enter the loop.
LEMMA RunAgentShape ==
  ASSUME AgentShape, NEW w \in Workers, NEW a \in Runs, NEW p \in People,
         NEW aware \in BOOLEAN, NEW retries \in 0..MaxRetries, RunAgent(w, a, p, aware, retries)
  PROVE  AgentShape'
<1> DEFINE row == [NoRow EXCEPT !.status = "queued", !.actor = p, !.aware = aware,
                                !.retries = retries]
           frame == [Out EXCEPT !.id = a, !.by = p]
<1>0. NoRow \in Rows /\ NoRow.pending = 0 /\ NoRow.records = <<>>
  BY OutOK DEF StoredOK, RowOK, NoRow
<1>1. /\ row \in Rows /\ row.status = "queued" /\ row.actor = p /\ row.pending = 0
      /\ row.records = <<>>
  BY <1>0, AgentWords DEF Rows
<1>2. RowOK(row) /\ StoredOK(row)
  BY <1>1 DEF RowOK, StoredOK
<1>3. frame \in CallerFrames /\ frame.by = p
  BY OutOK DEF CallerOK, CallerFrames
<1>4. agent' = [agent EXCEPT ![a] = row] /\ Call(w, Loop(frame, 0, row))
  BY DEF RunAgent
<1> HIDE DEF row, frame
<1>5. CallerOK(Loop(frame, 0, row))
  <2>1. 0 \in Nat
    OBVIOUS
  <2>2. QED
    BY <1>1, <1>2, <1>3, <2>1, LoopOK
<1>6. /\ caller' \in [Workers -> CallerFrames]
      /\ \A v \in Workers : CallerOK(caller'[v])
  BY <1>4, <1>5 DEF AgentShape, Call, CallerOK
<1>7. agent' \in [Runs -> Rows] /\ \A b \in Runs : StoredOK(agent'[b])
  BY <1>1, <1>2, <1>4 DEF AgentShape
<1>8. QED
  BY <1>6, <1>7 DEF AgentShape

\* The loop ends, or stops for a timeout.
LEMMA LoopEndsShape ==
  ASSUME AgentShape, NEW w \in Workers, LoopEnds(w) \/ TimesOut(w)
  PROVE  AgentShape'
<1>1. /\ caller[w].at = "loop" /\ RowOK(caller[w].row) /\ caller[w].row.actor \in People
      /\ caller[w].queue \in Seq(Steps) /\ Len(caller[w].row.records) \in Nat
  BY AtWork DEF LoopEnds, TimesOut, Back
<1>2. CASE LoopEnds(w)
  <2> DEFINE step == IF caller[w].row.aware THEN Len(caller[w].row.records) ELSE NSteps
  <2>1. step \in Nat
    BY <1>1, DefinitionAssumption
  <2>2. FinishRun(w, "completed", step, caller[w].row)
    BY <1>2 DEF LoopEnds
  <2> HIDE DEF step
  <2>3. QED
    BY <1>1, <2>1, <2>2, AgentWords, ShapeFinishes
<1>3. CASE TimesOut(w) /\ caller[w].queue # <<>>
  <2>1. Head(caller[w].queue) \in Steps
    BY <1>1, <1>3
  <2>2. Position(caller[w], Head(caller[w].queue)) \in Nat
    BY <1>1, <2>1, PositionType
  <2>3. FinishRun(w, "failed", Position(caller[w], Head(caller[w].queue)), caller[w].row)
    BY <1>3 DEF TimesOut
  <2>4. QED
    BY <1>1, <2>2, <2>3, AgentWords, ShapeFinishes
<1>4. CASE TimesOut(w) /\ caller[w].queue = <<>>
  <2>1. FinishRun(w, "failed", Len(caller[w].row.records), caller[w].row)
    BY <1>4 DEF TimesOut
  <2>2. QED
    BY <1>1, <2>1, AgentWords, ShapeFinishes
<1>5. QED
  BY <1>2, <1>3, <1>4

\* The loop passes over a tool.
LEMMA SkipShape ==
  ASSUME AgentShape, NEW w \in Workers, SkipAttempted(w)
  PROVE  AgentShape'
<1> DEFINE f == caller[w]
           queue == Tail(f.queue)
<1>1. f.at = "loop" /\ f.queue # <<>>
  <2>1. \E s \in NextSteps(f) : ~f.row.aware
    BY DEF SkipAttempted
  <2>2. f.queue = <<>> => NextSteps(f) = {}
    BY <2>1 DEF NextSteps
  <2>3. QED
    BY <2>1, <2>2 DEF SkipAttempted, Back
<1>2. /\ f \in CallerFrames /\ RowOK(f.row) /\ f.by \in People /\ f.row.actor \in People
      /\ f.id \in Runs /\ f.req \in Requests /\ f.step \in 0..NSteps
      /\ f.queue \in Seq(Steps) /\ f.tried \in SUBSET Steps
      /\ f.attempt \in Nat /\ f.attempt <= Len(f.row.records)
  BY <1>1, AtWork
<1>3. queue \in Seq(Steps)
  BY <1>1, <1>2
<1>4. Call(w, [f EXCEPT !.queue = queue]) /\ UNCHANGED agent
  BY DEF SkipAttempted
<1>6. f.at \in CallerLabels /\ f.at # "invoked"
      /\ f.at \notin {"resume", "approving", "completing"}
  BY <1>1 DEF CallerLabels
<1> HIDE DEF f, queue
<1>0. f \in CallerFrames
  BY <1>2
<1>5. [f EXCEPT !.queue = queue] =
        Held(f.at, f.id, f.row, f.by, queue, f.tried, f.step, f.req, f.attempt)
  BY <1>0 DEF Held, CallerFrames
<1>7. CallerOK(Held(f.at, f.id, f.row, f.by, queue, f.tried, f.step, f.req, f.attempt))
  BY <1>2, <1>3, <1>6, HeldOK
<1>8. QED
  BY <1>4, <1>5, <1>7, ShapeMoves

\* A step is attempted.
LEMMA AttemptShape ==
  ASSUME AgentShape, NEW w \in Workers, Attempt(w)
  PROVE  AgentShape'
<1> DEFINE f == caller[w]
           r == CHOOSE x \in Fresh : TRUE
           queue == IF f.queue = <<>> THEN <<>> ELSE Tail(f.queue)
<1>1. f.at = "loop" /\ r \in Requests
  BY DEF Attempt, Back, Fresh
<1>2. /\ f \in CallerFrames /\ RowOK(f.row) /\ f.by \in People /\ f.row.actor \in People
      /\ f.id \in Runs /\ f.queue \in Seq(Steps) /\ f.tried \in SUBSET Steps
      /\ 0 <= Len(f.row.records)
  BY <1>1, AtWork
<1>3. queue \in Seq(Steps)
  BY <1>2
<1>4. PICK s \in NextSteps(f) :
        Call(w, [f EXCEPT !.at = "invoked", !.step = s, !.req = r, !.tried = @ \cup {s},
                          !.queue = queue, !.attempt = 0])
  BY DEF Attempt
<1>5. s \in Steps /\ s \in 0..NSteps /\ f.tried \cup {s} \in SUBSET Steps
  BY <1>2, NextStepsType, DefinitionAssumption DEF Steps
<1> DEFINE label == "invoked"
           tried == f.tried \cup {s}
<1>6. label \in CallerLabels /\ label \notin {"resume", "approving", "completing"} /\ 0 \in Nat
  BY DEF CallerLabels
<1>7. tried \in SUBSET Steps
  BY <1>5
<1>8. Call(w, [f EXCEPT !.at = label, !.step = s, !.req = r, !.tried = tried,
                        !.queue = queue, !.attempt = 0])
  BY <1>4
<1>9. UNCHANGED agent
  BY DEF Attempt
<1> HIDE DEF f, queue, label, tried, r
<1>0. f \in CallerFrames
  BY <1>2
<1> DEFINE g == [f EXCEPT !.at = label, !.step = s, !.req = r, !.tried = tried,
                          !.queue = queue, !.attempt = 0]
<1>10. /\ g \in CallerFrames /\ g.at = label /\ g.row = f.row /\ g.by = f.by
       /\ g.step = s /\ g.attempt = 0
  BY <1>0, <1>1, <1>3, <1>5, <1>6, <1>7 DEF CallerFrames
<1>11. CallerOK(g)
  BY <1>2, <1>5, <1>6, <1>10 DEF CallerOK
<1>12. QED
  BY <1>8, <1>9, <1>11, ShapeMoves

\* A recorded row with another pending record.
LEMMA PendingSet ==
  ASSUME NEW row, RowOK(row), row.actor \in People, NEW pending \in 0..Len(row.records)
  PROVE  /\ RowOK([row EXCEPT !.pending = pending])
         /\ [row EXCEPT !.pending = pending].actor \in People
         /\ [row EXCEPT !.pending = pending].status = row.status
         /\ [row EXCEPT !.pending = pending].records = row.records
         /\ [row EXCEPT !.pending = pending].pending = pending
         /\ [row EXCEPT !.pending = pending].aware <=> row.aware
<1>1. row \in Rows /\ row.records \in Seq(Records) /\ pending \in Nat
  BY DEF RowOK, Rows
<1> DEFINE new == [row EXCEPT !.pending = pending]
<1>2. /\ new \in Rows /\ new.status = row.status /\ new.actor = row.actor
      /\ new.records = row.records /\ new.pending = pending /\ (new.aware <=> row.aware)
  BY <1>1 DEF Rows
<1>3. QED
  BY <1>2 DEF RowOK

\* The run pauses, or fails.
LEMMA StopShape ==
  ASSUME AgentShape, TypeOK, NEW w \in Workers, Pause(w) \/ GiveUp(w)
  PROVE  AgentShape'
<1> DEFINE row == WithRecord(w)
           step == Position(caller[w], caller[w].step)
<1>1. caller[w].at = "invoked"
  BY DEF Pause, GiveUp, StepFailed, Back
<1>2. caller[w].step \in Steps
  BY <1>1 DEF AgentShape, CallerOK
<1>3. step \in Nat
  BY <1>1, <1>2, PositionType
<1>4. RowOK(row) /\ row.actor \in People /\ Len(row.records) \in Nat \ {0}
  BY <1>1, RecordCounts
<1> HIDE DEF row, step
<1>5. CASE Pause(w)
  <2> DEFINE new == [row EXCEPT !.pending = Len(row.records)]
  <2>1. Len(row.records) \in 0..Len(row.records)
    BY <1>4
  <2>2. FinishRun(w, "pending_approval", step, new)
    BY <1>5 DEF Pause, row, step
  <2>3. RowOK(new) /\ new.actor \in People /\ new.pending = Len(row.records)
    BY <1>4, <2>1, PendingSet
  <2> HIDE DEF new
  <2>4. QED
    BY <1>3, <1>4, <2>2, <2>3, AgentWords, ShapeFinishes
<1>6. CASE GiveUp(w)
  <2>1. FinishRun(w, "failed", step, row)
    BY <1>6 DEF GiveUp, row, step
  <2>2. QED
    BY <1>3, <1>4, <2>1, AgentWords, ShapeFinishes
<1>7. QED
  BY <1>5, <1>6

\* The frame that goes on with the loop.
LEMMA BackToLoop ==
  ASSUME NEW f \in CallerFrames, f.by \in People, NEW row, RowOK(row), row.actor \in People,
         NEW queue \in Seq(Steps)
  PROVE  CallerOK([f EXCEPT !.at = "loop", !.row = row, !.attempt = 0, !.queue = queue])
<1> DEFINE label == "loop"
           g == [f EXCEPT !.at = label, !.row = row, !.attempt = 0, !.queue = queue]
<1>1. label \in CallerLabels /\ label \notin {"out", "invoked", "resume", "approving", "completing"}
  BY DEF CallerLabels
<1>2. row \in Rows /\ row.records \in Seq(Records)
  BY DEF RowOK, Rows
<1> HIDE DEF label
<1>3. g \in CallerFrames /\ g.at = label /\ g.row = row /\ g.by = f.by /\ g.attempt = 0
  BY <1>1, <1>2 DEF CallerFrames
<1>4. 0 <= Len(row.records)
  BY <1>2
<1>5. CallerOK(g)
  BY <1>1, <1>3, <1>4 DEF CallerOK
<1>6. QED
  BY <1>5 DEF label

\* The tool succeeded and the loop goes on.
LEMMA StepDoneShape ==
  ASSUME AgentShape, TypeOK, NEW w \in Workers, StepDone(w)
  PROVE  AgentShape'
<1> DEFINE f == caller[w]
           row == [WithRecord(w) EXCEPT !.pending = 0]
           step == IF row.aware THEN Len(row.records) ELSE f.step
           g == [f EXCEPT !.at = "loop", !.row = row, !.attempt = 0]
<1>1. f.at = "invoked"
  BY DEF StepDone, Back
<1>2. RowOK(WithRecord(w)) /\ WithRecord(w).actor \in People /\ 0 \in 0..Len(WithRecord(w).records)
  BY <1>1, RecordCounts
<1>3. RowOK(row) /\ row.actor \in People
  BY <1>2, PendingSet
<1>4. row.records \in Seq(Records)
  BY <1>3 DEF RowOK, Rows
<1>5. step \in Nat
  BY <1>1, <1>4, AtWork
<1>6. f \in CallerFrames /\ f.by \in People /\ f.queue \in Seq(Steps)
  BY <1>1, AtWork
<1>7. Update(f, "queued", step, row) /\ Call(w, g)
  BY DEF StepDone
<1> HIDE DEF row, step
<1>8. [f EXCEPT !.at = "loop", !.row = row, !.attempt = 0] =
        [f EXCEPT !.at = "loop", !.row = row, !.attempt = 0, !.queue = f.queue]
  BY <1>6 DEF CallerFrames
<1>9. CallerOK(g)
  BY <1>3, <1>6, <1>8, BackToLoop
<1> HIDE DEF g
<1>10. QED
  BY <1>3, <1>5, <1>7, <1>9, AgentWords, ShapeWrites

\* The loop goes on with the fallback.
LEMMA FallBackShape ==
  ASSUME AgentShape, TypeOK, NEW w \in Workers, FallBack(w)
  PROVE  AgentShape'
<1> DEFINE f == caller[w]
           row == WithRecord(w)
           step == IF row.aware THEN Len(row.records) ELSE f.step - 1
           queue == <<FallbackTo>> \o f.queue
           g == [f EXCEPT !.at = "loop", !.row = row, !.attempt = 0, !.queue = queue]
<1>1. f.at = "invoked"
  BY DEF FallBack, StepFailed, Back
<1>2. RowOK(row) /\ row.actor \in People /\ row.records \in Seq(Records)
  BY <1>1, RecordCounts
<1>3. f.step \in Steps
  BY <1>1 DEF AgentShape, CallerOK
<1>4. step \in Nat
  BY <1>2, <1>3, DefinitionAssumption, SMTT(30) DEF Steps
<1>5. f \in CallerFrames /\ f.by \in People /\ f.queue \in Seq(Steps)
  BY <1>1, AtWork
<1>6. queue \in Seq(Steps)
  BY <1>5, DefinitionAssumption
<1>7. Update(f, "queued", step, row) /\ Call(w, g)
  BY DEF FallBack
<1> HIDE DEF row, step, queue
<1>8. CallerOK(g)
  BY <1>2, <1>5, <1>6, BackToLoop
<1> HIDE DEF g
<1>9. QED
  BY <1>2, <1>4, <1>7, <1>8, AgentWords, ShapeWrites

\* The same tool is tried again.
LEMMA RetryStepShape ==
  ASSUME AgentShape, TypeOK, NEW w \in Workers, RetryStep(w)
  PROVE  AgentShape'
<1> DEFINE f == caller[w]
           row == WithRecord(w)
           r == CHOOSE x \in Fresh : TRUE
           attempt == f.attempt + 1
           g == [f EXCEPT !.row = row, !.req = r, !.attempt = attempt]
<1>1. f.at = "invoked" /\ r \in Requests
  BY DEF RetryStep, StepFailed, Back, Fresh
<1>2. /\ RowOK(row) /\ row.actor \in People
      /\ Len(row.records) = Len(f.row.records) + 1
  BY <1>1, RecordCounts
<1>3. f.step \in Steps
  BY <1>1 DEF AgentShape, CallerOK
<1>4. /\ f \in CallerFrames /\ f.by \in People
      /\ attempt \in Nat /\ attempt <= Len(row.records)
  BY <1>1, <1>2, AtWork
<1>5. Call(w, g) /\ UNCHANGED agent
  BY DEF RetryStep
<1>6. row \in Rows
  BY <1>2 DEF RowOK
<1> HIDE DEF row, r, attempt, f
<1>7. /\ g \in CallerFrames /\ g.at = f.at /\ g.row = row /\ g.by = f.by /\ g.step = f.step
      /\ g.attempt = attempt
  BY <1>1, <1>4, <1>6 DEF CallerFrames
<1>8. CallerOK(g)
  BY <1>1, <1>2, <1>3, <1>4, <1>7 DEF CallerOK
<1>9. QED
  BY <1>5, <1>8, ShapeMoves

\* The request of a record.
LEMMA RecordRequest ==
  ASSUME NEW row, RowOK(row), NEW i \in 1..Len(row.records)
  PROVE  row.records[i].req \in Requests /\ row.records[i].step \in Steps
<1>1. row.records \in Seq(Records)
  BY DEF RowOK, Rows
<1>2. row.records[i] \in Records
  BY <1>1
<1>3. QED
  BY <1>2 DEF Records

\* resume and cancel begin with a copy of the row.
LEMMA BeginShape ==
  ASSUME AgentShape, NEW w \in Workers, NEW a \in Runs, NEW p \in People,
         Resume(w, a, p) \/ Cancel(w, a, p)
  PROVE  AgentShape'
<1> DEFINE row == agent[a]
           label == IF Resume(w, a, p) THEN "resume" ELSE "cancel"
           req == IF row.pending = 0 THEN Out.req ELSE PendingRequest(row)
           g == [Out EXCEPT !.at = label, !.id = a, !.row = row, !.by = p, !.req = req]
<1>1. StoredOK(row) /\ row.status \in {"queued", "pending_approval"}
  BY DEF AgentShape, Resume, Cancel, MayCancel
<1>2. /\ RowOK(row) /\ row \in Rows /\ row.actor \in People /\ row.records \in Seq(Records)
      /\ row.pending \in 0..Len(row.records)
  BY <1>1 DEF StoredOK, RowOK, Rows
<1>3. Out \in CallerFrames /\ Out.attempt = 0 /\ Out.req \in Requests
  BY OutOK DEF CallerOK, CallerFrames, Out
<1>4. req \in Requests
  <2>1. CASE row.pending = 0
    BY <1>3, <2>1
  <2>2. CASE row.pending # 0
    <3>1. row.pending \in 1..Len(row.records)
      BY <1>2, <2>2
    <3>2. QED
      BY <1>2, <2>2, <3>1, RecordRequest DEF PendingRequest
  <2>3. QED
    BY <2>1, <2>2
<1>5. label \in CallerLabels /\ label \in {"resume", "cancel"}
  BY DEF CallerLabels
<1>6. label = "resume" => row.pending # 0
  BY <1>1 DEF StoredOK, Resume
<1>7. Call(w, g) /\ UNCHANGED agent
  <2>1. CASE Resume(w, a, p)
    <3>1. req = PendingRequest(row) /\ label = "resume"
      BY <1>6, <2>1
    <3>2. QED
      BY <2>1, <3>1 DEF Resume
  <2>2. CASE ~Resume(w, a, p)
    <3>1. Call(w, [Out EXCEPT !.at = "cancel", !.id = a, !.row = row, !.by = p, !.req = req])
      BY <2>2 DEF Cancel
    <3>2. label = "cancel"
      BY <2>2
    <3>3. QED
      BY <2>2, <3>1, <3>2 DEF Cancel
  <2>3. QED
    BY <2>1, <2>2
<1> HIDE DEF req, label, row
<1>8. g \in CallerFrames /\ g.at = label /\ g.row = row /\ g.by = p /\ g.attempt = 0
  BY <1>2, <1>3, <1>4, <1>5 DEF CallerFrames
<1>9. 0 <= Len(row.records)
  BY <1>2
<1>10. CallerOK(g)
  BY <1>2, <1>5, <1>6, <1>8, <1>9 DEF CallerOK
<1>11. QED
  BY <1>7, <1>10, ShapeMoves

\* A handler that waits for a service call, or gives up.
LEMMA WaitShape ==
  ASSUME AgentShape, NEW w \in Workers,
         \/ ResumeApproves(w) \/ ResumeCompletes(w) \/ CancelRejects(w) \/ Raises(w)
         \/ InvokeRaises(w) \/ Unwinds(w)
  PROVE  AgentShape'
<1>1. CASE ResumeApproves(w)
  <2>1. caller[w].at = "resume" /\ caller[w].row.pending # 0
    BY <1>1 DEF ResumeApproves, Back, AgentShape, CallerOK
  <2>2. CallerOK([caller[w] EXCEPT !.at = "approving"])
    BY <2>1, Relabelled DEF CallerLabels
  <2>3. QED
    BY <1>1, <2>2, ShapeMoves DEF ResumeApproves
<1>2. CASE ResumeCompletes(w)
  <2>1. caller[w].at \in {"resume", "approving"} /\ caller[w].row.pending # 0
    BY <1>2 DEF ResumeCompletes, Back, AgentShape, CallerOK
  <2>2. CallerOK([caller[w] EXCEPT !.at = "completing"])
    BY <2>1, Relabelled DEF CallerLabels
  <2>3. QED
    BY <1>2, <2>2, ShapeMoves DEF ResumeCompletes
<1>3. CASE CancelRejects(w)
  <2>1. caller[w].at = "cancel"
    BY <1>3 DEF CancelRejects, Back
  <2>2. CallerOK([caller[w] EXCEPT !.at = "cancelling"])
    BY <2>1, Relabelled DEF CallerLabels
  <2>3. QED
    BY <1>3, <2>2, ShapeMoves DEF CancelRejects
<1>4. CASE Raises(w) \/ Unwinds(w)
  BY <1>4, OutOK, ShapeMoves DEF Raises, Unwinds, Leave
<1>5. CASE InvokeRaises(w)
  <2>1. caller[w].at # "out"
    BY <1>5 DEF InvokeRaises, StepFailed, Back
  <2>2. CallerOK([caller[w] EXCEPT !.at = "raised"])
    BY <2>1, Relabelled DEF CallerLabels
  <2>3. QED
    BY <1>5, <2>2, ShapeMoves DEF InvokeRaises
<1>6. QED
  BY <1>1, <1>2, <1>3, <1>4, <1>5

\* A resumption goes on or ends the run.
LEMMA ResumeShape ==
  ASSUME AgentShape, TypeOK, NEW w \in Workers, ResumeContinues(w) \/ ResumeEnds(w)
  PROVE  AgentShape'
<1> DEFINE row == Answered(w)
<1>1. caller[w].at = "completing" /\ caller[w].row.pending # 0
  BY DEF ResumeContinues, ResumeEnds, Back, AgentShape, CallerOK
<1>2. RowOK(row) /\ row.actor \in People
  BY <1>1, AnsweredOK
<1>3. caller[w].row.step \in Nat /\ caller[w] \in CallerFrames /\ caller[w].by \in People
  BY <1>1, AtWork
<1> HIDE DEF row
<1>4. CASE ResumeContinues(w)
  <2> DEFINE start == caller[w].row.step + 1
  <2>1. start \in Nat
    BY <1>3
  <2>2. Call(w, Loop(caller[w], start, row)) /\ UNCHANGED agent
    BY <1>4 DEF ResumeContinues, row
  <2> HIDE DEF start
  <2>3. CallerOK(Loop(caller[w], start, row))
    BY <1>2, <1>3, <2>1, LoopOK
  <2>4. QED
    BY <2>2, <2>3, ShapeMoves
<1>5. CASE ResumeEnds(w)
  <2> DEFINE status == IF returned[w] = "rejected" THEN "rejected" ELSE "failed"
  <2>1. status \in AgentStatuses /\ status # "pending_approval"
    BY AgentWords
  <2>2. FinishRun(w, status, caller[w].row.step, row)
    BY <1>5 DEF ResumeEnds, row
  <2> HIDE DEF status
  <2>3. QED
    BY <1>2, <1>3, <2>1, <2>2, ShapeFinishes
<1>6. QED
  BY <1>4, <1>5

\* The row that a cancellation writes.
Cancelled(row) ==
  IF row.pending = 0 THEN row
  ELSE [row EXCEPT !.records[row.pending].status = "cancelled", !.pending = 0]

\* ... has its records, one of them with another status.
LEMMA CancelledOK ==
  ASSUME NEW row, RowOK(row), row.actor \in People
  PROVE  /\ RowOK(Cancelled(row)) /\ Cancelled(row).actor \in People
         /\ Cancelled(row).pending = 0
         /\ Len(Cancelled(row).records) = Len(row.records)
         /\ \A i \in 1..Len(row.records) :
              /\ Cancelled(row).records[i].req = row.records[i].req
              /\ Cancelled(row).records[i].step = row.records[i].step
<1>0. row \in Rows /\ row.records \in Seq(Records) /\ row.pending \in 0..Len(row.records)
  BY DEF RowOK, Rows
<1>1. CASE row.pending = 0
  BY <1>1 DEF Cancelled
<1>2. CASE row.pending # 0
  <2> DEFINE record == [row.records[row.pending] EXCEPT !.status = "cancelled"]
             records == [row.records EXCEPT ![row.pending] = record]
  <2>1. row.pending \in 1..Len(row.records)
    BY <1>0, <1>2
  <2>2. row.records[row.pending] \in Records
    BY <1>0, <2>1
  <2>3. /\ record \in Records /\ record.req = row.records[row.pending].req
        /\ record.step = row.records[row.pending].step
    BY <2>2 DEF Records
  <2>4. Cancelled(row) = Listing(row, records, 0)
    BY <1>0, <1>2, <2>1 DEF Cancelled, Listing, Rows
  <2> HIDE DEF record
  <2>5. /\ records \in Seq(Records) /\ Len(records) = Len(row.records)
        /\ \A i \in 1..Len(row.records) :
             records[i].req = row.records[i].req /\ records[i].step = row.records[i].step
    BY <1>0, <2>1, <2>3
  <2>6. 0 \in 0..Len(records)
    BY <2>5
  <2> HIDE DEF records
  <2>7. /\ RowOK(Cancelled(row)) /\ Cancelled(row).actor = row.actor
        /\ Cancelled(row).records = records /\ Cancelled(row).pending = 0
    BY <2>4, <2>5, <2>6, RowListing
  <2>8. QED
    BY <2>5, <2>7
<1>3. QED
  BY <1>1, <1>2

\* A cancellation writes its row.
LEMMA CancelWritesShape ==
  ASSUME AgentShape, NEW w \in Workers, CancelWrites(w)
  PROVE  AgentShape'
<1> DEFINE row == caller[w].row
<1>1. caller[w].at # "out"
  BY DEF CancelWrites, Back
<1>2. RowOK(row) /\ row.actor \in People /\ row.step \in Nat
  BY <1>1, AtWork
<1>3. FinishRun(w, "cancelled", row.step, Cancelled(row))
  BY DEF CancelWrites, Cancelled
<1>4. RowOK(Cancelled(row)) /\ Cancelled(row).actor \in People
  BY <1>2, CancelledOK
<1>5. QED
  BY <1>2, <1>3, <1>4, AgentWords, ShapeFinishes

-----------------------------------------------------------------------------
(***************************************************************************)
(* Every step is a step of SmartAction, or leaves its variables alone.     *)
(***************************************************************************)

\* The calls a handler makes are calls that SmartAction starts.
LEMMA CallsStart ==
  ASSUME NEW w \in Workers, NEW r \in Requests, NEW p \in People,
         \/ ReadOverdue(w, r)
         \/ Invoke(w, r, p)
         \/ Decide(w, r, p)
         \/ CompleteApproval(w, r, p, p \in Admins)
  PROVE  Next
<1>1. Start(w)
  BY DEF Start
<1>2. QED
  BY <1>1 DEF Next

\* A tool is invoked for the actor of the run.
LEMMA InvokesStep ==
  ASSUME NEW w \in Workers, NEW r \in Requests, NEW s, caller[w].row.actor \in People,
         InvokeStep(w, r, s)
  PROVE  Next
<1>1. "failed" \in Results
  BY DEF Results
<1>2. Invoke(w, r, caller[w].row.actor)
  BY <1>1 DEF InvokeStep, Invoke
<1>3. QED
  BY <1>2, CallsStart

\* The steps of a handler.
LEMMA AgentStepRefines ==
  ASSUME AgentShape, NEW w \in Workers, AgentStep(w)
  PROVE  [Next]_vars
<1>1. CASE \/ LoopEnds(w) \/ TimesOut(w) \/ SkipAttempted(w) \/ Pause(w) \/ StepDone(w)
           \/ FallBack(w) \/ GiveUp(w) \/ Raises(w) \/ ResumeContinues(w) \/ ResumeEnds(w)
           \/ CancelWrites(w) \/ Unwinds(w)
  BY <1>1 DEF LoopEnds, TimesOut, SkipAttempted, Pause, StepDone, FallBack, GiveUp, Raises,
     ResumeContinues, ResumeEnds, CancelWrites, Unwinds
<1>2. CASE Attempt(w) \/ RetryStep(w)
  <2>1. caller[w].at # "out" /\ Fresh # {}
    BY <1>2 DEF Attempt, RetryStep, StepFailed, Back
  <2>2. caller[w].row.actor \in People
    BY <2>1, AtWork
  <2>3. (CHOOSE x \in Fresh : TRUE) \in Requests
    BY <2>1 DEF Fresh
  <2>4. \E s : InvokeStep(w, CHOOSE x \in Fresh : TRUE, s)
    BY <1>2 DEF Attempt, RetryStep
  <2>5. QED
    BY <2>2, <2>3, <2>4, InvokesStep
<1>3. CASE ReadExpires(w) \/ ResumeApproves(w) \/ ResumeCompletes(w) \/ CancelRejects(w)
  <2>1. caller[w].at # "out"
    BY <1>3 DEF ReadExpires, ResumeApproves, ResumeCompletes, CancelRejects, Back
  <2>2. caller[w].req \in Requests /\ caller[w].by \in People
    BY <2>1, AtWork
  <2>3. CASE ReadExpires(w)
    BY <2>2, <2>3, CallsStart DEF ReadExpires
  <2>4. CASE ResumeApproves(w)
    <3>1. Decide(w, caller[w].req, caller[w].by)
      BY <2>4 DEF ResumeApproves, Decide, Decisions
    <3>2. QED
      BY <2>2, <3>1, CallsStart
  <2>5. CASE ResumeCompletes(w)
    BY <2>2, <2>5, CallsStart DEF ResumeCompletes
  <2>6. CASE CancelRejects(w) /\ caller[w].by = caller[w].row.actor
    <3>1. CancelDecision(w, caller[w].req, caller[w].by)
      BY <2>6 DEF CancelRejects, CancelDecision
    <3>2. QED
      BY <2>2, <3>1 DEF Next
  <2>7. CASE CancelRejects(w) /\ caller[w].by # caller[w].row.actor
    <3>1. Decide(w, caller[w].req, caller[w].by)
      BY <2>7 DEF CancelRejects, Decide, Decisions
    <3>2. QED
      BY <2>2, <3>1, CallsStart
  <2>8. QED
    BY <1>3, <2>3, <2>4, <2>5, <2>6, <2>7
<1>4. QED
  BY <1>1, <1>2, <1>3 DEF AgentStep

\* ... and every other step.
LEMMA AgentNextRefines ==
  ASSUME AgentShape, [AgentNext]_agentVars
  PROVE  [Next]_vars
<1>1. CASE \E w \in Workers : ServiceStep(w)
  BY <1>1 DEF ServiceStep, Next
<1>2. CASE \E w \in Workers : AgentStep(w)
  BY <1>2, AgentStepRefines
<1>3. CASE \E w \in Workers : AgentStart(w)
  <2>1. PICK w \in Workers, a \in Runs, p \in People :
          \/ \E aware \in Aware : RunAgent(w, a, p, aware, 0)
          \/ \E b \in Runs : RetryAgent(w, a, b, p)
          \/ Resume(w, a, p)
          \/ Cancel(w, a, p)
    BY <1>3 DEF AgentStart
  <2>2. \A b, aware, retries : RunAgent(w, b, p, aware, retries) => UNCHANGED vars
    BY DEF RunAgent
  <2>3. \/ \E b, aware, retries : RunAgent(w, b, p, aware, retries)
        \/ Resume(w, a, p) \/ Cancel(w, a, p)
    BY <2>1 DEF RetryAgent
  <2>4. QED
    BY <2>2, <2>3 DEF Resume, Cancel
<1>4. CASE \E w \in Workers : Inbox(w)
  <2>1. People # {}
    BY PeopleAssumption
  <2>2. QED
    BY <1>4, <2>1, CallsStart DEF Inbox
<1>5. CASE \E w \in Workers : AgentCrash(w) \/ InvokeRaises(w)
  BY <1>5 DEF AgentCrash, InvokeRaises, Next
<1>6. CASE \E r \in Requests : Deadline(r) /\ UNCHANGED <<agent, caller>>
  BY <1>6 DEF Next
<1>7. CASE UNCHANGED agentVars
  BY <1>7 DEF agentVars, vars
<1>8. QED
  BY <1>1, <1>2, <1>3, <1>4, <1>5, <1>6, <1>7 DEF AgentNext

-----------------------------------------------------------------------------
(***************************************************************************)
(* The invariant for any number of workers.                                *)
(***************************************************************************)

\* No run exists yet.
LEMMA InitAgentInv == AgentInit => AgentInv
<1>1. SUFFICES ASSUME AgentInit PROVE AgentInv
  OBVIOUS
<1>2. SmartInv
  BY <1>1, InitSmartInv DEF AgentInit
<1>3. NoRow \in Rows /\ Out \in CallerFrames
  BY OutOK DEF StoredOK, RowOK, CallerOK
<1>4. AgentShape
  BY <1>1, <1>3, OutOK DEF AgentInit, AgentShape
<1>5. QED
  BY <1>2, <1>4 DEF AgentInv

\* Handlers begin.
LEMMA AgentStartShape ==
  ASSUME AgentShape, NEW w \in Workers, AgentStart(w)
  PROVE  AgentShape'
<1>1. PICK a \in Runs, p \in People :
        \/ \E aware \in Aware : RunAgent(w, a, p, aware, 0)
        \/ \E b \in Runs : RetryAgent(w, a, b, p)
        \/ Resume(w, a, p)
        \/ Cancel(w, a, p)
  BY DEF AgentStart
<1>2. CASE \E aware \in Aware : RunAgent(w, a, p, aware, 0)
  <2>1. Aware \subseteq BOOLEAN /\ 0 \in 0..MaxRetries
    BY DefinitionAssumption
  <2>2. QED
    BY <1>2, <2>1, RunAgentShape
<1>3. CASE \E b \in Runs : RetryAgent(w, a, b, p)
  <2>1. PICK b \in Runs : RetryAgent(w, a, b, p)
    BY <1>3
  <2>2. agent[a] \in Rows
    BY DEF AgentShape
  <2> DEFINE aware == agent[a].aware
             retries == agent[a].retries + 1
  <2>3. aware \in BOOLEAN
    BY <2>2 DEF Rows
  <2>4. retries \in 0..MaxRetries
    BY <2>1, <2>2, DefinitionAssumption DEF Rows, RetryAgent, MayRetry
  <2>5. RunAgent(w, b, p, aware, retries)
    BY <2>1 DEF RetryAgent
  <2> HIDE DEF aware, retries
  <2>6. QED
    BY <2>3, <2>4, <2>5, RunAgentShape
<1>4. CASE Resume(w, a, p) \/ Cancel(w, a, p)
  BY <1>4, BeginShape
<1>5. QED
  BY <1>1, <1>2, <1>3, <1>4

\* Every step keeps the invariant.
LEMMA AgentNextKeeps == AgentInv /\ [AgentNext]_agentVars => AgentInv' /\ [Next]_vars
<1>1. SUFFICES ASSUME AgentInv, [AgentNext]_agentVars PROVE AgentInv' /\ [Next]_vars
  OBVIOUS
<1>2. AgentShape /\ TypeOK /\ SmartInv
  BY <1>1 DEF AgentInv, SmartInv
<1>3. [Next]_vars
  BY <1>1, <1>2, AgentNextRefines
<1>4. SmartInv'
  BY <1>2, <1>3, NextKeeps
<1>5. CASE UNCHANGED <<agent, caller>>
  <2>1. AgentShape'
    BY <1>2, <1>5 DEF AgentShape
  <2>2. QED
    BY <1>3, <1>4, <2>1 DEF AgentInv
<1>6. CASE \E w \in Workers : AgentStep(w)
  <2>1. PICK w \in Workers : AgentStep(w)
    BY <1>6
  <2>2. CASE ReadExpires(w)
    BY <1>5, <2>2 DEF ReadExpires
  <2>3. CASE ~ReadExpires(w)
    <3>1. AgentShape'
      BY <1>2, <2>1, <2>3, LoopEndsShape, SkipShape, AttemptShape, StopShape, StepDoneShape,
         RetryStepShape, FallBackShape, WaitShape, ResumeShape, CancelWritesShape DEF AgentStep
    <3>2. QED
      BY <1>3, <1>4, <3>1 DEF AgentInv
  <2>4. QED
    BY <2>2, <2>3
<1>7. CASE \E w \in Workers : AgentStart(w)
  <2>1. AgentShape'
    BY <1>2, <1>7, AgentStartShape
  <2>2. QED
    BY <1>3, <1>4, <2>1 DEF AgentInv
<1>8. CASE \E w \in Workers : AgentCrash(w) \/ InvokeRaises(w)
  <2>1. AgentShape'
    BY <1>2, <1>8, OutOK, ShapeMoves, WaitShape DEF AgentCrash, Leave
  <2>2. QED
    BY <1>3, <1>4, <2>1 DEF AgentInv
<1>9. QED
  BY <1>1, <1>5, <1>6, <1>7, <1>8 DEF AgentNext, ServiceStep, Inbox, agentVars

\* For any number of workers, runs and steps, with crashes: the rows of agent
\* runs and the locals of their handlers have their types.
THEOREM AgentInvariance == AgentSpec => []AgentInv
<1>1. QED
  BY InitAgentInv, AgentNextKeeps, PTL DEF AgentSpec

\* For any number of workers: the agent_runs rows that update_agent_run writes
\* have their types, and the step a row waits for is one of its records.
THEOREM AgentTypes == AgentSpec => []AgentTypeOK
<1>1. AgentInv => AgentTypeOK
  BY DEF AgentInv, AgentTypeOK, AgentShape, SmartInv, StoredOK, RowOK
<1>2. QED
  BY <1>1, AgentInvariance, PTL

\* Agent runs reach the smart actions only through the calls of their service:
\* every behaviour of the agents is one of SmartAction, so all that is proved
\* of SmartAction holds below agent runs as well.
THEOREM AgentsImplementSmartAction == AgentSpec => ImplementsSmartAction
<1>1. AgentInit => Init
  BY DEF AgentInit
<1>2. AgentInv /\ [AgentNext]_agentVars => [Next]_vars
  BY AgentNextKeeps
<1>3. QED
  BY <1>1, <1>2, AgentInvariance, PTL DEF AgentSpec, ImplementsSmartAction, Spec

\* One handler at a time: the outcome of a smart action that _continue or
\* resume started agrees with the decision on its approval request.
THEOREM AgentOutcomesAgree ==
  ASSUME OneAtATime
  PROVE  AgentSpec => []AgreesWithDecision
<1>1. Spec => []AgreesWithDecision
  BY OutcomesAgree
<1>2. AgentSpec => Spec
  BY AgentsImplementSmartAction DEF ImplementsSmartAction
<1>3. QED
  BY <1>1, <1>2

\* One handler at a time: that outcome is never replaced, and no retry or
\* resumption of the agent run calls its tool again.
THEOREM AgentOutcomesAreFinal ==
  ASSUME OneAtATime
  PROVE  AgentSpec => OutcomeIsFinal
<1>1. Spec => OutcomeIsFinal
  BY OutcomesAreFinal
<1>2. AgentSpec => Spec
  BY AgentsImplementSmartAction DEF ImplementsSmartAction
<1>3. QED
  BY <1>1, <1>2

-----------------------------------------------------------------------------
(***************************************************************************)
(* Handlers that do not overlap: no two runs share a request, and the only *)
(* recorded request that may still be pending is the one a run waits for.  *)
(***************************************************************************)

\* Every recorded request was invoked; none of them is pending, but the one
\* that the row waits for.
Known(runs, row) ==
  \A i \in 1..Len(row.records) : runs[row.records[i].req].status # "none"

Settled(requests, row) ==
  \A i \in 1..Len(row.records) :
    i # row.pending => requests[row.records[i].req].status # "pending"

\* The row has no record of request r; the two rows share no request.
Lacks(row, r) == \A i \in 1..Len(row.records) : row.records[i].req # r

Apart(row, other) == \A i \in 1..Len(row.records) : Lacks(other, row.records[i].req)

RunsApart ==
  /\ \A a \in Runs : Known(run, agent[a]) /\ Settled(request, agent[a])
  /\ \A a \in Runs : agent[a].status \in Finished => agent[a].pending = 0
  /\ \A a, b \in Runs : a # b => Apart(agent[a], agent[b])

\* The run of a handler is not finished, and its copy of the row is as good as
\* the row in the table.
HandlerOK(f) ==
  f.at # "out" =>
    /\ agent[f.id].status \notin Finished
    /\ Known(run, f.row) /\ Settled(request, f.row)
    /\ \A b \in Runs \ {f.id} : Apart(f.row, agent[b])
    /\ f.at \in {"loop", "invoked"} => f.row.pending = 0
    /\ f.at \notin {"loop", "invoked"} /\ f.row.pending # 0 => f.req = PendingRequest(f.row)
    /\ f.at = "invoked" =>
         run[f.req].status # "none" /\ \A b \in Runs \ {f.id} : Lacks(agent[b], f.req)

\* What the service call of a handler is about, and what its return means.
CallOK(w) ==
  /\ caller[w].at \in {"loop", "invoked"} => IsIdle(w)
  /\ caller[w].at = "invoked" /\ returned[w] # "pending_approval" =>
       request[caller[w].req].status # "pending"
  /\ caller[w].at \in {"approving", "cancelling", "completing"} /\ ~IsIdle(w) =>
       worker[w].req = caller[w].req
  /\ caller[w].at \in {"approving", "cancelling"} =>
       \/ worker[w].at = "decide" /\ worker[w].arg # "pending"
       \/ request[caller[w].req].status # "pending"
       \/ IsIdle(w) /\ returned[w] = "error"
  /\ caller[w].at = "completing" => request[caller[w].req].status # "pending"
  /\ ~IsIdle(w) =>
       \A a \in Runs : agent[a].status \in Finished => Lacks(agent[a], worker[w].req)

\* The inductive invariant of handlers that do not overlap.
QuietInv ==
  /\ AgentInv
  /\ SerialInv
  /\ RunsApart
  /\ \A w \in Workers : HandlerOK(caller[w]) /\ CallOK(w)

\* What no step takes back: an invocation, a decision, a success.
Advances ==
  \A r \in Requests : run[r].status # "none" =>
    /\ run'[r].status # "none"
    /\ request[r].status # "pending" => request'[r].status # "pending"
    /\ run[r].status = "success" => run'[r].status = "success"

\* Only a new request becomes pending.
LEMMA NextAdvances ==
  ASSUME SerialInv, OneAtATime, [Next]_vars
  PROVE  Advances
<1>1. KeepsOutcomes
  BY SerialNext
<1>2. CASE UNCHANGED tables
  BY <1>2 DEF Advances, tables
<1>3. CASE \E w \in Workers : Expire(w) \/ DecideCommit(w) \/ RecordCommit(w)
  <2>1. PICK w \in Workers : Expire(w) \/ DecideCommit(w) \/ RecordCommit(w)
    BY <1>3
  <2> DEFINE r == worker[w].req
  <2>2. r \in Requests /\ StillTrue(worker[w]) /\ FrameOK(worker[w])
    BY DEF SerialInv, SmartInv, TypeOK, Frames
  <2>3. \A q \in Requests \ {r} : request'[q] = request[q] /\ run'[q] = run[q]
    BY <2>1, <2>2 DEF Expire, DecideCommit, RecordCommit, SerialInv, SmartInv, TypeOK
  <2>4. CASE Expire(w)
    <3>1. request[r].status = "pending" /\ run[r].status = "pending_approval"
      BY <2>2, <2>4 DEF Expire, StillTrue, SerialInv, WaitsTogether
    <3>2. request'[r].status # "pending"
      BY <2>2, <2>4, <3>1 DEF Expire, SerialInv, SmartInv, TypeOK
    <3>3. run'[r].status = "rejected"
      BY <2>2, <2>4, <3>1 DEF Expire, ExpireRun, SerialInv, SmartInv, TypeOK
    <3>4. QED
      BY <2>3, <3>1, <3>2, <3>3 DEF Advances
  <2>5. CASE DecideCommit(w)
    <3>1. request[r].status = "pending" /\ run' = run
      BY <2>2, <2>5 DEF DecideCommit, StillTrue
    <3>2. QED
      BY <2>3, <3>1 DEF Advances
  <2>6. CASE RecordCommit(w)
    <3>1. request' = request /\ run[r].status = "pending_approval"
      BY <2>2, <2>6 DEF RecordCommit, StillTrue
    <3>2. run'[r].status = worker[w].arg
      BY <2>2, <2>6 DEF RecordCommit, SerialInv, SmartInv, TypeOK
    <3>3. worker[w].arg # "none"
      BY <2>2, <2>6 DEF RecordCommit, StillTrue, Results
    <3>4. QED
      BY <2>3, <3>1, <3>2, <3>3 DEF Advances
  <2>7. QED
    BY <2>1, <2>4, <2>5, <2>6
<1>4. CASE \E w \in Workers, r \in Requests, p \in People : Invoke(w, r, p)
  <2>1. PICK w \in Workers, r \in Requests, p \in People : Invoke(w, r, p)
    BY <1>4
  <2>2. run[r].status = "none"
    BY <2>1 DEF Invoke, InvokeGated, InvokeDirect
  <2>3. \A q \in Requests \ {r} : request'[q] = request[q] /\ run'[q] = run[q]
    BY <2>1 DEF Invoke, InvokeGated, InvokeDirect, SerialInv, SmartInv, TypeOK
  <2>4. QED
    BY <2>2, <2>3 DEF Advances
<1>5. UNCHANGED tables
      \/ (\E w \in Workers : Expire(w) \/ DecideCommit(w) \/ RecordCommit(w))
      \/ (\E w \in Workers, r \in Requests, p \in People : Invoke(w, r, p))
  <2>1. CASE UNCHANGED vars
    BY <2>1 DEF vars, tables
  <2>2. CASE \E w \in Workers : Step(w)
    BY <2>2 DEF Step, DecideRollback, CompleteRead, Tool, RecordSelect
  <2>3. CASE \E w \in Workers : Start(w)
    BY <2>3 DEF Start, ReadOverdue, Decide, UpdateApproval, CompleteForSession, CompleteApproval
  <2>4. CASE \/ \E w \in Workers : Crash(w)
             \/ \E w \in Workers, r \in Requests, p \in People : CancelDecision(w, r, p)
             \/ \E r \in Requests : Deadline(r)
    BY <2>4 DEF Crash, CancelDecision, UpdateApproval, Deadline
  <2>5. QED
    BY <2>1, <2>2, <2>3, <2>4 DEF Next
<1>6. QED
  BY <1>2, <1>3, <1>4, <1>5

\* A row keeps what is known of its requests.
LEMMA RowStays ==
  ASSUME Advances, NEW row, RowOK(row), Known(run, row)
  PROVE  /\ Known(run', row)
         /\ Settled(request, row) => Settled(request', row)
<1>1. \A i \in 1..Len(row.records) : row.records[i].req \in Requests
  BY RecordRequest
<1>2. QED
  BY <1>1 DEF Advances, Known, Settled

\* The tables of the runs, after a step that leaves agent_runs alone.
LEMMA TableStays ==
  ASSUME AgentShape, RunsApart, Advances, UNCHANGED agent
  PROVE  RunsApart'
<1>1. \A a \in Runs : RowOK(agent[a])
  BY DEF AgentShape, StoredOK
<1>2. \A a \in Runs : Known(run', agent[a]) /\ Settled(request', agent[a])
  BY <1>1, RowStays DEF RunsApart
<1>3. QED
  BY <1>2 DEF RunsApart

\* A handler's copy of its row, after a step that leaves agent_runs alone.
LEMMA HandlerStays ==
  ASSUME AgentShape, Advances, UNCHANGED agent, NEW w \in Workers, HandlerOK(caller[w]),
         UNCHANGED caller
  PROVE  HandlerOK(caller[w])'
<1>1. CASE caller[w].at = "out"
  BY <1>1 DEF HandlerOK
<1>2. CASE caller[w].at # "out"
  <2>1. RowOK(caller[w].row) /\ caller[w].req \in Requests
    BY <1>2, AtWork
  <2>2. Known(run', caller[w].row) /\ Settled(request', caller[w].row)
    BY <1>2, <2>1, RowStays DEF HandlerOK
  <2>3. run[caller[w].req].status # "none" => run'[caller[w].req].status # "none"
    BY <2>1 DEF Advances
  <2>4. QED
    BY <1>2, <2>2, <2>3 DEF HandlerOK
<1>3. QED
  BY <1>1, <1>2

\* The table of the runs, after a handler wrote the row of its run.
LEMMA TableWritten ==
  ASSUME QuietInv, NEW w \in Workers, caller[w].at # "out",
         NEW status \in AgentStatuses, NEW step \in Nat, NEW row, RowOK(row),
         Known(run, row), Settled(request, row),
         \A b \in Runs \ {caller[w].id} : Apart(row, agent[b]),
         status \in Finished => row.pending = 0,
         Update(caller[w], status, step, row), UNCHANGED vars
  PROVE  /\ RunsApart' /\ agent'[caller[w].id].status = status
         /\ \A b \in Runs \ {caller[w].id} : agent'[b] = agent[b]
<1> DEFINE id == caller[w].id
           new == Written(row, status, step)
<1>1. id \in Runs /\ agent \in [Runs -> Rows]
  BY AtWork DEF QuietInv, AgentInv, AgentShape
<1>2. new.status = status /\ new.records = row.records /\ new.pending = row.pending
  BY RowWritten
<1>3. agent' = [agent EXCEPT ![id] = new]
  BY DEF Update, Written
<1>4. agent'[id] = new /\ \A b \in Runs \ {id} : agent'[b] = agent[b]
  BY <1>1, <1>3
<1>5. request' = request /\ run' = run
  BY DEF vars
<1> HIDE DEF new
<1>6. Known(run, new) /\ Settled(request, new)
  BY <1>2 DEF Known, Settled
<1>7. \A b \in Runs \ {id} : Apart(new, agent[b]) /\ Apart(agent[b], new)
  BY <1>2 DEF Apart, Lacks
<1> HIDE DEF id
<1>8. \A a \in Runs : Known(run', agent'[a]) /\ Settled(request', agent'[a])
  BY <1>4, <1>5, <1>6 DEF QuietInv, RunsApart
<1>9. \A a \in Runs : agent'[a].status \in Finished => agent'[a].pending = 0
  BY <1>2, <1>4 DEF QuietInv, RunsApart
<1>10. \A a, b \in Runs : a # b => Apart(agent'[a], agent'[b])
  BY <1>4, <1>7 DEF QuietInv, RunsApart
<1>11. QED
  BY <1>2, <1>4, <1>8, <1>9, <1>10 DEF RunsApart, id

\* The four parts of the invariant that are about handlers, in the next state.
RestOfQuiet == RunsApart /\ \A w \in Workers : HandlerOK(caller[w]) /\ CallOK(w)

\* The step that FinishedIsQuiet allows.
KeepsFinished ==
  \A a \in Runs : agent[a].status \in Finished =>
    /\ agent'[a] = agent[a]
    /\ \A r \in RecordedRequests(agent[a]) : tools'[r] = tools[r]

\* A worker that is out and idle relies on nothing.
LEMMA OutIsQuiet ==
  ASSUME NEW w \in Workers, caller'[w].at = "out", worker'[w].at = "idle"
  PROVE  HandlerOK(caller[w])' /\ CallOK(w)'
BY DEF HandlerOK, CallOK, IsIdle

\* A handler that finishes its run.
LEMMA QuietFinishes ==
  ASSUME QuietInv, OneAtATime, NEW w \in Workers, NEW label \in CallerLabels \ {"out"},
         Back(w, label),
         NEW status \in AgentStatuses, NEW step \in Nat, NEW row, RowOK(row),
         Known(run, row), Settled(request, row),
         \A b \in Runs \ {caller[w].id} : Apart(row, agent[b]),
         status \in Finished => row.pending = 0,
         FinishRun(w, status, step, row), UNCHANGED vars
  PROVE  RestOfQuiet' /\ KeepsFinished
<1>1. caller[w].at # "out" /\ worker[w].at = "idle"
  BY DEF Back, IsIdle
<1>2. /\ RunsApart' /\ agent'[caller[w].id].status = status
      /\ \A b \in Runs \ {caller[w].id} : agent'[b] = agent[b]
  BY <1>1, TableWritten DEF FinishRun
<1>3. caller'[w] = Out
  BY DEF FinishRun, Leave, Call, QuietInv, AgentInv, AgentShape
<1>4. caller'[w].at = "out" /\ worker'[w].at = "idle" /\ tools' = tools
  BY <1>1, <1>3, OutOK DEF vars
<1>5. HandlerOK(caller[w])' /\ CallOK(w)'
  BY <1>4, OutIsQuiet
<1>6. RestOfQuiet'
  BY <1>2, <1>5 DEF RestOfQuiet, OneAtATime
<1>7. agent[caller[w].id].status \notin Finished
  BY <1>1 DEF QuietInv, HandlerOK
<1>8. KeepsFinished
  BY <1>2, <1>4, <1>7 DEF KeepsFinished
<1>9. QED
  BY <1>6, <1>8

\* A step that leaves the runs and the tools alone.
LEMMA QuietKeeps ==
  ASSUME UNCHANGED <<agent, tools>>
  PROVE  KeepsFinished
BY DEF KeepsFinished

\* A handler that returns and writes nothing.
LEMMA QuietLeaves ==
  ASSUME QuietInv, OneAtATime, Advances, NEW w \in Workers, Leave(w), worker'[w].at = "idle",
         UNCHANGED <<agent, tools>>
  PROVE  RestOfQuiet' /\ KeepsFinished
<1>1. RunsApart'
  BY TableStays DEF QuietInv, AgentInv
<1>2. caller'[w] = Out
  BY DEF Leave, Call, QuietInv, AgentInv, AgentShape
<1>3. HandlerOK(caller[w])' /\ CallOK(w)'
  BY <1>2, OutOK, OutIsQuiet
<1>4. QED
  BY <1>1, <1>3, QuietKeeps DEF RestOfQuiet, OneAtATime

-----------------------------------------------------------------------------
(***************************************************************************)
(* The rows a handler builds from its copy.                                *)
(***************************************************************************)

\* The same steps and requests.
SameRecords(new, row) ==
  /\ Len(new.records) = Len(row.records)
  /\ \A i \in 1..Len(row.records) :
       new.records[i].req = row.records[i].req /\ new.records[i].step = row.records[i].step

\* One record more, of step s and request r.
OneMore(new, row, s, r) ==
  /\ Len(row.records) \in Nat
  /\ Len(new.records) = Len(row.records) + 1
  /\ \A i \in 1..Len(row.records) :
       new.records[i].req = row.records[i].req /\ new.records[i].step = row.records[i].step
  /\ new.records[Len(row.records) + 1].req = r
  /\ new.records[Len(row.records) + 1].step = s

\* The record of a call.
LEMMA RecordIsOneMore ==
  ASSUME AgentShape, TypeOK, NEW w \in Workers, caller[w].at = "invoked"
  PROVE  OneMore(WithRecord(w), caller[w].row, caller[w].step, caller[w].req)
<1> DEFINE record == [step |-> caller[w].step, req |-> caller[w].req, status |-> returned[w]]
           old == caller[w].row.records
           new == WithRecord(w).records
<1>1. new = Append(old, record)
  BY RecordAdded, Zenon
<1>2. old \in Seq(Records) /\ Len(old) \in Nat
  BY AtWork
<1>3. record.step = caller[w].step /\ record.req = caller[w].req
  OBVIOUS
<1> HIDE DEF record, old, new
<1>4. /\ Len(new) = Len(old) + 1 /\ new[Len(old) + 1] = record
      /\ \A i \in 1..Len(old) : new[i] = old[i]
  BY <1>1, <1>2
<1>5. QED
  BY <1>2, <1>3, <1>4 DEF OneMore, old, new

\* The answer on the record that waited.
LEMMA AnsweredIsSame ==
  ASSUME AgentShape, TypeOK, NEW w \in Workers, caller[w].at # "out", caller[w].row.pending # 0
  PROVE  SameRecords(Answered(w), caller[w].row)
<1> DEFINE old == caller[w].row.records
           new == Answered(w).records
           p == caller[w].row.pending
<1>1. new = [old EXCEPT ![p].status = returned[w]]
  BY AnsweredOK, Zenon
<1>2. old \in Seq(Records) /\ p \in 1..Len(old)
  BY AtWork
<1>3. old[p] \in Records
  BY <1>2
<1> HIDE DEF old, new, p
<1>4. /\ Len(new) = Len(old)
      /\ \A i \in 1..Len(old) : i # p => new[i] = old[i]
      /\ new[p] = [old[p] EXCEPT !.status = returned[w]]
  BY <1>1, <1>2
<1>5. new[p].req = old[p].req /\ new[p].step = old[p].step
  BY <1>3, <1>4 DEF Records
<1>6. QED
  BY <1>4, <1>5 DEF SameRecords, old, new

\* The rows that a handler at work builds share no request with other runs.
LEMMA BuiltRow ==
  ASSUME QuietInv, NEW w \in Workers, caller[w].at # "out", NEW row, RowOK(row),
         \/ SameRecords(row, caller[w].row)
         \/ caller[w].at = "invoked" /\ OneMore(row, caller[w].row, caller[w].step, caller[w].req)
  PROVE  Known(run, row) /\ \A b \in Runs \ {caller[w].id} : Apart(row, agent[b])
<1> DEFINE f == caller[w]
<1>1. /\ Known(run, f.row) /\ \A b \in Runs \ {f.id} : Apart(f.row, agent[b])
      /\ f.at = "invoked" =>
           run[f.req].status # "none" /\ \A b \in Runs \ {f.id} : Lacks(agent[b], f.req)
  BY DEF QuietInv, HandlerOK
<1>2. Len(f.row.records) \in Nat
  BY AtWork DEF QuietInv, AgentInv
<1> HIDE DEF f
<1>3. \A i \in 1..Len(row.records) :
        \/ \E j \in 1..Len(f.row.records) : row.records[i].req = f.row.records[j].req
        \/ f.at = "invoked" /\ row.records[i].req = f.req
  <2>1. CASE SameRecords(row, f.row)
    BY <2>1 DEF SameRecords
  <2>2. CASE f.at = "invoked" /\ OneMore(row, f.row, f.step, f.req)
    BY <1>2, <2>2 DEF OneMore
  <2>3. QED
    BY <2>1, <2>2 DEF f
<1>4. Known(run, row)
  BY <1>1, <1>3 DEF Known
<1>5. \A b \in Runs \ {f.id} : Apart(row, agent[b])
  BY <1>1, <1>3 DEF Apart
<1>6. QED
  BY <1>4, <1>5 DEF f

\* A handler's row is settled once its pending request is not pending any more.
LEMMA SameSettled ==
  ASSUME QuietInv, NEW w \in Workers, caller[w].at # "out", NEW row, RowOK(row),
         SameRecords(row, caller[w].row), row.pending = 0,
         \/ caller[w].row.pending = 0
         \/ caller[w].at \notin {"loop", "invoked"} /\ request[caller[w].req].status # "pending"
  PROVE  Settled(request, row)
<1>1. Settled(request, caller[w].row)
  BY DEF QuietInv, HandlerOK
<1>2. caller[w].row.pending # 0 => request[PendingRequest(caller[w].row)].status # "pending"
  BY DEF QuietInv, HandlerOK
<1>3. QED
  BY <1>1, <1>2 DEF Settled, SameRecords, PendingRequest

\* A row with one more record is settled if its request is not pending, or is
\* the one it waits for.
LEMMA OneMoreSettled ==
  ASSUME QuietInv, NEW w \in Workers, caller[w].at = "invoked", NEW row, RowOK(row),
         OneMore(row, caller[w].row, caller[w].step, caller[w].req),
         \/ row.pending = 0 /\ request[caller[w].req].status # "pending"
         \/ row.pending = Len(row.records)
  PROVE  Settled(request, row)
<1>1. Settled(request, caller[w].row) /\ caller[w].row.pending = 0
  BY DEF QuietInv, HandlerOK
<1>2. \A i \in 1..Len(caller[w].row.records) :
        request[caller[w].row.records[i].req].status # "pending"
  BY <1>1 DEF Settled
<1>3. \A i \in 1..Len(row.records) :
        i \in 1..Len(caller[w].row.records) \/ i = Len(caller[w].row.records) + 1
  BY DEF OneMore
<1>4. QED
  BY <1>2, <1>3 DEF Settled, OneMore

-----------------------------------------------------------------------------
(***************************************************************************)
(* The steps of handlers that do not overlap.                              *)
(***************************************************************************)

\* What the invariant says of a handler at work.
LEMMA QuietFacts ==
  ASSUME QuietInv, NEW w \in Workers
  PROVE  /\ AgentShape /\ TypeOK /\ RunsApart /\ HandlerOK(caller[w]) /\ CallOK(w)
         /\ caller[w] \in CallerFrames /\ caller \in [Workers -> CallerFrames]
BY DEF QuietInv, AgentInv, AgentShape, SmartInv

\* The loop ends or times out.
LEMMA QuietLoopEnds ==
  ASSUME QuietInv, OneAtATime, NEW w \in Workers, LoopEnds(w) \/ TimesOut(w)
  PROVE  RestOfQuiet' /\ KeepsFinished
<1> DEFINE f == caller[w]
<1>1. Back(w, "loop") /\ f.at = "loop" /\ UNCHANGED vars
  BY DEF LoopEnds, TimesOut, Back
<1>2. /\ RowOK(f.row) /\ Known(run, f.row) /\ Settled(request, f.row) /\ f.row.pending = 0
      /\ \A b \in Runs \ {f.id} : Apart(f.row, agent[b])
      /\ f.queue \in Seq(Steps) /\ Len(f.row.records) \in Nat
  BY <1>1, QuietFacts, AtWork DEF HandlerOK
<1>3. PICK status \in {"completed", "failed"}, step \in Nat : FinishRun(w, status, step, f.row)
  <2>1. CASE LoopEnds(w)
    <3>1. (IF f.row.aware THEN Len(f.row.records) ELSE NSteps) \in Nat
      BY <1>2, DefinitionAssumption
    <3>2. QED
      BY <2>1, <3>1 DEF LoopEnds
  <2>2. CASE TimesOut(w) /\ f.queue # <<>>
    <3>1. Head(f.queue) \in Steps
      BY <1>2, <2>2
    <3>2. Position(f, Head(f.queue)) \in Nat
      BY <1>1, <3>1, PositionType, QuietFacts
    <3>3. QED
      BY <2>2, <3>2 DEF TimesOut
  <2>3. CASE TimesOut(w) /\ f.queue = <<>>
    BY <1>2, <2>3 DEF TimesOut
  <2>4. QED
    BY <2>1, <2>2, <2>3
<1>4. status \in AgentStatuses /\ "loop" \in CallerLabels \ {"out"}
  BY AgentWords DEF CallerLabels
<1>5. QED
  BY <1>1, <1>2, <1>3, <1>4, QuietFinishes

\* The run pauses.
LEMMA QuietPause ==
  ASSUME QuietInv, OneAtATime, NEW w \in Workers, Pause(w)
  PROVE  RestOfQuiet' /\ KeepsFinished
<1> DEFINE f == caller[w]
           old == WithRecord(w)
           row == [old EXCEPT !.pending = Len(old.records)]
           step == Position(f, f.step)
<1>1. Back(w, "invoked") /\ f.at = "invoked" /\ UNCHANGED vars
  BY DEF Pause, Back
<1>2. AgentShape /\ TypeOK
  BY QuietFacts
<1>3. RowOK(old) /\ old.actor \in People /\ Len(old.records) \in 0..Len(old.records)
  BY <1>1, <1>2, RecordCounts
<1>4. OneMore(old, f.row, f.step, f.req)
  BY <1>1, <1>2, RecordIsOneMore
<1>5. step \in Nat
  BY <1>1, <1>2, PositionType DEF AgentShape, CallerOK
<1>6. FinishRun(w, "pending_approval", step, row)
  BY DEF Pause
<1> HIDE DEF old, step
<1>7. RowOK(row) /\ row.pending = Len(old.records) /\ row.records = old.records
  BY <1>3, PendingSet
<1> HIDE DEF row
<1>8. OneMore(row, f.row, f.step, f.req)
  BY <1>4, <1>7 DEF OneMore
<1>9. Known(run, row) /\ \A b \in Runs \ {f.id} : Apart(row, agent[b])
  BY <1>1, <1>7, <1>8, BuiltRow
<1>10. Settled(request, row)
  BY <1>1, <1>7, <1>8, OneMoreSettled
<1>11. "pending_approval" \in AgentStatuses \ Finished /\ "invoked" \in CallerLabels \ {"out"}
  BY AgentWords DEF CallerLabels, Finished
<1>12. QED
  BY <1>1, <1>5, <1>6, <1>7, <1>9, <1>10, <1>11, QuietFinishes

\* A step that is over: its record has a settled request.
LEMMA StepOver ==
  ASSUME QuietInv, NEW w \in Workers, Back(w, "invoked"), returned[w] # "pending_approval"
  PROVE  /\ RowOK(WithRecord(w)) /\ WithRecord(w).pending = 0
         /\ Known(run, WithRecord(w)) /\ Settled(request, WithRecord(w))
         /\ \A b \in Runs \ {caller[w].id} : Apart(WithRecord(w), agent[b])
<1>1. caller[w].at = "invoked"
  BY DEF Back
<1>2. AgentShape /\ TypeOK /\ request[caller[w].req].status # "pending"
  BY <1>1, QuietFacts DEF CallOK
<1>3. RowOK(WithRecord(w))
  BY <1>1, <1>2, RecordCounts
<1>4. WithRecord(w).pending = caller[w].row.pending
  BY <1>1, <1>2, RecordAdded, Zenon
<1>5. caller[w].row.pending = 0
  BY <1>1, QuietFacts DEF HandlerOK
<1>6. OneMore(WithRecord(w), caller[w].row, caller[w].step, caller[w].req)
  BY <1>1, <1>2, RecordIsOneMore
<1>7. Settled(request, WithRecord(w))
  BY <1>1, <1>2, <1>3, <1>4, <1>5, <1>6, OneMoreSettled
<1>8. QED
  BY <1>1, <1>3, <1>4, <1>5, <1>6, <1>7, BuiltRow

\* The run fails.
LEMMA QuietGiveUp ==
  ASSUME QuietInv, OneAtATime, NEW w \in Workers, GiveUp(w)
  PROVE  RestOfQuiet' /\ KeepsFinished
<1> DEFINE step == Position(caller[w], caller[w].step)
<1>1. Back(w, "invoked") /\ caller[w].at = "invoked" /\ returned[w] = "failed" /\ UNCHANGED vars
  BY DEF GiveUp, StepFailed, Back
<1>2. step \in Nat
  BY <1>1, PositionType, QuietFacts DEF AgentShape, CallerOK
<1>3. FinishRun(w, "failed", step, WithRecord(w))
  BY DEF GiveUp
<1> HIDE DEF step
<1>4. "failed" \in AgentStatuses /\ "invoked" \in CallerLabels \ {"out"}
  BY AgentWords DEF CallerLabels
<1>5. QED
  BY <1>1, <1>2, <1>3, <1>4, StepOver, QuietFinishes

\* A handler that wrote its row as queued and goes on with the loop.
LEMMA QuietLoops ==
  ASSUME QuietInv, OneAtATime, NEW w \in Workers, Back(w, "invoked"),
         NEW step \in Nat, NEW row, RowOK(row), row.pending = 0,
         Known(run, row), Settled(request, row),
         \A b \in Runs \ {caller[w].id} : Apart(row, agent[b]),
         Update(caller[w], "queued", step, row),
         NEW frame, Call(w, frame),
         frame.at = "loop", frame.id = caller[w].id, frame.row = row, UNCHANGED vars
  PROVE  RestOfQuiet' /\ KeepsFinished
<1>1. caller[w].at # "out" /\ worker[w].at = "idle"
  BY DEF Back, IsIdle
<1>2. "queued" \in AgentStatuses \ Finished
  BY AgentWords DEF Finished
<1>3. /\ RunsApart' /\ agent'[caller[w].id].status = "queued"
      /\ \A b \in Runs \ {caller[w].id} : agent'[b] = agent[b]
  BY <1>1, <1>2, TableWritten
<1>4. caller'[w] = frame
  BY QuietFacts DEF Call
<1>5. worker'[w].at = "idle" /\ run' = run /\ request' = request /\ tools' = tools
  BY <1>1 DEF vars
<1>6. HandlerOK(caller[w])'
  BY <1>2, <1>3, <1>4, <1>5 DEF HandlerOK
<1>7. CallOK(w)'
  BY <1>4, <1>5 DEF CallOK, IsIdle
<1>8. agent[caller[w].id].status \notin Finished
  BY <1>1, QuietFacts DEF HandlerOK
<1>9. KeepsFinished
  BY <1>3, <1>5, <1>8 DEF KeepsFinished
<1>10. QED
  BY <1>3, <1>6, <1>7, <1>9 DEF RestOfQuiet, OneAtATime

\* The tool succeeded, or its fallback is next.
LEMMA QuietGoesOn ==
  ASSUME QuietInv, OneAtATime, NEW w \in Workers, StepDone(w) \/ FallBack(w)
  PROVE  RestOfQuiet' /\ KeepsFinished
<1> DEFINE f == caller[w]
           old == WithRecord(w)
<1>1. /\ Back(w, "invoked") /\ f.at = "invoked" /\ returned[w] # "pending_approval"
      /\ UNCHANGED vars
  BY DEF StepDone, FallBack, StepFailed, Back
<1>2. f \in CallerFrames /\ f.step \in Steps /\ AgentShape /\ TypeOK
  BY <1>1, QuietFacts DEF AgentShape, CallerOK
<1>3. /\ RowOK(old) /\ old.pending = 0 /\ Known(run, old) /\ Settled(request, old)
      /\ \A b \in Runs \ {f.id} : Apart(old, agent[b])
  BY <1>1, StepOver
<1>4. old.records \in Seq(Records) /\ Len(old.records) \in Nat /\ 0 \in 0..Len(old.records)
      /\ old.actor \in People
  BY <1>1, <1>2, RecordCounts
<1>5. CASE StepDone(w)
  <2> DEFINE row == [old EXCEPT !.pending = 0]
             step == IF row.aware THEN Len(row.records) ELSE f.step
             frame == [f EXCEPT !.at = "loop", !.row = row, !.attempt = 0]
  <2>1. Update(f, "queued", step, row) /\ Call(w, frame)
    BY <1>5 DEF StepDone
  <2> HIDE DEF old
  <2>2. RowOK(row) /\ row.pending = 0 /\ row.records = old.records
    BY <1>3, <1>4, PendingSet
  <2>3. step \in Nat
    BY <1>2, <1>4, <2>2, DefinitionAssumption DEF Steps
  <2> HIDE DEF row, step
  <2>4. frame.at = "loop" /\ frame.id = f.id /\ frame.row = row
    BY <1>2 DEF CallerFrames
  <2> HIDE DEF frame
  <2>5. /\ Known(run, row) /\ Settled(request, row)
        /\ \A b \in Runs \ {f.id} : Apart(row, agent[b])
    BY <1>3, <2>2 DEF Known, Settled, Apart
  <2>6. QED
    BY <1>1, <2>1, <2>2, <2>3, <2>4, <2>5, QuietLoops
<1>6. CASE FallBack(w)
  <2> DEFINE step == IF old.aware THEN Len(old.records) ELSE f.step - 1
             queue == <<FallbackTo>> \o f.queue
             frame == [f EXCEPT !.at = "loop", !.row = old, !.attempt = 0, !.queue = queue]
  <2>1. Update(f, "queued", step, old) /\ Call(w, frame)
    BY <1>6 DEF FallBack
  <2>2. step \in Nat
    BY <1>2, <1>4, DefinitionAssumption DEF Steps
  <2> HIDE DEF old, step, queue
  <2>3. frame.at = "loop" /\ frame.id = f.id /\ frame.row = old
    BY <1>2 DEF CallerFrames
  <2> HIDE DEF frame
  <2>4. QED
    BY <1>1, <1>3, <2>1, <2>2, <2>3, QuietLoops
<1>7. QED
  BY <1>5, <1>6

\* A step that leaves the runs alone.
LEMMA QuietMoves ==
  ASSUME QuietInv, OneAtATime, Advances, NEW w \in Workers, UNCHANGED agent,
         HandlerOK(caller[w])', CallOK(w)'
  PROVE  RestOfQuiet'
<1>1. RunsApart'
  BY TableStays, QuietFacts
<1>2. QED
  BY <1>1 DEF RestOfQuiet, OneAtATime

\* run and retry create a row without records.
LEMMA QuietRunAgent ==
  ASSUME QuietInv, OneAtATime, NEW w \in Workers, NEW a \in Runs, NEW p \in People,
         NEW aware \in BOOLEAN, NEW retries \in 0..MaxRetries, RunAgent(w, a, p, aware, retries)
  PROVE  RestOfQuiet' /\ KeepsFinished
<1> DEFINE row == [NoRow EXCEPT !.status = "queued", !.actor = p, !.aware = aware,
                                !.retries = retries]
           frame == [Out EXCEPT !.id = a, !.by = p]
           next == Loop(frame, 0, row)
<1>1. row.status = "queued" /\ row.pending = 0 /\ row.records = <<>>
  BY DEF NoRow
<1>2. frame \in CallerFrames /\ frame.id = a
  BY OutOK DEF CallerOK, CallerFrames
<1>3. agent' = [agent EXCEPT ![a] = row] /\ Call(w, next)
  BY DEF RunAgent
<1> HIDE DEF row, frame
<1>4. next.at = "loop" /\ next.id = a /\ next.row = row
  <2> DEFINE queue == IF row.aware THEN <<>> ELSE StepsFrom(0)
  <2>1. next = [frame EXCEPT !.at = "loop", !.row = row, !.tried = {}, !.attempt = 0,
                             !.queue = queue]
    BY Zenon DEF Loop
  <2> HIDE DEF queue, next
  <2>2. QED
    BY <1>2, <2>1 DEF CallerFrames
<1> HIDE DEF next
<1>5. agent'[a] = row /\ caller'[w] = next /\ \A b \in Runs \ {a} : agent'[b] = agent[b]
  BY <1>3, QuietFacts DEF Call, AgentShape
<1>6. /\ request' = request /\ run' = run /\ tools' = tools /\ worker'[w].at = "idle"
      /\ agent[a].status \notin Finished /\ row.status \notin Finished
  BY <1>1 DEF RunAgent, IsOut, IsIdle, vars, Finished
<1>7. \A other : /\ Known(run, row) /\ Settled(request, row)
                 /\ Apart(row, other) /\ Apart(other, row)
  BY <1>1 DEF Known, Settled, Apart, Lacks
<1>8. RunsApart'
  <2>1. \A b \in Runs : Known(run', agent'[b]) /\ Settled(request', agent'[b])
    BY <1>5, <1>6, <1>7, QuietFacts DEF RunsApart
  <2>2. \A b \in Runs : agent'[b].status \in Finished => agent'[b].pending = 0
    BY <1>1, <1>5, QuietFacts DEF RunsApart
  <2>3. \A b, c \in Runs : b # c => Apart(agent'[b], agent'[c])
    BY <1>5, <1>7, QuietFacts DEF RunsApart
  <2>4. QED
    BY <2>1, <2>2, <2>3 DEF RunsApart
<1>9. HandlerOK(caller[w])'
  BY <1>1, <1>4, <1>5, <1>6, <1>7 DEF HandlerOK
<1>10. CallOK(w)'
  BY <1>4, <1>5, <1>6 DEF CallOK, IsIdle
<1>11. KeepsFinished
  BY <1>5, <1>6 DEF KeepsFinished
<1>12. QED
  BY <1>8, <1>9, <1>10, <1>11 DEF RestOfQuiet, OneAtATime

\* The loop passes over a tool.
LEMMA QuietSkips ==
  ASSUME QuietInv, OneAtATime, Advances, NEW w \in Workers, SkipAttempted(w)
  PROVE  RestOfQuiet' /\ KeepsFinished
<1> DEFINE f == caller[w]
           queue == Tail(f.queue)
           g == [f EXCEPT !.queue = queue]
<1>1. /\ f.at = "loop" /\ worker'[w].at = "idle"
      /\ request' = request /\ run' = run /\ tools' = tools /\ agent' = agent
  BY DEF SkipAttempted, Back, IsIdle, vars
<1>2. Call(w, g)
  BY DEF SkipAttempted
<1>3. f \in CallerFrames /\ HandlerOK(f) /\ caller'[w] = g
  BY <1>2, QuietFacts DEF Call
<1> HIDE DEF queue, f
<1>4. g.at = "loop" /\ g.id = f.id /\ g.row = f.row
  BY <1>1, <1>3 DEF CallerFrames
<1> HIDE DEF g
<1>5. HandlerOK(caller[w])'
  BY <1>1, <1>3, <1>4 DEF HandlerOK
<1>6. CallOK(w)'
  BY <1>1, <1>3, <1>4 DEF CallOK, IsIdle
<1>7. QED
  BY <1>1, <1>5, <1>6, QuietMoves, QuietKeeps

\* The rows of all runs lack a request that nobody has invoked.
LEMMA FreshIsLacked ==
  ASSUME NEW row, Known(run, row), NEW r \in Fresh
  PROVE  Lacks(row, r)
BY DEF Known, Lacks, Fresh

\* A tool is invoked with a new request: it is not pending, unless the answer
\* says so.
LEMMA InvokedFacts ==
  ASSUME QuietInv, NEW w \in Workers, NEW r \in Fresh, NEW s, InvokeStep(w, r, s)
  PROVE  /\ run'[r].status # "none" /\ worker'[w].at = "idle" /\ tools' = tools
         /\ returned'[w] # "pending_approval" => request'[r].status # "pending"
         /\ returned'[w] = "success" => run'[r].status = "success"
         /\ returned'[w] = "pending_approval" => s \in GatedSteps
<1>1. r \in Requests /\ run[r].status = "none" /\ "failed" \in Results
  BY DEF Fresh, Results
<1>2. TypeOK /\ TablesOK
  BY DEF QuietInv, AgentInv, SmartInv
<1>3. request[r].status # "pending"
  BY <1>1, <1>2 DEF TablesOK, IsGated
<1>4. CASE s \in GatedSteps /\ \E admin \in AdminTools : InvokeGated(w, r, caller[w].row.actor, admin)
  <2>1. PICK admin \in AdminTools : InvokeGated(w, r, caller[w].row.actor, admin)
    BY <1>4
  <2>2. run'[r].status = "pending_approval" /\ returned'[w] = "pending_approval" /\ tools' = tools
    BY <1>1, <1>2, <2>1 DEF InvokeGated, Return, TypeOK, history
  <2>3. worker'[w].at = "idle"
    BY <1>2, <2>1, IdleType DEF InvokeGated, Return, Goto, TypeOK
  <2>4. QED
    BY <1>4, <2>2, <2>3
<1>5. CASE \E result \in Results : InvokeDirect(w, r, caller[w].row.actor, result)
  <2>1. PICK result \in Results : InvokeDirect(w, r, caller[w].row.actor, result)
    BY <1>5
  <2>2. /\ run'[r].status = result /\ returned'[w] = result /\ tools' = tools
        /\ request' = request
    BY <1>1, <1>2, <2>1 DEF InvokeDirect, Return, TypeOK, history
  <2>3. worker'[w].at = "idle"
    BY <1>2, <2>1, IdleType DEF InvokeDirect, Return, Goto, TypeOK
  <2>4. QED
    BY <1>3, <2>2, <2>3 DEF Results
<1>6. QED
  BY <1>1, <1>4, <1>5 DEF InvokeStep

\* A handler with a new invocation under way.
LEMMA QuietInvokes ==
  ASSUME QuietInv, OneAtATime, Advances, NEW w \in Workers, caller[w].at # "out",
         NEW r \in Fresh, NEW s, InvokeStep(w, r, s), UNCHANGED agent,
         NEW row, RowOK(row), row.pending = 0, Known(run, row), Settled(request, row),
         \A b \in Runs \ {caller[w].id} : Apart(row, agent[b]),
         NEW frame, Call(w, frame),
         frame.at = "invoked", frame.id = caller[w].id, frame.row = row, frame.req = r
  PROVE  RestOfQuiet' /\ KeepsFinished
<1>1. /\ run'[r].status # "none" /\ worker'[w].at = "idle" /\ tools' = tools
      /\ returned'[w] # "pending_approval" => request'[r].status # "pending"
  BY InvokedFacts
<1>2. caller'[w] = frame
  BY QuietFacts DEF Call
<1>3. Known(run', row) /\ Settled(request', row)
  BY RowStays
<1>4. agent[caller[w].id].status \notin Finished
  BY QuietFacts DEF HandlerOK
<1>5. \A b \in Runs : Lacks(agent[b], r)
  BY QuietFacts, FreshIsLacked DEF RunsApart
<1>6. HandlerOK(caller[w])'
  BY <1>1, <1>2, <1>3, <1>4, <1>5 DEF HandlerOK
<1>7. CallOK(w)'
  BY <1>1, <1>2 DEF CallOK, IsIdle
<1>8. QED
  BY <1>1, <1>6, <1>7, QuietMoves, QuietKeeps

\* A step is attempted.
LEMMA QuietAttempt ==
  ASSUME QuietInv, OneAtATime, Advances, NEW w \in Workers, Attempt(w)
  PROVE  RestOfQuiet' /\ KeepsFinished
<1> DEFINE f == caller[w]
           r == CHOOSE x \in Fresh : TRUE
           queue == IF f.queue = <<>> THEN <<>> ELSE Tail(f.queue)
<1>1. f.at = "loop" /\ r \in Fresh /\ UNCHANGED agent
  BY DEF Attempt, Back
<1>2. PICK s : /\ InvokeStep(w, r, s)
               /\ Call(w, [f EXCEPT !.at = "invoked", !.step = s, !.req = r, !.tried = @ \cup {s},
                                    !.queue = queue, !.attempt = 0])
  BY DEF Attempt
<1>3. f \in CallerFrames /\ RowOK(f.row) /\ HandlerOK(f)
  BY <1>1, QuietFacts, AtWork
<1>4. /\ f.row.pending = 0 /\ Known(run, f.row) /\ Settled(request, f.row)
      /\ \A b \in Runs \ {f.id} : Apart(f.row, agent[b])
  BY <1>1, <1>3 DEF HandlerOK
<1> DEFINE tried == f.tried \cup {s}
           g == [f EXCEPT !.at = "invoked", !.step = s, !.req = r, !.tried = tried,
                          !.queue = queue, !.attempt = 0]
<1>5. Call(w, g)
  BY <1>2
<1> HIDE DEF queue, tried, r
<1>6. g.at = "invoked" /\ g.id = f.id /\ g.row = f.row /\ g.req = r
  BY <1>3 DEF CallerFrames
<1> HIDE DEF g
<1>7. QED
  BY <1>1, <1>2, <1>3, <1>4, <1>5, <1>6, QuietInvokes

\* The same tool is tried again.
LEMMA QuietRetryStep ==
  ASSUME QuietInv, OneAtATime, Advances, NEW w \in Workers, RetryStep(w)
  PROVE  RestOfQuiet' /\ KeepsFinished
<1> DEFINE f == caller[w]
           r == CHOOSE x \in Fresh : TRUE
           row == WithRecord(w)
           attempt == f.attempt + 1
           g == [f EXCEPT !.row = row, !.req = r, !.attempt = attempt]
<1>1. /\ f.at = "invoked" /\ Back(w, "invoked") /\ returned[w] # "pending_approval"
      /\ r \in Fresh /\ UNCHANGED agent
  BY DEF RetryStep, StepFailed, Back
<1>2. InvokeStep(w, r, f.step) /\ Call(w, g)
  BY DEF RetryStep
<1>3. /\ RowOK(row) /\ row.pending = 0 /\ Known(run, row) /\ Settled(request, row)
      /\ \A b \in Runs \ {f.id} : Apart(row, agent[b])
  BY <1>1, StepOver
<1>4. f \in CallerFrames
  BY QuietFacts
<1> HIDE DEF row, r, attempt
<1>5. g.at = "invoked" /\ g.id = f.id /\ g.row = row /\ g.req = r
  BY <1>1, <1>4 DEF CallerFrames
<1> HIDE DEF g
<1>6. QED
  BY <1>1, <1>2, <1>3, <1>5, QuietInvokes

\* resume and cancel take the row as it is in the table.
LEMMA QuietBegins ==
  ASSUME QuietInv, OneAtATime, Advances, NEW w \in Workers, NEW a \in Runs, NEW p \in People,
         Resume(w, a, p) \/ Cancel(w, a, p)
  PROVE  RestOfQuiet' /\ KeepsFinished
<1> DEFINE row == agent[a]
           label == IF Resume(w, a, p) THEN "resume" ELSE "cancel"
           req == IF row.pending = 0 THEN Out.req ELSE PendingRequest(row)
           g == [Out EXCEPT !.at = label, !.id = a, !.row = row, !.by = p, !.req = req]
<1>1. StoredOK(row) /\ row.status \in {"queued", "pending_approval"}
  BY QuietFacts DEF AgentShape, Resume, Cancel, MayCancel
<1>2. row.status \notin Finished
  BY <1>1 DEF Finished
<1>3. label \in {"resume", "cancel"} /\ (label = "resume" => row.pending # 0)
  BY <1>1 DEF StoredOK, Resume
<1>4. Call(w, g)
  <2>1. CASE Resume(w, a, p)
    <3>1. req = PendingRequest(row) /\ label = "resume"
      BY <1>3, <2>1
    <3>2. QED
      BY <2>1, <3>1 DEF Resume
  <2>2. CASE ~Resume(w, a, p)
    <3>1. Call(w, [Out EXCEPT !.at = "cancel", !.id = a, !.row = row, !.by = p, !.req = req])
      BY <2>2 DEF Cancel
    <3>2. label = "cancel"
      BY <2>2
    <3>3. QED
      BY <2>2, <3>1, <3>2 DEF Cancel
  <2>3. QED
    BY <2>1, <2>2
<1>5. /\ request' = request /\ run' = run /\ tools' = tools /\ agent' = agent
      /\ worker'[w].at = "idle"
  BY DEF Resume, Cancel, IsOut, IsIdle, vars
<1>6. row.pending # 0 => req = PendingRequest(row)
  OBVIOUS
<1>7. Out \in CallerFrames
  BY OutOK DEF CallerOK
<1>8. /\ Known(run, row) /\ Settled(request, row)
      /\ \A b \in Runs \ {a} : Apart(row, agent[b])
  BY QuietFacts DEF RunsApart
<1>9. caller'[w] = g
  BY <1>4, QuietFacts DEF Call
<1> HIDE DEF req, label
<1>10. g.at = label /\ g.id = a /\ g.row = row /\ g.req = req
  BY <1>7 DEF CallerFrames
<1> HIDE DEF g
<1>11. HandlerOK(caller[w])'
  BY <1>2, <1>3, <1>5, <1>6, <1>8, <1>9, <1>10 DEF HandlerOK
<1>12. CallOK(w)'
  BY <1>3, <1>5, <1>9, <1>10 DEF CallOK, IsIdle
<1>13. QED
  BY <1>5, <1>11, <1>12, QuietMoves, QuietKeeps

\* The request that a handler decides on is in no finished run.
LEMMA PendingIsApart ==
  ASSUME QuietInv, NEW w \in Workers, caller[w].at \notin {"out", "loop", "invoked"},
         caller[w].row.pending # 0
  PROVE  /\ caller[w].req = PendingRequest(caller[w].row)
         /\ run[caller[w].req].status # "none"
         /\ \A a \in Runs : agent[a].status \in Finished => Lacks(agent[a], caller[w].req)
<1> DEFINE f == caller[w]
<1>1. f.row.pending \in 1..Len(f.row.records)
  BY AtWork, QuietFacts
<1>2. f.req = f.row.records[f.row.pending].req
  BY QuietFacts DEF HandlerOK, PendingRequest
<1>3. \A b \in Runs \ {f.id} : Lacks(agent[b], f.req)
  BY <1>1, <1>2, QuietFacts DEF HandlerOK, Apart
<1>4. run[f.req].status # "none"
  BY <1>1, <1>2, QuietFacts DEF HandlerOK, Known
<1>5. QED
  BY <1>2, <1>3, <1>4, QuietFacts DEF HandlerOK, PendingRequest

\* A handler that moves to its next label keeps its copy.
LEMMA QuietRelabels ==
  ASSUME QuietInv, OneAtATime, Advances, NEW w \in Workers,
         caller[w].at \notin {"out", "loop", "invoked"},
         NEW label, label \notin {"out", "loop", "invoked"},
         Call(w, [caller[w] EXCEPT !.at = label]), UNCHANGED agent
  PROVE  /\ HandlerOK(caller[w])' /\ caller'[w].at = label /\ caller'[w].req = caller[w].req
         /\ caller'[w].row = caller[w].row
<1> DEFINE f == caller[w]
           g == [f EXCEPT !.at = label]
<1>1. f \in CallerFrames /\ HandlerOK(f) /\ caller'[w] = g
  BY QuietFacts DEF Call
<1>2. RowOK(f.row)
  BY AtWork, QuietFacts
<1>3. Known(run', f.row) /\ Settled(request', f.row)
  BY <1>1, <1>2, RowStays DEF HandlerOK
<1> HIDE DEF f
<1>4. g.at = label /\ g.id = f.id /\ g.row = f.row /\ g.req = f.req
  BY <1>1 DEF CallerFrames
<1> HIDE DEF g
<1>5. HandlerOK(caller[w])'
  BY <1>1, <1>3, <1>4 DEF HandlerOK, f
<1>6. QED
  BY <1>1, <1>4, <1>5 DEF f

\* A handler stores a decision on its pending request.
LEMMA QuietDecides ==
  ASSUME QuietInv, OneAtATime, Advances, NEW w \in Workers, ResumeApproves(w) \/ CancelRejects(w)
  PROVE  RestOfQuiet' /\ KeepsFinished
<1> DEFINE f == caller[w]
<1>1. PICK label \in {"approving", "cancelling"}, decision \in {"approved", "rejected"} :
        /\ f.at \in {"resume", "cancel"} /\ f.row.pending # 0
        /\ \E p, admin : UpdateApproval(w, f.req, decision, p, admin)
        /\ Call(w, [f EXCEPT !.at = label]) /\ UNCHANGED agent
  <2>1. CASE ResumeApproves(w)
    <3>1. f.at = "resume" /\ f.row.pending # 0
      BY <2>1, QuietFacts DEF ResumeApproves, Back, AgentShape, CallerOK
    <3>2. QED
      BY <2>1, <3>1 DEF ResumeApproves
  <2>2. CASE CancelRejects(w)
    BY <2>2 DEF CancelRejects, Back, MustReject
  <2>3. QED
    BY <2>1, <2>2
<1>2. f.at \notin {"out", "loop", "invoked"} /\ label \notin {"out", "loop", "invoked"}
  BY <1>1
<1>3. /\ HandlerOK(caller[w])' /\ caller'[w].at = label /\ caller'[w].req = f.req
  BY <1>1, <1>2, QuietRelabels
<1>4. \A a \in Runs : agent[a].status \in Finished => Lacks(agent[a], f.req)
  BY <1>1, <1>2, PendingIsApart
<1>5. PICK p, admin : UpdateApproval(w, f.req, decision, p, admin)
  BY <1>1
<1>6. tools' = tools /\ agent' = agent
  BY <1>1, <1>5 DEF UpdateApproval, history
<1>7. \/ /\ worker'[w].at = "decide" /\ worker'[w].arg = decision /\ worker'[w].req = f.req
      \/ /\ worker'[w].at = "idle" /\ returned'[w] = "error"
  <2>1. CASE MayDecide(f.req, decision, admin)
    <3> DEFINE g == Frame("decide", f.req, p, admin, decision, Overdue(f.req))
    <3>1. worker'[w] = g
      BY <1>5, <2>1, QuietFacts DEF UpdateApproval, Goto, TypeOK
    <3>2. g.at = "decide" /\ g.arg = decision /\ g.req = f.req
      BY DEF Frame
    <3>3. QED
      BY <3>1, <3>2
  <2>2. CASE ~MayDecide(f.req, decision, admin)
    BY <1>5, <2>2, IdleType, QuietFacts DEF UpdateApproval, Return, Goto, TypeOK
  <2>3. QED
    BY <2>1, <2>2
<1>8. CallOK(w)'
  BY <1>1, <1>3, <1>4, <1>6, <1>7 DEF CallOK, IsIdle
<1>9. QED
  BY <1>3, <1>6, <1>8, QuietMoves, QuietKeeps

\* A resumption completes the decision on its request.
LEMMA QuietCompletes ==
  ASSUME QuietInv, OneAtATime, Advances, NEW w \in Workers, ResumeCompletes(w)
  PROVE  RestOfQuiet' /\ KeepsFinished
<1> DEFINE f == caller[w]
<1>1. /\ f.at \in {"resume", "approving"} /\ f.row.pending # 0
      /\ CompleteApproval(w, f.req, f.by, f.by \in Admins)
      /\ Call(w, [f EXCEPT !.at = "completing"]) /\ UNCHANGED agent
  BY QuietFacts DEF ResumeCompletes, Back, AgentShape, CallerOK
<1>2. request[f.req].status # "pending"
  BY QuietFacts DEF ResumeCompletes, Back, CallOK, IsIdle
<1> DEFINE label == "completing"
<1>3. f.at \notin {"out", "loop", "invoked"} /\ label \notin {"out", "loop", "invoked"}
  BY <1>1
<1>4. Call(w, [f EXCEPT !.at = label])
  BY <1>1
<1> HIDE DEF label
<1>5. HandlerOK(caller[w])' /\ caller'[w].at = label /\ caller'[w].req = f.req
  BY <1>1, <1>3, <1>4, QuietRelabels
<1>6. \A a \in Runs : agent[a].status \in Finished => Lacks(agent[a], f.req)
  BY <1>1, <1>3, PendingIsApart
<1>7. tools' = tools /\ request' = request /\ agent' = agent
  BY <1>1 DEF CompleteApproval, history, tables
<1>8. worker'[w].at = "complete" /\ worker'[w].req = f.req
  <2> DEFINE g == Frame("complete", f.req, f.by, f.by \in Admins, "none", FALSE)
  <2>1. worker'[w] = g
    BY <1>1, QuietFacts DEF CompleteApproval, Goto, TypeOK
  <2>2. g.at = "complete" /\ g.req = f.req
    BY DEF Frame
  <2>3. QED
    BY <2>1, <2>2
<1>9. CallOK(w)'
  BY <1>2, <1>5, <1>6, <1>7, <1>8 DEF CallOK, IsIdle, label
<1>10. QED
  BY <1>5, <1>7, <1>9, QuietMoves, QuietKeeps

\* A handler's read expires its pending request.
LEMMA QuietReadExpires ==
  ASSUME QuietInv, OneAtATime, Advances, NEW w \in Workers, ReadExpires(w)
  PROVE  RestOfQuiet' /\ KeepsFinished
<1> DEFINE f == caller[w]
<1>1. /\ f.at \in {"resume", "cancel"} /\ f.row.pending # 0
      /\ ReadOverdue(w, f.req) /\ UNCHANGED <<agent, caller>>
  BY DEF ReadExpires, Back
<1>2. \A a \in Runs : agent[a].status \in Finished => Lacks(agent[a], f.req)
  BY <1>1, PendingIsApart
<1>3. tools' = tools
  BY <1>1 DEF ReadOverdue, history
<1>4. worker'[w].req = f.req
  <2> DEFINE g == Frame("expire", f.req, Nobody, FALSE, "none", FALSE)
  <2>1. worker'[w] = g
    BY <1>1, QuietFacts DEF ReadOverdue, Goto, TypeOK
  <2>2. g.req = f.req
    BY DEF Frame
  <2>3. QED
    BY <2>1, <2>2
<1>5. HandlerOK(caller[w])'
  BY <1>1, QuietFacts, HandlerStays
<1>6. CallOK(w)'
  BY <1>1, <1>2, <1>4 DEF CallOK
<1>7. QED
  BY <1>1, <1>3, <1>5, <1>6, QuietMoves, QuietKeeps

\* A resumption whose tool succeeded goes on with the loop.
LEMMA QuietContinues ==
  ASSUME QuietInv, OneAtATime, Advances, NEW w \in Workers, ResumeContinues(w)
  PROVE  RestOfQuiet' /\ KeepsFinished
<1> DEFINE f == caller[w]
           row == Answered(w)
           start == f.row.step + 1
           next == Loop(f, start, row)
<1>1. f.at = "completing" /\ f.row.pending # 0
  BY QuietFacts DEF ResumeContinues, Back, AgentShape, CallerOK
<1>2. RowOK(row) /\ row.pending = 0
  BY <1>1, AnsweredOK, QuietFacts
<1>3. SameRecords(row, f.row)
  BY <1>1, AnsweredIsSame, QuietFacts
<1>4. Known(run, row) /\ \A b \in Runs \ {f.id} : Apart(row, agent[b])
  BY <1>1, <1>2, <1>3, BuiltRow
<1>5. Settled(request, row)
  <2>1. request[f.req].status # "pending"
    BY <1>1, QuietFacts DEF CallOK
  <2>2. QED
    BY <1>1, <1>2, <1>3, <2>1, SameSettled
<1>6. /\ request' = request /\ run' = run /\ tools' = tools /\ agent' = agent
      /\ worker'[w].at = "idle" /\ Call(w, next)
  BY DEF ResumeContinues, Back, IsIdle, vars
<1>7. f \in CallerFrames /\ agent[f.id].status \notin Finished /\ caller'[w] = next
  BY <1>1, <1>6, QuietFacts DEF HandlerOK, Call
<1> HIDE DEF row, start
<1>8. next.at = "loop" /\ next.id = f.id /\ next.row = row
  <2> DEFINE queue == IF row.aware THEN <<>> ELSE StepsFrom(start)
  <2>1. next = [f EXCEPT !.at = "loop", !.row = row, !.tried = {}, !.attempt = 0, !.queue = queue]
    BY Zenon DEF Loop
  <2> HIDE DEF queue, next, f
  <2>2. QED
    BY <1>7, <2>1 DEF CallerFrames
<1> HIDE DEF next
<1>9. HandlerOK(caller[w])'
  BY <1>2, <1>4, <1>5, <1>6, <1>7, <1>8 DEF HandlerOK
<1>10. CallOK(w)'
  BY <1>6, <1>7, <1>8 DEF CallOK, IsIdle
<1>11. QED
  BY <1>6, <1>9, <1>10, QuietMoves, QuietKeeps

\* A resumption whose tool did not succeed ends the run.
LEMMA QuietResumeEnds ==
  ASSUME QuietInv, OneAtATime, NEW w \in Workers, ResumeEnds(w)
  PROVE  RestOfQuiet' /\ KeepsFinished
<1> DEFINE f == caller[w]
           row == Answered(w)
           status == IF returned[w] = "rejected" THEN "rejected" ELSE "failed"
<1>1. Back(w, "completing") /\ f.at = "completing" /\ f.row.pending # 0
  BY QuietFacts DEF ResumeEnds, Back, AgentShape, CallerOK
<1>2. RowOK(row) /\ row.pending = 0
  BY <1>1, AnsweredOK, QuietFacts
<1>3. SameRecords(row, f.row)
  BY <1>1, AnsweredIsSame, QuietFacts
<1>4. Known(run, row) /\ \A b \in Runs \ {f.id} : Apart(row, agent[b])
  BY <1>1, <1>2, <1>3, BuiltRow
<1>5. Settled(request, row)
  <2>1. request[f.req].status # "pending"
    BY <1>1, QuietFacts DEF CallOK
  <2>2. QED
    BY <1>1, <1>2, <1>3, <2>1, SameSettled
<1>6. FinishRun(w, status, f.row.step, row) /\ UNCHANGED vars
  BY DEF ResumeEnds
<1>7. /\ status \in AgentStatuses /\ "completing" \in CallerLabels \ {"out"}
      /\ f.row.step \in Nat
  BY <1>1, AgentWords, AtWork, QuietFacts DEF CallerLabels
<1> HIDE DEF row, status
<1>8. QED
  BY <1>1, <1>2, <1>4, <1>5, <1>6, <1>7, QuietFinishes

\* A cancellation writes its row once no request of it is pending.
LEMMA QuietCancelWrites ==
  ASSUME QuietInv, OneAtATime, NEW w \in Workers, CancelWrites(w)
  PROVE  RestOfQuiet' /\ KeepsFinished
<1> DEFINE f == caller[w]
           row == Cancelled(f.row)
<1>1. PICK label \in {"cancel", "cancelling"} : Back(w, label)
  BY DEF CancelWrites
<1>2. f.at = label /\ f.at \notin {"out", "loop", "invoked"}
  BY <1>1 DEF Back
<1>3. /\ RowOK(row) /\ row.pending = 0 /\ SameRecords(row, f.row)
  BY <1>2, AtWork, CancelledOK, QuietFacts DEF SameRecords
<1>4. Known(run, row) /\ \A b \in Runs \ {f.id} : Apart(row, agent[b])
  BY <1>2, <1>3, BuiltRow
<1>5. Settled(request, row)
  <2>1. f.row.pending = 0 \/ request[f.req].status # "pending"
    BY QuietFacts DEF CancelWrites, MustReject, Back, CallOK, IsIdle
  <2>2. QED
    BY <1>2, <1>3, <2>1, SameSettled
<1>6. FinishRun(w, "cancelled", f.row.step, row) /\ UNCHANGED vars
  BY DEF CancelWrites, Cancelled
<1>7. "cancelled" \in AgentStatuses /\ label \in CallerLabels \ {"out"} /\ f.row.step \in Nat
  BY <1>2, AgentWords, AtWork, QuietFacts DEF CallerLabels
<1> HIDE DEF row
<1>8. QED
  BY <1>1, <1>3, <1>4, <1>5, <1>6, <1>7, QuietFinishes

\* A handler gives up, or its process dies.
LEMMA QuietGivesUp ==
  ASSUME QuietInv, OneAtATime, Advances, NEW w \in Workers,
         Raises(w) \/ Unwinds(w) \/ AgentCrash(w)
  PROVE  RestOfQuiet' /\ KeepsFinished
<1>1. Leave(w) /\ UNCHANGED agent
  BY DEF Raises, Unwinds, AgentCrash
<1>2. worker'[w].at = "idle" /\ tools' = tools
  <2>1. CASE UNCHANGED vars /\ IsIdle(w)
    BY <2>1 DEF vars, IsIdle
  <2>2. CASE Crash(w)
    BY <2>2, IdleType, QuietFacts DEF Crash, Return, Goto, TypeOK, history
  <2>3. QED
    BY <2>1, <2>2 DEF Raises, Unwinds, AgentCrash, Back
<1>3. QED
  BY <1>1, <1>2, QuietLeaves

\* An invocation raises: the handler is on its way out, with nothing waiting.
LEMMA QuietRaises ==
  ASSUME QuietInv, OneAtATime, Advances, NEW w \in Workers, InvokeRaises(w)
  PROVE  RestOfQuiet' /\ KeepsFinished
<1> DEFINE f == caller[w]
           g == [f EXCEPT !.at = "raised"]
<1>1. /\ f.at \in {"loop", "invoked"} /\ worker'[w].at = "idle"
      /\ request' = request /\ run' = run /\ tools' = tools /\ agent' = agent
  BY DEF InvokeRaises, StepFailed, Back, IsIdle, vars
<1>2. Call(w, g)
  BY DEF InvokeRaises
<1>3. f \in CallerFrames /\ HandlerOK(f) /\ caller'[w] = g
  BY <1>2, QuietFacts DEF Call
<1> HIDE DEF f
<1>4. g.at = "raised" /\ g.id = f.id /\ g.row = f.row
  BY <1>1, <1>3 DEF CallerFrames
<1> HIDE DEF g
<1>5. HandlerOK(caller[w])'
  BY <1>1, <1>3, <1>4 DEF HandlerOK
<1>6. CallOK(w)'
  BY <1>1, <1>3, <1>4 DEF CallOK, IsIdle
<1>7. QED
  BY <1>1, <1>5, <1>6, QuietMoves, QuietKeeps

\* A step inside a call goes on with the same request, or returns.
LEMMA ServiceMoves ==
  ASSUME TypeOK, NEW w \in Workers, Step(w)
  PROVE  /\ worker[w].at # "idle"
         /\ worker'[w].at = "idle" \/ worker'[w].req = worker[w].req
         /\ \A r \in Requests \ {worker[w].req} : tools'[r] = tools[r]
         /\ worker[w].at = "decide" =>
              \/ request'[worker[w].req].status = worker[w].arg
              \/ worker'[w].at = "idle" /\ returned'[w] = "error"
<1> DEFINE f == worker[w]
<1>1. f \in Frames /\ f.req \in Requests /\ "failed" \in Results
  BY DEF TypeOK, Frames, Results
<1>2. \A frame : Goto(w, frame) => worker'[w] = frame
  BY DEF Goto, TypeOK
<1>3. \A answer : Return(w, answer) => worker'[w].at = "idle" /\ returned'[w] = answer
  BY IdleType DEF Return, Goto, TypeOK
<1>4. \A label, arg, flag : Advance(f, label, arg, flag).req = f.req
  BY DEF Advance, Frame
<1>5. CASE Expire(w)
  BY <1>2, <1>4, <1>5, IdleType DEF Expire, history
<1>6. CASE DecideCommit(w)
  <2> DEFINE g == Advance(f, "complete", "none", FALSE)
  <2>1. worker'[w] = g /\ tools' = tools /\ f.at = "decide"
    BY <1>2, <1>6 DEF DecideCommit
  <2>2. g.req = f.req
    BY <1>4
  <2>3. request'[f.req].status = f.arg
    BY <1>1, <1>6 DEF DecideCommit, TypeOK
  <2>4. QED
    BY <2>1, <2>2, <2>3
<1>7. CASE DecideRollback(w)
  BY <1>3, <1>7 DEF DecideRollback, history
<1>8. CASE CompleteRead(w)
  BY <1>2, <1>3, <1>4, <1>8 DEF CompleteRead, history
<1>9. CASE \E result \in Results : Tool(w, result)
  <2>1. PICK result \in Results : Tool(w, result)
    BY <1>9
  <2> DEFINE g == Advance(f, "record", result, FALSE)
  <2>2. worker'[w] = g /\ f.at = "tool"
    BY <1>2, <2>1 DEF Tool
  <2>3. g.req = f.req
    BY <1>4
  <2>4. \A r \in Requests \ {f.req} : tools'[r] = tools[r]
    BY <1>1, <2>1 DEF Tool, TypeOK
  <2>5. QED
    BY <2>2, <2>3, <2>4
<1>10. CASE RecordSelect(w)
  BY <1>2, <1>3, <1>4, <1>10 DEF RecordSelect, history
<1>11. CASE RecordCommit(w)
  BY <1>3, <1>11 DEF RecordCommit, history
<1>12. QED
  BY <1>5, <1>6, <1>7, <1>8, <1>9, <1>10, <1>11 DEF Step

\* ... which no finished run has.
LEMMA QuietServiceStep ==
  ASSUME QuietInv, OneAtATime, Advances, NEW w \in Workers, ServiceStep(w)
  PROVE  RestOfQuiet' /\ KeepsFinished
<1> DEFINE f == caller[w]
           r == worker[w].req
<1>1. Step(w) /\ caller' = caller /\ agent' = agent
  BY DEF ServiceStep
<1>2. /\ worker[w].at # "idle"
      /\ worker'[w].at = "idle" \/ worker'[w].req = r
      /\ \A q \in Requests \ {r} : tools'[q] = tools[q]
      /\ worker[w].at = "decide" =>
           \/ request'[r].status = worker[w].arg
           \/ worker'[w].at = "idle" /\ returned'[w] = "error"
  BY <1>1, ServiceMoves, QuietFacts
<1>3. r \in Requests /\ run[r].status # "none"
  BY <1>2 DEF QuietInv, AgentInv, SmartInv, TypeOK, Frames, FrameOK, TablesOK
<1>4. CallOK(w) /\ HandlerOK(f)
  BY QuietFacts
<1>5. request[r].status # "pending" => request'[r].status # "pending"
  BY <1>3 DEF Advances
<1>6. HandlerOK(caller[w])'
  BY <1>1, QuietFacts, HandlerStays
<1>7. CallOK(w)'
  BY <1>1, <1>2, <1>4, <1>5 DEF CallOK, IsIdle
<1>8. KeepsFinished
  <2>1. \A a \in Runs : agent[a].status \in Finished => Lacks(agent[a], r)
    BY <1>2, <1>4 DEF CallOK, IsIdle
  <2>2. \A a \in Runs : \A i \in 1..Len(agent[a].records) : agent[a].records[i].req \in Requests
    BY RecordRequest, QuietFacts DEF AgentShape, StoredOK
  <2>3. \A a \in Runs : agent[a].status \in Finished =>
          \A q \in RecordedRequests(agent[a]) : q \in Requests \ {r}
    BY <2>1, <2>2 DEF Lacks, RecordedRequests
  <2>4. QED
    BY <1>1, <1>2, <2>3 DEF KeepsFinished
<1>9. QED
  BY <1>1, <1>6, <1>7, <1>8, QuietMoves

\* The inbox reads and decides requests that are pending, which no finished
\* run has.
LEMMA QuietInbox ==
  ASSUME QuietInv, OneAtATime, Advances, NEW w \in Workers, Inbox(w)
  PROVE  RestOfQuiet' /\ KeepsFinished
<1>1. caller[w].at = "out" /\ caller' = caller /\ agent' = agent
  BY DEF Inbox, IsOut
<1>2. \A r \in Requests : request[r].status = "pending" =>
        \A a \in Runs : agent[a].status \in Finished => Lacks(agent[a], r)
  BY QuietFacts DEF RunsApart, Settled, Lacks
<1>3. PICK r \in Requests :
        \/ ReadOverdue(w, r)
        \/ \E decision, p, admin : UpdateApproval(w, r, decision, p, admin)
  BY DEF Inbox, Decide
<1>4. tools' = tools
  BY <1>3 DEF ReadOverdue, UpdateApproval, history
<1>5. worker'[w].at = "idle" \/ (worker'[w].req = r /\ request[r].status = "pending")
  <2>1. \A frame : Goto(w, frame) => worker'[w] = frame
    BY QuietFacts DEF Goto, TypeOK
  <2>3. CASE ReadOverdue(w, r)
    <3> DEFINE g == Frame("expire", r, Nobody, FALSE, "none", FALSE)
    <3>1. worker'[w] = g /\ request[r].status = "pending"
      BY <2>1, <2>3 DEF ReadOverdue, Overdue
    <3>2. g.req = r
      BY DEF Frame
    <3>3. QED
      BY <3>1, <3>2
  <2>4. CASE \E decision, p, admin : UpdateApproval(w, r, decision, p, admin)
    <3>1. PICK decision, p, admin : UpdateApproval(w, r, decision, p, admin)
      BY <2>4
    <3> DEFINE g == Frame("decide", r, p, admin, decision, Overdue(r))
    <3>2. g.req = r
      BY DEF Frame
    <3>3. CASE MayDecide(r, decision, admin)
      <4>1. worker'[w] = g
        BY <2>1, <3>1, <3>3 DEF UpdateApproval
      <4>2. QED
        BY <3>2, <3>3, <4>1 DEF MayDecide
    <3>4. CASE ~MayDecide(r, decision, admin)
      <4>1. worker'[w] = Idle
        BY <2>1, <3>1, <3>4 DEF UpdateApproval, Return
      <4>2. QED
        BY <4>1, IdleType
    <3>5. QED
      BY <3>3, <3>4
  <2>5. QED
    BY <1>3, <2>3, <2>4
<1>6. HandlerOK(caller[w])' /\ CallOK(w)'
  BY <1>1, <1>2, <1>5 DEF HandlerOK, CallOK, IsIdle
<1>7. QED
  BY <1>1, <1>4, <1>6, QuietMoves, QuietKeeps

\* Every step of handlers that do not overlap.
LEMMA QuietNext ==
  ASSUME QuietInv, OneAtATime, [AgentNext]_agentVars
  PROVE  QuietInv' /\ Advances /\ KeepsFinished
<1>1. AgentInv' /\ [Next]_vars
  BY AgentNextKeeps DEF QuietInv
<1>2. SerialInv' /\ Advances
  BY <1>1, SerialNext, NextAdvances DEF QuietInv
<1>3. RestOfQuiet' /\ KeepsFinished
  <2>1. CASE \E w \in Workers : ServiceStep(w) \/ Inbox(w) \/ AgentCrash(w) \/ InvokeRaises(w)
    BY <1>2, <2>1, QuietServiceStep, QuietInbox, QuietGivesUp, QuietRaises
  <2>2. CASE \E w \in Workers : AgentStep(w)
    BY <1>2, <2>2, QuietLoopEnds, QuietSkips, QuietAttempt, QuietPause, QuietGoesOn,
       QuietRetryStep, QuietGiveUp, QuietReadExpires, QuietDecides, QuietCompletes, QuietGivesUp,
       QuietContinues, QuietResumeEnds, QuietCancelWrites DEF AgentStep
  <2>3. CASE \E w \in Workers : AgentStart(w)
    <3>1. PICK w \in Workers, a \in Runs, p \in People :
            \/ \E aware \in Aware : RunAgent(w, a, p, aware, 0)
            \/ \E b \in Runs : RetryAgent(w, a, b, p)
            \/ Resume(w, a, p)
            \/ Cancel(w, a, p)
      BY <2>3 DEF AgentStart
    <3>2. CASE \E aware \in Aware : RunAgent(w, a, p, aware, 0)
      <4>1. Aware \subseteq BOOLEAN /\ 0 \in 0..MaxRetries
        BY DefinitionAssumption
      <4>2. QED
        BY <3>2, <4>1, QuietRunAgent
    <3>3. CASE \E b \in Runs : RetryAgent(w, a, b, p)
      <4>1. PICK b \in Runs : RetryAgent(w, a, b, p)
        BY <3>3
      <4>2. agent[a] \in Rows
        BY DEF QuietInv, AgentInv, AgentShape
      <4>3. agent[a].aware \in BOOLEAN
        BY <4>2 DEF Rows
      <4>4. agent[a].retries + 1 \in 0..MaxRetries
        BY <4>1, <4>2, DefinitionAssumption DEF RetryAgent, MayRetry, Rows
      <4>5. QED
        BY <4>1, <4>3, <4>4, QuietRunAgent DEF RetryAgent
    <3>4. CASE Resume(w, a, p) \/ Cancel(w, a, p)
      BY <1>2, <3>4, QuietBegins
    <3>5. QED
      BY <3>1, <3>2, <3>3, <3>4
  <2>4. CASE UNCHANGED agentVars \/ \E r \in Requests : Deadline(r) /\ UNCHANGED <<agent, caller>>
    <3>1. UNCHANGED <<request, run, worker, returned, tools, agent, caller>>
      BY <2>4 DEF agentVars, Deadline, tables, history
    <3>2. RestOfQuiet'
      BY <3>1 DEF QuietInv, RestOfQuiet, RunsApart, HandlerOK, CallOK, IsIdle
    <3>3. QED
      BY <3>1, <3>2, QuietKeeps
  <2>5. QED
    BY <2>1, <2>2, <2>3, <2>4 DEF AgentNext
<1>4. QED
  BY <1>1, <1>2, <1>3 DEF QuietInv, RestOfQuiet

\* No run exists yet.
LEMMA InitQuiet == AgentInit => QuietInv
<1>1. SUFFICES ASSUME AgentInit PROVE QuietInv
  OBVIOUS
<1>2. AgentInv /\ SerialInv
  BY <1>1, InitAgentInv, InitSerialInv DEF AgentInit
<1>3. NoRow.records = <<>> /\ NoRow.status \notin Finished
  BY DEF NoRow, Finished
<1>4. RunsApart
  BY <1>1, <1>3 DEF AgentInit, RunsApart, Known, Settled, Apart
<1>5. \A w \in Workers : caller[w].at = "out" /\ worker[w].at = "idle"
  BY <1>1, OutOK, IdleType DEF AgentInit, Init
<1>6. \A w \in Workers : HandlerOK(caller[w]) /\ CallOK(w)
  BY <1>5 DEF HandlerOK, CallOK, IsIdle
<1>7. QED
  BY <1>2, <1>4, <1>6 DEF QuietInv

\* No approval of a cancelled run is left pending.
LEMMA QuietRevokes == QuietInv => CancelRevokes
<1>1. SUFFICES ASSUME QuietInv PROVE CancelRevokes
  OBVIOUS
<1>2. SUFFICES ASSUME NEW a \in Runs, agent[a].status = "cancelled",
                      NEW i \in 1..Len(agent[a].records)
               PROVE  request[agent[a].records[i].req].status # "pending"
  BY DEF CancelRevokes, RecordedRequests
<1>3. agent[a].pending = 0 /\ Settled(request, agent[a])
  BY <1>1, <1>2 DEF QuietInv, RunsApart, Finished
<1>4. QED
  BY <1>3 DEF Settled

\* One handler at a time: runs share no request, nothing recorded is pending
\* but what the row waits for, and the copy a handler of AgentService works
\* on is as good as the row.
THEOREM QuietInvariance ==
  ASSUME OneAtATime
  PROVE  AgentSpec => []QuietInv
<1>1. QuietInv /\ [AgentNext]_agentVars => QuietInv'
  BY QuietNext
<1>2. QED
  BY <1>1, InitQuiet, PTL DEF AgentSpec

\* One handler at a time: no approval recorded on a cancelled run is left
\* waiting for a decision that would run its tool.
THEOREM CancellationRevokes ==
  ASSUME OneAtATime
  PROVE  AgentSpec => []CancelRevokes
BY QuietInvariance, QuietRevokes, PTL

\* One handler at a time: a finished run is never written again and none of
\* its tools runs any more.
THEOREM FinishedRunsAreQuiet ==
  ASSUME OneAtATime
  PROVE  AgentSpec => FinishedIsQuiet
<1>1. QuietInv /\ [AgentNext]_agentVars => [KeepsFinished]_agentVars
  BY QuietNext
<1>2. AgentSpec => [][KeepsFinished]_agentVars
  BY <1>1, QuietInvariance, PTL DEF AgentSpec
<1>3. QED
  BY <1>2 DEF FinishedIsQuiet, KeepsFinished

-----------------------------------------------------------------------------
(***************************************************************************)
(* No step is lost.  The loop of a run keeps a number k of steps that are  *)
(* done, and its queue holds the steps after k, with a fallback's step     *)
(* possibly ahead of them; a paused run waits in the step after those that *)
(* are done, which is where a resumption goes on.                          *)
(***************************************************************************)

\* The row has a record that does for step s.
Good(runs, row, s) ==
  \E i \in 1..Len(row.records) :
    /\ row.records[i].step = s
    /\ runs[row.records[i].req].status = "success" \/ s = FallbackFrom

\* ... for all steps up to k, or up to k but for step t.
GoodTo(runs, row, k) == \A s \in 1..k : Good(runs, row, s)
GoodBut(runs, row, k, t) == \A s \in 1..k : Good(runs, row, s) \/ s = t

\* The queue holds the steps after k, possibly with a fallback's ahead, which
\* pauses only where a resumption finds the way back.
Ahead(queue, k) ==
  /\ queue = <<FallbackTo>> \o StepsFrom(k)
  /\ FallbackTo \in GatedSteps => FallbackTo <= k + 1

LoopCovers(runs, f) ==
  IF f.row.aware THEN \A s \in Recorded(f.row) : Good(runs, f.row, s)
  ELSE FallbackSkips \/
    /\ \A s \in f.tried : Good(runs, f.row, s)
    /\ \E k \in 0..NSteps :
         GoodTo(runs, f.row, k) /\ (f.queue = StepsFrom(k) \/ Ahead(f.queue, k))

\* The same while step f.step is under way.
InvokedCovers(runs, f) ==
  IF f.row.aware THEN \A s \in Recorded(f.row) : Good(runs, f.row, s) \/ s = f.step
  ELSE FallbackSkips \/
    /\ \A s \in f.tried : Good(runs, f.row, s) \/ s = f.step
    /\ f.step \in GatedSteps => GoodTo(runs, f.row, f.step - 1)
    /\ \E k \in 0..NSteps :
         /\ GoodBut(runs, f.row, k, f.step)
         /\ f.queue = StepsFrom(k)
         /\ f.step = FallbackFrom => f.step <= k

\* ... and while the run waits for the approval of its pending step.
PausedCovers(runs, row) ==
  IF row.aware
  THEN \A s \in Recorded(row) : Good(runs, row, s) \/ s = row.records[row.pending].step
  ELSE FallbackSkips \/
    /\ row.records[row.pending].step = row.step + 1
    /\ GoodTo(runs, row, row.step)

\* What CompletedRanEveryStep says of one run.
CompletedCovers(runs, row) ==
  (IF row.aware THEN Len(row.records) < MaxSteps ELSE ~FallbackSkips) =>
    \A s \in Steps : Good(runs, row, s)

RowCovered(runs, row) ==
  /\ row.status = "completed" => CompletedCovers(runs, row)
  /\ row.status = "pending_approval" => PausedCovers(runs, row)

FrameCovered(runs, f) ==
  /\ f.at = "loop" => LoopCovers(runs, f)
  /\ f.at = "invoked" => InvokedCovers(runs, f)
  /\ f.at \in {"resume", "approving", "completing"} => PausedCovers(runs, f.row)

\* What the answers of the service mean.
AnswerCovers(w) ==
  /\ caller[w].at = "invoked" =>
       /\ returned[w] = "pending_approval" => caller[w].step \in GatedSteps
       /\ returned[w] = "success" => run[caller[w].req].status = "success"
  /\ caller[w].at = "completing" /\ IsIdle(w) /\ returned[w] = "success" =>
       run[caller[w].req].status = "success"

CoverInv ==
  /\ \A a \in Runs : RowCovered(run, agent[a])
  /\ \A w \in Workers : FrameCovered(run, caller[w]) /\ AnswerCovers(w)

\* The steps from the next one on.
LEMMA StepsFromNext ==
  ASSUME NEW k \in 0..NSteps
  PROVE  /\ k = NSteps => StepsFrom(k) = <<>>
         /\ k < NSteps => /\ StepsFrom(k) # <<>> /\ Head(StepsFrom(k)) = k + 1
                          /\ Tail(StepsFrom(k)) = StepsFrom(k + 1)
<1>0. k \in Nat /\ k + 1 \in Nat /\ NSteps \in Nat
  BY DefinitionAssumption
<1>1. ASSUME k = NSteps PROVE StepsFrom(k) = <<>>
  <2>1. StepsFrom(k) \in Seq(Steps)
    BY <1>0, StepsFromType
  <2>2. 1..(NSteps - k) = {}
    BY <1>0, <1>1
  <2>3. DOMAIN StepsFrom(k) = {}
    BY <2>2 DEF StepsFrom
  <2>4. QED
    BY <2>1, <2>3
<1>2. ASSUME k < NSteps
      PROVE  /\ StepsFrom(k) # <<>> /\ Head(StepsFrom(k)) = k + 1
             /\ Tail(StepsFrom(k)) = StepsFrom(k + 1)
  <2> DEFINE q == StepsFrom(k)
             n == NSteps - k
             t == StepsFrom(k + 1)
  <2>1. q \in Seq(Steps) /\ t \in Seq(Steps)
    BY <1>0, StepsFromType
  <2>2. n \in Nat /\ n # 0 /\ NSteps - (k + 1) = n - 1 /\ n - 1 \in Nat
    BY <1>0, <1>2
  <2>3. q = [i \in 1..n |-> k + i] /\ t = [i \in 1..(n - 1) |-> (k + 1) + i]
    BY <2>2 DEF StepsFrom
  <2> HIDE DEF n, q, t
  <2>4. /\ Len(q) = n /\ \A i \in 1..n : q[i] = k + i
        /\ Len(t) = n - 1 /\ \A i \in 1..(n - 1) : t[i] = k + 1 + i
    BY <1>0, <2>1, <2>2, <2>3
  <2>5. q # <<>> /\ Head(q) = k + 1
    BY <1>0, <2>1, <2>2, <2>4
  <2>6. /\ Tail(q) \in Seq(Steps) /\ Len(Tail(q)) = n - 1
        /\ \A i \in 1..(n - 1) : Tail(q)[i] = q[i + 1]
    BY <2>1, <2>2, <2>4, <2>5
  <2>7. \A i \in 1..(n - 1) : i + 1 \in 1..n /\ k + (i + 1) = k + 1 + i
    BY <1>0, <2>2
  <2>8. \A i \in 1..(n - 1) : Tail(q)[i] = t[i]
    BY <2>4, <2>6, <2>7
  <2>9. Tail(q) = t
    BY <2>1, <2>4, <2>6, <2>8, SeqEqual
  <2>10. QED
    BY <2>5, <2>9 DEF q, t
<1>3. QED
  BY <1>0, <1>1, <1>2

\* A step that is put ahead of the others.
LEMMA QueueAhead ==
  ASSUME NEW x \in Steps, NEW q \in Seq(Steps)
  PROVE  /\ <<x>> \o q # <<>> /\ Head(<<x>> \o q) = x /\ Tail(<<x>> \o q) = q
<1> DEFINE s == <<x>> \o q
<1>1. /\ s \in Seq(Steps) /\ Len(s) = 1 + Len(q) /\ s[1] = x
      /\ \A i \in 1..Len(q) : s[i + 1] = q[i]
  OBVIOUS
<1>2. Len(q) \in Nat
  OBVIOUS
<1> HIDE DEF s
<1>3. s # <<>> /\ Head(s) = x
  BY <1>1, <1>2
<1>4. /\ Tail(s) \in Seq(Steps) /\ Len(Tail(s)) = Len(q)
      /\ \A i \in 1..Len(q) : Tail(s)[i] = q[i]
  BY <1>1, <1>2, <1>3
<1>5. Tail(s) = q
  BY <1>4, SeqEqual
<1>6. QED
  BY <1>3, <1>5 DEF s

\* A record that does for its step goes on doing so.
GoodGrows(runs, more, row, new) == \A s : Good(runs, row, s) => Good(more, new, s)

\* A record that counts for a step still counts after the smart actions advance.
LEMMA GoodStays ==
  ASSUME Advances, NEW row, RowOK(row), Known(run, row)
  PROVE  GoodGrows(run, run', row, row)
<1>1. \A i \in 1..Len(row.records) : row.records[i].req \in Requests
  BY RecordRequest
<1>2. QED
  BY <1>1 DEF GoodGrows, Good, Advances, Known

\* A row with the same records does for a step what the old one did.
LEMMA GoodSame ==
  ASSUME NEW runs, NEW row, NEW new, SameRecords(new, row)
  PROVE  GoodGrows(runs, runs, row, new) /\ Recorded(new) = Recorded(row)
<1>1. GoodGrows(runs, runs, row, new)
  BY DEF GoodGrows, Good, SameRecords
<1>2. Recorded(new) = Recorded(row)
  BY DEF Recorded, SameRecords
<1>3. QED
  BY <1>1, <1>2

\* So does a row with one more record, which counts for its own step as well.
LEMMA GoodOneMore ==
  ASSUME NEW runs, NEW row, NEW new, NEW s, NEW r, OneMore(new, row, s, r)
  PROVE  /\ GoodGrows(runs, runs, row, new)
         /\ Recorded(new) = Recorded(row) \cup {s}
         /\ runs[r].status = "success" \/ s = FallbackFrom => Good(runs, new, s)
<1>1. /\ Len(row.records) \in Nat /\ Len(new.records) = Len(row.records) + 1
      /\ \A i \in 1..Len(new.records) : i \in 1..Len(row.records) \/ i = Len(row.records) + 1
      /\ \A i \in 1..Len(row.records) : i \in 1..Len(new.records)
      /\ Len(row.records) + 1 \in 1..Len(new.records)
  BY DEF OneMore
<1>2. GoodGrows(runs, runs, row, new)
  BY <1>1 DEF GoodGrows, Good, OneMore
<1>3. Recorded(new) = Recorded(row) \cup {s}
  <2>1. \A x \in Recorded(new) : x \in Recorded(row) \cup {s}
    BY <1>1 DEF Recorded, OneMore
  <2>2. \A x \in Recorded(row) : x \in Recorded(new)
    BY <1>1 DEF Recorded, OneMore
  <2>3. s \in Recorded(new)
    BY <1>1 DEF Recorded, OneMore
  <2>4. QED
    BY <2>1, <2>2, <2>3
<1>4. runs[r].status = "success" \/ s = FallbackFrom => Good(runs, new, s)
  BY <1>1 DEF Good, OneMore
<1>5. QED
  BY <1>2, <1>3, <1>4

\* Rows and frames stay covered while the runs of smart actions advance.
LEMMA CoveredStays ==
  ASSUME Advances, NEW row, RowOK(row), Known(run, row)
  PROVE  /\ RowCovered(run, row) => RowCovered(run', row)
         /\ PausedCovers(run, row) => PausedCovers(run', row)
         /\ \A f : f.row = row => (FrameCovered(run, f) => FrameCovered(run', f))
<1>1. \A s : Good(run, row, s) => Good(run', row, s)
  BY GoodStays DEF GoodGrows
<1>2. /\ \A k : GoodTo(run, row, k) => GoodTo(run', row, k)
      /\ \A k, t : GoodBut(run, row, k, t) => GoodBut(run', row, k, t)
  BY <1>1 DEF GoodTo, GoodBut
<1>3. PausedCovers(run, row) => PausedCovers(run', row)
  BY <1>1, <1>2 DEF PausedCovers
<1>4. CompletedCovers(run, row) => CompletedCovers(run', row)
  BY <1>1 DEF CompletedCovers
<1>5. \A f : f.row = row => (LoopCovers(run, f) => LoopCovers(run', f))
  BY <1>1, <1>2 DEF LoopCovers
<1>6. \A f : f.row = row => (InvokedCovers(run, f) => InvokedCovers(run', f))
  BY <1>1, <1>2 DEF InvokedCovers
<1>7. QED
  BY <1>3, <1>4, <1>5, <1>6 DEF RowCovered, FrameCovered

\* A step that leaves agent_runs alone.
LEMMA CoverMoves ==
  ASSUME QuietInv, CoverInv, OneAtATime, Advances, NEW w \in Workers, UNCHANGED agent,
         FrameCovered(run', caller'[w]), AnswerCovers(w)'
  PROVE  CoverInv'
<1>1. \A a \in Runs : RowOK(agent[a]) /\ Known(run, agent[a])
  BY QuietFacts DEF AgentShape, StoredOK, RunsApart
<1>2. \A a \in Runs : RowCovered(run', agent[a])
  BY <1>1, CoveredStays DEF CoverInv
<1>3. QED
  BY <1>2 DEF CoverInv, OneAtATime

\* A handler that does not move, while its call does.
LEMMA CoverWaits ==
  ASSUME QuietInv, CoverInv, OneAtATime, Advances, NEW w \in Workers, UNCHANGED <<agent, caller>>,
         AnswerCovers(w)'
  PROVE  CoverInv'
<1>1. CASE caller[w].at = "out"
  <2>1. FrameCovered(run', caller'[w])
    BY <1>1 DEF FrameCovered
  <2>2. QED
    BY <2>1, CoverMoves
<1>2. CASE caller[w].at # "out"
  <2>1. RowOK(caller[w].row) /\ Known(run, caller[w].row)
    BY <1>2, AtWork, QuietFacts DEF HandlerOK
  <2>2. FrameCovered(run', caller'[w])
    BY <2>1, CoveredStays DEF CoverInv
  <2>3. QED
    BY <2>2, CoverMoves
<1>3. QED
  BY <1>1, <1>2

\* A handler that is out has nothing to cover.
LEMMA CoverLeaves ==
  ASSUME QuietInv, CoverInv, OneAtATime, Advances, NEW w \in Workers, Leave(w), UNCHANGED agent
  PROVE  CoverInv'
<1>1. caller'[w].at = "out"
  BY OutOK, QuietFacts DEF Leave, Call
<1>2. FrameCovered(run', caller'[w]) /\ AnswerCovers(w)'
  BY <1>1 DEF FrameCovered, AnswerCovers
<1>3. QED
  BY <1>2, CoverMoves

\* A handler that writes the row of its run.
LEMMA CoverWrites ==
  ASSUME QuietInv, CoverInv, OneAtATime, NEW w \in Workers, caller[w].at # "out",
         NEW status \in AgentStatuses, NEW step \in Nat, NEW row, RowOK(row),
         Update(caller[w], status, step, row), UNCHANGED vars,
         status = "completed" => CompletedCovers(run, row),
         status = "pending_approval" => PausedCovers(run, Written(row, status, step)),
         FrameCovered(run, caller'[w]), AnswerCovers(w)'
  PROVE  CoverInv'
<1> DEFINE id == caller[w].id
           new == Written(row, status, step)
<1>1. id \in Runs /\ agent \in [Runs -> Rows]
  BY AtWork, QuietFacts DEF AgentShape
<1>2. new.status = status /\ new.records = row.records /\ (new.aware <=> row.aware)
  BY RowWritten
<1>3. agent' = [agent EXCEPT ![id] = new]
  BY DEF Update, Written
<1>4. agent'[id] = new /\ \A b \in Runs \ {id} : agent'[b] = agent[b]
  BY <1>1, <1>3
<1>5. run' = run
  BY DEF vars
<1> HIDE DEF new, id
<1>6. CompletedCovers(run, row) => CompletedCovers(run, new)
  BY <1>2 DEF CompletedCovers, Good
<1>7. RowCovered(run, new)
  BY <1>2, <1>6 DEF RowCovered, new
<1>8. \A a \in Runs : RowCovered(run', agent'[a])
  BY <1>4, <1>5, <1>7 DEF CoverInv
<1>9. QED
  BY <1>5, <1>8 DEF CoverInv, OneAtATime

\* ... and returns.
LEMMA CoverFinishes ==
  ASSUME QuietInv, CoverInv, OneAtATime, NEW w \in Workers, caller[w].at # "out",
         NEW status \in AgentStatuses, NEW step \in Nat, NEW row, RowOK(row),
         FinishRun(w, status, step, row), UNCHANGED vars,
         status = "completed" => CompletedCovers(run, row),
         status = "pending_approval" => PausedCovers(run, Written(row, status, step))
  PROVE  CoverInv'
<1>1. caller'[w].at = "out"
  BY OutOK, QuietFacts DEF FinishRun, Leave, Call
<1>2. FrameCovered(run, caller'[w]) /\ AnswerCovers(w)'
  BY <1>1 DEF FrameCovered, AnswerCovers
<1>3. QED
  BY <1>2, CoverWrites DEF FinishRun

\* The loop ends when all steps are done, and times out whenever it likes.
LEMMA CoverLoopEnds ==
  ASSUME QuietInv, CoverInv, OneAtATime, NEW w \in Workers, LoopEnds(w) \/ TimesOut(w)
  PROVE  CoverInv'
<1> DEFINE f == caller[w]
<1>1. f.at = "loop" /\ UNCHANGED vars
  BY DEF LoopEnds, TimesOut, Back
<1>2. RowOK(f.row) /\ f.queue \in Seq(Steps) /\ Len(f.row.records) \in Nat
  BY <1>1, QuietFacts, AtWork
<1>3. LoopCovers(run, f)
  BY <1>1 DEF CoverInv, FrameCovered
<1>4. CASE LoopEnds(w)
  <2> DEFINE step == IF f.row.aware THEN Len(f.row.records) ELSE NSteps
  <2>1. step \in Nat
    BY <1>2, DefinitionAssumption
  <2>2. FinishRun(w, "completed", step, f.row) /\ NextSteps(f) = {}
    BY <1>4 DEF LoopEnds
  <2> HIDE DEF step
  <2>3. f.queue = <<>>
    BY <2>2 DEF NextSteps
  <2>4. CASE f.row.aware
    <3>1. Len(f.row.records) < MaxSteps => Candidates(f.row) = {}
      BY <2>2, <2>3, <2>4 DEF NextSteps
    <3>2. Len(f.row.records) < MaxSteps => \A s \in Steps : Good(run, f.row, s)
      BY <1>3, <2>4, <3>1 DEF LoopCovers, Candidates
    <3>3. CompletedCovers(run, f.row)
      BY <2>4, <3>2 DEF CompletedCovers
    <3>4. QED
      BY <1>1, <1>2, <2>1, <2>2, <3>3, AgentWords, CoverFinishes
  <2>5. CASE ~f.row.aware
    <3>1. ASSUME ~FallbackSkips PROVE \A s \in Steps : Good(run, f.row, s)
      <4>1. PICK k \in 0..NSteps :
              GoodTo(run, f.row, k) /\ (f.queue = StepsFrom(k) \/ Ahead(f.queue, k))
        BY <1>3, <2>5, <3>1 DEF LoopCovers
      <4>2. k \in Nat /\ FallbackTo \in Steps
        BY DefinitionAssumption
      <4>3. ~Ahead(f.queue, k)
        BY <2>3, <4>2, QueueAhead, StepsFromType DEF Ahead
      <4>4. k = NSteps
        BY <2>3, <4>1, <4>3, StepsFromNext, DefinitionAssumption
      <4>5. QED
        BY <4>1, <4>4 DEF GoodTo, Steps
    <3>2. CompletedCovers(run, f.row)
      BY <2>5, <3>1 DEF CompletedCovers
    <3>3. QED
      BY <1>1, <1>2, <2>1, <2>2, <3>2, AgentWords, CoverFinishes
  <2>6. QED
    BY <2>4, <2>5
<1>5. CASE TimesOut(w)
  <2>1. PICK step \in Nat : FinishRun(w, "failed", step, f.row)
    <3>1. CASE f.queue # <<>>
      <4>1. Head(f.queue) \in Steps
        BY <1>2, <3>1
      <4>2. Position(f, Head(f.queue)) \in Nat
        BY <1>1, <4>1, PositionType, QuietFacts
      <4>3. QED
        BY <1>5, <3>1, <4>2 DEF TimesOut
    <3>2. CASE f.queue = <<>>
      BY <1>2, <1>5, <3>2 DEF TimesOut
    <3>3. QED
      BY <3>1, <3>2
  <2>2. QED
    BY <1>1, <1>2, <2>1, AgentWords, CoverFinishes
<1>6. QED
  BY <1>4, <1>5

\* run and retry start with no step done and all of them queued.
LEMMA CoverRunAgent ==
  ASSUME QuietInv, CoverInv, OneAtATime, NEW w \in Workers, NEW a \in Runs, NEW p \in People,
         NEW aware \in BOOLEAN, NEW retries \in 0..MaxRetries, RunAgent(w, a, p, aware, retries)
  PROVE  CoverInv'
<1> DEFINE row == [NoRow EXCEPT !.status = "queued", !.actor = p, !.aware = aware,
                                !.retries = retries]
           frame == [Out EXCEPT !.id = a, !.by = p]
           next == Loop(frame, 0, row)
<1>1. row.status = "queued" /\ row.records = <<>>
  BY DEF NoRow
<1>2. frame \in CallerFrames
  BY OutOK DEF CallerOK, CallerFrames
<1>3. agent' = [agent EXCEPT ![a] = row] /\ Call(w, next) /\ run' = run
  BY DEF RunAgent, vars
<1> HIDE DEF row, frame
<1>4. next.at = "loop" /\ next.row = row /\ next.tried = {}
      /\ next.queue = IF row.aware THEN <<>> ELSE StepsFrom(0)
  <2> DEFINE queue == IF row.aware THEN <<>> ELSE StepsFrom(0)
  <2>1. next = [frame EXCEPT !.at = "loop", !.row = row, !.tried = {}, !.attempt = 0,
                             !.queue = queue]
    BY Zenon DEF Loop
  <2> HIDE DEF queue, next
  <2>2. next.at = "loop" /\ next.row = row /\ next.tried = {} /\ next.queue = queue
    BY <1>2, <2>1 DEF CallerFrames
  <2>3. QED
    BY <2>2 DEF queue
<1> HIDE DEF next
<1>5. agent'[a] = row /\ caller'[w] = next /\ \A b \in Runs \ {a} : agent'[b] = agent[b]
  BY <1>3, QuietFacts DEF Call, AgentShape
<1>6. \A b \in Runs : RowCovered(run', agent'[b])
  BY <1>1, <1>3, <1>5 DEF CoverInv, RowCovered
<1>7. LoopCovers(run, next)
  <2>1. Recorded(row) = {}
    BY <1>1 DEF Recorded
  <2>2. GoodTo(run, row, 0) /\ 0 \in 0..NSteps
    BY DefinitionAssumption DEF GoodTo
  <2>3. QED
    BY <1>4, <2>1, <2>2 DEF LoopCovers
<1>8. FrameCovered(run', caller'[w]) /\ AnswerCovers(w)'
  BY <1>3, <1>4, <1>5, <1>7 DEF FrameCovered, AnswerCovers
<1>9. QED
  BY <1>6, <1>8 DEF CoverInv, OneAtATime

\* What is at the head of the queue of a run that is not result-aware.
LEMMA HeadOfQueue ==
  ASSUME NEW queue, NEW k \in 0..NSteps, queue # <<>>, queue = StepsFrom(k) \/ Ahead(queue, k)
  PROVE  \/ /\ k + 1 \in 0..NSteps /\ Head(queue) = k + 1
            /\ Tail(queue) = StepsFrom(k + 1)
         \/ /\ Head(queue) = FallbackTo /\ Tail(queue) = StepsFrom(k)
            /\ FallbackTo \in GatedSteps => FallbackTo <= k + 1
<1>1. k \in Nat /\ FallbackTo \in Steps /\ NSteps \in Nat
  BY DefinitionAssumption
<1>2. CASE queue = StepsFrom(k)
  <2>1. k < NSteps
    BY <1>1, <1>2, StepsFromNext
  <2>2. QED
    BY <1>1, <1>2, <2>1, StepsFromNext
<1>3. CASE Ahead(queue, k)
  <2> DEFINE rest == StepsFrom(k)
  <2>1. rest \in Seq(Steps)
    BY <1>1, StepsFromType
  <2>2. queue = <<FallbackTo>> \o rest /\ (FallbackTo \in GatedSteps => FallbackTo <= k + 1)
    BY <1>3 DEF Ahead
  <2> HIDE DEF rest
  <2>3. Head(queue) = FallbackTo /\ Tail(queue) = rest
    BY <1>1, <2>1, <2>2, QueueAhead
  <2>4. QED
    BY <2>2, <2>3 DEF rest
<1>4. QED
  BY <1>2, <1>3

\* A tool that is passed over has a record that does for it.
LEMMA CoverSkips ==
  ASSUME QuietInv, CoverInv, OneAtATime, Advances, NEW w \in Workers, SkipAttempted(w)
  PROVE  CoverInv'
<1> DEFINE f == caller[w]
           queue == Tail(f.queue)
           g == [f EXCEPT !.queue = queue]
<1>1. f.at = "loop" /\ run' = run /\ agent' = agent /\ Call(w, g)
  BY DEF SkipAttempted, Back, vars
<1>2. PICK s \in NextSteps(f) : ~f.row.aware /\ s \in f.tried
  BY DEF SkipAttempted
<1>3. f.queue # <<>> /\ s = Head(f.queue)
  <2>1. f.queue = <<>> => NextSteps(f) = {}
    BY <1>2 DEF NextSteps
  <2>2. f.queue # <<>> => NextSteps(f) = {Head(f.queue)}
    BY DEF NextSteps
  <2>3. QED
    BY <1>2, <2>1, <2>2
<1>4. LoopCovers(run, f) /\ f \in CallerFrames /\ caller'[w] = g
  BY <1>1, QuietFacts DEF CoverInv, FrameCovered, Call
<1>5. g.at = "loop" /\ g.row = f.row /\ g.tried = f.tried /\ g.queue = queue
  <2> HIDE DEF queue, f
  <2>1. QED
    BY <1>1, <1>4 DEF CallerFrames
<1> HIDE DEF g
<1>6. LoopCovers(run, g)
  <2>1. ASSUME ~FallbackSkips
        PROVE  \E k \in 0..NSteps : GoodTo(run, f.row, k) /\ queue = StepsFrom(k)
    <3>1. PICK k \in 0..NSteps :
            GoodTo(run, f.row, k) /\ (f.queue = StepsFrom(k) \/ Ahead(f.queue, k))
      BY <1>2, <1>4, <2>1 DEF LoopCovers
    <3>2. Good(run, f.row, s)
      BY <1>2, <1>4, <2>1 DEF LoopCovers
    <3>3. CASE k + 1 \in 0..NSteps /\ Head(f.queue) = k + 1 /\ Tail(f.queue) = StepsFrom(k + 1)
      <4>1. GoodTo(run, f.row, k + 1)
        BY <1>3, <3>1, <3>2, <3>3 DEF GoodTo
      <4>2. QED
        BY <3>3, <4>1
    <3>4. CASE Tail(f.queue) = StepsFrom(k)
      BY <3>1, <3>4
    <3>5. QED
      BY <1>3, <3>1, <3>3, <3>4, HeadOfQueue
  <2>2. QED
    BY <1>2, <1>4, <1>5, <2>1 DEF LoopCovers
<1>7. FrameCovered(run', caller'[w]) /\ AnswerCovers(w)'
  BY <1>1, <1>4, <1>5, <1>6 DEF FrameCovered, AnswerCovers
<1>8. QED
  BY <1>1, <1>7, CoverMoves

\* The first attempt of a step: what it does not do itself is done or queued.
LEMMA CoverAttempt ==
  ASSUME QuietInv, CoverInv, OneAtATime, Advances, NEW w \in Workers, Attempt(w)
  PROVE  CoverInv'
<1> DEFINE f == caller[w]
           r == CHOOSE x \in Fresh : TRUE
           queue == IF f.queue = <<>> THEN <<>> ELSE Tail(f.queue)
<1>1. f.at = "loop" /\ r \in Fresh /\ UNCHANGED agent
  BY DEF Attempt, Back
<1>2. PICK s \in NextSteps(f) :
        /\ InvokeStep(w, r, s)
        /\ Call(w, [f EXCEPT !.at = "invoked", !.step = s, !.req = r, !.tried = @ \cup {s},
                             !.queue = queue, !.attempt = 0])
  BY DEF Attempt
<1>3. f \in CallerFrames /\ RowOK(f.row) /\ Known(run, f.row) /\ LoopCovers(run, f)
  BY <1>1, QuietFacts, AtWork DEF HandlerOK, CoverInv, FrameCovered
<1> DEFINE tried == f.tried \cup {s}
           g == [f EXCEPT !.at = "invoked", !.step = s, !.req = r, !.tried = tried,
                          !.queue = queue, !.attempt = 0]
<1>4. caller'[w] = g
  BY <1>2, QuietFacts DEF Call
<1>5. /\ returned'[w] = "success" => run'[r].status = "success"
      /\ returned'[w] = "pending_approval" => s \in GatedSteps
  BY <1>1, <1>2, InvokedFacts
<1>6. /\ g.at = "invoked" /\ g.row = f.row /\ g.req = r /\ g.step = s
      /\ g.tried = tried /\ g.queue = queue
  <2> HIDE DEF queue, tried, r, f
  <2>1. QED
    BY <1>3 DEF CallerFrames
<1> HIDE DEF g, r
<1>7. InvokedCovers(run, g)
  <2>1. CASE f.row.aware
    BY <1>3, <1>6, <2>1 DEF LoopCovers, InvokedCovers
  <2>2. CASE ~f.row.aware /\ ~FallbackSkips
    <3>1. f.queue # <<>> /\ s = Head(f.queue) /\ queue = Tail(f.queue)
      <4>1. f.queue = <<>> => NextSteps(f) = {}
        BY <2>2 DEF NextSteps
      <4>2. f.queue # <<>> => NextSteps(f) = {Head(f.queue)}
        BY DEF NextSteps
      <4>3. QED
        BY <1>2, <4>1, <4>2
    <3>2. PICK k \in 0..NSteps :
            GoodTo(run, f.row, k) /\ (f.queue = StepsFrom(k) \/ Ahead(f.queue, k))
      BY <1>3, <2>2 DEF LoopCovers
    <3>3. \A t \in tried : Good(run, f.row, t) \/ t = s
      BY <1>3, <2>2 DEF LoopCovers
    <3>4. \E n \in 0..NSteps :
            /\ GoodBut(run, f.row, n, s) /\ queue = StepsFrom(n)
            /\ s = FallbackFrom => s <= n
            /\ s \in GatedSteps => GoodTo(run, f.row, s - 1)
      <4>1. CASE k + 1 \in 0..NSteps /\ Head(f.queue) = k + 1 /\ Tail(f.queue) = StepsFrom(k + 1)
        <5>1. GoodBut(run, f.row, k + 1, s)
          BY <3>1, <3>2, <4>1 DEF GoodTo, GoodBut
        <5>2. s - 1 = k /\ s <= k + 1
          BY <3>1, <4>1
        <5>3. QED
          BY <3>1, <3>2, <4>1, <5>1, <5>2
      <4>2. CASE /\ Head(f.queue) = FallbackTo /\ Tail(f.queue) = StepsFrom(k)
                 /\ FallbackTo \in GatedSteps => FallbackTo <= k + 1
        <5>1. GoodBut(run, f.row, k, s)
          BY <3>2 DEF GoodTo, GoodBut
        <5>2. s # FallbackFrom /\ s \in Nat
          BY <3>1, <4>2, DefinitionAssumption DEF Steps
        <5>3. s \in GatedSteps => GoodTo(run, f.row, s - 1)
          BY <3>1, <3>2, <4>2, <5>2 DEF GoodTo
        <5>4. QED
          BY <3>1, <4>2, <5>1, <5>2, <5>3
      <4>3. QED
        BY <3>1, <3>2, <4>1, <4>2, HeadOfQueue
    <3> HIDE DEF tried, queue
    <3>5. QED
      BY <1>6, <2>2, <3>3, <3>4 DEF InvokedCovers
  <2>3. CASE ~f.row.aware /\ FallbackSkips
    BY <1>6, <2>3 DEF InvokedCovers
  <2>4. QED
    BY <2>1, <2>2, <2>3
<1>8. FrameCovered(run, g)
  BY <1>6, <1>7 DEF FrameCovered
<1>9. FrameCovered(run', caller'[w])
  BY <1>3, <1>4, <1>6, <1>8, CoveredStays
<1>10. AnswerCovers(w)'
  BY <1>4, <1>5, <1>6 DEF AnswerCovers
<1>11. QED
  BY <1>1, <1>9, <1>10, CoverMoves

\* The record of the step that was under way.
LEMMA RecordCovers ==
  ASSUME QuietInv, CoverInv, NEW w \in Workers, Back(w, "invoked")
  PROVE  /\ caller[w].at = "invoked" /\ caller[w].step \in Steps /\ InvokedCovers(run, caller[w])
         /\ RowOK(WithRecord(w)) /\ WithRecord(w).actor \in People
         /\ (WithRecord(w).aware <=> caller[w].row.aware)
         /\ OneMore(WithRecord(w), caller[w].row, caller[w].step, caller[w].req)
         /\ GoodGrows(run, run, caller[w].row, WithRecord(w))
         /\ Recorded(WithRecord(w)) = Recorded(caller[w].row) \cup {caller[w].step}
         /\ returned[w] = "success" \/ caller[w].step = FallbackFrom =>
              Good(run, WithRecord(w), caller[w].step)
<1>1. caller[w].at = "invoked" /\ AgentShape /\ TypeOK
  BY QuietFacts DEF Back
<1>2. caller[w].step \in Steps
  BY <1>1 DEF AgentShape, CallerOK
<1>3. InvokedCovers(run, caller[w])
  BY <1>1 DEF CoverInv, FrameCovered
<1>4. /\ RowOK(WithRecord(w)) /\ WithRecord(w).actor \in People
      /\ (WithRecord(w).aware <=> caller[w].row.aware)
  BY <1>1, RecordAdded, Zenon
<1>5. OneMore(WithRecord(w), caller[w].row, caller[w].step, caller[w].req)
  BY <1>1, RecordIsOneMore
<1>6. returned[w] = "success" => run[caller[w].req].status = "success"
  BY <1>1 DEF CoverInv, AnswerCovers
<1>7. /\ GoodGrows(run, run, caller[w].row, WithRecord(w))
      /\ Recorded(WithRecord(w)) = Recorded(caller[w].row) \cup {caller[w].step}
      /\ run[caller[w].req].status = "success" \/ caller[w].step = FallbackFrom =>
           Good(run, WithRecord(w), caller[w].step)
  BY <1>5, GoodOneMore
<1>8. QED
  BY <1>1, <1>2, <1>3, <1>4, <1>5, <1>6, <1>7

\* A paused run waits in the step after those that are done.
LEMMA CoverPause ==
  ASSUME QuietInv, CoverInv, OneAtATime, NEW w \in Workers, Pause(w)
  PROVE  CoverInv'
<1> DEFINE f == caller[w]
           old == WithRecord(w)
           row == [old EXCEPT !.pending = Len(old.records)]
           step == Position(f, f.step)
           new == Written(row, "pending_approval", step)
<1>1. Back(w, "invoked") /\ returned[w] = "pending_approval" /\ UNCHANGED vars
  BY DEF Pause
<1>2. /\ f.at = "invoked" /\ f.step \in Steps /\ InvokedCovers(run, f)
      /\ RowOK(old) /\ old.actor \in People /\ (old.aware <=> f.row.aware)
      /\ OneMore(old, f.row, f.step, f.req) /\ GoodGrows(run, run, f.row, old)
      /\ Recorded(old) = Recorded(f.row) \cup {f.step}
  BY <1>1, RecordCovers
<1>3. Len(old.records) \in 0..Len(old.records)
  BY <1>2, RecordCounts, QuietFacts
<1>4. step \in Nat /\ (~f.row.aware => step = f.step - 1)
  BY <1>2, PositionType, QuietFacts DEF Position
<1>5. f.step \in GatedSteps
  BY <1>1, <1>2 DEF CoverInv, AnswerCovers
<1>6. FinishRun(w, "pending_approval", step, row)
  BY DEF Pause
<1> HIDE DEF old, step
<1>7. /\ RowOK(row) /\ row.pending = Len(old.records) /\ row.records = old.records
      /\ (row.aware <=> old.aware)
  BY <1>2, <1>3, PendingSet
<1> HIDE DEF row
<1>8. /\ new.records = old.records /\ new.pending = Len(old.records) /\ new.step = step
      /\ (new.aware <=> f.row.aware)
  BY <1>2, <1>4, <1>7, RowWritten, AgentWords
<1> HIDE DEF new
<1>9. new.records[new.pending].step = f.step
  BY <1>2, <1>8 DEF OneMore
<1>10. \A s : Good(run, f.row, s) => Good(run, new, s)
  BY <1>2, <1>8 DEF GoodGrows, Good
<1>11. Recorded(new) = Recorded(f.row) \cup {f.step}
  BY <1>2, <1>8 DEF Recorded
<1>12. PausedCovers(run, new)
  <2>1. CASE f.row.aware
    BY <1>2, <1>8, <1>9, <1>10, <1>11, <2>1 DEF InvokedCovers, PausedCovers
  <2>2. CASE ~f.row.aware
    <3>1. f.step = new.step + 1 /\ f.step - 1 = new.step
      BY <1>2, <1>4, <1>8, <2>2, DefinitionAssumption DEF Steps
    <3>2. FallbackSkips \/ GoodTo(run, f.row, f.step - 1)
      BY <1>2, <1>5, <2>2 DEF InvokedCovers
    <3>3. FallbackSkips \/ GoodTo(run, new, new.step)
      BY <1>10, <3>1, <3>2 DEF GoodTo
    <3>4. QED
      BY <1>8, <1>9, <2>2, <3>1, <3>3 DEF PausedCovers
  <2>3. QED
    BY <2>1, <2>2
<1> DEFINE status == "pending_approval"
<1>13. /\ status \in AgentStatuses /\ status # "completed" /\ FinishRun(w, status, step, row)
       /\ PausedCovers(run, Written(row, status, step))
  BY <1>6, <1>12, AgentWords DEF new
<1> HIDE DEF status
<1>14. QED
  BY <1>1, <1>2, <1>4, <1>7, <1>13, CoverFinishes

\* The run fails.
LEMMA CoverGiveUp ==
  ASSUME QuietInv, CoverInv, OneAtATime, NEW w \in Workers, GiveUp(w)
  PROVE  CoverInv'
<1> DEFINE step == Position(caller[w], caller[w].step)
<1>1. Back(w, "invoked") /\ UNCHANGED vars
  BY DEF GiveUp, StepFailed
<1>2. caller[w].at = "invoked" /\ caller[w].step \in Steps /\ RowOK(WithRecord(w))
  BY <1>1, RecordCovers
<1>3. step \in Nat
  BY <1>2, PositionType, QuietFacts
<1>4. FinishRun(w, "failed", step, WithRecord(w))
  BY DEF GiveUp
<1> HIDE DEF step
<1>5. QED
  BY <1>1, <1>2, <1>3, <1>4, AgentWords, CoverFinishes

\* The same tool is tried again: its step is still the one under way.
LEMMA CoverRetryStep ==
  ASSUME QuietInv, CoverInv, OneAtATime, Advances, NEW w \in Workers, RetryStep(w)
  PROVE  CoverInv'
<1> DEFINE f == caller[w]
           r == CHOOSE x \in Fresh : TRUE
           row == WithRecord(w)
           attempt == f.attempt + 1
           g == [f EXCEPT !.row = row, !.req = r, !.attempt = attempt]
<1>1. /\ Back(w, "invoked") /\ returned[w] # "pending_approval" /\ r \in Fresh /\ UNCHANGED agent
      /\ InvokeStep(w, r, f.step) /\ Call(w, g)
  BY DEF RetryStep, StepFailed
<1>2. /\ f.at = "invoked" /\ f.step \in Steps /\ InvokedCovers(run, f)
      /\ RowOK(row) /\ (row.aware <=> f.row.aware)
      /\ GoodGrows(run, run, f.row, row) /\ Recorded(row) = Recorded(f.row) \cup {f.step}
  BY <1>1, RecordCovers
<1>3. Known(run, row)
  BY <1>1, StepOver
<1>4. /\ returned'[w] = "success" => run'[r].status = "success"
      /\ returned'[w] = "pending_approval" => f.step \in GatedSteps
  BY <1>1, InvokedFacts
<1>5. f \in CallerFrames /\ caller'[w] = g
  BY <1>1, QuietFacts DEF Call
<1> HIDE DEF row, r, attempt
<1>6. /\ g.at = "invoked" /\ g.row = row /\ g.req = r /\ g.step = f.step
      /\ g.tried = f.tried /\ g.queue = f.queue
  BY <1>2, <1>5 DEF CallerFrames
<1> HIDE DEF g
<1>7. /\ \A s : Good(run, f.row, s) => Good(run, row, s)
      /\ \A k : GoodTo(run, f.row, k) => GoodTo(run, row, k)
      /\ \A k, t : GoodBut(run, f.row, k, t) => GoodBut(run, row, k, t)
  BY <1>2 DEF GoodGrows, GoodTo, GoodBut
<1>8. InvokedCovers(run, g)
  <2>1. CASE f.row.aware
    BY <1>2, <1>6, <1>7, <2>1 DEF InvokedCovers
  <2>2. CASE ~f.row.aware
    BY <1>2, <1>6, <1>7, <2>2 DEF InvokedCovers
  <2>3. QED
    BY <2>1, <2>2
<1>9. FrameCovered(run, g)
  BY <1>6, <1>8 DEF FrameCovered
<1>10. FrameCovered(run', caller'[w])
  BY <1>2, <1>3, <1>5, <1>6, <1>9, CoveredStays
<1>11. AnswerCovers(w)'
  BY <1>4, <1>5, <1>6 DEF AnswerCovers
<1>12. QED
  BY <1>1, <1>10, <1>11, CoverMoves

\* The tool succeeded, or its fallback is next: the step is done.
LEMMA CoverGoesOn ==
  ASSUME QuietInv, CoverInv, OneAtATime, NEW w \in Workers, StepDone(w) \/ FallBack(w)
  PROVE  CoverInv'
<1> DEFINE f == caller[w]
           old == WithRecord(w)
<1>1. Back(w, "invoked") /\ UNCHANGED vars
  BY DEF StepDone, FallBack, StepFailed
<1>2. /\ f.at = "invoked" /\ f.step \in Steps /\ InvokedCovers(run, f)
      /\ RowOK(old) /\ old.actor \in People /\ (old.aware <=> f.row.aware)
      /\ GoodGrows(run, run, f.row, old) /\ Recorded(old) = Recorded(f.row) \cup {f.step}
      /\ Good(run, old, f.step)
  BY <1>1, RecordCovers DEF StepDone, FallBack
<1>3. f \in CallerFrames /\ run' = run
  BY <1>1, QuietFacts DEF vars
<1>4. Len(old.records) \in Nat /\ 0 \in 0..Len(old.records)
  BY <1>2, RecordCounts, QuietFacts
<1>5. /\ \A s : Good(run, f.row, s) \/ s = f.step => Good(run, old, s)
      /\ \A k : GoodBut(run, f.row, k, f.step) => GoodTo(run, old, k)
  BY <1>2 DEF GoodGrows, GoodTo, GoodBut
<1>6. /\ f.row.aware => \A s \in Recorded(old) : Good(run, old, s)
      /\ ~f.row.aware /\ ~FallbackSkips =>
           /\ \A s \in f.tried : Good(run, old, s)
           /\ \E k \in 0..NSteps : /\ GoodTo(run, old, k) /\ f.queue = StepsFrom(k)
                                   /\ f.step = FallbackFrom => f.step <= k
  <2>1. f.row.aware => \A s \in Recorded(f.row) : Good(run, f.row, s) \/ s = f.step
    BY <1>2 DEF InvokedCovers
  <2>2. f.row.aware => \A s \in Recorded(old) : Good(run, old, s)
    BY <1>2, <1>5, <2>1
  <2>3. ~f.row.aware /\ ~FallbackSkips =>
          /\ \A s \in f.tried : Good(run, f.row, s) \/ s = f.step
          /\ \E k \in 0..NSteps : /\ GoodBut(run, f.row, k, f.step) /\ f.queue = StepsFrom(k)
                                  /\ f.step = FallbackFrom => f.step <= k
    BY <1>2 DEF InvokedCovers
  <2>4. QED
    BY <1>5, <2>2, <2>3
<1>7. CASE StepDone(w)
  <2> DEFINE row == [old EXCEPT !.pending = 0]
             step == IF row.aware THEN Len(row.records) ELSE f.step
             frame == [f EXCEPT !.at = "loop", !.row = row, !.attempt = 0]
  <2>1. Update(f, "queued", step, row) /\ Call(w, frame)
    BY <1>7 DEF StepDone
  <2> HIDE DEF old
  <2>2. RowOK(row) /\ row.records = old.records /\ (row.aware <=> old.aware)
    BY <1>2, <1>4, PendingSet
  <2>3. step \in Nat
    BY <1>2, <1>4, <2>2, DefinitionAssumption DEF Steps
  <2> HIDE DEF row, step
  <2>4. /\ frame.at = "loop" /\ frame.row = row /\ frame.tried = f.tried
        /\ frame.queue = f.queue
    BY <1>3 DEF CallerFrames
  <2>5. caller'[w] = frame
    BY <2>1, QuietFacts DEF Call
  <2> HIDE DEF frame
  <2>6. /\ \A s : Good(run, old, s) => Good(run, row, s)
        /\ \A k : GoodTo(run, old, k) => GoodTo(run, row, k)
        /\ Recorded(row) = Recorded(old)
    BY <2>2 DEF Good, GoodTo, Recorded
  <2>7. LoopCovers(run, frame)
    BY <1>2, <1>6, <2>2, <2>4, <2>6 DEF LoopCovers
  <2>8. FrameCovered(run, caller'[w]) /\ AnswerCovers(w)'
    BY <2>4, <2>5, <2>7 DEF FrameCovered, AnswerCovers
  <2>9. QED
    BY <1>1, <1>2, <2>1, <2>2, <2>3, <2>8, AgentWords, CoverWrites
<1>8. CASE FallBack(w)
  <2> DEFINE step == IF old.aware THEN Len(old.records) ELSE f.step - 1
             queue == <<FallbackTo>> \o f.queue
             frame == [f EXCEPT !.at = "loop", !.row = old, !.attempt = 0, !.queue = queue]
  <2>1. Update(f, "queued", step, old) /\ Call(w, frame) /\ f.step = FallbackFrom
    BY <1>8 DEF FallBack
  <2>2. step \in Nat
    BY <1>2, <1>4, DefinitionAssumption DEF Steps
  <2> HIDE DEF old, step
  <2>3. /\ frame.at = "loop" /\ frame.row = old /\ frame.tried = f.tried
        /\ frame.queue = queue
    <3> HIDE DEF queue
    <3>1. QED
      BY <1>3 DEF CallerFrames
  <2>4. caller'[w] = frame
    BY <2>1, QuietFacts DEF Call
  <2> HIDE DEF frame
  <2>5. \A k \in 0..NSteps :
          ~FallbackSkips /\ f.queue = StepsFrom(k) /\ f.step <= k => Ahead(queue, k)
    <3>1. f.step # 0 /\ f.step \in Nat /\ FallbackTo \in Nat
      BY <1>2, DefinitionAssumption DEF Steps
    <3>2. ~FallbackSkips => (FallbackTo \in GatedSteps => FallbackTo <= f.step + 1)
      BY <2>1, <3>1 DEF FallbackSkips
    <3>3. QED
      BY <3>1, <3>2, DefinitionAssumption DEF Ahead
  <2> HIDE DEF queue
  <2>6. LoopCovers(run, frame)
    BY <1>2, <1>6, <2>1, <2>3, <2>5 DEF LoopCovers
  <2>7. FrameCovered(run, caller'[w]) /\ AnswerCovers(w)'
    BY <2>3, <2>4, <2>6 DEF FrameCovered, AnswerCovers
  <2>8. QED
    BY <1>1, <1>2, <2>1, <2>2, <2>7, AgentWords, CoverWrites
<1>9. QED
  BY <1>7, <1>8

\* resume takes the row of a paused run; cancel covers nothing.
LEMMA CoverBegins ==
  ASSUME QuietInv, CoverInv, OneAtATime, Advances, NEW w \in Workers, NEW a \in Runs,
         NEW p \in People, Resume(w, a, p) \/ Cancel(w, a, p)
  PROVE  CoverInv'
<1>1. agent' = agent /\ run' = run /\ Out \in CallerFrames
  BY OutOK DEF Resume, Cancel, vars, CallerOK
<1>2. CASE Resume(w, a, p)
  <2> DEFINE req == PendingRequest(agent[a])
             row == agent[a]
             g == [Out EXCEPT !.at = "resume", !.id = a, !.row = row, !.by = p, !.req = req]
  <2>1. Call(w, g) /\ row.status = "pending_approval"
    BY <1>2 DEF Resume
  <2>2. caller'[w] = g /\ PausedCovers(run, row)
    BY <2>1, QuietFacts DEF Call, CoverInv, RowCovered
  <2> HIDE DEF req, row
  <2>3. g.at = "resume" /\ g.row = row
    BY <1>1 DEF CallerFrames
  <2> HIDE DEF g
  <2>4. FrameCovered(run', caller'[w]) /\ AnswerCovers(w)'
    BY <1>1, <2>2, <2>3 DEF FrameCovered, AnswerCovers
  <2>5. QED
    BY <1>1, <2>4, CoverMoves
<1>3. CASE Cancel(w, a, p)
  <2> DEFINE req == IF agent[a].pending = 0 THEN Out.req ELSE PendingRequest(agent[a])
             row == agent[a]
             g == [Out EXCEPT !.at = "cancel", !.id = a, !.row = row, !.by = p, !.req = req]
  <2>1. Call(w, g)
    BY <1>3 DEF Cancel
  <2>2. caller'[w] = g
    BY <2>1, QuietFacts DEF Call
  <2> HIDE DEF req, row
  <2>3. g.at = "cancel"
    BY <1>1 DEF CallerFrames
  <2> HIDE DEF g
  <2>4. FrameCovered(run', caller'[w]) /\ AnswerCovers(w)'
    BY <2>2, <2>3 DEF FrameCovered, AnswerCovers
  <2>5. QED
    BY <1>1, <2>4, CoverMoves
<1>4. QED
  BY <1>2, <1>3

\* A handler that calls the service keeps its copy of the row.
LEMMA CoverCalls ==
  ASSUME QuietInv, CoverInv, OneAtATime, Advances, NEW w \in Workers,
         ResumeApproves(w) \/ CancelRejects(w) \/ ResumeCompletes(w)
  PROVE  CoverInv'
<1> DEFINE f == caller[w]
<1>1. PICK label \in {"approving", "cancelling", "completing"} :
        /\ Call(w, [f EXCEPT !.at = label]) /\ UNCHANGED agent
        /\ f.at \in {"resume", "approving", "cancel"}
        /\ label # "cancelling" => f.at # "cancel"
        /\ label = "completing" => CompleteApproval(w, f.req, f.by, f.by \in Admins)
  BY DEF ResumeApproves, CancelRejects, ResumeCompletes, Back
<1>2. f.at \notin {"out", "loop", "invoked"} /\ label \notin {"out", "loop", "invoked"}
  BY <1>1
<1>3. caller'[w].at = label /\ caller'[w].row = f.row
  BY <1>1, <1>2, QuietRelabels
<1>4. label # "cancelling" => PausedCovers(run', f.row)
  <2>1. RowOK(f.row) /\ Known(run, f.row)
    BY <1>2, AtWork, QuietFacts DEF HandlerOK
  <2>2. label # "cancelling" => PausedCovers(run, f.row)
    BY <1>1 DEF CoverInv, FrameCovered
  <2>3. QED
    BY <2>1, <2>2, CoveredStays
<1>5. label = "completing" => ~IsIdle(w)'
  <2> DEFINE g == Frame("complete", f.req, f.by, f.by \in Admins, "none", FALSE)
  <2>1. label = "completing" => worker'[w] = g
    BY <1>1, QuietFacts DEF CompleteApproval, Goto, TypeOK
  <2>2. g.at = "complete"
    BY DEF Frame
  <2>3. QED
    BY <2>1, <2>2 DEF IsIdle
<1>6. FrameCovered(run', caller'[w]) /\ AnswerCovers(w)'
  BY <1>1, <1>3, <1>4, <1>5 DEF FrameCovered, AnswerCovers
<1>7. QED
  BY <1>1, <1>6, CoverMoves

\* A resumption goes on after the step whose tool has succeeded.
LEMMA CoverContinues ==
  ASSUME QuietInv, CoverInv, OneAtATime, Advances, NEW w \in Workers, ResumeContinues(w)
  PROVE  CoverInv'
<1> DEFINE f == caller[w]
           row == Answered(w)
           start == f.row.step + 1
           next == Loop(f, start, row)
           p == f.row.pending
           step == f.row.records[p].step
<1>1. /\ f.at = "completing" /\ p # 0 /\ IsIdle(w) /\ returned[w] = "success"
      /\ agent' = agent /\ run' = run /\ Call(w, next)
  BY QuietFacts DEF ResumeContinues, Back, AgentShape, CallerOK, vars
<1>2. /\ f \in CallerFrames /\ RowOK(f.row) /\ p \in 1..Len(f.row.records) /\ f.row.step \in Nat
  BY <1>1, AtWork, QuietFacts
<1>3. (row.aware <=> f.row.aware) /\ SameRecords(row, f.row)
  BY <1>1, AnsweredOK, AnsweredIsSame, QuietFacts
<1>4. PausedCovers(run, f.row) /\ run[f.req].status = "success"
  BY <1>1 DEF CoverInv, FrameCovered, AnswerCovers
<1>5. f.req = f.row.records[p].req
  BY <1>1, QuietFacts DEF HandlerOK, PendingRequest
<1>6. step \in Steps
  BY <1>2, RecordRequest
<1>7. Good(run, f.row, step)
  BY <1>2, <1>4, <1>5 DEF Good
<1>8. GoodGrows(run, run, f.row, row) /\ Recorded(row) = Recorded(f.row)
  BY <1>3, GoodSame
<1>9. caller'[w] = next
  BY <1>1, QuietFacts DEF Call
<1> HIDE DEF row
<1>10. next.at = "loop" /\ next.row = row /\ next.tried = {}
       /\ next.queue = IF row.aware THEN <<>> ELSE StepsFrom(start)
  <2> DEFINE queue == IF row.aware THEN <<>> ELSE StepsFrom(start)
  <2>1. next = [f EXCEPT !.at = "loop", !.row = row, !.tried = {}, !.attempt = 0, !.queue = queue]
    BY Zenon DEF Loop
  <2> HIDE DEF queue, next, f, start
  <2>2. next.at = "loop" /\ next.row = row /\ next.tried = {} /\ next.queue = queue
    BY <1>2, <2>1 DEF CallerFrames
  <2>3. QED
    BY <2>2 DEF queue
<1> HIDE DEF next, p, step
<1>11. LoopCovers(run, next)
  <2>1. CASE row.aware
    <3>1. \A s \in Recorded(f.row) : Good(run, f.row, s)
      BY <1>3, <1>4, <1>7, <2>1 DEF PausedCovers, step, p
    <3>2. QED
      BY <1>8, <1>10, <2>1, <3>1 DEF LoopCovers, GoodGrows
  <2>2. CASE ~row.aware /\ ~FallbackSkips
    <3>1. step = start /\ GoodTo(run, f.row, f.row.step)
      BY <1>3, <1>4, <2>2 DEF PausedCovers, step, p
    <3>2. start \in 0..NSteps
      BY <1>6, <3>1, DefinitionAssumption DEF Steps
    <3>3. GoodTo(run, row, start)
      BY <1>2, <1>7, <1>8, <3>1 DEF GoodTo, GoodGrows
    <3>4. QED
      BY <1>10, <2>2, <3>2, <3>3 DEF LoopCovers
  <2>3. CASE ~row.aware /\ FallbackSkips
    BY <1>10, <2>3 DEF LoopCovers
  <2>4. QED
    BY <2>1, <2>2, <2>3
<1>12. FrameCovered(run', caller'[w]) /\ AnswerCovers(w)'
  BY <1>1, <1>9, <1>10, <1>11 DEF FrameCovered, AnswerCovers
<1>13. QED
  BY <1>1, <1>12, CoverMoves

\* A resumption or a cancellation that ends the run.
LEMMA CoverEnds ==
  ASSUME QuietInv, CoverInv, OneAtATime, NEW w \in Workers, ResumeEnds(w) \/ CancelWrites(w)
  PROVE  CoverInv'
<1> DEFINE f == caller[w]
<1>1. f.at # "out" /\ UNCHANGED vars
  BY DEF ResumeEnds, CancelWrites, Back
<1>2. RowOK(f.row) /\ f.row.actor \in People /\ f.row.step \in Nat
  BY <1>1, AtWork, QuietFacts
<1>3. PICK status \in {"rejected", "failed", "cancelled"}, row \in {Answered(w), Cancelled(f.row)} :
        FinishRun(w, status, f.row.step, row) /\ RowOK(row)
  <2>1. CASE ResumeEnds(w)
    <3>1. f.row.pending # 0
      BY <2>1, QuietFacts DEF ResumeEnds, Back, AgentShape, CallerOK
    <3>2. RowOK(Answered(w))
      BY <1>1, <3>1, AnsweredOK, QuietFacts
    <3>3. QED
      BY <2>1, <3>2 DEF ResumeEnds
  <2>2. CASE CancelWrites(w)
    <3>1. RowOK(Cancelled(f.row))
      BY <1>2, CancelledOK
    <3>2. FinishRun(w, "cancelled", f.row.step, Cancelled(f.row))
      BY <2>2 DEF CancelWrites, Cancelled
    <3>3. QED
      BY <3>1, <3>2
  <2>3. QED
    BY <2>1, <2>2
<1>4. status \in AgentStatuses /\ status # "completed" /\ status # "pending_approval"
  BY AgentWords
<1>5. QED
  BY <1>1, <1>2, <1>3, <1>4, CoverFinishes

\* The service answers "success" only for a run that has succeeded.
LEMMA CoverServiceStep ==
  ASSUME QuietInv, CoverInv, OneAtATime, Advances, NEW w \in Workers, ServiceStep(w)
  PROVE  CoverInv'
<1> DEFINE f == caller[w]
           r == worker[w].req
<1>1. Step(w) /\ caller' = caller /\ agent' = agent
  BY DEF ServiceStep
<1>2. /\ CallOK(w) /\ TypeOK /\ r \in Requests /\ StillTrue(worker[w])
  BY QuietFacts DEF QuietInv, SerialInv, TypeOK, Frames
<1>3. worker[w].at # "idle"
  BY <1>1, <1>2, ServiceMoves
<1>4. f.at # "invoked"
  BY <1>2, <1>3 DEF CallOK, IsIdle
<1>5. ASSUME f.at = "completing", worker'[w].at = "idle", returned'[w] = "success"
      PROVE  run'[f.req].status = "success"
  <2>1. r = f.req /\ request[r].status # "pending"
    BY <1>2, <1>3, <1>5 DEF CallOK, IsIdle
  <2>2. worker[w].at \notin {"expire", "decide"}
    BY <1>2, <2>1 DEF StillTrue
  <2>3. \A answer : Return(w, answer) => returned'[w] = answer
    BY <1>2 DEF Return, TypeOK
  <2>5. \A frame : Goto(w, frame) => worker'[w] = frame
    BY <1>2 DEF Goto, TypeOK
  <2>6. CASE CompleteRead(w)
    <3> DEFINE expire == Advance(worker[w], "expire", "none", TRUE)
               record == Advance(worker[w], "record", "rejected", FALSE)
               tool == Advance(worker[w], "tool", "none", FALSE)
    <3>1. expire.at # "idle" /\ record.at # "idle" /\ tool.at # "idle"
      BY DEF Advance, Frame
    <3>2. \/ Goto(w, expire) \/ Goto(w, record) \/ Goto(w, tool)
          \/ Return(w, "error") \/ Return(w, "rejected") \/ Return(w, "pending_approval")
          \/ Return(w, run[r].status)
      BY <2>6 DEF CompleteRead
    <3>3. run' = run
      BY <2>6 DEF CompleteRead, tables
    <3> HIDE DEF expire, record, tool
    <3>4. Return(w, "error") \/ Return(w, "rejected") \/ Return(w, "pending_approval")
            \/ Return(w, run[r].status)
      BY <1>5, <2>5, <3>1, <3>2
    <3>5. returned'[w] = run[r].status
      BY <1>5, <2>3, <3>4
    <3>6. QED
      BY <1>5, <2>1, <3>3, <3>5
  <2>7. CASE \E result \in Results : Tool(w, result)
    <3>1. PICK result \in Results : Tool(w, result)
      BY <2>7
    <3> DEFINE g == Advance(worker[w], "record", result, FALSE)
    <3>2. worker'[w] = g
      BY <2>5, <3>1 DEF Tool
    <3>3. g.at = "record"
      BY DEF Advance, Frame
    <3>4. QED
      BY <1>5, <3>2, <3>3
  <2>8. CASE RecordSelect(w)
    <3> DEFINE store == Advance(worker[w], "store", worker[w].arg, FALSE)
    <3>1. store.at # "idle"
      BY DEF Advance, Frame
    <3>2. Goto(w, store) \/ Return(w, "error")
      BY <2>8 DEF RecordSelect
    <3> HIDE DEF store
    <3>3. QED
      BY <1>5, <2>3, <2>5, <3>1, <3>2
  <2>9. CASE RecordCommit(w)
    BY <1>2, <1>5, <2>1, <2>3, <2>9 DEF RecordCommit, TypeOK
  <2>10. QED
    BY <1>1, <2>2, <2>6, <2>7, <2>8, <2>9 DEF Step, Expire, DecideCommit, DecideRollback
<1>6. AnswerCovers(w)'
  BY <1>1, <1>4, <1>5 DEF AnswerCovers, IsIdle
<1>7. QED
  BY <1>1, <1>6, CoverWaits

\* Every step of handlers that do not overlap.
LEMMA CoverNext ==
  ASSUME QuietInv, CoverInv, OneAtATime, [AgentNext]_agentVars
  PROVE  CoverInv'
<1>1. Advances
  BY QuietNext
<1>2. CASE \E w \in Workers : ServiceStep(w)
  BY <1>1, <1>2, CoverServiceStep
<1>3. CASE \E w \in Workers : Inbox(w) \/ ReadExpires(w)
  <2>1. PICK w \in Workers : Inbox(w) \/ ReadExpires(w)
    BY <1>3
  <2>2. caller[w].at \in {"out", "resume", "cancel"} /\ UNCHANGED <<agent, caller>>
    BY <2>1 DEF Inbox, IsOut, ReadExpires, Back
  <2>3. AnswerCovers(w)'
    BY <2>2 DEF AnswerCovers
  <2>4. QED
    BY <1>1, <2>2, <2>3, CoverWaits
<1>4. CASE \E w \in Workers : AgentCrash(w) \/ Raises(w) \/ Unwinds(w)
  BY <1>1, <1>4, CoverLeaves DEF AgentCrash, Raises, Unwinds
<1>9. CASE \E w \in Workers : InvokeRaises(w)
  <2>1. PICK w \in Workers : InvokeRaises(w)
    BY <1>9
  <2>2. caller'[w] = [caller[w] EXCEPT !.at = "raised"] /\ caller[w] \in CallerFrames
    BY <2>1, QuietFacts DEF InvokeRaises, Call
  <2>3. caller'[w].at = "raised" /\ UNCHANGED agent
    BY <2>1, <2>2 DEF InvokeRaises, CallerFrames
  <2>4. FrameCovered(run', caller'[w]) /\ AnswerCovers(w)'
    BY <2>3 DEF FrameCovered, AnswerCovers
  <2>5. QED
    BY <1>1, <2>3, <2>4, CoverMoves
<1>5. CASE \E w \in Workers : AgentStep(w)
  BY <1>1, <1>3, <1>4, <1>5, CoverLoopEnds, CoverSkips, CoverAttempt, CoverPause, CoverGoesOn,
     CoverRetryStep, CoverGiveUp, CoverCalls, CoverContinues, CoverEnds DEF AgentStep
<1>6. CASE \E w \in Workers : AgentStart(w)
  <2>1. PICK w \in Workers, a \in Runs, p \in People :
          \/ \E aware \in Aware : RunAgent(w, a, p, aware, 0)
          \/ \E b \in Runs : RetryAgent(w, a, b, p)
          \/ Resume(w, a, p)
          \/ Cancel(w, a, p)
    BY <1>6 DEF AgentStart
  <2>2. CASE \E aware \in Aware : RunAgent(w, a, p, aware, 0)
    <3>1. Aware \subseteq BOOLEAN /\ 0 \in 0..MaxRetries
      BY DefinitionAssumption
    <3>2. QED
      BY <2>2, <3>1, CoverRunAgent
  <2>3. CASE \E b \in Runs : RetryAgent(w, a, b, p)
    <3>1. PICK b \in Runs : RetryAgent(w, a, b, p)
      BY <2>3
    <3>2. agent[a] \in Rows
      BY QuietFacts DEF AgentShape
    <3>3. agent[a].aware \in BOOLEAN
      BY <3>2 DEF Rows
    <3>4. agent[a].retries + 1 \in 0..MaxRetries
      BY <3>1, <3>2, DefinitionAssumption DEF RetryAgent, MayRetry, Rows
    <3>5. QED
      BY <3>1, <3>3, <3>4, CoverRunAgent DEF RetryAgent
  <2>4. CASE Resume(w, a, p) \/ Cancel(w, a, p)
    BY <1>1, <2>4, CoverBegins
  <2>5. QED
    BY <2>1, <2>2, <2>3, <2>4
<1>7. CASE UNCHANGED agentVars \/ \E r \in Requests : Deadline(r) /\ UNCHANGED <<agent, caller>>
  <2>1. UNCHANGED <<run, worker, returned, agent, caller>>
    BY <1>7 DEF agentVars, Deadline, tables
  <2>2. QED
    BY <2>1 DEF CoverInv, AnswerCovers, IsIdle
<1>8. QED
  BY <1>2, <1>3, <1>4, <1>5, <1>6, <1>7, <1>9 DEF AgentNext

\* One handler at a time: a completed run has executed every configured step,
\* whatever pauses, resumptions, retries and crashes came in between, but for
\* a gated fallback that skips steps and a result-aware run out of max_steps.
THEOREM NoStepIsLost ==
  ASSUME OneAtATime
  PROVE  AgentSpec => []CompletedRanEveryStep
<1>1. AgentInit => CoverInv
  <2>1. SUFFICES ASSUME AgentInit PROVE CoverInv
    OBVIOUS
  <2>2. \A a \in Runs : agent[a].status = "none"
    BY <2>1 DEF AgentInit, NoRow
  <2>3. \A w \in Workers : caller[w].at = "out"
    BY <2>1, OutOK DEF AgentInit
  <2>4. QED
    BY <2>2, <2>3 DEF CoverInv, RowCovered, FrameCovered, AnswerCovers
<1>2. QuietInv /\ CoverInv /\ [AgentNext]_agentVars => CoverInv'
  BY CoverNext
<1>3. CoverInv => CompletedRanEveryStep
  BY DEF CoverInv, RowCovered, CompletedCovers, Good, CompletedRanEveryStep
<1>4. QED
  BY <1>1, <1>2, <1>3, QuietInvariance, PTL DEF AgentSpec
=============================================================================
