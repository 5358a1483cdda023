-------------------------- MODULE FounderScanProofs -------------------------
(***************************************************************************)
(* Proofs about FounderScan, for any number of artifacts, scans, workers,  *)
(* attempts and crashes, and claims that age under living polls too.       *)
(***************************************************************************)
EXTENDS FounderScan, TLAPS

\* The frames that the actions build are frames.
LEMMA FramesBuilt ==
  /\ Idle \in Frames
  /\ \A a \in Artifacts, label \in {"read", "queue"} :
       /\ Work(a, label) \in Frames
       /\ Work(a, label).at = label /\ Work(a, label).art = a
<1>1. /\ 0 \in 0..NArtifacts /\ 0 \in 0..MaxScans /\ 0 \in 0..MaxAttempts
      /\ Artifacts \subseteq 0..NArtifacts
  BY FounderAssumption DEF Artifacts
<1>2. Idle \in Frames
  BY <1>1 DEF Idle, Frames, Statuses
<1>. QED
  BY <1>1, <1>2 DEF Idle, Frames, Work

\* What a step of worker w may do to the history: an overrun lasts as long as
\* another poll is inside, and only the end of artifact a may become final.
HistoryKept(w, a) ==
  /\ overrun' \subseteq Artifacts /\ bare' \subseteq Artifacts
  /\ \A b \in overrun : (\E v \in Workers \ {w} : Inside(v, b)) => b \in overrun'
  /\ bare \ {a} \subseteq bare'

\* The counters and the clock have their types.
ClocksTyped ==
  /\ due' \subseteq Artifacts /\ late' \subseteq Scans
  /\ scans' \in 0..MaxScans /\ crashes' \in 0..MaxCrashes

\* The history that no step touches is kept, and so is an overrun that worker w
\* leaves while others are inside.
LEMMA HistoryKeeps ==
  ASSUME FounderInv, NEW w \in Workers, NEW a \in Artifacts,
         UNCHANGED overrun \/ Leaves(w),
         bare' \in {bare, bare \ {a}, bare \cup {a}}
  PROVE  HistoryKept(w, a)
BY DEF HistoryKept, Leaves, FounderInv, TypeOK

\* A step of worker w that leaves it outside keeps the invariant if it writes
\* nothing to the rows.
LEMMA OutsideStep ==
  ASSUME FounderInv, NEW w \in Workers, NEW f \in Frames, Goto(w, f),
         f.at # "idle" => f.art \in Artifacts,
         f.at \in {"idle", "queue", "read", "claim", "give_up"},
         f.at = "claim" => f.attempts < MaxAttempts,
         f.at = "give_up" => f.outcome \in {"timed_out", "unavailable"},
         UNCHANGED <<row, bare>>, UNCHANGED overrun \/ Leaves(w), ClocksTyped
  PROVE  FounderInv'
<1>1. worker' = [worker EXCEPT ![w] = f] /\ worker \in [Workers -> Frames]
  BY DEF Goto, FounderInv, TypeOK
<1>2. TypeOK'
  BY <1>1 DEF FounderInv, TypeOK, ClocksTyped, Leaves
<1>3. FramesOK'
  BY <1>1 DEF FounderInv, FramesOK
<1>4. ASSUME NEW v \in Workers, NEW a \in Artifacts, Inside(v, a)'
      PROVE  v # w /\ Inside(v, a) /\ worker'[v] = worker[v]
  BY <1>1, <1>4 DEF Inside
<1>5. ASSUME NEW v \in Workers, NEW a \in Artifacts, Inside(v, a)', a \notin overrun'
      PROVE  a \notin overrun /\ (Writing(v, a)' <=> Writing(v, a))
  BY <1>4, <1>5 DEF Leaves, Writing
<1>6. ClaimOK'
  BY <1>4, <1>5 DEF FounderInv, ClaimOK
<1>7. PollsExclude'
  BY <1>4, <1>5 DEF FounderInv, PollsExclude
<1>. QED
  BY <1>2, <1>3, <1>6, <1>7 DEF FounderInv

\* Is row r as ClaimOK wants it of artifact a, whose poll has frame f?
RowFits(f, a, r) ==
  /\ r.claim = "held"
  /\ r.status \in Terminal /\ f.at \in {"poll", "persist"} => a \in bare'

\* Writing to the row of an artifact, outside or by the poll that is inside,
\* keeps the invariant when the claim and the status are as ClaimOK wants.
LEMMA RowStep ==
  ASSUME FounderInv, NEW w \in Workers, NEW f \in Frames, Goto(w, f),
         f.at # "idle" => f.art \in Artifacts,
         f.at \in {"claim", "poll"} => f.attempts < MaxAttempts,
         f.at # "give_up",
         NEW a \in Artifacts, NEW r \in Rows, row' = [row EXCEPT ![a] = r],
         f.at \in {"poll", "persist", "release"} => f.art = a,
         f.at \in {"poll", "persist", "release"} /\ a \notin overrun' =>
           RowFits(f, a, r) /\ \A v \in Workers : Inside(v, a) => v = w,
         a \notin overrun' =>
           \A v \in Workers \ {w} : Inside(v, a) => RowFits(worker[v], a, r),
         HistoryKept(w, a), ClocksTyped
  PROVE  FounderInv'
<1>1. /\ worker' = [worker EXCEPT ![w] = f] /\ worker \in [Workers -> Frames]
      /\ row \in [Artifacts -> Rows]
  BY DEF Goto, FounderInv, TypeOK
<1>2. TypeOK'
  BY <1>1 DEF FounderInv, TypeOK, ClocksTyped, HistoryKept
<1>3. FramesOK'
  BY <1>1 DEF FounderInv, FramesOK
<1>4. ASSUME NEW v \in Workers, v # w, NEW b \in Artifacts
      PROVE  /\ Inside(v, b)' <=> Inside(v, b)
             /\ Writing(v, b)' <=> Writing(v, b)
             /\ Inside(v, b) /\ b \notin overrun' => b \notin overrun
             /\ worker'[v] = worker[v]
  BY <1>1, <1>4 DEF Inside, Writing, HistoryKept
<1>5. ASSUME NEW b \in Artifacts, Inside(w, b)'
      PROVE  /\ b = a /\ f.at \in {"poll", "persist", "release"}
             /\ Writing(w, b)' => f.at \in {"poll", "persist"}
  BY <1>1, <1>5 DEF Inside, Writing
<1>6. ASSUME NEW v \in Workers, NEW b \in Artifacts \ overrun', Inside(v, b)'
      PROVE  /\ row'[b].claim = "held"
             /\ row'[b].status \in Terminal /\ Writing(v, b)' => b \in bare'
  <2>1. CASE v = w
    BY <1>1, <1>5, <1>6, <2>1 DEF RowFits
  <2>2. CASE v # w /\ b = a
    BY <1>1, <1>4, <1>6, <2>2 DEF RowFits, Writing
  <2>3. CASE v # w /\ b # a
    <3>1. b \notin overrun /\ Inside(v, b) /\ row'[b] = row[b] /\ (b \in bare => b \in bare')
      BY <1>1, <1>4, <1>6, <2>3 DEF HistoryKept
    <3>2. row[b].claim = "held" /\ (row[b].status \in Terminal /\ Writing(v, b) => b \in bare)
      BY <1>6, <3>1 DEF FounderInv, ClaimOK
    <3>. QED
      BY <1>4, <1>6, <2>3, <3>1, <3>2
  <2>. QED
    BY <2>1, <2>2, <2>3
<1>7. ClaimOK'
  BY <1>6 DEF ClaimOK
<1>8. PollsExclude'
  BY <1>4, <1>5 DEF FounderInv, PollsExclude
<1>. QED
  BY <1>2, <1>3, <1>7, <1>8 DEF FounderInv

\* What a poll writes is a row, and only these fields change.
LEMMA ProgressRow ==
  ASSUME TypeOK, NEW f \in Frames, f.art \in Artifacts, WriteProgress(f)
  PROVE  /\ \E r \in Rows : /\ row' = [row EXCEPT ![f.art] = r]
                            /\ r.status = f.outcome /\ r.claim = row[f.art].claim
         /\ due' \subseteq Artifacts
<1>. DEFINE r == [row[f.art] EXCEPT !.scan = f.scan, !.status = f.outcome,
                                   !.start = f.start, !.attempts = f.attempts]
<1>1. row[f.art] \in Rows
  BY DEF TypeOK
<1>2. r \in Rows /\ r.status = f.outcome /\ r.claim = row[f.art].claim
  BY <1>1 DEF Rows, Frames
<1>3. row' = [row EXCEPT ![f.art] = r]
  BY <1>1 DEF WriteProgress, TypeOK, Rows
<1>. QED
  BY <1>2, <1>3 DEF WriteProgress, TypeOK

\* The UPDATE that queues a scan starts the row again and leaves its claim alone.
LEMMA QueueScanStep ==
  ASSUME FounderInv, NEW w \in Workers, QueueScan(w)
  PROVE  FounderInv'
<1>. DEFINE f == worker[w]
            r == [row[f.art] EXCEPT !.scan = f.scan, !.status = "queued",
                                    !.start = f.scan, !.attempts = 0]
<1>1. f \in Frames /\ f.art \in Artifacts /\ row[f.art] \in Rows /\ row \in [Artifacts -> Rows]
  BY DEF FounderInv, TypeOK, QueueScan
<1>0. "queued" \in Statuses /\ 0 \in 0..MaxAttempts
  BY FounderAssumption DEF Statuses
<1>2. r \in Rows /\ r.status = "queued" /\ r.claim = row[f.art].claim
  BY <1>0, <1>1 DEF Rows, Frames
<1>3. row' = [row EXCEPT ![f.art] = r]
  BY <1>1 DEF QueueScan, Rows
<1>4. f.art \notin overrun' =>
        \A v \in Workers : Inside(v, f.art) => RowFits(worker[v], f.art, r)
  BY <1>1, <1>2 DEF FounderInv, ClaimOK, RowFits, Terminal, QueueScan
<1>5. Idle.at = "idle"
  BY DEF Idle
<1>6. Goto(w, Idle) /\ ClocksTyped
  BY <1>1 DEF QueueScan, FounderInv, TypeOK, ClocksTyped
<1>7. HistoryKept(w, f.art)
  BY <1>1, HistoryKeeps DEF QueueScan
<1>. HIDE DEF r, f
<1>. QED
  BY <1>1, <1>2, <1>3, <1>4, <1>5, <1>6, <1>7, FramesBuilt, RowStep

\* A step that moves no worker, and changes the row of a as ClaimOK allows.
LEMMA QuietStep ==
  ASSUME FounderInv, UNCHANGED worker,
         NEW a \in Artifacts, NEW r \in Rows, row' = [row EXCEPT ![a] = r],
         a \notin overrun' => \A v \in Workers : Inside(v, a) => RowFits(worker[v], a, r),
         UNCHANGED bare, overrun \subseteq overrun', overrun' \subseteq Artifacts, ClocksTyped
  PROVE  FounderInv'
<1>1. TypeOK' /\ FramesOK' /\ PollsExclude'
  BY DEF FounderInv, TypeOK, FramesOK, PollsExclude, Inside, ClocksTyped
<1>2. row \in [Artifacts -> Rows]
  BY DEF FounderInv, TypeOK
<1>3. ASSUME NEW v \in Workers, NEW b \in Artifacts \ overrun', Inside(v, b)'
      PROVE  /\ row'[b].claim = "held"
             /\ row'[b].status \in Terminal /\ Writing(v, b)' => b \in bare'
  <2>1. Inside(v, b) /\ b \notin overrun /\ (Writing(v, b)' <=> Writing(v, b))
    BY <1>3 DEF Inside, Writing
  <2>2. CASE b = a
    BY <1>2, <1>3, <2>1, <2>2 DEF RowFits, Writing
  <2>3. CASE b # a
    BY <1>2, <1>3, <2>1, <2>3 DEF FounderInv, ClaimOK
  <2>. QED
    BY <2>2, <2>3
<1>4. ClaimOK'
  BY <1>3 DEF ClaimOK
<1>. QED
  BY <1>1, <1>4 DEF FounderInv

\* Saving an artifact makes a row that no poll has seen.
LEMMA SaveArtifactStep ==
  ASSUME FounderInv, NEW a \in Artifacts, SaveArtifact(a)
  PROVE  FounderInv'
<1>. DEFINE r == [row[a] EXCEPT !.status = "new"]
<1>1. row[a] \in Rows /\ row \in [Artifacts -> Rows] /\ "new" \in Statuses
  BY DEF FounderInv, TypeOK, Statuses
<1>2. r \in Rows /\ r.status = "new" /\ r.claim = row[a].claim
  BY <1>1 DEF Rows
<1>3. row' = [row EXCEPT ![a] = r]
  BY <1>1 DEF SaveArtifact, Rows
<1>4. a \notin overrun' => \A v \in Workers : Inside(v, a) => RowFits(worker[v], a, r)
  BY <1>2 DEF FounderInv, ClaimOK, RowFits, Terminal, SaveArtifact, history
<1>5. UNCHANGED <<worker, bare, overrun>> /\ overrun' \subseteq Artifacts /\ ClocksTyped
  BY DEF SaveArtifact, FounderInv, TypeOK, ClocksTyped, history
<1>. HIDE DEF r
<1>. QED
  BY <1>2, <1>3, <1>4, <1>5, QuietStep

\* A claim that ages while a poll is inside is an overrun.
LEMMA ClaimAgesStep ==
  ASSUME FounderInv, NEW a \in Artifacts, ClaimAges(a)
  PROVE  FounderInv'
<1>. DEFINE r == [row[a] EXCEPT !.claim = "old"]
<1>1. row[a] \in Rows /\ row \in [Artifacts -> Rows]
  BY DEF FounderInv, TypeOK
<1>2. r \in Rows
  BY <1>1 DEF Rows
<1>3. row' = [row EXCEPT ![a] = r]
  BY <1>1 DEF ClaimAges, Rows
<1>4. a \notin overrun' => \A v \in Workers : ~Inside(v, a)
  BY DEF ClaimAges
<1>5. /\ UNCHANGED <<worker, bare>> /\ overrun \subseteq overrun'
      /\ overrun' \subseteq Artifacts /\ ClocksTyped
  BY DEF ClaimAges, FounderInv, TypeOK, ClocksTyped
<1>. HIDE DEF r
<1>. QED
  BY <1>2, <1>3, <1>4, <1>5, QuietStep

\* Nothing the invariant relates changes.
LEMMA ClockStep ==
  ASSUME FounderInv, UNCHANGED <<row, worker, scans, crashes, history>>,
         due' \subseteq Artifacts, late' \subseteq Scans
  PROVE  FounderInv'
BY DEF FounderInv, TypeOK, FramesOK, ClaimOK, PollsExclude, Inside, Writing, history

\* Launching a scan changes the remote side only.
LEMMA LaunchScanStep ==
  ASSUME FounderInv, NEW w \in Workers, NEW a \in Artifacts, LaunchScan(w, a)
  PROVE  FounderInv'
<1>. DEFINE f == [Work(a, "queue") EXCEPT !.scan = scans + 1]
<1>1. scans + 1 \in 0..MaxScans
  BY FounderAssumption DEF LaunchScan, FounderInv, TypeOK
<1>2. f \in Frames /\ f.at = "queue" /\ f.art = a
  BY <1>1, FramesBuilt DEF Frames
<1>3. Goto(w, f) /\ UNCHANGED <<row, overrun, bare>> /\ ClocksTyped
  BY <1>1 DEF LaunchScan, FounderInv, TypeOK, ClocksTyped, history
<1>. HIDE DEF f
<1>. QED
  BY <1>2, <1>3, OutsideStep

\* A tick of the scheduler opens a frame that has read nothing yet.
LEMMA TickStep ==
  ASSUME FounderInv, Tick
  PROVE  FounderInv'
<1>1. PICK a \in Artifacts :
        Goto(Scheduler, [Work(a, "read") EXCEPT !.scan = row[a].scan])
  BY DEF Tick, Candidates
<1>. DEFINE f == [Work(a, "read") EXCEPT !.scan = row[a].scan]
<1>2. row[a].scan \in 0..MaxScans
  BY DEF FounderInv, TypeOK, Rows
<1>3. f \in Frames /\ f.at = "read" /\ f.art = a
  BY <1>2, FramesBuilt DEF Frames
<1>4. UNCHANGED <<row, overrun, bare>> /\ ClocksTyped
  BY DEF Tick, FounderInv, TypeOK, ClocksTyped, history
<1>5. Goto(Scheduler, f)
  BY <1>1
<1>. HIDE DEF f
<1>. QED
  BY <1>3, <1>4, <1>5, FounderAssumption, OutsideStep

\* So does a watcher of the command line.
LEMMA WatchStep ==
  ASSUME FounderInv, NEW w \in Workers, NEW a \in Artifacts, NEW s \in Scans,
         NEW patient \in BOOLEAN, Watch(w, a, s, patient)
  PROVE  FounderInv'
<1>. DEFINE f == [Work(a, "read") EXCEPT !.scan = s, !.patient = patient]
            g == [f EXCEPT !.at = "give_up", !.outcome = "unavailable",
                           !.start = row[a].start]
<1>1. row[a].start \in 0..MaxScans /\ s \in 0..MaxScans /\ "unavailable" \in Statuses
  BY FounderAssumption DEF FounderInv, TypeOK, Rows, Scans, Statuses, Terminal
<1>0. \A k \in Frames :
        /\ [k EXCEPT !.scan = s, !.patient = patient] \in Frames
        /\ [k EXCEPT !.scan = s, !.patient = patient].at = k.at
        /\ [k EXCEPT !.scan = s, !.patient = patient].art = k.art
  BY <1>1 DEF Frames
<1>2. f \in Frames /\ f.at = "read" /\ f.art = a
  <2>. DEFINE k == Work(a, "read")
  <2>1. k \in Frames /\ k.at = "read" /\ k.art = a
    BY FramesBuilt
  <2>. HIDE DEF k
  <2>2. f = [k EXCEPT !.scan = s, !.patient = patient]
    BY DEF k
  <2>. QED
    BY <1>0, <2>1, <2>2
<1>3. g \in Frames /\ g.at = "give_up" /\ g.art = a /\ g.outcome = "unavailable"
  BY <1>1, <1>2 DEF Frames
<1>4. UNCHANGED <<row, overrun, bare>> /\ ClocksTyped
  BY DEF Watch, FounderInv, TypeOK, ClocksTyped, history
<1>5. Goto(w, f) \/ Goto(w, g)
  BY DEF Watch
<1>. HIDE DEF f, g
<1>6. CASE Goto(w, f)
  BY <1>2, <1>4, <1>6, OutsideStep
<1>7. CASE Goto(w, g)
  BY <1>3, <1>4, <1>7, OutsideStep
<1>. QED
  BY <1>5, <1>6, <1>7

\* Reading the row takes no claim: the poll is not inside yet, or it gives up.
LEMMA ReadRowStep ==
  ASSUME FounderInv, NEW w \in Workers, ReadRow(w)
  PROVE  FounderInv'
<1>. DEFINE f == [worker[w] EXCEPT !.attempts = row[worker[w].art].attempts,
                                   !.start = row[worker[w].art].start]
            g == [f EXCEPT !.at = "give_up", !.outcome = "timed_out"]
            h == [f EXCEPT !.at = "claim"]
<1>1. worker[w] \in Frames /\ worker[w].art \in Artifacts /\ row[worker[w].art] \in Rows
  BY DEF ReadRow, FounderInv, TypeOK
<1>2. f \in Frames /\ f.art \in Artifacts
  BY <1>1 DEF Frames, Rows
<1>0. "timed_out" \in Statuses
  BY DEF Statuses, Terminal
<1>3. g \in Frames /\ g.at = "give_up" /\ g.art \in Artifacts /\ g.outcome = "timed_out"
  BY <1>0, <1>2 DEF Frames
<1>4. h \in Frames /\ h.at = "claim" /\ h.art \in Artifacts /\ h.attempts = f.attempts
  BY <1>2 DEF Frames
<1>5. UNCHANGED <<row, overrun, bare>> /\ ClocksTyped
  BY DEF ReadRow, FounderInv, TypeOK, ClocksTyped, history
<1>6. \A k \in Frames : ~MustStop(k) => k.attempts < MaxAttempts
  BY FounderAssumption DEF MustStop, Frames
<1>7. Goto(w, Idle) \/ Goto(w, g) \/ (~MustStop(f) /\ Goto(w, h))
  BY DEF ReadRow
<1>8. Idle \in Frames /\ Idle.at = "idle"
  BY FramesBuilt DEF Idle
<1>. HIDE DEF f, g, h
<1>9. CASE Goto(w, Idle)
  BY <1>5, <1>8, <1>9, OutsideStep
<1>10. CASE Goto(w, g)
  BY <1>3, <1>5, <1>10, OutsideStep
<1>11. CASE ~MustStop(f) /\ Goto(w, h)
  BY <1>2, <1>4, <1>5, <1>6, <1>11, OutsideStep
<1>. QED
  BY <1>7, <1>9, <1>10, <1>11

\* A worker that starts again is at rest or about to read.
LEMMA AgainFrame ==
  ASSUME TypeOK, NEW w \in Workers, worker[w].art \in Artifacts
  PROVE  /\ Again(w) \in Frames
         /\ Again(w).at \in {"idle", "read"}
         /\ Again(w).at = "read" => Again(w).art \in Artifacts
<1>1. worker[w] \in Frames
  BY DEF TypeOK
<1>. DEFINE f == Work(worker[w].art, "read")
<1>2. f \in Frames /\ f.at = "read" /\ f.art = worker[w].art
  BY FramesBuilt
<1>3. worker[w].scan \in 0..MaxScans /\ worker[w].patient \in BOOLEAN
  BY <1>1 DEF Frames
<1>. HIDE DEF f
<1>4. [f EXCEPT !.scan = worker[w].scan, !.patient = worker[w].patient] \in Frames
  BY <1>2, <1>3 DEF Frames
<1>5. /\ [f EXCEPT !.scan = worker[w].scan, !.patient = worker[w].patient].at = "read"
      /\ [f EXCEPT !.scan = worker[w].scan, !.patient = worker[w].patient].art = worker[w].art
  BY <1>2 DEF Frames
<1>6. Idle \in Frames /\ Idle.at = "idle"
  BY FramesBuilt DEF Idle
<1>. QED
  BY <1>4, <1>5, <1>6 DEF Again, f

\* The claim succeeds only where nobody is inside, and then one poll is.
LEMMA ClaimStep ==
  ASSUME FounderInv, NEW w \in Workers, Claim(w)
  PROVE  FounderInv'
<1>. DEFINE f == worker[w]
            g == [f EXCEPT !.at = "poll"]
            r == [row[f.art] EXCEPT !.claim = "held"]
<1>1. /\ f \in Frames /\ f.art \in Artifacts /\ row[f.art] \in Rows /\ TypeOK
      /\ f.attempts < MaxAttempts /\ row \in [Artifacts -> Rows]
  BY DEF Claim, FounderInv, TypeOK, FramesOK
<1>2. UNCHANGED <<overrun, bare>> /\ ClocksTyped
  BY DEF Claim, FounderInv, TypeOK, ClocksTyped, history
<1>0. HistoryKept(w, f.art)
  BY <1>1, <1>2, HistoryKeeps
<1>3. CASE Claimable(f.art)
  <2>1. g \in Frames /\ g.at = "poll" /\ g.art = f.art /\ g.attempts = f.attempts
    BY <1>1 DEF Frames
  <2>2. r \in Rows /\ r.claim = "held" /\ r.status = row[f.art].status
    BY <1>1 DEF Rows
  <2>3. row' = [row EXCEPT ![f.art] = r] /\ Goto(w, g)
    BY <1>1, <1>3 DEF Claim, Rows
  <2>4. f.art \notin overrun' => \A v \in Workers : ~Inside(v, f.art)
    BY <1>1, <1>2, <1>3 DEF FounderInv, ClaimOK, Claimable
  <2>5. RowFits(g, f.art, r)
    BY <1>3, <2>2 DEF Claimable, RowFits
  <2>. HIDE DEF f, g, r
  <2>. QED
    BY <1>0, <1>1, <1>2, <2>1, <2>2, <2>3, <2>4, <2>5, RowStep
<1>4. CASE ~Claimable(f.art)
  <2>1. Goto(w, Again(w)) /\ UNCHANGED row
    BY <1>4 DEF Claim
  <2>. QED
    BY <1>1, <1>2, <2>1, AgainFrame, OutsideStep
<1>. QED
  BY <1>3, <1>4

\* A poll that is inside is alone there, unless its claim was overrun.
LEMMA InsideAlone ==
  ASSUME FounderInv, NEW w \in Workers, worker[w].at \in {"poll", "persist", "release"}
  PROVE  /\ worker[w] \in Frames /\ worker[w].art \in Artifacts
         /\ row[worker[w].art] \in Rows
         /\ worker[w].art \notin overrun =>
              /\ row[worker[w].art].claim = "held"
              /\ worker[w].at # "release" /\ row[worker[w].art].status \in Terminal =>
                   worker[w].art \in bare
              /\ \A v \in Workers : Inside(v, worker[w].art) => v = w
<1>1. /\ worker[w] \in Frames /\ worker[w].art \in Artifacts
      /\ row[worker[w].art] \in Rows
  BY DEF FounderInv, TypeOK
<1>2. Inside(w, worker[w].art) /\ (worker[w].at # "release" => Writing(w, worker[w].art))
  BY DEF Inside, Writing
<1>. QED
  BY <1>1, <1>2 DEF FounderInv, ClaimOK, PollsExclude

\* The remote call leaves the row alone; its answer is kept in the frame.
LEMMA PollStep ==
  ASSUME FounderInv, NEW w \in Workers, NEW answer \in Answers, Poll(w, answer)
  PROVE  FounderInv'
<1>. DEFINE f == [worker[w] EXCEPT !.attempts = @ + 1, !.at = "persist"]
            a == worker[w].art
<1>1. worker[w].at = "poll"
  BY DEF Poll
<1>2. /\ worker[w] \in Frames /\ a \in Artifacts /\ row[a] \in Rows
      /\ a \notin overrun =>
           /\ row[a].claim = "held"
           /\ row[a].status \in Terminal => a \in bare
           /\ \A v \in Workers : Inside(v, a) => v = w
  BY <1>1, InsideAlone
<1>3. worker[w].attempts + 1 \in 0..MaxAttempts
  BY <1>1, <1>2, FounderAssumption DEF FounderInv, FramesOK, Frames
<1>4. f \in Frames /\ f.at = "persist" /\ f.art = a
  BY <1>2, <1>3 DEF Frames
<1>5. answer \in Statuses /\ "timed_out" \in Statuses
  BY DEF Answers, Statuses, Terminal
<1>6. PICK o \in Statuses : Goto(w, [f EXCEPT !.outcome = o])
  BY <1>5 DEF Poll
<1>. DEFINE g == [f EXCEPT !.outcome = o]
<1>. HIDE DEF f
<1>7. g \in Frames /\ g.at = "persist" /\ g.art = a
  BY <1>4 DEF Frames
<1>8. /\ row' = [row EXCEPT ![a] = row[a]] /\ Goto(w, g)
      /\ UNCHANGED <<overrun, bare>> /\ ClocksTyped
  BY <1>6 DEF Poll, FounderInv, TypeOK, ClocksTyped, history
<1>9. HistoryKept(w, a)
  BY <1>2, <1>8, HistoryKeeps
<1>10. a \notin overrun' => RowFits(g, a, row[a])
  BY <1>2, <1>8 DEF RowFits
<1>. HIDE DEF g, a
<1>. QED
  BY <1>2, <1>7, <1>8, <1>9, <1>10, RowStep

\* An error inside leaves the row alone, and the claim to the finally clause.
LEMMA PollRaisesStep ==
  ASSUME FounderInv, NEW w \in Workers, PollRaises(w)
  PROVE  FounderInv'
<1>. DEFINE f == [worker[w] EXCEPT !.at = "release", !.outcome = "absent"]
            a == worker[w].art
<1>1. worker[w].at \in {"poll", "persist"} /\ Goto(w, f)
  BY DEF PollRaises
<1>2. /\ worker[w] \in Frames /\ a \in Artifacts /\ row[a] \in Rows
      /\ a \notin overrun =>
           row[a].claim = "held" /\ \A v \in Workers : Inside(v, a) => v = w
  BY <1>1, InsideAlone
<1>3. "absent" \in Statuses
  BY DEF Statuses
<1>4. f \in Frames /\ f.at = "release" /\ f.art = a
  BY <1>2, <1>3 DEF Frames
<1>5. crashes' \in 0..MaxCrashes
  BY FounderAssumption DEF PollRaises, FounderInv, TypeOK
<1>6. /\ row' = [row EXCEPT ![a] = row[a]]
      /\ UNCHANGED <<overrun, bare>> /\ ClocksTyped
  BY <1>5 DEF PollRaises, FounderInv, TypeOK, ClocksTyped, history
<1>7. HistoryKept(w, a)
  BY <1>2, <1>6, HistoryKeeps
<1>8. a \notin overrun' => RowFits(f, a, row[a])
  BY <1>2, <1>4, <1>6 DEF RowFits
<1>. HIDE DEF f, a
<1>. QED
  BY <1>1, <1>2, <1>4, <1>6, <1>7, <1>8, RowStep

\* The result is written by the only poll inside.
LEMMA PersistStep ==
  ASSUME FounderInv, NEW w \in Workers, Persist(w)
  PROVE  FounderInv'
<1>. DEFINE f == worker[w]
            g == [f EXCEPT !.at = "release"]
<1>1. f.at = "persist" /\ WriteProgress(f) /\ Goto(w, g)
  BY DEF Persist
<1>2. /\ f \in Frames /\ f.art \in Artifacts
      /\ f.art \notin overrun =>
           row[f.art].claim = "held" /\ \A v \in Workers : Inside(v, f.art) => v = w
  BY <1>1, InsideAlone
<1>3. PICK r \in Rows : /\ row' = [row EXCEPT ![f.art] = r]
                        /\ r.status = f.outcome /\ r.claim = row[f.art].claim
  BY <1>1, <1>2, ProgressRow DEF FounderInv
<1>4. due' \subseteq Artifacts
  BY <1>1, <1>2, ProgressRow DEF FounderInv
<1>5. g \in Frames /\ g.at = "release" /\ g.art = f.art
  BY <1>2 DEF Frames
<1>6. ClocksTyped /\ UNCHANGED overrun
  BY <1>4 DEF Persist, FounderInv, TypeOK, ClocksTyped
<1>7. HistoryKept(w, f.art)
  BY <1>2, HistoryKeeps DEF Persist
<1>8. f.art \notin overrun' => RowFits(g, f.art, r)
  BY <1>2, <1>3, <1>5, <1>6 DEF RowFits
<1>. HIDE DEF f, g
<1>. QED
  BY <1>1, <1>2, <1>3, <1>5, <1>6, <1>7, <1>8, RowStep

\* The claim is freed by the poll that held it, which leaves.
LEMMA ReleaseStep ==
  ASSUME FounderInv, NEW w \in Workers, Release(w)
  PROVE  FounderInv'
<1>. DEFINE f == worker[w]
            g == IF f.outcome \in Terminal \cup {"absent"} THEN Idle ELSE Again(w)
            r == [row[f.art] EXCEPT !.claim = "free"]
<1>1. f.at = "release" /\ Goto(w, g)
  BY DEF Release
<1>2. /\ f \in Frames /\ f.art \in Artifacts /\ row[f.art] \in Rows
      /\ f.art \notin overrun => \A v \in Workers : Inside(v, f.art) => v = w
  BY <1>1, InsideAlone
<1>3. g \in Frames /\ g.at \in {"idle", "read"} /\ (g.at = "read" => g.art \in Artifacts)
  BY <1>2, AgainFrame, FramesBuilt DEF Idle, FounderInv
<1>4. r \in Rows
  BY <1>2 DEF Rows
<1>5. row' = [row EXCEPT ![f.art] = r]
  BY <1>2 DEF Release, FounderInv, TypeOK, Rows
<1>6. ClocksTyped
  BY DEF Release, FounderInv, TypeOK, ClocksTyped
<1>7. HistoryKept(w, f.art)
  BY <1>2, HistoryKeeps DEF Release
<1>8. f.art \notin overrun' => \A v \in Workers \ {w} : ~Inside(v, f.art)
  BY <1>2 DEF Release, Leaves
<1>. HIDE DEF f, g, r
<1>. QED
  BY <1>1, <1>2, <1>3, <1>4, <1>5, <1>6, <1>7, <1>8, RowStep

\* The row is overwritten without a claim, but not with a result.
LEMMA GiveUpStep ==
  ASSUME FounderInv, NEW w \in Workers, GiveUp(w)
  PROVE  FounderInv'
<1>. DEFINE f == worker[w]
<1>1. f.at = "give_up" /\ WriteProgress(f) /\ Goto(w, Idle)
  BY DEF GiveUp
<1>2. /\ f \in Frames /\ f.art \in Artifacts
      /\ f.outcome \in {"timed_out", "unavailable"}
  BY <1>1 DEF FounderInv, TypeOK, FramesOK
<1>3. PICK r \in Rows : /\ row' = [row EXCEPT ![f.art] = r]
                        /\ r.status = f.outcome /\ r.claim = row[f.art].claim
  BY <1>1, <1>2, ProgressRow DEF FounderInv
<1>4. f.art \notin overrun' =>
        \A v \in Workers : Inside(v, f.art) => RowFits(worker[v], f.art, r)
  BY <1>2, <1>3 DEF FounderInv, ClaimOK, RowFits, GiveUp, Writing, Inside
<1>5. due' \subseteq Artifacts
  BY <1>1, <1>2, ProgressRow DEF FounderInv
<1>6. ClocksTyped
  BY <1>5 DEF GiveUp, FounderInv, TypeOK, ClocksTyped
<1>7. Idle \in Frames /\ Idle.at = "idle"
  BY FramesBuilt DEF Idle
<1>8. HistoryKept(w, f.art)
  BY <1>2, HistoryKeeps DEF GiveUp
<1>. HIDE DEF f
<1>. QED
  BY <1>1, <1>2, <1>3, <1>4, <1>6, <1>7, <1>8, RowStep

\* A poll that dies inside leaves the claim to age.
LEMMA CrashStep ==
  ASSUME FounderInv, NEW w \in Workers, Crash(w)
  PROVE  FounderInv'
<1>1. crashes' \in 0..MaxCrashes
  BY FounderAssumption DEF Crash, FounderInv, TypeOK
<1>2. Goto(w, Idle) /\ UNCHANGED <<row, bare>> /\ Leaves(w) /\ ClocksTyped
  BY <1>1 DEF Crash, FounderInv, TypeOK, ClocksTyped
<1>3. Idle \in Frames /\ Idle.at = "idle"
  BY FramesBuilt DEF Idle
<1>. QED
  BY <1>1, <1>2, <1>3, OutsideStep

\* Before anything happens the invariant holds.
LEMMA InitHolds == Init => FounderInv
<1>. SUFFICES ASSUME Init PROVE FounderInv
  OBVIOUS
<1>1. NoRow \in Rows
  <2>1. 0 \in 0..MaxScans /\ 0 \in 0..MaxAttempts /\ "absent" \in Statuses
    BY FounderAssumption DEF Statuses
  <2>. QED
    BY <2>1 DEF NoRow, Rows
<1>2. Idle \in Frames /\ Idle.at = "idle"
  BY FramesBuilt DEF Idle
<1>3. TypeOK
  BY <1>1, <1>2, FounderAssumption DEF Init, TypeOK
<1>4. FramesOK /\ ClaimOK /\ PollsExclude
  BY <1>2 DEF Init, FramesOK, ClaimOK, PollsExclude, Inside
<1>. QED
  BY <1>3, <1>4 DEF FounderInv

\* Every step keeps the invariant.
LEMMA StepKeeps ==
  ASSUME FounderInv, [Next]_vars
  PROVE  FounderInv'
<1>1. CASE UNCHANGED vars
  BY <1>1, ClockStep DEF vars, FounderInv, TypeOK
<1>2. ASSUME NEW a \in Artifacts, SaveArtifact(a) \/ Time(a)
      PROVE  FounderInv'
  <2>1. CASE BecomesDue(a)
    BY <2>1, ClockStep DEF BecomesDue, FounderInv, TypeOK
  <2>. QED
    BY <1>2, <2>1, SaveArtifactStep, ClaimAgesStep DEF Time
<1>3. ASSUME NEW s \in Scans, BecomesLate(s)
      PROVE  FounderInv'
  BY <1>3, ClockStep DEF BecomesLate, FounderInv, TypeOK
<1>4. ASSUME NEW w \in Workers, Step(w)
      PROVE  FounderInv'
  BY <1>4, QueueScanStep, ReadRowStep, ClaimStep, PersistStep, ReleaseStep, GiveUpStep,
     PollStep DEF Step
<1>5. ASSUME NEW w \in Workers \ {Scheduler}, NEW a \in Artifacts,
             \/ LaunchScan(w, a)
             \/ \E s \in Scans, patient \in BOOLEAN : Watch(w, a, s, patient)
      PROVE  FounderInv'
  BY <1>5, LaunchScanStep, WatchStep
<1>. QED
  BY <1>1, <1>2, <1>3, <1>4, <1>5, TickStep, CrashStep, PollRaisesStep DEF Next

\* The inductive invariant of the founder scans: types, budgets, and that a
\* poll which is inside has the claim and the row to itself until its claim is
\* overrun (claim and release of advance_founder_scan_once).
THEOREM FounderInvariance == Spec => []FounderInv
BY InitHolds, StepKeeps, PTL DEF Spec

\* Two polls of one artifact do not overlap, though the claim names no owner,
\* unless one has taken longer than the 120 seconds of its claim.
THEOREM ClaimsExclude == Spec => []PollsExclude
<1>1. FounderInv => PollsExclude
  BY DEF FounderInv
<1>. QED
  BY <1>1, FounderInvariance, PTL

\* A step leaves an ended row ended, or queues a new scan, unless the claim was
\* overrun or the end was written without one.
LEMMA EndedStep ==
  ASSUME FounderInv, [Next]_vars, NEW a \in Artifacts,
         row[a].status \in Terminal, a \notin overrun \cup bare
  PROVE  row'[a].status \in Terminal \cup {"queued"}
<1>1. /\ row[a].status \in Terminal /\ row \in [Artifacts -> Rows]
      /\ \A v \in Workers : worker[v] \in Frames
  BY DEF FounderInv, TypeOK
<1>2. CASE row'[a].status = row[a].status
  BY <1>1, <1>2
<1>3. ASSUME NEW w \in Workers, QueueScan(w)
      PROVE  row'[a].status \in {row[a].status, "queued"}
  BY <1>1, <1>3 DEF QueueScan, Rows
<1>4. ASSUME NEW w \in Workers, Claim(w)
      PROVE  row'[a].status = row[a].status
  BY <1>1, <1>4 DEF Claim, Rows
<1>5. ASSUME NEW w \in Workers, Release(w)
      PROVE  row'[a].status = row[a].status
  BY <1>1, <1>5 DEF Release, Rows
<1>6. ASSUME NEW w \in Workers, Persist(w)
      PROVE  row'[a].status = row[a].status
  <2>1. worker[w].art # a
    BY <1>6, InsideAlone DEF Persist
  <2>. QED
    BY <1>1, <1>6, <2>1 DEF Persist, WriteProgress
<1>7. ASSUME NEW w \in Workers, GiveUp(w)
      PROVE  row'[a].status \in {row[a].status, "timed_out", "unavailable"}
  <2>1. worker[w].outcome \in {"timed_out", "unavailable"} /\ worker[w].art \in Artifacts
    BY <1>7 DEF GiveUp, FounderInv, FramesOK, TypeOK
  <2>. QED
    BY <1>1, <1>7, <2>1 DEF GiveUp, WriteProgress, Rows
<1>8. ASSUME NEW b \in Artifacts, SaveArtifact(b)
      PROVE  row'[a].status = row[a].status
  BY <1>1, <1>8 DEF SaveArtifact, Exists, Rows, Terminal
<1>9. ASSUME NEW b \in Artifacts, ClaimAges(b)
      PROVE  row'[a].status = row[a].status
  BY <1>1, <1>9 DEF ClaimAges, Rows
<1>10. ASSUME NEW w \in Workers, Step(w)
       PROVE  row'[a].status \in Terminal \cup {"queued"}
  <2>1. CASE ReadRow(w) \/ \E answer \in Answers : Poll(w, answer)
    BY <1>1, <2>1 DEF ReadRow, Poll
  <2>. QED
    BY <1>1, <1>3, <1>4, <1>5, <1>6, <1>7, <1>10, <2>1 DEF Step, Terminal
<1>11. CASE UNCHANGED row
  BY <1>1, <1>11
<1>12. ASSUME NEW b \in Artifacts, SaveArtifact(b) \/ Time(b)
       PROVE  row'[a].status \in Terminal \cup {"queued"}
  BY <1>1, <1>8, <1>9, <1>11, <1>12 DEF Time, BecomesDue
<1>13. ASSUME NEW w \in Workers \ {Scheduler}, NEW b \in Artifacts,
              \/ LaunchScan(w, b)
              \/ \E s \in Scans, patient \in BOOLEAN : Watch(w, b, s, patient)
       PROVE  UNCHANGED row
  BY <1>13 DEF LaunchScan, Watch
<1>14. Tick => UNCHANGED row
  BY DEF Tick
<1>15. ASSUME NEW w \in Workers, Crash(w) \/ PollRaises(w)
       PROVE  UNCHANGED row
  BY <1>15 DEF Crash, PollRaises
<1>16. ASSUME NEW s \in Scans, BecomesLate(s)
       PROVE  UNCHANGED row
  BY <1>16 DEF BecomesLate
<1>17. UNCHANGED vars => UNCHANGED row
  BY DEF vars
<1>. QED
  BY <1>10, <1>11, <1>12, <1>13, <1>14, <1>15, <1>16, <1>17 DEF Next

\* A scan recorded as ended, whichever way, is not put back among those to poll
\* by another poll, except one that outlived its claim, or that was inside
\* when the end was written without a claim.
THEOREM NoPollReopens == Spec => EndedStaysEnded
<1>1. FounderInv /\ [Next]_vars =>
        [\A a \in Artifacts : row[a].status \in Terminal /\ a \notin overrun \cup bare =>
           row'[a].status \in Terminal \cup {"queued"}]_vars
  BY EndedStep
<1>. QED
  BY <1>1, FounderInvariance, PTL DEF Spec, EndedStaysEnded

=============================================================================
