------------------------- MODULE SmartActionProofs --------------------------
(***************************************************************************)
(* Proofs about SmartAction.  For any number of workers SmartInv is        *)
(* inductive: the facts a call carries from its reads to its writes        *)
(* (FrameOK) only mention what grows or is never changed (Grows), so the   *)
(* other workers cannot invalidate them.                                   *)
(***************************************************************************)
EXTENDS SmartAction, TLAPS

-----------------------------------------------------------------------------
(***************************************************************************)
(* Steps of any worker keep what other workers rely on.                    *)
(***************************************************************************)

\* What no step takes away from a request.
Grows ==
  \A r \in Requests :
    /\ IsGated(r) => /\ request'[r].status # "absent"
                     /\ run'[r].actor = run[r].actor
                     /\ run'[r].admin = run[r].admin
    /\ overdue[r] => overdue'[r]
    /\ decided[r] \subseteq decided'[r]
    /\ reported[r] \subseteq reported'[r]

\* A frame is of its type if its fields are.
LEMMA FrameType ==
  ASSUME NEW label \in Labels, NEW r \in Requests,
         NEW p \in People \cup {Cancellation, Nobody}, NEW admin \in BOOLEAN,
         NEW arg \in Decisions \cup Results \cup {"none"}, NEW flag \in BOOLEAN
  PROVE  /\ Frame(label, r, p, admin, arg, flag) \in Frames
         /\ Frame(label, r, p, admin, arg, flag).at = label
         /\ Frame(label, r, p, admin, arg, flag).req = r
         /\ Frame(label, r, p, admin, arg, flag).by = p
         /\ Frame(label, r, p, admin, arg, flag).admin = admin
         /\ Frame(label, r, p, admin, arg, flag).arg = arg
         /\ Frame(label, r, p, admin, arg, flag).flag = flag
<1> DEFINE f == [at |-> label, req |-> r, by |-> p, admin |-> admin, arg |-> arg, flag |-> flag]
<1>1. f \in Frames
  BY Zenon DEF Frames
<1>2. /\ f.at = label /\ f.req = r /\ f.by = p
      /\ f.admin = admin /\ f.arg = arg /\ f.flag = flag
  BY Zenon
<1>3. Frame(label, r, p, admin, arg, flag) = f
  BY DEF Frame
<1>4. QED
  BY <1>1, <1>2, <1>3

\* The idle frame.
LEMMA IdleType == Idle \in Frames /\ Idle.at = "idle"
<1>1. (CHOOSE r \in Requests : TRUE) \in Requests
  BY PeopleAssumption
<1>2. "idle" \in Labels /\ "none" \in Decisions \cup Results \cup {"none"}
  BY DEF Labels
<1> DEFINE first == CHOOSE r \in Requests : TRUE
           no == FALSE
<1>3. Nobody \in People \cup {Cancellation, Nobody} /\ no \in BOOLEAN
  OBVIOUS
<1> HIDE DEF first, no
<1>4. first \in Requests
  BY <1>1 DEF first
<1>5. /\ Frame("idle", first, Nobody, no, "none", no) \in Frames
      /\ Frame("idle", first, Nobody, no, "none", no).at = "idle"
  BY <1>2, <1>3, <1>4, FrameType
<1>6. QED
  BY <1>5 DEF Idle, first, no

\* The steps of complete_approval.
LEMMA NextFrames ==
  \A frame \in Frames :
    /\ LET f == Advance(frame, "expire", "none", TRUE)
       IN  f \in Frames /\ f.at = "expire" /\ f.req = frame.req /\ f.by = frame.by /\ f.admin = frame.admin
    /\ LET f == Advance(frame, "complete", "none", FALSE)
       IN  f \in Frames /\ f.at = "complete" /\ f.req = frame.req /\ f.by = frame.by /\ f.admin = frame.admin
    /\ LET f == Advance(frame, "tool", "none", FALSE)
       IN  f \in Frames /\ f.at = "tool" /\ f.req = frame.req /\ f.by = frame.by /\ f.admin = frame.admin
    /\ LET f == Advance(frame, "record", "rejected", FALSE)
       IN  f \in Frames /\ f.at = "record" /\ f.req = frame.req /\ f.by = frame.by /\ f.admin = frame.admin
             /\ f.arg = "rejected"
<1>1. TAKE frame \in Frames
<1> DEFINE yes == TRUE none == "none" rejected == "rejected"
           expire == "expire" complete == "complete" tool == "tool" record == "record"
<1> HIDE DEF yes, none, rejected, expire, complete, tool, record
<1>3. LET f == Advance(frame, expire, none, yes)
      IN  f \in Frames /\ f.at = expire /\ f.req = frame.req /\ f.by = frame.by /\ f.admin = frame.admin
  <2>1. expire \in Labels
    BY DEF expire, Labels
  <2>2. none \in Decisions \cup Results \cup {"none"}
    BY DEF none, Decisions
  <2>3. yes \in BOOLEAN
    BY DEF yes
  <2>4. QED
    BY <2>1, <2>2, <2>3 DEF Advance, Frame, Frames
<1>4. LET f == Advance(frame, complete, none, FALSE)
      IN  f \in Frames /\ f.at = complete /\ f.req = frame.req /\ f.by = frame.by /\ f.admin = frame.admin
  <2>1. complete \in Labels
    BY DEF complete, Labels
  <2>2. none \in Decisions \cup Results \cup {"none"}
    BY DEF none, Decisions
  <2>3. QED
    BY <2>1, <2>2 DEF Advance, Frame, Frames
<1>5. LET f == Advance(frame, tool, none, FALSE)
      IN  f \in Frames /\ f.at = tool /\ f.req = frame.req /\ f.by = frame.by /\ f.admin = frame.admin
  <2>1. tool \in Labels
    BY DEF tool, Labels
  <2>2. none \in Decisions \cup Results \cup {"none"}
    BY DEF none, Decisions
  <2>3. QED
    BY <2>1, <2>2 DEF Advance, Frame, Frames
<1>6. LET f == Advance(frame, record, rejected, FALSE)
      IN  f \in Frames /\ f.at = record /\ f.req = frame.req /\ f.by = frame.by /\ f.admin = frame.admin /\ f.arg = rejected
  <2>1. record \in Labels
    BY DEF record, Labels
  <2>2. rejected \in Decisions \cup Results \cup {"none"}
    BY DEF rejected, Decisions
  <2>3. QED
    BY <2>1, <2>2 DEF Advance, Frame, Frames
<1>7. QED
  BY <1>3, <1>4, <1>5, <1>6 DEF yes, none, rejected, expire, complete, tool, record

\* What a waiting worker relies on stays true.
LEMMA FrameStable ==
  ASSUME TypeOK, Grows, NEW v \in Workers, FrameOK(worker[v]), worker'[v] = worker[v]
  PROVE  FrameOK(worker[v])'
<1>1. worker[v] \in Frames /\ worker[v].req \in Requests
  BY DEF TypeOK, Frames
<1>2. CASE worker[v].at = "idle"
  BY <1>2 DEF FrameOK
<1>3. CASE worker[v].at # "idle"
  <2>1. IsGated(worker[v].req)
    BY <1>3 DEF FrameOK
  <2>2. QED
    BY <1>1, <1>3, <2>1 DEF FrameOK, Grows, IsGated, HasRole
<1>4. QED
  BY <1>2, <1>3

\* An idle worker relies on nothing.
LEMMA FrameIdle ==
  ASSUME NEW v \in Workers, worker'[v] = Idle
  PROVE  FrameOK(worker[v])'
BY IdleType DEF FrameOK

\* A step of worker w that grows the tables keeps every frame if it keeps w's.
LEMMA FramesKept ==
  ASSUME TypeOK, Grows, NEW w \in Workers, NEW frame,
         \A v \in Workers : FrameOK(worker[v]),
         worker' = [worker EXCEPT ![w] = frame],
         FrameOK(worker[w])'
  PROVE  \A v \in Workers : FrameOK(worker[v])'
<1>1. TAKE v \in Workers
<1>2. CASE v = w
  BY <1>2
<1>3. CASE v # w
  <2>1. worker'[v] = worker[v]
    BY <1>3 DEF TypeOK
  <2>2. QED
    BY <2>1, FrameStable
<1>4. QED
  BY <1>2, <1>3

\* A step that leaves the tables alone keeps the invariant if the new frame
\* of its worker is in order.
LEMMA Quiet ==
  ASSUME SmartInv, UNCHANGED <<tables, overdue, history>>,
         NEW w \in Workers, NEW frame \in Frames, FrameOK(frame),
         worker' = [worker EXCEPT ![w] = frame],
         returned' \in [Workers -> Answers]
  PROVE  SmartInv'
<1>1. /\ UNCHANGED request /\ UNCHANGED run /\ UNCHANGED overdue
      /\ UNCHANGED ranFor /\ UNCHANGED tools /\ UNCHANGED reported /\ UNCHANGED decided
  BY DEF tables, history
<1>2. TypeOK'
  BY <1>1 DEF SmartInv, TypeOK
<1>3. Grows
  BY <1>1 DEF Grows, IsGated
<1>4. FrameOK(worker[w])'
  BY <1>1 DEF SmartInv, TypeOK, FrameOK, IsGated, HasRole
<1>5. \A v \in Workers : FrameOK(worker[v])'
  BY <1>3, <1>4, FramesKept DEF SmartInv
<1>6. TablesOK' /\ RunsForAuthorized' /\ OutcomeIsBacked'
  BY <1>1 DEF SmartInv, TablesOK, RunsForAuthorized, OutcomeIsBacked, IsGated
<1>7. QED
  BY <1>2, <1>5, <1>6 DEF SmartInv

\* A call that returns leaves an idle worker and an answer.
LEMMA Returns ==
  ASSUME SmartInv, NEW w \in Workers, NEW answer \in Answers, Return(w, answer)
  PROVE  /\ Idle \in Frames /\ FrameOK(Idle)
         /\ worker' = [worker EXCEPT ![w] = Idle]
         /\ returned' \in [Workers -> Answers]
<1>1. Idle \in Frames /\ Idle.at = "idle"
  BY IdleType
<1>2. FrameOK(Idle)
  BY <1>1 DEF FrameOK
<1>3. returned \in [Workers -> Answers]
  BY DEF SmartInv, TypeOK
<1>4. QED
  BY <1>1, <1>2, <1>3 DEF Return, Goto

\* ... so a call that only returns keeps the invariant.
LEMMA QuietReturn ==
  ASSUME SmartInv, UNCHANGED <<tables, overdue, history>>,
         NEW w \in Workers, NEW answer \in Answers, Return(w, answer)
  PROVE  SmartInv'
<1>1. /\ Idle \in Frames /\ FrameOK(Idle)
      /\ worker' = [worker EXCEPT ![w] = Idle]
      /\ returned' \in [Workers -> Answers]
  BY Returns
<1>2. QED
  BY <1>1, Quiet

\* The words of the vocabulary.
LEMMA Words ==
  /\ \A answer \in RunStatuses : answer \in Answers
  /\ {"error", "rejected", "pending_approval"} \subseteq Answers
  /\ {"idle", "expire", "decide", "complete", "tool", "record", "store"} \subseteq Labels
  /\ {"none", "rejected"} \subseteq Decisions \cup Results \cup {"none"}
  /\ \A decision \in Decisions : decision \in Statuses
  /\ Decisions \subseteq Decisions \cup Results \cup {"none"}
  /\ Results \subseteq Decisions \cup Results \cup {"none"}
BY DEF Answers, RunStatuses, Results, Labels, Decisions, Statuses

-----------------------------------------------------------------------------
(***************************************************************************)
(* Steps that only read.                                                   *)
(***************************************************************************)

\* A reader that met an overdue row is about to expire it.
LEMMA ReadOverdueKeeps ==
  ASSUME SmartInv, NEW w \in Workers, NEW r \in Requests, ReadOverdue(w, r)
  PROVE  SmartInv'
<1> DEFINE no == FALSE
           f == Frame("expire", r, Nobody, no, "none", no)
<1>0. /\ no \in BOOLEAN /\ "expire" \in Labels
      /\ "none" \in Decisions \cup Results \cup {"none"}
      /\ Nobody \in People \cup {Cancellation, Nobody}
  BY Words
<1> HIDE DEF no
<1>1. /\ f \in Frames /\ f.at = "expire" /\ f.req = r /\ f.by = Nobody
      /\ f.admin = no
  BY <1>0, FrameType
<1>2. overdue[r] /\ IsGated(r)
  BY DEF ReadOverdue, Overdue, IsGated
<1>3. FrameOK(f)
  BY <1>1, <1>2 DEF FrameOK, no
<1>4. returned' \in [Workers -> Answers]
  BY DEF ReadOverdue, SmartInv, TypeOK
<1>5. worker' = [worker EXCEPT ![w] = f]
  BY DEF ReadOverdue, Goto, no
<1>6. QED
  BY <1>1, <1>3, <1>4, <1>5, Quiet DEF ReadOverdue

\* The checks of a decision: a caller's role is his own, and the system
\* decides as no one but to reject.
LEMMA UpdateApprovalKeeps ==
  ASSUME SmartInv, NEW w \in Workers, NEW r \in Requests, NEW decision \in Decisions,
         NEW p \in People \cup {Cancellation}, NEW admin \in BOOLEAN,
         p \in People /\ admin => p \in Admins,
         decision = "approved" => p \in People,
         UpdateApproval(w, r, decision, p, admin)
  PROVE  SmartInv'
<1>1. CASE MayDecide(r, decision, admin)
  <2> DEFINE flag == Overdue(r)
  <2>1. flag \in BOOLEAN
    BY DEF SmartInv, TypeOK, Overdue
  <2> HIDE DEF flag
  <2> DEFINE f == Frame("decide", r, p, admin, decision, flag)
  <2>0. /\ "decide" \in Labels /\ p \in People \cup {Cancellation, Nobody}
        /\ decision \in Decisions \cup Results \cup {"none"}
    BY Words
  <2>2. /\ f \in Frames /\ f.at = "decide" /\ f.req = r /\ f.by = p
        /\ f.admin = admin /\ f.arg = decision
    BY <2>0, <2>1, FrameType
  <2>3. IsGated(r)
    BY DEF UpdateApproval, IsGated
  <2>4. decision = "approved" => HasRole(admin, r)
    BY <1>1 DEF MayDecide
  <2>5. FrameOK(f)
    BY <2>2, <2>3, <2>4 DEF FrameOK
  <2>6. worker' = [worker EXCEPT ![w] = f] /\ UNCHANGED returned
    BY <1>1 DEF UpdateApproval, Goto, flag
  <2>7. returned' \in [Workers -> Answers]
    BY <2>6 DEF SmartInv, TypeOK
  <2>8. QED
    BY <2>2, <2>5, <2>6, <2>7, Quiet DEF UpdateApproval
<1>2. CASE ~MayDecide(r, decision, admin)
  BY <1>2, Words, QuietReturn DEF UpdateApproval
<1>3. QED
  BY <1>1, <1>2

\* A completion starts.
LEMMA CompleteApprovalKeeps ==
  ASSUME SmartInv, NEW w \in Workers, NEW r \in Requests,
         NEW p \in People, NEW admin \in BOOLEAN,
         admin /\ run[r].admin => p \in Admins,
         CompleteApproval(w, r, p, admin)
  PROVE  SmartInv'
<1> DEFINE no == FALSE
           f == Frame("complete", r, p, admin, "none", no)
<1>0. /\ no \in BOOLEAN /\ "complete" \in Labels
      /\ "none" \in Decisions \cup Results \cup {"none"}
      /\ p \in People \cup {Cancellation, Nobody}
  BY Words
<1> HIDE DEF no
<1>1. /\ f \in Frames /\ f.at = "complete" /\ f.req = r /\ f.by = p
      /\ f.admin = admin
  BY <1>0, FrameType
<1>2. IsGated(r)
  BY DEF CompleteApproval, IsGated
<1>3. FrameOK(f)
  BY <1>1, <1>2 DEF FrameOK
<1>4. returned' \in [Workers -> Answers]
  BY DEF CompleteApproval, SmartInv, TypeOK
<1>5. worker' = [worker EXCEPT ![w] = f]
  BY DEF CompleteApproval, Goto, no
<1>6. QED
  BY <1>1, <1>3, <1>4, <1>5, Quiet DEF CompleteApproval

\* The reads of complete_approval and the branch they decide: the tool is
\* reached only on an approved request, for a caller with the role.
LEMMA CompleteReadKeeps ==
  ASSUME SmartInv, NEW w \in Workers, CompleteRead(w)
  PROVE  SmartInv'
<1> DEFINE frame == worker[w]
           r == frame.req
           quiet == UNCHANGED <<tables, overdue, history>>
<1>0. frame \in Frames
  BY DEF SmartInv, TypeOK
<1>1. frame \in Frames /\ r \in Requests /\ frame.at = "complete"
  BY <1>0 DEF Frames, CompleteRead
<1>2. FrameOK(frame) /\ quiet
  BY DEF SmartInv, CompleteRead
<1>3. returned \in [Workers -> Answers] /\ run[r].status \in Answers
  BY <1>1, Words DEF SmartInv, TypeOK
<1> HIDE DEF quiet
<1>5. CASE Overdue(r) /\ Goto(w, Advance(frame, "expire", "none", TRUE)) /\ UNCHANGED returned
  <2> DEFINE f == Advance(frame, "expire", "none", TRUE)
  <2>2. /\ f \in Frames /\ f.at = "expire" /\ f.req = r /\ f.by = frame.by
        /\ f.admin = frame.admin
    BY <1>0, NextFrames, Zenon
  <2>3. overdue[r]
    BY <1>5 DEF Overdue
  <2>4. FrameOK(f)
    BY <1>1, <1>2, <2>2, <2>3 DEF FrameOK
  <2>5. worker' = [worker EXCEPT ![w] = f]
    BY <1>5 DEF Goto
  <2>6. QED
    BY <1>2, <1>3, <1>5, <2>2, <2>4, <2>5, Quiet DEF quiet
<1>6. CASE \E answer \in Answers : Return(w, answer)
  BY <1>2, <1>6, QuietReturn DEF quiet
<1>7. CASE /\ request[r].status = "rejected"
           /\ Goto(w, Advance(frame, "record", "rejected", FALSE))
           /\ UNCHANGED returned
  <2> DEFINE f == Advance(frame, "record", "rejected", FALSE)
  <2>1. /\ f \in Frames /\ f.at = "record" /\ f.req = r /\ f.by = frame.by
        /\ f.admin = frame.admin /\ f.arg = "rejected"
    BY <1>0, NextFrames, Zenon
  <2>2. "rejected" \in decided[r]
    BY <1>1, <1>7 DEF SmartInv, TablesOK
  <2>3. FrameOK(f)
    BY <1>1, <1>2, <2>1, <2>2 DEF FrameOK
  <2>4. QED
    BY <1>2, <1>3, <1>7, <2>1, <2>3, Quiet DEF quiet, Goto
<1>8. CASE /\ ~SelfApproval(frame)
           /\ request[r].status = "approved" /\ MayRun(frame)
           /\ Goto(w, Advance(frame, "tool", "none", FALSE))
           /\ UNCHANGED returned
  <2> DEFINE f == Advance(frame, "tool", "none", FALSE)
  <2>1. /\ f \in Frames /\ f.at = "tool" /\ f.req = r /\ f.by = frame.by
        /\ f.admin = frame.admin
    BY <1>0, NextFrames, Zenon
  <2>2. "approved" \in decided[r]
    BY <1>1, <1>8 DEF SmartInv, TablesOK
  <2>3. FrameOK(f)
    BY <1>1, <1>2, <1>8, <2>1, <2>2 DEF FrameOK, SelfApproval, MayRun
  <2>4. QED
    BY <1>2, <1>3, <1>8, <2>1, <2>3, Quiet DEF quiet, Goto
<1>9. QED
  BY <1>3, <1>5, <1>6, <1>7, <1>8, Words DEF CompleteRead

\* The checks before a result is stored.
LEMMA RecordSelectKeeps ==
  ASSUME SmartInv, NEW w \in Workers, RecordSelect(w)
  PROVE  SmartInv'
<1> DEFINE f == Advance(worker[w], "store", worker[w].arg, FALSE)
<1>0. "store" \in Labels
  BY Words
<1>1. /\ worker[w] \in Frames /\ worker[w].at = "record" /\ FrameOK(worker[w])
      /\ worker[w].arg \in Decisions \cup Results \cup {"none"}
  BY DEF SmartInv, TypeOK, Frames, RecordSelect
<1>2. CASE MayRecord(worker[w])
  <2>1. /\ f \in Frames /\ f.at = "store" /\ f.req = worker[w].req
        /\ f.by = worker[w].by /\ f.admin = worker[w].admin /\ f.arg = worker[w].arg
    BY <1>1, <1>0 DEF Advance, Frame, Frames
  <2>2. FrameOK(f)
    BY <1>1, <2>1 DEF FrameOK
  <2>3. returned' \in [Workers -> Answers]
    BY <1>2 DEF RecordSelect, SmartInv, TypeOK
  <2>4. QED
    BY <1>2, <2>1, <2>2, <2>3, Quiet DEF RecordSelect, Goto
<1>3. CASE ~MayRecord(worker[w])
  BY <1>3, Words, QuietReturn DEF RecordSelect
<1>4. QED
  BY <1>2, <1>3

\* A call that raises, and a worker that dies.
LEMMA GivingUpKeeps ==
  ASSUME SmartInv, NEW w \in Workers, DecideRollback(w) \/ Crash(w)
  PROVE  SmartInv'
BY Words, QuietReturn DEF DecideRollback, Crash

-----------------------------------------------------------------------------
(***************************************************************************)
(* Steps that write.                                                       *)
(***************************************************************************)

\* A new pair of rows: nothing was known of the request before.
LEMMA InvokeGatedKeeps ==
  ASSUME SmartInv, NEW w \in Workers, NEW r \in Requests, NEW p \in People,
         NEW admin \in BOOLEAN, InvokeGated(w, r, p, admin)
  PROVE  SmartInv'
<1>1. /\ UNCHANGED overdue /\ UNCHANGED ranFor /\ UNCHANGED tools
      /\ UNCHANGED reported /\ UNCHANGED decided
      /\ request' = [request EXCEPT ![r].status = "pending"]
      /\ run' = [run EXCEPT ![r] = [status |-> "pending_approval", actor |-> p, admin |-> admin]]
  BY DEF InvokeGated, history
<1>2. ~IsGated(r) /\ tools[r] = 0 /\ ranFor[r] = {}
  BY DEF InvokeGated, SmartInv, TablesOK
<1>3. /\ worker' = [worker EXCEPT ![w] = Idle] /\ Idle \in Frames
      /\ returned' \in [Workers -> Answers]
  BY Words, Returns DEF InvokeGated
<1>4. TypeOK'
  <2>1. [status |-> "pending_approval", actor |-> p, admin |-> admin]
          \in [status: RunStatuses, actor: People \cup {Nobody}, admin: BOOLEAN]
    BY DEF RunStatuses
  <2>2. request' \in [Requests -> [status: Statuses,
                                   approver: People \cup {System, Cancellation, Nobody}]]
    BY <1>1, SMTT(30) DEF SmartInv, TypeOK, Statuses, Decisions
  <2>3. run' \in [Requests -> [status: RunStatuses, actor: People \cup {Nobody}, admin: BOOLEAN]]
    BY <1>1, <2>1 DEF SmartInv, TypeOK
  <2>4. QED
    BY <1>1, <1>3, <2>2, <2>3 DEF SmartInv, TypeOK
<1>5. \A q \in Requests : q # r => request'[q] = request[q] /\ run'[q] = run[q]
  BY <1>1 DEF SmartInv, TypeOK
<1>6. request'[r].status = "pending" /\ run'[r].status = "pending_approval"
  BY <1>1 DEF SmartInv, TypeOK
<1>7. Grows
  BY <1>1, <1>2, <1>5 DEF Grows, IsGated
<1>8. \A v \in Workers : FrameOK(worker[v])'
  <2>1. FrameOK(worker[w])'
    BY <1>3, FrameIdle DEF SmartInv, TypeOK
  <2>2. QED
    BY <1>3, <1>7, <2>1, FramesKept DEF SmartInv
<1>9. TablesOK'
  BY <1>1, <1>5, <1>6 DEF SmartInv, TablesOK, IsGated
<1>10. RunsForAuthorized'
  BY <1>1, <1>2, <1>5 DEF SmartInv, RunsForAuthorized
<1>11. OutcomeIsBacked'
  BY <1>1, <1>5, <1>6 DEF SmartInv, OutcomeIsBacked, IsGated, Results
<1>12. QED
  BY <1>4, <1>8, <1>9, <1>10, <1>11 DEF SmartInv

\* A run stored with its result has no request.
LEMMA InvokeDirectKeeps ==
  ASSUME SmartInv, NEW w \in Workers, NEW r \in Requests, NEW p \in People,
         NEW result \in Results, InvokeDirect(w, r, p, result)
  PROVE  SmartInv'
<1> DEFINE row == [status |-> result, actor |-> p, admin |-> FALSE]
<1>1. /\ UNCHANGED overdue /\ UNCHANGED ranFor /\ UNCHANGED tools
      /\ UNCHANGED reported /\ UNCHANGED decided /\ UNCHANGED request
      /\ run' = [run EXCEPT ![r] = row]
  BY DEF InvokeDirect, history
<1>2. ~IsGated(r) /\ tools[r] = 0 /\ ranFor[r] = {}
  BY DEF InvokeDirect, SmartInv, TablesOK
<1>3. result \in RunStatuses /\ result \in Answers /\ result # "none"
  BY DEF RunStatuses, Answers, Results
<1>4. /\ worker' = [worker EXCEPT ![w] = Idle] /\ Idle \in Frames
      /\ returned' \in [Workers -> Answers]
  BY <1>3, Returns DEF InvokeDirect
<1>5. row \in [status: RunStatuses, actor: People \cup {Nobody}, admin: BOOLEAN]
  BY <1>3
<1>6. row.status = result
  OBVIOUS
<1> HIDE DEF row
<1>7. TypeOK'
  <2>1. run' \in [Requests -> [status: RunStatuses, actor: People \cup {Nobody}, admin: BOOLEAN]]
    BY <1>1, <1>5 DEF SmartInv, TypeOK
  <2>2. QED
    BY <1>1, <1>4, <2>1 DEF SmartInv, TypeOK
<1>8. (\A q \in Requests : q # r => run'[q] = run[q]) /\ run'[r] = row
  BY <1>1 DEF SmartInv, TypeOK
<1>9. Grows
  BY <1>1, <1>2, <1>8 DEF Grows, IsGated
<1>10. \A v \in Workers : FrameOK(worker[v])'
  <2>1. FrameOK(worker[w])'
    BY <1>4, FrameIdle DEF SmartInv, TypeOK
  <2>2. QED
    BY <1>4, <1>9, <2>1, FramesKept DEF SmartInv
<1>11. TablesOK'
  BY <1>1, <1>2, <1>3, <1>6, <1>8 DEF SmartInv, TablesOK, IsGated
<1>12. RunsForAuthorized'
  BY <1>1, <1>2, <1>8 DEF SmartInv, RunsForAuthorized
<1>13. OutcomeIsBacked'
  BY <1>1, <1>2, <1>8 DEF SmartInv, OutcomeIsBacked, IsGated
<1>14. QED
  BY <1>7, <1>10, <1>11, <1>12, <1>13 DEF SmartInv

\* Time passes.
LEMMA DeadlineKeeps ==
  ASSUME SmartInv, NEW r \in Requests, Deadline(r)
  PROVE  SmartInv'
<1>1. /\ UNCHANGED request /\ UNCHANGED run /\ UNCHANGED worker /\ UNCHANGED returned
      /\ UNCHANGED ranFor /\ UNCHANGED tools /\ UNCHANGED reported /\ UNCHANGED decided
      /\ overdue' = [overdue EXCEPT ![r] = TRUE]
  BY DEF Deadline, tables, history
<1>2. overdue' \in [Requests -> BOOLEAN]
  BY <1>1 DEF SmartInv, TypeOK
<1>3. \A q \in Requests : overdue[q] => overdue'[q]
  BY <1>1 DEF SmartInv, TypeOK
<1>4. TypeOK'
  BY <1>1, <1>2 DEF SmartInv, TypeOK
<1>5. Grows
  BY <1>1, <1>3 DEF Grows, IsGated
<1>6. \A v \in Workers : FrameOK(worker[v])'
  BY <1>1, <1>5, FrameStable DEF SmartInv
<1>7. TablesOK' /\ RunsForAuthorized'
  BY <1>1 DEF SmartInv, TablesOK, RunsForAuthorized, IsGated
<1>8. OutcomeIsBacked'
  BY <1>1, <1>3 DEF SmartInv, OutcomeIsBacked, IsGated
<1>9. QED
  BY <1>4, <1>6, <1>7, <1>8 DEF SmartInv

\* A run is only turned to rejected here if its deadline has passed.
LEMMA ExpireKeeps ==
  ASSUME SmartInv, NEW w \in Workers, Expire(w)
  PROVE  SmartInv'
<1> DEFINE r == worker[w].req
           f == IF worker[w].flag THEN Advance(worker[w], "complete", "none", FALSE) ELSE Idle
<1>1. /\ UNCHANGED overdue /\ UNCHANGED returned /\ UNCHANGED ranFor /\ UNCHANGED tools
      /\ UNCHANGED reported /\ UNCHANGED decided
      /\ request' = IF request[r].status = "pending"
                      THEN [request EXCEPT ![r] = [status |-> "expired", approver |-> System]]
                      ELSE request
      /\ run' = [run EXCEPT ![r] = ExpireRun(run[r])]
      /\ worker' = [worker EXCEPT ![w] = f]
  BY DEF Expire, Goto, history
<1>2. /\ worker[w] \in Frames /\ r \in Requests /\ FrameOK(worker[w])
      /\ worker[w].at = "expire"
  BY DEF SmartInv, TypeOK, Frames, Expire
<1>3. IsGated(r) /\ overdue[r]
  BY <1>2 DEF FrameOK
<1>4. /\ f \in Frames
      /\ f.at # "idle" => /\ f.at = "complete" /\ f.req = r
                          /\ f.by = worker[w].by /\ f.admin = worker[w].admin
  <2> DEFINE g == Advance(worker[w], "complete", "none", FALSE)
  <2>1. worker[w] \in Frames
    BY <1>2
  <2>2. /\ g \in Frames /\ g.at = "complete" /\ g.req = r
        /\ g.by = worker[w].by /\ g.admin = worker[w].admin
    BY <2>1, NextFrames, Zenon
  <2> HIDE DEF g
  <2>3. f = g \/ f = Idle
    BY DEF g
  <2>4. QED
    BY <2>2, <2>3, IdleType
<1> HIDE DEF f
<1>5. /\ \A q \in Requests : q # r => request'[q] = request[q] /\ run'[q] = run[q]
      /\ request'[r].status \in {request[r].status, "expired"}
      /\ request'[r].status # "expired" => request'[r] = request[r]
  BY <1>1, <1>2 DEF SmartInv, TypeOK
<1>6. /\ run'[r].actor = run[r].actor /\ run'[r].admin = run[r].admin
      /\ run'[r].status = run[r].status \/ run'[r].status = "rejected"
      /\ run[r].status # "none" => run'[r].status # "none"
  BY <1>1, <1>2 DEF SmartInv, TypeOK, ExpireRun
<1>7. run[r].status # "none"
  BY <1>2, <1>3 DEF SmartInv, TablesOK
<1>8. request'[r].status # "absent"
  BY <1>3, <1>5 DEF IsGated
<1>9. TypeOK'
  <2>1. [status |-> "expired", approver |-> System]
           \in [status: Statuses, approver: People \cup {System, Cancellation, Nobody}]
    BY DEF Statuses
  <2>2. request' \in [Requests -> [status: Statuses,
                                   approver: People \cup {System, Cancellation, Nobody}]]
    BY <1>1, <1>2, <2>1 DEF SmartInv, TypeOK
  <2>3. ExpireRun(run[r]) \in [status: RunStatuses, actor: People \cup {Nobody}, admin: BOOLEAN]
    BY <1>2 DEF SmartInv, TypeOK, ExpireRun, RunStatuses
  <2>4. run' \in [Requests -> [status: RunStatuses, actor: People \cup {Nobody}, admin: BOOLEAN]]
    BY <1>1, <1>2, <2>3 DEF SmartInv, TypeOK
  <2>5. QED
    BY <1>1, <1>4, <2>2, <2>4 DEF SmartInv, TypeOK
<1>10. Grows
  BY <1>1, <1>2, <1>5, <1>6, <1>8 DEF Grows, IsGated
<1>11. \A v \in Workers : FrameOK(worker[v])'
  <2>1. worker'[w] = f
    BY <1>1 DEF SmartInv, TypeOK
  <2>2. FrameOK(worker[w])'
    BY <1>2, <1>4, <1>6, <1>8, <2>1 DEF FrameOK, IsGated
  <2>3. QED
    BY <1>1, <1>10, <2>2, FramesKept DEF SmartInv
<1>12. TablesOK'
  BY <1>1, <1>2, <1>5, <1>6, <1>7 DEF SmartInv, TablesOK, IsGated
<1>13. RunsForAuthorized'
  BY <1>1, <1>2, <1>5, <1>6 DEF SmartInv, RunsForAuthorized
<1>14. OutcomeIsBacked'
  BY <1>1, <1>2, <1>3, <1>5, <1>6 DEF SmartInv, OutcomeIsBacked, IsGated, Results
<1>15. QED
  BY <1>9, <1>11, <1>12, <1>13, <1>14 DEF SmartInv

\* A decision is committed, over whatever has become of the request since.
LEMMA DecideCommitKeeps ==
  ASSUME SmartInv, NEW w \in Workers, DecideCommit(w)
  PROVE  SmartInv'
<1> DEFINE r == worker[w].req
           decision == worker[w].arg
           f == Advance(worker[w], "complete", "none", FALSE)
           row == [status |-> decision, approver |-> worker[w].by]
<1>1. /\ UNCHANGED run /\ UNCHANGED overdue /\ UNCHANGED returned /\ UNCHANGED ranFor
      /\ UNCHANGED tools /\ UNCHANGED reported
      /\ request' = [request EXCEPT ![r] = row]
      /\ decided' = [decided EXCEPT ![r] = @ \cup {decision}]
      /\ worker' = [worker EXCEPT ![w] = f]
  BY DEF DecideCommit, Goto
<1>2. worker[w] \in Frames /\ FrameOK(worker[w]) /\ worker[w].at = "decide"
  BY DEF SmartInv, TypeOK, DecideCommit
<1>3. r \in Requests /\ worker[w].by \in People \cup {Cancellation, Nobody}
  BY <1>2 DEF Frames
<1>4. /\ IsGated(r) /\ decision \in Decisions
      /\ decision = "approved" => /\ worker[w].by \in People
                                  /\ run[r].admin => worker[w].by \in Admins
  BY <1>2 DEF FrameOK, HasRole
<1>5. /\ f \in Frames /\ f.at = "complete" /\ f.req = r
      /\ f.by = worker[w].by /\ f.admin = worker[w].admin
  <2>1. worker[w] \in Frames
    BY <1>2
  <2>2. QED
    BY <2>1, NextFrames, Zenon
<1>6. row.status = decision /\ row.approver = worker[w].by
  OBVIOUS
<1>7. row \in [status: Statuses, approver: People \cup {System, Cancellation, Nobody}]
  BY <1>3, <1>4 DEF Statuses
<1> HIDE DEF f, row
<1>8. /\ \A q \in Requests : q # r => request'[q] = request[q] /\ decided'[q] = decided[q]
      /\ request'[r] = row /\ decided'[r] = decided[r] \cup {decision}
  BY <1>1, <1>3 DEF SmartInv, TypeOK
<1>9. request'[r].status # "absent"
  BY <1>4, <1>6, <1>8 DEF IsGated, Decisions
<1>10. TypeOK'
  <2>1. request' \in [Requests -> [status: Statuses,
                                   approver: People \cup {System, Cancellation, Nobody}]]
    BY <1>1, <1>3, <1>7 DEF SmartInv, TypeOK
  <2>2. decided' \in [Requests -> SUBSET Decisions]
    BY <1>1, <1>3, <1>4 DEF SmartInv, TypeOK
  <2>3. QED
    BY <1>1, <1>5, <2>1, <2>2 DEF SmartInv, TypeOK
<1>11. Grows
  BY <1>1, <1>3, <1>8, <1>9 DEF Grows, IsGated
<1>12. \A v \in Workers : FrameOK(worker[v])'
  <2>1. worker'[w] = f
    BY <1>1 DEF SmartInv, TypeOK
  <2>2. FrameOK(worker[w])'
    BY <1>1, <1>2, <1>5, <1>9, <2>1 DEF FrameOK, IsGated
  <2>3. QED
    BY <1>1, <1>11, <2>2, FramesKept DEF SmartInv
<1>13. TablesOK'
  <2>1. run[r].status # "none"
    BY <1>3, <1>4 DEF SmartInv, TablesOK
  <2>2. QED
    BY <1>1, <1>3, <1>4, <1>6, <1>8, <2>1 DEF SmartInv, TablesOK, IsGated
<1>14. RunsForAuthorized'
  BY <1>1, <1>3, <1>8 DEF SmartInv, RunsForAuthorized
<1>15. OutcomeIsBacked'
  BY <1>1, <1>3, <1>4, <1>8 DEF SmartInv, OutcomeIsBacked, IsGated
<1>16. QED
  BY <1>10, <1>12, <1>13, <1>14, <1>15 DEF SmartInv

\* The tool runs for the approver the frame carries.
LEMMA ToolKeeps ==
  ASSUME SmartInv, NEW w \in Workers, NEW result \in Results, Tool(w, result)
  PROVE  SmartInv'
<1> DEFINE r == worker[w].req
           by == worker[w].by
           f == Advance(worker[w], "record", result, FALSE)
<1>1. /\ UNCHANGED request /\ UNCHANGED run /\ UNCHANGED overdue /\ UNCHANGED returned
      /\ UNCHANGED decided
      /\ ranFor' = [ranFor EXCEPT ![r] = @ \cup {by}]
      /\ tools' = [tools EXCEPT ![r] = IF @ = 2 THEN 2 ELSE @ + 1]
      /\ reported' = [reported EXCEPT ![r] = @ \cup {result}]
      /\ worker' = [worker EXCEPT ![w] = f]
  BY DEF Tool, Goto, tables
<1>2. worker[w] \in Frames
  BY DEF SmartInv, TypeOK
<1>3. FrameOK(worker[w]) /\ worker[w].at = "tool"
  BY DEF SmartInv, Tool
<1>4. r \in Requests /\ by \in People \cup {Cancellation, Nobody}
  BY <1>2 DEF Frames
<1>5. /\ IsGated(r) /\ by # run[r].actor /\ "approved" \in decided[r]
      /\ by \in People /\ run[r].admin => by \in Admins
      /\ by \in People /\ worker[w].admin /\ run[r].admin => by \in Admins
  BY <1>3 DEF FrameOK, HasRole
<1>6. /\ f \in Frames /\ f.at = "record" /\ f.req = r /\ f.by = by
      /\ f.admin = worker[w].admin /\ f.arg = result
  <2>1. "record" \in Labels
    BY Words
  <2>2. result \in Decisions \cup Results \cup {"none"}
    OBVIOUS
  <2>3. QED
    BY <1>2, <2>1, <2>2 DEF Advance, Frame, Frames
<1> HIDE DEF f
<1>7. /\ \A q \in Requests : q # r => /\ ranFor'[q] = ranFor[q] /\ tools'[q] = tools[q]
                                       /\ reported'[q] = reported[q]
      /\ ranFor'[r] = ranFor[r] \cup {by} /\ reported'[r] = reported[r] \cup {result}
  BY <1>1, <1>4 DEF SmartInv, TypeOK
<1>8. TypeOK'
  <2>1. tools' \in [Requests -> 0..2]
    BY <1>1, <1>4, SMTT(30) DEF SmartInv, TypeOK
  <2>2. ranFor' \in [Requests -> SUBSET (People \cup {Cancellation, Nobody})]
    BY <1>1, <1>4 DEF SmartInv, TypeOK
  <2>3. reported' \in [Requests -> SUBSET Results]
    BY <1>1, <1>4 DEF SmartInv, TypeOK
  <2>4. QED
    BY <1>1, <1>6, <2>1, <2>2, <2>3 DEF SmartInv, TypeOK
<1>9. Grows
  BY <1>1, <1>4, <1>7 DEF Grows, IsGated
<1>10. \A v \in Workers : FrameOK(worker[v])'
  <2>1. worker'[w] = f
    BY <1>1 DEF SmartInv, TypeOK
  <2>2. result \in reported'[r]
    BY <1>7
  <2>3. FrameOK(worker[w])'
    BY <1>1, <1>5, <1>6, <2>1, <2>2 DEF FrameOK, IsGated
  <2>4. QED
    BY <1>1, <1>9, <2>3, FramesKept DEF SmartInv
<1>11. TablesOK'
  <2>1. run[r].status # "none"
    BY <1>4, <1>5 DEF SmartInv, TablesOK
  <2>2. QED
    BY <1>1, <1>4, <1>7, <2>1 DEF SmartInv, TablesOK, IsGated
<1>12. RunsForAuthorized'
  BY <1>1, <1>4, <1>5, <1>7 DEF SmartInv, RunsForAuthorized
<1>13. OutcomeIsBacked'
  BY <1>1, <1>4, <1>7 DEF SmartInv, OutcomeIsBacked, IsGated
<1>14. QED
  BY <1>8, <1>10, <1>11, <1>12, <1>13 DEF SmartInv

\* What is stored on the run was reported by the tool or decided.
LEMMA RecordCommitKeeps ==
  ASSUME SmartInv, NEW w \in Workers, RecordCommit(w)
  PROVE  SmartInv'
<1> DEFINE r == worker[w].req
           arg == worker[w].arg
<1>1. /\ UNCHANGED request /\ UNCHANGED overdue /\ UNCHANGED ranFor /\ UNCHANGED tools
      /\ UNCHANGED reported /\ UNCHANGED decided
      /\ run' = [run EXCEPT ![r].status = arg]
  BY DEF RecordCommit, history
<1>2. r \in Requests /\ FrameOK(worker[w]) /\ worker[w].at = "store"
  BY DEF SmartInv, TypeOK, Frames, RecordCommit
<1>3. /\ IsGated(r)
      /\ arg \in reported[r] \/ (arg = "rejected" /\ "rejected" \in decided[r])
  BY <1>2 DEF FrameOK
<1>4. arg \in Results \cup {"rejected"}
  BY <1>2, <1>3 DEF SmartInv, TypeOK
<1>5. arg \in RunStatuses /\ arg \in Answers /\ arg # "none"
  BY <1>4 DEF RunStatuses, Results, Answers
<1>6. /\ worker' = [worker EXCEPT ![w] = Idle] /\ Idle \in Frames
      /\ returned' \in [Workers -> Answers]
  BY <1>5, Returns DEF RecordCommit
<1>7. /\ \A q \in Requests : q # r => run'[q] = run[q]
      /\ run'[r].status = arg /\ run'[r].actor = run[r].actor /\ run'[r].admin = run[r].admin
  BY <1>1, <1>2 DEF SmartInv, TypeOK
<1>8. TypeOK'
  <2>1. run' \in [Requests -> [status: RunStatuses, actor: People \cup {Nobody}, admin: BOOLEAN]]
    BY <1>1, <1>2, <1>5, ZenonT(40) DEF SmartInv, TypeOK
  <2>2. QED
    BY <1>1, <1>6, <2>1 DEF SmartInv, TypeOK
<1>9. Grows
  BY <1>1, <1>2, <1>7 DEF Grows, IsGated
<1>10. \A v \in Workers : FrameOK(worker[v])'
  <2>1. FrameOK(worker[w])'
    BY <1>6, FrameIdle DEF SmartInv, TypeOK
  <2>2. QED
    BY <1>6, <1>9, <2>1, FramesKept DEF SmartInv
<1>11. TablesOK'
  BY <1>1, <1>2, <1>5, <1>7 DEF SmartInv, TablesOK, IsGated
<1>12. RunsForAuthorized'
  BY <1>1, <1>2, <1>7 DEF SmartInv, RunsForAuthorized
<1>13. OutcomeIsBacked'
  BY <1>1, <1>2, <1>3, <1>7 DEF SmartInv, TypeOK, OutcomeIsBacked, IsGated, Results
<1>14. QED
  BY <1>8, <1>10, <1>11, <1>12, <1>13 DEF SmartInv

-----------------------------------------------------------------------------
(***************************************************************************)
(* The theorems.                                                           *)
(***************************************************************************)

\* Nothing has happened yet.
LEMMA InitSmartInv == Init => SmartInv
<1>1. SUFFICES ASSUME Init PROVE SmartInv
  OBVIOUS
<1>2. TypeOK
  <2>1. [status |-> "absent", approver |-> Nobody]
          \in [status: Statuses, approver: People \cup {System, Cancellation, Nobody}]
    BY DEF Statuses
  <2>2. [status |-> "none", actor |-> Nobody, admin |-> FALSE]
          \in [status: RunStatuses, actor: People \cup {Nobody}, admin: BOOLEAN]
    BY DEF RunStatuses
  <2>3. "none" \in Answers
    BY DEF Answers, RunStatuses
  <2>4. QED
    BY <1>1, <2>1, <2>2, <2>3, IdleType DEF Init, TypeOK
<1>3. TablesOK
  BY <1>1 DEF Init, TablesOK, IsGated
<1>4. \A w \in Workers : FrameOK(worker[w])
  BY <1>1, IdleType DEF Init, FrameOK
<1>5. RunsForAuthorized /\ OutcomeIsBacked
  BY <1>1 DEF Init, RunsForAuthorized, OutcomeIsBacked, IsGated
<1>6. QED
  BY <1>2, <1>3, <1>4, <1>5 DEF SmartInv

\* A call in somebody's name carries his role.
LEMMA StartKeeps ==
  ASSUME SmartInv, NEW w \in Workers, Start(w)
  PROVE  SmartInv'
<1>1. PICK r \in Requests :
        \/ ReadOverdue(w, r)
        \/ \E p \in People : \/ Invoke(w, r, p) \/ Decide(w, r, p)
                             \/ CompleteApproval(w, r, p, p \in Admins)
                             \/ CompleteForSession(w, r, p)
  BY DEF Start
<1>2. CASE ReadOverdue(w, r)
  BY <1>2, ReadOverdueKeeps
<1>3. CASE \E p \in People : Invoke(w, r, p)
  <2>1. AdminTools \subseteq BOOLEAN
    BY PeopleAssumption
  <2>2. QED
    BY <1>3, <2>1, InvokeGatedKeeps, InvokeDirectKeeps DEF Invoke
<1>4. CASE \E p \in People : Decide(w, r, p)
  <2>1. PICK p \in People, decision \in Decisions : UpdateApproval(w, r, decision, p, p \in Admins)
    BY <1>4 DEF Decide
  <2> DEFINE admin == p \in Admins
  <2>2. admin \in BOOLEAN /\ (admin => p \in Admins) /\ p \in People \cup {Cancellation}
    OBVIOUS
  <2>3. UpdateApproval(w, r, decision, p, admin)
    BY <2>1
  <2> HIDE DEF admin
  <2>4. QED
    BY <2>2, <2>3, UpdateApprovalKeeps
<1>5. CASE \E p \in People : CompleteApproval(w, r, p, p \in Admins)
  <2>1. PICK p \in People : CompleteApproval(w, r, p, p \in Admins)
    BY <1>5
  <2> DEFINE admin == p \in Admins
  <2>2. admin \in BOOLEAN /\ (admin => p \in Admins)
    OBVIOUS
  <2>3. CompleteApproval(w, r, p, admin)
    BY <2>1
  <2> HIDE DEF admin
  <2>4. QED
    BY <2>2, <2>3, CompleteApprovalKeeps
<1>6. CASE \E p \in People : CompleteForSession(w, r, p)
  <2>1. PICK q \in People : CompleteForSession(w, r, q)
    BY <1>6
  <2> DEFINE admin == q \in Admins
             p == request[r].approver
  <2>2. admin \in BOOLEAN
    OBVIOUS
  <2>3. CompleteApproval(w, r, p, admin) /\ request[r].status = "approved"
    BY <2>1 DEF CompleteForSession
  <2>4. p \in People /\ (run[r].admin => p \in Admins)
    BY <2>3 DEF SmartInv, TablesOK
  <2> HIDE DEF admin, p
  <2>5. QED
    BY <2>2, <2>3, <2>4, CompleteApprovalKeeps
<1>7. QED
  BY <1>1, <1>2, <1>3, <1>4, <1>5, <1>6

\* A cancellation decides in the name of the system, and only to reject.
LEMMA CancelDecisionKeeps ==
  ASSUME SmartInv, NEW w \in Workers, NEW r \in Requests, NEW p \in People,
         CancelDecision(w, r, p)
  PROVE  SmartInv'
<1> DEFINE admin == p \in Admins
           rejected == "rejected"
<1>1. /\ admin \in BOOLEAN /\ rejected \in Decisions /\ rejected # "approved"
      /\ Cancellation \in People \cup {Cancellation} /\ Cancellation \notin People
  BY SystemAssumption DEF Decisions
<1>2. UpdateApproval(w, r, rejected, Cancellation, admin)
  BY DEF CancelDecision
<1> HIDE DEF admin, rejected
<1>3. QED
  BY <1>1, <1>2, UpdateApprovalKeeps

\* A stuttering step.
LEMMA StutterKeeps == SmartInv /\ UNCHANGED vars => SmartInv'
<1>1. SUFFICES ASSUME SmartInv, UNCHANGED vars PROVE SmartInv'
  OBVIOUS
<1>2. QED
  BY <1>1 DEF vars, SmartInv, TypeOK, TablesOK, FrameOK, RunsForAuthorized, OutcomeIsBacked,
     IsGated, HasRole

\* Every step of every interleaving keeps the invariant.
LEMMA NextKeeps == SmartInv /\ [Next]_vars => SmartInv'
<1>1. SUFFICES ASSUME SmartInv, [Next]_vars PROVE SmartInv'
  OBVIOUS
<1>2. CASE \E w \in Workers : Step(w)
  BY <1>1, <1>2, ExpireKeeps, DecideCommitKeeps, GivingUpKeeps, CompleteReadKeeps, ToolKeeps,
     RecordSelectKeeps, RecordCommitKeeps DEF Step
<1>3. CASE \E w \in Workers : Start(w)
  BY <1>1, <1>3, StartKeeps
<1>4. CASE \E w \in Workers : Crash(w)
  BY <1>1, <1>4, GivingUpKeeps
<1>5. CASE \E w \in Workers, r \in Requests, p \in People : CancelDecision(w, r, p)
  BY <1>1, <1>5, CancelDecisionKeeps
<1>6. CASE \E r \in Requests : Deadline(r)
  BY <1>1, <1>6, DeadlineKeeps
<1>7. CASE UNCHANGED vars
  BY <1>1, <1>7, StutterKeeps
<1>8. QED
  BY <1>1, <1>2, <1>3, <1>4, <1>5, <1>6, <1>7 DEF Next

\* For any number of workers, requests and people, and wherever workers die,
\* the facts a call carries from its reads to its writes stay true.
THEOREM SmartActionInvariant == Spec => []SmartInv
<1>1. QED
  BY InitSmartInv, NextKeeps, PTL DEF Spec

\* For any number of workers no tool runs without a stored approval, for its
\* own requester, or for somebody without the role it demands.
THEOREM ToolsRunForAuthorized == Spec => []RunsForAuthorized
<1>1. SmartInv => RunsForAuthorized
  BY DEF SmartInv
<1>2. QED
  BY <1>1, SmartActionInvariant, PTL

\* For any number of workers the outcome on a gated run is one its tool
\* reported, or a rejection that was decided or due.
THEOREM OutcomesAreBacked == Spec => []OutcomeIsBacked
<1>1. SmartInv => OutcomeIsBacked
  BY DEF SmartInv
<1>2. QED
  BY <1>1, SmartActionInvariant, PTL

-----------------------------------------------------------------------------
(***************************************************************************)
(* Calls that do not overlap.  Then the rows a call read are still there   *)
(* when it writes, and the decision and the outcome of a request agree.    *)
(***************************************************************************)

OneAtATime == \A v, w \in Workers : v = w

\* A request that waits has a run that waits.
WaitsTogether ==
  \A r \in Requests : request[r].status = "pending" => run[r].status = "pending_approval"

\* What the call under way read and nobody has changed since.
StillTrue(frame) ==
  LET r == frame.req
  IN  /\ frame.at \in {"expire", "decide"} => request[r].status = "pending"
      /\ frame.at = "tool" => request[r].status = "approved"
      /\ frame.at \in {"tool", "store"} => run[r].status = "pending_approval"
      /\ frame.at \in {"tool", "record", "store"} => frame.by # run[r].actor
      /\ frame.at \in {"record", "store"} =>
           IF frame.arg \in Results THEN request[r].status = "approved"
                                    ELSE frame.arg = "rejected" /\ request[r].status = "rejected"
      /\ frame.at = "store" => request[r].approver = frame.by

\* The inductive invariant of calls that do not overlap.
SerialInv ==
  /\ SmartInv
  /\ WaitsTogether
  /\ AgreesWithDecision
  /\ \A w \in Workers : StillTrue(worker[w])

\* The step that OutcomeIsFinal allows.
KeepsOutcomes ==
  \A r \in Requests :
    run[r].status \notin {"none", "pending_approval"} =>
      run'[r].status = run[r].status /\ tools'[r] = tools[r]

\* A step that leaves the tables alone and whose worker still knows what it read.
LEMMA SerialQuiet ==
  ASSUME SerialInv, OneAtATime, UNCHANGED <<tables, tools>>, NEW w \in Workers, NEW frame,
         worker' = [worker EXCEPT ![w] = frame], StillTrue(frame)
  PROVE  /\ WaitsTogether' /\ AgreesWithDecision'
         /\ \A v \in Workers : StillTrue(worker[v])'
         /\ KeepsOutcomes
<1>1. request' = request /\ run' = run /\ tools' = tools
  BY DEF tables
<1>2. WaitsTogether' /\ AgreesWithDecision' /\ KeepsOutcomes
  BY <1>1 DEF SerialInv, WaitsTogether, AgreesWithDecision, IsGated, KeepsOutcomes
<1>3. worker'[w] = frame
  BY DEF SerialInv, SmartInv, TypeOK
<1>4. StillTrue(worker[w])'
  BY <1>1, <1>3 DEF StillTrue
<1>5. QED
  BY <1>2, <1>4 DEF OneAtATime

\* A call that returns relies on nothing any more.
LEMMA SerialReturn ==
  ASSUME SerialInv, OneAtATime, UNCHANGED <<tables, tools>>, NEW w \in Workers, NEW answer,
         Return(w, answer)
  PROVE  /\ WaitsTogether' /\ AgreesWithDecision'
         /\ \A v \in Workers : StillTrue(worker[v])'
         /\ KeepsOutcomes
<1>1. StillTrue(Idle)
  BY IdleType DEF StillTrue
<1>2. QED
  BY <1>1, SerialQuiet DEF Return, Goto

\* A call that starts, decides, reads or gives up.
LEMMA SerialReads ==
  ASSUME SerialInv, OneAtATime, NEW w \in Workers,
         \/ \E r \in Requests : ReadOverdue(w, r)
         \/ \E r \in Requests : \E decision, p, admin : UpdateApproval(w, r, decision, p, admin)
         \/ \E r \in Requests : \E p, admin : CompleteApproval(w, r, p, admin)
         \/ DecideRollback(w) \/ Crash(w) \/ RecordSelect(w)
  PROVE  /\ WaitsTogether' /\ AgreesWithDecision'
         /\ \A v \in Workers : StillTrue(worker[v])'
         /\ KeepsOutcomes
<1>1. CASE \E r \in Requests : ReadOverdue(w, r)
  <2>1. PICK r \in Requests : ReadOverdue(w, r)
    BY <1>1
  <2> DEFINE f == Frame("expire", r, Nobody, FALSE, "none", FALSE)
  <2>2. f.at = "expire" /\ f.req = r
    BY DEF Frame
  <2>3. StillTrue(f)
    BY <2>1, <2>2 DEF StillTrue, ReadOverdue, Overdue
  <2>4. worker' = [worker EXCEPT ![w] = f] /\ UNCHANGED <<tables, tools>>
    BY <2>1 DEF ReadOverdue, Goto, history
  <2>5. QED
    BY <2>3, <2>4, SerialQuiet
<1>2. CASE \E r \in Requests : \E decision, p, admin : UpdateApproval(w, r, decision, p, admin)
  <2>0. PICK r \in Requests : \E decision, p, admin : UpdateApproval(w, r, decision, p, admin)
    BY <1>2
  <2>1. PICK decision, p, admin : UpdateApproval(w, r, decision, p, admin)
    BY <2>0
  <2>2. UNCHANGED <<tables, tools>>
    BY <2>1 DEF UpdateApproval, history
  <2>3. CASE MayDecide(r, decision, admin)
    <3> DEFINE f == Frame("decide", r, p, admin, decision, Overdue(r))
    <3>1. f.at = "decide" /\ f.req = r
      BY DEF Frame
    <3>2. StillTrue(f)
      BY <2>3, <3>1 DEF StillTrue, MayDecide
    <3>3. worker' = [worker EXCEPT ![w] = f]
      BY <2>1, <2>3 DEF UpdateApproval, Goto
    <3>4. QED
      BY <2>2, <3>2, <3>3, SerialQuiet
  <2>4. CASE ~MayDecide(r, decision, admin)
    BY <2>1, <2>2, <2>4, SerialReturn DEF UpdateApproval
  <2>5. QED
    BY <2>3, <2>4
<1>3. CASE \E r \in Requests : \E p, admin : CompleteApproval(w, r, p, admin)
  <2>0. PICK r \in Requests : \E p, admin : CompleteApproval(w, r, p, admin)
    BY <1>3
  <2>1. PICK p, admin : CompleteApproval(w, r, p, admin)
    BY <2>0
  <2> DEFINE f == Frame("complete", r, p, admin, "none", FALSE)
  <2>2. f.at = "complete"
    BY DEF Frame
  <2>3. StillTrue(f)
    BY <2>2 DEF StillTrue
  <2>4. worker' = [worker EXCEPT ![w] = f] /\ UNCHANGED <<tables, tools>>
    BY <2>1 DEF CompleteApproval, Goto, history
  <2>5. QED
    BY <2>3, <2>4, SerialQuiet
<1>4. CASE DecideRollback(w) \/ Crash(w)
  <2>1. Return(w, "error") /\ UNCHANGED <<tables, tools>>
    BY <1>4 DEF DecideRollback, Crash, history
  <2>2. QED
    BY <2>1, SerialReturn
<1>5. CASE RecordSelect(w)
  <2>1. UNCHANGED <<tables, tools>>
    BY <1>5 DEF RecordSelect, history
  <2>2. CASE MayRecord(worker[w])
    <3> DEFINE f == Advance(worker[w], "store", worker[w].arg, FALSE)
    <3>1. f.at = "store" /\ f.req = worker[w].req /\ f.by = worker[w].by /\ f.arg = worker[w].arg
      BY DEF Advance, Frame
    <3>2. StillTrue(worker[w]) /\ worker[w].at = "record"
      BY <1>5 DEF SerialInv, RecordSelect
    <3>3. StillTrue(f)
      BY <2>2, <3>1, <3>2 DEF StillTrue, MayRecord
    <3>4. worker' = [worker EXCEPT ![w] = f]
      BY <1>5, <2>2 DEF RecordSelect, Goto
    <3>5. QED
      BY <2>1, <3>3, <3>4, SerialQuiet
  <2>3. CASE ~MayRecord(worker[w])
    BY <1>5, <2>1, <2>3, SerialReturn DEF RecordSelect
  <2>4. QED
    BY <2>2, <2>3
<1>6. QED
  BY <1>1, <1>2, <1>3, <1>4, <1>5

\* The branch of complete_approval.
LEMMA SerialCompleteRead ==
  ASSUME SerialInv, OneAtATime, NEW w \in Workers, CompleteRead(w)
  PROVE  /\ WaitsTogether' /\ AgreesWithDecision'
         /\ \A v \in Workers : StillTrue(worker[v])'
         /\ KeepsOutcomes
<1> DEFINE frame == worker[w]
           r == frame.req
<1>1. UNCHANGED <<tables, tools>>
  BY DEF CompleteRead, history
<1>2. CASE Overdue(r) /\ Goto(w, Advance(frame, "expire", "none", TRUE))
  <2> DEFINE f == Advance(frame, "expire", "none", TRUE)
  <2>1. f.at = "expire" /\ f.req = r
    BY DEF Advance, Frame
  <2>2. StillTrue(f)
    BY <1>2, <2>1 DEF StillTrue, Overdue
  <2>3. QED
    BY <1>1, <1>2, <2>2, SerialQuiet DEF Goto
<1>3. CASE \E answer : Return(w, answer)
  BY <1>1, <1>3, SerialReturn
<1>4. CASE /\ request[r].status = "rejected"
           /\ ~SelfApproval(frame)
           /\ Goto(w, Advance(frame, "record", "rejected", FALSE))
  <2> DEFINE f == Advance(frame, "record", "rejected", FALSE)
  <2>1. f.at = "record" /\ f.req = r /\ f.by = frame.by /\ f.arg = "rejected"
    BY DEF Advance, Frame
  <2>2. StillTrue(f)
    BY <1>4, <2>1 DEF StillTrue, SelfApproval, Results
  <2>3. QED
    BY <1>1, <1>4, <2>2, SerialQuiet DEF Goto
<1>5. CASE /\ request[r].status = "approved" /\ RunWaits(r)
           /\ ~SelfApproval(frame)
           /\ Goto(w, Advance(frame, "tool", "none", FALSE))
  <2> DEFINE f == Advance(frame, "tool", "none", FALSE)
  <2>1. f.at = "tool" /\ f.req = r /\ f.by = frame.by
    BY DEF Advance, Frame
  <2>2. StillTrue(f)
    BY <1>5, <2>1 DEF StillTrue, SelfApproval, RunWaits
  <2>3. QED
    BY <1>1, <1>5, <2>2, SerialQuiet DEF Goto
<1>6. QED
  BY <1>2, <1>3, <1>4, <1>5 DEF CompleteRead

\* A new invocation has neither a request nor an outcome yet.
LEMMA SerialInvoke ==
  ASSUME SerialInv, OneAtATime, NEW w \in Workers, NEW r \in Requests,
         \/ \E p, admin : InvokeGated(w, r, p, admin)
         \/ \E p : \E result \in Results : InvokeDirect(w, r, p, result)
  PROVE  /\ WaitsTogether' /\ AgreesWithDecision'
         /\ \A v \in Workers : StillTrue(worker[v])'
         /\ KeepsOutcomes
<1>1. /\ run[r].status = "none" /\ UNCHANGED tools
      /\ worker' = [worker EXCEPT ![w] = Idle]
  BY DEF InvokeGated, InvokeDirect, Return, Goto, history
<1>2. request[r].status = "absent"
  BY <1>1 DEF SerialInv, SmartInv, TablesOK, IsGated
<1>3. worker'[w].at = "idle"
  BY <1>1, IdleType DEF SerialInv, SmartInv, TypeOK
<1>4. \A v \in Workers : StillTrue(worker[v])'
  BY <1>3 DEF OneAtATime, StillTrue
<1>5. /\ \/ request'[r].status = "pending" /\ run'[r].status = "pending_approval"
         \/ request'[r].status = "absent"
      /\ \A q \in Requests \ {r} : request'[q] = request[q] /\ run'[q] = run[q]
  BY <1>2 DEF InvokeGated, InvokeDirect, SerialInv, SmartInv, TypeOK
<1>6. WaitsTogether'
  BY <1>5 DEF SerialInv, WaitsTogether
<1>7. AgreesWithDecision'
  BY <1>5 DEF SerialInv, AgreesWithDecision, IsGated, Results
<1>8. KeepsOutcomes
  BY <1>1, <1>5 DEF KeepsOutcomes
<1>9. QED
  BY <1>4, <1>6, <1>7, <1>8

\* An expiry meets the pending row it read, and the run waiting with it.
LEMMA SerialExpire ==
  ASSUME SerialInv, OneAtATime, NEW w \in Workers, Expire(w)
  PROVE  /\ WaitsTogether' /\ AgreesWithDecision'
         /\ \A v \in Workers : StillTrue(worker[v])'
         /\ KeepsOutcomes
<1> DEFINE r == worker[w].req
<1>1. r \in Requests /\ worker[w].at = "expire"
  BY DEF SerialInv, SmartInv, TypeOK, Frames, Expire
<1>2. request[r].status = "pending" /\ run[r].status = "pending_approval"
  BY <1>1 DEF SerialInv, StillTrue, WaitsTogether
<1>3. /\ request' = [request EXCEPT ![r] = [status |-> "expired", approver |-> System]]
      /\ run' = [run EXCEPT ![r] = [run[r] EXCEPT !.status = "rejected"]]
      /\ UNCHANGED tools
  BY <1>2 DEF Expire, ExpireRun, history
<1>4. /\ request'[r].status = "expired" /\ run'[r].status = "rejected"
      /\ \A q \in Requests \ {r} : request'[q] = request[q] /\ run'[q] = run[q]
  BY <1>1, <1>3 DEF SerialInv, SmartInv, TypeOK
<1>5. worker'[w].at \in {"idle", "complete"}
  <2>1. worker' = [worker EXCEPT ![w] = IF worker[w].flag
                     THEN Advance(worker[w], "complete", "none", FALSE) ELSE Idle]
    BY DEF Expire, Goto
  <2>2. Advance(worker[w], "complete", "none", FALSE).at = "complete"
    BY DEF Advance, Frame
  <2>3. worker'[w] \in {Advance(worker[w], "complete", "none", FALSE), Idle}
    BY <2>1 DEF SerialInv, SmartInv, TypeOK
  <2>4. QED
    BY <2>2, <2>3, IdleType
<1>6. \A v \in Workers : StillTrue(worker[v])'
  BY <1>5 DEF OneAtATime, StillTrue
<1>7. WaitsTogether' /\ KeepsOutcomes
  BY <1>2, <1>3, <1>4 DEF SerialInv, WaitsTogether, KeepsOutcomes
<1>8. AgreesWithDecision'
  BY <1>4 DEF SerialInv, AgreesWithDecision, IsGated, Results
<1>9. QED
  BY <1>6, <1>7, <1>8

\* A decision is stored on the pending row it read: the run still waits.
LEMMA SerialDecideCommit ==
  ASSUME SerialInv, OneAtATime, NEW w \in Workers, DecideCommit(w)
  PROVE  /\ WaitsTogether' /\ AgreesWithDecision'
         /\ \A v \in Workers : StillTrue(worker[v])'
         /\ KeepsOutcomes
<1> DEFINE r == worker[w].req
           decision == worker[w].arg
<1>1. r \in Requests /\ worker[w].at = "decide"
  BY DEF SerialInv, SmartInv, TypeOK, Frames, DecideCommit
<1>2. request[r].status = "pending" /\ run[r].status = "pending_approval"
  BY <1>1 DEF SerialInv, StillTrue, WaitsTogether
<1>3. decision \in Decisions
  BY <1>1 DEF SerialInv, SmartInv, FrameOK
<1>4. UNCHANGED <<run, tools>>
  BY DEF DecideCommit
<1>5. /\ request'[r].status = decision
      /\ \A q \in Requests \ {r} : request'[q] = request[q]
  BY <1>1 DEF DecideCommit, SerialInv, SmartInv, TypeOK
<1>6. worker'[w].at = "complete"
  BY DEF DecideCommit, Goto, Advance, Frame, SerialInv, SmartInv, TypeOK
<1>7. \A v \in Workers : StillTrue(worker[v])'
  BY <1>6 DEF OneAtATime, StillTrue
<1>8. WaitsTogether' /\ KeepsOutcomes
  BY <1>2, <1>4, <1>5 DEF SerialInv, WaitsTogether, KeepsOutcomes
<1>9. AgreesWithDecision'
  BY <1>2, <1>3, <1>4, <1>5 DEF SerialInv, AgreesWithDecision, IsGated, Results, Decisions
<1>10. QED
  BY <1>7, <1>8, <1>9

\* The tool runs while its run waits.
LEMMA SerialTool ==
  ASSUME SerialInv, OneAtATime, NEW w \in Workers, NEW result \in Results, Tool(w, result)
  PROVE  /\ WaitsTogether' /\ AgreesWithDecision'
         /\ \A v \in Workers : StillTrue(worker[v])'
         /\ KeepsOutcomes
<1> DEFINE r == worker[w].req
           f == Advance(worker[w], "record", result, FALSE)
<1>1. r \in Requests /\ worker[w].at = "tool" /\ StillTrue(worker[w])
  BY DEF SerialInv, SmartInv, TypeOK, Frames, Tool
<1>2. request' = request /\ run' = run
  BY DEF Tool, tables
<1>3. run[r].status = "pending_approval"
  BY <1>1 DEF StillTrue
<1>4. f.at = "record" /\ f.req = r /\ f.by = worker[w].by /\ f.arg = result
  BY DEF Advance, Frame
<1>5. worker'[w] = f
  BY DEF Tool, Goto, SerialInv, SmartInv, TypeOK
<1>6. StillTrue(worker[w])'
  BY <1>1, <1>2, <1>4, <1>5 DEF StillTrue
<1>7. \A q \in Requests \ {r} : tools'[q] = tools[q]
  BY DEF Tool, SerialInv, SmartInv, TypeOK
<1>8. WaitsTogether' /\ AgreesWithDecision' /\ KeepsOutcomes
  BY <1>2, <1>3, <1>7 DEF SerialInv, WaitsTogether, AgreesWithDecision, IsGated, KeepsOutcomes
<1>9. QED
  BY <1>6, <1>8 DEF OneAtATime

\* The result is stored on a run that waits, under the decision it follows.
LEMMA SerialRecordCommit ==
  ASSUME SerialInv, OneAtATime, NEW w \in Workers, RecordCommit(w)
  PROVE  /\ WaitsTogether' /\ AgreesWithDecision'
         /\ \A v \in Workers : StillTrue(worker[v])'
         /\ KeepsOutcomes
<1> DEFINE r == worker[w].req
           result == worker[w].arg
<1>1. r \in Requests /\ worker[w].at = "store" /\ StillTrue(worker[w])
  BY DEF SerialInv, SmartInv, TypeOK, Frames, RecordCommit
<1>2. request' = request /\ tools' = tools
  BY DEF RecordCommit, history
<1>3. /\ run[r].status = "pending_approval" /\ request[r].approver # run[r].actor
      /\ \/ result \in Results /\ request[r].status = "approved"
         \/ result = "rejected" /\ request[r].status = "rejected"
  BY <1>1 DEF StillTrue
<1>4. /\ run'[r].status = result /\ run'[r].actor = run[r].actor
      /\ \A q \in Requests \ {r} : run'[q] = run[q]
  BY <1>1 DEF RecordCommit, SerialInv, SmartInv, TypeOK
<1>5. request[r].status = "approved" => request[r].approver \in People
  BY <1>1 DEF SerialInv, SmartInv, TablesOK
<1>6. worker'[w].at = "idle"
  BY IdleType DEF RecordCommit, Return, Goto, SerialInv, SmartInv, TypeOK
<1>7. \A v \in Workers : StillTrue(worker[v])'
  BY <1>6 DEF OneAtATime, StillTrue
<1>8. WaitsTogether' /\ KeepsOutcomes
  BY <1>2, <1>3, <1>4 DEF SerialInv, WaitsTogether, KeepsOutcomes
<1>9. AgreesWithDecision'
  BY <1>2, <1>3, <1>4, <1>5 DEF SerialInv, AgreesWithDecision, IsGated, Results
<1>10. QED
  BY <1>7, <1>8, <1>9

\* The clock touches neither the tables nor what a call relies on.
LEMMA SerialStutter ==
  ASSUME SerialInv, UNCHANGED <<tables, worker, tools>>
  PROVE  /\ WaitsTogether' /\ AgreesWithDecision'
         /\ \A v \in Workers : StillTrue(worker[v])'
         /\ KeepsOutcomes
BY DEF SerialInv, tables, WaitsTogether, AgreesWithDecision, IsGated, StillTrue, KeepsOutcomes

\* Every step of calls that do not overlap.
LEMMA SerialNext ==
  ASSUME SerialInv, OneAtATime, [Next]_vars
  PROVE  SerialInv' /\ KeepsOutcomes
<1>1. SmartInv'
  BY NextKeeps DEF SerialInv
<1> DEFINE Goal == /\ WaitsTogether' /\ AgreesWithDecision'
                   /\ \A v \in Workers : StillTrue(worker[v])'
                   /\ KeepsOutcomes
<1>2. CASE \E w \in Workers : Step(w)
  <2>1. Goal
    BY <1>2, SerialReads, SerialCompleteRead, SerialExpire, SerialDecideCommit, SerialTool,
       SerialRecordCommit DEF Step
  <2>2. QED
    BY <1>1, <2>1 DEF SerialInv
<1>3. CASE \E w \in Workers : Start(w)
  <2>1. PICK w \in Workers : Start(w)
    BY <1>3
  <2>2. CASE \E r \in Requests, p \in People : Invoke(w, r, p)
    <3>1. Goal
      BY <2>2, SerialInvoke DEF Invoke
    <3>2. QED
      BY <1>1, <3>1 DEF SerialInv
  <2>3. CASE \/ \E r \in Requests : ReadOverdue(w, r)
             \/ \E r \in Requests : \E decision, p, admin : UpdateApproval(w, r, decision, p, admin)
             \/ \E r \in Requests : \E p, admin : CompleteApproval(w, r, p, admin)
    <3>1. Goal
      BY <2>3, SerialReads
    <3>2. QED
      BY <1>1, <3>1 DEF SerialInv
  <2>4. QED
    BY <2>1, <2>2, <2>3 DEF Start, Decide, CompleteForSession
<1>4. CASE \/ \E w \in Workers : Crash(w)
           \/ \E w \in Workers, r \in Requests, p \in People : CancelDecision(w, r, p)
  <2>1. Goal
    BY <1>4, SerialReads DEF CancelDecision
  <2>2. QED
    BY <1>1, <2>1 DEF SerialInv
<1>5. CASE UNCHANGED vars \/ \E r \in Requests : Deadline(r)
  <2>1. UNCHANGED <<tables, worker, tools>>
    BY <1>5 DEF Deadline, vars, tables, history
  <2>2. Goal
    BY <2>1, SerialStutter
  <2>3. QED
    BY <1>1, <2>2 DEF SerialInv
<1>6. QED
  BY <1>2, <1>3, <1>4, <1>5 DEF Next

\* Nothing has been decided yet.
LEMMA InitSerialInv == Init => SerialInv
<1>1. SUFFICES ASSUME Init PROVE SerialInv
  OBVIOUS
<1>2. WaitsTogether /\ AgreesWithDecision
  BY <1>1 DEF Init, WaitsTogether, AgreesWithDecision, IsGated
<1>3. \A w \in Workers : StillTrue(worker[w])
  BY <1>1, IdleType DEF Init, StillTrue
<1>4. QED
  BY <1>1, <1>2, <1>3, InitSmartInv DEF SerialInv

\* If calls do not overlap, the outcome of a run agrees with the decision on
\* its request, for any sets of requests and people and wherever workers die.
THEOREM OutcomesAgree ==
  ASSUME OneAtATime
  PROVE  Spec => []AgreesWithDecision
<1>1. SerialInv /\ [Next]_vars => SerialInv'
  BY SerialNext
<1>2. SerialInv => AgreesWithDecision
  BY DEF SerialInv
<1>3. QED
  BY <1>1, <1>2, InitSerialInv, PTL DEF Spec

\* If calls do not overlap, an outcome is never replaced and its tool never
\* called again, whatever is decided, completed or expires later.
THEOREM OutcomesAreFinal ==
  ASSUME OneAtATime
  PROVE  Spec => OutcomeIsFinal
<1>1. SerialInv /\ [Next]_vars => SerialInv'
  BY SerialNext
<1>2. SerialInv /\ [Next]_vars => [KeepsOutcomes]_vars
  BY SerialNext
<1>3. QED
  BY <1>1, <1>2, InitSerialInv, PTL DEF Spec, OutcomeIsFinal, KeepsOutcomes
=============================================================================
