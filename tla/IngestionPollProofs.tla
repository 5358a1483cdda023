------------------------ MODULE IngestionPollProofs -------------------------
(***************************************************************************)
(* Proofs about IngestionPoll, for any number of workers and pages: the    *)
(* invariant PollInv, the bound on what a poll writes after it lost its    *)
(* lease, and the three action properties of the lease.                    *)
(***************************************************************************)
EXTENDS IngestionPoll, TLAPS

\* A worker at rest, and one about to claim, have the type of a poll.
LEMMA PollTyped ==
  ASSUME NEW at \in {"rest", "claim", "sweep", "fetch", "check", "write", "finish"},
         NEW prior \in 0..MaxClock
  PROVE  Poll(at, prior) \in PollType
  BY PollAssumption DEF Poll, PollType, Terminals

\* A worker at rest has the type of a worker.
LEMMA RestTyped == Rest \in PollType /\ Rest.at = "rest"
  BY PollTyped, PollAssumption DEF Rest, Poll

\* Faults are counted up to their bound.
LEMMA FaultTyped ==
  ASSUME faults \in 0..MaxFaults, Fault
  PROVE  faults' \in 0..MaxFaults
  BY PollAssumption DEF Fault

\* The invariant holds of the empty row and the workers at rest.
LEMMA InitPollInv == Init => PollInv
  <1> SUFFICES ASSUME Init PROVE PollInv
    OBVIOUS
  <1>1. TypeOK
    <2>1. cursor \in CursorType
      BY PollAssumption DEF Init, CursorType, Terminals
    <2>2. 0 \in 0..MaxClock /\ 0 \in 0..MaxFaults
      BY PollAssumption
    <2>3. /\ poll \in [Workers -> PollType] /\ stale \in [Workers -> Nat]
          /\ seen \in [Workers -> SUBSET {"trouble", "empty"}]
      BY RestTyped DEF Init
    <2> QED
      BY <2>1, <2>2, <2>3 DEF Init, TypeOK
  <1>2. TokenOK
    BY DEF Init, TokenOK
  <1>3. StaleOK /\ CleanOK
    BY RestTyped DEF Init, StaleOK, CleanOK
  <1> QED
    BY <1>1, <1>2, <1>3 DEF PollInv

\* A step that only moves one poll on, and leaves the row and what was
\* written alone, keeps the invariant if the poll it moves to is in order.
LEMMA LocalStep ==
  ASSUME PollInv, NEW w \in Workers, NEW next \in PollType, Goto(w, next),
         UNCHANGED <<cursor, stale>>,
         NEW what \in SUBSET {"trouble", "empty"}, Sees(w, what),
         clock' \in 0..MaxClock, faults' \in 0..MaxFaults, overran' \in BOOLEAN,
         next.at # "claim",
         next.at \in {"sweep", "fetch", "check", "write"} =>
           "empty" \notin seen[w] \cup what /\ ("trouble" \in seen[w] \cup what => next.tainted),
         next.at = "finish" /\ next.result = "idle" => seen[w] \cup what = {"empty"},
         stale[w] = 1 => next.at = "rest" \/ (next.at \notin {"claim", "write"} /\ ~Owns(w))
  PROVE  PollInv'
  <1> USE DEF PollInv, Goto, Sees
  <1>1. TypeOK'
    BY DEF TypeOK
  <1>2. TokenOK'
    BY DEF TokenOK
  <1>3. \A v \in Workers : poll'[v] = IF v = w THEN next ELSE poll[v]
    BY DEF TypeOK
  <1>a. \A v \in Workers : seen'[v] = IF v = w THEN seen[w] \cup what ELSE seen[v]
    BY DEF TypeOK
  <1>4. StaleOK'
    BY <1>3 DEF StaleOK, Owns
  <1>5. CleanOK'
    BY <1>3, <1>a DEF CleanOK
  <1> QED
    BY <1>1, <1>2, <1>4, <1>5

\* A step that fetches nothing adds nothing.
LEMMA SeesNothing ==
  ASSUME TypeOK, NEW w \in Workers, UNCHANGED seen
  PROVE  Sees(w, {})
  BY DEF TypeOK, Sees

\* A sweep that ends, with a status that what it saw justifies.
LEMMA EndStep ==
  ASSUME PollInv, NEW w \in Workers, NEW result \in Terminals, End(w, result),
         poll[w].at \notin {"rest", "claim", "write"} \/ stale[w] = 0,
         NEW what \in SUBSET {"trouble", "empty"}, Sees(w, what),
         result = "idle" => seen[w] \cup what = {"empty"}, faults' \in 0..MaxFaults,
         UNCHANGED <<cursor, clock, overran, stale>>
  PROVE  PollInv'
  <1> DEFINE next == [poll[w] EXCEPT !.at = "finish", !.result = result]
  <1>1. poll[w] \in PollType
    BY DEF PollInv, TypeOK
  <1>2. next \in PollType /\ next.at = "finish" /\ next.result = result
    BY <1>1 DEF PollType
  <1>3. stale[w] = 1 => ~Owns(w)
    BY DEF PollInv, StaleOK
  <1>4. Goto(w, next)
    BY DEF End
  <1>5. clock' \in 0..MaxClock /\ overran' \in BOOLEAN
    BY DEF PollInv, TypeOK
  <1> HIDE DEF next
  <1> QED
    BY <1>2, <1>3, <1>4, <1>5, LocalStep

-----------------------------------------------------------------------------
\* Begin: the poll starts with a clean slate.
LEMMA BeginKeeps ==
  ASSUME PollInv, NEW w \in Workers, Begin(w) \/ BeginBlind(w)
  PROVE  PollInv'
  <1> USE DEF PollInv, ReadCursor, Goto
  <1>0. PICK prior \in 0..MaxClock : ReadCursor(w, prior)
    BY PollAssumption DEF Begin, BeginBlind, TypeOK, CursorType
  <1>1. Poll("claim", prior) \in PollType /\ Poll("claim", prior).at = "claim" /\ ~Poll("claim", prior).tainted
    BY PollTyped DEF Poll
  <1>a. faults' \in 0..MaxFaults
    BY FaultTyped DEF Begin, BeginBlind, TypeOK
  <1>2. TypeOK'
    BY <1>0, <1>1, <1>a DEF TypeOK
  <1>3. TokenOK'
    BY <1>0 DEF TokenOK
  <1>4. \A v \in Workers : v # w => poll'[v] = poll[v] /\ stale'[v] = stale[v] /\ seen'[v] = seen[v]
    BY <1>0 DEF TypeOK
  <1>5. poll'[w].at = "claim" /\ ~poll'[w].tainted /\ stale'[w] = 0 /\ seen'[w] = {}
    BY <1>0, <1>1 DEF TypeOK
  <1>6. StaleOK' /\ CleanOK'
    BY <1>0, <1>4, <1>5 DEF StaleOK, CleanOK, Owns
  <1> QED
    BY <1>2, <1>3, <1>6

\* ClaimLease: a poll that loses its lease to another one has it no more.
LEMMA ClaimKeeps ==
  ASSUME PollInv, NEW w \in Workers, ClaimLease(w)
  PROVE  PollInv'
  <1> USE DEF PollInv, ClaimLease
  <1>0. clock' \in 0..MaxClock /\ faults' \in 0..MaxFaults /\ overran' \in BOOLEAN
    BY DEF TypeOK
  <1>1. CASE LeaseActive
    <2>1. Goto(w, Rest) /\ UNCHANGED <<cursor, stale>> /\ Sees(w, {})
      BY <1>1, SeesNothing
    <2> QED
      BY <1>0, <2>1, RestTyped, LocalStep
  <1>2. CASE ~LeaseActive
    <2>1. cursor' = [cursor EXCEPT !.status = "syncing", !.token = w, !.expired = FALSE]
      BY <1>2
    <2>2. cursor' \in CursorType /\ cursor'.status = "syncing" /\ cursor'.token = w
      BY <2>1 DEF TypeOK, CursorType
    <2>3. poll' = [poll EXCEPT ![w] = [poll[w] EXCEPT !.at = "sweep"]]
      BY <1>2 DEF Goto
    <2>4. poll' \in [Workers -> PollType] /\ poll'[w].at = "sweep" /\ poll'[w].tainted = poll[w].tainted
      BY <2>3 DEF TypeOK, PollType
    <2>5. \A v \in Workers : v # w => poll'[v] = poll[v]
      BY <2>3 DEF TypeOK
    <2>6. TypeOK' /\ TokenOK'
      BY <2>2, <2>4, PollAssumption DEF TypeOK, TokenOK
    <2>7. stale[w] = 0
      BY DEF StaleOK
    <2>8. StaleOK' /\ CleanOK'
      BY <2>2, <2>4, <2>5, <2>7 DEF StaleOK, CleanOK, Owns
    <2> QED
      BY <2>6, <2>8
  <1> QED
    BY <1>1, <1>2

\* The steps of a sweep before it writes a page.
LEMMA SweepKeeps ==
  ASSUME PollInv, NEW w \in Workers,
         \/ SweepFails(w) \/ SweepStarts(w) \/ SweepExhausted(w)
         \/ \E result \in {"degraded", "failed"} : FetchFails(w, result)
         \/ \E transient \in BOOLEAN : FetchEmpty(w, transient)
         \/ \E transient, dropped, kept \in BOOLEAN : FetchRows(w, transient, dropped, kept)
         \/ CheckLease(w) \/ CheckFails(w) \/ WriteFails(w)
  PROVE  PollInv'
  <1>0. /\ clock \in 0..MaxClock /\ faults \in 0..MaxFaults /\ overran \in BOOLEAN
        /\ poll[w] \in PollType
    BY DEF PollInv, TypeOK
  <1>a. stale[w] \in {0, 1} /\ (stale[w] = 1 => poll[w].at = "rest" \/ (poll[w].at \notin {"claim", "write"} /\ ~Owns(w)))
    BY DEF PollInv, StaleOK
  <1>b. UNCHANGED seen => Sees(w, {})
    BY SeesNothing DEF PollInv
  <1>c. poll[w].at \in {"sweep", "fetch", "check", "write"} =>
          "empty" \notin seen[w] /\ ("trouble" \in seen[w] => poll[w].tainted)
    BY DEF PollInv, CleanOK
  <1>1. CASE SweepFails(w)
    BY <1>0, <1>b, <1>1, EndStep DEF SweepFails, Terminals
  <1>2. CASE SweepStarts(w)
    <2>1. PICK next : next = [poll[w] EXCEPT !.at = "fetch"]
      OBVIOUS
    <2>2. next \in PollType /\ next.at = "fetch" /\ next.tainted = poll[w].tainted
      BY <1>0, <2>1 DEF PollType
    <2> QED
      BY <1>0, <1>a, <1>b, <1>c, <1>2, <2>1, <2>2, LocalStep DEF SweepStarts
  <1>3. CASE SweepExhausted(w)
    BY <1>0, <1>b, <1>3, EndStep DEF SweepExhausted, Terminals
  <1>4. ASSUME NEW result \in {"degraded", "failed"}, FetchFails(w, result)
        PROVE  PollInv'
    BY <1>0, <1>b, <1>4, EndStep DEF FetchFails, Terminals
  <1>5. ASSUME NEW transient \in BOOLEAN, FetchEmpty(w, transient)
        PROVE  PollInv'
    <2>1. PICK result : result = IF poll[w].tainted \/ transient THEN "degraded" ELSE "idle"
      OBVIOUS
    <2>2. PICK what \in SUBSET {"trouble", "empty"} : what = {"empty"} \cup Trouble(transient)
      BY DEF Trouble
    <2>3. result \in Terminals /\ (result = "idle" => ~poll[w].tainted /\ what = {"empty"})
      BY <2>1, <2>2 DEF Terminals, Trouble
    <2>4. result = "idle" => seen[w] \cup what = {"empty"}
      <3>1. seen[w] \in SUBSET {"trouble", "empty"}
        BY DEF PollInv, TypeOK
      <3>2. poll[w].at = "fetch"
        BY <1>5 DEF FetchEmpty
      <3> QED
        BY <1>c, <2>3, <3>1, <3>2
    <2>5. /\ End(w, result) /\ Sees(w, what) /\ poll[w].at = "fetch"
          /\ UNCHANGED <<cursor, clock, faults, overran, stale>>
      BY <1>5, <2>1, <2>2 DEF FetchEmpty
    <2> QED
      BY <1>0, <2>3, <2>4, <2>5, EndStep
  <1>6. ASSUME NEW transient \in BOOLEAN, NEW dropped \in BOOLEAN, NEW kept \in BOOLEAN,
               FetchRows(w, transient, dropped, kept)
        PROVE  PollInv'
    <2>1. PICK next : next = [poll[w] EXCEPT !.at = IF kept THEN "check" ELSE "fetch",
                                             !.page = poll[w].page + 1,
                                             !.tainted = poll[w].tainted \/ transient \/ dropped]
      OBVIOUS
    <2>2. poll[w].page + 1 \in 0..MaxPages
      <3>1. poll[w].page \in 0..MaxPages
        BY <1>0 DEF PollType
      <3>2. poll[w].page < MaxPages
        BY <1>6 DEF FetchRows
      <3> QED
        BY <3>1, <3>2, PollAssumption
    <2>3. /\ next \in PollType /\ next.at \in {"check", "fetch"}
          /\ next.tainted = (poll[w].tainted \/ transient \/ dropped)
      BY <1>0, <2>1, <2>2 DEF PollType
    <2>4. PICK what \in SUBSET {"trouble", "empty"} : what = Trouble(transient \/ dropped)
      BY DEF Trouble
    <2>5. "empty" \notin what /\ ("trouble" \in what => transient \/ dropped)
      BY <2>4 DEF Trouble
    <2>6. /\ Goto(w, next) /\ Sees(w, what) /\ poll[w].at = "fetch"
          /\ UNCHANGED <<cursor, clock, faults, overran, stale>>
      BY <1>6, <2>1, <2>4 DEF FetchRows
    <2>7. "empty" \notin seen[w] \cup what /\ ("trouble" \in seen[w] \cup what => next.tainted)
      BY <1>c, <2>3, <2>5, <2>6
    <2> QED
      BY <1>0, <1>a, <2>3, <2>6, <2>7, LocalStep
  <1>7. CASE CheckLease(w)
    <2>1. CASE HoldsLease(w)
      <3>1. PICK next : next = [poll[w] EXCEPT !.at = "write"]
        OBVIOUS
      <3>2. next \in PollType /\ next.at = "write" /\ next.tainted = poll[w].tainted
        BY <1>0, <3>1 DEF PollType
      <3>3. stale[w] = 0
        BY <1>a, <1>7, <2>1 DEF HoldsLease, CheckLease
      <3>4. /\ Goto(w, next) /\ Sees(w, {}) /\ poll[w].at = "check"
            /\ UNCHANGED <<cursor, clock, faults, overran, stale>>
        BY <1>b, <1>7, <2>1, <3>1 DEF CheckLease
      <3> QED
        BY <1>0, <1>c, <3>2, <3>3, <3>4, LocalStep
    <2>2. CASE ~HoldsLease(w)
      BY <1>0, <1>b, <1>7, <2>2, EndStep DEF CheckLease, Terminals
    <2> QED
      BY <2>1, <2>2
  <1>8. CASE WriteFails(w)
    BY <1>0, <1>a, <1>b, <1>8, EndStep DEF WriteFails, Terminals
  <1>9. CASE CheckFails(w)
    <2>1. faults' \in 0..MaxFaults
      BY <1>0, <1>9, FaultTyped DEF CheckFails
    <2> QED
      BY <1>b, <1>9, <2>1, EndStep DEF CheckFails, Terminals
  <1> QED
    BY <1>1, <1>2, <1>3, <1>4, <1>5, <1>6, <1>7, <1>8, <1>9

\* WritePage: a page written without the lease is the first one, since the
\* check that precedes it found the lease.
LEMMA WriteKeeps ==
  ASSUME PollInv, NEW w \in Workers, NEW seeded \in BOOLEAN, WritePage(w, seeded)
  PROVE  PollInv'
  <1>1. stale[w] = 0 /\ poll[w] \in PollType
    BY DEF PollInv, StaleOK, TypeOK, WritePage
  <1> DEFINE goesOn == [poll[w] EXCEPT !.at = "fetch"]
             ends == [poll[w] EXCEPT !.at = "finish", !.result = "failed"]
             next == IF seeded THEN goesOn ELSE ends
  <1>a. goesOn \in PollType /\ goesOn.at = "fetch" /\ goesOn.tainted = poll[w].tainted
    BY <1>1 DEF PollType
  <1>b. ends \in PollType /\ ends.at = "finish" /\ ends.result = "failed"
    BY <1>1 DEF PollType, Terminals
  <1> USE DEF PollInv, WritePage
  <1>2. poll' = [poll EXCEPT ![w] = next]
    BY DEF Goto
  <1>c. next = goesOn \/ next = ends
    BY Zenon
  <1> HIDE DEF goesOn, ends, next
  <1>d. /\ next \in PollType
        /\ \/ next.at = "fetch" /\ next.tainted = poll[w].tainted
           \/ next.at = "finish" /\ next.result = "failed"
    BY <1>a, <1>b, <1>c
  <1>3. /\ poll' \in [Workers -> PollType]
        /\ \/ poll'[w].at = "fetch" /\ poll'[w].tainted = poll[w].tainted
           \/ poll'[w].at = "finish" /\ poll'[w].result = "failed"
    BY <1>2, <1>d DEF TypeOK
  <1>4. stale' \in [Workers -> Nat] /\ stale'[w] = IF Owns(w) THEN 0 ELSE 1
    BY <1>1 DEF TypeOK
  <1>5. \A v \in Workers : v # w => poll'[v] = poll[v] /\ stale'[v] = stale[v]
    BY <1>2 DEF TypeOK
  <1>6. TypeOK' /\ TokenOK'
    BY <1>3, <1>4 DEF TypeOK, TokenOK
  <1>7. StaleOK'
    BY <1>3, <1>4, <1>5 DEF StaleOK, Owns
  <1>8. CleanOK'
    BY <1>3, <1>5 DEF CleanOK
  <1> QED
    BY <1>6, <1>7, <1>8

\* FinishLease: whoever it takes the token from, nobody gains it.
LEMMA FinishKeeps ==
  ASSUME PollInv, NEW w \in Workers, FinishLease(w)
  PROVE  PollInv'
  <1> USE DEF PollInv
  <1>1. Tick \in 0..MaxClock
    BY PollAssumption DEF Tick, TypeOK
  <1>2. poll[w].result \in Terminals /\ poll[w].prior \in 0..MaxClock
    BY DEF TypeOK, PollType
  <1>3. poll' = [poll EXCEPT ![w] = Rest] /\ UNCHANGED <<faults, overran, stale, seen>>
    BY DEF FinishLease, Goto
  <1>4. clock' \in 0..MaxClock
    BY <1>1 DEF FinishLease, TypeOK
  <1>5. CASE ~Owns(w)
    <2>1. UNCHANGED <<cursor, stale>>
      BY <1>3, <1>5 DEF FinishLease
    <2>2. Goto(w, Rest) /\ Sees(w, {}) /\ faults' \in 0..MaxFaults /\ overran' \in BOOLEAN
      BY SeesNothing DEF FinishLease, TypeOK
    <2> QED
      BY <1>4, <2>1, <2>2, RestTyped, LocalStep
  <1>6. CASE Owns(w)
    <2>1. PICK synced \in 0..MaxClock :
            cursor' = [cursor EXCEPT !.status = poll[w].result, !.token = NoToken,
                                     !.expired = FALSE, !.synced = synced]
      BY <1>1, <1>2, <1>6 DEF FinishLease
    <2>2. cursor' \in CursorType /\ cursor'.token = NoToken /\ cursor'.status # "syncing"
      BY <1>2, <2>1 DEF TypeOK, CursorType, Terminals
    <2>3. TypeOK' /\ TokenOK'
      BY <1>3, <1>4, <2>2, RestTyped DEF TypeOK, TokenOK
    <2>4. \A v \in Workers : poll'[v] = IF v = w THEN Rest ELSE poll[v]
      BY <1>3 DEF TypeOK
    <2>5. StaleOK' /\ CleanOK'
      BY <1>3, <2>2, <2>4, RestTyped DEF StaleOK, CleanOK, Owns
    <2> QED
      BY <2>3, <2>5
  <1> QED
    BY <1>5, <1>6

\* LeaseExpires changes no owner.
LEMMA ExpiryKeeps ==
  ASSUME PollInv, LeaseExpires
  PROVE  PollInv'
  <1> USE DEF PollInv, LeaseExpires
  <1>1. /\ cursor' \in CursorType /\ cursor'.token = cursor.token
        /\ cursor'.status = cursor.status
    BY DEF TypeOK, CursorType
  <1>2. overran' \in BOOLEAN
    BY DEF TypeOK
  <1>3. TypeOK' /\ TokenOK'
    BY <1>1, <1>2 DEF TypeOK, TokenOK
  <1>4. StaleOK' /\ CleanOK'
    BY <1>1 DEF StaleOK, CleanOK, Owns
  <1> QED
    BY <1>3, <1>4

\* Crash leaves the row as it is and the worker at rest.
LEMMA CrashKeeps ==
  ASSUME PollInv, NEW w \in Workers, Crash(w)
  PROVE  PollInv'
  <1>1. faults' \in 0..MaxFaults
    BY FaultTyped DEF PollInv, TypeOK, Crash
  <1>2. clock' \in 0..MaxClock /\ overran' \in BOOLEAN
    BY DEF PollInv, TypeOK, Crash
  <1>3. Goto(w, Rest) /\ UNCHANGED <<cursor, stale>> /\ Sees(w, {})
    BY SeesNothing DEF Crash, PollInv
  <1> QED
    BY <1>1, <1>2, <1>3, RestTyped, LocalStep

\* Every step keeps the invariant.
LEMMA NextPollInv == PollInv /\ [Next]_vars => PollInv'
  <1> SUFFICES ASSUME PollInv, [Next]_vars PROVE PollInv'
    OBVIOUS
  <1>1. ASSUME NEW w \in Workers, Begin(w) \/ BeginBlind(w) PROVE PollInv'
    BY <1>1, BeginKeeps
  <1>2. ASSUME NEW w \in Workers, Step(w) PROVE PollInv'
    BY <1>2, ClaimKeeps, SweepKeeps, WriteKeeps, FinishKeeps DEF Step
  <1>3. ASSUME NEW w \in Workers, Crash(w) PROVE PollInv'
    BY <1>3, CrashKeeps
  <1>4. CASE LeaseExpires
    BY <1>4, ExpiryKeeps
  <1>5. CASE UNCHANGED vars
    BY <1>5 DEF vars, PollInv, TypeOK, TokenOK, StaleOK, CleanOK, Owns
  <1> QED
    BY <1>1, <1>2, <1>3, <1>4, <1>5 DEF Next

-----------------------------------------------------------------------------
\* The invariant holds in every reachable state, for any number of workers,
\* pages and crashes.
THEOREM PollInvariance == Spec => []PollInv
  BY InitPollInv, NextPollInv, PTL DEF Spec

\* A poll that lost its lease writes at most one page: the check before each
\* page in ingestion_poller.py is enough.
THEOREM AtMostOneStalePage == Spec => []StaleWritesBounded
  <1>1. StaleOK => StaleWritesBounded
    <2> SUFFICES ASSUME StaleOK, NEW w \in Workers PROVE stale[w] <= 1
      BY DEF StaleWritesBounded
    <2>1. stale[w] \in {0, 1}
      BY DEF StaleOK
    <2> QED
      BY <2>1
  <1> QED
    BY <1>1, PollInvariance, PTL DEF PollInv

\* The row outside the claims and finishes.
LEMMA RowSteps ==
  ASSUME PollInv, [Next]_vars
  PROVE  \/ cursor'.token = cursor.token /\ cursor'.status = cursor.status
         \/ \E w \in Workers : ClaimLease(w) /\ ~LeaseActive
         \/ \E w \in Workers : FinishLease(w) /\ Owns(w)
  <1>1. CASE LeaseExpires
    BY <1>1 DEF LeaseExpires, PollInv, TypeOK, CursorType
  <1>2. ASSUME NEW w \in Workers, Step(w), ~ClaimLease(w), ~FinishLease(w)
        PROVE  cursor' = cursor
    BY <1>2 DEF Step, SweepFails, SweepStarts, SweepExhausted, FetchFails, FetchEmpty,
                FetchRows, CheckLease, CheckFails, WritePage, WriteFails
  <1>3. ASSUME NEW w \in Workers, ClaimLease(w), LeaseActive
        PROVE  cursor' = cursor
    BY <1>3 DEF ClaimLease
  <1>4. ASSUME NEW w \in Workers, FinishLease(w), ~Owns(w)
        PROVE  cursor' = cursor
    BY <1>4 DEF FinishLease
  <1>5. ASSUME NEW w \in Workers, Begin(w) \/ BeginBlind(w) \/ Crash(w)
        PROVE  cursor' = cursor
    BY <1>5 DEF Begin, BeginBlind, ReadCursor, Crash
  <1>6. CASE UNCHANGED vars
    BY <1>6 DEF vars
  <1> QED
    BY <1>1, <1>2, <1>3, <1>4, <1>5, <1>6 DEF Next

\* claim_poll_lease takes over only a lease that has expired.
THEOREM LiveLeaseKept == Spec => LeaseRespected
  <1> DEFINE A == \A w \in Workers : (HoldsLease(w) /\ cursor'.token # w) =>
                    poll[w].at = "finish" /\ poll'[w].at = "rest"
  <1>1. PollInv /\ [Next]_vars => A
    <2> SUFFICES ASSUME PollInv, [Next]_vars, NEW w \in Workers, HoldsLease(w), cursor'.token # w
                 PROVE  poll[w].at = "finish" /\ poll'[w].at = "rest"
      OBVIOUS
    <2>1. LeaseActive /\ cursor.token = w
      BY PollAssumption DEF HoldsLease, Owns, LeaseActive
    <2>2. PICK v \in Workers : FinishLease(v) /\ Owns(v)
      BY <2>1, RowSteps
    <2>3. v = w
      BY <2>1, <2>2 DEF Owns
    <2> QED
      BY <2>2, <2>3, RestTyped DEF FinishLease, Goto, PollInv, TypeOK
  <1>2. PollInv /\ [Next]_vars => [A]_vars
    BY <1>1
  <1> QED
    BY <1>2, PollInvariance, PTL DEF Spec, LeaseRespected

\* finish_poll_lease ends only the lease of its own token: a poll that was
\* taken over cannot finish its successor's.
THEOREM FinishIsFenced == Spec => FencedFinish
  <1> DEFINE A == (cursor.status = "syncing" /\ cursor'.status # "syncing") =>
                    poll[cursor.token].at = "finish" /\ poll'[cursor.token].at = "rest"
  <1>1. PollInv /\ [Next]_vars => A
    <2> SUFFICES ASSUME PollInv, [Next]_vars, cursor.status = "syncing", cursor'.status # "syncing"
                 PROVE  poll[cursor.token].at = "finish" /\ poll'[cursor.token].at = "rest"
      OBVIOUS
    <2>1. \A v \in Workers : ClaimLease(v) /\ ~LeaseActive => cursor'.status = "syncing"
      BY DEF ClaimLease, PollInv, TypeOK, CursorType
    <2>2. PICK v \in Workers : FinishLease(v) /\ Owns(v)
      BY <2>1, RowSteps
    <2> QED
      BY <2>2, RestTyped DEF FinishLease, Goto, PollInv, TypeOK, Owns
  <1>2. PollInv /\ [Next]_vars => [A]_vars
    BY <1>1
  <1> QED
    BY <1>2, PollInvariance, PTL DEF Spec, FencedFinish

\* Degradation is sticky: the row becomes "idle" only at the end of a sweep
\* that an empty page ended, that met no dropped row and no transient failure
\* on any page, the last one included, and that wrote no page without its
\* lease.
THEOREM IdleAfterCleanSweep == Spec => IdleIsClean
  <1> DEFINE A == (cursor'.status = "idle" /\ cursor.status # "idle") =>
                    seen[cursor.token] = {"empty"} /\ stale[cursor.token] = 0
  <1>1. PollInv /\ [Next]_vars => A
    <2> SUFFICES ASSUME PollInv, [Next]_vars, cursor'.status = "idle", cursor.status # "idle"
                 PROVE  seen[cursor.token] = {"empty"} /\ stale[cursor.token] = 0
      OBVIOUS
    <2>1. \A v \in Workers : ClaimLease(v) /\ ~LeaseActive => cursor'.status = "syncing"
      BY DEF ClaimLease, PollInv, TypeOK, CursorType
    <2>2. PICK v \in Workers : FinishLease(v) /\ Owns(v)
      BY <2>1, RowSteps
    <2>3. poll[v].result = "idle" /\ poll[v].at = "finish" /\ cursor.token = v
      BY <2>2 DEF FinishLease, PollInv, TypeOK, CursorType, Owns
    <2>4. stale[v] = 0
      BY <2>2, <2>3 DEF PollInv, StaleOK
    <2> QED
      BY <2>3, <2>4 DEF PollInv, CleanOK
  <1>2. PollInv /\ [Next]_vars => [A]_vars
    BY <1>1
  <1> QED
    BY <1>2, PollInvariance, PTL DEF Spec, IdleIsClean
=============================================================================
