---------------------------- MODULE IngestionPoll ---------------------------
(***************************************************************************)
(* IngestionPoller and the poll lease in the sync_cursors row of one       *)
(* connector instance.  The scheduler's job and the sync endpoint poll,    *)
(* each in a worker thread, and any number of processes may do so.         *)
(*                                                                         *)
(* A poll reads the cursor, claims the lease with a fresh token, fetches   *)
(* pages until an empty one, re-reads the lease before it writes a page,   *)
(* and finishes with an UPDATE that its token fences.  The store's         *)
(* transactions here are BEGIN IMMEDIATE: each is one step.                *)
(*                                                                         *)
(* A worker's name stands for the token of its current poll: a poll that   *)
(* ends without releasing its lease (a crash) leaves no one with the token *)
(* behind.  cursor_value is left out: no sweep reads it.  Nothing deletes a *)
(* connector instance, so INSTANCE_MISSING does not arise.                 *)
(***************************************************************************)
EXTENDS Naturals

CONSTANTS
  Workers,     \* threads and processes that poll
  NoToken,     \* lease_token is null
  MaxPages,    \* max_pages of a sweep
  MaxClock,    \* bound on the clock, which stands still there
  MaxFaults    \* bound on the number of crashes and database errors

ASSUME PollAssumption ==
  /\ NoToken \notin Workers
  /\ MaxPages \in Nat \ {0}
  /\ MaxClock \in Nat
  /\ MaxFaults \in Nat

VARIABLES
  cursor,    \* the row: status, lease token, lease expired?, last_synced_at
  poll,      \* the poll each worker is in
  clock,     \* the time of the last clean finish
  faults,    \* number of crashes and database errors so far
  overran,   \* history: has the lease of a running poll expired?
  stale,     \* history: pages the current poll wrote after it lost the lease
  seen       \* history: what the pages of the current poll were like

vars == <<cursor, poll, clock, faults, overran, stale, seen>>

Terminals == {"idle", "degraded", "failed"}

\* synced is last_synced_at as a clock value, 0 when it is null.
CursorType == [status: {"absent", "syncing"} \cup Terminals, token: Workers \cup {NoToken},
               expired: BOOLEAN, synced: 0..MaxClock]

\* prior is previous_cursor's last_synced_at, tainted says that
\* degraded_reason is set, and result is the status of the summary.
PollType == [at: {"rest", "claim", "sweep", "fetch", "check", "write", "finish"},
             prior: 0..MaxClock, page: 0..MaxPages, tainted: BOOLEAN,
             result: Terminals]

\* A poll before its sweep, and no poll.
Poll(at, prior) ==
  [at |-> at, prior |-> prior, page |-> 0, tainted |-> FALSE, result |-> "failed"]
Rest == Poll("rest", 0)

Init ==
  /\ cursor = [status |-> "absent", token |-> NoToken, expired |-> FALSE, synced |-> 0]
  /\ poll = [w \in Workers |-> Rest]
  /\ clock = 0
  /\ faults = 0
  /\ overran = FALSE
  /\ stale = [w \in Workers |-> 0]
  /\ seen = [w \in Workers |-> {}]

-----------------------------------------------------------------------------
\* The worker's poll goes on with these locals.
Goto(w, next) == poll' = [poll EXCEPT ![w] = next]

\* The sweep returns a summary with this status.
End(w, result) == Goto(w, [poll[w] EXCEPT !.at = "finish", !.result = result])

\* Mutant: the comparison with the current time is the wrong way round.
MutLeaseInverted == cursor.status = "syncing" /\ cursor.token # NoToken /\ cursor.expired

\* Mutant: a lease does not end by itself.
MutLeaseForever == cursor.status = "syncing" /\ cursor.token # NoToken

\* _lease_is_active.
LeaseActive == cursor.status = "syncing" /\ cursor.token # NoToken /\ ~cursor.expired

\* Does the token of this worker's poll own the row?
Owns(w) == cursor.status = "syncing" /\ cursor.token = w

\* _holds_lease.
HoldsLease(w) == Owns(w) /\ ~cursor.expired

\* A worker that is neither at rest nor about to claim has a lease to finish.
Sweeping(w) == poll[w].at \notin {"rest", "claim"}

-----------------------------------------------------------------------------
\* A crash or a database error.
Fault == faults < MaxFaults /\ faults' = faults + 1

\* poll_instance starts by reading the cursor ...
ReadCursor(w, prior) ==
  /\ poll[w].at = "rest"
  /\ Goto(w, Poll("claim", prior))
  /\ stale' = [stale EXCEPT ![w] = 0]
  /\ seen' = [seen EXCEPT ![w] = {}]
  /\ UNCHANGED <<cursor, clock, overran>>

Begin(w) == ReadCursor(w, cursor.synced) /\ UNCHANGED faults

\* ... or takes a failed read for a row that is not there ...
BeginBlind(w) == ReadCursor(w, 0) /\ Fault

\* ... and then claims the lease, unless it is taken.
ClaimLease(w) ==
  /\ poll[w].at = "claim"
  /\ IF LeaseActive
       THEN Goto(w, Rest) /\ UNCHANGED cursor
       ELSE /\ cursor' = [cursor EXCEPT !.status = "syncing", !.token = w, !.expired = FALSE]
            /\ Goto(w, [poll[w] EXCEPT !.at = "sweep"])
  /\ UNCHANGED <<clock, faults, overran, stale, seen>>

\* The instance is inactive or gone, its type is not supported, or no client
\* can be built.
SweepFails(w) ==
  /\ poll[w].at = "sweep"
  /\ End(w, "failed")
  /\ UNCHANGED <<cursor, clock, faults, overran, stale, seen>>

\* Otherwise it fetches the first page.
SweepStarts(w) ==
  /\ poll[w].at = "sweep"
  /\ Goto(w, [poll[w] EXCEPT !.at = "fetch"])
  /\ UNCHANGED <<cursor, clock, faults, overran, stale, seen>>

\* The deadline has passed, or max_pages are fetched.
SweepExhausted(w) ==
  /\ poll[w].at = "fetch"
  /\ End(w, "degraded")
  /\ UNCHANGED <<cursor, clock, faults, overran, stale, seen>>

\* A page cannot be had: the retries are used up, the provider refuses, or
\* the answer is malformed.  The reason decides between the two statuses.
FetchFails(w, result) ==
  /\ poll[w].at = "fetch"
  /\ poll[w].page < MaxPages
  /\ End(w, result)
  /\ UNCHANGED <<cursor, clock, faults, overran, stale, seen>>

\* What a page adds to what the sweep has seen.
Sees(w, what) == seen' = [seen EXCEPT ![w] = @ \cup what]

\* A page with a transient failure before it, or with a dropped row.
Trouble(happened) == IF happened THEN {"trouble"} ELSE {}

\* Mutant: what earlier pages went through is forgotten.
MutFetchEmpty(w, transient) ==
  /\ poll[w].at = "fetch"
  /\ poll[w].page < MaxPages
  /\ End(w, IF transient THEN "degraded" ELSE "idle")
  /\ Sees(w, {"empty"} \cup Trouble(transient))
  /\ UNCHANGED <<cursor, clock, faults, overran, stale>>

\* A valid empty page ends the sweep; a transient failure before it counts.
FetchEmpty(w, transient) ==
  /\ poll[w].at = "fetch"
  /\ poll[w].page < MaxPages
  /\ End(w, IF poll[w].tainted \/ transient THEN "degraded" ELSE "idle")
  /\ Sees(w, {"empty"} \cup Trouble(transient))
  /\ UNCHANGED <<cursor, clock, faults, overran, stale>>

\* A page with rows; rows may have been dropped, all of them even.
FetchRows(w, transient, dropped, kept) ==
  /\ poll[w].at = "fetch"
  /\ poll[w].page < MaxPages
  /\ kept \/ dropped
  /\ Goto(w, [poll[w] EXCEPT !.at = IF kept THEN "check" ELSE "fetch",
                             !.page = poll[w].page + 1,
                             !.tainted = poll[w].tainted \/ transient \/ dropped])
  /\ Sees(w, Trouble(transient \/ dropped))
  /\ UNCHANGED <<cursor, clock, faults, overran, stale>>

\* Mutant: the lease is not looked at again.
MutCheckLease(w) ==
  /\ poll[w].at = "check"
  /\ Goto(w, [poll[w] EXCEPT !.at = "write"])
  /\ UNCHANGED <<cursor, clock, faults, overran, stale, seen>>

\* _holds_lease, in a connection of its own.
CheckLease(w) ==
  /\ poll[w].at = "check"
  /\ IF HoldsLease(w) THEN Goto(w, [poll[w] EXCEPT !.at = "write"]) ELSE End(w, "degraded")
  /\ UNCHANGED <<cursor, clock, faults, overran, stale, seen>>

\* A read that fails counts as a lost lease.
CheckFails(w) ==
  /\ poll[w].at = "check"
  /\ End(w, "degraded")
  /\ Fault
  /\ UNCHANGED <<cursor, clock, overran, stale, seen>>

\* ingest_provider_tickets: the page in one transaction; then each ticket is
\* linked to its requester, which may raise when the page is already written.
WritePage(w, seeded) ==
  /\ poll[w].at = "write"
  /\ Goto(w, IF seeded THEN [poll[w] EXCEPT !.at = "fetch"]
                       ELSE [poll[w] EXCEPT !.at = "finish", !.result = "failed"])
  /\ stale' = IF Owns(w) THEN stale ELSE [stale EXCEPT ![w] = @ + 1]
  /\ UNCHANGED <<cursor, clock, faults, overran, seen>>

\* The transaction is rolled back.
WriteFails(w) ==
  /\ poll[w].at = "write"
  /\ End(w, "failed")
  /\ UNCHANGED <<cursor, clock, faults, overran, stale, seen>>

\* The current time of a clean finish, later than the last one's.
Tick == IF clock < MaxClock THEN clock + 1 ELSE clock

\* Mutant: the UPDATE names the instance and not the token.
MutFinishLease(w) ==
  LET clean == poll[w].result = "idle"
  IN  /\ poll[w].at = "finish"
      /\ clock' = IF clean THEN Tick ELSE clock
      /\ cursor' = [cursor EXCEPT !.status = poll[w].result, !.token = NoToken, !.expired = FALSE,
                                  !.synced = IF clean THEN Tick ELSE poll[w].prior]
      /\ Goto(w, Rest)
      /\ UNCHANGED <<faults, overran, stale, seen>>

\* _finish: finish_poll_lease writes the row if the token still owns it.
FinishLease(w) ==
  LET clean == poll[w].result = "idle"
  IN  /\ poll[w].at = "finish"
      /\ clock' = IF clean THEN Tick ELSE clock
      /\ cursor' = IF Owns(w)
                     THEN [cursor EXCEPT !.status = poll[w].result, !.token = NoToken, !.expired = FALSE,
                                         !.synced = IF clean THEN Tick ELSE poll[w].prior]
                     ELSE cursor
      /\ Goto(w, Rest)
      /\ UNCHANGED <<faults, overran, stale, seen>>

\* The lease passes lease_expires_at.
LeaseExpires ==
  /\ LeaseActive
  /\ cursor' = [cursor EXCEPT !.expired = TRUE]
  /\ overran' = (overran \/ Sweeping(cursor.token))
  /\ UNCHANGED <<poll, clock, faults, stale, seen>>

\* A worker dies, or its claim or its finish raises: the row stays.
Crash(w) ==
  /\ poll[w].at # "rest"
  /\ Fault
  /\ Goto(w, Rest)
  /\ UNCHANGED <<cursor, clock, overran, stale, seen>>

\* A poll that has begun goes on.
Step(w) ==
  \/ ClaimLease(w)
  \/ SweepFails(w) \/ SweepStarts(w) \/ SweepExhausted(w)
  \/ \E result \in {"degraded", "failed"} : FetchFails(w, result)
  \/ \E transient \in BOOLEAN : FetchEmpty(w, transient)
  \/ \E transient, dropped, kept \in BOOLEAN : FetchRows(w, transient, dropped, kept)
  \/ CheckLease(w) \/ CheckFails(w)
  \/ \E seeded \in BOOLEAN : WritePage(w, seeded)
  \/ WriteFails(w) \/ FinishLease(w)

Next ==
  \/ \E w \in Workers : Begin(w) \/ BeginBlind(w) \/ Step(w) \/ Crash(w)
  \/ LeaseExpires

Spec == Init /\ [][Next]_vars

\* The connector_poll job starts polls again and again, a poll runs to its
\* end, and time passes.
FairSpec ==
  /\ Spec
  /\ \A w \in Workers : WF_vars(Begin(w) \/ Step(w))
  /\ WF_vars(LeaseExpires)

-----------------------------------------------------------------------------
\* The row, the polls and the counters have their types.
TypeOK ==
  /\ cursor \in CursorType
  /\ poll \in [Workers -> PollType]
  /\ clock \in 0..MaxClock
  /\ faults \in 0..MaxFaults
  /\ overran \in BOOLEAN
  /\ stale \in [Workers -> Nat]
  /\ seen \in [Workers -> SUBSET {"trouble", "empty"}]

\* "At most one in-flight page": a poll whose lease another one has taken
\* writes at most the page it was writing, however the two interleave.
StaleWritesBounded == \A w \in Workers : stale[w] <= 1

\* A live lease is respected: while the lease of a worker's poll has not
\* expired, only that poll takes it away, by finishing.
LeaseRespected ==
  [][\A w \in Workers : (HoldsLease(w) /\ cursor'.token # w) =>
       poll[w].at = "finish" /\ poll'[w].at = "rest"]_vars

\* "A stale worker cannot finish over its successor": the row leaves
\* "syncing" only when the poll that holds the token ends.
FencedFinish ==
  [][(cursor.status = "syncing" /\ cursor'.status # "syncing") =>
       poll[cursor.token].at = "finish" /\ poll'[cursor.token].at = "rest"]_vars

\* Degradation is sticky: the row becomes "idle" only at the end of a sweep
\* that an empty page ended and that met no dropped row and no transient
\* failure, on the last page or on one before it, and that wrote no page
\* without its lease.
IdleIsClean ==
  [][(cursor'.status = "idle" /\ cursor.status # "idle") =>
       seen[cursor.token] = {"empty"} /\ stale[cursor.token] = 0]_vars

\* The row has a token exactly while it is "syncing"; a poll that has written
\* a page without the lease has lost it for good and is not about to write;
\* a sweep that ends "idle" saw an empty page and no trouble; and until it
\* ends a sweep saw no empty page, and remembers trouble in degraded_reason.
TokenOK == cursor.status = "syncing" <=> cursor.token # NoToken
StaleOK ==
  \A w \in Workers :
    /\ stale[w] \in {0, 1}
    /\ stale[w] = 1 => \/ poll[w].at = "rest"
                       \/ poll[w].at \notin {"claim", "write"} /\ ~Owns(w)
CleanOK ==
  \A w \in Workers :
    /\ poll[w].at = "claim" => seen[w] = {} /\ ~poll[w].tainted
    /\ poll[w].at \in {"sweep", "fetch", "check", "write"} =>
         "empty" \notin seen[w] /\ ("trouble" \in seen[w] => poll[w].tainted)
    /\ poll[w].at = "finish" /\ poll[w].result = "idle" => seen[w] = {"empty"}

\* Inductive: what the fence and the check before a page keep true of every
\* poll, whoever else claims, finishes or faults.
PollInv == TypeOK /\ TokenOK /\ StaleOK /\ CleanOK

\* A crashed poll does not block the connector: when sweeps end within their
\* lease, as lease_ttl_seconds guarantees, a lease is always released or
\* taken over by a poll that releases it.
LeaseReleased == []~overran => (cursor.status = "syncing" ~> cursor.status # "syncing")

\* "Degraded and failed finishes preserve the historical successful sync
\* time, while a clean idle finish may provide a new one": last_synced_at
\* never goes back.
SyncTimeKept == [][cursor'.synced >= cursor.synced]_vars
=============================================================================
