----------------------------- MODULE FounderScan ----------------------------
(***************************************************************************)
(* Founder artifacts: the launch of a remote scan, and the polling of that *)
(* scan by the scheduler's job and by the CLI's watchers, which share one  *)
(* founder_artifacts row.                                                  *)
(*                                                                         *)
(* A poll reads the row, gives up when its budget is spent, and otherwise  *)
(* claims the row, asks Launch Passport, writes the outcome and releases   *)
(* the claim.  Giving up takes no claim; neither do a release and a        *)
(* queued scan look at whose claim the row has.                            *)
(*                                                                         *)
(* Scans are numbered as Launch Passport creates them.  A timestamp is     *)
(* kept as what the code asks of it: has next_attempt_at come, is the      *)
(* claim older than 120 seconds, has max_duration passed since the scan    *)
(* was queued.  Left out are the report and the stored payloads,           *)
(* uploaded_at and last_polled_at; previews, which an upload needs and a   *)
(* launch does not; watches without an artifact, which write nothing; and  *)
(* watchers with larger bounds than the scheduler's.                       *)
(***************************************************************************)
EXTENDS Naturals

CONSTANTS
  NArtifacts,   \* artifacts, the newest last
  MaxScans,     \* bound on the scans Launch Passport creates
  Workers,      \* threads of the API and CLI processes ...
  Scheduler,    \* ... and the one that runs the scheduler's job
  MaxAttempts,  \* max_attempts
  MaxCrashes    \* bound on the number of crashes and of errors inside a poll

ASSUME FounderAssumption ==
  /\ NArtifacts \in Nat
  /\ MaxScans \in Nat
  /\ Scheduler \in Workers
  /\ MaxAttempts \in Nat \ {0}
  /\ MaxCrashes \in Nat

Artifacts == 1..NArtifacts
Scans == 1..MaxScans

(***************************************************************************)
(* polling_status: "queued" is what a launch stores; "running" stands for  *)
(* every answer of an active scan (queued, running, retrying, unknown),    *)
(* "completed" for TERMINAL_SCAN_STATES, "unavailable" also for            *)
(* not_authorized.                                                         *)
(***************************************************************************)
Terminal == {"completed", "timed_out", "unavailable"}
Answers == {"running", "completed", "unavailable"}
Statuses == {"absent", "new", "queued", "running"} \cup Terminal

VARIABLES
  row,      \* founder_artifacts
  due,      \* artifacts whose next_attempt_at has come
  late,     \* scans queued longer than max_duration ago
  scans,    \* the scans Launch Passport created
  worker,   \* where each worker is, and its locals
  crashes,  \* number of crashes and errors so far
  overrun,  \* history: artifacts whose claim passed 120 seconds under a living poll
  bare      \* history: artifacts whose end was written without a claim, during a poll

history == <<overrun, bare>>
vars == <<row, due, late, scans, worker, crashes, history>>

\* start is the scan whose queueing set polling_started_at, 0 when a watcher did
\* or nobody; claim says whether polling_claimed_at is empty, recent or more than 120 seconds ago.
Rows == [status: Statuses, scan: 0..MaxScans, start: 0..MaxScans,
         attempts: 0..MaxAttempts, claim: {"free", "held", "old"}]

\* The locals: patient is FALSE for a watcher with bounds of its own, outcome is
\* the status to be written.
Frames == [at: {"idle", "queue", "read", "claim", "poll",
                "persist", "release", "give_up"},
           art: 0..NArtifacts, scan: 0..MaxScans, start: 0..MaxScans,
           attempts: 0..MaxAttempts, patient: BOOLEAN, outcome: Statuses]

NoRow == [status |-> "absent", scan |-> 0, start |-> 0, attempts |-> 0,
          claim |-> "free"]

Idle == [at |-> "idle", art |-> 0, scan |-> 0, start |-> 0, attempts |-> 0,
         patient |-> TRUE, outcome |-> "absent"]

Init ==
  /\ row = [a \in Artifacts |-> NoRow]
  /\ due = Artifacts
  /\ late = {}
  /\ scans = 0
  /\ worker = [w \in Workers |-> Idle]
  /\ crashes = 0
  /\ overrun = {}
  /\ bare = {}

-----------------------------------------------------------------------------
Goto(w, frame) == worker' = [worker EXCEPT ![w] = frame]
Work(a, label) == [Idle EXCEPT !.at = label, !.art = a]

Exists(a) == row[a].status # "absent"

\* open_founder_scan: save_founder_artifact under a fresh id, oldest first.
SaveArtifact(a) ==
  /\ ~Exists(a)
  /\ \A b \in 1..(a - 1) : Exists(b)
  /\ row' = [row EXCEPT ![a].status = "new"]
  /\ UNCHANGED <<due, late, scans, worker, crashes, history>>

\* open_founder_launch_scan, and open_founder_upload after its checks: Launch
\* Passport answers with a new scan; without one nothing is written.
LaunchScan(w, a) ==
  /\ worker[w].at = "idle"
  /\ Exists(a)
  /\ scans < MaxScans
  /\ scans' = scans + 1
  /\ Goto(w, [Work(a, "queue") EXCEPT !.scan = scans + 1])
  /\ UNCHANGED <<row, due, late, crashes, history>>

\* update_founder_artifact_remote: the scan is queued with a new budget, and
\* is due at once.  The claim is not touched.
QueueScan(w) ==
  LET f == worker[w]
  IN  /\ f.at = "queue"
      /\ row' = [row EXCEPT ![f.art].scan = f.scan, ![f.art].status = "queued",
                            ![f.art].start = f.scan, ![f.art].attempts = 0]
      /\ due' = due \cup {f.art}
      /\ Goto(w, Idle)
      /\ bare' = bare \ {f.art}
      /\ UNCHANGED <<late, scans, crashes, overrun>>

-----------------------------------------------------------------------------
\* Between its claim and its release a poll is inside; until it has stored its
\* outcome it is about to write.
Inside(w, a) == worker[w].at \in {"poll", "persist", "release"} /\ worker[w].art = a
Writing(w, a) == worker[w].at \in {"poll", "persist"} /\ worker[w].art = a

\* Worker w leaves: an overrun is over with the last poll that is inside.
Leaves(w) == overrun' = {a \in overrun : \E v \in Workers \ {w} : Inside(v, a)}

(***************************************************************************)
(* advance_founder_scan_once and its two callers.                          *)
(***************************************************************************)

\* Mutant: only scans that were never polled are candidates.
MutCandidates == {a \in Artifacts : row[a].scan # 0 /\ row[a].status = "queued" /\ a \in due}

\* list_founder_poll_candidates, those that are due.
Candidates ==
  {a \in Artifacts : row[a].scan # 0 /\ row[a].status \notin Terminal /\ a \in due}

\* _run_founder_poll_iteration takes the newest candidate.
Tick ==
  /\ worker[Scheduler].at = "idle"
  /\ \E a \in Candidates :
       /\ \A b \in Candidates : b <= a
       /\ Goto(Scheduler, [Work(a, "read") EXCEPT !.scan = row[a].scan])
  /\ UNCHANGED <<row, due, late, scans, crashes, history>>

\* watch_founder_scan, with the default bounds or smaller ones, of any scan, the
\* artifact's or not; in offline mode it
\* stores at once that the scan is unavailable (and a start of its own, which
\* nothing reads from an ended row).
Watch(w, a, s, patient) ==
  /\ worker[w].at = "idle"
  /\ Exists(a)
  /\ s <= scans
  /\ LET f == [Work(a, "read") EXCEPT !.scan = s, !.patient = patient]
     IN  \/ Goto(w, f)
         \/ Goto(w, [f EXCEPT !.at = "give_up", !.outcome = "unavailable",
                              !.start = row[a].start])
  /\ UNCHANGED <<row, due, late, scans, crashes, history>>

\* Has a poll with these locals used up its attempts or its time?
MustStop(f) == f.attempts >= MaxAttempts \/ f.start \in late

\* A watcher with smaller bounds may stop before, and so may a poll of a row
\* that no launch has queued: it began when its watcher did.
MayStop(f) == MustStop(f) \/ ~f.patient \/ f.start = 0

\* The record is read: its attempts and start count, not the caller's.
ReadRow(w) ==
  LET f == [worker[w] EXCEPT !.attempts = row[worker[w].art].attempts,
                             !.start = row[worker[w].art].start]
  IN  /\ worker[w].at = "read"
      /\ \/ /\ row[f.art].status \in Terminal
            /\ Goto(w, Idle)
         \/ /\ row[f.art].status \notin Terminal
            /\ MayStop(f)
            /\ Goto(w, [f EXCEPT !.at = "give_up", !.outcome = "timed_out"])
         \/ /\ row[f.art].status \notin Terminal
            /\ ~MustStop(f)
            /\ Goto(w, [f EXCEPT !.at = "claim"])
      /\ UNCHANGED <<row, due, late, scans, crashes, history>>

\* Where a caller goes after an advance that did not end the polling: the
\* scheduler's job is over, a watcher sleeps and tries again.
Again(w) ==
  IF w = Scheduler THEN Idle
  ELSE [Work(worker[w].art, "read") EXCEPT !.scan = worker[w].scan,
                                              !.patient = worker[w].patient]

\* Mutant: the status of the row is not looked at.
MutClaimableEnded(a) == row[a].claim # "held"

\* Mutant: the claim of the row is not looked at.
MutClaimableHeld(a) == row[a].status \notin Terminal

\* claim_founder_artifact_poll's WHERE.
Claimable(a) == row[a].status \notin Terminal /\ row[a].claim # "held"

Claim(w) ==
  LET f == worker[w]
  IN  /\ f.at = "claim"
      /\ IF Claimable(f.art)
           THEN /\ row' = [row EXCEPT ![f.art].claim = "held"]
                /\ Goto(w, [f EXCEPT !.at = "poll"])
           ELSE Goto(w, Again(w)) /\ UNCHANGED row
      /\ UNCHANGED <<due, late, scans, crashes, history>>

\* poll_scan_once, and the budget again.
Poll(w, answer) ==
  LET f == [worker[w] EXCEPT !.attempts = @ + 1, !.at = "persist"]
  IN  /\ worker[w].at = "poll"
      /\ \/ /\ answer \in Terminal \/ ~MustStop(f)
            /\ Goto(w, [f EXCEPT !.outcome = answer])
         \/ /\ answer \notin Terminal /\ MayStop(f)
            /\ Goto(w, [f EXCEPT !.outcome = "timed_out"])
      /\ UNCHANGED <<row, due, late, scans, crashes, history>>

\* _persist_poll_progress: the locals overwrite the row.
WriteProgress(f) ==
  /\ row' = [row EXCEPT ![f.art].scan = f.scan, ![f.art].status = f.outcome,
                        ![f.art].start = f.start, ![f.art].attempts = f.attempts]
  /\ due' = IF f.outcome \in Terminal THEN due \cup {f.art} ELSE due \ {f.art}

Persist(w) ==
  /\ worker[w].at = "persist"
  /\ WriteProgress(worker[w])
  /\ Goto(w, [worker[w] EXCEPT !.at = "release"])
  /\ bare' = bare \ {worker[w].art}
  /\ UNCHANGED <<late, scans, crashes, overrun>>

\* The client cannot be built, or the outcome cannot be stored: the finally
\* clause releases the claim, and the error ends the job or the watcher.
PollRaises(w) ==
  /\ worker[w].at \in {"poll", "persist"}
  /\ crashes < MaxCrashes
  /\ crashes' = crashes + 1
  /\ Goto(w, [worker[w] EXCEPT !.at = "release", !.outcome = "absent"])
  /\ UNCHANGED <<row, due, late, scans, history>>

\* release_founder_artifact_poll, whoever has the claim.
Release(w) ==
  LET f == worker[w]
  IN  /\ f.at = "release"
      /\ row' = [row EXCEPT ![f.art].claim = "free"]
      /\ Goto(w, IF f.outcome \in Terminal \cup {"absent"} THEN Idle ELSE Again(w))
      /\ Leaves(w)
      /\ UNCHANGED <<due, late, scans, crashes, bare>>

\* The polling ends without a claim.
GiveUp(w) ==
  LET f == worker[w]
  IN  /\ f.at = "give_up"
      /\ WriteProgress(f)
      /\ Goto(w, Idle)
      /\ bare' = IF \E v \in Workers : Writing(v, f.art) THEN bare \cup {f.art} ELSE bare \ {f.art}
      /\ UNCHANGED <<late, scans, crashes, overrun>>

-----------------------------------------------------------------------------
(***************************************************************************)
(* Time, and crashes.                                                      *)
(***************************************************************************)

BecomesDue(a) ==
  /\ a \notin due
  /\ due' = due \cup {a}
  /\ UNCHANGED <<row, late, scans, worker, crashes, history>>

BecomesLate(s) ==
  /\ s \in 1..scans \ late
  /\ late' = late \cup {s}
  /\ UNCHANGED <<row, due, scans, worker, crashes, history>>

\* 120 seconds pass, whether the poll that has the claim is dead or slow.
ClaimAges(a) ==
  /\ row[a].claim = "held"
  /\ row' = [row EXCEPT ![a].claim = "old"]
  /\ overrun' = IF \E w \in Workers : Inside(w, a) THEN overrun \cup {a} ELSE overrun
  /\ UNCHANGED <<due, late, scans, worker, crashes, bare>>

\* The process dies, or a database call outside the claim or the release
\* itself raises; a claim it has stays.
Crash(w) ==
  /\ worker[w].at # "idle"
  /\ crashes < MaxCrashes
  /\ crashes' = crashes + 1
  /\ Goto(w, Idle)
  /\ Leaves(w)
  /\ UNCHANGED <<row, due, late, scans, bare>>

Step(w) ==
  \/ QueueScan(w) \/ ReadRow(w) \/ Claim(w) \/ Persist(w) \/ Release(w) \/ GiveUp(w)
  \/ \E answer \in Answers : Poll(w, answer)

Time(a) == BecomesDue(a) \/ ClaimAges(a)

Next ==
  \/ \E a \in Artifacts : SaveArtifact(a) \/ Time(a)
  \/ \E w \in Workers \ {Scheduler}, a \in Artifacts :
       \/ LaunchScan(w, a)
       \/ \E s \in Scans, patient \in BOOLEAN : Watch(w, a, s, patient)
  \/ Tick
  \/ \E w \in Workers : Step(w) \/ PollRaises(w) \/ Crash(w)
  \/ \E s \in Scans : BecomesLate(s)

Spec == Init /\ [][Next]_vars

\* Threads are not starved, the scheduler's interval comes round, and time
\* passes.
FairSpec ==
  /\ Spec
  /\ \A w \in Workers : WF_vars(Step(w))
  /\ WF_vars(Tick)
  /\ \A a \in Artifacts : WF_vars(Time(a))
  /\ \A s \in Scans : WF_vars(BecomesLate(s))

-----------------------------------------------------------------------------
(***************************************************************************)
(* Properties.                                                             *)
(***************************************************************************)

\* Every variable has its type.
TypeOK ==
  /\ row \in [Artifacts -> Rows]
  /\ due \subseteq Artifacts
  /\ late \subseteq Scans
  /\ scans \in 0..MaxScans
  /\ worker \in [Workers -> Frames]
  /\ \A w \in Workers : worker[w].at # "idle" => worker[w].art \in Artifacts
  /\ crashes \in 0..MaxCrashes
  /\ overrun \subseteq Artifacts
  /\ bare \subseteq Artifacts

\* One poll at most asks about an artifact and writes what it learnt, though
\* nothing in the row says whose claim it is, polls may die or fail inside,
\* and scans are queued meanwhile.  Only after a poll took longer than the 120
\* seconds of its claim may there be two, until the last of them has left.
PollsExclude ==
  \A a \in Artifacts, v, w \in Workers : Inside(v, a) /\ Inside(w, a) => v = w \/ a \in overrun

\* A scan recorded as ended, with a result, timed out or unavailable, is not
\* put back among those to poll by a poll that read the row before; a queued
\* scan does that.  The two exceptions of the code are an end that was written
\* without a claim while a poll was inside, which that poll may overwrite, and
\* a poll that outlived its claim.
EndedStaysEnded ==
  [][\A a \in Artifacts : row[a].status \in Terminal /\ a \notin overrun \cup bare =>
       row'[a].status \in Terminal \cup {"queued"}]_vars

\* The polling of a queued scan ends, whatever the service answers, although
\* polls die with the claim in their hands, a watcher takes turns with the
\* scheduler, and a poll of an older scan may overwrite the row.
ScanSettles ==
  \A a \in Artifacts : row[a].status \in {"queued", "running"} ~> row[a].status \in Terminal

\* A claim is held while a poll is inside, and the row has not ended until that
\* poll writes it: but for a claim that was overrun, and an end that was
\* written without one.
ClaimOK ==
  \A w \in Workers, a \in Artifacts \ overrun : Inside(w, a) =>
    /\ row[a].claim = "held"
    /\ row[a].status \in Terminal /\ Writing(w, a) => a \in bare

\* A poll that goes on has an attempt left, and one that gives up has no
\* result of the service to store.
FramesOK ==
  \A w \in Workers :
    /\ worker[w].at \in {"claim", "poll"} => worker[w].attempts < MaxAttempts
    /\ worker[w].at = "give_up" => worker[w].outcome \in {"timed_out", "unavailable"}

FounderInv == TypeOK /\ FramesOK /\ ClaimOK /\ PollsExclude

\* A completed scan stays completed until the next one is queued.  It does not:
\* a caller whose budget is spent overwrites the row without a claim.
ResultKept ==
  [][\A a \in Artifacts : row[a].status = "completed" =>
       row'[a].status \in {"completed", "queued"}]_vars

\* Every end is final until the next scan is queued.  It is not: one that was
\* written without a claim is undone by the poll that is inside.
EndIsFinal ==
  [][\A a \in Artifacts : row[a].status \in Terminal =>
       row'[a].status \in Terminal \cup {"queued"}]_vars
=============================================================================
