-------------------------- MODULE TicketSinkProofs --------------------------
(***************************************************************************)
(* The invariant of the ticket sink, and what follows from it, for any     *)
(* sets of clients, instances, companies, tickets and workers.             *)
(***************************************************************************)
EXTENDS TicketSink, TLAPS

-----------------------------------------------------------------------------
(***************************************************************************)
(* Facts about rows and frames.                                            *)
(***************************************************************************)

\* The open batch of a worker: its instance and its draft have their types,
\* and an edited draft leaves a frame of the same batch.
LEMMA BatchFrame ==
  ASSUME TypeOK, NEW w \in Workers, worker[w].at = "batch"
  PROVE  /\ worker[w].inst \in Instances
         /\ worker[w].draft \in Tables
         /\ \A d \in Tables :
              [worker[w] EXCEPT !.draft = d] =
                [at |-> "batch", inst |-> worker[w].inst, draft |-> d]
<1>1. worker[w] \in Frames
  BY DEF TypeOK
<1>2. worker[w] \in [at: {"batch"}, inst: Instances, draft: Tables]
  BY <1>1 DEF Frames, Idle
<1>. QED
  BY <1>2

\* A verification under way names an instance, a company and a client.
LEMMA VerifyFrame ==
  ASSUME TypeOK, NEW w \in Workers, worker[w].at = "verify"
  PROVE  /\ worker[w].inst \in Instances
         /\ worker[w].company \in Companies
         /\ worker[w].client \in Clients
<1>1. worker[w] \in Frames
  BY DEF TypeOK
<1>2. worker[w] \in [at: {"verify"}, inst: Instances, company: Companies, client: Clients]
  BY <1>1 DEF Frames, Idle
<1>. QED
  BY <1>2

\* Frames of the three kinds are told apart by their labels.
LEMMA FrameKinds ==
  /\ Idle \in Frames
  /\ Idle.at = "idle"
  /\ \A i \in Instances, d \in Tables :
       [at |-> "batch", inst |-> i, draft |-> d] \in Frames
  /\ \A i \in Instances, x \in Companies, c \in Clients :
       [at |-> "verify", inst |-> i, company |-> x, client |-> c] \in Frames
BY DEF Frames, Idle

\* The components of the tables.
LEMMA TablesParts ==
  /\ \A d \in Tables : d.ticket \in Tickets /\ d.ledger \in Ledgers
  /\ \A t \in Tickets, l \in Ledgers : [ticket |-> t, ledger |-> l] \in Tables
BY DEF Tables

-----------------------------------------------------------------------------
(***************************************************************************)
(* Drafts.                                                                 *)
(***************************************************************************)

\* What DraftOK and SinkInv demand of the draft of an open batch.
DraftGood(d) ==
  /\ RowsOK(d.ticket)
  /\ FollowsMappings(d.ticket)
  /\ \A k \in Keys : tables.ticket[k].owner \in Clients =>
       d.ticket[k].owner = tables.ticket[k].owner

OneBatch ==
  \A v, w \in Workers : worker[v].at = "batch" /\ worker[w].at = "batch" => v = w

\* The invariant in terms of good drafts.
LEMMA SinkInvParts ==
  SinkInv <=> /\ TypeOK
              /\ RowsOK(tables.ticket)
              /\ FollowsMappings(tables.ticket)
              /\ OneBatch
              /\ \A w \in Workers : worker[w].at = "batch" => DraftGood(worker[w].draft)
BY Zenon DEF SinkInv, DraftOK, DraftGood, OneBatch, OwnersFollowMappings

\* Offering a ticket to the owner its company is mapped to, or to quarantine
\* when it is not mapped, keeps a draft good: the first owner stays.
LEMMA OfferedIsGood ==
  ASSUME TypeOK,
         NEW d \in Tables, DraftGood(d),
         NEW k \in Keys, NEW x \in Companies,
         NEW owner \in Clients \cup {Quarantine}, NEW reason \in Reasons,
         owner \in Clients => verified[<<k[1], x>>] = owner,
         owner = Quarantine => verified[<<k[1], x>>] = None
  PROVE  /\ Offered(d, k, x, owner, reason) \in Tables
         /\ DraftGood(Offered(d, k, x, owner, reason))
<1>. DEFINE o == Offered(d, k, x, owner, reason)
            row == [owner |-> owner, company |-> x]
            fits == MayOwn(d.ticket[k], owner)
<1>1. d.ticket \in Tickets /\ d.ledger \in Ledgers
  BY TablesParts
<1>2. [company |-> x, reason |-> reason] \in [company: Companies \cup {None}, reason: Reasons \cup {None}]
  OBVIOUS
<1>3. row \in [owner: Owners, company: Companies \cup {None}]
  BY DEF Owners
<1>4. /\ o.ticket = IF fits THEN [d.ticket EXCEPT ![k] = row] ELSE d.ticket
      /\ o.ledger = IF fits /\ owner # Quarantine THEN d.ledger
                    ELSE [d.ledger EXCEPT ![k] = [company |-> x, reason |-> reason]]
      /\ o = [ticket |-> o.ticket, ledger |-> o.ledger]
  BY DEF Offered
<1>5. o.ticket \in Tickets
  BY <1>1, <1>3, <1>4 DEF Tickets
<1>6. o.ledger \in Ledgers
  BY <1>1, <1>2, <1>4 DEF Ledgers
<1>7. o \in Tables
  BY <1>4, <1>5, <1>6, TablesParts
<1>8. \A j \in Keys : o.ticket[j] = d.ticket[j] \/ (j = k /\ fits /\ o.ticket[j] = row)
  BY <1>1, <1>4 DEF Tickets
<1>9. RowsOK(o.ticket)
  BY <1>8 DEF DraftGood, RowsOK
<1>10. FollowsMappings(o.ticket)
  <2>. SUFFICES ASSUME NEW j \in Keys
       PROVE /\ o.ticket[j].owner \in Clients =>
                  j \in manual \/ verified[<<j[1], o.ticket[j].company>>] = o.ticket[j].owner
             /\ o.ticket[j].owner = Quarantine =>
                  verified[<<j[1], o.ticket[j].company>>] = None
    BY DEF FollowsMappings
  <2>1. CASE o.ticket[j] = d.ticket[j]
    BY <2>1 DEF DraftGood, FollowsMappings
  <2>2. CASE j = k /\ o.ticket[j] = row
    BY <2>2
  <2>. QED
    BY <1>8, <2>1, <2>2
<1>11. ASSUME NEW j \in Keys, tables.ticket[j].owner \in Clients
       PROVE  o.ticket[j].owner = tables.ticket[j].owner
  <2>1. d.ticket[j].owner = tables.ticket[j].owner
    BY <1>11 DEF DraftGood
  <2>2. fits /\ j = k => owner = d.ticket[j].owner
    BY <1>11, <2>1, ReservedAssumption DEF MayOwn
  <2>. QED
    BY <1>8, <2>1, <2>2
<1>. QED
  BY <1>7, <1>9, <1>10, <1>11 DEF DraftGood

-----------------------------------------------------------------------------
(***************************************************************************)
(* One lemma per kind of action.                                           *)
(***************************************************************************)

\* An action on the directory that verifies nothing.
LEMMA DirectoryStep ==
  ASSUME SinkInv, TypeOK', UNCHANGED <<verified, tables, worker, manual>>
  PROVE  SinkInv'
BY DEF SinkInv, RowsOK, OwnersFollowMappings, FollowsMappings, DraftOK

\* A worker goes to a frame that is no batch, and the rows stay.
LEMMA WorkerStep ==
  ASSUME SinkInv,
         NEW w \in Workers, NEW f \in Frames, f.at # "batch",
         Goto(w, f),
         UNCHANGED <<directory, tables, manual>>
  PROVE  SinkInv'
<1>1. worker \in [Workers -> Frames] /\ worker' \in [Workers -> Frames]
  BY DEF SinkInv, TypeOK, Goto
<1>2. \A v \in Workers : worker'[v].at = "batch" => worker'[v] = worker[v]
  BY <1>1 DEF Goto
<1>3. TypeOK'
  BY <1>1 DEF SinkInv, TypeOK, directory
<1>. QED
  BY <1>2, <1>3 DEF SinkInv, RowsOK, OwnersFollowMappings, FollowsMappings, DraftOK, directory

\* No batch is open once the tables have changed.
LEMMA NoBatchOpen ==
  ASSUME TypeOK', RowsOK(tables.ticket)', FollowsMappings(tables.ticket)',
         \A w \in Workers : worker'[w].at # "batch"
  PROVE  SinkInv'
BY DEF SinkInv, OwnersFollowMappings, DraftOK

\* A batch opens or writes a record: the draft of w becomes d.
LEMMA BatchStep ==
  ASSUME SinkInv,
         NEW w \in Workers, NEW i \in Instances, NEW d \in Tables, DraftGood(d),
         \A v \in Workers : worker[v].at = "batch" => v = w,
         Goto(w, [at |-> "batch", inst |-> i, draft |-> d]),
         UNCHANGED <<directory, tables, manual>>
  PROVE  SinkInv'
<1>. DEFINE f == [at |-> "batch", inst |-> i, draft |-> d]
<1>1. f \in Frames
  BY FrameKinds
<1>2. worker \in [Workers -> Frames]
  BY DEF SinkInv, TypeOK
<1>3. /\ worker' \in [Workers -> Frames]
      /\ worker'[w] = f
      /\ \A v \in Workers : v # w => worker'[v] = worker[v]
  BY <1>1, <1>2 DEF Goto
<1>4. worker'[w].draft = d /\ \A v \in Workers : worker'[v].at = "batch" => v = w
  BY <1>3
<1>5. TypeOK'
  BY <1>3 DEF SinkInv, TypeOK, directory
<1>6. DraftGood(d)'
  BY DEF DraftGood, RowsOK, FollowsMappings, directory
<1>7. RowsOK(tables.ticket)' /\ FollowsMappings(tables.ticket)'
  BY DEF SinkInv, OwnersFollowMappings, RowsOK, FollowsMappings, directory
<1>8. OneBatch'
  BY <1>4 DEF OneBatch
<1>9. ASSUME NEW v \in Workers, worker'[v].at = "batch"
      PROVE  DraftGood(worker[v].draft)'
  BY <1>4, <1>6, <1>9 DEF DraftGood
<1>. QED
  BY <1>5, <1>7, <1>8, <1>9, Zenon
  DEF SinkInv, DraftOK, DraftGood, OneBatch, OwnersFollowMappings

\* Steps on the directory of clients and mappings that touch no ticket.
LEMMA DirectoryActions ==
  ASSUME SinkInv,
         \/ \E c \in Clients : SetClientStatus(c)
         \/ \E i \in Instances, enabled \in BOOLEAN, pin \in Clients \cup {None} :
              UpdateConnectorInstance(i, enabled, pin)
         \/ \E i \in Instances, x \in Companies, c \in Clients : CreateMapping(i, x, c)
  PROVE  SinkInv'
<1>1. CASE \E c \in Clients : SetClientStatus(c)
  BY <1>1, DirectoryStep DEF SetClientStatus, SinkInv, TypeOK
<1>2. CASE \E i \in Instances, enabled \in BOOLEAN, pin \in Clients \cup {None} :
             UpdateConnectorInstance(i, enabled, pin)
  <2>. PICK i \in Instances, enabled \in BOOLEAN, pin \in Clients \cup {None} :
              UpdateConnectorInstance(i, enabled, pin)
    BY <1>2
  <2>1. instance' \in [Instances -> [enabled: BOOLEAN, pin: Clients \cup {None}]]
    BY DEF UpdateConnectorInstance, SinkInv, TypeOK
  <2>2. TypeOK'
    BY <2>1 DEF UpdateConnectorInstance, SinkInv, TypeOK
  <2>. QED
    BY <2>2, DirectoryStep DEF UpdateConnectorInstance
<1>3. CASE \E i \in Instances, x \in Companies, c \in Clients : CreateMapping(i, x, c)
  <2>1. TypeOK'
    BY <1>3 DEF CreateMapping, SinkInv, TypeOK
  <2>. QED
    BY <1>3, <2>1, DirectoryStep DEF CreateMapping
<1>. QED
  BY <1>1, <1>2, <1>3

\* The reads of a verification change nothing but its frame.
LEMMA VerifySelectStep ==
  ASSUME SinkInv, NEW w \in Workers,
         NEW i \in Instances, NEW x \in Companies, NEW c \in Clients,
         VerifySelect(w, i, x, c)
  PROVE  SinkInv'
<1>. DEFINE f == [at |-> "verify", inst |-> i, company |-> x, client |-> c]
<1>1. f \in Frames /\ f.at # "batch"
  BY FrameKinds
<1>2. Goto(w, f) /\ UNCHANGED <<directory, tables, manual>>
  BY DEF VerifySelect
<1>. HIDE DEF f
<1>. QED
  BY <1>1, <1>2, WorkerStep

\* A verified mapping and the move of the tickets held for it: a ticket that
\* stays in quarantine has another company, and one that is owned under this
\* company is owned by the client of the mapping already.
LEMMA VerifyCommitStep ==
  ASSUME SinkInv, NEW w \in Workers, VerifyCommit(w)
  PROVE  SinkInv' /\ \A k \in Keys : tables.ticket[k].owner \in Clients =>
                       tables'.ticket[k].owner = tables.ticket[k].owner
<1>. DEFINE i == worker[w].inst
            x == worker[w].company
            c == worker[w].client
<1>1. TypeOK /\ RowsOK(tables.ticket) /\ FollowsMappings(tables.ticket)
  BY DEF SinkInv, OwnersFollowMappings
<1>2. i \in Instances /\ x \in Companies /\ c \in Clients
  BY <1>1, VerifyFrame DEF VerifyCommit
<1>3. /\ worker' \in [Workers -> Frames]
      /\ \A v \in Workers : worker'[v].at # "batch"
  BY <1>1, FrameKinds DEF VerifyCommit, Goto, Unlocked, TypeOK
<1>4. UNCHANGED <<active, instance, mappings, manual>>
  BY DEF VerifyCommit
<1>5. CASE UNCHANGED <<verified, tables>>
  <2>1. TypeOK' /\ RowsOK(tables.ticket)' /\ FollowsMappings(tables.ticket)'
    BY <1>1, <1>3, <1>4, <1>5 DEF TypeOK, RowsOK, FollowsMappings
  <2>. QED
    BY <1>3, <1>5, <2>1, NoBatchOpen
<1>6. CASE /\ verified[<<i, x>>] \in {None, c}
           /\ verified' = [verified EXCEPT ![<<i, x>>] = c]
           /\ tables' = Retenanted(i, x, c)
  <2>. DEFINE old == tables.ticket
              new == tables'.ticket
              row == [owner |-> c, company |-> x]
  <2>1. tables \in Tables /\ old \in Tickets /\ tables.ledger \in Ledgers
    BY <1>1, TablesParts DEF TypeOK
  <2>2. verified \in [Companions -> Clients \cup {None}]
    BY <1>1 DEF TypeOK
  <2>3. row \in [owner: Owners, company: Companies \cup {None}]
    BY <1>2 DEF Owners
  <2>4. /\ new = [k \in Keys |-> IF k \in Held(i, x) THEN row ELSE old[k]]
        /\ tables'.ledger = [k \in Keys |->
             IF k \in Held(i, x) /\ tables.ledger[k].company = x
               THEN NoRecord ELSE tables.ledger[k]]
        /\ tables' = [ticket |-> new, ledger |-> tables'.ledger]
    BY <1>6 DEF Retenanted
  <2>5. new \in Tickets
    BY <2>1, <2>3, <2>4 DEF Tickets
  <2>6. NoRecord \in [company: Companies \cup {None}, reason: Reasons \cup {None}]
    BY DEF NoRecord
  <2>7. tables'.ledger \in Ledgers
    BY <2>1, <2>4, <2>6 DEF Ledgers
  <2>8. tables' \in Tables
    BY <2>4, <2>5, <2>7, TablesParts
  <2>9. verified' \in [Companions -> Clients \cup {None}]
    BY <1>2, <1>6, <2>2
  <2>10. TypeOK'
    BY <1>1, <1>3, <1>4, <2>8, <2>9 DEF TypeOK
  <2>11. \A k \in Keys : new[k] = IF k \in Held(i, x) THEN row ELSE old[k]
    BY <2>4
  <2>12. RowsOK(new)
    BY <1>1, <1>2, <2>11 DEF RowsOK
  <2>13. \A m \in Companions : verified'[m] = IF m = <<i, x>> THEN c ELSE verified[m]
    BY <1>6, <2>2
  <2>14. ASSUME NEW k \in Keys
         PROVE  /\ new[k].owner \in Clients =>
                     k \in manual \/ verified'[<<k[1], new[k].company>>] = new[k].owner
                /\ new[k].owner = Quarantine => verified'[<<k[1], new[k].company>>] = None
    <3>1. k[1] \in Instances
      BY DEF Keys
    <3>2. CASE k \in Held(i, x)
      <4>1. k[1] = i /\ new[k] = row
        BY <2>11, <3>2 DEF Held
      <4>2. <<i, x>> \in Companions
        BY <1>2 DEF Companions
      <4>3. verified'[<<i, x>>] = c
        BY <2>13, <4>2
      <4>. QED
        BY <1>2, <4>1, <4>3, ReservedAssumption
    <3>3. CASE k \notin Held(i, x)
      <4>1. new[k] = old[k]
        BY <2>11, <3>3
      <4>2. CASE new[k].owner \in Clients \cup {Quarantine}
        <5>1. old[k].company \in Companies
          BY <1>1, <4>1, <4>2, ReservedAssumption DEF RowsOK, None, Quarantine
        <5>2. <<k[1], old[k].company>> \in Companions
          BY <3>1, <5>1 DEF Companions
        <5>3. /\ old[k].owner \in Clients =>
                   k \in manual \/ verified[<<k[1], old[k].company>>] = old[k].owner
              /\ old[k].owner = Quarantine => verified[<<k[1], old[k].company>>] = None
          BY <1>1 DEF FollowsMappings
        <5>4. CASE <<k[1], old[k].company>> # <<i, x>>
          <6>1. verified'[<<k[1], old[k].company>>] = verified[<<k[1], old[k].company>>]
            BY <2>13, <5>2, <5>4
          <6>. QED
            BY <4>1, <5>3, <6>1
        <5>5. CASE <<k[1], old[k].company>> = <<i, x>>
          <6>1. k[1] = i /\ old[k].company = x
            BY <5>5
          <6>2. old[k] \in [owner: Owners, company: Companies \cup {None}]
            BY <2>1 DEF Tickets
          <6>3. old[k].owner # Quarantine
            BY <3>3, <6>1, <6>2 DEF Held
          <6>4. verified'[<<k[1], old[k].company>>] = c
            BY <2>13, <5>2, <5>5
          <6>5. verified[<<k[1], old[k].company>>] \in {None, c}
            BY <1>6, <5>5
          <6>. QED
            BY <4>1, <5>3, <6>3, <6>4, <6>5, ReservedAssumption
        <5>. QED
          BY <5>4, <5>5
      <4>3. CASE new[k].owner \notin Clients \cup {Quarantine}
        BY <4>3
      <4>. QED
        BY <4>2, <4>3
    <3>. QED
      BY <3>2, <3>3
  <2>15. FollowsMappings(tables.ticket)'
    BY <1>4, <2>14 DEF FollowsMappings
  <2>16. RowsOK(tables.ticket)'
    BY <2>12 DEF RowsOK
  <2>17. \A k \in Keys : old[k].owner \in Clients => new[k].owner = old[k].owner
    BY <2>11, ReservedAssumption DEF Held
  <2>. QED
    BY <1>3, <2>10, <2>15, <2>16, <2>17, NoBatchOpen
<1>. QED
  BY <1>5, <1>6 DEF VerifyCommit

\* A batch begins with the tables as its draft.
LEMMA IngestBeginStep ==
  ASSUME SinkInv, NEW w \in Workers, NEW i \in Instances, IngestBegin(w, i)
  PROVE  SinkInv'
<1>1. tables \in Tables /\ DraftGood(tables)
  BY DEF SinkInv, TypeOK, DraftGood, OwnersFollowMappings
<1>2. \A v \in Workers : worker[v].at = "batch" => v = w
  BY DEF IngestBegin, Unlocked
<1>3. /\ Goto(w, [at |-> "batch", inst |-> i, draft |-> tables])
      /\ UNCHANGED <<directory, tables, manual>>
  BY DEF IngestBegin
<1>. QED
  <2>. DEFINE d == tables
  <2>1. d \in Tables /\ DraftGood(d)
    BY <1>1
  <2>2. Goto(w, [at |-> "batch", inst |-> i, draft |-> d])
    BY <1>3
  <2>. HIDE DEF d
  <2>. QED
    BY <1>2, <1>3, <2>1, <2>2, BatchStep

\* One record of a batch: it is offered to the mapped client, or held.
LEMMA IngestRecordStep ==
  ASSUME SinkInv, NEW w \in Workers,
         NEW e \in ExternalIds, NEW x \in Companies, IngestRecord(w, e, x)
  PROVE  SinkInv'
<1>. DEFINE i == worker[w].inst
            c == Resolved(i, x)
            draft == worker[w].draft
            key == <<i, e>>
            owner == IF c = None THEN Quarantine ELSE c
            reason == IF c = None THEN "no_verified_mapping" ELSE "ownership_conflict"
            d == Offered(draft, key, x, owner, reason)
<1>1. TypeOK /\ worker[w].at = "batch"
  BY DEF SinkInv, IngestRecord
<1>2. i \in Instances /\ draft \in Tables
  BY <1>1, BatchFrame
<1>3. key \in Keys /\ key[1] = i
  BY <1>2 DEF Keys
<1>4. c \in Clients \cup {None}
  BY <1>1, <1>2 DEF Resolved, TypeOK, Companions
<1>5. /\ owner \in Clients \cup {Quarantine}
      /\ reason \in Reasons
      /\ owner \in Clients => verified[<<key[1], x>>] = owner
      /\ owner = Quarantine => verified[<<key[1], x>>] = None
  BY <1>3, <1>4, ReservedAssumption DEF Resolved, Reasons
<1>6. DraftGood(draft)
  BY <1>1 DEF SinkInv, DraftOK, DraftGood
<1>7. d \in Tables /\ DraftGood(d)
  <2>. HIDE DEF draft, key, owner, reason
  <2>. QED
    BY <1>1, <1>2, <1>3, <1>5, <1>6, OfferedIsGood
<1>8. Goto(w, [worker[w] EXCEPT !.draft = d])
  BY DEF IngestRecord
<1>9. Goto(w, [at |-> "batch", inst |-> i, draft |-> d])
  <2>. HIDE DEF d
  <2>. QED
    BY <1>1, <1>7, <1>8, BatchFrame
<1>10. \A v \in Workers : worker[v].at = "batch" => v = w
  BY <1>1 DEF SinkInv, DraftOK
<1>11. UNCHANGED <<directory, tables, manual>>
  BY DEF IngestRecord
<1>. QED
  <2>. HIDE DEF i, d
  <2>. QED
    BY <1>2, <1>7, <1>9, <1>10, <1>11, BatchStep

\* The draft becomes the tables: it kept the owners the tables had.
LEMMA IngestCommitStep ==
  ASSUME SinkInv, NEW w \in Workers, IngestCommit(w)
  PROVE  SinkInv' /\ \A k \in Keys : tables.ticket[k].owner \in Clients =>
                       tables'.ticket[k].owner = tables.ticket[k].owner
<1>1. TypeOK /\ worker[w].at = "batch"
  BY DEF SinkInv, IngestCommit
<1>2. /\ tables' = worker[w].draft
      /\ worker' = [worker EXCEPT ![w] = Idle]
      /\ UNCHANGED <<active, instance, mappings, verified, manual>>
  BY DEF IngestCommit, Goto, directory
<1>3. tables' \in Tables
  BY <1>1, <1>2, BatchFrame
<1>4. worker' \in [Workers -> Frames] /\ \A v \in Workers : worker'[v].at # "batch"
  BY <1>1, <1>2, FrameKinds DEF SinkInv, TypeOK, DraftOK
<1>5. TypeOK'
  BY <1>1, <1>2, <1>3, <1>4 DEF TypeOK
<1>6. DraftGood(worker[w].draft)
  BY <1>1 DEF SinkInv, DraftOK, DraftGood
<1>7. RowsOK(tables.ticket)' /\ FollowsMappings(tables.ticket)'
  BY <1>2, <1>6 DEF DraftGood, RowsOK, FollowsMappings
<1>. QED
  BY <1>2, <1>4, <1>5, <1>6, <1>7, NoBatchOpen DEF DraftGood

\* A batch that fails drops its draft.
LEMMA IngestFailsStep ==
  ASSUME SinkInv, NEW w \in Workers, IngestFails(w)
  PROVE  SinkInv'
BY WorkerStep, FrameKinds DEF IngestFails

\* An assignment by hand takes a held ticket and is remembered.
LEMMA ReclassifyStep ==
  ASSUME SinkInv, NEW k \in Keys, NEW c \in Clients, Reclassify(k, c)
  PROVE  SinkInv' /\ \A j \in Keys : tables.ticket[j].owner \in Clients =>
                       tables'.ticket[j].owner = tables.ticket[j].owner
<1>. DEFINE old == tables.ticket
            new == tables'.ticket
<1>1. TypeOK /\ RowsOK(old) /\ FollowsMappings(old)
  BY DEF SinkInv, OwnersFollowMappings
<1>2. tables \in Tables /\ old \in Tickets /\ tables.ledger \in Ledgers
  BY <1>1, TablesParts DEF TypeOK
<1>3. /\ new = [old EXCEPT ![k].owner = c]
      /\ tables'.ledger = tables.ledger
      /\ tables' = [ticket |-> new, ledger |-> tables'.ledger]
  BY <1>2 DEF Reclassify, Tables
<1>4. new \in Tickets
  BY <1>2, <1>3 DEF Tickets, Owners
<1>5. tables' \in Tables
  BY <1>2, <1>3, <1>4, TablesParts
<1>6. /\ UNCHANGED <<active, instance, mappings, verified, worker>>
      /\ manual' = manual \cup {k}
  BY DEF Reclassify, directory
<1>7. TypeOK'
  BY <1>1, <1>5, <1>6 DEF TypeOK
<1>8. /\ \A j \in Keys : j # k => new[j] = old[j]
      /\ new[k].owner = c /\ new[k].company = old[k].company
      /\ old[k].owner = Quarantine
  BY <1>2, <1>3 DEF Reclassify, Tickets
<1>9. RowsOK(tables.ticket)'
  <2>1. old[k].company \in Companies
    BY <1>1, <1>8 DEF RowsOK, Quarantine, None
  <2>. QED
    BY <1>1, <1>8, <2>1 DEF RowsOK
<1>10. FollowsMappings(tables.ticket)'
  <2>1. c # Quarantine
    BY ReservedAssumption
  <2>. QED
    BY <1>1, <1>6, <1>8, <2>1 DEF FollowsMappings
<1>11. \A v \in Workers : worker'[v].at # "batch"
  BY <1>6 DEF Reclassify, Unlocked
<1>. QED
  BY <1>7, <1>8, <1>9, <1>10, <1>11, NoBatchOpen, ReservedAssumption

\* Closing an unmapped record changes no owner.
LEMMA ResolveUnmappedStep ==
  ASSUME SinkInv, NEW k \in Keys, ResolveUnmapped(k)
  PROVE  SinkInv' /\ \A j \in Keys : tables.ticket[j].owner \in Clients =>
                       tables'.ticket[j].owner = tables.ticket[j].owner
<1>1. TypeOK /\ RowsOK(tables.ticket) /\ FollowsMappings(tables.ticket)
  BY DEF SinkInv, OwnersFollowMappings
<1>2. tables \in Tables /\ tables.ticket \in Tickets /\ tables.ledger \in Ledgers
  BY <1>1, TablesParts DEF TypeOK
<1>3. /\ tables'.ticket = tables.ticket
      /\ tables'.ledger = [tables.ledger EXCEPT ![k] = NoRecord]
      /\ tables' = [ticket |-> tables'.ticket, ledger |-> tables'.ledger]
  BY <1>2 DEF ResolveUnmapped, Tables
<1>4. NoRecord \in [company: Companies \cup {None}, reason: Reasons \cup {None}]
  BY DEF NoRecord
<1>5. tables'.ledger \in Ledgers
  BY <1>2, <1>3, <1>4 DEF Ledgers
<1>6. tables' \in Tables
  BY <1>2, <1>3, <1>5, TablesParts
<1>7. UNCHANGED <<active, instance, mappings, verified, worker, manual>>
  BY DEF ResolveUnmapped, directory
<1>8. TypeOK' /\ RowsOK(tables.ticket)' /\ FollowsMappings(tables.ticket)'
  BY <1>1, <1>3, <1>6, <1>7 DEF TypeOK, RowsOK, FollowsMappings
<1>9. \A v \in Workers : worker'[v].at # "batch"
  BY <1>7 DEF ResolveUnmapped, Unlocked
<1>. QED
  BY <1>3, <1>8, <1>9, NoBatchOpen

-----------------------------------------------------------------------------
(***************************************************************************)
(* The theorems.                                                           *)
(***************************************************************************)

\* Before anything happens the invariant holds.
LEMMA InitiallySinkInv == Init => SinkInv
<1>. SUFFICES ASSUME Init PROVE SinkInv
  OBVIOUS
<1>. DEFINE t0 == [k \in Keys |-> NoTicket]
            l0 == [k \in Keys |-> NoRecord]
<1>1. t0 \in Tickets
  BY DEF Tickets, NoTicket, Owners
<1>2. l0 \in Ledgers
  BY DEF Ledgers, NoRecord
<1>3. tables = [ticket |-> t0, ledger |-> l0] /\ tables.ticket = t0
  BY DEF Init
<1>4. tables \in Tables
  BY <1>1, <1>2, <1>3, TablesParts
<1>5. worker \in [Workers -> Frames] /\ \A w \in Workers : worker[w].at # "batch"
  BY FrameKinds DEF Init
<1>6. TypeOK
  BY <1>4, <1>5 DEF Init, TypeOK
<1>7. \A k \in Keys : tables.ticket[k].owner = None
  BY <1>3 DEF NoTicket
<1>8. RowsOK(tables.ticket) /\ FollowsMappings(tables.ticket)
  BY <1>7, ReservedAssumption DEF RowsOK, FollowsMappings, None, Quarantine
<1>. QED
  BY <1>5, <1>6, <1>8 DEF SinkInv, OwnersFollowMappings, DraftOK

\* Every step keeps the invariant, and the owner of every owned ticket.
LEMMA StepKeeps ==
  ASSUME SinkInv, [Next]_vars
  PROVE  /\ SinkInv'
         /\ \A k \in Keys : tables.ticket[k].owner \in Clients =>
              tables'.ticket[k].owner = tables.ticket[k].owner
<1>. DEFINE Kept == \A k \in Keys : tables.ticket[k].owner \in Clients =>
                      tables'.ticket[k].owner = tables.ticket[k].owner
<1>0. UNCHANGED tables => Kept
  OBVIOUS
<1>1. CASE UNCHANGED vars
  <2>1. TypeOK'
    BY <1>1 DEF SinkInv, TypeOK, vars
  <2>. QED
    BY <1>1, <2>1, DirectoryStep DEF vars
<1>2. ASSUME \E c \in Clients : SetClientStatus(c)
      PROVE  SinkInv' /\ Kept
  <2>1. UNCHANGED tables
    BY <1>2 DEF SetClientStatus
  <2>. QED
    BY <1>0, <1>2, <2>1, DirectoryActions
<1>3. ASSUME NEW i \in Instances,
             \/ \E enabled \in BOOLEAN, pin \in Clients \cup {None} :
                  UpdateConnectorInstance(i, enabled, pin)
             \/ \E x \in Companies, c \in Clients : CreateMapping(i, x, c)
      PROVE  SinkInv' /\ Kept
  <2>1. UNCHANGED tables
    BY <1>3 DEF UpdateConnectorInstance, CreateMapping
  <2>. QED
    BY <1>0, <1>3, <2>1, DirectoryActions
<1>4. ASSUME NEW w \in Workers, NEW i \in Instances,
             NEW x \in Companies, NEW c \in Clients, VerifySelect(w, i, x, c)
      PROVE  SinkInv' /\ Kept
  <2>1. UNCHANGED tables
    BY <1>4 DEF VerifySelect
  <2>. QED
    BY <1>0, <1>4, <2>1, VerifySelectStep
<1>5. ASSUME NEW w \in Workers, VerifyCommit(w)
      PROVE  SinkInv' /\ Kept
  BY <1>5, VerifyCommitStep
<1>6. ASSUME NEW w \in Workers, NEW i \in Instances, IngestBegin(w, i)
      PROVE  SinkInv' /\ Kept
  <2>1. UNCHANGED tables
    BY <1>6 DEF IngestBegin
  <2>. QED
    BY <1>0, <1>6, <2>1, IngestBeginStep
<1>7. ASSUME NEW w \in Workers, NEW e \in ExternalIds, NEW x \in Companies,
             IngestRecord(w, e, x)
      PROVE  SinkInv' /\ Kept
  <2>1. UNCHANGED tables
    BY <1>7 DEF IngestRecord
  <2>. QED
    BY <1>0, <1>7, <2>1, IngestRecordStep
<1>8. ASSUME NEW w \in Workers, IngestCommit(w)
      PROVE  SinkInv' /\ Kept
  BY <1>8, IngestCommitStep
<1>9. ASSUME NEW w \in Workers, IngestFails(w)
      PROVE  SinkInv' /\ Kept
  <2>1. UNCHANGED tables
    BY <1>9 DEF IngestFails
  <2>. QED
    BY <1>0, <1>9, <2>1, IngestFailsStep
<1>10. ASSUME NEW k \in Keys, NEW c \in Clients, Reclassify(k, c)
       PROVE  SinkInv' /\ Kept
  BY <1>10, ReclassifyStep
<1>11. ASSUME NEW k \in Keys, ResolveUnmapped(k)
       PROVE  SinkInv' /\ Kept
  BY <1>11, ResolveUnmappedStep
<1>. HIDE DEF Kept
<1>12. ASSUME Next
       PROVE  SinkInv' /\ Kept
  BY <1>2, <1>3, <1>4, <1>5, <1>6, <1>7, <1>8, <1>9, <1>10, <1>11, <1>12 DEF Next
<1>. QED
  BY <1>1, <1>12 DEF Kept

\* The invariant of the sink holds in every reachable state: at most one batch
\* is open, and its draft and the tables keep the rule on owners
\* (ingest_provider_tickets, verify_client_connector_mapping).
THEOREM SinkInvariance == Spec => []SinkInv
<1>1. SinkInv /\ [Next]_vars => SinkInv'
  BY StepKeeps
<1>. QED
  BY <1>1, InitiallySinkInv, PTL DEF Spec

\* A ticket is with a client only through a verified mapping or an operator's
\* hand, and none is left in quarantine under a verified company, however many
\* batches and verifications overlap.
THEOREM OwnershipFollowsMappings == Spec => []OwnersFollowMappings
<1>1. SinkInv => OwnersFollowMappings
  BY DEF SinkInv
<1>. QED
  BY <1>1, SinkInvariance, PTL

\* The first owner of a ticket stays (_upsert_provider_ticket).
THEOREM FirstOwnerStays == Spec => OwnerIsKept
<1>1. SinkInv /\ [Next]_vars =>
        [\A k \in Keys : tables.ticket[k].owner \in Clients =>
           tables'.ticket[k].owner = tables.ticket[k].owner]_vars
  BY StepKeeps
<1>. QED
  BY <1>1, SinkInvariance, PTL DEF Spec, OwnerIsKept
=============================================================================
