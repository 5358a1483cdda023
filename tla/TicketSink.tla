----------------------------- MODULE TicketSink -----------------------------
(***************************************************************************)
(* The provider ticket sink: which client a ticket of a connector belongs  *)
(* to.  A record whose company has a verified mapping is written to the    *)
(* mapped client; any other is held under the quarantine client, and the   *)
(* verification of a mapping moves the tickets held for it.                *)
(*                                                                         *)
(* A batch of records is one BEGIN IMMEDIATE transaction, taken here a     *)
(* record at a time: the worker edits a draft of the tables, which commits *)
(* whole or is dropped, and no other write happens meanwhile.  A method    *)
(* without BEGIN IMMEDIATE takes its SELECTs before that lock.             *)
(*                                                                         *)
(* Ticket text, status history, audit rows, graph seeds and occurrence     *)
(* counts are left out, and tickets without provenance, which this path    *)
(* never touches.                                                          *)
(***************************************************************************)
EXTENDS Naturals

CONSTANTS
  Clients,      \* clients
  Instances,    \* connector instances
  Companies,    \* external company ids
  ExternalIds,  \* ticket ids of a provider
  Workers       \* threads and processes

None == "none"
Quarantine == "__quarantine__"

ASSUME ReservedAssumption == {None, Quarantine} \cap Clients = {}

\* The identity of a provider ticket, and of a company.
Keys == Instances \X ExternalIds
Companions == Instances \X Companies
Reasons == {"no_verified_mapping", "ownership_conflict"}

VARIABLES
  active,    \* the clients with status active
  instance,  \* connector_instances: enabled, and the client it is pinned to
  mappings,  \* client_connector_mappings: all (instance, company, client) rows
  verified,  \* the client of the verified mapping of a company, or None
  tables,    \* ticket: owner and company of each ticket;
             \* ledger: the open unmapped record of each ticket, or None
  worker,    \* where each worker is
  manual     \* history: tickets an operator assigned by hand

vars == <<active, instance, mappings, verified, tables, worker, manual>>

Owners == Clients \cup {Quarantine, None}
Tickets == [Keys -> [owner: Owners, company: Companies \cup {None}]]
Ledgers == [Keys -> [company: Companies \cup {None}, reason: Reasons \cup {None}]]
Tables == [ticket: Tickets, ledger: Ledgers]

NoTicket == [owner |-> None, company |-> None]
NoRecord == [company |-> None, reason |-> None]

Idle == [at |-> "idle"]
Frames ==
  {Idle} \cup [at: {"batch"}, inst: Instances, draft: Tables]
         \cup [at: {"verify"}, inst: Instances, company: Companies, client: Clients]

Init ==
  /\ active = Clients
  /\ instance = [i \in Instances |-> [enabled |-> TRUE, pin |-> None]]
  /\ mappings = {}
  /\ verified = [m \in Companions |-> None]
  /\ tables = [ticket |-> [k \in Keys |-> NoTicket], ledger |-> [k \in Keys |-> NoRecord]]
  /\ worker = [w \in Workers |-> Idle]
  /\ manual = {}

-----------------------------------------------------------------------------
\* No batch holds the write lock.
Unlocked == \A w \in Workers : worker[w].at # "batch"

Goto(w, frame) == worker' = [worker EXCEPT ![w] = frame]
directory == <<active, instance, mappings, verified>>

\* May tickets of instance i be given to client c?
Accepts(i, c) == c \in active /\ instance[i].pin \in {None, c}

-----------------------------------------------------------------------------
(***************************************************************************)
(* The directory: clients, instances, mappings.                            *)
(***************************************************************************)

SetClientStatus(c) ==
  /\ Unlocked
  /\ active' \in {active \cup {c}, active \ {c}}
  /\ UNCHANGED <<instance, mappings, verified, tables, worker, manual>>

UpdateConnectorInstance(i, enabled, pin) ==
  /\ Unlocked
  /\ instance' = [instance EXCEPT ![i] = [enabled |-> enabled, pin |-> pin]]
  /\ UNCHANGED <<active, mappings, verified, tables, worker, manual>>

\* create_client_connector_mapping: a mapping starts unverified.
CreateMapping(i, x, c) ==
  /\ Unlocked
  /\ mappings' = mappings \cup {<<i, x, c>>}
  /\ UNCHANGED <<active, instance, verified, tables, worker, manual>>

\* verify_client_connector_mapping finds the mapping and no other verified one.
VerifySelect(w, i, x, c) ==
  /\ worker[w].at = "idle"
  /\ <<i, x, c>> \in mappings
  /\ verified[<<i, x>>] \in {None, c}
  /\ Goto(w, [at |-> "verify", inst |-> i, company |-> x, client |-> c])
  /\ UNCHANGED <<directory, tables, manual>>

\* The tickets held for a company.
Held(i, x) ==
  {k \in Keys : k[1] = i /\ tables.ticket[k] = [owner |-> Quarantine, company |-> x]}

\* retenant_quarantined_tickets: the held tickets move to c, and their open
\* records for the company are resolved.
Retenanted(i, x, c) ==
  [ticket |-> [k \in Keys |-> IF k \in Held(i, x) THEN [owner |-> c, company |-> x]
                                                  ELSE tables.ticket[k]],
   ledger |-> [k \in Keys |-> IF k \in Held(i, x) /\ tables.ledger[k].company = x
                                THEN NoRecord ELSE tables.ledger[k]]]

\* The UPDATE and the move commit together; they are refused when another
\* mapping of the company was verified meanwhile (the unique index) or when
\* tickets are held and the client cannot take them.
VerifyCommit(w) ==
  LET i == worker[w].inst
      x == worker[w].company
      c == worker[w].client
  IN  /\ worker[w].at = "verify"
      /\ Unlocked
      /\ IF verified[<<i, x>>] \in {None, c} /\ (Held(i, x) # {} => Accepts(i, c))
           THEN /\ verified' = [verified EXCEPT ![<<i, x>>] = c]
                /\ tables' = Retenanted(i, x, c)
           ELSE UNCHANGED <<verified, tables>>
      /\ Goto(w, Idle)
      /\ UNCHANGED <<active, instance, mappings, manual>>

-----------------------------------------------------------------------------
(***************************************************************************)
(* ingest_provider_tickets.                                                *)
(***************************************************************************)

IngestBegin(w, i) ==
  /\ worker[w].at = "idle"
  /\ Unlocked
  /\ instance[i].enabled
  /\ Goto(w, [at |-> "batch", inst |-> i, draft |-> tables])
  /\ UNCHANGED <<directory, tables, manual>>

\* Mutant: a lone unverified mapping is taken for good.
MutResolved(i, x) ==
  IF \E c \in Clients : mappings = {<<i, x, c>>}
    THEN CHOOSE c \in Clients : mappings = {<<i, x, c>>}
    ELSE verified[<<i, x>>]

\* The client of the one verified mapping, or None.
Resolved(i, x) == verified[<<i, x>>]

\* Mutant: the latest mapping decides.
MutMayOwn(row, owner) == TRUE

\* _upsert_provider_ticket writes only over a row of the same owner.
MayOwn(row, owner) == row.owner \in {None, owner}

\* The tables after the ticket is offered to owner; a row that is not written
\* or is written to quarantine is recorded in the ledger.
Offered(draft, k, x, owner, reason) ==
  LET fits == MayOwn(draft.ticket[k], owner)
  IN  [ticket |-> IF fits THEN [draft.ticket EXCEPT ![k] = [owner |-> owner, company |-> x]]
                          ELSE draft.ticket,
       ledger |-> IF fits /\ owner # Quarantine THEN draft.ledger
                  ELSE [draft.ledger EXCEPT ![k] = [company |-> x, reason |-> reason]]]

\* One record: ticket e of company x.
IngestRecord(w, e, x) ==
  LET i == worker[w].inst
      c == Resolved(i, x)
      draft == worker[w].draft
  IN  /\ worker[w].at = "batch"
      /\ \/ /\ c = None
            /\ Goto(w, [worker[w] EXCEPT !.draft =
                 Offered(draft, <<i, e>>, x, Quarantine, "no_verified_mapping")])
         \/ /\ c # None
            /\ Accepts(i, c)
            /\ Goto(w, [worker[w] EXCEPT !.draft =
                 Offered(draft, <<i, e>>, x, c, "ownership_conflict")])
      /\ UNCHANGED <<directory, tables, manual>>

IngestCommit(w) ==
  /\ worker[w].at = "batch"
  /\ tables' = worker[w].draft
  /\ Goto(w, Idle)
  /\ UNCHANGED <<directory, manual>>

\* A malformed record, a client that cannot take the ticket or a crash: the
\* records before it are rolled back too.
IngestFails(w) ==
  /\ worker[w].at = "batch"
  /\ Goto(w, Idle)
  /\ UNCHANGED <<directory, tables, manual>>

-----------------------------------------------------------------------------
(***************************************************************************)
(* The operator.                                                           *)
(***************************************************************************)

\* reclassify_quarantined_ticket: any held ticket, to any active client.
Reclassify(k, c) ==
  /\ Unlocked
  /\ c \in active
  /\ tables.ticket[k].owner = Quarantine
  /\ tables' = [tables EXCEPT !.ticket[k].owner = c]
  /\ manual' = manual \cup {k}
  /\ UNCHANGED <<directory, worker>>

\* resolve_unmapped_record closes the record and leaves the ticket.
ResolveUnmapped(k) ==
  /\ Unlocked
  /\ tables.ledger[k] # NoRecord
  /\ tables' = [tables EXCEPT !.ledger[k] = NoRecord]
  /\ UNCHANGED <<directory, worker, manual>>

-----------------------------------------------------------------------------
Next ==
  \/ \E c \in Clients : SetClientStatus(c)
  \/ \E i \in Instances :
       \/ \E enabled \in BOOLEAN, pin \in Clients \cup {None} :
            UpdateConnectorInstance(i, enabled, pin)
       \/ \E x \in Companies, c \in Clients : CreateMapping(i, x, c)
  \/ \E w \in Workers :
       \/ \E i \in Instances, x \in Companies, c \in Clients : VerifySelect(w, i, x, c)
       \/ VerifyCommit(w)
       \/ \E i \in Instances : IngestBegin(w, i)
       \/ \E e \in ExternalIds, x \in Companies : IngestRecord(w, e, x)
       \/ IngestCommit(w)
       \/ IngestFails(w)
  \/ \E k \in Keys :
       \/ \E c \in Clients : Reclassify(k, c)
       \/ ResolveUnmapped(k)

Spec == Init /\ [][Next]_vars

-----------------------------------------------------------------------------
(***************************************************************************)
(* Properties.                                                             *)
(***************************************************************************)

\* Every variable has its type.
TypeOK ==
  /\ active \subseteq Clients
  /\ instance \in [Instances -> [enabled: BOOLEAN, pin: Clients \cup {None}]]
  /\ mappings \subseteq Instances \X Companies \X Clients
  /\ verified \in [Companions -> Clients \cup {None}]
  /\ tables \in Tables
  /\ worker \in [Workers -> Frames]
  /\ manual \subseteq Keys

\* The owners of tickets follow the mappings of the companies they are recorded
\* under: a client's ticket has the company mapped to it, unless it was assigned
\* by hand; a ticket in quarantine has a company without a verified mapping.
FollowsMappings(ticket) ==
  \A k \in Keys :
    LET mapped == verified[<<k[1], ticket[k].company>>]
    IN  /\ ticket[k].owner \in Clients => k \in manual \/ mapped = ticket[k].owner
        /\ ticket[k].owner = Quarantine => mapped = None

\* A ticket reaches a client only through a verified mapping or an operator's
\* hand, and none stays in quarantine under a company whose mapping is verified:
\* a verification misses no ticket that a batch is just writing, however
\* batches, verifications, status changes and crashes interleave.
OwnersFollowMappings == FollowsMappings(tables.ticket)

\* Once a client owns a ticket no record, verification or operator gives it to
\* another client or back to quarantine, and a dropped batch takes no ticket
\* away (_upsert_provider_ticket preserves the first owner).
OwnerIsKept ==
  [][\A k \in Keys : tables.ticket[k].owner \in Clients =>
       tables'.ticket[k].owner = tables.ticket[k].owner]_vars

\* At most one batch is open, and its draft keeps what the tables keep.
DraftOK ==
  \A w \in Workers : worker[w].at = "batch" =>
    /\ \A v \in Workers : worker[v].at = "batch" => v = w
    /\ FollowsMappings(worker[w].draft.ticket)
    /\ \A k \in Keys : tables.ticket[k].owner \in Clients =>
         worker[w].draft.ticket[k].owner = tables.ticket[k].owner

\* Only an empty row has no company.
RowsOK(ticket) ==
  \A k \in Keys : ticket[k].owner # None => ticket[k].company \in Companies

\* The inductive invariant of the sink: types, the rule on owners, for
\* the tables and for the draft of the one open batch.
SinkInv ==
  /\ TypeOK
  /\ RowsOK(tables.ticket)
  /\ \A w \in Workers : worker[w].at = "batch" => RowsOK(worker[w].draft.ticket)
  /\ OwnersFollowMappings
  /\ DraftOK
=============================================================================
