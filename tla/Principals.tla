----------------------------- MODULE Principals -----------------------------
(***************************************************************************)
(* Principals: their roles, credentials, browser sessions and capability   *)
(* grants, and the store methods that change them.                         *)
(*                                                                         *)
(* A method that checks before it writes is two steps: its SELECTs, which  *)
(* run in autocommit mode, and the transaction of its writes.  Worker w is *)
(* between the two while worker[w].at names the method.                    *)
(*                                                                         *)
(* Calls come from the endpoints and the CLI.  The checks that a caller is *)
(* not its own target are left out: the bootstrap operator and the CLI may *)
(* make every call that they refuse a principal.  Clients exist, display   *)
(* names and audit rows are left out, and a capability key stands for all. *)
(***************************************************************************)
EXTENDS Naturals, FiniteSets

CONSTANTS
  Ids,          \* principal ids
  Clients,      \* clients
  Roles,        \* role labels of a client role
  Credentials,  \* credential hashes, each issued once
  Sessions,     \* session token hashes
  Workers       \* threads and processes that run store methods

Global == "global"   \* the client scope '' of a grant
Nobody == "nobody"
Nothing == "nothing"

ASSUME NamesAssumption ==
  /\ Global \notin Clients
  /\ Nobody \notin Ids
  /\ IsFiniteSet(Ids) /\ IsFiniteSet(Clients)
  /\ IsFiniteSet(Roles) /\ IsFiniteSet(Credentials)

Scopes == Clients \cup {Global}
Kinds == {"customer", "staff"}
Labels == {"idle", "credential", "rotate", "client_role", "global_role", "deactivate",
           "revoke", "revoke_all", "drop_client_role", "drop_global_role",
           "session", "grant"}

VARIABLES
  principal,   \* principals: kind ("absent": no row) and active
  roles,       \* principal_client_roles: (client, role) pairs of each principal
  admins,      \* principal_global_roles: who has msp_admin
  credential,  \* principal_credentials: owner (Nobody: not issued) and active
  session,     \* auth_sessions: owner (Nobody: no row) and live (not revoked)
  grants,      \* principal_capability_grants: the active (principal, scope) rows
  worker       \* the method each worker is in, and its locals

vars == <<principal, roles, admins, credential, session, grants, worker>>
access == <<roles, admins, credential, session, grants>>

Frames == [at: Labels, who: Ids \cup {Nobody},
           item: Credentials \cup Sessions \cup Scopes \cup {Nothing},
           role: Roles \cup {Nothing}]

Frame(label, p, item, role) == [at |-> label, who |-> p, item |-> item, role |-> role]
Idle == Frame("idle", Nobody, Nothing, Nothing)

Init ==
  /\ principal = [p \in Ids |-> [kind |-> "absent", active |-> FALSE]]
  /\ roles = [p \in Ids |-> {}]
  /\ admins = {}
  /\ credential = [k \in Credentials |-> [owner |-> Nobody, active |-> FALSE]]
  /\ session = [s \in Sessions |-> [owner |-> Nobody, live |-> FALSE]]
  /\ grants = {}
  /\ worker = [w \in Workers |-> Idle]

-----------------------------------------------------------------------------
Exists(p) == principal[p].kind # "absent"
ActiveCredentials(p) == {k \in Credentials : credential[k].owner = p /\ credential[k].active}
ClientsOf(p) == {m[1] : m \in roles[p]}

\* An active principal with msp_admin and an active credential.
UsableAdmins == {p \in admins : principal[p].active /\ ActiveCredentials(p) # {}}

\* Mutant: the credentials of the principal are counted, not the principals.
MutGuardPasses(p, one) ==
  p \in UsableAdmins => Cardinality(ActiveCredentials(p)) > 1 \/ Cardinality(UsableAdmins) > 1

\* _guard_last_msp_admin does not raise; one: a single credential is revoked.
GuardPasses(p, one) ==
  \/ p \notin UsableAdmins
  \/ one /\ Cardinality(ActiveCredentials(p)) > 1
  \/ Cardinality(UsableAdmins) > 1

\* A method's SELECTs let it go on to its writes.
Begin(w, label, p, item, role) ==
  /\ worker[w].at = "idle"
  /\ Exists(p)
  /\ worker' = [worker EXCEPT ![w] = Frame(label, p, item, role)]
  /\ UNCHANGED <<principal, access>>

\* Its transaction commits, or raises and leaves no trace.
At(w, label) ==
  /\ worker[w].at = label
  /\ worker' = [worker EXCEPT ![w] = Idle]

\* Rows after one for p is inserted, its credentials or sessions are ended.
Issued(rows, k, p) == [rows EXCEPT ![k] = [owner |-> p, active |-> TRUE]]
RevokedOf(p) ==
  [k \in Credentials |-> [credential[k] EXCEPT !.active = @ /\ credential[k].owner # p]]
SignedOutOf(p) ==
  [s \in Sessions |-> [session[s] EXCEPT !.live = @ /\ session[s].owner # p]]

-----------------------------------------------------------------------------
(***************************************************************************)
(* Creation.                                                               *)
(***************************************************************************)

\* create_principal: the CLI creates a principal without any access.
CreatePrincipal(p, kind) ==
  /\ ~Exists(p)
  /\ principal' = [principal EXCEPT ![p] = [kind |-> kind, active |-> TRUE]]
  /\ UNCHANGED <<access, worker>>

\* A customer has one client role and is no administrator.
MayCreate(kind, memberships, admin) ==
  kind = "customer" => ~admin /\ Cardinality(memberships) = 1

\* create_principal_with_access: principal, roles and credential together.
CreateWithAccess(p, kind, memberships, admin, issue) ==
  /\ ~Exists(p)
  /\ MayCreate(kind, memberships, admin)
  /\ principal' = [principal EXCEPT ![p] = [kind |-> kind, active |-> TRUE]]
  /\ roles' = [roles EXCEPT ![p] = memberships]
  /\ admins' = IF admin THEN admins \cup {p} ELSE admins
  /\ \/ ~issue /\ UNCHANGED credential
     \/ \E k \in Credentials :
          issue /\ credential[k].owner = Nobody /\ credential' = Issued(credential, k, p)
  /\ UNCHANGED <<session, grants, worker>>

-----------------------------------------------------------------------------
(***************************************************************************)
(* Credentials.                                                            *)
(***************************************************************************)

\* Mutant: inactive principals are not refused.
MutIsActive(p) == TRUE

IsActive(p) == principal[p].active

\* add_principal_credential and rotate_principal_credential.
AddCredential(w, p) ==
  \E label \in {"credential", "rotate"} : IsActive(p) /\ Begin(w, label, p, Nothing, Nothing)

AddCredentialCommit(w) ==
  /\ At(w, "credential")
  /\ \E k \in Credentials :
       credential[k].owner = Nobody /\ credential' = Issued(credential, k, worker[w].who)
  /\ UNCHANGED <<principal, roles, admins, session, grants>>

RotateCommit(w) ==
  /\ At(w, "rotate")
  /\ \E k \in Credentials :
       /\ credential[k].owner = Nobody
       /\ credential' = Issued(RevokedOf(worker[w].who), k, worker[w].who)
  /\ UNCHANGED <<principal, roles, admins, session, grants>>

\* revoke_principal_credential: only an active one is guarded.
RevokeCredential(w, k) ==
  LET p == credential[k].owner
  IN  /\ p # Nobody
      /\ credential[k].active => GuardPasses(p, TRUE)
      /\ Begin(w, "revoke", p, k, Nothing)

RevokeCommit(w) ==
  /\ At(w, "revoke")
  /\ credential' = [credential EXCEPT ![worker[w].item].active = FALSE]
  /\ UNCHANGED <<principal, roles, admins, session, grants>>

RevokeAllCredentials(w, p) ==
  GuardPasses(p, FALSE) /\ Begin(w, "revoke_all", p, Nothing, Nothing)

RevokeAllCommit(w) ==
  /\ At(w, "revoke_all")
  /\ credential' = RevokedOf(worker[w].who)
  /\ UNCHANGED <<principal, roles, admins, session, grants>>

-----------------------------------------------------------------------------
(***************************************************************************)
(* Activation.                                                             *)
(***************************************************************************)

\* set_principal_active(TRUE): an UPDATE by id alone.
Activate(p) ==
  /\ Exists(p)
  /\ principal' = [principal EXCEPT ![p].active = TRUE]
  /\ UNCHANGED <<access, worker>>

Deactivate(w, p) ==
  GuardPasses(p, FALSE) /\ Begin(w, "deactivate", p, Nothing, Nothing)

\* Credentials, grants and sessions end with it, in one transaction.
DeactivateCommit(w) ==
  LET p == worker[w].who
  IN  /\ At(w, "deactivate")
      /\ principal' = [principal EXCEPT ![p].active = FALSE]
      /\ credential' = RevokedOf(p)
      /\ grants' = grants \ ({p} \X Scopes)
      /\ session' = SignedOutOf(p)
      /\ UNCHANGED <<roles, admins>>

-----------------------------------------------------------------------------
(***************************************************************************)
(* Roles.                                                                  *)
(***************************************************************************)

\* A customer belongs to one client.
AddClientRole(w, p, c, role) ==
  /\ principal[p].kind = "customer" => ClientsOf(p) \subseteq {c}
  /\ Begin(w, "client_role", p, c, role)

\* A row that exists already is an IntegrityError.
AddClientRoleCommit(w) ==
  /\ At(w, "client_role")
  /\ roles' = [roles EXCEPT ![worker[w].who] = @ \cup {<<worker[w].item, worker[w].role>>}]
  /\ UNCHANGED <<principal, admins, credential, session, grants>>

AddGlobalRole(w, p) ==
  principal[p].kind = "staff" /\ Begin(w, "global_role", p, Global, Nothing)

\* Mutant: the statement binds its parameters in the wrong order.
MutAddGlobalRoleCommit(w) ==
  /\ At(w, "global_role")
  /\ admins' = admins \cup {worker[w].item}
  /\ UNCHANGED <<principal, roles, credential, session, grants>>

AddGlobalRoleCommit(w) ==
  /\ At(w, "global_role")
  /\ admins' = admins \cup {worker[w].who}
  /\ UNCHANGED <<principal, roles, credential, session, grants>>

\* An active principal keeps a client role or msp_admin.
RemoveClientRole(w, p, c, role) ==
  /\ <<c, role>> \in roles[p]
  /\ principal[p].active => roles[p] # {<<c, role>>} \/ p \in admins
  /\ Begin(w, "drop_client_role", p, c, role)

\* Mutant: a grant survives the role it rests on.
MutWithoutScope(p, c) == grants

WithoutScope(p, c) == grants \ {<<p, c>>}

\* A row that is gone by now is a KeyError; the grants for the client end,
\* also when the principal has another role there.
RemoveClientRoleCommit(w) ==
  LET p == worker[w].who
      row == <<worker[w].item, worker[w].role>>
  IN  /\ At(w, "drop_client_role")
      /\ roles' = [roles EXCEPT ![p] = @ \ {row}]
      /\ grants' = IF row \in roles[p] THEN WithoutScope(p, worker[w].item) ELSE grants
      /\ UNCHANGED <<principal, admins, credential, session>>

RemoveGlobalRole(w, p) ==
  /\ p \in admins
  /\ GuardPasses(p, FALSE)
  /\ principal[p].active => roles[p] # {}
  /\ Begin(w, "drop_global_role", p, Global, Nothing)

RemoveGlobalRoleCommit(w) ==
  LET p == worker[w].who
  IN  /\ At(w, "drop_global_role")
      /\ admins' = admins \ {p}
      /\ grants' = IF p \in admins THEN WithoutScope(p, Global) ELSE grants
      /\ UNCHANGED <<principal, roles, credential, session>>

-----------------------------------------------------------------------------
(***************************************************************************)
(* Sessions.                                                               *)
(***************************************************************************)

\* create_auth_session, after a login with a credential or by OIDC.
CreateSession(w, p) == IsActive(p) /\ Begin(w, "session", p, Nothing, Nothing)

CreateSessionCommit(w) ==
  /\ At(w, "session")
  /\ \E s \in Sessions :
       /\ session[s].owner = Nobody
       /\ session' = [session EXCEPT ![s] = [owner |-> worker[w].who, live |-> TRUE]]
  /\ UNCHANGED <<principal, roles, admins, credential, grants>>

\* revoke_auth_session, at logout.
RevokeSession(s) ==
  /\ session[s].owner # Nobody
  /\ session' = [session EXCEPT ![s].live = FALSE]
  /\ UNCHANGED <<principal, roles, admins, credential, grants, worker>>

\* get_auth_session deletes a session past its expiry; touch_auth_session
\* only moves that moment.
ExpireSession(s) ==
  /\ session[s].owner # Nobody
  /\ session' = [session EXCEPT ![s] = [owner |-> Nobody, live |-> FALSE]]
  /\ UNCHANGED <<principal, roles, admins, credential, grants, worker>>

-----------------------------------------------------------------------------
(***************************************************************************)
(* Capability grants.                                                      *)
(***************************************************************************)

\* _validate_grant_target.
MayGrant(p, scope) ==
  /\ IsActive(p)
  /\ p \in admins \/ scope \in ClientsOf(p)

Grant(w, p, scope) == MayGrant(p, scope) /\ Begin(w, "grant", p, scope, Nothing)

GrantCommit(w) ==
  /\ At(w, "grant")
  /\ grants' = grants \cup {<<worker[w].who, worker[w].item>>}
  /\ UNCHANGED <<principal, roles, admins, credential, session>>

\* revoke_capability: an UPDATE alone.
RevokeGrant(p, scope) ==
  /\ <<p, scope>> \in grants
  /\ grants' = grants \ {<<p, scope>>}
  /\ UNCHANGED <<principal, roles, admins, credential, session, worker>>

-----------------------------------------------------------------------------
Commit(w) ==
  \/ AddCredentialCommit(w) \/ RotateCommit(w)
  \/ RevokeCommit(w) \/ RevokeAllCommit(w) \/ DeactivateCommit(w)
  \/ AddClientRoleCommit(w) \/ AddGlobalRoleCommit(w)
  \/ RemoveClientRoleCommit(w) \/ RemoveGlobalRoleCommit(w)
  \/ CreateSessionCommit(w) \/ GrantCommit(w)

\* A worker that is in no method begins one.
Select(w) ==
  /\ worker[w].at = "idle"
  /\ \/ \E p \in Ids :
          \/ AddCredential(w, p) \/ RevokeAllCredentials(w, p) \/ Deactivate(w, p)
          \/ AddGlobalRole(w, p) \/ RemoveGlobalRole(w, p) \/ CreateSession(w, p)
          \/ \E c \in Clients, role \in Roles :
               AddClientRole(w, p, c, role) \/ RemoveClientRole(w, p, c, role)
          \/ \E scope \in Scopes : Grant(w, p, scope)
     \/ \E k \in Credentials : RevokeCredential(w, k)

\* The two ways to create a principal under an unused id.
Create(p) ==
  /\ ~Exists(p)
  /\ \E kind \in Kinds :
       \/ CreatePrincipal(p, kind)
       \/ \E memberships \in SUBSET (Clients \X Roles), admin, issue \in BOOLEAN :
            CreateWithAccess(p, kind, memberships, admin, issue)

Next ==
  \/ \E w \in Workers : Commit(w) \/ Select(w)
  \/ \E p \in Ids :
       \/ Create(p) \/ Activate(p)
       \/ \E scope \in Scopes : RevokeGrant(p, scope)
  \/ \E s \in Sessions : RevokeSession(s) \/ ExpireSession(s)

Spec == Init /\ [][Next]_vars

-----------------------------------------------------------------------------
(***************************************************************************)
(* Properties.                                                             *)
(***************************************************************************)

\* Every variable has its type.
TypeOK ==
  /\ principal \in [Ids -> [kind: Kinds \cup {"absent"}, active: BOOLEAN]]
  /\ roles \in [Ids -> SUBSET (Clients \X Roles)]
  /\ admins \in SUBSET Ids
  /\ credential \in [Credentials -> [owner: Ids \cup {Nobody}, active: BOOLEAN]]
  /\ session \in [Sessions -> [owner: Ids \cup {Nobody}, live: BOOLEAN]]
  /\ grants \in SUBSET (Ids \X Scopes)
  /\ worker \in [Workers -> Frames]

\* One call at a time: once somebody can administer the appliance with a
\* credential of his own, somebody always can, whichever of the four ways to
\* lose access is taken in whichever order (_guard_last_msp_admin).
AdminRemains == [][UsableAdmins # {} => UsableAdmins' # {}]_vars

\* One call at a time: nothing of a deactivated principal is left that would
\* give access once it is activated again: no active credential, no session
\* that is not revoked, no active grant (deactivate_principal).
InactiveIsShutOut ==
  \A p \in Ids : ~principal[p].active =>
    /\ ActiveCredentials(p) = {}
    /\ \A s \in Sessions : ~(session[s].owner = p /\ session[s].live)
    /\ grants \cap ({p} \X Scopes) = {}

\* One call at a time: a customer never reaches beyond one client: it has
\* roles at no second one, is no administrator, and holds grants only for a
\* client where it has a role; a global grant is held by administrators only.
ConfinedToItsClient ==
  /\ \A p \in Ids : principal[p].kind = "customer" =>
       /\ Cardinality(ClientsOf(p)) < 2
       /\ p \notin admins
       /\ \A scope \in Scopes : <<p, scope>> \in grants => scope \in ClientsOf(p)
  /\ \A p \in Ids : <<p, Global>> \in grants => p \in admins

\* Nothing belongs to an id without a row.
AbsentIsEmpty ==
  \A p \in Ids : ~Exists(p) =>
    /\ ~principal[p].active
    /\ roles[p] = {}
    /\ p \notin admins

\* What a method's SELECTs found still holds at its writes.
FrameOK(frame) ==
  LET p == frame.who
  IN  frame.at # "idle" =>
        /\ p \in Ids
        /\ Exists(p)
        /\ frame.at \in {"credential", "rotate", "session"} => IsActive(p)
        /\ frame.at = "revoke" =>
             /\ frame.item \in Credentials
             /\ credential[frame.item].owner = p
             /\ credential[frame.item].active => GuardPasses(p, TRUE)
        /\ frame.at \in {"revoke_all", "deactivate", "drop_global_role"} =>
             GuardPasses(p, FALSE)
        /\ frame.at \in {"client_role", "drop_client_role"} =>
             frame.item \in Clients /\ frame.role \in Roles
        /\ frame.at = "client_role" /\ principal[p].kind = "customer" =>
             ClientsOf(p) \subseteq {frame.item}
        /\ frame.at = "global_role" => principal[p].kind = "staff"
        /\ frame.at = "grant" => frame.item \in Scopes /\ MayGrant(p, frame.item)

\* The inductive invariant for one worker.
PrincipalsInv ==
  /\ TypeOK
  /\ AbsentIsEmpty
  /\ InactiveIsShutOut
  /\ ConfinedToItsClient
  /\ \A w \in Workers : FrameOK(worker[w])
=============================================================================
