-------------------------- MODULE PrincipalsProofs --------------------------
(***************************************************************************)
(* Proofs about Principals, for any finite numbers of principals, clients, *)
(* roles and credentials, and for store methods that do not overlap.       *)
(*                                                                         *)
(* The code counts rows.  The first part puts what its counts decide into  *)
(* quantifiers, which is the form the rest of the proof works with.        *)
(***************************************************************************)
EXTENDS Principals, FiniteSetTheorems, TLAPS

\* One call at a time: no two workers.
OneAtATime == \A v, w \in Workers : v = w

-----------------------------------------------------------------------------
(***************************************************************************)
(* Counting.                                                               *)
(***************************************************************************)

\* More than one, and fewer than two, elements of a finite set.
LEMMA MoreThanOne ==
  ASSUME NEW S, IsFiniteSet(S)
  PROVE  /\ Cardinality(S) > 1 <=> \E x, y \in S : x # y
         /\ Cardinality(S) < 2 <=> \A x, y \in S : x = y
<1>1. Cardinality(S) \in Nat
  BY FS_CardinalityType
<1>2. Cardinality(S) = 0 <=> S = {}
  BY FS_EmptySet
<1>3. Cardinality(S) = 1 <=> \E x : S = {x}
  BY FS_Singleton
<1>4. Cardinality(S) < 2 <=> \A x, y \in S : x = y
  <2>1. ASSUME \A x, y \in S : x = y, S # {}
        PROVE  \E x : S = {x}
    <3>1. PICK z : z \in S
      BY <2>1
    <3>2. S = {z}
      BY <2>1, <3>1
    <3>. QED
      BY <3>2
  <2>2. (\A x, y \in S : x = y) => S = {} \/ \E x : S = {x}
    BY <2>1
  <2>3. S = {} \/ (\E x : S = {x}) => \A x, y \in S : x = y
    OBVIOUS
  <2>4. Cardinality(S) < 2 <=> Cardinality(S) = 0 \/ Cardinality(S) = 1
    BY <1>1
  <2>. QED
    BY <1>2, <1>3, <2>2, <2>3, <2>4
<1>5. Cardinality(S) > 1 <=> ~(Cardinality(S) < 2)
  BY <1>1
<1>. QED
  BY <1>4, <1>5

\* p can administer the appliance; somebody else can if p can; p has two
\* active credentials; p has roles at one client at most.
CanAdminister(p) ==
  /\ p \in admins
  /\ principal[p].active
  /\ \E k \in Credentials : credential[k].owner = p /\ credential[k].active
OthersRemain(p) ==
  CanAdminister(p) => \E q \in Ids : q # p /\ CanAdminister(q)
HasSpare(p) ==
  \E j, k \in Credentials :
    /\ j # k
    /\ credential[j].owner = p /\ credential[j].active
    /\ credential[k].owner = p /\ credential[k].active
OneClient(p) == \A m, n \in roles[p] : m[1] = n[1]

\* The administrators the guard counts.
LEMMA UsableAreThose ==
  ASSUME TypeOK
  PROVE  \A p : p \in UsableAdmins <=> p \in Ids /\ CanAdminister(p)
BY DEF TypeOK, UsableAdmins, ActiveCredentials, CanAdminister

\* What _guard_last_msp_admin decides by counting.
LEMMA GuardMeans ==
  ASSUME TypeOK, NEW p \in Ids
  PROVE  /\ GuardPasses(p, FALSE) <=> OthersRemain(p)
         /\ GuardPasses(p, TRUE) <=> OthersRemain(p) \/ HasSpare(p)
<1>1. IsFiniteSet(UsableAdmins)
  <2>1. UsableAdmins \in SUBSET Ids
    BY UsableAreThose
  <2>. QED
    BY <2>1, NamesAssumption, FS_Subset
<1>2. IsFiniteSet(ActiveCredentials(p))
  <2>1. ActiveCredentials(p) \in SUBSET Credentials
    BY DEF ActiveCredentials
  <2>. QED
    BY <2>1, NamesAssumption, FS_Subset
<1>3. Cardinality(UsableAdmins) > 1 <=> \E x, y \in UsableAdmins : x # y
  BY <1>1, MoreThanOne
<1>4. Cardinality(ActiveCredentials(p)) > 1 <=> HasSpare(p)
  <2>1. Cardinality(ActiveCredentials(p)) > 1 <=> \E x, y \in ActiveCredentials(p) : x # y
    BY <1>2, MoreThanOne
  <2>. QED
    BY <2>1 DEF HasSpare, ActiveCredentials
<1>5. p \notin UsableAdmins \/ Cardinality(UsableAdmins) > 1 <=> OthersRemain(p)
  BY <1>3, UsableAreThose DEF OthersRemain
<1>. QED
  BY <1>4, <1>5 DEF GuardPasses

\* What the count of a customer's clients decides.
LEMMA OneClientMeans ==
  ASSUME TypeOK, NEW p \in Ids
  PROVE  Cardinality(ClientsOf(p)) < 2 <=> OneClient(p)
<1>1. ClientsOf(p) \in SUBSET Clients
  BY DEF TypeOK, ClientsOf
<1>2. IsFiniteSet(ClientsOf(p))
  BY <1>1, NamesAssumption, FS_Subset
<1>3. Cardinality(ClientsOf(p)) < 2 <=> \A x, y \in ClientsOf(p) : x = y
  BY <1>2, MoreThanOne
<1>. QED
  BY <1>3 DEF OneClient, ClientsOf

-----------------------------------------------------------------------------
(***************************************************************************)
(* The invariant without counts.                                           *)
(***************************************************************************)
ShutOut ==
  \A p \in Ids : ~principal[p].active =>
    /\ \A k \in Credentials : ~(credential[k].owner = p /\ credential[k].active)
    /\ \A s \in Sessions : ~(session[s].owner = p /\ session[s].live)
    /\ \A scope \in Scopes : <<p, scope>> \notin grants

Confined ==
  /\ \A p \in Ids : principal[p].kind = "customer" =>
       /\ OneClient(p)
       /\ p \notin admins
       /\ \A scope \in Scopes : <<p, scope>> \in grants => scope \in ClientsOf(p)
  /\ \A p \in Ids : <<p, Global>> \in grants => p \in admins

Ready(frame) ==
  LET p == frame.who
  IN  frame.at # "idle" =>
        /\ p \in Ids
        /\ Exists(p)
        /\ frame.at \in {"credential", "rotate", "session"} => IsActive(p)
        /\ frame.at = "revoke" =>
             /\ frame.item \in Credentials
             /\ credential[frame.item].owner = p
             /\ credential[frame.item].active => OthersRemain(p) \/ HasSpare(p)
        /\ frame.at \in {"revoke_all", "deactivate", "drop_global_role"} =>
             OthersRemain(p)
        /\ frame.at \in {"client_role", "drop_client_role"} =>
             frame.item \in Clients /\ frame.role \in Roles
        /\ frame.at = "client_role" /\ principal[p].kind = "customer" =>
             ClientsOf(p) \subseteq {frame.item}
        /\ frame.at = "global_role" => principal[p].kind = "staff"
        /\ frame.at = "grant" => frame.item \in Scopes /\ MayGrant(p, frame.item)

TablesInv == TypeOK /\ AbsentIsEmpty /\ ShutOut /\ Confined
FlatInv == TablesInv /\ \A w \in Workers : Ready(worker[w])

\* The quantified form says the same as the invariant that counts.
LEMMA FlatMeans == FlatInv <=> PrincipalsInv
<1>. SUFFICES ASSUME TypeOK PROVE FlatInv <=> PrincipalsInv
  BY DEF FlatInv, TablesInv, PrincipalsInv
<1>1. ShutOut <=> InactiveIsShutOut
  <2>1. \A p \in Ids : ActiveCredentials(p) = {} <=>
          \A k \in Credentials : ~(credential[k].owner = p /\ credential[k].active)
    BY DEF ActiveCredentials
  <2>2. \A p \in Ids : grants \cap ({p} \X Scopes) = {} <=>
          \A scope \in Scopes : <<p, scope>> \notin grants
    OBVIOUS
  <2>. QED
    BY <2>1, <2>2 DEF ShutOut, InactiveIsShutOut
<1>2. Confined <=> ConfinedToItsClient
  BY OneClientMeans DEF Confined, ConfinedToItsClient
<1>3. ASSUME NEW w \in Workers
      PROVE  Ready(worker[w]) <=> FrameOK(worker[w])
  <2>1. CASE worker[w].who \in Ids
    BY <2>1, GuardMeans DEF Ready, FrameOK
  <2>2. CASE worker[w].who \notin Ids
    BY <2>2 DEF Ready, FrameOK
  <2>. QED
    BY <2>1, <2>2
<1>. QED
  BY <1>1, <1>2, <1>3 DEF FlatInv, TablesInv, PrincipalsInv

-----------------------------------------------------------------------------
(***************************************************************************)
(* A method's SELECTs.                                                     *)
(***************************************************************************)

\* A worker that begins a method keeps the invariant if it is ready for it.
LEMMA BeginStep ==
  ASSUME FlatInv, NEW w \in Workers, NEW label \in Labels, NEW p \in Ids,
         NEW item \in Credentials \cup Sessions \cup Scopes \cup {Nothing},
         NEW role \in Roles \cup {Nothing},
         Begin(w, label, p, item, role), Ready(Frame(label, p, item, role))
  PROVE  FlatInv'
<1>. DEFINE f == Frame(label, p, item, role)
<1>1. f \in Frames
  BY DEF Frame, Frames
<1>2. /\ worker' = [worker EXCEPT ![w] = f]
      /\ UNCHANGED <<principal, roles, admins, credential, session, grants>>
  BY DEF Begin, access
<1>3. TypeOK' /\ AbsentIsEmpty' /\ ShutOut' /\ Confined'
  BY <1>1, <1>2 DEF FlatInv, TablesInv, TypeOK, AbsentIsEmpty, ShutOut, Confined, Exists,
     OneClient, ClientsOf
<1>4. \A k : Ready(k)' <=> Ready(k)
  BY <1>2 DEF Ready, Exists, IsActive, OthersRemain, HasSpare, CanAdminister, ClientsOf, MayGrant
<1>5. \A v \in Workers : worker'[v] = IF v = w THEN f ELSE worker[v]
  BY <1>2 DEF FlatInv, TablesInv, TypeOK
<1>6. ASSUME NEW v \in Workers
      PROVE  Ready(worker'[v])
  BY <1>5 DEF FlatInv
<1>7. \A v \in Workers : Ready(worker[v])'
  BY <1>4, <1>6
<1>. QED
  BY <1>3, <1>7 DEF FlatInv, TablesInv

\* The checks of a method pass only on what its commit may rely on.
LEMMA SelectStep ==
  ASSUME FlatInv, NEW w \in Workers, Select(w)
  PROVE  FlatInv'
<1>0. TypeOK
  BY DEF FlatInv, TablesInv
<1>1. ASSUME NEW p \in Ids, AddCredential(w, p) \/ CreateSession(w, p)
      PROVE  FlatInv'
  <2>1. PICK label \in {"credential", "rotate", "session"} :
          IsActive(p) /\ Begin(w, label, p, Nothing, Nothing)
    BY <1>1 DEF AddCredential, CreateSession
  <2>2. Ready(Frame(label, p, Nothing, Nothing))
    BY <2>1 DEF Ready, Frame, Begin
  <2>. QED
    BY <2>1, <2>2, BeginStep DEF Labels
<1>2. ASSUME NEW p \in Ids, RevokeAllCredentials(w, p) \/ Deactivate(w, p)
      PROVE  FlatInv'
  <2>1. PICK label \in {"revoke_all", "deactivate"} :
          GuardPasses(p, FALSE) /\ Begin(w, label, p, Nothing, Nothing)
    BY <1>2 DEF RevokeAllCredentials, Deactivate
  <2>2. Ready(Frame(label, p, Nothing, Nothing))
    BY <1>0, <2>1, GuardMeans DEF Ready, Frame, Begin
  <2>. QED
    BY <2>1, <2>2, BeginStep DEF Labels
<1>3. ASSUME NEW p \in Ids, AddGlobalRole(w, p)
      PROVE  FlatInv'
  <2>1. principal[p].kind = "staff" /\ Begin(w, "global_role", p, Global, Nothing)
    BY <1>3 DEF AddGlobalRole
  <2>2. Ready(Frame("global_role", p, Global, Nothing))
    BY <2>1 DEF Ready, Frame, Begin
  <2>. QED
    BY <2>1, <2>2, BeginStep DEF Labels, Scopes
<1>4. ASSUME NEW p \in Ids, RemoveGlobalRole(w, p)
      PROVE  FlatInv'
  <2>1. GuardPasses(p, FALSE) /\ Begin(w, "drop_global_role", p, Global, Nothing)
    BY <1>4 DEF RemoveGlobalRole
  <2>2. Ready(Frame("drop_global_role", p, Global, Nothing))
    BY <1>0, <2>1, GuardMeans DEF Ready, Frame, Begin
  <2>. QED
    BY <2>1, <2>2, BeginStep DEF Labels, Scopes
<1>5. ASSUME NEW p \in Ids, NEW c \in Clients, NEW role \in Roles,
             AddClientRole(w, p, c, role)
      PROVE  FlatInv'
  <2>1. /\ principal[p].kind = "customer" => ClientsOf(p) \subseteq {c}
        /\ Begin(w, "client_role", p, c, role)
    BY <1>5 DEF AddClientRole
  <2>2. Ready(Frame("client_role", p, c, role))
    BY <2>1 DEF Ready, Frame, Begin
  <2>. QED
    BY <2>1, <2>2, BeginStep DEF Labels, Scopes
<1>6. ASSUME NEW p \in Ids, NEW c \in Clients, NEW role \in Roles,
             RemoveClientRole(w, p, c, role)
      PROVE  FlatInv'
  <2>1. Begin(w, "drop_client_role", p, c, role)
    BY <1>6 DEF RemoveClientRole
  <2>2. Ready(Frame("drop_client_role", p, c, role))
    BY <2>1 DEF Ready, Frame, Begin
  <2>. QED
    BY <2>1, <2>2, BeginStep DEF Labels, Scopes
<1>7. ASSUME NEW p \in Ids, NEW scope \in Scopes, Grant(w, p, scope)
      PROVE  FlatInv'
  <2>1. MayGrant(p, scope) /\ Begin(w, "grant", p, scope, Nothing)
    BY <1>7 DEF Grant
  <2>2. Ready(Frame("grant", p, scope, Nothing))
    BY <2>1 DEF Ready, Frame, Begin
  <2>. QED
    BY <2>1, <2>2, BeginStep DEF Labels
<1>8. ASSUME NEW k \in Credentials, RevokeCredential(w, k)
      PROVE  FlatInv'
  <2>. DEFINE p == credential[k].owner
  <2>1. /\ p \in Ids
        /\ credential[k].active => GuardPasses(p, TRUE)
        /\ Begin(w, "revoke", p, k, Nothing)
    BY <1>0, <1>8 DEF RevokeCredential, TypeOK
  <2>2. credential[k].active => OthersRemain(p) \/ HasSpare(p)
    BY <1>0, <2>1, GuardMeans
  <2>3. Ready(Frame("revoke", p, k, Nothing))
    BY <2>1, <2>2 DEF Ready, Frame, Begin
  <2>. QED
    BY <2>1, <2>3, BeginStep DEF Labels
<1>. QED
  BY <1>1, <1>2, <1>3, <1>4, <1>5, <1>6, <1>7, <1>8 DEF Select

-----------------------------------------------------------------------------
(***************************************************************************)
(* A method's transaction.                                                 *)
(***************************************************************************)

\* When methods do not overlap, every worker is idle after a commit.
LEMMA CommitStep ==
  ASSUME OneAtATime, TypeOK, NEW w \in Workers,
         worker' = [worker EXCEPT ![w] = Idle], TablesInv'
  PROVE  FlatInv'
<1>1. \A v \in Workers : worker'[v] = Idle
  BY DEF OneAtATime, TypeOK
<1>2. \A v \in Workers : Ready(worker[v])'
  BY <1>1 DEF Ready, Idle, Frame
<1>. QED
  BY <1>2 DEF FlatInv

\* ... and the types of the workers' locals.
LEMMA IdleFrames ==
  ASSUME TypeOK, NEW w \in Workers, worker' = [worker EXCEPT ![w] = Idle]
  PROVE  worker' \in [Workers -> Frames]
<1>1. Idle \in Frames
  BY DEF Idle, Frame, Frames, Labels
<1>. QED
  BY <1>1 DEF TypeOK
\* The rows after all credentials, or all sessions, of p have ended.
LEMMA EndedRows ==
  ASSUME TypeOK, NEW p
  PROVE  /\ RevokedOf(p) \in [Credentials -> [owner: Ids \cup {Nobody}, active: BOOLEAN]]
         /\ \A k \in Credentials :
              /\ RevokedOf(p)[k].owner = credential[k].owner
              /\ RevokedOf(p)[k].active <=> credential[k].active /\ credential[k].owner # p
         /\ SignedOutOf(p) \in [Sessions -> [owner: Ids \cup {Nobody}, live: BOOLEAN]]
         /\ \A s \in Sessions :
              /\ SignedOutOf(p)[s].owner = session[s].owner
              /\ SignedOutOf(p)[s].live <=> session[s].live /\ session[s].owner # p
<1>1. \A k \in Credentials : credential[k] \in [owner: Ids \cup {Nobody}, active: BOOLEAN]
  BY DEF TypeOK
<1>2. \A s \in Sessions : session[s] \in [owner: Ids \cup {Nobody}, live: BOOLEAN]
  BY DEF TypeOK
<1>3. ASSUME NEW r \in [owner: Ids \cup {Nobody}, active: BOOLEAN], NEW b \in BOOLEAN
      PROVE  /\ [r EXCEPT !.active = b] \in [owner: Ids \cup {Nobody}, active: BOOLEAN]
             /\ [r EXCEPT !.active = b].owner = r.owner
             /\ [r EXCEPT !.active = b].active <=> b
  OBVIOUS
<1>4. ASSUME NEW r \in [owner: Ids \cup {Nobody}, live: BOOLEAN], NEW b \in BOOLEAN
      PROVE  /\ [r EXCEPT !.live = b] \in [owner: Ids \cup {Nobody}, live: BOOLEAN]
             /\ [r EXCEPT !.live = b].owner = r.owner
             /\ [r EXCEPT !.live = b].live <=> b
  OBVIOUS
<1>5. \A k \in Credentials :
        RevokedOf(p)[k] = [credential[k] EXCEPT !.active =
                             credential[k].active /\ credential[k].owner # p]
  BY DEF RevokedOf
<1>6. \A s \in Sessions :
        SignedOutOf(p)[s] = [session[s] EXCEPT !.live = session[s].live /\ session[s].owner # p]
  BY DEF SignedOutOf
<1>7. \A k \in Credentials : /\ RevokedOf(p)[k] \in [owner: Ids \cup {Nobody}, active: BOOLEAN]
                             /\ RevokedOf(p)[k].owner = credential[k].owner
                             /\ RevokedOf(p)[k].active <=> credential[k].active /\ credential[k].owner # p
  BY <1>1, <1>3, <1>5, ZenonT(60)
<1>8. \A s \in Sessions : /\ SignedOutOf(p)[s] \in [owner: Ids \cup {Nobody}, live: BOOLEAN]
                          /\ SignedOutOf(p)[s].owner = session[s].owner
                          /\ SignedOutOf(p)[s].live <=> session[s].live /\ session[s].owner # p
  BY <1>2, <1>4, <1>6, ZenonT(60)
<1>9. /\ RevokedOf(p) \in [Credentials -> [owner: Ids \cup {Nobody}, active: BOOLEAN]]
      /\ SignedOutOf(p) \in [Sessions -> [owner: Ids \cup {Nobody}, live: BOOLEAN]]
  BY <1>7, <1>8 DEF RevokedOf, SignedOutOf
<1>. QED
  BY <1>7, <1>8, <1>9

\* Commits that issue or revoke a credential.
LEMMA CredentialCommits ==
  ASSUME FlatInv, NEW w \in Workers,
         AddCredentialCommit(w) \/ RotateCommit(w) \/ RevokeCommit(w) \/ RevokeAllCommit(w)
  PROVE  TablesInv'
<1>. DEFINE p == worker[w].who
<1>1. /\ worker' \in [Workers -> Frames]
      /\ UNCHANGED <<principal, roles, admins, session, grants>>
  BY IdleFrames DEF FlatInv, TablesInv, At, AddCredentialCommit, RotateCommit,
     RevokeCommit, RevokeAllCommit
<1>2. p \in Ids
  BY DEF FlatInv, Ready, At, AddCredentialCommit, RotateCommit, RevokeCommit, RevokeAllCommit
<1>3. /\ credential' \in [Credentials -> [owner: Ids \cup {Nobody}, active: BOOLEAN]]
      /\ \A k \in Credentials :
           \/ credential'[k].active => credential'[k].owner = credential[k].owner /\ credential[k].active
           \/ credential'[k].owner = p /\ principal[p].active
  <2>0. credential \in [Credentials -> [owner: Ids \cup {Nobody}, active: BOOLEAN]]
    BY DEF FlatInv, TablesInv, TypeOK
  <2>1. CASE AddCredentialCommit(w)
    <3>1. principal[p].active
      BY <2>1 DEF AddCredentialCommit, At, FlatInv, Ready, IsActive
    <3>2. PICK k \in Credentials : credential' = Issued(credential, k, p)
      BY <2>1 DEF AddCredentialCommit
    <3>. QED
      BY <1>2, <2>0, <3>1, <3>2 DEF Issued
  <2>2. CASE RotateCommit(w)
    <3>1. principal[p].active
      BY <2>2 DEF RotateCommit, At, FlatInv, Ready, IsActive
    <3>2. PICK k \in Credentials : credential' = Issued(RevokedOf(p), k, p)
      BY <2>2 DEF RotateCommit
    <3>. QED
      BY <1>2, <2>0, <3>1, <3>2, EndedRows DEF Issued, FlatInv, TablesInv
  <2>3. CASE RevokeCommit(w)
    <3>1. worker[w].item \in Credentials
      BY <2>3 DEF RevokeCommit, At, FlatInv, Ready
    <3>. QED
      BY <2>0, <2>3, <3>1 DEF RevokeCommit
  <2>4. CASE RevokeAllCommit(w)
    BY <2>0, <2>4, EndedRows DEF RevokeAllCommit, FlatInv, TablesInv
  <2>. QED
    BY <2>1, <2>2, <2>3, <2>4
<1>. HIDE DEF p
<1>4. TypeOK' /\ AbsentIsEmpty' /\ Confined'
  BY <1>1, <1>3 DEF FlatInv, TablesInv, TypeOK, AbsentIsEmpty, Confined, Exists, OneClient,
     ClientsOf
<1>5. ShutOut'
  BY <1>1, <1>2, <1>3 DEF FlatInv, TablesInv, ShutOut
<1>. QED
  BY <1>4, <1>5 DEF TablesInv

\* The commit of a deactivation: another administrator remains, and all access ends.
LEMMA DeactivateCommits ==
  ASSUME FlatInv, NEW w \in Workers, DeactivateCommit(w)
  PROVE  TablesInv'
<1>. DEFINE p == worker[w].who
<1>1. /\ worker' \in [Workers -> Frames]
      /\ UNCHANGED <<roles, admins>>
      /\ principal' = [principal EXCEPT ![p].active = FALSE]
      /\ credential' = RevokedOf(p)
      /\ grants' = grants \ ({p} \X Scopes)
      /\ session' = SignedOutOf(p)
  BY IdleFrames DEF FlatInv, TablesInv, At, DeactivateCommit
<1>2. p \in Ids
  BY DEF FlatInv, Ready, At, DeactivateCommit
<1>. HIDE DEF p
<1>3. TypeOK'
  <2>1. principal' \in [Ids -> [kind: Kinds \cup {"absent"}, active: BOOLEAN]]
    BY <1>1, <1>2 DEF FlatInv, TablesInv, TypeOK
  <2>2. /\ credential' \in [Credentials -> [owner: Ids \cup {Nobody}, active: BOOLEAN]]
        /\ session' \in [Sessions -> [owner: Ids \cup {Nobody}, live: BOOLEAN]]
    BY <1>1, EndedRows DEF FlatInv, TablesInv
  <2>3. grants' \in SUBSET (Ids \X Scopes)
    BY <1>1 DEF FlatInv, TablesInv, TypeOK
  <2>. QED
    BY <1>1, <2>1, <2>2, <2>3 DEF FlatInv, TablesInv, TypeOK
<1>4. \A q \in Ids : /\ principal'[q].kind = principal[q].kind
                     /\ principal'[q].active = (principal[q].active /\ q # p)
  BY <1>1, <1>2 DEF FlatInv, TablesInv, TypeOK
<1>5. AbsentIsEmpty'
  BY <1>1, <1>4 DEF FlatInv, TablesInv, AbsentIsEmpty, Exists
<1>6. Confined'
  BY <1>1, <1>4 DEF FlatInv, TablesInv, Confined, OneClient, ClientsOf
<1>7. ShutOut'
  <2>1. \A k \in Credentials : /\ credential'[k].owner = credential[k].owner
                               /\ credential'[k].active <=> credential[k].active /\ credential[k].owner # p
    BY <1>1, EndedRows DEF FlatInv, TablesInv
  <2>2. \A s \in Sessions : /\ session'[s].owner = session[s].owner
                            /\ session'[s].live <=> session[s].live /\ session[s].owner # p
    BY <1>1, EndedRows DEF FlatInv, TablesInv
  <2>3. ASSUME NEW q \in Ids, ~principal'[q].active, NEW scope \in Scopes
        PROVE  <<q, scope>> \notin grants'
    BY <1>1, <1>4, <2>3 DEF FlatInv, TablesInv, ShutOut
  <2>4. ASSUME NEW q \in Ids, ~principal'[q].active
        PROVE  /\ \A k \in Credentials : ~(credential'[k].owner = q /\ credential'[k].active)
               /\ \A s \in Sessions : ~(session'[s].owner = q /\ session'[s].live)
    <3>1. CASE q = p
      BY <2>1, <2>2, <3>1, Zenon
    <3>2. CASE q # p
      <4>1. ~principal[q].active
        BY <1>4, <2>4, <3>2
      <4>2. /\ \A k \in Credentials : ~(credential[k].owner = q /\ credential[k].active)
            /\ \A s \in Sessions : ~(session[s].owner = q /\ session[s].live)
        BY <4>1 DEF FlatInv, TablesInv, ShutOut
      <4>. QED
        BY <2>1, <2>2, <4>2, Zenon
    <3>. QED
      BY <3>1, <3>2
  <2>. QED
    BY <2>3, <2>4 DEF ShutOut
<1>. QED
  BY <1>3, <1>5, <1>6, <1>7 DEF TablesInv

\* Commits that change a role.
LEMMA RoleCommits ==
  ASSUME FlatInv, NEW w \in Workers,
         \/ AddClientRoleCommit(w) \/ AddGlobalRoleCommit(w)
         \/ RemoveClientRoleCommit(w) \/ RemoveGlobalRoleCommit(w)
  PROVE  TablesInv'
<1>. DEFINE p == worker[w].who
            row == <<worker[w].item, worker[w].role>>
<1>1. /\ worker' \in [Workers -> Frames]
      /\ UNCHANGED <<principal, credential, session>>
  BY IdleFrames DEF FlatInv, TablesInv, At, AddClientRoleCommit, AddGlobalRoleCommit,
     RemoveClientRoleCommit, RemoveGlobalRoleCommit
<1>2. p \in Ids /\ Exists(p)
  BY DEF FlatInv, Ready, At, AddClientRoleCommit, AddGlobalRoleCommit,
     RemoveClientRoleCommit, RemoveGlobalRoleCommit
<1>3. grants' \subseteq grants
  BY DEF AddClientRoleCommit, AddGlobalRoleCommit, RemoveClientRoleCommit,
     RemoveGlobalRoleCommit, WithoutScope
<1>4. ShutOut'
  BY <1>1, <1>3 DEF FlatInv, TablesInv, ShutOut
<1>5. TypeOK /\ AbsentIsEmpty /\ Confined
  BY DEF FlatInv, TablesInv
<1>6. CASE AddClientRoleCommit(w)
  <2>1. /\ worker[w].item \in Clients /\ worker[w].role \in Roles
        /\ principal[p].kind = "customer" => ClientsOf(p) \subseteq {worker[w].item}
    BY <1>6 DEF AddClientRoleCommit, At, FlatInv, Ready
  <2>2. /\ roles' = [roles EXCEPT ![p] = @ \cup {row}]
        /\ UNCHANGED <<admins, grants>>
        /\ row[1] = worker[w].item /\ row \in Clients \X Roles
    BY <1>6, <2>1 DEF AddClientRoleCommit
  <2>. HIDE DEF p, row
  <2>3. roles' \in [Ids -> SUBSET (Clients \X Roles)]
    BY <1>2, <1>5, <2>2 DEF TypeOK
  <2>4. \A q \in Ids : roles'[q] = IF q = p THEN roles[p] \cup {row} ELSE roles[q]
    BY <1>5, <2>2 DEF TypeOK
  <2>5. \A q \in Ids : /\ principal[q].kind = "customer" /\ OneClient(q) => OneClient(q)'
                       /\ ClientsOf(q) \subseteq ClientsOf(q)'
    BY <2>1, <2>2, <2>4 DEF OneClient, ClientsOf
  <2>6. TypeOK' /\ AbsentIsEmpty'
    BY <1>1, <1>2, <1>5, <2>2, <2>3, <2>4 DEF TypeOK, AbsentIsEmpty, Exists
  <2>7. Confined'
    BY <1>1, <1>5, <2>2, <2>5 DEF Confined
  <2>. QED
    BY <1>4, <2>6, <2>7 DEF TablesInv
<1>7. CASE AddGlobalRoleCommit(w)
  <2>1. /\ admins' = admins \cup {p} /\ UNCHANGED <<roles, grants>>
        /\ principal[p].kind = "staff"
    BY <1>7 DEF AddGlobalRoleCommit, At, FlatInv, Ready
  <2>. HIDE DEF p
  <2>. QED
    BY <1>1, <1>2, <1>4, <1>5, <2>1 DEF TablesInv, TypeOK, AbsentIsEmpty, Confined, Exists,
       OneClient, ClientsOf
<1>8. CASE RemoveClientRoleCommit(w)
  <2>1. /\ roles' = [roles EXCEPT ![p] = @ \ {row}]
        /\ grants' = IF row \in roles[p] THEN grants \ {<<p, worker[w].item>>} ELSE grants
        /\ UNCHANGED admins /\ row[1] = worker[w].item
    BY <1>8 DEF RemoveClientRoleCommit, WithoutScope
  <2>. HIDE DEF p, row
  <2>2. \A q \in Ids : roles'[q] = IF q = p THEN roles[p] \ {row} ELSE roles[q]
    BY <1>5, <2>1 DEF TypeOK
  <2>3. TypeOK' /\ AbsentIsEmpty'
    BY <1>1, <1>2, <1>3, <1>5, <2>1, <2>2 DEF TypeOK, AbsentIsEmpty, Exists
  <2>4. ASSUME NEW q \in Ids, OneClient(q)
        PROVE  OneClient(q)'
    BY <2>2, <2>4 DEF OneClient
  <2>5. ASSUME NEW q \in Ids, NEW scope \in Scopes, <<q, scope>> \in grants',
               scope \in ClientsOf(q)
        PROVE  scope \in ClientsOf(q)'
    <3>1. CASE q = p /\ row \in roles[p]
      <4>1. scope # worker[w].item
        BY <2>1, <2>5, <3>1
      <4>. QED
        BY <2>1, <2>2, <2>5, <3>1, <4>1 DEF ClientsOf
    <3>2. CASE ~(q = p /\ row \in roles[p])
      <4>1. roles'[q] = roles[q]
        BY <2>2, <3>2
      <4>. QED
        BY <2>5, <4>1 DEF ClientsOf
    <3>. QED
      BY <3>1, <3>2
  <2>6. Confined'
    BY <1>1, <1>3, <1>5, <2>1, <2>4, <2>5 DEF Confined
  <2>. QED
    BY <1>4, <2>3, <2>6 DEF TablesInv
<1>9. CASE RemoveGlobalRoleCommit(w)
  <2>1. /\ admins' = admins \ {p} /\ UNCHANGED roles
        /\ grants' = IF p \in admins THEN grants \ {<<p, Global>>} ELSE grants
    BY <1>9 DEF RemoveGlobalRoleCommit, WithoutScope
  <2>. HIDE DEF p
  <2>2. \A q \in Ids : <<q, Global>> \in grants' => q \in admins'
    BY <1>5, <2>1 DEF Confined
  <2>. QED
    BY <1>1, <1>2, <1>3, <1>4, <1>5, <2>1, <2>2 DEF TablesInv, TypeOK, AbsentIsEmpty,
       Confined, Exists, OneClient, ClientsOf
<1>. QED
  BY <1>6, <1>7, <1>8, <1>9

\* The commit that opens a session.
LEMMA SessionCommits ==
  ASSUME FlatInv, NEW w \in Workers, CreateSessionCommit(w)
  PROVE  TablesInv'
<1>1. /\ worker' \in [Workers -> Frames]
      /\ UNCHANGED <<principal, roles, admins, credential, grants>>
  BY IdleFrames DEF FlatInv, TablesInv, At, CreateSessionCommit
<1>2. worker[w].who \in Ids /\ principal[worker[w].who].active
  BY DEF FlatInv, Ready, IsActive, At, CreateSessionCommit
<1>3. PICK s \in Sessions : session' = [session EXCEPT ![s] = [owner |-> worker[w].who, live |-> TRUE]]
  BY DEF CreateSessionCommit
<1>. QED
  BY <1>1, <1>2, <1>3 DEF FlatInv, TablesInv, TypeOK, AbsentIsEmpty, ShutOut, Confined, Exists,
     OneClient, ClientsOf

\* The commit of a capability grant.
LEMMA GrantCommits ==
  ASSUME FlatInv, NEW w \in Workers, GrantCommit(w)
  PROVE  TablesInv'
<1>. DEFINE p == worker[w].who
            scope == worker[w].item
<1>1. /\ worker' \in [Workers -> Frames]
      /\ UNCHANGED <<principal, roles, admins, credential, session>>
      /\ grants' = grants \cup {<<p, scope>>}
  BY IdleFrames DEF FlatInv, TablesInv, At, GrantCommit
<1>2. p \in Ids /\ scope \in Scopes /\ MayGrant(p, scope)
  BY DEF FlatInv, Ready, At, GrantCommit
<1>. HIDE DEF p, scope
<1>3. scope = Global => scope \notin ClientsOf(p)
  <2>1. ClientsOf(p) \subseteq Clients
    BY <1>2 DEF FlatInv, TablesInv, TypeOK, ClientsOf
  <2>. QED
    BY <2>1, NamesAssumption
<1>4. TypeOK' /\ AbsentIsEmpty' /\ ShutOut'
  BY <1>1, <1>2 DEF FlatInv, TablesInv, TypeOK, AbsentIsEmpty, ShutOut, Exists, MayGrant, IsActive
<1>5. Confined'
  BY <1>1, <1>2, <1>3 DEF FlatInv, TablesInv, Confined, OneClient, ClientsOf, MayGrant
<1>. QED
  BY <1>4, <1>5 DEF TablesInv

\* Every commit keeps the invariant.
LEMMA CommitKeeps ==
  ASSUME OneAtATime, FlatInv, NEW w \in Workers, Commit(w)
  PROVE  FlatInv'
<1>1. worker' = [worker EXCEPT ![w] = Idle]
  BY DEF Commit, At, AddCredentialCommit, RotateCommit, RevokeCommit, RevokeAllCommit,
     DeactivateCommit, AddClientRoleCommit, AddGlobalRoleCommit, RemoveClientRoleCommit,
     RemoveGlobalRoleCommit, CreateSessionCommit, GrantCommit
<1>2. TablesInv'
  BY CredentialCommits, DeactivateCommits, RoleCommits, SessionCommits, GrantCommits DEF Commit
<1>. QED
  BY <1>1, <1>2, CommitStep DEF FlatInv, TablesInv

-----------------------------------------------------------------------------
(***************************************************************************)
(* Methods that write without a check of their own.  They meet methods     *)
(* that are under way.                                                     *)
(***************************************************************************)

\* What a frame rests on is kept by a step that neither takes access from a
\* principal that exists nor gives it roles.
LEMMA ReadyStays ==
  ASSUME TablesInv, NEW frame, Ready(frame),
         NEW fresh \in Ids \cup {Nobody},
         fresh \in Ids => ~Exists(fresh),
         \A q \in Ids \ {fresh} :
           /\ principal'[q].kind = principal[q].kind
           /\ principal[q].active => principal'[q].active
           /\ roles'[q] = roles[q]
           /\ q \in admins' <=> q \in admins,
         \A k \in Credentials :
           \/ credential'[k] = credential[k]
           \/ credential[k].owner = Nobody /\ credential'[k].owner = fresh
  PROVE  Ready(frame)'
<1>. DEFINE p == frame.who
<1>. SUFFICES ASSUME frame.at # "idle" PROVE Ready(frame)'
  BY DEF Ready
<1>1. p \in Ids /\ Exists(p)
  BY DEF Ready
<1>2. p # fresh
  BY <1>1
<1>3. ASSUME NEW q \in Ids, q # fresh, NEW k \in Credentials,
             credential'[k].owner = q
      PROVE  credential'[k] = credential[k]
  BY <1>3
<1>4. ASSUME NEW q \in Ids, q # fresh, NEW k \in Credentials, credential[k].owner = q
      PROVE  credential'[k] = credential[k]
  <2>1. credential[k].owner # Nobody
    BY <1>4, NamesAssumption
  <2>. QED
    BY <2>1
<1>5. ASSUME NEW q \in Ids, q # fresh
      PROVE  CanAdminister(q)' <=> CanAdminister(q)
  <2>1. (\E k \in Credentials : credential'[k].owner = q /\ credential'[k].active)
        <=> \E k \in Credentials : credential[k].owner = q /\ credential[k].active
    BY <1>3, <1>4, <1>5
  <2>2. (\E k \in Credentials : credential[k].owner = q /\ credential[k].active)
        => principal[q].active
    BY DEF TablesInv, ShutOut
  <2>3. q \in admins' <=> q \in admins
    BY <1>5
  <2>4. principal[q].active => principal'[q].active
    BY <1>5
  <2>. QED
    BY <2>1, <2>2, <2>3, <2>4 DEF CanAdminister
<1>6. OthersRemain(p) => OthersRemain(p)'
  <2>1. ASSUME NEW q \in Ids, CanAdminister(q)
        PROVE  q # fresh
    BY <2>1 DEF TablesInv, AbsentIsEmpty, CanAdminister
  <2>. QED
    BY <1>1, <1>2, <1>5, <2>1 DEF OthersRemain
<1>7. HasSpare(p) => HasSpare(p)'
  BY <1>1, <1>2, <1>4 DEF HasSpare
<1>8. Exists(p)' /\ (IsActive(p) => IsActive(p)')
      /\ principal'[p].kind = principal[p].kind /\ ClientsOf(p)' = ClientsOf(p)
      /\ (p \in admins <=> p \in admins')
  BY <1>1, <1>2 DEF Exists, IsActive, ClientsOf
<1>9. \A scope : MayGrant(p, scope) => MayGrant(p, scope)'
  BY <1>8 DEF MayGrant
<1>10. ASSUME frame.at = "revoke"
       PROVE  /\ frame.item \in Credentials
              /\ credential'[frame.item].owner = p
              /\ credential'[frame.item].active => OthersRemain(p)' \/ HasSpare(p)'
  <2>1. frame.item \in Credentials /\ credential[frame.item].owner = p
    BY <1>10 DEF Ready
  <2>2. credential'[frame.item] = credential[frame.item]
    BY <1>1, <1>2, <1>4, <2>1
  <2>3. credential[frame.item].active => OthersRemain(p) \/ HasSpare(p)
    BY <1>10 DEF Ready
  <2>. QED
    BY <1>6, <1>7, <2>1, <2>2, <2>3
<1>. QED
  BY <1>1, <1>6, <1>8, <1>9, <1>10 DEF Ready

\* Such a step keeps the invariant when it keeps that of the tables.
LEMMA FreeStep ==
  ASSUME FlatInv, TablesInv', UNCHANGED worker,
         NEW fresh \in Ids \cup {Nobody},
         fresh \in Ids => ~Exists(fresh),
         \A q \in Ids \ {fresh} :
           /\ principal'[q].kind = principal[q].kind
           /\ principal[q].active => principal'[q].active
           /\ roles'[q] = roles[q]
           /\ q \in admins' <=> q \in admins,
         \A k \in Credentials :
           \/ credential'[k] = credential[k]
           \/ credential[k].owner = Nobody /\ credential'[k].owner = fresh
  PROVE  FlatInv'
<1>1. \A f : Ready(f) => Ready(f)'
  BY ReadyStays DEF FlatInv
<1>2. \A v \in Workers : Ready(worker[v])'
  BY <1>1 DEF FlatInv
<1>. QED
  BY <1>2 DEF FlatInv

\* Creating a principal gives it nothing yet.
LEMMA CreatePrincipalStep ==
  ASSUME FlatInv, NEW p \in Ids, NEW kind \in Kinds, CreatePrincipal(p, kind)
  PROVE  FlatInv'
<1>1. /\ principal' = [principal EXCEPT ![p] = [kind |-> kind, active |-> TRUE]]
      /\ ~Exists(p)
      /\ UNCHANGED <<roles, admins, credential, session, grants, worker>>
  BY DEF CreatePrincipal, access
<1>2. TypeOK /\ AbsentIsEmpty /\ ShutOut /\ Confined
  BY DEF FlatInv, TablesInv
<1>3. \A q \in Ids : principal'[q] = IF q = p THEN [kind |-> kind, active |-> TRUE] ELSE principal[q]
  BY <1>1, <1>2 DEF TypeOK
<1>4. TypeOK'
  BY <1>1, <1>2 DEF TypeOK
<1>5. AbsentIsEmpty' /\ ShutOut'
  BY <1>1, <1>2, <1>3 DEF AbsentIsEmpty, ShutOut, Exists, Kinds
<1>6. Confined'
  <2>1. /\ roles[p] = {} /\ p \notin admins /\ ~principal[p].active
    BY <1>1, <1>2 DEF AbsentIsEmpty
  <2>2. \A scope \in Scopes : <<p, scope>> \notin grants
    BY <1>2, <2>1 DEF ShutOut
  <2>. QED
    BY <1>1, <1>2, <1>3, <2>1, <2>2 DEF Confined, OneClient, ClientsOf
<1>. QED
  BY <1>1, <1>3, <1>4, <1>5, <1>6, FreeStep DEF TablesInv

\* Creating a principal with access gives it what its kind may have.
LEMMA CreateWithAccessStep ==
  ASSUME FlatInv, NEW p \in Ids, NEW kind \in Kinds,
         NEW memberships \in SUBSET (Clients \X Roles),
         NEW admin \in BOOLEAN, NEW issue \in BOOLEAN,
         CreateWithAccess(p, kind, memberships, admin, issue)
  PROVE  FlatInv'
<1>1. /\ principal' = [principal EXCEPT ![p] = [kind |-> kind, active |-> TRUE]]
      /\ roles' = [roles EXCEPT ![p] = memberships]
      /\ admins' = IF admin THEN admins \cup {p} ELSE admins
      /\ ~Exists(p) /\ MayCreate(kind, memberships, admin)
      /\ UNCHANGED <<session, grants, worker>>
  BY DEF CreateWithAccess
<1>2. TypeOK /\ AbsentIsEmpty /\ ShutOut /\ Confined
  BY DEF FlatInv, TablesInv
<1>3. /\ credential' \in [Credentials -> [owner: Ids \cup {Nobody}, active: BOOLEAN]]
      /\ \A k \in Credentials :
           \/ credential'[k] = credential[k]
           \/ credential[k].owner = Nobody /\ credential'[k].owner = p
  <2>1. CASE UNCHANGED credential
    BY <1>2, <2>1 DEF TypeOK
  <2>2. CASE \E k \in Credentials :
               credential[k].owner = Nobody /\ credential' = Issued(credential, k, p)
    BY <1>2, <2>2 DEF TypeOK, Issued
  <2>. QED
    BY <2>1, <2>2 DEF CreateWithAccess
<1>4. \A q \in Ids : /\ principal'[q] = IF q = p THEN [kind |-> kind, active |-> TRUE] ELSE principal[q]
                     /\ roles'[q] = IF q = p THEN memberships ELSE roles[q]
                     /\ q # p => (q \in admins' <=> q \in admins)
  BY <1>1, <1>2 DEF TypeOK
<1>5. TypeOK'
  BY <1>1, <1>2, <1>3 DEF TypeOK
<1>6. AbsentIsEmpty'
  BY <1>1, <1>2, <1>4 DEF AbsentIsEmpty, Exists, Kinds
<1>7. ShutOut'
  BY <1>1, <1>2, <1>3, <1>4 DEF ShutOut
<1>8. kind = "customer" => ~admin /\ \A m, n \in memberships : m = n
  <2>1. IsFiniteSet(Clients \X Roles)
    BY NamesAssumption, FS_Product
  <2>2. IsFiniteSet(memberships)
    BY <2>1, FS_Subset
  <2>3. Cardinality(memberships) = 1 => \E m : memberships = {m}
    BY <2>2, FS_Singleton
  <2>. QED
    BY <1>1, <2>3 DEF MayCreate
<1>9. Confined'
  <2>1. /\ p \notin admins /\ ~principal[p].active
    BY <1>1, <1>2 DEF AbsentIsEmpty
  <2>2. \A scope \in Scopes : <<p, scope>> \notin grants
    BY <1>2, <2>1 DEF ShutOut
  <2>3. \A q \in Ids : q # p /\ OneClient(q) => OneClient(q)'
    BY <1>4 DEF OneClient
  <2>4. kind = "customer" => OneClient(p)'
    BY <1>4, <1>8 DEF OneClient
  <2>5. \A q \in Ids : q # p => ClientsOf(q)' = ClientsOf(q)
    BY <1>4 DEF ClientsOf
  <2>6. kind = "customer" => p \notin admins'
    BY <1>1, <1>8, <2>1
  <2>7. Global \in Scopes
    BY DEF Scopes
  <2>. QED
    BY <1>1, <1>2, <1>4, <2>2, <2>3, <2>4, <2>5, <2>6, <2>7 DEF Confined
<1>. QED
  BY <1>1, <1>3, <1>4, <1>5, <1>6, <1>7, <1>9, FreeStep DEF TablesInv

\* Activating a principal gives back none of what its deactivation ended.
LEMMA ActivateStep ==
  ASSUME FlatInv, NEW p \in Ids, Activate(p)
  PROVE  FlatInv'
<1>1. /\ principal' = [principal EXCEPT ![p].active = TRUE] /\ Exists(p)
      /\ UNCHANGED <<roles, admins, credential, session, grants, worker>>
  BY DEF Activate, access
<1>2. TypeOK /\ AbsentIsEmpty /\ ShutOut /\ Confined
  BY DEF FlatInv, TablesInv
<1>3. \A q \in Ids : /\ principal'[q].kind = principal[q].kind
                     /\ principal'[q].active = IF q = p THEN TRUE ELSE principal[q].active
  BY <1>1, <1>2 DEF TypeOK
<1>4. TypeOK' /\ AbsentIsEmpty' /\ ShutOut' /\ Confined'
  <2>1. TypeOK'
    BY <1>1, <1>2 DEF TypeOK
  <2>2. AbsentIsEmpty' /\ ShutOut'
    BY <1>1, <1>2, <1>3 DEF AbsentIsEmpty, ShutOut, Exists
  <2>3. Confined'
    BY <1>1, <1>2, <1>3 DEF Confined, OneClient, ClientsOf
  <2>. QED
    BY <2>1, <2>2, <2>3
<1>. QED
  BY <1>1, <1>3, <1>4, FreeStep, NamesAssumption DEF TablesInv

\* The methods that only take something away in one UPDATE.
LEMMA RevocationStep ==
  ASSUME FlatInv,
         \/ \E p \in Ids, scope \in Scopes : RevokeGrant(p, scope)
         \/ \E s \in Sessions : RevokeSession(s) \/ ExpireSession(s)
  PROVE  FlatInv'
<1>1. /\ UNCHANGED <<principal, roles, admins, credential, worker>>
      /\ grants' \subseteq grants
  BY DEF RevokeGrant, RevokeSession, ExpireSession
<1>2. TypeOK /\ AbsentIsEmpty /\ ShutOut /\ Confined
  BY DEF FlatInv, TablesInv
<1>3. /\ session' \in [Sessions -> [owner: Ids \cup {Nobody}, live: BOOLEAN]]
      /\ \A s \in Sessions : session'[s] = session[s] \/ ~session'[s].live
  <2>1. session \in [Sessions -> [owner: Ids \cup {Nobody}, live: BOOLEAN]]
    BY <1>2 DEF TypeOK
  <2>2. CASE \E p \in Ids, scope \in Scopes : RevokeGrant(p, scope)
    BY <2>1, <2>2 DEF RevokeGrant
  <2>3. ASSUME NEW s \in Sessions, RevokeSession(s)
        PROVE  /\ session' \in [Sessions -> [owner: Ids \cup {Nobody}, live: BOOLEAN]]
               /\ \A t \in Sessions : session'[t] = session[t] \/ ~session'[t].live
    BY <2>1, <2>3 DEF RevokeSession
  <2>4. ASSUME NEW s \in Sessions, ExpireSession(s)
        PROVE  /\ session' \in [Sessions -> [owner: Ids \cup {Nobody}, live: BOOLEAN]]
               /\ \A t \in Sessions : session'[t] = session[t] \/ ~session'[t].live
    BY <2>1, <2>4 DEF ExpireSession
  <2>. QED
    BY <2>2, <2>3, <2>4
<1>4. TypeOK' /\ AbsentIsEmpty' /\ ShutOut' /\ Confined'
  <2>1. TypeOK'
    BY <1>1, <1>2, <1>3 DEF TypeOK
  <2>2. AbsentIsEmpty' /\ ShutOut'
    BY <1>1, <1>2, <1>3 DEF AbsentIsEmpty, ShutOut, Exists
  <2>3. Confined'
    BY <1>1, <1>2 DEF Confined, OneClient, ClientsOf
  <2>. QED
    BY <2>1, <2>2, <2>3
<1>. QED
  BY <1>1, <1>4, FreeStep, NamesAssumption DEF TablesInv

-----------------------------------------------------------------------------
(***************************************************************************)
(* The theorems.                                                           *)
(***************************************************************************)
LEMMA InitFlat == Init => FlatInv
<1>. SUFFICES ASSUME Init PROVE FlatInv
  OBVIOUS
<1>1. Idle \in Frames /\ Idle.at = "idle"
  BY DEF Idle, Frame, Frames, Labels
<1>2. TypeOK
  BY <1>1 DEF Init, TypeOK
<1>3. AbsentIsEmpty /\ Confined
  BY DEF Init, AbsentIsEmpty, Confined, Exists
<1>4. ShutOut
  BY DEF Init, ShutOut
<1>5. \A w \in Workers : Ready(worker[w])
  BY <1>1 DEF Init, Ready
<1>. QED
  BY <1>2, <1>3, <1>4, <1>5 DEF FlatInv, TablesInv

\* Every step keeps the invariant in its quantified form.
LEMMA NextFlat ==
  ASSUME OneAtATime, FlatInv, [Next]_vars
  PROVE  FlatInv'
<1>1. CASE UNCHANGED vars
  <2>1. TablesInv'
    BY <1>1 DEF vars, FlatInv, TablesInv, TypeOK, AbsentIsEmpty, ShutOut, Confined, Exists,
       OneClient, ClientsOf
  <2>. QED
    BY <1>1, <2>1, FreeStep, NamesAssumption DEF vars
<1>2. CASE Next
  BY <1>2, CommitKeeps, SelectStep, CreatePrincipalStep, CreateWithAccessStep, ActivateStep,
     RevocationStep DEF Next, Create
<1>. QED
  BY <1>1, <1>2

\* For methods that do not overlap, the inductive invariant: types, nothing
\* left of absent and deactivated principals, customers confined, and what a
\* method's SELECTs found still true at its writes, although creations,
\* activations, logouts and revocations of grants come in between.
THEOREM PrincipalsInvariance ==
  ASSUME OneAtATime
  PROVE  Spec => []PrincipalsInv
<1>1. Init => FlatInv
  BY InitFlat
<1>2. FlatInv /\ [Next]_vars => FlatInv'
  BY NextFlat
<1>3. FlatInv => PrincipalsInv
  BY FlatMeans
<1>. QED
  BY <1>1, <1>2, <1>3, PTL DEF Spec

\* One call at a time: deactivate_principal leaves nothing that would give
\* access once the principal is activated again.
THEOREM DeactivationShutsOut ==
  ASSUME OneAtATime
  PROVE  Spec => []InactiveIsShutOut
<1>1. PrincipalsInv => InactiveIsShutOut
  BY DEF PrincipalsInv
<1>. QED
  BY <1>1, PrincipalsInvariance, PTL

\* One call at a time: no sequence of role changes and grants takes a customer
\* beyond one client.
THEOREM CustomersAreConfined ==
  ASSUME OneAtATime
  PROVE  Spec => []ConfinedToItsClient
<1>1. PrincipalsInv => ConfinedToItsClient
  BY DEF PrincipalsInv
<1>. QED
  BY <1>1, PrincipalsInvariance, PTL

-----------------------------------------------------------------------------
(***************************************************************************)
(* Somebody remains who can administer the appliance.                      *)
(***************************************************************************)

\* Who keeps the role, is active and keeps a credential can still administer.
LEMMA StillCan ==
  ASSUME NEW q \in Ids, CanAdminister(q), q \in admins', principal'[q].active,
         \A k \in Credentials : credential[k].owner = q /\ credential[k].active =>
           credential'[k] = credential[k]
  PROVE  CanAdminister(q)'
<1>1. PICK k \in Credentials : credential[k].owner = q /\ credential[k].active
  BY DEF CanAdminister
<1>2. credential'[k] = credential[k]
  BY <1>1
<1>. QED
  BY <1>1, <1>2 DEF CanAdminister

\* The four methods that may take the last access are guarded.
LEMMA GuardedCommit ==
  ASSUME FlatInv, NEW w \in Workers,
         \/ RevokeCommit(w) \/ RevokeAllCommit(w) \/ DeactivateCommit(w)
         \/ RemoveGlobalRoleCommit(w),
         NEW q0 \in Ids, CanAdminister(q0)
  PROVE  \E q \in Ids : CanAdminister(q)'
<1>. DEFINE i == worker[w].item
<1>who. PICK p : p = worker[w].who
  OBVIOUS
<1>0. TypeOK /\ Ready(worker[w])
  BY DEF FlatInv, TablesInv
<1>1. p \in Ids
  BY <1>0, <1>who DEF Ready, At, RevokeCommit, RevokeAllCommit, DeactivateCommit, RemoveGlobalRoleCommit
<1>2. ASSUME NEW q \in Ids, q # p, CanAdminister(q)
      PROVE  CanAdminister(q)'
  <2>1. q \in admins' /\ principal'[q].active
    BY <1>0, <1>2, <1>who DEF CanAdminister, TypeOK, RevokeCommit, RevokeAllCommit, DeactivateCommit,
       RemoveGlobalRoleCommit
  <2>2. ASSUME NEW k \in Credentials, credential[k].owner = q, credential[k].active
        PROVE  credential'[k] = credential[k]
    <3>0. credential[k] \in [owner: Ids \cup {Nobody}, active: BOOLEAN]
      BY <1>0 DEF TypeOK
    <3>1. CASE RevokeCommit(w)
      <4>1. credential[i].owner = p
        BY <1>0, <1>who, <3>1 DEF RevokeCommit, At, Ready
      <4>. QED
        BY <1>0, <1>2, <2>2, <3>1, <4>1 DEF RevokeCommit, TypeOK
    <3>2. CASE RevokeAllCommit(w) \/ DeactivateCommit(w)
      <4>1. credential' = RevokedOf(p)
        BY <1>who, <3>2 DEF RevokeAllCommit, DeactivateCommit
      <4>2. RevokedOf(p)[k] = [credential[k] EXCEPT !.active =
                                 credential[k].active /\ credential[k].owner # p]
        BY DEF RevokedOf
      <4>3. (credential[k].active /\ credential[k].owner # p) = credential[k].active
        BY <1>2, <2>2, <3>0
      <4>4. RevokedOf(p)[k] = credential[k]
        BY <3>0, <4>2, <4>3
      <4>. QED
        BY <4>1, <4>4
    <3>3. CASE RemoveGlobalRoleCommit(w)
      BY <3>3 DEF RemoveGlobalRoleCommit
    <3>. QED
      BY <3>1, <3>2, <3>3
  <2>. QED
    BY <1>2, <2>1, <2>2, StillCan
<1>3. CASE OthersRemain(p)
  BY <1>1, <1>2, <1>3 DEF OthersRemain
<1>4. CASE RevokeCommit(w) /\ ~OthersRemain(p)
  <2>1. /\ i \in Credentials /\ credential[i].owner = p
        /\ credential' = [credential EXCEPT ![i].active = FALSE]
        /\ UNCHANGED <<principal, admins>>
    BY <1>0, <1>4, <1>who DEF RevokeCommit, At, Ready
  <2>2. CanAdminister(p)
    BY <1>4 DEF OthersRemain
  <2>3. CASE credential[i].active
    <3>1. HasSpare(p)
      BY <1>0, <1>4, <1>who, <2>3 DEF RevokeCommit, At, Ready
    <3>2. PICK k \in Credentials : k # i /\ credential[k].owner = p /\ credential[k].active
      BY <3>1 DEF HasSpare
    <3>3. credential'[k] = credential[k]
      BY <1>0, <2>1, <3>2 DEF TypeOK
    <3>4. CanAdminister(p)'
      BY <2>1, <2>2, <3>2, <3>3 DEF CanAdminister
    <3>. QED
      BY <1>1, <3>4
  <2>4. CASE ~credential[i].active
    <3>1. \A k \in Credentials : credential[k].active => credential'[k] = credential[k]
      BY <1>0, <2>1, <2>4 DEF TypeOK
    <3>2. p \in admins' /\ principal'[p].active
      BY <2>1, <2>2 DEF CanAdminister
    <3>3. CanAdminister(p)'
      BY <1>1, <2>2, <3>1, <3>2, StillCan
    <3>. QED
      BY <1>1, <3>3
  <2>. QED
    BY <2>3, <2>4
<1>5. RevokeAllCommit(w) \/ DeactivateCommit(w) \/ RemoveGlobalRoleCommit(w) => OthersRemain(p)
  BY <1>0, <1>who DEF Ready, At, RevokeAllCommit, DeactivateCommit, RemoveGlobalRoleCommit
<1>. QED
  BY <1>3, <1>4, <1>5

\* No step takes the last administrator away.
LEMMA AdminStep ==
  ASSUME FlatInv, Next, NEW q0 \in Ids, CanAdminister(q0)
  PROVE  \E q \in Ids : CanAdminister(q)'
<1>0. TypeOK /\ AbsentIsEmpty /\ ShutOut /\ q0 # Nobody
  BY NamesAssumption DEF FlatInv, TablesInv
<1>1. CASE UNCHANGED <<principal, admins, credential>>
  BY <1>1 DEF CanAdminister
<1>2. ASSUME NEW w \in Workers, Select(w)
      PROVE  UNCHANGED <<principal, admins, credential>>
  BY <1>2 DEF Select, AddCredential, RevokeAllCredentials, Deactivate, AddGlobalRole,
     RemoveGlobalRole, CreateSession, AddClientRole, RemoveClientRole, Grant,
     RevokeCredential, Begin, access
<1>3. ASSUME NEW w \in Workers,
             \/ AddClientRoleCommit(w) \/ RemoveClientRoleCommit(w)
             \/ CreateSessionCommit(w) \/ GrantCommit(w)
      PROVE  UNCHANGED <<principal, admins, credential>>
  BY <1>3 DEF AddClientRoleCommit, RemoveClientRoleCommit, CreateSessionCommit, GrantCommit
<1>4. ASSUME NEW w \in Workers, AddGlobalRoleCommit(w)
      PROVE  CanAdminister(q0)'
  BY <1>4 DEF AddGlobalRoleCommit, CanAdminister
<1>5. ASSUME NEW w \in Workers, AddCredentialCommit(w)
      PROVE  CanAdminister(q0)'
  <2>1. PICK k \in Credentials : /\ credential[k].owner = Nobody
                                 /\ credential' = Issued(credential, k, worker[w].who)
    BY <1>5 DEF AddCredentialCommit
  <2>2. \A j \in Credentials : credential[j].owner = q0 => credential'[j] = credential[j]
    BY <1>0, <2>1 DEF Issued, TypeOK
  <2>3. q0 \in admins' /\ principal'[q0].active
    BY <1>5 DEF AddCredentialCommit, CanAdminister
  <2>. QED
    BY <2>2, <2>3, StillCan
<1>6. ASSUME NEW w \in Workers, RotateCommit(w)
      PROVE  CanAdminister(q0)'
  <2>. DEFINE p == worker[w].who
  <2>1. PICK k \in Credentials : /\ credential[k].owner = Nobody
                                 /\ credential' = Issued(RevokedOf(p), k, p)
    BY <1>6 DEF RotateCommit
  <2>2. q0 \in admins' /\ principal'[q0].active
    BY <1>6 DEF RotateCommit, CanAdminister
  <2>3. credential'[k] = [owner |-> p, active |-> TRUE]
    BY <1>0, <2>1, EndedRows DEF Issued
  <2>4. CASE q0 = p
    BY <2>2, <2>3, <2>4 DEF CanAdminister
  <2>5. CASE q0 # p
    <3>1. PICK j \in Credentials : credential[j].owner = q0 /\ credential[j].active
      BY DEF CanAdminister
    <3>2. j # k
      BY <1>0, <2>1, <3>1
    <3>3. credential'[j] = RevokedOf(p)[j]
      BY <1>0, <2>1, <3>2, EndedRows DEF Issued
    <3>4. RevokedOf(p)[j].owner = q0 /\ RevokedOf(p)[j].active
      BY <1>0, <2>5, <3>1, EndedRows, ZenonT(60)
    <3>. QED
      BY <2>2, <3>3, <3>4 DEF CanAdminister
  <2>. QED
    BY <2>4, <2>5
<1>7. ASSUME NEW p \in Ids, NEW kind \in Kinds,
             \/ CreatePrincipal(p, kind)
             \/ \E memberships \in SUBSET (Clients \X Roles), admin, issue \in BOOLEAN :
                  CreateWithAccess(p, kind, memberships, admin, issue)
      PROVE  CanAdminister(q0)'
  <2>1. ~Exists(p) /\ principal' = [principal EXCEPT ![p] = [kind |-> kind, active |-> TRUE]]
    BY <1>7 DEF CreatePrincipal, CreateWithAccess
  <2>2. q0 # p
    BY <1>0, <2>1 DEF AbsentIsEmpty, CanAdminister
  <2>3. q0 \in admins' /\ principal'[q0].active
    BY <1>0, <1>7, <2>1, <2>2 DEF CanAdminister, TypeOK, CreatePrincipal, CreateWithAccess, access
  <2>4. \A k \in Credentials : credential[k].owner = q0 => credential'[k] = credential[k]
    BY <1>0, <1>7 DEF TypeOK, CreatePrincipal, CreateWithAccess, access, Issued
  <2>. QED
    BY <2>3, <2>4, StillCan
<1>8. ASSUME NEW p \in Ids, Activate(p)
      PROVE  CanAdminister(q0)'
  BY <1>0, <1>8 DEF Activate, access, CanAdminister, TypeOK
<1>9. ASSUME \/ \E p \in Ids, scope \in Scopes : RevokeGrant(p, scope)
             \/ \E s \in Sessions : RevokeSession(s) \/ ExpireSession(s)
      PROVE  UNCHANGED <<principal, admins, credential>>
  BY <1>9 DEF RevokeGrant, RevokeSession, ExpireSession
<1>10. ASSUME NEW w \in Workers, Commit(w)
       PROVE  \E q \in Ids : CanAdminister(q)'
  BY <1>1, <1>3, <1>4, <1>5, <1>6, <1>10, GuardedCommit DEF Commit
<1>. QED
  BY <1>1, <1>2, <1>7, <1>8, <1>9, <1>10 DEF Next, Create

\* One call at a time: once somebody can administer the appliance, somebody
\* always can (_guard_last_msp_admin in revoke_principal_credential,
\* revoke_all, deactivate_principal and remove_global_role).
THEOREM AdministratorRemains ==
  ASSUME OneAtATime
  PROVE  Spec => AdminRemains
<1>1. FlatInv => \A p : p \in UsableAdmins <=> p \in Ids /\ CanAdminister(p)
  BY UsableAreThose DEF FlatInv, TablesInv
<1>2. FlatInv' => (\A p : p \in UsableAdmins' <=> p \in Ids /\ CanAdminister(p)')
  <2>1. ASSUME FlatInv'
        PROVE  \A p : p \in UsableAdmins' <=> p \in Ids /\ CanAdminister(p)'
    BY <2>1 DEF FlatInv, TablesInv, TypeOK, UsableAdmins, ActiveCredentials, CanAdminister
  <2>. QED
    BY <2>1
<1>3. FlatInv /\ FlatInv' /\ [Next]_vars => [UsableAdmins # {} => UsableAdmins' # {}]_vars
  BY <1>1, <1>2, AdminStep
<1>4. FlatInv /\ [Next]_vars => FlatInv'
  BY NextFlat
<1>. QED
  BY <1>3, <1>4, InitFlat, PTL DEF Spec, AdminRemains
=============================================================================
