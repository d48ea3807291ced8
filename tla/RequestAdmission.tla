--------------------------- MODULE RequestAdmission ---------------------------
(***************************************************************************)
(* The admission of API requests: AuthenticationMiddleware.dispatch, the   *)
(* context it gives the endpoint, and the database connections both use.   *)
(*                                                                         *)
(* Before an endpoint runs, the middleware reads the session, the tenant,  *)
(* the membership, the identity and the role of the bearer of an access    *)
(* token.  Each SELECT is a step of its own: the database runs READ        *)
(* COMMITTED, so that what one of them saw may be undone before the next.  *)
(* Two of the reads are not what they seem.  Tenant.memberships and        *)
(* Tenant.roles are relationships with lazy="selectin": loading the tenant *)
(* loads its memberships and its own roles with their permissions, and the *)
(* SELECTs that ask for them later return the loaded objects with the      *)
(* attributes of the first load.  Only the WHERE of such a SELECT looks at *)
(* the row as it is by then.                                               *)
(*                                                                         *)
(* One user and one tenant: the claims sub and tid of a token are those of *)
(* its session, which never change.  Roles are deleted; one that is created*)
(* has an id of its own, and stands outside of Role.                       *)
(***************************************************************************)
EXTENDS Naturals, FiniteSets

CONSTANTS
  Session,       \* the user's device sessions
  Request,       \* the requests
  SystemRole,    \* roles without a tenant
  TenantRole,    \* roles of the tenant
  Permission,
  Seeded,        \* the permissions the roles begin with
  Org,           \* organizations the tenant may belong to
  PoolSize,      \* pool_size + max_overflow
  MaxChanges     \* bound: changes made while requests are under way

Role == SystemRole \cup TenantRole

ASSUME SeedIsOfRoles == Seeded \in [Role -> SUBSET Permission]
ASSUME ThereIsOne == Session # {} /\ Role # {} /\ Org # {}
ASSUME MaxChangesIsNatural == MaxChanges \in Nat

VARIABLES
  (* the database *)
  open,          \* device_sessions: revoked_at IS NULL
  lapsed,        \* sessions past expires_at, or idle for session_idle_timeout_hours
  linked,        \* sessions whose identity_id names an identity
  tenant,        \* is_active and organization_id
  member,        \* role_id and is_active of the user's membership, if there is one
  grants,        \* role_permissions
  gone,          \* the roles that have been deleted
  changes,       \* how often the above has changed
  (* the access tokens *)
  issued,        \* the claims sid and oid of the tokens in circulation
  (* the requests *)
  pc,
  bearer,        \* the claims of a request's token
  named,         \* device_session.identity_id is not None
  copy,          \* the Membership that came with the tenant
  known,         \* the permissions that came with the tenant's roles
  context,       \* the AuthenticationContext: role and permissions
  (* history *)
  seen           \* what was the case at some moment between arrival and admission

database == <<open, lapsed, linked, tenant, member, grants, gone, changes>>
requests == <<bearer, named, copy, known, context>>
vars     == <<database, issued, pc, requests, seen>>

Token      == [sid : Session, oid : Org]
Tenants    == [active : BOOLEAN, org : Org]
Membership == [role : Role, state : {"none", "active", "inactive"}]
Contexts   == [role : Role, permissions : SUBSET Permission]
Grant      == Role \X SUBSET Permission

\* The steps of an admitted request, and those of one under way to it.
Admitted  == {"handler", "handling", "computing"}
Reading   == {"session", "tenant", "memberships", "roles", "membership", "identity", "role"}
UnderWay  == {"arrived"} \cup Reading
Steps     == {"idle", "refused", "answered"} \cup UnderWay \cup Admitted

\* The steps after the one named, in the order of dispatch.
PastSession     == (Reading \ {"session"}) \cup Admitted
PastTenant      == PastSession \ {"tenant"}
PastMemberships == PastTenant \ {"memberships"}
PastRoles       == PastMemberships \ {"roles"}
PastMembership  == PastRoles \ {"membership"}

TypeOK ==
  /\ open \subseteq Session
  /\ lapsed \subseteq Session
  /\ linked \subseteq Session
  /\ tenant \in Tenants
  /\ member \in Membership
  /\ grants \in [Role -> SUBSET Permission]
  /\ gone \subseteq Role
  /\ changes \in 0 .. MaxChanges
  /\ issued \subseteq Token
  /\ pc \in [Request -> Steps]
  /\ bearer \in [Request -> Token]
  /\ named \in [Request -> BOOLEAN]
  /\ copy \in [Request -> Membership]
  /\ known \in [Request -> [Role -> SUBSET Permission]]
  /\ context \in [Request -> Contexts]
  /\ seen \in [Request -> [session : BOOLEAN, tenant : BOOLEAN, roles : SUBSET Role,
                           grants : SUBSET Grant, gap : BOOLEAN]]

-----------------------------------------------------------------------------
(* What the middleware asks of the rows. *)

SessionInForce(q) == bearer[q].sid \in open \ lapsed
TenantInForce(q)  == tenant.active /\ tenant.org = bearer[q].oid
IdentityKept(q)   == named[q] => bearer[q].sid \in linked

InForce(q) ==
  SessionInForce(q) /\ TenantInForce(q) /\ member.state = "active" /\ IdentityKept(q)

ActiveRoles   == {r \in Role : member.state = "active" /\ member.role = r}
CurrentGrants == {<<r, grants[r]>> : r \in Role \ gone}

\* What a moment adds to what a request has seen.
Now(q) == [session |-> SessionInForce(q), tenant |-> TenantInForce(q), roles |-> ActiveRoles,
           grants |-> CurrentGrants, gap |-> ~InForce(q)]

Also(before, now) ==
  [session |-> before.session \/ now.session, tenant |-> before.tenant \/ now.tenant,
   roles   |-> before.roles \cup now.roles, grants |-> before.grants \cup now.grants,
   gap     |-> before.gap \/ now.gap]

Unseen == [session |-> FALSE, tenant |-> FALSE, roles |-> {}, grants |-> {}, gap |-> FALSE]

\* A transaction of somebody else commits; the requests under way live through it.
Changes ==
  /\ changes < MaxChanges
  /\ changes' = changes + 1
  /\ UNCHANGED <<issued, pc, requests>>
  /\ seen' = [q \in Request |-> IF pc[q] \in UnderWay THEN Also(seen[q], Now(q)') ELSE seen[q]]

-----------------------------------------------------------------------------
\* The locals of a request that is not there.
NoToken      == CHOOSE t \in Token : TRUE
NoMembership == [role |-> CHOOSE r \in Role : TRUE, state |-> "none"]
NoGrants     == [r \in Role |-> {}]
NoContext    == [role |-> CHOOSE r \in Role : TRUE, permissions |-> {}]

Init ==
  /\ open = Session
  /\ lapsed = {}
  /\ linked = Session
  /\ tenant = [active |-> TRUE, org |-> CHOOSE o \in Org : TRUE]
  /\ member \in {NoMembership} \cup {m \in Membership : m.state # "none"}
  /\ grants = Seeded
  /\ gone = {}
  /\ changes = 0
  /\ issued = [sid : Session, oid : {tenant.org}]
  /\ pc = [q \in Request |-> "idle"]
  /\ bearer = [q \in Request |-> NoToken]
  /\ named = [q \in Request |-> FALSE]
  /\ copy = [q \in Request |-> NoMembership]
  /\ known = [q \in Request |-> NoGrants]
  /\ context = [q \in Request |-> NoContext]
  /\ seen = [q \in Request |-> Unseen]

\* /auth/logout and /auth/logout-all.
LogOut(S) ==
  /\ open' = open \ S
  /\ UNCHANGED <<lapsed, linked, tenant, member, grants, gone>>
  /\ Changes

\* Time passes: the session reaches its end, or has been idle for too long.
Lapse(s) ==
  /\ lapsed' = lapsed \cup {s}
  /\ UNCHANGED <<open, linked, tenant, member, grants, gone>>
  /\ Changes

\* The identity is deleted: its foreign key is set to NULL.
Unlink(s) ==
  /\ s \in linked
  /\ linked' = linked \ {s}
  /\ UNCHANGED <<open, lapsed, tenant, member, grants, gone>>
  /\ Changes

\* The tenant is deactivated, restored, or moved to another organization.
AlterTenant ==
  /\ \E t \in Tenants : tenant' = t
  /\ UNCHANGED <<open, lapsed, linked, member, grants, gone>>
  /\ Changes

\* The membership is created, revoked, restored, or given another role.
AlterMembership ==
  /\ \E m \in Membership : m.state # "none" /\ m.role \notin gone /\ member' = m
  /\ UNCHANGED <<open, lapsed, linked, tenant, grants, gone>>
  /\ Changes

AlterGrants(r) ==
  /\ r \notin gone
  /\ \E P \in SUBSET Permission : grants' = [grants EXCEPT ![r] = P]
  /\ UNCHANGED <<open, lapsed, linked, tenant, member, gone>>
  /\ Changes

\* memberships.role_id restricts the deletion; role_permissions go with the role.
DeleteRole(r) ==
  /\ r \notin gone /\ (member.state # "none" => member.role # r)
  /\ gone' = gone \cup {r}
  /\ grants' = [grants EXCEPT ![r] = {}]
  /\ UNCHANGED <<open, lapsed, linked, tenant, member>>
  /\ Changes

\* seed_roles.py: what the system's roles miss of their permissions is added in one transaction.
Seed ==
  /\ grants' = [r \in Role |->
                  IF r \in SystemRole \ gone THEN grants[r] \cup Seeded[r] ELSE grants[r]]
  /\ UNCHANGED <<open, lapsed, linked, tenant, member, gone>>
  /\ Changes

\* create_access_token, for /auth/refresh and /auth/token: the organization is the tenant's.
Issue(s) ==
  /\ s \in open \ lapsed
  /\ issued' = issued \cup {[sid |-> s, oid |-> tenant.org]}
  /\ UNCHANGED <<database, pc, requests, seen>>

-----------------------------------------------------------------------------
(* A request.  Nothing but its own steps changes what it holds. *)

Goes(q, to) == pc' = [pc EXCEPT ![q] = to]

\* The client has its answer, and the request's locals are gone.
Ends(q) ==
  /\ Goes(q, "answered")
  /\ bearer' = [bearer EXCEPT ![q] = NoToken]
  /\ named' = [named EXCEPT ![q] = FALSE]
  /\ copy' = [copy EXCEPT ![q] = NoMembership]
  /\ known' = [known EXCEPT ![q] = NoGrants]
  /\ context' = [context EXCEPT ![q] = NoContext]
  /\ seen' = [seen EXCEPT ![q] = Unseen]
  /\ UNCHANGED <<database, issued>>

Arrive(q) ==
  /\ pc[q] = "idle"
  /\ \E t \in issued : bearer' = [bearer EXCEPT ![q] = t]
  /\ Goes(q, "arrived")
  /\ UNCHANGED <<database, issued, named, copy, known, context>>
  /\ seen' = [seen EXCEPT ![q] = Now(q)']

\* No bearer token, or one that verify_access_token refuses: expired, or not ours.
Reject(q) ==
  /\ pc[q] = "arrived"
  /\ Ends(q)

\* Mutant: the session is closed after call_next.
ConnectedThroughout == {q \in Request : pc[q] \in Reading \cup {"refused"} \cup Admitted}

\* A connection belongs to a request until its AsyncSession is closed.
Connected == {q \in Request : pc[q] \in Reading \cup {"refused", "handling"}}

FreeConnection == Cardinality(Connected) < PoolSize

\* The token is good, and the first SELECT gets its connection.
CheckOut(q) ==
  /\ pc[q] = "arrived" /\ FreeConnection
  /\ Goes(q, "session")
  /\ UNCHANGED <<database, issued, requests, seen>>

\* The UPDATE that revokes a session found expired is rolled back by the exception that
\* follows it, so that a refusal changes nothing.
ReadSession(q) ==
  /\ pc[q] = "session"
  /\ Goes(q, IF SessionInForce(q) THEN "tenant" ELSE "refused")
  /\ named' = [named EXCEPT ![q] = bearer[q].sid \in linked]
  /\ UNCHANGED <<database, issued, bearer, copy, known, context, seen>>

\* Mutant: the organization is not compared.
ReadTenantOnly(q) ==
  /\ pc[q] = "tenant"
  /\ Goes(q, IF tenant.active THEN "memberships" ELSE "refused")
  /\ UNCHANGED <<database, issued, requests, seen>>

ReadTenant(q) ==
  /\ pc[q] = "tenant"
  /\ Goes(q, IF TenantInForce(q) THEN "memberships" ELSE "refused")
  /\ UNCHANGED <<database, issued, requests, seen>>

\* The SELECTs that come with the tenant's: Tenant.memberships ...
LoadMemberships(q) ==
  /\ pc[q] = "memberships"
  /\ copy' = [copy EXCEPT ![q] = member]
  /\ Goes(q, "roles")
  /\ UNCHANGED <<database, issued, bearer, named, known, context, seen>>

\* ... and Tenant.roles, with Role.permissions.
LoadRoles(q) ==
  /\ pc[q] = "roles"
  /\ known' = [known EXCEPT ![q] = grants]
  /\ Goes(q, "membership")
  /\ UNCHANGED <<database, issued, bearer, named, copy, context, seen>>

\* What the identity map returns for a row that matches.
Mapped(q) == IF copy[q].state = "none" THEN member ELSE copy[q]

\* Mutant: the second look at is_active is left out, since the repository has asked for it.
ReadMembershipOnce(q) ==
  /\ pc[q] = "membership"
  /\ Goes(q, IF member.state = "active" THEN "identity" ELSE "refused")
  /\ context' = [context EXCEPT ![q].role = Mapped(q).role]
  /\ UNCHANGED <<database, issued, bearer, named, copy, known, seen>>

\* get_by_user_and_tenant asks for a row that is active now; `not membership.is_active`
\* then asks the object it got.
ReadMembership(q) ==
  /\ pc[q] = "membership"
  /\ Goes(q, IF member.state = "active" /\ Mapped(q).state = "active"
               THEN "identity" ELSE "refused")
  /\ context' = [context EXCEPT ![q].role = Mapped(q).role]
  /\ UNCHANGED <<database, issued, bearer, named, copy, known, seen>>

\* Mutant: a session that never had an identity is refused like one that lost it.
ReadIdentityAlways(q) ==
  /\ pc[q] = "identity"
  /\ Goes(q, IF bearer[q].sid \in linked THEN "role" ELSE "refused")
  /\ UNCHANGED <<database, issued, requests, seen>>

\* The provider is that of the identity the session named when it was read.
ReadIdentity(q) ==
  /\ pc[q] = "identity"
  /\ Goes(q, IF IdentityKept(q) THEN "role" ELSE "refused")
  /\ UNCHANGED <<database, issued, requests, seen>>

\* rollback() and aclose(); the exception becomes the answer.
Close(q) == pc[q] = "refused" /\ Ends(q)

\* The SELECT asks for the row of the role the membership was loaded with, and finds none if it
\* has been deleted since.
RoleRefused(q) ==
  /\ pc[q] = "role" /\ context[q].role \in gone
  /\ Goes(q, "refused")
  /\ UNCHANGED <<database, issued, requests, seen>>

\* The permissions of a role of the tenant are loaded already.  commit() and aclose() follow
\* before call_next.  require_tenant_membership lets every context pass, since it has a
\* membership_id; some endpoints do not use the database.
ReadRole(q) ==
  /\ pc[q] = "role"
  /\ LET r == context[q].role IN
       /\ r \notin gone
       /\ context' = [context EXCEPT ![q].permissions =
                        IF r \in TenantRole THEN known[q][r] ELSE grants[r]]
  /\ \E to \in {"handler", "computing"} : Goes(q, to)
  /\ UNCHANGED <<database, issued, bearer, named, copy, known, seen>>

\* The endpoint's get_db checks out a connection of its own.
Handle(q) ==
  /\ pc[q] = "handler" /\ FreeConnection
  /\ Goes(q, "handling")
  /\ UNCHANGED <<database, issued, requests, seen>>

Respond(q) == pc[q] \in {"handling", "computing"} /\ Ends(q)

-----------------------------------------------------------------------------
Others ==
  \/ \E S \in {{s} : s \in Session} \cup {Session} : LogOut(S)
  \/ \E s \in Session : Lapse(s) \/ Unlink(s) \/ Issue(s)
  \/ AlterTenant \/ AlterMembership \/ Seed
  \/ \E r \in Role : AlterGrants(r) \/ DeleteRole(r)

Dispatch(q) ==
  \/ Reject(q) \/ CheckOut(q)
  \/ ReadSession(q) \/ ReadTenant(q) \/ LoadMemberships(q) \/ LoadRoles(q)
  \/ ReadMembership(q) \/ ReadIdentity(q) \/ RoleRefused(q) \/ ReadRole(q) \/ Close(q)
  \/ Handle(q) \/ Respond(q)

Next == Others \/ \E q \in Request : Arrive(q) \/ Dispatch(q)

\* A coroutine that can go on does; the pool hands a free connection to who waits for it.
Spec == Init /\ [][Next]_vars /\ \A q \in Request : WF_vars(Dispatch(q))

-----------------------------------------------------------------------------
(* Properties. *)

\* An endpoint runs with a context that was in force: between the request's arrival and its
\* admission there was a moment when the session was neither revoked nor lapsed, one when the
\* tenant was active in the token's organization, one when an active membership had the
\* context's role, and one when that role had exactly the context's permissions.  So what was
\* revoked before a request came is of no use to it.  (They need not be the same moment.)
ContextWasInForce ==
  \A q \in Request : pc[q] \in Admitted =>
    /\ seen[q].session /\ seen[q].tenant
    /\ context[q].role \in seen[q].roles
    /\ <<context[q].role, context[q].permissions>> \in seen[q].grants

\* The user has had another role since the request came, and the one he had has been deleted.
RoleTakenAway(q) == \E r \in seen[q].roles \cap gone : seen[q].roles # {r}

HasCause(q) == seen[q].gap \/ RoleTakenAway(q)

\* A request whose token is good is refused only if something it needs was missing at some
\* moment since it arrived, or if the user was given another role in that time and the former
\* one was deleted: then the membership that came with the tenant still has the role there is
\* no row of, and a user is refused whose membership was active, with a role, all the time.
\* Otherwise, rows that are loaded once and looked at twice, and changes made between the
\* SELECTs, refuse nobody who had his rights all the time.
RefusedForCause == \A q \in Request : pc[q] = "refused" => HasCause(q)

\* What makes the two inductive: a step that has been passed was passed on a fact that has
\* been seen, and what a request holds was read from the rows since it arrived.
PassedOnFacts(q) ==
  /\ pc[q] \in PastSession => seen[q].session
  /\ pc[q] \in PastTenant => seen[q].tenant
  /\ pc[q] \in PastMemberships /\ copy[q].state = "active" => copy[q].role \in seen[q].roles
  /\ pc[q] \in PastRoles => \A r \in TenantRole \ gone : <<r, known[q][r]>> \in seen[q].grants
  /\ pc[q] \in PastMembership => context[q].role \in seen[q].roles
  /\ pc[q] \in Admitted =>
        <<context[q].role, context[q].permissions>> \in seen[q].grants

\* The present is part of what a request under way has seen.
SeesThePresent(q) == pc[q] \in UnderWay => seen[q] = Also(seen[q], Now(q))

\* Without a gap the membership that came with the tenant is active.
NoGap(q) ==
  pc[q] \in PastMemberships \cap UnderWay /\ ~seen[q].gap => copy[q].state = "active"

\* The foreign key of memberships.role_id.
RoleIsThere == member.state # "none" => member.role \notin gone

AdmissionInv ==
  /\ TypeOK /\ RoleIsThere
  /\ \A q \in Request : PassedOnFacts(q) /\ SeesThePresent(q) /\ NoGap(q)
  /\ RefusedForCause

\* Every request is answered, however few connections there are: a request that waits for
\* one holds none.
EveryRequestIsAnswered ==
  \A q \in Request : pc[q] = "arrived" ~> pc[q] = "answered"
=============================================================================
