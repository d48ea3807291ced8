------------------------ MODULE RequestAdmission_proofs ------------------------
(***************************************************************************)
(* Proofs about RequestAdmission: an endpoint runs only with a context that*)
(* was in force between the request's arrival and its admission, and a     *)
(* request is refused only for something it missed in that time or for a   *)
(* role that was taken from the user and deleted, for every set of         *)
(* sessions, requests, roles, permissions and organizations, every size of *)
(* the pool and any number of changes in between.                          *)
(***************************************************************************)
EXTENDS RequestAdmission, TLAPS

Seen == [session : BOOLEAN, tenant : BOOLEAN, roles : SUBSET Role,
         grants : SUBSET Grant, gap : BOOLEAN]

\* What is not there has a type as well.
LEMMA NothingIsTyped ==
  /\ NoToken \in Token /\ NoMembership \in Membership
  /\ NoGrants \in [Role -> SUBSET Permission] /\ NoContext \in Contexts
  /\ Unseen \in Seen
<1>1. PICK s \in Session, r \in Role, o \in Org : TRUE
  BY ThereIsOne
<1>2. [sid |-> s, oid |-> o] \in Token
  BY <1>1 DEF Token
<1>3. NoToken \in Token
  BY <1>2 DEF NoToken
<1>4. (CHOOSE x \in Role : TRUE) \in Role
  BY <1>1
<1>5. NoMembership \in Membership /\ NoContext \in Contexts
  BY <1>4 DEF NoMembership, Membership, NoContext, Contexts
<1>6. NoGrants \in [Role -> SUBSET Permission]
  BY DEF NoGrants
<1>7. Unseen \in Seen
  BY DEF Unseen, Seen
<1>. QED
  BY <1>3, <1>5, <1>6, <1>7

\* The facts of a moment are of the type of what is seen, and so is what they add to.
LEMMA NowIsTyped ==
  ASSUME TypeOK, NEW q \in Request
  PROVE  Now(q) \in Seen
<1>1. ActiveRoles \in SUBSET Role
  BY DEF ActiveRoles
<1>2. CurrentGrants \in SUBSET Grant
  BY DEF CurrentGrants, Grant, TypeOK
<1>3. SessionInForce(q) \in BOOLEAN /\ TenantInForce(q) \in BOOLEAN /\ (~InForce(q)) \in BOOLEAN
  BY DEF SessionInForce, TenantInForce, InForce, TypeOK, Tenants
<1>. QED
  BY <1>1, <1>2, <1>3 DEF Now, Seen

\* What a moment is seen to be is a set of facts, also in the next state.
LEMMA NextIsTyped ==
  ASSUME TypeOK', NEW q \in Request
  PROVE  Now(q)' \in Seen
<1>1. ActiveRoles' \in SUBSET Role
  BY DEF ActiveRoles
<1>2. CurrentGrants' \in SUBSET Grant
  BY DEF CurrentGrants, Grant, TypeOK
<1>3. /\ SessionInForce(q)' \in BOOLEAN /\ TenantInForce(q)' \in BOOLEAN
      /\ (~InForce(q))' \in BOOLEAN
  BY DEF SessionInForce, TenantInForce, InForce, TypeOK, Tenants
<1>. QED
  BY <1>1, <1>2, <1>3 DEF Now, Seen

\* What two moments have shown is a set of facts.
LEMMA AlsoIsTyped ==
  ASSUME NEW b \in Seen, NEW n \in Seen
  PROVE  Also(b, n) \in Seen
  BY DEF Also, Seen

\* What has been seen stays seen, and a moment adds itself.
LEMMA AlsoAdds ==
  ASSUME NEW b \in Seen, NEW n \in Seen
  PROVE  /\ (b.session \/ n.session) => Also(b, n).session
         /\ (b.tenant \/ n.tenant) => Also(b, n).tenant
         /\ b.roles \cup n.roles \subseteq Also(b, n).roles
         /\ b.grants \cup n.grants \subseteq Also(b, n).grants
         /\ (b.gap \/ n.gap) <=> Also(b, n).gap
  BY DEF Also, Seen

\* Seeing a moment twice shows nothing more.
LEMMA AlsoTwice ==
  ASSUME NEW b \in Seen, NEW n \in Seen
  PROVE  Also(Also(b, n), n) = Also(b, n)
<1>. DEFINE a == Also(b, n)
<1>1. (a.session \/ n.session) = a.session
  BY DEF Also, Seen
<1>2. (a.tenant \/ n.tenant) = a.tenant
  BY DEF Also, Seen
<1>3. (a.gap \/ n.gap) = a.gap
  BY DEF Also, Seen
<1>4. a.roles \cup n.roles = a.roles /\ a.grants \cup n.grants = a.grants
  BY DEF Also, Seen
<1>. QED
  BY <1>1, <1>2, <1>3, <1>4, AlsoIsTyped, Zenon DEF Also, Seen

Kept(q) ==
  /\ PassedOnFacts(q) /\ SeesThePresent(q) /\ NoGap(q)
  /\ pc[q] = "refused" => HasCause(q)

\* The invariant is the same for each request.
LEMMA AdmissionInvIsKept ==
  AdmissionInv <=> TypeOK /\ RoleIsThere /\ \A q \in Request : Kept(q)
  BY DEF AdmissionInv, Kept, RefusedForCause

\* What is the case now has been seen by a request under way.
LEMMA PresentIsSeen ==
  ASSUME TypeOK, NEW q \in Request, Kept(q), pc[q] \in UnderWay
  PROVE  /\ SessionInForce(q) => seen[q].session
         /\ TenantInForce(q) => seen[q].tenant
         /\ ActiveRoles \subseteq seen[q].roles
         /\ CurrentGrants \subseteq seen[q].grants
         /\ seen[q].gap \/ InForce(q)
<1>1. seen[q] \in Seen /\ Now(q) \in Seen
  BY NowIsTyped DEF TypeOK, Seen
<1>2. seen[q] = Also(seen[q], Now(q))
  BY DEF Kept, SeesThePresent
<1>3. /\ Now(q).session = SessionInForce(q) /\ Now(q).tenant = TenantInForce(q)
      /\ Now(q).roles = ActiveRoles /\ Now(q).grants = CurrentGrants
      /\ Now(q).gap = ~InForce(q)
  BY DEF Now
<1>4. /\ (seen[q].session \/ Now(q).session) => seen[q].session
      /\ (seen[q].tenant \/ Now(q).tenant) => seen[q].tenant
      /\ seen[q].roles \cup Now(q).roles \subseteq seen[q].roles
      /\ seen[q].grants \cup Now(q).grants \subseteq seen[q].grants
      /\ (seen[q].gap \/ Now(q).gap) <=> seen[q].gap
  <2>. DEFINE s == seen[q]
              n == Now(q)
  <2>1. s \in Seen /\ n \in Seen /\ s = Also(s, n)
    BY <1>1, <1>2
  <2>. HIDE DEF s, n
  <2>2. /\ (s.session \/ n.session) => s.session
        /\ (s.tenant \/ n.tenant) => s.tenant
        /\ s.roles \cup n.roles \subseteq s.roles
        /\ s.grants \cup n.grants \subseteq s.grants
        /\ (s.gap \/ n.gap) <=> s.gap
    BY <2>1, AlsoAdds
  <2>. QED BY <2>2 DEF s, n
<1>5. SessionInForce(q) => seen[q].session
  BY <1>3, <1>4
<1>6. TenantInForce(q) => seen[q].tenant
  BY <1>3, <1>4
<1>7. ActiveRoles \subseteq seen[q].roles /\ CurrentGrants \subseteq seen[q].grants
  BY <1>3, <1>4
<1>8. seen[q].gap \/ InForce(q)
  BY <1>3, <1>4
<1>. QED
  BY <1>5, <1>6, <1>7, <1>8

\* The invariant holds when no request has come.
LEMMA InitAdmission == Init => AdmissionInv
<1>. SUFFICES ASSUME Init PROVE AdmissionInv
  OBVIOUS
<1>1. TypeOK
  <2>1. tenant \in Tenants
    BY ThereIsOne DEF Init, Tenants
  <2>2. issued \subseteq Token
    BY <2>1 DEF Init, Token, Tenants
  <2>. QED
    BY <2>1, <2>2, NothingIsTyped, SeedIsOfRoles, MaxChangesIsNatural
       DEF Init, TypeOK, Steps, Seen, Membership
<1>3. RoleIsThere
  BY DEF Init, RoleIsThere
<1>2. \A q \in Request : Kept(q)
  BY DEF Init, Kept, PassedOnFacts, SeesThePresent, NoGap, PastSession, PastTenant,
         PastMemberships, PastRoles, PastMembership, UnderWay, Reading, Admitted
<1>. QED
  BY <1>1, <1>2, <1>3, AdmissionInvIsKept

\* What was a cause remains one, whatever is deleted and seen beyond it.
LEMMA CauseRemains ==
  ASSUME NEW q \in Request, HasCause(q), gone \subseteq gone',
         seen[q].gap => seen'[q].gap, seen[q].roles \subseteq seen'[q].roles
  PROVE  HasCause(q)'
<1>1. CASE seen[q].gap
  BY <1>1 DEF HasCause
<1>2. CASE RoleTakenAway(q)
  <2>1. PICK r \in seen[q].roles \cap gone : seen[q].roles # {r}
    BY <1>2 DEF RoleTakenAway
  <2>2. seen'[q].roles # {r}
    BY <2>1
  <2>. QED
    BY <2>1, <2>2 DEF HasCause, RoleTakenAway
<1>. QED
  BY <1>1, <1>2 DEF HasCause

\* Deleted roles stay deleted, and the membership's role is none of them.
LEMMA OthersKeepRoles ==
  ASSUME TypeOK, RoleIsThere, Others
  PROVE  RoleIsThere' /\ gone \subseteq gone'
<1>1. CASE AlterMembership
  BY <1>1 DEF AlterMembership, RoleIsThere
<1>2. ASSUME NEW r \in Role, DeleteRole(r) PROVE RoleIsThere' /\ gone \subseteq gone'
  BY <1>2 DEF DeleteRole, RoleIsThere
<1>3. ASSUME gone' = gone, member' = member PROVE RoleIsThere' /\ gone \subseteq gone'
  BY <1>3 DEF RoleIsThere
<1>. QED
  BY <1>1, <1>2, <1>3 DEF Others, LogOut, Lapse, Unlink, Issue, AlterTenant, Seed, AlterGrants,
     database

\* A change made by others: what was seen stays seen, and the change is seen as well.
LEMMA ChangeKeeps ==
  ASSUME AdmissionInv, Changes, TypeOK', gone \subseteq gone', NEW q \in Request
  PROVE  Kept(q)'
<1>1. TypeOK /\ Kept(q)
  BY AdmissionInvIsKept
<1>2. /\ pc' = pc /\ bearer' = bearer /\ named' = named /\ copy' = copy /\ known' = known
      /\ context' = context
  BY DEF Changes, requests
<1>3. CASE pc[q] \in UnderWay
  <2>. DEFINE b == seen[q]
              n == Now(q)'
  <2>1. b \in Seen /\ n \in Seen
    <3>1. b \in Seen
      BY <1>1 DEF TypeOK, Seen
    <3>2. n \in Seen
      BY NextIsTyped
    <3>. QED BY <3>1, <3>2
  <2>2. seen'[q] = Also(b, n)
    BY <1>3 DEF Changes
  <2>. HIDE DEF b, n
  <2>3. SeesThePresent(q)'
    <3>1. Also(Also(b, n), n) = Also(b, n)
      BY <2>1, AlsoTwice
    <3>. QED BY <3>1, <2>2 DEF SeesThePresent, n
  <2>4. /\ b.session => seen'[q].session
        /\ b.tenant => seen'[q].tenant
        /\ b.roles \subseteq seen'[q].roles
        /\ b.grants \subseteq seen'[q].grants
        /\ b.gap => seen'[q].gap
    BY <2>1, <2>2, AlsoAdds
  <2>5. PassedOnFacts(q)'
    BY <1>1, <1>2, <2>4 DEF Kept, PassedOnFacts, b
  <2>6. NoGap(q)'
    BY <1>1, <1>2, <2>4 DEF Kept, NoGap, b
  <2>7. (pc[q] = "refused" => HasCause(q))'
    BY <1>1, <1>2, <2>4, CauseRemains DEF Kept, b
  <2>. QED
    BY <2>3, <2>5, <2>6, <2>7 DEF Kept
<1>4. CASE pc[q] \notin UnderWay
  <2>1. seen'[q] = seen[q]
    BY <1>4 DEF Changes
  <2>2. (pc[q] = "refused" => HasCause(q))'
    BY <1>1, <1>2, <2>1, CauseRemains DEF Kept
  <2>. QED
    BY <1>1, <1>2, <1>4, <2>1, <2>2 DEF Kept, PassedOnFacts, SeesThePresent, NoGap
<1>. QED
  BY <1>3, <1>4

\* A request that does not move, while the database stands still.
LEMMA BystanderKeeps ==
  ASSUME NEW q \in Request, Kept(q), UNCHANGED database,
         pc'[q] = pc[q], bearer'[q] = bearer[q], named'[q] = named[q], copy'[q] = copy[q],
         known'[q] = known[q], context'[q] = context[q], seen'[q] = seen[q]
  PROVE  Kept(q)'
<1>1. Now(q)' = Now(q)
  BY DEF Now, SessionInForce, TenantInForce, ActiveRoles, CurrentGrants, InForce, IdentityKept,
         database
<1>2. SeesThePresent(q)'
  BY <1>1 DEF Kept, SeesThePresent
<1>. QED
  BY <1>2 DEF Kept, PassedOnFacts, NoGap, HasCause, RoleTakenAway, database

\* Every step of others leaves the types.
LEMMA OthersKeepTypes == ASSUME TypeOK, Others PROVE TypeOK'
<1>1. ASSUME Changes, open' \subseteq Session, lapsed' \subseteq Session, linked' \subseteq Session,
             tenant' \in Tenants, member' \in Membership, grants' \in [Role -> SUBSET Permission],
             gone' \subseteq Role
      PROVE  TypeOK'
  <2>1. changes' \in 0 .. MaxChanges
    BY <1>1, MaxChangesIsNatural DEF TypeOK, Changes
  <2>2. seen' \in [Request -> Seen]
    <3>. SUFFICES ASSUME NEW q \in Request
                  PROVE  (IF pc[q] \in UnderWay THEN Also(seen[q], Now(q)') ELSE seen[q]) \in Seen
      BY <1>1 DEF Changes
    <3>1. seen[q] \in Seen
      BY DEF TypeOK, Seen
    <3>2. Now(q)' \in Seen
      <4>1. ActiveRoles' \in SUBSET Role
        BY DEF ActiveRoles
      <4>2. CurrentGrants' \in SUBSET Grant
        BY <1>1 DEF CurrentGrants, Grant
      <4>3. /\ SessionInForce(q)' \in BOOLEAN /\ TenantInForce(q)' \in BOOLEAN
            /\ (~InForce(q))' \in BOOLEAN
        BY <1>1 DEF SessionInForce, TenantInForce, InForce, Tenants
      <4>. QED
        BY <4>1, <4>2, <4>3 DEF Now, Seen
    <3>. QED
      BY <3>1, <3>2, AlsoIsTyped
  <2>3. /\ issued' = issued /\ pc' = pc /\ bearer' = bearer /\ named' = named
        /\ copy' = copy /\ known' = known /\ context' = context
    BY <1>1 DEF Changes, requests
  <2>. QED
    BY <1>1, <2>1, <2>2, <2>3 DEF TypeOK, Seen
<1>2. ASSUME NEW S, LogOut(S) PROVE TypeOK'
  BY <1>1, <1>2 DEF LogOut, TypeOK
<1>3. ASSUME NEW s \in Session, Lapse(s) PROVE TypeOK'
  BY <1>1, <1>3 DEF Lapse, TypeOK
<1>4. ASSUME NEW s \in Session, Unlink(s) PROVE TypeOK'
  BY <1>1, <1>4 DEF Unlink, TypeOK
<1>5. ASSUME NEW s \in Session, Issue(s) PROVE TypeOK'
  <2>1. issued' \subseteq Token
    BY <1>5 DEF Issue, TypeOK, Token, Tenants
  <2>. QED
    BY <1>5, <2>1 DEF Issue, TypeOK, database, requests
<1>6. CASE AlterTenant
  BY <1>1, <1>6 DEF AlterTenant, TypeOK
<1>7. CASE AlterMembership
  BY <1>1, <1>7 DEF AlterMembership, TypeOK
<1>8. CASE Seed
  <2>1. grants' \in [Role -> SUBSET Permission]
    BY <1>8, SeedIsOfRoles DEF Seed, TypeOK
  <2>. QED
    BY <1>1, <1>8, <2>1 DEF Seed, TypeOK
<1>9. ASSUME NEW r \in Role, AlterGrants(r) PROVE TypeOK'
  <2>1. grants' \in [Role -> SUBSET Permission]
    BY <1>9 DEF AlterGrants, TypeOK
  <2>. QED
    BY <1>1, <1>9, <2>1 DEF AlterGrants, TypeOK
<1>10. ASSUME NEW r \in Role, DeleteRole(r) PROVE TypeOK'
  <2>1. grants' \in [Role -> SUBSET Permission] /\ gone' \subseteq Role
    BY <1>10 DEF DeleteRole, TypeOK
  <2>. QED
    BY <1>1, <1>10, <2>1 DEF DeleteRole, TypeOK
<1>. QED
  BY <1>2, <1>3, <1>4, <1>5, <1>6, <1>7, <1>8, <1>9, <1>10 DEF Others

\* Every step of others keeps it.
LEMMA OthersKeep == ASSUME AdmissionInv, Others PROVE AdmissionInv'
<1>1. TypeOK' /\ RoleIsThere' /\ gone \subseteq gone'
  BY OthersKeepTypes, OthersKeepRoles, AdmissionInvIsKept
<1>2. ASSUME NEW q \in Request PROVE Kept(q)'
  <2>1. CASE Changes
    BY <1>1, <2>1, ChangeKeeps
  <2>2. CASE \E s \in Session : Issue(s)
    BY <2>2, AdmissionInvIsKept, BystanderKeeps DEF Issue, requests
  <2>3. Changes \/ \E s \in Session : Issue(s)
    BY DEF Others, LogOut, Lapse, Unlink, AlterTenant, AlterMembership, Seed, AlterGrants,
       DeleteRole
  <2>. QED
    BY <2>1, <2>2, <2>3
<1>. QED
  BY <1>1, <1>2 DEF AdmissionInv, Kept, RefusedForCause

\* Every step of a request leaves the types.
LEMMA RequestKeepsTypes ==
  ASSUME TypeOK, NEW q \in Request, Arrive(q) \/ Dispatch(q)
  PROVE  TypeOK'
<1>0. /\ {"arrived", "refused", "answered", "handler", "computing", "handling", "session", "tenant",
           "memberships", "roles", "membership", "identity", "role"} \subseteq Steps
  BY DEF Steps, UnderWay, Reading, Admitted
<1>1. CASE Arrive(q)
  <2>1. Now(q)' \in Seen
    <3>1. ActiveRoles' \in SUBSET Role
      BY DEF ActiveRoles
    <3>2. CurrentGrants' \in SUBSET Grant
      BY <1>1 DEF CurrentGrants, Grant, Arrive, database, TypeOK
    <3>3. /\ SessionInForce(q)' \in BOOLEAN /\ TenantInForce(q)' \in BOOLEAN
          /\ (~InForce(q))' \in BOOLEAN
      BY <1>1 DEF SessionInForce, TenantInForce, InForce, Tenants, Arrive, database, TypeOK
    <3>. QED
      BY <3>1, <3>2, <3>3 DEF Now, Seen
  <2>. QED
    BY <1>0, <1>1, <2>1 DEF Arrive, Goes, TypeOK, Seen, database
<1>2. CASE Ends(q)
  BY <1>0, <1>2, NothingIsTyped DEF Ends, Goes, TypeOK, Seen, database
<1>3. CASE CheckOut(q) \/ ReadTenant(q) \/ ReadIdentity(q) \/ RoleRefused(q) \/ Handle(q)
  <2>1. pc' \in [Request -> Steps]
    BY <1>0, <1>3 DEF CheckOut, ReadTenant, ReadIdentity, RoleRefused, Handle, Goes, TypeOK
  <2>2. UNCHANGED <<database, issued, requests, seen>>
    BY <1>3 DEF CheckOut, ReadTenant, ReadIdentity, RoleRefused, Handle
  <2>. QED
    BY <2>1, <2>2 DEF TypeOK, database, requests
<1>4. CASE ReadSession(q)
  BY <1>0, <1>4 DEF ReadSession, Goes, TypeOK, database
<1>5. CASE LoadMemberships(q)
  <2>1. pc' \in [Request -> Steps] /\ copy' \in [Request -> Membership]
    BY <1>0, <1>5 DEF LoadMemberships, Goes, TypeOK
  <2>. QED
    BY <1>5, <2>1 DEF LoadMemberships, TypeOK, database
<1>8. CASE LoadRoles(q)
  <2>1. pc' \in [Request -> Steps]
    BY <1>0, <1>8 DEF LoadRoles, Goes, TypeOK
  <2>2. known' \in [Request -> [Role -> SUBSET Permission]]
    BY <1>8 DEF LoadRoles, TypeOK
  <2>. QED
    BY <1>8, <2>1, <2>2 DEF LoadRoles, TypeOK, database
<1>6. CASE ReadMembership(q)
  <2>1. Mapped(q).role \in Role
    BY DEF Mapped, TypeOK, Membership
  <2>2. context' \in [Request -> Contexts]
    <3>1. context' = [context EXCEPT ![q].role = Mapped(q).role]
      BY <1>6 DEF ReadMembership
    <3>2. context \in [Request -> Contexts]
      BY DEF TypeOK
    <3>. QED
      BY <2>1, <3>1, <3>2 DEF Contexts
  <2>. QED
    BY <1>0, <1>6, <2>2 DEF ReadMembership, Goes, TypeOK, database
<1>7. CASE ReadRole(q)
  <2>. DEFINE r == context[q].role
  <2>1. r \in Role
    BY DEF TypeOK, Contexts
  <2>2. (IF r \in TenantRole THEN known[q][r] ELSE grants[r]) \in SUBSET Permission
    BY <2>1 DEF TypeOK
  <2>3. context' \in [Request -> Contexts]
    BY <1>7, <2>2 DEF ReadRole, TypeOK, Contexts
  <2>. QED
    BY <1>0, <1>7, <2>3 DEF ReadRole, Goes, TypeOK, database
<1>. QED
  BY <1>1, <1>2, <1>3, <1>4, <1>5, <1>6, <1>7, <1>8 DEF Dispatch, Reject, Close, Respond

\* The step of a request: it goes on only past what it has found, and what it has found was
\* the case at that moment.
LEMMA RequestKeeps ==
  ASSUME AdmissionInv, NEW q \in Request, Arrive(q) \/ Dispatch(q)
  PROVE  AdmissionInv'
<1>0. TypeOK /\ RoleIsThere /\ (\A p \in Request : Kept(p)) /\ TypeOK'
  BY AdmissionInvIsKept, RequestKeepsTypes
<1>1. UNCHANGED database
  BY DEF Arrive, Dispatch, Reject, CheckOut, ReadSession, ReadTenant, LoadMemberships, LoadRoles,
         ReadMembership, ReadIdentity, RoleRefused, ReadRole, Close, Handle, Respond, Ends
<1>2. ASSUME NEW p \in Request, p # q PROVE Kept(p)'
  <2>1. /\ pc'[p] = pc[p] /\ bearer'[p] = bearer[p] /\ named'[p] = named[p]
        /\ copy'[p] = copy[p] /\ known'[p] = known[p] /\ context'[p] = context[p]
        /\ seen'[p] = seen[p]
    BY <1>0, <1>2 DEF Arrive, Dispatch, Reject, CheckOut, ReadSession, ReadTenant,
       LoadMemberships, LoadRoles, ReadMembership, ReadIdentity, RoleRefused, ReadRole, Close,
       Handle, Respond, Ends, Goes, TypeOK, requests
  <2>. QED
    BY <1>0, <1>1, <2>1, BystanderKeeps
<1>3. Kept(q)'
  <2>0. Kept(q) /\ gone' = gone
    BY <1>0, <1>1 DEF database
  <2>1. CASE Arrive(q)
    <3>1. seen'[q] = Now(q)' /\ pc'[q] = "arrived"
      BY <1>0, <2>1 DEF Arrive, Goes, TypeOK
    <3>2. Now(q)' \in Seen
      BY <1>0, NextIsTyped
    <3>3. SeesThePresent(q)'
      <4>. DEFINE n == Now(q)'
      <4>1. Also(n, n) = n
        <5>. HIDE DEF n
        <5>1. n \in Seen
          BY <3>2 DEF n
        <5>2. (n.session \/ n.session) = n.session /\ (n.tenant \/ n.tenant) = n.tenant
              /\ (n.gap \/ n.gap) = n.gap
          BY <5>1 DEF Seen
        <5>. QED
          BY <5>1, <5>2, Zenon DEF Also, Seen
      <4>. QED
        BY <3>1, <4>1 DEF SeesThePresent
    <3>. QED
      BY <3>1, <3>3 DEF Kept, HasCause, PassedOnFacts, NoGap, PastSession, PastTenant, PastMemberships,
         PastRoles, PastMembership, Reading, Admitted
  <2>2. CASE Ends(q)
    <3>1. pc'[q] = "answered"
      BY <1>0, <2>2 DEF Ends, Goes, TypeOK
    <3>. QED
      BY <3>1 DEF Kept, HasCause, PassedOnFacts, SeesThePresent, NoGap, PastSession, PastTenant,
         PastMemberships, PastRoles, PastMembership, Reading, Admitted, UnderWay
  <2>3. CASE ReadSession(q)
    <3>1. /\ pc[q] = "session" /\ seen'[q] = seen[q] /\ bearer'[q] = bearer[q]
          /\ named'[q] = (bearer[q].sid \in linked)
          /\ pc'[q] = IF SessionInForce(q) THEN "tenant" ELSE "refused"
      BY <1>0, <2>3 DEF ReadSession, Goes, TypeOK
    <3>2. SessionInForce(q) => seen[q].session
      BY <1>0, <3>1, PresentIsSeen DEF UnderWay, Reading
    <3>3. seen[q].gap \/ InForce(q)
      BY <1>0, <3>1, PresentIsSeen DEF UnderWay, Reading
    <3>4. ~SessionInForce(q) => seen[q].gap
      BY <3>3 DEF InForce
    <3>5. SeesThePresent(q)'
      <4>1. seen[q] = Also(seen[q], Now(q))
        BY <2>0, <3>1 DEF Kept, SeesThePresent, UnderWay, Reading
      <4>2. /\ SessionInForce(q)' = SessionInForce(q) /\ TenantInForce(q)' = TenantInForce(q)
            /\ ActiveRoles' = ActiveRoles /\ CurrentGrants' = CurrentGrants
        BY <1>1, <3>1 DEF SessionInForce, TenantInForce, ActiveRoles, CurrentGrants, database
      <4>3. ~InForce(q)' => ~InForce(q)
        BY <1>1, <3>1 DEF InForce, SessionInForce, TenantInForce, IdentityKept, database
      <4>4. Also(seen[q], Now(q)') = Also(seen[q], Now(q))
        <5>1. (seen[q].gap \/ Now(q)'.gap) <=> (seen[q].gap \/ Now(q).gap)
          BY <3>3, <4>2, <4>3 DEF Now
        <5>2. /\ Now(q)'.session = Now(q).session /\ Now(q)'.tenant = Now(q).tenant
              /\ Now(q)'.roles = Now(q).roles /\ Now(q)'.grants = Now(q).grants
          BY <4>2 DEF Now
        <5>3. (seen[q].gap \/ Now(q)'.gap) = (seen[q].gap \/ Now(q).gap)
          BY <5>1
        <5>. QED
          BY <5>2, <5>3, Zenon DEF Also
      <4>. QED
        BY <3>1, <4>1, <4>4 DEF SeesThePresent
    <3>. QED
      BY <3>1, <3>2, <3>4, <3>5 DEF Kept, HasCause, PassedOnFacts, NoGap, PastSession, PastTenant,
         PastMemberships, PastRoles, PastMembership, Reading, Admitted, UnderWay
  <2>4. ASSUME pc[q] \in UnderWay \/ pc'[q] \notin UnderWay, seen'[q] = seen[q],
               bearer'[q] = bearer[q], named'[q] = named[q]
        PROVE  SeesThePresent(q)'
    <3>1. Now(q)' = Now(q)
      BY <1>1, <2>4 DEF Now, SessionInForce, TenantInForce, ActiveRoles, CurrentGrants, InForce,
         IdentityKept, database
    <3>. QED
      BY <2>0, <2>4, <3>1 DEF Kept, SeesThePresent
  <2>5. CASE CheckOut(q) \/ Handle(q)
    <3>1. /\ seen'[q] = seen[q] /\ bearer'[q] = bearer[q] /\ named'[q] = named[q]
          /\ copy'[q] = copy[q] /\ known'[q] = known[q] /\ context'[q] = context[q]
          /\ \/ pc[q] = "arrived" /\ pc'[q] = "session"
             \/ pc[q] = "handler" /\ pc'[q] = "handling"
      BY <1>0, <2>5 DEF CheckOut, Handle, Goes, TypeOK, requests
    <3>2. SeesThePresent(q)'
      BY <2>4, <3>1 DEF UnderWay, Reading
    <3>. QED
      BY <2>0, <3>1, <3>2 DEF Kept, HasCause, PassedOnFacts, NoGap, PastSession, PastTenant,
         PastMemberships, PastRoles, PastMembership, Reading, Admitted, UnderWay
  <2>6. CASE ReadTenant(q) \/ ReadIdentity(q)
    <3>1. /\ seen'[q] = seen[q] /\ bearer'[q] = bearer[q] /\ named'[q] = named[q]
          /\ copy'[q] = copy[q] /\ known'[q] = known[q] /\ context'[q] = context[q]
          /\ \/ pc[q] = "tenant" /\ TenantInForce(q) /\ pc'[q] = "memberships"
             \/ pc[q] = "identity" /\ pc'[q] = "role"
             \/ pc[q] \in {"tenant", "identity"} /\ ~InForce(q) /\ pc'[q] = "refused"
      BY <1>0, <2>6 DEF ReadTenant, ReadIdentity, Goes, TypeOK, requests, InForce
    <3>2. SeesThePresent(q)'
      BY <2>4, <3>1 DEF UnderWay, Reading
    <3>3. (TenantInForce(q) => seen[q].tenant) /\ (seen[q].gap \/ InForce(q))
      BY <1>0, <3>1, PresentIsSeen DEF UnderWay, Reading
    <3>. QED
      BY <2>0, <3>1, <3>2, <3>3 DEF Kept, HasCause, PassedOnFacts, NoGap, PastSession, PastTenant,
         PastMemberships, PastRoles, PastMembership, Reading, Admitted, UnderWay
  <2>7. CASE LoadMemberships(q)
    <3>1. /\ seen'[q] = seen[q] /\ bearer'[q] = bearer[q] /\ named'[q] = named[q]
          /\ copy'[q] = member /\ pc[q] = "memberships" /\ pc'[q] = "roles"
      BY <1>0, <2>7 DEF LoadMemberships, Goes, TypeOK
    <3>2. SeesThePresent(q)'
      BY <2>4, <3>1 DEF UnderWay, Reading
    <3>3. (ActiveRoles \subseteq seen[q].roles) /\ (seen[q].gap \/ InForce(q))
      BY <1>0, <3>1, PresentIsSeen DEF UnderWay, Reading
    <3>4. member.state = "active" => member.role \in seen[q].roles
      BY <1>0, <3>3 DEF ActiveRoles, TypeOK, Membership
    <3>. QED
      BY <2>0, <3>1, <3>2, <3>3, <3>4 DEF Kept, HasCause, PassedOnFacts, NoGap, InForce, PastSession,
         PastTenant, PastMemberships, PastRoles, PastMembership, Reading, Admitted, UnderWay
  <2>8. CASE LoadRoles(q)
    <3>1. /\ seen'[q] = seen[q] /\ bearer'[q] = bearer[q] /\ named'[q] = named[q]
          /\ copy'[q] = copy[q] /\ known'[q] = grants /\ pc[q] = "roles" /\ pc'[q] = "membership"
      BY <1>0, <2>8 DEF LoadRoles, Goes, TypeOK
    <3>2. SeesThePresent(q)'
      BY <2>4, <3>1 DEF UnderWay, Reading
    <3>3. CurrentGrants \subseteq seen[q].grants
      BY <1>0, <3>1, PresentIsSeen DEF UnderWay, Reading
    <3>4. \A r \in TenantRole \ gone : <<r, known'[q][r]>> \in seen[q].grants
      BY <3>1, <3>3 DEF CurrentGrants, Role
    <3>. QED
      BY <2>0, <3>1, <3>2, <3>4 DEF Kept, HasCause, PassedOnFacts, NoGap, PastSession,
         PastTenant, PastMemberships, PastRoles, PastMembership, Reading, Admitted, UnderWay
  <2>9. CASE ReadMembership(q)
    <3>1. /\ seen'[q] = seen[q] /\ bearer'[q] = bearer[q] /\ named'[q] = named[q]
          /\ copy'[q] = copy[q] /\ known'[q] = known[q] /\ pc[q] = "membership"
          /\ context'[q].role = Mapped(q).role
          /\ pc'[q] = IF member.state = "active" /\ Mapped(q).state = "active"
                        THEN "identity" ELSE "refused"
      BY <1>0, <2>9 DEF ReadMembership, Goes, TypeOK, Contexts
    <3>2. SeesThePresent(q)'
      BY <2>4, <3>1 DEF UnderWay, Reading
    <3>3. (ActiveRoles \subseteq seen[q].roles) /\ (seen[q].gap \/ InForce(q))
      BY <1>0, <3>1, PresentIsSeen DEF UnderWay, Reading
    <3>4. member.state = "active" /\ Mapped(q).state = "active" => Mapped(q).role \in seen[q].roles
      <4>1. CASE copy[q].state = "none"
        BY <1>0, <3>3, <4>1 DEF ActiveRoles, TypeOK, Membership, Mapped
      <4>2. CASE copy[q].state # "none"
        BY <2>0, <3>1, <4>2 DEF Mapped, Kept, PassedOnFacts, PastSession, PastTenant,
           PastMemberships, Reading
      <4>. QED BY <4>1, <4>2
    <3>5. seen[q].gap \/ (member.state = "active" /\ Mapped(q).state = "active")
      BY <2>0, <3>1, <3>3 DEF InForce, Mapped, Kept, NoGap, PastSession, PastTenant,
         PastMemberships, Reading, UnderWay
    <3>. QED
      BY <2>0, <3>1, <3>2, <3>4, <3>5 DEF Kept, HasCause, PassedOnFacts, NoGap, PastSession,
         PastTenant, PastMemberships, PastRoles, PastMembership, Reading, Admitted, UnderWay
  <2>10. CASE ReadRole(q)
    <3>1. /\ seen'[q] = seen[q] /\ bearer'[q] = bearer[q] /\ named'[q] = named[q]
          /\ copy'[q] = copy[q] /\ known'[q] = known[q] /\ pc[q] = "role"
          /\ context'[q].role = context[q].role /\ context[q].role \notin gone
          /\ context'[q].permissions = IF context[q].role \in TenantRole
                                         THEN known[q][context[q].role] ELSE grants[context[q].role]
          /\ pc'[q] \in {"handler", "computing"}
      BY <1>0, <2>10 DEF ReadRole, Goes, TypeOK, Contexts
    <3>2. SeesThePresent(q)'
      BY <2>4, <3>1 DEF UnderWay, Reading
    <3>3. CurrentGrants \subseteq seen[q].grants
      BY <1>0, <3>1, PresentIsSeen DEF UnderWay, Reading
    <3>4. context[q].role \in Role
      BY <1>0 DEF TypeOK, Contexts
    <3>5. <<context'[q].role, context'[q].permissions>> \in seen[q].grants
      <4>1. CASE context[q].role \in TenantRole
        BY <2>0, <3>1, <4>1 DEF Kept, PassedOnFacts, PastSession, PastTenant, PastMemberships,
           PastRoles, Reading
      <4>2. CASE context[q].role \notin TenantRole
        BY <3>1, <3>3, <3>4, <4>2 DEF CurrentGrants
      <4>. QED BY <4>1, <4>2
    <3>. QED
      BY <2>0, <3>1, <3>2, <3>5 DEF Kept, HasCause, PassedOnFacts, NoGap, PastSession,
         PastTenant, PastMemberships, PastRoles, PastMembership, Reading, Admitted, UnderWay
  <2>11. CASE RoleRefused(q)
    <3>1. /\ seen'[q] = seen[q] /\ bearer'[q] = bearer[q] /\ named'[q] = named[q]
          /\ pc[q] = "role" /\ pc'[q] = "refused" /\ context[q].role \in gone
      BY <1>0, <2>11 DEF RoleRefused, Goes, TypeOK, requests
    <3>2. SeesThePresent(q)'
      BY <2>4, <3>1 DEF UnderWay, Reading
    <3>3. ActiveRoles \subseteq seen[q].roles /\ (seen[q].gap \/ InForce(q))
      BY <1>0, <3>1, PresentIsSeen DEF UnderWay, Reading
    <3>4. HasCause(q)
      <4>1. CASE seen[q].gap
        BY <4>1 DEF HasCause
      <4>2. CASE ~seen[q].gap
        <5>1. member.role \in seen[q].roles /\ member.role \notin gone
          BY <1>0, <3>3, <4>2 DEF InForce, ActiveRoles, RoleIsThere, TypeOK, Membership
        <5>2. context[q].role \in seen[q].roles
          BY <2>0, <3>1 DEF Kept, PassedOnFacts, PastSession, PastTenant, PastMemberships,
             PastRoles, PastMembership, Reading
        <5>3. RoleTakenAway(q)
          BY <3>1, <5>1, <5>2 DEF RoleTakenAway
        <5>. QED
          BY <5>3 DEF HasCause
      <4>. QED
        BY <4>1, <4>2
    <3>5. HasCause(q)'
      BY <1>1, <3>1, <3>4 DEF HasCause, RoleTakenAway, database
    <3>. QED
      BY <3>1, <3>2, <3>5 DEF Kept, PassedOnFacts, NoGap, PastSession, PastTenant,
         PastMemberships, PastRoles, PastMembership, Reading, Admitted, UnderWay
  <2>. QED
    BY <2>1, <2>2, <2>3, <2>5, <2>6, <2>7, <2>8, <2>9, <2>10, <2>11
       DEF Dispatch, Reject, Close, Respond
<1>4. RoleIsThere'
  BY <1>0, <1>1 DEF RoleIsThere, database
<1>. QED
  BY <1>0, <1>2, <1>3, <1>4 DEF AdmissionInv, Kept, RefusedForCause

\* The invariant of the admission of requests: types, what a passed step has seen, and
\* refusals (middleware.py:170-411).
THEOREM AdmissionInvariant == Spec => []AdmissionInv
<1>1. AdmissionInv /\ UNCHANGED vars => AdmissionInv'
  <2>. SUFFICES ASSUME AdmissionInv, UNCHANGED vars PROVE AdmissionInv'
    OBVIOUS
  <2>1. TypeOK'
    BY DEF AdmissionInv, TypeOK, vars, database, requests
  <2>3. RoleIsThere'
    BY DEF AdmissionInv, RoleIsThere, vars, database
  <2>2. ASSUME NEW q \in Request PROVE Kept(q)'
    BY AdmissionInvIsKept, BystanderKeeps DEF vars, requests
  <2>. QED
    BY <2>1, <2>2, <2>3 DEF AdmissionInv, Kept, RefusedForCause
<1>2. AdmissionInv /\ [Next]_vars => AdmissionInv'
  BY <1>1, OthersKeep, RequestKeeps DEF Next
<1>. QED
  BY InitAdmission, <1>2, PTL DEF Spec

\* An endpoint's context was in force between the request's arrival and its admission
\* (middleware.py:170-398).
THEOREM ContextsWereInForce == Spec => []ContextWasInForce
<1>1. AdmissionInv => ContextWasInForce
  BY DEF AdmissionInv, ContextWasInForce, PassedOnFacts, PastSession, PastTenant,
     PastMemberships, PastRoles, PastMembership, Admitted
<1>. QED
  BY <1>1, AdmissionInvariant, PTL

\* Nobody is refused who has his rights from the arrival of his request to its admission, unless
\* he had a role that was taken from him and deleted (middleware.py:170-374).
THEOREM RefusalsHaveCause == Spec => []RefusedForCause
<1>1. AdmissionInv => RefusedForCause
  BY DEF AdmissionInv
<1>. QED
  BY <1>1, AdmissionInvariant, PTL
=============================================================================
