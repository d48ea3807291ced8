----------------------------- MODULE LoginCallback -----------------------------
(***************************************************************************)
(* Signing in with Entra ID: GET /auth/entra stores a state and sends the  *)
(* browser to the provider, POST /auth/callback/entra brings the state and *)
(* the authorization code back (ProviderAuthService).                      *)
(*                                                                         *)
(* A callback is one transaction, from the UPDATE that consumes the state  *)
(* to the commit in the router: it provisions user, membership and         *)
(* identity, and opens the session, or leaves nothing behind.  Until then  *)
(* it keeps the lock of the state's row, also while it talks to the        *)
(* provider, and the keys it has inserted: who updates the same row or     *)
(* inserts the same key waits for it.                                      *)
(*                                                                         *)
(* A callback is named by its request; so is the user it creates.          *)
(***************************************************************************)
EXTENDS Naturals, FiniteSets

CONSTANTS
  State,         \* the values of OAuthState.state
  Callback,      \* the requests to /auth/callback/entra
  Person,        \* subjects at the provider: the claim sub
  Email,
  EmailsOf,      \* the emails the provider may name for a person, now or later
  Taken,         \* emails of users who have no identity at the provider
  MaxFaults,     \* bound: lost answers and lost connections
  MaxChanges     \* bound: how often the tenant is closed or opened again

ASSUME EmailsArePeoples == EmailsOf \in [Person -> SUBSET Email]
ASSUME ThereIsAState == State # {}
ASSUME TakenAreEmails == Taken \subseteq Email
ASSUME BoundsAreNatural == MaxFaults \in Nat /\ MaxChanges \in Nat

VARIABLES
  (* what has been committed *)
  oauth,         \* oauth_states: absent, open, or consumed_at set
  expired,       \* states whose expires_at has passed
  seeded,        \* the system role "member" exists
  accepting,     \* the Entra tenant is mapped to a tenant that is active
  users,         \* the users that callbacks created
  members,       \* their memberships, by user
  identities,
  sessions,      \* device_sessions with their first epoch, by user
  credentials,   \* identity_provider_credentials, by the identity's user
  (* the provider *)
  claims,        \* who signed in for a state, once its code is issued
  spent,         \* states whose code has been redeemed
  replayed,      \* states whose code has been presented again
  (* the requests *)
  pc, on, fresh, pair,
  faults, changes

provider == <<claims, spent, replayed>>
rows     == <<users, members, identities, sessions, credentials>>
setting  == <<seeded, accepting, changes>>
locals   == <<on, fresh, pair>>
vars     == <<oauth, expired, rows, provider, setting, pc, locals, faults>>

Claims   == {c \in [person : Person, email : Email] : c.email \in EmailsOf[c.person]}
User     == [by : Callback, email : Email]
Identity == [user : Callback, person : Person]

\* Before the code is redeemed and after; with a row in users, and in identities.
WithIdentity == {"commit"}
WithUser     == {"member", "identity"} \cup WithIdentity
Redeemed     == {"resolve", "identify", "user"} \cup WithUser
InTransaction == {"exchange"} \cup Redeemed
Steps == {"idle", "arrived", "done", "failed"} \cup InTransaction

TypeOK ==
  /\ oauth \in [State -> {"none", "open", "consumed"}]
  /\ expired \subseteq State
  /\ seeded \in BOOLEAN /\ accepting \in BOOLEAN
  /\ users \subseteq User /\ identities \subseteq Identity
  /\ members \subseteq Callback /\ sessions \subseteq Callback /\ credentials \subseteq Callback
  /\ claims \in [State -> {{}} \cup {{c} : c \in Claims}]
  /\ spent \subseteq State /\ replayed \subseteq State
  /\ pc \in [Callback -> Steps]
  /\ on \in [Callback -> State]
  /\ fresh \in [Callback -> BOOLEAN] /\ pair \in [Callback -> BOOLEAN]
  /\ faults \in 0 .. MaxFaults /\ changes \in 0 .. MaxChanges

Init ==
  /\ oauth = [s \in State |-> "none"] /\ expired = {}
  /\ seeded \in BOOLEAN /\ accepting \in BOOLEAN
  /\ users = {} /\ members = {} /\ identities = {} /\ sessions = {} /\ credentials = {}
  /\ claims = [s \in State |-> {}] /\ spent = {} /\ replayed = {}
  /\ pc = [q \in Callback |-> "idle"]
  /\ on = [q \in Callback |-> CHOOSE s \in State : TRUE]
  /\ fresh = [q \in Callback |-> FALSE] /\ pair = [q \in Callback |-> FALSE]
  /\ faults = 0 /\ changes = 0

-----------------------------------------------------------------------------
(* What surrounds the callbacks. *)

InitiateLogin(s) ==
  /\ oauth[s] = "none"
  /\ oauth' = [oauth EXCEPT ![s] = "open"]
  /\ UNCHANGED <<expired, rows, provider, setting, pc, locals, faults>>

\* Ten minutes after it was created.
Expire(s) ==
  /\ oauth[s] # "none" /\ s \notin expired
  /\ expired' = expired \cup {s}
  /\ UNCHANGED <<oauth, rows, provider, setting, pc, locals, faults>>

\* Someone signs in with the provider, which issues the code.  A person's email is what
\* the provider says it is by then.
SignIn(s, c) ==
  /\ oauth[s] # "none" /\ claims[s] = {}
  /\ claims' = [claims EXCEPT ![s] = {c}]
  /\ UNCHANGED <<oauth, expired, rows, spent, replayed, setting, pc, locals, faults>>

SeedRoles ==
  /\ ~seeded /\ seeded' = TRUE
  /\ UNCHANGED <<oauth, expired, rows, provider, accepting, changes, pc, locals, faults>>

AlterTenant ==
  /\ changes < MaxChanges /\ changes' = changes + 1
  /\ accepting' = ~accepting
  /\ UNCHANGED <<oauth, expired, rows, provider, seeded, pc, locals, faults>>

-----------------------------------------------------------------------------
(* One callback. *)

Signed(q) == CHOOSE c \in claims[on[q]] : TRUE

Goes(q, step) == pc' = [pc EXCEPT ![q] = step]

\* The next statement, if its condition holds; otherwise the transaction is rolled back.
GoesIf(q, condition, step) == Goes(q, IF condition THEN step ELSE "failed")

Known(p) == \E i \in identities : i.person = p
Used(e)  == e \in Taken \/ \E u \in users : u.email = e

\* A lock is free when no transaction under way, other than the asking one, has it.
StateFree(q)    == \A r \in Callback \ {q} : pc[r] \in InTransaction => on[r] # on[q]
EmailFree(q)    == \A r \in Callback \ {q} :
                     pc[r] \in WithUser => Signed(r).email # Signed(q).email
IdentityFree(q) == \A r \in Callback \ {q} :
                     pc[r] \in WithIdentity => Signed(r).person # Signed(q).person

\* The browser posts a state and its code, perhaps more than once.  The UPDATE compares
\* expires_at with the time its statement was built.
Arrive(q, s) ==
  /\ pc[q] = "idle" /\ claims[s] # {}
  /\ on' = [on EXCEPT ![q] = s]
  /\ fresh' = [fresh EXCEPT ![q] = s \notin expired]
  /\ Goes(q, "arrived")
  /\ UNCHANGED <<oauth, expired, rows, provider, setting, pair, faults>>

\* A plausible mistake: get_unconsumed asks first, and the state is marked in the end.
ConsumeUnlocked(q) ==
  /\ pc[q] = "arrived"
  /\ GoesIf(q, fresh[q] /\ oauth[on[q]] = "open", "exchange")
  /\ UNCHANGED <<oauth, expired, rows, provider, setting, locals, faults>>

\* The UPDATE waits for a transaction that has updated the row, and looks at the row again.
Consume(q) ==
  /\ pc[q] = "arrived" /\ StateFree(q)
  /\ GoesIf(q, fresh[q] /\ oauth[on[q]] = "open", "exchange")
  /\ UNCHANGED <<oauth, expired, rows, provider, setting, locals, faults>>

\* The provider redeems a code once.  Without offline_access there is no refresh token.
Exchange(q) ==
  /\ pc[q] = "exchange"
  /\ spent' = spent \cup {on[q]}
  /\ replayed' = replayed \cup (spent \cap {on[q]})
  /\ GoesIf(q, on[q] \notin spent, "resolve")
  /\ \E complete \in BOOLEAN : pair' = [pair EXCEPT ![q] = complete]
  /\ UNCHANGED <<oauth, expired, rows, claims, setting, on, fresh, faults>>

\* The answer is lost, or its ID token cannot be validated: the code is spent nevertheless.
AnswerLost(q) ==
  /\ pc[q] = "exchange"
  /\ faults < MaxFaults /\ faults' = faults + 1
  /\ spent' = spent \cup {on[q]}
  /\ replayed' = replayed \cup (spent \cap {on[q]})
  /\ Goes(q, "failed")
  /\ UNCHANGED <<oauth, expired, rows, claims, setting, locals>>

Resolve(q) ==
  /\ pc[q] = "resolve"
  /\ GoesIf(q, accepting, "identify")
  /\ UNCHANGED <<oauth, expired, rows, provider, setting, locals, faults>>

\* For an identity that exists the code asks for identity.user.tenant_id, which a User does
\* not have: AttributeError, and the router rolls back.
FindIdentity(q) ==
  /\ pc[q] = "identify"
  /\ GoesIf(q, ~Known(Signed(q).person), "user")
  /\ UNCHANGED <<oauth, expired, rows, provider, setting, locals, faults>>

\* A plausible mistake: an email in use is waited for.
InsertUserPatiently(q) ==
  /\ pc[q] = "user" /\ EmailFree(q) /\ ~Used(Signed(q).email)
  /\ Goes(q, "member")
  /\ UNCHANGED <<oauth, expired, rows, provider, setting, locals, faults>>

InsertUser(q) ==
  /\ pc[q] = "user" /\ EmailFree(q)
  /\ GoesIf(q, ~Used(Signed(q).email), "member")
  /\ UNCHANGED <<oauth, expired, rows, provider, setting, locals, faults>>

\* A plausible mistake: _jit_provision_user commits what it has created.
InsertMembershipAndCommit(q) ==
  /\ pc[q] = "member"
  /\ GoesIf(q, seeded, "identity")
  /\ users' = users \cup IF seeded THEN {[by |-> q, email |-> Signed(q).email]} ELSE {}
  /\ members' = members \cup IF seeded THEN {q} ELSE {}
  /\ UNCHANGED <<oauth, expired, identities, sessions, credentials, provider, setting, locals,
                 faults>>

InsertMembership(q) ==
  /\ pc[q] = "member"
  /\ GoesIf(q, seeded, "identity")
  /\ UNCHANGED <<oauth, expired, rows, provider, setting, locals, faults>>

\* A plausible mistake: only the SELECT before asks whether the identity exists.
InsertIdentityUnconstrained(q) ==
  /\ pc[q] = "identity"
  /\ Goes(q, "commit")
  /\ UNCHANGED <<oauth, expired, rows, provider, setting, locals, faults>>

InsertIdentity(q) ==
  /\ pc[q] = "identity" /\ IdentityFree(q)
  /\ GoesIf(q, ~Known(Signed(q).person), "commit")
  /\ UNCHANGED <<oauth, expired, rows, provider, setting, locals, faults>>

\* Session, epoch and credential go with the commit: their keys are new.
Commit(q) ==
  /\ pc[q] = "commit"
  /\ oauth' = [oauth EXCEPT ![on[q]] = "consumed"]
  /\ users' = users \cup {[by |-> q, email |-> Signed(q).email]}
  /\ members' = members \cup {q}
  /\ identities' = identities \cup {[user |-> q, person |-> Signed(q).person]}
  /\ sessions' = sessions \cup {q}
  /\ credentials' = credentials \cup IF pair[q] THEN {q} ELSE {}
  /\ Goes(q, "done")
  /\ UNCHANGED <<expired, provider, setting, locals, faults>>

\* The process or its connection to the database is lost.
ConnectionLost(q) ==
  /\ pc[q] \in InTransaction
  /\ faults < MaxFaults /\ faults' = faults + 1
  /\ Goes(q, "failed")
  /\ UNCHANGED <<oauth, expired, rows, provider, setting, locals>>

-----------------------------------------------------------------------------
Handle(q) ==
  \/ Consume(q) \/ Exchange(q) \/ Resolve(q) \/ FindIdentity(q)
  \/ InsertUser(q) \/ InsertMembership(q) \/ InsertIdentity(q) \/ Commit(q)

Next ==
  \/ \E s \in State : InitiateLogin(s) \/ Expire(s) \/ \E c \in Claims : SignIn(s, c)
  \/ SeedRoles \/ AlterTenant
  \/ \E q \in Callback :
       (\E s \in State : Arrive(q, s)) \/ Handle(q) \/ AnswerLost(q) \/ ConnectionLost(q)

Spec == Init /\ [][Next]_vars /\ \A q \in Callback : WF_vars(Handle(q))

-----------------------------------------------------------------------------
(* Properties. *)

\* What is locked is not yet in the tables, and nobody else has it.
LocksAreExclusive ==
  \A q \in Callback :
    /\ pc[q] \in InTransaction => StateFree(q) /\ oauth[on[q]] = "open"
    /\ pc[q] \in WithUser => EmailFree(q) /\ ~Used(Signed(q).email)
    /\ pc[q] \in WithIdentity => IdentityFree(q) /\ ~Known(Signed(q).person)

\* A callback that is past the exchange is the only one that presented its code, and the
\* state of a callback that logged in is consumed.
CodesAreAccountedFor ==
  /\ replayed \subseteq spent
  /\ \A q \in Callback :
       /\ pc[q] # "idle" => claims[on[q]] # {}
       /\ pc[q] \in Redeemed \cup {"done"} => on[q] \in spent \ replayed
       /\ pc[q] = "done" => oauth[on[q]] = "consumed"

\* What a callback has committed is there when it is done, and not before.
RowsAreOfTheDone ==
  LET Done == {q \in Callback : pc[q] = "done"} IN
  /\ members = Done /\ sessions = Done /\ credentials \subseteq Done
  /\ {u.by : u \in users} = Done
  /\ {i.user : i \in identities} = Done

\* The state of logins and provisioning is consistent: a state, an email and an identity are
\* in one transaction's hands at a time (consume_state, the unique keys), a code is presented
\* once by the callback that logs in with it, and rows come from callbacks that have finished.
LoginInv == TypeOK /\ LocksAreExclusive /\ CodesAreAccountedFor /\ RowsAreOfTheDone

\* Provisioning is whole: whatever callbacks run at once, fail or die in the middle, a user
\* that _jit_provision_user created has exactly one identity and a membership, no person and
\* no email has two users, and sessions and credentials belong to such a user.
ProvisioningIsWhole ==
  /\ \A u \in users :
       /\ u.by \in members
       /\ \E i \in identities : i.user = u.by
       /\ u.email \notin Taken
       /\ \A v \in users : u.by = v.by \/ u.email = v.email => u = v
  /\ \A i \in identities :
       /\ \E u \in users : u.by = i.user
       /\ \A j \in identities : i.user = j.user \/ i.person = j.person => i = j
  /\ members \cup sessions \cup credentials \subseteq {i.user : i \in identities}

\* The tokens a login keeps stem from a code that was never presented a second time: the row
\* lock of consume_state outlasts the exchange, so that a callback posted twice cannot make
\* the provider revoke what the first one received.
KeptTokensNotReplayed == \A q \in sessions : on[q] \notin replayed

\* Every callback is answered, however it waits for other transactions: locks are taken in one
\* order (state, email, identity), and a transaction that has them ends.
EveryCallbackIsAnswered ==
  \A q \in Callback : pc[q] = "arrived" ~> pc[q] \in {"done", "failed"}

\* The documented sequence of a login by an existing user ("IDENTITY_LINKED ... LOGIN_SUCCEEDED"):
\* a callback whose person has an identity goes on.  FindIdentity refutes it.
ReturningUserGoesOn ==
  [][\A q \in Callback :
       pc[q] = "identify" /\ Known(Signed(q).person) => pc'[q] # "failed"]_vars
=============================================================================
