------------------------ MODULE DeviceSessions_proofs ------------------------
(***************************************************************************)
(* Proofs about DeviceSessions, for any number of sessions, requests and   *)
(* tokens, any timeouts, and any number of faults.                         *)
(***************************************************************************)
EXTENDS DeviceSessions, TLAPS

\* Refusing leaves the request's locals in their types.
LEMMA RefuseTyped ==
  ASSUME TypeOK, NEW r \in Request, NEW D \in SUBSET Session, Refuse(r, D)
  PROVE  /\ pc' \in [Request -> Steps]
         /\ endpoint' \in [Request -> Rotations \cup Logouts]
         /\ presented' \in [Request -> Token \cup {NoToken}]
         /\ now' \in [Request -> 0 .. MaxTime]
         /\ fresh' \in [Request -> Token \cup {NoToken}]
         /\ target' \in [Request -> Session \cup {None}]
         /\ todo' \in [Request -> SUBSET Session]
         /\ dying' \in [Request -> SUBSET Session]
  BY BoundsAreNaturals DEF TypeOK, Refuse, Leave, Goto, Steps, Rotations

\* So does leaving.
LEMMA LeaveTyped ==
  ASSUME TypeOK, NEW r \in Request, Leave(r)
  PROVE  /\ pc' \in [Request -> Steps]
         /\ endpoint' \in [Request -> Rotations \cup Logouts]
         /\ presented' \in [Request -> Token \cup {NoToken}]
         /\ now' \in [Request -> 0 .. MaxTime]
         /\ fresh' \in [Request -> Token \cup {NoToken}]
         /\ target' \in [Request -> Session \cup {None}]
         /\ todo' \in [Request -> SUBSET Session]
         /\ dying' \in [Request -> SUBSET Session]
  BY BoundsAreNaturals DEF TypeOK, Leave, Goto, Steps, Rotations

\* The requests that commit a rotation have a session to rotate, and a token.
LEMMA RotateTyped ==
  ASSUME TypeOK, NEW r \in Request, RequestOK(r), pc[r] = "rotated", Rotate(r)
  PROVE  /\ current' \in [Session -> Token \cup {NoToken}]
         /\ revoked' \in [Session -> BOOLEAN]
         /\ expiresAt' \in [Session -> Nat] /\ lastActive' \in [Session -> 0 .. MaxTime]
         /\ family' \in [Token -> Session \cup {None}]
         /\ consumed' \in [Token -> BOOLEAN]
  BY DEF TypeOK, RequestOK, Rotate

\* Every step keeps every variable in its type.
LEMMA TypeStep ==
  ASSUME TypeOK, \A r \in Request : RequestOK(r), [Next]_vars
  PROVE  TypeOK'
<1> USE BoundsAreNaturals
<1>1. CASE Tick
  BY <1>1 DEF Tick, TypeOK, sessions, epochs, requests
<1>2. ASSUME NEW s \in Session, CreateSession(s) PROVE TypeOK'
  <2>1. minted' \in Token
    BY <1>2 DEF CreateSession, TypeOK, Token
  <2>2. expiresAt' \in [Session -> Nat]
    BY <1>2, TimeoutsAreNaturals DEF CreateSession, TypeOK
  <2> QED BY <1>2, <2>1, <2>2 DEF CreateSession, TypeOK, Token, requests
<1>3. ASSUME NEW r \in Request,
             Begin(r) \/ Proceed(r) \/ AnswerEarly(r) \/ AnswerLost(r) \/ Abort(r)
      PROVE  TypeOK'
  <2>1. CASE Begin(r)
    <3>1. presented' \in [Request -> Token \cup {NoToken}]
      BY <2>1 DEF Begin, TypeOK
    <3>2. minted' \in 0 .. MaxToken /\ fresh' \in [Request -> Token \cup {NoToken}]
      <4>1. CASE minted < MaxToken /\ minted' = minted + 1 /\ fresh' = [fresh EXCEPT ![r] = minted']
        <5>1. minted' \in Token
          BY <4>1 DEF TypeOK, Token
        <5> QED BY <4>1, <5>1 DEF TypeOK, Token
      <4>2. CASE UNCHANGED <<minted, fresh>>
        BY <4>2 DEF TypeOK
      <4> QED BY <2>1, <4>1, <4>2 DEF Begin
    <3>3. /\ pc' \in [Request -> Steps] /\ now' \in [Request -> 0 .. MaxTime]
          /\ endpoint' \in [Request -> Rotations \cup Logouts]
      BY <2>1 DEF Begin, Goto, TypeOK, Steps
    <3> QED BY <2>1, <3>1, <3>2, <3>3 DEF Begin, TypeOK, sessions, epochs
  <2>2. CASE EpochRefused(r) \/ TenantFails(r) \/ DeadlockDetected(r)
    BY <2>2, LeaveTyped DEF EpochRefused, TenantFails, DeadlockDetected, TypeOK, sessions, epochs, world
  <2>3. CASE LockEpoch(r) \/ TenantPasses(r)
    BY <2>3 DEF LockEpoch, TenantPasses, Goto, Steps, TypeOK, sessions, epochs, world
  <2>4. CASE LockSession(r)
    <3>1. CASE Leave(r)
      BY <2>4, <3>1, LeaveTyped DEF LockSession, TypeOK, sessions, epochs, world
    <3>2. ASSUME NEW s \in Session, Refuse(r, {s}) PROVE TypeOK'
      BY <2>4, <3>2, RefuseTyped DEF LockSession, TypeOK, sessions, epochs, world
    <3>3. ASSUME NEW s \in Session, target' = [target EXCEPT ![r] = s],
                 Goto(r, IF revoked[s] THEN "all" ELSE "tenant"),
                 UNCHANGED <<endpoint, presented, now, fresh, todo, dying>>
          PROVE  TypeOK'
      BY <2>4, <3>3 DEF LockSession, Goto, Steps, TypeOK, sessions, epochs, world
    <3> QED BY <2>4, <3>1, <3>2, <3>3 DEF LockSession
  <2>5. CASE CommitRotation(r)
    <3>1. given' \subseteq Token
      BY <2>5 DEF CommitRotation, TypeOK, RequestOK
    <3> QED BY <2>5, <3>1, LeaveTyped, RotateTyped DEF CommitRotation, TypeOK
  <2>6. CASE AnswerLost(r)
    <3>1. faults' \in 0 .. MaxFaults
      BY <2>6 DEF AnswerLost, Fault, TypeOK
    <3> QED BY <2>6, <3>1, LeaveTyped, RotateTyped DEF AnswerLost, TypeOK
  <2>7. CASE AnswerEarly(r)
    BY <2>7 DEF AnswerEarly, RequestOK, TypeOK, sessions, epochs, requests
  <2>8. CASE Find(r)
    <3>1. CASE Leave(r)
      BY <2>8, <3>1, LeaveTyped DEF Find, TypeOK, sessions, epochs, world
    <3>2. CASE ~Leave(r)
      BY <2>8, <3>2 DEF Find, Goto, Steps, TypeOK, sessions, epochs, world
    <3> QED BY <3>1, <3>2
  <2>9. CASE RevokeOne(r)
    <3>1. target[r] \in Session
      BY <2>9 DEF RevokeOne, RequestOK
    <3> QED BY <2>9, <3>1 DEF RevokeOne, Goto, Steps, TypeOK, sessions, epochs, world
  <2>10. CASE RevokeAll(r) \/ RevokeRow(r)
    BY <2>10 DEF RevokeAll, RevokeRow, Goto, Steps, TypeOK, sessions, epochs, world
  <2>13. CASE AllRevoked(r)
    <3>1. dying[r] \in SUBSET Session
      BY DEF TypeOK
    <3>2. CASE endpoint[r] \in Rotations
      BY <2>13, <3>1, <3>2, RefuseTyped DEF AllRevoked, TypeOK, sessions, epochs, world
    <3>3. CASE endpoint[r] \notin Rotations
      BY <2>13, <3>3 DEF AllRevoked, Goto, Steps, TypeOK, sessions, epochs, world
    <3> QED BY <3>2, <3>3
  <2>11. CASE CommitRevocation(r)
    BY <2>11, LeaveTyped DEF CommitRevocation, TypeOK, epochs, world
  <2>12. CASE Abort(r)
    <3>1. faults' \in 0 .. MaxFaults
      BY <2>12 DEF Abort, Fault, TypeOK
    <3> QED BY <2>12, <3>1, LeaveTyped DEF Abort, TypeOK, sessions, epochs
  <2> QED BY <1>3, <2>1, <2>2, <2>3, <2>4, <2>5, <2>6, <2>7, <2>8, <2>9, <2>10, <2>11, <2>12, <2>13
          DEF Proceed
<1>4. CASE UNCHANGED vars
  BY <1>4 DEF vars, sessions, epochs, world, requests, TypeOK
<1> QED BY <1>1, <1>2, <1>3, <1>4 DEF Next

-----------------------------------------------------------------------------
(* What the steps of one request do to the others, and to the rows. *)

StepOf(r) == Begin(r) \/ Proceed(r) \/ AnswerEarly(r) \/ AnswerLost(r) \/ Abort(r)

\* The locals of other requests stay as they are.
LEMMA OthersUnchanged ==
  ASSUME TypeOK, NEW r \in Request, NEW q \in Request, q # r, StepOf(r)
  PROVE  /\ pc'[q] = pc[q] /\ endpoint'[q] = endpoint[q] /\ presented'[q] = presented[q]
         /\ now'[q] = now[q] /\ fresh'[q] = fresh[q] /\ target'[q] = target[q]
         /\ todo'[q] = todo[q] /\ dying'[q] = dying[q]
<1> USE DEF TypeOK
<1>1. CASE Begin(r)
  BY <1>1 DEF Begin, Goto
<1>2. CASE AnswerEarly(r)
  BY <1>2 DEF AnswerEarly, requests
<1>3. CASE AnswerLost(r) \/ Abort(r) \/ CommitRotation(r) \/ CommitRevocation(r)
  BY <1>3 DEF AnswerLost, Abort, CommitRotation, CommitRevocation, Leave, Goto
<1>4. CASE EpochRefused(r) \/ TenantFails(r) \/ DeadlockDetected(r)
  BY <1>4 DEF EpochRefused, TenantFails, DeadlockDetected, Leave, Goto
<1>5. CASE LockEpoch(r) \/ TenantPasses(r) \/ RevokeOne(r)
  BY <1>5 DEF LockEpoch, TenantPasses, RevokeOne, Goto
<1>6. CASE LockSession(r)
  BY <1>6 DEF LockSession, Refuse, Leave, Goto
<1>7. CASE Find(r)
  BY <1>7 DEF Find, Leave, Goto
<1>8. CASE RevokeAll(r) \/ RevokeRow(r) \/ AllRevoked(r)
  BY <1>8 DEF RevokeAll, RevokeRow, AllRevoked, Refuse, Leave, Goto
<1> QED BY <1>1, <1>2, <1>3, <1>4, <1>5, <1>6, <1>7, <1>8 DEF StepOf, Proceed

\* The rows change by a rotation, by a revocation, or not at all.
LEMMA RowsChange ==
  ASSUME NEW r \in Request, StepOf(r)
  PROVE  \/ UNCHANGED <<sessions, epochs>>
         \/ pc[r] = "rotated" /\ Rotate(r) /\ Leave(r) /\ minted' = minted
         \/ CommitRevocation(r)
<1>1. CASE Begin(r) \/ AnswerEarly(r) \/ Abort(r)
  BY <1>1 DEF Begin, AnswerEarly, Abort
<1>2. CASE AnswerLost(r) \/ CommitRotation(r)
  BY <1>2 DEF AnswerLost, CommitRotation
<1>3. CASE EpochRefused(r) \/ TenantFails(r) \/ LockEpoch(r) \/ TenantPasses(r) \/ RevokeOne(r)
           \/ DeadlockDetected(r)
  BY <1>3 DEF EpochRefused, TenantFails, LockEpoch, TenantPasses, RevokeOne, DeadlockDetected
<1>4. CASE LockSession(r) \/ Find(r) \/ RevokeAll(r) \/ RevokeRow(r) \/ AllRevoked(r)
  BY <1>4 DEF LockSession, Find, RevokeAll, RevokeRow, AllRevoked
<1> QED BY <1>1, <1>2, <1>3, <1>4 DEF StepOf, Proceed

\* Only a rotation gives a token away, and only a beginning refresh generates one.
LEMMA TokensChange ==
  ASSUME TypeOK, NEW r \in Request, StepOf(r)
  PROVE  /\ given' = given \/ (pc[r] = "rotated" /\ given' = given \cup {fresh[r]})
         /\ \/ minted' = minted /\ fresh'[r] \in {fresh[r], NoToken}
            \/ minted' = minted + 1 /\ fresh'[r] = minted'
<1> USE DEF TypeOK
<1>1. CASE Begin(r)
  <2>1. CASE minted' = minted + 1 /\ fresh' = [fresh EXCEPT ![r] = minted']
    BY <1>1, <2>1 DEF Begin
  <2>2. CASE UNCHANGED <<minted, fresh>>
    BY <1>1, <2>2 DEF Begin
  <2> QED BY <1>1, <2>1, <2>2 DEF Begin
<1>2. CASE AnswerEarly(r) \/ AnswerLost(r) \/ CommitRotation(r)
  BY <1>2 DEF AnswerEarly, AnswerLost, CommitRotation, Leave, requests
<1>3. CASE Abort(r) \/ CommitRevocation(r) \/ EpochRefused(r) \/ TenantFails(r)
           \/ DeadlockDetected(r)
  BY <1>3 DEF Abort, CommitRevocation, EpochRefused, TenantFails, DeadlockDetected, Leave, world
<1>4. CASE LockEpoch(r) \/ TenantPasses(r) \/ RevokeOne(r)
  BY <1>4 DEF LockEpoch, TenantPasses, RevokeOne, world
<1>5. CASE LockSession(r) \/ RevokeAll(r) \/ RevokeRow(r) \/ AllRevoked(r)
  BY <1>5 DEF LockSession, RevokeAll, RevokeRow, AllRevoked, Refuse, Leave, world
<1>6. CASE Find(r)
  BY <1>6 DEF Find, Leave, world
<1> QED BY <1>1, <1>2, <1>3, <1>4, <1>5, <1>6 DEF StepOf, Proceed

-----------------------------------------------------------------------------
(* The parts of the invariant. *)

\* Requests only generate tokens that have no name yet.
LEMMA NamesStep ==
  ASSUME SessionInv, TypeOK', [Next]_vars
  PROVE  NamesOK'
<1> USE DEF SessionInv, NamesOK
<1>1. CASE Tick \/ UNCHANGED vars
  BY <1>1 DEF Tick, vars, sessions, epochs, world, requests
<1>2. ASSUME NEW s \in Session, CreateSession(s) PROVE NamesOK'
  <2>1. minted' = minted + 1 /\ minted \in Nat
    BY <1>2 DEF CreateSession, TypeOK
  <2>2. given' \subseteq 1 .. minted'
    BY <1>2, <2>1 DEF CreateSession
  <2>3. \A e \in Token : /\ family'[e] # None => e <= minted'
                         /\ consumed'[e] => family'[e] # None
    BY <1>2, <2>1, NoneIsNoSession DEF CreateSession, TypeOK, Token
  <2>4. \A t \in Session : revoked'[t] => current'[t] # NoToken
    BY <1>2, <2>1 DEF CreateSession, TypeOK, NoToken
  <2>5. \A r \in Request : fresh'[r] <= minted'
    <3> SUFFICES ASSUME NEW r \in Request PROVE fresh[r] <= minted + 1
      BY <1>2, <2>1 DEF CreateSession, requests
    <3>1. fresh[r] \in Nat /\ fresh[r] <= minted
      BY DEF TypeOK, Token, NoToken
    <3> QED BY <2>1, <3>1
  <2> QED BY <1>2, <2>2, <2>3, <2>4, <2>5 DEF CreateSession, requests
<1>3. ASSUME NEW r \in Request, StepOf(r) PROVE NamesOK'
  <2>1. minted \in Nat /\ minted' \in Nat /\ minted' >= minted
    BY <1>3, TokensChange DEF TypeOK
  <2>2. given' \subseteq 1 .. minted'
    <3>1. pc[r] = "rotated" => fresh[r] \in 1 .. minted
      BY DEF RequestOK, TypeOK, Token
    <3>2. given \subseteq 1 .. minted /\ minted \in Nat
      BY DEF TypeOK
    <3>3. 1 .. minted \subseteq 1 .. minted'
      BY <2>1
    <3>4. given' = given \/ (pc[r] = "rotated" /\ given' = given \cup {fresh[r]})
      BY <1>3, TokensChange
    <3> HIDE DEF SessionInv, NamesOK
    <3>5. CASE given' = given
      BY <3>2, <3>3, <3>5
    <3>6. CASE pc[r] = "rotated" /\ given' = given \cup {fresh[r]}
      BY <3>1, <3>2, <3>3, <3>6
    <3> QED BY <3>4, <3>5, <3>6
  <2>3. \A e \in Token : /\ family'[e] # None => e <= minted'
                         /\ consumed'[e] => family'[e] # None
    <3> SUFFICES ASSUME NEW e \in Token
                 PROVE  /\ family'[e] # None => e <= minted'
                        /\ consumed'[e] => family'[e] # None
      OBVIOUS
    <3>1. family[e] # None => e <= minted'
      BY <2>1 DEF Token
    <3>2. CASE UNCHANGED <<sessions, epochs>> \/ CommitRevocation(r)
      BY <3>1, <3>2 DEF CommitRevocation, epochs
    <3>3. CASE pc[r] = "rotated" /\ Rotate(r)
      <4>1. fresh[r] \in Token /\ presented[r] \in Token /\ target[r] \in Session
        BY <3>3 DEF RequestOK
      <4>2. fresh[r] <= minted'
        BY <2>1, <4>1 DEF Token
      <4>3. family[presented[r]] # None
        BY <3>3 DEF RequestOK
      <4> QED BY <3>1, <3>3, <4>1, <4>2, <4>3, NoneIsNoSession DEF Rotate, TypeOK
    <3> QED BY <1>3, <3>2, <3>3, RowsChange
  <2>4. \A t \in Session : revoked'[t] => current'[t] # NoToken
    <3>1. CASE UNCHANGED <<sessions, epochs>>
      BY <3>1 DEF sessions
    <3>2. CASE pc[r] = "rotated" /\ Rotate(r)
      BY <3>2 DEF Rotate, RequestOK, TypeOK, Token, NoToken
    <3>3. CASE CommitRevocation(r)
      BY <3>3 DEF CommitRevocation, RequestOK, TypeOK
    <3> QED BY <1>3, <3>1, <3>2, <3>3, RowsChange
  <2>5. \A q \in Request : fresh'[q] <= minted'
    <3> SUFFICES ASSUME NEW q \in Request PROVE fresh'[q] <= minted'
      OBVIOUS
    <3>1. fresh[q] \in Nat /\ fresh[q] <= minted'
      BY <2>1 DEF TypeOK, Token, NoToken
    <3>2. CASE q = r
      BY <1>3, <2>1, <3>1, <3>2, TokensChange DEF NoToken
    <3>3. CASE q # r
      BY <1>3, <3>1, <3>3, OthersUnchanged
    <3> QED BY <3>2, <3>3
  <2>6. \A p, q \in Request : p # q /\ fresh'[p] = fresh'[q] => fresh'[p] = NoToken
    <3>1. ASSUME NEW q \in Request, q # r PROVE fresh'[r] = fresh'[q] => fresh'[r] = NoToken
      <4>1. fresh'[q] = fresh[q]
        BY <1>3, <3>1, OthersUnchanged
      <4>2. fresh[q] \in Nat /\ fresh[q] <= minted
        BY <3>1 DEF TypeOK, Token, NoToken
      <4>3. fresh[r] = fresh[q] => fresh[r] = NoToken
        BY <3>1
      <4> QED BY <1>3, <2>1, <4>1, <4>2, <4>3, TokensChange
    <3>2. ASSUME NEW p \in Request, NEW q \in Request, p # q, p # r, q # r
          PROVE  fresh'[p] = fresh'[q] => fresh'[p] = NoToken
      BY <1>3, <3>2, OthersUnchanged
    <3> QED BY <3>1, <3>2
  <2> QED BY <2>2, <2>3, <2>4, <2>5, <2>6
<1> QED BY <1>1, <1>2, <1>3 DEF Next, StepOf

\* A rotation moves the open end of a family from the presented token to the fresh one.
LEMMA ChainStep ==
  ASSUME SessionInv, TypeOK', [Next]_vars
  PROVE  ChainHasOneEnd'
<1> SUFFICES ASSUME NEW s \in Session, NEW e \in Token
             PROVE  family'[e] = s /\ ~consumed'[e] <=> current'[s] = e
  BY DEF ChainHasOneEnd
<1> USE DEF SessionInv, ChainHasOneEnd
<1>1. CASE Tick \/ UNCHANGED vars
  BY <1>1 DEF Tick, vars, sessions, epochs
<1>2. ASSUME NEW t \in Session, CreateSession(t)
      PROVE  family'[e] = s /\ ~consumed'[e] <=> current'[s] = e
  <2>1. minted + 1 \in Token /\ minted' = minted + 1
    BY <1>2 DEF CreateSession, TypeOK, Token
  <2>2. family[minted + 1] = None /\ ~consumed[minted + 1]
    <3>1. ~(minted + 1 <= minted)
      BY DEF TypeOK
    <3> QED BY <2>1, <3>1 DEF NamesOK, TypeOK
  <2>3. \A x \in Session : current[x] # minted + 1
    BY <2>1, <2>2, NoneIsNoSession
  <2>4. current[t] = NoToken /\ NoToken \notin Token
    BY <1>2 DEF CreateSession, Token, NoToken
  <2> QED BY <1>2, <2>1, <2>2, <2>3, <2>4, NoneIsNoSession DEF CreateSession, TypeOK
<1>3. ASSUME NEW r \in Request, StepOf(r)
      PROVE  family'[e] = s /\ ~consumed'[e] <=> current'[s] = e
  <2>1. CASE UNCHANGED <<sessions, epochs>> \/ CommitRevocation(r)
    BY <2>1 DEF CommitRevocation, sessions, epochs
  <2>2. CASE pc[r] = "rotated" /\ Rotate(r)
    <3>1. /\ fresh[r] \in Token /\ family[fresh[r]] = None /\ ~consumed[fresh[r]]
          /\ presented[r] \in Token /\ target[r] \in Session
          /\ current[target[r]] = presented[r]
      BY <2>2 DEF RequestOK, NamesOK
    <3>2. family[presented[r]] = target[r] /\ presented[r] # fresh[r]
      BY <3>1, NoneIsNoSession
    <3>3. \A x \in Session : current[x] # fresh[r]
      BY <3>1, NoneIsNoSession
    <3> QED BY <2>2, <3>1, <3>2, <3>3, NoneIsNoSession DEF Rotate, TypeOK
  <2> QED BY <1>3, <2>1, <2>2, RowsChange
<1> QED BY <1>1, <1>2, <1>3 DEF Next, StepOf

\* A request takes a lock only when nobody else has it.
LEMMA LocksChange ==
  ASSUME TypeOK, NEW r \in Request, RequestOK(r), StepOf(r)
  PROVE  /\ \A e \in Token : HoldsEpoch(r, e)' => HoldsEpoch(r, e) \/ EpochFree(e)
         /\ \A s \in Session : HoldsSession(r, s)' => HoldsSession(r, s) \/ SessionFree(r, s)
<1> USE DEF TypeOK, HoldsEpoch, HoldsSession, RequestOK, Rotations, Logouts, Locking
<1>1. CASE Begin(r)
  BY <1>1, NoneIsNoSession DEF Begin, Goto
<1>2. CASE AnswerEarly(r)
  BY <1>2 DEF AnswerEarly, requests
<1>3. CASE Leave(r)
  BY <1>3, NoneIsNoSession DEF Leave, Goto
<1>4. CASE LockEpoch(r)
  BY <1>4 DEF LockEpoch, Goto
<1>5. CASE LockSession(r)
  BY <1>3, <1>5 DEF LockSession, Refuse, Goto
<1>6. CASE TenantPasses(r)
  BY <1>6 DEF TenantPasses, Goto
<1>7. CASE Find(r)
  BY <1>3, <1>7 DEF Find, Goto
<1>8. CASE RevokeOne(r)
  BY <1>8 DEF RevokeOne, Goto
<1>9. CASE RevokeAll(r) \/ RevokeRow(r)
  BY <1>9 DEF RevokeAll, RevokeRow, Goto
<1>10. CASE EpochRefused(r) \/ TenantFails(r) \/ CommitRotation(r) \/ AnswerLost(r) \/ Abort(r)
            \/ CommitRevocation(r) \/ DeadlockDetected(r)
  BY <1>3, <1>10 DEF EpochRefused, TenantFails, CommitRotation, AnswerLost, Abort,
                     CommitRevocation, DeadlockDetected
<1>11. CASE AllRevoked(r)
  BY <1>3, <1>11 DEF AllRevoked, Refuse, Goto
<1> QED BY <1>1, <1>2, <1>4, <1>5, <1>6, <1>7, <1>8, <1>9, <1>10, <1>11 DEF StepOf, Proceed

\* So no row is ever locked by two.
LEMMA LocksStep ==
  ASSUME SessionInv, [Next]_vars
  PROVE  LocksOK'
<1> USE DEF SessionInv, LocksOK
<1>1. CASE Tick \/ UNCHANGED vars
  BY <1>1 DEF Tick, vars, requests, HoldsEpoch, HoldsSession
<1>2. ASSUME NEW s \in Session, CreateSession(s) PROVE LocksOK'
  BY <1>2 DEF CreateSession, requests, HoldsEpoch, HoldsSession
<1>3. ASSUME NEW r \in Request, StepOf(r) PROVE LocksOK'
  <2>1. ASSUME NEW q \in Request, q # r
        PROVE  /\ \A e \in Token : HoldsEpoch(q, e)' <=> HoldsEpoch(q, e)
               /\ \A s \in Session : HoldsSession(q, s)' <=> HoldsSession(q, s)
    BY <1>3, <2>1, OthersUnchanged DEF HoldsEpoch, HoldsSession
  <2>2. ASSUME NEW q \in Request, q # r
        PROVE  /\ \A e \in Token : ~(HoldsEpoch(r, e)' /\ HoldsEpoch(q, e)')
               /\ \A s \in Session : ~(HoldsSession(r, s)' /\ HoldsSession(q, s)')
    BY <1>3, <2>1, <2>2, LocksChange DEF EpochFree, SessionFree
  <2> QED BY <2>1, <2>2
<1> QED BY <1>1, <1>2, <1>3 DEF Next, StepOf

\* What one request knows survives the steps of the others: the rows it knows of are locked.
LEMMA OthersKeepRequest ==
  ASSUME SessionInv, NEW r \in Request, NEW q \in Request, q # r, StepOf(r)
  PROVE  RequestOK(q)'
<1> USE DEF SessionInv
<1>1. /\ pc'[q] = pc[q] /\ endpoint'[q] = endpoint[q] /\ presented'[q] = presented[q]
      /\ now'[q] = now[q] /\ fresh'[q] = fresh[q] /\ target'[q] = target[q]
      /\ todo'[q] = todo[q] /\ dying'[q] = dying[q]
  BY OthersUnchanged
<1>2. CASE UNCHANGED <<sessions, epochs>>
  BY <1>1, <1>2 DEF RequestOK, Cause, Late, sessions, epochs
<1>3. CASE CommitRevocation(r)
  <2>1. \A s \in Session : revoked[s] => revoked'[s]
    BY <1>3 DEF CommitRevocation
  <2>2. pc[q] \in {"tenant", "rotated"} => ~revoked'[target[q]]
    BY <1>3 DEF CommitRevocation, RequestOK, LocksOK, HoldsSession
  <2>3. UNCHANGED <<current, expiresAt, lastActive, family, consumed>>
    BY <1>3 DEF CommitRevocation, epochs
  <2> QED BY <1>1, <2>1, <2>2, <2>3 DEF RequestOK, Cause, Late
<1>4. CASE pc[r] = "rotated" /\ Rotate(r)
  <2>1. /\ fresh[r] \in Token /\ family[fresh[r]] = None /\ presented[r] \in Token
        /\ target[r] \in Session /\ endpoint[r] \in Rotations
        /\ current[target[r]] = presented[r] /\ ~revoked[target[r]]
    BY <1>4 DEF RequestOK
  <2>2. \A s \in Session : current[s] # NoToken => current'[s] # NoToken
    BY <1>4, <2>1 DEF Rotate, TypeOK, Token, NoToken
  <2>3. \A s \in Session : s # target[r] =>
          current'[s] = current[s] /\ lastActive'[s] = lastActive[s]
    BY <1>4 DEF Rotate, TypeOK
  <2>4. \A s \in Session : HoldsSession(q, s) => s # target[r]
    BY <2>1 DEF LocksOK, HoldsSession
  <2>5. /\ fresh[q] \in Token => fresh[q] # fresh[r]
        /\ fresh[q] \in Token /\ family[fresh[q]] = None => family'[fresh[q]] = None
    BY <1>4 DEF NamesOK, Rotate, TypeOK, Token, NoToken
  <2>6. pc[q] \in {"session", "tenant", "rotated"} => presented[q] # presented[r]
    BY <1>4, <2>1 DEF RequestOK, LocksOK, HoldsEpoch, Locking
  <2>7. pc[q] \in {"session", "tenant", "rotated"} =>
          family'[presented[q]] # None /\ ~consumed'[presented[q]]
    BY <1>4, <2>1, <2>6, NoneIsNoSession DEF RequestOK, Rotate, TypeOK
  <2>8. UNCHANGED <<revoked, expiresAt>>
    BY <1>4 DEF Rotate
  <2>9. pc[q] \in {"tenant", "rotated"} => current'[target[q]] = presented[q]
    BY <2>3, <2>4 DEF RequestOK, HoldsSession
  <2>10. pc[q] \in {"all", "updating"} /\ endpoint[q] \in Rotations => current'[target[q]] = presented[q]
    BY <2>3, <2>4 DEF RequestOK, HoldsSession
  <2>11. pc[q] = "revoking" => \A s \in dying[q] : Cause(q, s)'
    <3> SUFFICES ASSUME pc[q] = "revoking", NEW s \in dying[q] PROVE Cause(q, s)'
      OBVIOUS
    <3>1. s \in Session /\ s # target[r]
      BY <2>4 DEF TypeOK, HoldsSession
    <3>2. Cause(q, s)
      BY DEF RequestOK
    <3> QED BY <1>1, <2>3, <2>8, <3>1, <3>2 DEF Cause, Late
  <2> QED BY <1>1, <2>2, <2>5, <2>7, <2>8, <2>9, <2>10, <2>11 DEF RequestOK
<1> QED BY <1>2, <1>3, <1>4, RowsChange

\* A request that has ended knows nothing.
LEMMA LeaveKeepsRequest ==
  ASSUME TypeOK, NEW r \in Request, Leave(r)
  PROVE  RequestOK(r)'
  BY NoneIsNoSession DEF TypeOK, Leave, Goto, RequestOK

\* A request knows what its own step has found out.
LEMMA OwnStepKeepsRequest ==
  ASSUME SessionInv, TypeOK', NEW r \in Request, StepOf(r)
  PROVE  RequestOK(r)'
<1> USE DEF SessionInv, TypeOK
<1>1. CASE Begin(r)
  <2>1. presented'[r] \in Token /\ target'[r] = None /\ dying'[r] = {}
    BY <1>1 DEF Begin, RequestOK
  <2>2. CASE pc'[r] = "epoch"
    <3>1. /\ minted < MaxToken /\ minted' = minted + 1 /\ fresh'[r] = minted'
          /\ endpoint'[r] \in Rotations
      BY <1>1, <2>2 DEF Begin, Goto
    <3>2. fresh'[r] \in Token /\ family[fresh'[r]] = None
      BY <3>1, BoundsAreNaturals DEF Token, NamesOK
    <3> QED BY <1>1, <2>1, <2>2, <3>1, <3>2, NoneIsNoSession DEF Begin, RequestOK, epochs
  <2>3. CASE pc'[r] = "find"
    BY <1>1, <2>1, <2>3, NoneIsNoSession DEF Begin, Goto, RequestOK, Rotations, Logouts
  <2> QED BY <1>1, <2>2, <2>3 DEF Begin, Goto
<1>2. CASE EpochRefused(r) \/ TenantFails(r) \/ CommitRotation(r) \/ AnswerLost(r) \/ Abort(r)
           \/ CommitRevocation(r) \/ DeadlockDetected(r)
  BY <1>2, LeaveKeepsRequest DEF EpochRefused, TenantFails, CommitRotation, AnswerLost, Abort,
                                 CommitRevocation, DeadlockDetected
<1>3. CASE LockEpoch(r)
  BY <1>3 DEF LockEpoch, Goto, RequestOK, sessions, epochs
<1>4. CASE LockSession(r)
  <2>1. CASE Leave(r)
    BY <2>1, LeaveKeepsRequest
  <2>2. ASSUME NEW s \in Session, current[s] = presented[r], ~revoked[s], Late(now[r], s),
               endpoint[r] = "token", Refuse(r, {s})
        PROVE  RequestOK(r)'
    BY <1>4, <2>2, NoneIsNoSession DEF LockSession, Refuse, Goto, RequestOK, Cause, Late,
                                       sessions, epochs, Token, NoToken
  <2>3. ASSUME NEW s \in Session, current[s] = presented[r],
               target' = [target EXCEPT ![r] = s],
               Goto(r, IF revoked[s] THEN "all" ELSE "tenant"),
               UNCHANGED <<endpoint, presented, now, fresh, todo, dying>>
        PROVE  RequestOK(r)'
    <3>1. pc[r] = "session" /\ UNCHANGED <<sessions, epochs>> /\ target'[r] = s
      BY <1>4, <2>3 DEF LockSession
    <3>4. /\ dying[r] = {} /\ todo[r] = {} /\ endpoint[r] \in Rotations
          /\ presented[r] \in Token /\ fresh[r] \in Token /\ family[fresh[r]] = None
          /\ family[presented[r]] # None /\ ~consumed[presented[r]] /\ RequestOK(r)
      BY <3>1 DEF RequestOK
    <3>5. current[s] # NoToken
      BY <2>3, <3>4 DEF Token, NoToken
    <3>2. CASE revoked[s]
      <4>1. pc'[r] = "all"
        BY <2>3, <3>2 DEF Goto
      <4> QED BY <2>3, <3>1, <3>2, <3>4, <3>5, <4>1 DEF RequestOK, sessions, epochs
    <3>3. CASE ~revoked[s]
      <4>1. pc'[r] = "tenant"
        BY <2>3, <3>3 DEF Goto
      <4> QED BY <2>3, <3>1, <3>3, <3>4, <3>5, <4>1 DEF RequestOK, sessions, epochs
    <3> QED BY <3>2, <3>3
  <2> QED BY <1>4, <2>1, <2>2, <2>3 DEF LockSession, Refuse
<1>5. CASE TenantPasses(r)
  BY <1>5 DEF TenantPasses, Goto, RequestOK, sessions, epochs
<1>6. CASE AnswerEarly(r)
  BY <1>6 DEF AnswerEarly, RequestOK, Cause, Late, sessions, epochs, requests
<1>7. CASE Find(r)
  <2>1. CASE Leave(r)
    BY <2>1, LeaveKeepsRequest
  <2>2. CASE ~Leave(r)
    <3>1. /\ endpoint[r] \in Logouts /\ dying[r] = {} /\ todo[r] = {} /\ target[r] = None
          /\ presented[r] \in Token
          /\ UNCHANGED <<sessions, epochs, endpoint, now, fresh, todo, dying>>
      BY <1>7, <2>2 DEF Find, RequestOK
    <3>2. CASE endpoint[r] = "logout"
      <4>1. /\ target'[r] \in Session /\ current[target'[r]] \in Token
            /\ pc' = [pc EXCEPT ![r] = "one"]
        BY <1>7, <2>2, <3>1, <3>2 DEF Find, Goto
      <4> QED BY <3>1, <4>1, NoneIsNoSession DEF RequestOK, Rotations, Logouts, sessions, epochs,
                                                 Token, NoToken
    <3>3. CASE endpoint[r] # "logout"
      <4>1. target'[r] = None /\ pc' = [pc EXCEPT ![r] = "all"]
        BY <1>7, <2>2, <3>1, <3>3 DEF Find, Goto
      <4> QED BY <3>1, <4>1, NoneIsNoSession DEF RequestOK, Rotations, Logouts, sessions, epochs
    <3> QED BY <3>2, <3>3
  <2> QED BY <2>1, <2>2
<1>8. CASE RevokeOne(r)
  <2>1. /\ target[r] \in Session /\ current[target[r]] # NoToken /\ todo[r] = {}
        /\ endpoint[r] \in Logouts /\ endpoint[r] \notin Rotations
    BY <1>8 DEF RevokeOne, RequestOK, Rotations, Logouts
  <2>2. /\ target'[r] = None /\ dying'[r] \in {{}, {target[r]}} /\ pc'[r] = "revoking"
        /\ UNCHANGED <<endpoint, presented, todo, sessions, epochs>>
    BY <1>8 DEF RevokeOne, Goto, RequestOK
  <2> QED BY <2>1, <2>2, NoneIsNoSession DEF RequestOK, Cause, sessions, epochs
<1>9. CASE RevokeAll(r)
  BY <1>9 DEF RevokeAll, Goto, RequestOK, sessions, epochs
<1>10. CASE RevokeRow(r)
  BY <1>10 DEF RevokeRow, RequestOK, sessions, epochs
<1>11. CASE AllRevoked(r)
  <2>1. CASE Leave(r)
    BY <2>1, LeaveKeepsRequest
  <2>2. CASE ~Leave(r)
    <3>1. /\ pc[r] = "updating" /\ todo[r] = {} /\ dying'[r] = dying[r]
          /\ pc' = [pc EXCEPT ![r] = "revoking"]
          /\ UNCHANGED <<endpoint, presented, now, fresh, target, todo, sessions, epochs>>
      BY <1>11, <2>2 DEF AllRevoked, Refuse, Goto
    <3>2. endpoint[r] \in Logouts \/ (target[r] \in Session /\ revoked[target[r]])
      BY <3>1 DEF RequestOK
    <3> QED BY <3>1, <3>2 DEF RequestOK, Cause, sessions, epochs
  <2> QED BY <2>1, <2>2
<1> QED BY <1>1, <1>2, <1>3, <1>4, <1>5, <1>6, <1>7, <1>8, <1>9, <1>10, <1>11 DEF StepOf, Proceed

\* And every step, of whomever, leaves every request's knowledge true.
LEMMA RequestsStep ==
  ASSUME SessionInv, TypeOK', [Next]_vars, NEW q \in Request
  PROVE  RequestOK(q)'
<1>1. CASE Tick \/ UNCHANGED vars
  BY <1>1 DEF Tick, vars, sessions, epochs, requests, SessionInv, RequestOK, Cause, Late
<1>2. ASSUME NEW s \in Session, CreateSession(s) PROVE RequestOK(q)'
  <2>1. /\ minted' \in Token /\ minted' = minted + 1 /\ current[s] = NoToken
        /\ fresh[q] <= minted /\ minted \in Nat
    BY <1>2 DEF CreateSession, TypeOK, Token, SessionInv, NamesOK
  <2>2. \A t \in Session : t # s =>
          /\ current'[t] = current[t] /\ expiresAt'[t] = expiresAt[t]
          /\ lastActive'[t] = lastActive[t]
    BY <1>2 DEF CreateSession, TypeOK, SessionInv
  <2>3. \A e \in Token : family[e] # None \/ e <= minted => family'[e] = family[e]
    <3> SUFFICES ASSUME NEW e \in Token, e = minted' PROVE family[e] = None /\ ~(e <= minted)
      BY <1>2 DEF CreateSession, TypeOK, SessionInv
    <3> QED BY <2>1 DEF SessionInv, NamesOK
  <2>4. \A t \in Session : t \in todo[q] \/ t \in dying[q] \/ t = target[q] => t # s
    BY <2>1 DEF SessionInv, RequestOK
  <2>5. UNCHANGED <<revoked, consumed, requests>>
    BY <1>2 DEF CreateSession
  <2>6. pc[q] = "revoking" => \A t \in dying[q] : Cause(q, t)'
    <3> SUFFICES ASSUME pc[q] = "revoking", NEW t \in dying[q] PROVE Cause(q, t)'
      OBVIOUS
    <3>1. t \in Session /\ t # s /\ Cause(q, t)
      BY <2>4 DEF SessionInv, TypeOK, RequestOK
    <3> QED BY <2>2, <2>5, <3>1 DEF Cause, Late, requests
  <2>7. \A t \in Session :
          t \in todo[q] \/ t \in dying[q] \/ t = target[q] => current'[t] # NoToken
    BY <2>2, <2>4 DEF SessionInv, RequestOK
  <2>8. RequestOK(q) /\ presented[q] \in Token \cup {NoToken} /\ target[q] \in Session \cup {None}
    BY DEF SessionInv, TypeOK
  <2>9. pc[q] \in {"epoch", "session", "tenant", "rotated"} => family'[fresh[q]] = None
    BY <2>1, <2>3, <2>8 DEF RequestOK
  <2>10. pc[q] \in {"session", "tenant", "rotated"} =>
           family'[presented[q]] # None /\ ~consumed'[presented[q]]
    BY <2>3, <2>5, <2>8 DEF RequestOK
  <2>11. pc[q] \in {"tenant", "rotated"} => current'[target[q]] = presented[q]
    BY <2>2, <2>4, <2>8 DEF RequestOK
  <2>12. pc[q] \in {"all", "updating"} /\ endpoint[q] \in Rotations => current'[target[q]] = presented[q]
    BY <2>2, <2>4, <2>8 DEF RequestOK
  <2> QED BY <2>5, <2>6, <2>7, <2>8, <2>9, <2>10, <2>11, <2>12 DEF RequestOK, requests
<1>3. ASSUME NEW r \in Request, StepOf(r) PROVE RequestOK(q)'
  BY <1>3, OthersKeepRequest, OwnStepKeepsRequest
<1> QED BY <1>1, <1>2, <1>3 DEF Next, StepOf

-----------------------------------------------------------------------------
(* The invariant, and what follows from it. *)

\* The strengthening holds at the start.
LEMMA InitOK == Init => SessionInv
<1> SUFFICES ASSUME Init PROVE SessionInv
  OBVIOUS
<1>1. TypeOK
  BY BoundsAreNaturals DEF Init, TypeOK, Steps, Rotations, Token
<1>2. NamesOK /\ ChainHasOneEnd
  BY NoneIsNoSession DEF Init, NamesOK, ChainHasOneEnd, Token, NoToken
<1>3. LocksOK
  BY NoneIsNoSession DEF Init, LocksOK, HoldsEpoch, HoldsSession, Locking
<1>4. \A r \in Request : RequestOK(r)
  BY NoneIsNoSession DEF Init, RequestOK
<1> QED BY <1>1, <1>2, <1>3, <1>4 DEF SessionInv

\* The open end of each family, the locks of requests under way, and what each request has
\* found out before it waits, agree in every reachable state.
THEOREM SessionInvariant == Spec => []SessionInv
<1>1. SessionInv /\ [Next]_vars => SessionInv'
  <2> SUFFICES ASSUME SessionInv, [Next]_vars PROVE SessionInv'
    OBVIOUS
  <2>1. TypeOK'
    BY TypeStep DEF SessionInv
  <2> QED BY <2>1, NamesStep, ChainStep, LocksStep, RequestsStep DEF SessionInv
<1> QED BY <1>1, InitOK, PTL DEF Spec

\* Every variable keeps its type.
THEOREM TypeCorrect == Spec => []TypeOK
<1>1. SessionInv => TypeOK
  BY DEF SessionInv
<1> QED BY <1>1, SessionInvariant, PTL

\* A family of refresh tokens has one open end, its session's current token.
THEOREM OneOpenEnd == Spec => []ChainHasOneEnd
<1>1. SessionInv => ChainHasOneEnd
  BY DEF SessionInv
<1> QED BY <1>1, SessionInvariant, PTL

\* A refresh that has locked an open epoch finds the session it belongs to.
THEOREM OpenEpochHasSession == Spec => []EpochHasSession
<1>1. SessionInv => EpochHasSession
  BY DEF SessionInv, EpochHasSession, RequestOK, ChainHasOneEnd, TypeOK
<1> QED BY <1>1, SessionInvariant, PTL

\* However many requests wait for each other in a circle, each of them is revoking all of the
\* user's sessions: behind whoever waits for an epoch nobody waits, and who waits for the row
\* of a session, or for the first one of an UPDATE, has locked no session yet.
THEOREM CirclesOfRevocations == Spec => []CirclesAreOfRevocations
<1>1. SessionInv => CirclesAreOfRevocations
  <2> SUFFICES ASSUME SessionInv, NEW C \in SUBSET Request, NEW r \in C, NEW next \in [C -> C],
                      \A q \in C : Waits(q, next[q]),
                      \A q \in C : \E p \in C : next[p] = q
               PROVE  pc[r] = "updating"
    BY DEF CirclesAreOfRevocations, OnCircle
  <2> USE DEF SessionInv
  <2>1. PICK p \in C : next[p] = r
    OBVIOUS
  <2>2. PICK q \in C : next[q] = p
    OBVIOUS
  <2>3. Waits(p, r) /\ Waits(q, p)
    BY <2>1, <2>2
  <2>4. pc[p] # "epoch"
    BY <2>3, NoneIsNoSession DEF Waits, HoldsEpoch, HoldsSession, Locking, RequestOK
  <2>5. PICK s \in Session : HoldsSession(r, s)
    BY <2>3, <2>4 DEF Waits
  <2>6. Waits(r, next[r])
    OBVIOUS
  <2>7. pc[r] \in {"epoch", "session", "one", "updating"}
    BY <2>6 DEF Waits
  <2> QED BY <2>5, <2>7, NoneIsNoSession DEF HoldsSession, RequestOK, Rotations, Logouts
<1> QED BY <1>1, SessionInvariant, PTL

\* A revoked session stays revoked and gets no new token, whatever was under way.
THEOREM RevocationIsFinal == Spec => RevokedIsFinal
<1>1. SessionInv /\ [Next]_vars =>
        \A s \in Session : revoked[s] => revoked'[s] /\ current'[s] = current[s]
  <2> SUFFICES ASSUME SessionInv, [Next]_vars, NEW s \in Session, revoked[s]
               PROVE  revoked'[s] /\ current'[s] = current[s]
    OBVIOUS
  <2> USE DEF SessionInv, TypeOK
  <2>1. CASE Tick \/ UNCHANGED vars
    BY <2>1 DEF Tick, vars, sessions
  <2>2. ASSUME NEW t \in Session, CreateSession(t) PROVE revoked'[s] /\ current'[s] = current[s]
    BY <2>2 DEF CreateSession, NamesOK
  <2>3. ASSUME NEW r \in Request, StepOf(r) PROVE revoked'[s] /\ current'[s] = current[s]
    BY <2>3, RowsChange DEF Rotate, CommitRevocation, RequestOK, sessions
  <2> QED BY <2>1, <2>2, <2>3 DEF Next, StepOf
<1>2. SessionInv /\ [Next]_vars =>
        [\A s \in Session : revoked[s] => revoked'[s] /\ current'[s] = current[s]]_vars
  BY <1>1
<1> QED BY <1>2, SessionInvariant, PTL DEF Spec, RevokedIsFinal

\* A session is revoked by a logout, for its age, or for a revoked session's token.
THEOREM RevocationHasCause == Spec => RevokedForCause
<1> DEFINE Caused == \A s \in Session :
       revoked'[s] /\ ~revoked[s] => \E r \in Request : s \in dying[r] /\ Cause(r, s)
<1>1. SessionInv /\ [Next]_vars => [Caused]_vars
  <2> SUFFICES ASSUME SessionInv, [Next]_vars PROVE Caused
    OBVIOUS
  <2> USE DEF SessionInv
  <2>1. CASE Tick \/ UNCHANGED vars
    BY <2>1 DEF Tick, vars, sessions
  <2>2. ASSUME NEW t \in Session, CreateSession(t) PROVE Caused
    BY <2>2 DEF CreateSession
  <2>3. ASSUME NEW r \in Request, StepOf(r) PROVE Caused
    <3>1. CASE UNCHANGED <<sessions, epochs>> \/ Rotate(r)
      BY <3>1 DEF Rotate, sessions
    <3>2. CASE CommitRevocation(r)
      <4>1. \A s \in Session : revoked'[s] /\ ~revoked[s] => s \in dying[r]
        BY <3>2 DEF CommitRevocation
      <4>2. \A s \in dying[r] : Cause(r, s)
        BY <3>2 DEF CommitRevocation, RequestOK
      <4> QED BY <4>1, <4>2
    <3> QED BY <2>3, <3>1, <3>2, RowsChange
  <2> QED BY <2>1, <2>2, <2>3 DEF Next, StepOf
<1> QED BY <1>1, SessionInvariant, PTL DEF Spec, RevokedForCause

\* Unless an answer or a request was lost, the client has each session's current token.
THEOREM AccessKept == Spec => []HolderKeepsAccess
<1>1. Init => HolderKeepsAccess
  <2> SUFFICES ASSUME Init, NEW s \in Session PROVE current[s] = NoToken
    BY DEF HolderKeepsAccess
  <2> QED BY DEF Init
<1>2. SessionInv /\ HolderKeepsAccess /\ [Next]_vars => HolderKeepsAccess'
  <2> SUFFICES ASSUME SessionInv, HolderKeepsAccess, [Next]_vars, faults' = 0,
                      NEW s \in Session
               PROVE  current'[s] = NoToken \/ current'[s] \in given'
    BY DEF HolderKeepsAccess
  <2> USE DEF SessionInv, TypeOK, HolderKeepsAccess
  <2>1. CASE Tick \/ UNCHANGED vars
    BY <2>1 DEF Tick, vars, sessions, world
  <2>2. ASSUME NEW t \in Session, CreateSession(t)
        PROVE  current'[s] = NoToken \/ current'[s] \in given'
    BY <2>2 DEF CreateSession
  <2>3. ASSUME NEW r \in Request, StepOf(r)
        PROVE  current'[s] = NoToken \/ current'[s] \in given'
    <3>1. CASE AnswerLost(r) \/ Abort(r)
      BY <3>1 DEF AnswerLost, Abort, Fault
    <3>2. CASE CommitRotation(r)
      BY <3>2 DEF CommitRotation, Rotate
    <3>3. CASE ~(AnswerLost(r) \/ Abort(r) \/ CommitRotation(r))
      <4>1. faults' = faults /\ current' = current /\ given \subseteq given'
        BY <2>3, <3>3 DEF StepOf, Proceed, Begin, AnswerEarly, EpochRefused, LockEpoch,
                          LockSession, TenantPasses, TenantFails, Find, RevokeOne, RevokeAll,
                          RevokeRow, AllRevoked, DeadlockDetected, CommitRevocation, sessions, world
      <4> QED BY <4>1
    <3> QED BY <3>1, <3>2, <3>3
  <2> QED BY <2>1, <2>2, <2>3 DEF Next, StepOf
<1> QED BY <1>1, <1>2, SessionInvariant, PTL DEF Spec
=============================================================================
