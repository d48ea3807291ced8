------------------------- MODULE LoginCallback_proofs -------------------------
(***************************************************************************)
(* Proofs about LoginCallback: provisioning is whole and no code of a kept *)
(* login is presented twice, for every set of states, callbacks, people    *)
(* and emails and any number of faults.                                    *)
(***************************************************************************)
EXTENDS LoginCallback, TLAPS

Inv == LoginInv /\ ProvisioningIsWhole

\* Who signed in for a request's state has a person's name and one of their emails.
LEMMA SignedIsTyped ==
  ASSUME TypeOK, NEW q \in Callback, claims[on[q]] # {}
  PROVE  Signed(q) \in Claims /\ Signed(q).person \in Person /\ Signed(q).email \in Email
<1>1. PICK c \in Claims : claims[on[q]] = {c}
  BY DEF TypeOK
<1>2. Signed(q) = c
  BY <1>1 DEF Signed
<1>. QED
  BY <1>1, <1>2 DEF Claims

\* The invariant holds at the start.
LEMMA InitLogin == Init => Inv
<1>. SUFFICES ASSUME Init PROVE Inv
  OBVIOUS
<1>1. (CHOOSE s \in State : TRUE) \in State
  BY ThereIsAState
<1>2. TypeOK
  BY <1>1, BoundsAreNatural DEF Init, TypeOK, Steps
<1>3. LocksAreExclusive
  BY DEF Init, LocksAreExclusive, InTransaction, Redeemed, WithUser, WithIdentity
<1>4. CodesAreAccountedFor
  BY DEF Init, CodesAreAccountedFor, InTransaction, Redeemed, WithUser, WithIdentity
<1>5. RowsAreOfTheDone
  BY DEF Init, RowsAreOfTheDone
<1>6. ProvisioningIsWhole
  BY DEF Init, ProvisioningIsWhole
<1>. QED
  BY <1>2, <1>3, <1>4, <1>5, <1>6 DEF Inv, LoginInv

-----------------------------------------------------------------------------
\* What surrounds the callbacks: states begin and lapse, people sign in, settings change.
LEMMA SurroundingsKeepInv ==
  ASSUME Inv,
         \/ \E s \in State : InitiateLogin(s) \/ Expire(s) \/ \E c \in Claims : SignIn(s, c)
         \/ SeedRoles \/ AlterTenant
         \/ UNCHANGED vars
  PROVE  Inv'
<1>0. TypeOK /\ LocksAreExclusive /\ CodesAreAccountedFor /\ RowsAreOfTheDone
  BY DEF Inv, LoginInv
<1>1. UNCHANGED <<rows, spent, replayed, pc, locals>>
  BY DEF InitiateLogin, Expire, SignIn, SeedRoles, AlterTenant, vars, provider, setting
<1>2. TypeOK'
  <2>1. ASSUME NEW s \in State, InitiateLogin(s) \/ Expire(s) PROVE TypeOK'
    BY <1>0, <2>1 DEF TypeOK, InitiateLogin, Expire, provider, setting, rows, locals
  <2>2. ASSUME NEW s \in State, NEW c \in Claims, SignIn(s, c) PROVE TypeOK'
    <3>1. claims' \in [State -> {{}} \cup {{d} : d \in Claims}]
      <4>1. {c} \in {{}} \cup {{d} : d \in Claims}
        OBVIOUS
      <4>2. claims \in [State -> {{}} \cup {{d} : d \in Claims}]
        BY <1>0 DEF TypeOK
      <4>3. claims' = [claims EXCEPT ![s] = {c}]
        BY <2>2 DEF SignIn
      <4>. QED BY <4>1, <4>2, <4>3
    <3>2. UNCHANGED <<oauth, expired, rows, spent, replayed, setting, pc, locals, faults>>
      BY <2>2 DEF SignIn
    <3>. QED
      BY <1>0, <3>1, <3>2 DEF TypeOK, setting, rows, locals
  <2>3. ASSUME SeedRoles \/ AlterTenant PROVE TypeOK'
    <3>1. seeded' \in BOOLEAN /\ accepting' \in BOOLEAN
      BY <1>0, <2>3 DEF TypeOK, SeedRoles, AlterTenant
    <3>2. changes' \in 0 .. MaxChanges
      BY <1>0, <2>3, BoundsAreNatural DEF TypeOK, SeedRoles, AlterTenant
    <3>3. UNCHANGED <<oauth, expired, rows, provider, pc, locals, faults>>
      BY <2>3 DEF SeedRoles, AlterTenant
    <3>. QED
      BY <1>0, <3>1, <3>2, <3>3 DEF TypeOK, provider, rows, locals
  <2>4. ASSUME UNCHANGED vars PROVE TypeOK'
    BY <1>0, <2>4 DEF TypeOK, vars, provider, setting, rows, locals
  <2>. QED BY <2>1, <2>2, <2>3, <2>4
<1>3. \A s \in State : oauth'[s] = oauth[s] \/ oauth[s] = "none"
  BY <1>0 DEF TypeOK, InitiateLogin, Expire, SignIn, SeedRoles, AlterTenant, vars
<1>4. \A s \in State : claims'[s] = claims[s] \/ (claims[s] = {} /\ claims'[s] # {})
  <2>1. CASE UNCHANGED claims
    BY <2>1
  <2>2. ASSUME NEW s \in State, NEW c \in Claims, SignIn(s, c)
        PROVE  \A t \in State : claims'[t] = claims[t] \/ (claims[t] = {} /\ claims'[t] # {})
    <3>1. DOMAIN claims = State
      BY <1>0 DEF TypeOK
    <3>2. claims[s] = {} /\ claims' = [claims EXCEPT ![s] = {c}]
      BY <2>2 DEF SignIn
    <3>. QED BY <3>1, <3>2
  <2>. QED
    BY <2>1, <2>2 DEF InitiateLogin, Expire, SeedRoles, AlterTenant, vars, provider
<1>5. \A q \in Callback : pc[q] # "idle" => Signed(q)' = Signed(q)
  <2>. SUFFICES ASSUME NEW q \in Callback, pc[q] # "idle" PROVE Signed(q)' = Signed(q)
    OBVIOUS
  <2>1. on'[q] = on[q] /\ on[q] \in State /\ claims[on[q]] # {}
    BY <1>0, <1>1 DEF locals, TypeOK, CodesAreAccountedFor
  <2>2. claims'[on'[q]] = claims[on[q]]
    BY <1>4, <2>1
  <2>. QED BY <2>2 DEF Signed
<1>6. LocksAreExclusive'
  <2>. SUFFICES ASSUME NEW q \in Callback
                PROVE  /\ pc[q] \in InTransaction => StateFree(q)' /\ oauth'[on[q]] = "open"
                       /\ pc[q] \in WithUser => EmailFree(q)' /\ ~Used(Signed(q).email)'
                       /\ pc[q] \in WithIdentity => IdentityFree(q)' /\ ~Known(Signed(q).person)'
    BY <1>1 DEF LocksAreExclusive, locals
  <2>1. ASSUME pc[q] \in InTransaction PROVE StateFree(q)' /\ oauth'[on[q]] = "open"
    BY <1>0, <1>1, <1>3, <2>1 DEF LocksAreExclusive, StateFree, locals, TypeOK
  <2>2. ASSUME pc[q] \in WithUser PROVE EmailFree(q)' /\ ~Used(Signed(q).email)'
    <3>1. EmailFree(q)'
      BY <1>0, <1>1, <1>5, <2>2 DEF LocksAreExclusive, EmailFree, WithUser, WithIdentity
    <3>2. ~Used(Signed(q).email)'
      BY <1>0, <1>1, <1>5, <2>2 DEF LocksAreExclusive, Used, WithUser, WithIdentity, rows
    <3>. QED BY <3>1, <3>2
  <2>3. ASSUME pc[q] \in WithIdentity PROVE IdentityFree(q)' /\ ~Known(Signed(q).person)'
    <3>1. IdentityFree(q)'
      BY <1>0, <1>1, <1>5, <2>3 DEF LocksAreExclusive, IdentityFree, WithIdentity
    <3>2. ~Known(Signed(q).person)'
      BY <1>0, <1>1, <1>5, <2>3 DEF LocksAreExclusive, Known, WithIdentity, rows
    <3>. QED BY <3>1, <3>2
  <2>. QED BY <2>1, <2>2, <2>3
<1>7. CodesAreAccountedFor'
  BY <1>0, <1>1, <1>3, <1>4 DEF CodesAreAccountedFor, locals, TypeOK
<1>8. RowsAreOfTheDone'
  BY <1>0, <1>1 DEF RowsAreOfTheDone, rows
<1>9. ProvisioningIsWhole'
  BY <1>1 DEF Inv, ProvisioningIsWhole, rows
<1>. QED
  BY <1>2, <1>6, <1>7, <1>8, <1>9 DEF Inv, LoginInv

-----------------------------------------------------------------------------
\* A callback that takes no lock it was not free to take leaves the locks exclusive.
LEMMA StepKeepsLocks ==
  ASSUME TypeOK, LocksAreExclusive, UNCHANGED <<oauth, rows, claims, on>>,
         NEW q \in Callback, NEW step,
         pc' = [pc EXCEPT ![q] = step],
         step \in InTransaction => StateFree(q) /\ oauth[on[q]] = "open",
         step \in WithUser => EmailFree(q) /\ ~Used(Signed(q).email),
         step \in WithIdentity => IdentityFree(q) /\ ~Known(Signed(q).person)
  PROVE  LocksAreExclusive'
<1>1. \A r \in Callback : Signed(r)' = Signed(r)
  BY DEF Signed
<1>2. \A r \in Callback : pc'[r] = IF r = q THEN step ELSE pc[r]
  BY DEF TypeOK
<1>. SUFFICES ASSUME NEW r \in Callback
              PROVE  /\ pc'[r] \in InTransaction => StateFree(r)' /\ oauth[on[r]] = "open"
                     /\ pc'[r] \in WithUser => EmailFree(r)' /\ ~Used(Signed(r).email)'
                     /\ pc'[r] \in WithIdentity => IdentityFree(r)' /\ ~Known(Signed(r).person)'
  BY DEF LocksAreExclusive
<1>3. ASSUME pc'[r] \in InTransaction PROVE StateFree(r)' /\ oauth[on[r]] = "open"
  BY <1>2, <1>3 DEF LocksAreExclusive, StateFree
<1>4. ASSUME pc'[r] \in WithUser PROVE EmailFree(r)' /\ ~Used(Signed(r).email)'
  <2>1. EmailFree(r)'
    BY <1>1, <1>2, <1>4 DEF LocksAreExclusive, EmailFree
  <2>2. ~Used(Signed(r).email)'
    BY <1>1, <1>2, <1>4 DEF LocksAreExclusive, Used, rows
  <2>. QED BY <2>1, <2>2
<1>5. ASSUME pc'[r] \in WithIdentity PROVE IdentityFree(r)' /\ ~Known(Signed(r).person)'
  <2>1. IdentityFree(r)'
    BY <1>1, <1>2, <1>5 DEF LocksAreExclusive, IdentityFree
  <2>2. ~Known(Signed(r).person)'
    BY <1>1, <1>2, <1>5 DEF LocksAreExclusive, Known, rows
  <2>. QED BY <2>1, <2>2
<1>. QED BY <1>3, <1>4, <1>5

\* The steps between Arrive and Commit write nothing that others see but the code's use.
Statement(q) ==
  \/ Consume(q) \/ Exchange(q) \/ Resolve(q) \/ FindIdentity(q)
  \/ InsertUser(q) \/ InsertMembership(q) \/ InsertIdentity(q)
  \/ AnswerLost(q) \/ ConnectionLost(q)

\* Every statement of a callback keeps it.
LEMMA StatementKeepsInv ==
  ASSUME Inv, NEW q \in Callback, Statement(q)
  PROVE  Inv'
<1>0. TypeOK /\ LocksAreExclusive /\ CodesAreAccountedFor /\ RowsAreOfTheDone
  BY DEF Inv, LoginInv
<1>. USE DEF InTransaction, Redeemed, WithUser, WithIdentity
<1>1. UNCHANGED <<oauth, rows, claims, on>> /\ pc[q] \in InTransaction \cup {"arrived"}
  BY DEF Statement, Consume, Exchange, Resolve, FindIdentity, InsertUser, InsertMembership,
     InsertIdentity, AnswerLost, ConnectionLost, provider, locals
<1>2. PICK step \in (InTransaction \ {"arrived"}) \cup {"failed"} : pc' = [pc EXCEPT ![q] = step]
  BY DEF Statement, Consume, Exchange, Resolve, FindIdentity, InsertUser, InsertMembership,
     InsertIdentity, AnswerLost, ConnectionLost, Goes, GoesIf
<1>3. pc'[q] = step /\ \A r \in Callback \ {q} : pc'[r] = pc[r]
  BY <1>0, <1>2 DEF TypeOK
<1>4. TypeOK'
  <2>1. pc' \in [Callback -> Steps]
    BY <1>0, <1>2 DEF TypeOK, Steps
  <2>2. spent' \subseteq State /\ replayed' \subseteq State /\ pair' \in [Callback -> BOOLEAN]
        /\ faults' \in 0 .. MaxFaults
    BY <1>0, BoundsAreNatural DEF TypeOK, Statement, Consume, Exchange, Resolve, FindIdentity, InsertUser,
       InsertMembership, InsertIdentity, AnswerLost, ConnectionLost, provider, locals
  <2>3. UNCHANGED <<expired, setting, fresh>>
    BY DEF Statement, Consume, Exchange, Resolve, FindIdentity, InsertUser,
       InsertMembership, InsertIdentity, AnswerLost, ConnectionLost, locals
  <2>. QED
    BY <1>0, <1>1, <2>1, <2>2, <2>3 DEF TypeOK, rows, setting
<1>5. LocksAreExclusive'
  <2>1. step \in InTransaction => StateFree(q) /\ oauth[on[q]] = "open"
    BY <1>0, <1>3 DEF LocksAreExclusive, Statement, Consume, Exchange, Resolve, FindIdentity,
       InsertUser, InsertMembership, InsertIdentity, AnswerLost, ConnectionLost, Goes, GoesIf, TypeOK
  <2>2. step \in WithUser => EmailFree(q) /\ ~Used(Signed(q).email)
    BY <1>0, <1>3 DEF LocksAreExclusive, Statement, Consume, Exchange, Resolve, FindIdentity,
       InsertUser, InsertMembership, InsertIdentity, AnswerLost, ConnectionLost, Goes, GoesIf, TypeOK
  <2>3. step \in WithIdentity => IdentityFree(q) /\ ~Known(Signed(q).person)
    BY <1>0, <1>3 DEF LocksAreExclusive, Statement, Consume, Exchange, Resolve, FindIdentity,
       InsertUser, InsertMembership, InsertIdentity, AnswerLost, ConnectionLost, Goes, GoesIf, TypeOK
  <2>. QED
    BY <1>0, <1>1, <1>2, <2>1, <2>2, <2>3, StepKeepsLocks
<1>6. CodesAreAccountedFor'
  <2>1. /\ spent \subseteq spent' /\ replayed' \subseteq spent'
        /\ step \in Redeemed => on[q] \in spent' \ replayed'
        /\ replayed' \subseteq replayed \cup {on[q]}
        /\ pc[q] = "arrived" => replayed' = replayed
    BY <1>0, <1>3 DEF CodesAreAccountedFor, Statement, Consume, Exchange, Resolve, FindIdentity,
       InsertUser, InsertMembership, InsertIdentity, AnswerLost, ConnectionLost, Goes, GoesIf,
       provider, TypeOK
  <2>2. ASSUME NEW r \in Callback \ {q}, pc[r] \in Redeemed \cup {"done"}
        PROVE  on[r] \notin replayed'
    <3>1. CASE pc[q] = "arrived"
      BY <1>0, <2>1, <2>2, <3>1 DEF CodesAreAccountedFor
    <3>2. CASE pc[q] \in InTransaction
      <4>1. StateFree(q) /\ oauth[on[q]] = "open"
        BY <1>0, <3>2 DEF LocksAreExclusive
      <4>2. on[r] # on[q]
        BY <1>0, <2>2, <4>1 DEF StateFree, CodesAreAccountedFor
      <4>. QED
        BY <1>0, <2>1, <2>2, <4>2 DEF CodesAreAccountedFor
    <3>. QED BY <1>1, <3>1, <3>2
  <2>3. ASSUME NEW r \in Callback
        PROVE  /\ pc'[r] # "idle" => claims[on[r]] # {}
               /\ pc'[r] \in Redeemed \cup {"done"} => on[r] \in spent' \ replayed'
               /\ pc'[r] = "done" => oauth[on[r]] = "consumed"
    <3>1. CASE r = q
      BY <1>0, <1>1, <1>2, <1>3, <2>1, <3>1 DEF CodesAreAccountedFor
    <3>2. CASE r # q
      BY <1>0, <1>3, <2>1, <2>2, <3>2 DEF CodesAreAccountedFor
    <3>. QED BY <3>1, <3>2
  <2>. QED
    BY <1>1, <2>1, <2>3 DEF CodesAreAccountedFor
<1>7. RowsAreOfTheDone'
  <2>1. {r \in Callback : pc'[r] = "done"} = {r \in Callback : pc[r] = "done"}
    BY <1>1, <1>2, <1>3
  <2>. QED
    BY <1>0, <1>1, <2>1 DEF RowsAreOfTheDone, rows
<1>8. ProvisioningIsWhole'
  BY <1>1 DEF Inv, ProvisioningIsWhole, rows
<1>. QED
  BY <1>4, <1>5, <1>6, <1>7, <1>8 DEF Inv, LoginInv

-----------------------------------------------------------------------------
\* So does the arrival of a callback.
LEMMA ArriveKeepsInv ==
  ASSUME Inv, NEW q \in Callback, NEW s \in State, Arrive(q, s)
  PROVE  Inv'
<1>0. TypeOK /\ LocksAreExclusive /\ CodesAreAccountedFor /\ RowsAreOfTheDone
  BY DEF Inv, LoginInv
<1>. USE DEF InTransaction, Redeemed, WithUser, WithIdentity
<1>1. /\ UNCHANGED <<oauth, rows, claims, spent, replayed>>
      /\ pc[q] = "idle" /\ pc'[q] = "arrived" /\ on'[q] = s /\ claims[s] # {}
      /\ \A r \in Callback \ {q} : pc'[r] = pc[r] /\ on'[r] = on[r]
  BY <1>0 DEF Arrive, Goes, TypeOK, provider
<1>2. TypeOK'
  BY <1>0 DEF TypeOK, Arrive, Goes, Steps, rows, provider, setting
<1>3. \A r \in Callback \ {q} : Signed(r)' = Signed(r)
  BY <1>1 DEF Signed
<1>4. LocksAreExclusive'
  <2>. SUFFICES ASSUME NEW r \in Callback \ {q}
                PROVE  /\ pc[r] \in InTransaction => StateFree(r)' /\ oauth[on[r]] = "open"
                       /\ pc[r] \in WithUser => EmailFree(r)' /\ ~Used(Signed(r).email)'
                       /\ pc[r] \in WithIdentity => IdentityFree(r)' /\ ~Known(Signed(r).person)'
    BY <1>1 DEF LocksAreExclusive
  <2>1. ASSUME pc[r] \in InTransaction PROVE StateFree(r)' /\ oauth[on[r]] = "open"
    BY <1>0, <1>1, <2>1 DEF LocksAreExclusive, StateFree
  <2>2. ASSUME pc[r] \in WithUser PROVE EmailFree(r)' /\ ~Used(Signed(r).email)'
    <3>1. EmailFree(r)'
      BY <1>0, <1>1, <1>3, <2>2 DEF LocksAreExclusive, EmailFree
    <3>2. ~Used(Signed(r).email)'
      BY <1>0, <1>1, <1>3, <2>2 DEF LocksAreExclusive, Used, rows
    <3>. QED BY <3>1, <3>2
  <2>3. ASSUME pc[r] \in WithIdentity PROVE IdentityFree(r)' /\ ~Known(Signed(r).person)'
    <3>1. IdentityFree(r)'
      BY <1>0, <1>1, <1>3, <2>3 DEF LocksAreExclusive, IdentityFree
    <3>2. ~Known(Signed(r).person)'
      BY <1>0, <1>1, <1>3, <2>3 DEF LocksAreExclusive, Known, rows
    <3>. QED BY <3>1, <3>2
  <2>. QED BY <2>1, <2>2, <2>3
<1>5. CodesAreAccountedFor'
  BY <1>0, <1>1 DEF CodesAreAccountedFor
<1>6. RowsAreOfTheDone'
  <2>1. {r \in Callback : pc'[r] = "done"} = {r \in Callback : pc[r] = "done"}
    BY <1>1
  <2>. QED
    BY <1>0, <1>1, <2>1 DEF RowsAreOfTheDone, rows
<1>7. ProvisioningIsWhole'
  BY <1>1 DEF Inv, ProvisioningIsWhole, rows
<1>. QED
  BY <1>2, <1>4, <1>5, <1>6, <1>7 DEF Inv, LoginInv

\* So does the end of a transaction.
LEMMA CommitKeepsInv ==
  ASSUME Inv, NEW q \in Callback, Commit(q)
  PROVE  Inv'
<1>0. TypeOK /\ LocksAreExclusive /\ CodesAreAccountedFor /\ RowsAreOfTheDone
  BY DEF Inv, LoginInv
<1>. USE DEF InTransaction, Redeemed, WithUser, WithIdentity
<1>. DEFINE u == [by |-> q, email |-> Signed(q).email]
            i == [user |-> q, person |-> Signed(q).person]
<1>1. /\ users' = users \cup {u} /\ members' = members \cup {q}
      /\ identities' = identities \cup {i} /\ sessions' = sessions \cup {q}
      /\ credentials' \subseteq credentials \cup {q}
      /\ UNCHANGED <<claims, on, spent, replayed>>
  BY DEF Commit, provider, locals
<1>2. /\ pc[q] = "commit" /\ pc'[q] = "done" /\ \A r \in Callback \ {q} : pc'[r] = pc[r]
      /\ on[q] \in State /\ oauth'[on[q]] = "consumed"
      /\ \A s \in State \ {on[q]} : oauth'[s] = oauth[s]
  BY <1>0 DEF Commit, Goes, TypeOK
<1>3. /\ StateFree(q) /\ EmailFree(q) /\ IdentityFree(q)
      /\ ~Used(Signed(q).email) /\ ~Known(Signed(q).person)
  BY <1>0, <1>2 DEF LocksAreExclusive
<1>4. Signed(q).person \in Person /\ Signed(q).email \in Email
  BY <1>0, <1>2, SignedIsTyped DEF CodesAreAccountedFor
<1>5. \A r \in Callback : Signed(r)' = Signed(r)
  BY <1>1 DEF Signed
<1>6. TypeOK'
  <2>1. users' \subseteq User /\ identities' \subseteq Identity
    BY <1>0, <1>1, <1>4 DEF TypeOK, User, Identity
  <2>2. oauth' \in [State -> {"none", "open", "consumed"}] /\ pc' \in [Callback -> Steps]
    BY <1>0 DEF TypeOK, Commit, Goes, Steps
  <2>3. members' \subseteq Callback /\ sessions' \subseteq Callback /\ credentials' \subseteq Callback
    BY <1>0, <1>1 DEF TypeOK
  <2>4. UNCHANGED <<expired, provider, setting, locals, faults>>
    BY DEF Commit
  <2>. QED
    BY <1>0, <2>1, <2>2, <2>3, <2>4 DEF TypeOK, provider, setting, locals
<1>7. LocksAreExclusive'
  <2>. SUFFICES ASSUME NEW r \in Callback \ {q}
                PROVE  /\ pc[r] \in InTransaction => StateFree(r)' /\ oauth'[on[r]] = "open"
                       /\ pc[r] \in WithUser => EmailFree(r)' /\ ~Used(Signed(r).email)'
                       /\ pc[r] \in WithIdentity => IdentityFree(r)' /\ ~Known(Signed(r).person)'
    BY <1>1, <1>2 DEF LocksAreExclusive
  <2>1. ASSUME pc[r] \in InTransaction PROVE StateFree(r)' /\ oauth'[on[r]] = "open"
    <3>1. on[r] # on[q] /\ on[r] \in State
      BY <1>0, <1>3, <2>1 DEF StateFree, TypeOK
    <3>. QED
      BY <1>0, <1>1, <1>2, <2>1, <3>1 DEF LocksAreExclusive, StateFree
  <2>2. ASSUME pc[r] \in WithUser PROVE EmailFree(r)' /\ ~Used(Signed(r).email)'
    <3>1. EmailFree(r)'
      BY <1>0, <1>2, <1>5, <2>2 DEF LocksAreExclusive, EmailFree
    <3>2. Signed(r).email # u.email
      BY <1>3, <2>2 DEF EmailFree
    <3>3. ~Used(Signed(r).email)
      BY <1>0, <2>2 DEF LocksAreExclusive
    <3>. QED
      BY <1>1, <1>5, <3>1, <3>2, <3>3 DEF Used
  <2>3. ASSUME pc[r] \in WithIdentity PROVE IdentityFree(r)' /\ ~Known(Signed(r).person)'
    <3>1. IdentityFree(r)'
      BY <1>0, <1>2, <1>5, <2>3 DEF LocksAreExclusive, IdentityFree
    <3>2. Signed(r).person # i.person
      BY <1>3, <2>3 DEF IdentityFree
    <3>3. ~Known(Signed(r).person)
      BY <1>0, <2>3 DEF LocksAreExclusive
    <3>. QED
      BY <1>1, <1>5, <3>1, <3>2, <3>3 DEF Known
  <2>. QED BY <2>1, <2>2, <2>3
<1>8. CodesAreAccountedFor'
  BY <1>0, <1>1, <1>2 DEF CodesAreAccountedFor, TypeOK
<1>9. RowsAreOfTheDone'
  <2>1. {r \in Callback : pc'[r] = "done"} = {r \in Callback : pc[r] = "done"} \cup {q}
    BY <1>2
  <2>2. {v.by : v \in users'} = {v.by : v \in users} \cup {q}
    <3>1. u.by = q
      OBVIOUS
    <3>. QED BY <1>1, <3>1
  <2>3. {j.user : j \in identities'} = {j.user : j \in identities} \cup {q}
    <3>1. i.user = q
      OBVIOUS
    <3>. QED BY <1>1, <3>1
  <2>. QED
    BY <1>0, <1>1, <2>1, <2>2, <2>3 DEF RowsAreOfTheDone
<1>10. ProvisioningIsWhole'
  <2>0. u.by = q /\ i.user = q
    OBVIOUS
  <2>. HIDE DEF u, i
  <2>1. (\A v \in users : v.by # q) /\ (\A j \in identities : j.user # q)
    BY <1>0, <1>2 DEF RowsAreOfTheDone
  <2>2. u.email \notin Taken /\ \A v \in users : v.email # u.email
    BY <1>3 DEF Used, u
  <2>3. \A j \in identities : j.person # i.person
    BY <1>3 DEF Known, i
  <2>4. \A v \in users' : /\ v.by \in members'
                          /\ \E j \in identities' : j.user = v.by
                          /\ v.email \notin Taken
                          /\ \A w \in users' : v.by = w.by \/ v.email = w.email => v = w
    BY <1>1, <2>0, <2>1, <2>2 DEF Inv, ProvisioningIsWhole
  <2>5. \A j \in identities' :
          /\ \E v \in users' : v.by = j.user
          /\ \A k \in identities' : j.user = k.user \/ j.person = k.person => j = k
    BY <1>1, <2>0, <2>1, <2>3 DEF Inv, ProvisioningIsWhole
  <2>6. members' \cup sessions' \cup credentials' \subseteq {j.user : j \in identities'}
    BY <1>1, <2>0 DEF Inv, ProvisioningIsWhole
  <2>. QED
    BY <2>4, <2>5, <2>6 DEF ProvisioningIsWhole
<1>. QED
  BY <1>6, <1>7, <1>8, <1>9, <1>10 DEF Inv, LoginInv

-----------------------------------------------------------------------------
\* So does every step.
LEMMA NextKeepsInv == Inv /\ [Next]_vars => Inv'
<1>. SUFFICES ASSUME Inv, [Next]_vars PROVE Inv'
  OBVIOUS
<1>1. ASSUME NEW q \in Callback, Handle(q) \/ AnswerLost(q) \/ ConnectionLost(q)
      PROVE  Statement(q) \/ Commit(q)
  BY <1>1 DEF Handle, Statement
<1>. QED
  BY <1>1, SurroundingsKeepInv, StatementKeepsInv, ArriveKeepsInv, CommitKeepsInv DEF Next

\* The invariant always holds.
LEMMA InvAlways == Spec => []Inv
  BY InitLogin, NextKeepsInv, PTL DEF Spec

\* The locks of a callback are its own and its code is its own, in every state
\* (identity_provider.py:137, repositories/identity_provider.py:75-100).
THEOREM LoginInvariant == Spec => []LoginInv
<1>1. Inv => LoginInv
  BY DEF Inv
<1>. QED
  BY <1>1, InvAlways, PTL

\* Whatever runs at once or fails in the middle, users, identities and memberships are
\* created together and one for one (identity_provider.py:252-337, entra_router.py:115-121).
THEOREM ProvisioningWhole == Spec => []ProvisioningIsWhole
<1>1. Inv => ProvisioningIsWhole
  BY DEF Inv
<1>. QED
  BY <1>1, InvAlways, PTL

\* No code whose tokens a login keeps is presented a second time
\* (repositories/identity_provider.py:75-100).
THEOREM KeptTokensAreNotReplayed == Spec => []KeptTokensNotReplayed
<1>1. Inv => KeptTokensNotReplayed
  BY DEF Inv, LoginInv, CodesAreAccountedFor, RowsAreOfTheDone, KeptTokensNotReplayed, TypeOK
<1>. QED
  BY <1>1, InvAlways, PTL
=============================================================================
