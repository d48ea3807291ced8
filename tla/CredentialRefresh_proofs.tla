---------------------- MODULE CredentialRefresh_proofs ----------------------
(***************************************************************************)
(* Proofs about CredentialRefresh, for any number of folders, processes,   *)
(* pairs and faults, and whatever the provider does with a used token.     *)
(***************************************************************************)
EXTENDS CredentialRefresh, TLAPS

(* Typing. *)

\* Every step keeps every variable in its type.
LEMMA TypeStep == TypeOK /\ [Next]_vars => TypeOK'
<1> SUFFICES ASSUME TypeOK, [Next]_vars PROVE TypeOK'
  OBVIOUS
<1> USE BoundsAreNaturals, FoldersHaveHosts DEF TypeOK, Steps, Pair
<1>1. CASE TokensExpire
  BY <1>1 DEF TokensExpire, account, locals
<1>2. CASE ConsentWithdrawn
  BY <1>2 DEF ConsentWithdrawn, account, locals
<1>3. CASE LeaseExpires
  <2>1. faults' \in 0 .. MaxFaults
    BY <1>3 DEF LeaseExpires, Fault
  <2> QED BY <1>3, <2>1 DEF LeaseExpires, locals, provider
<1>4. CASE Reconnect
  BY <1>4 DEF Reconnect, Fault, locals, provider
<1>5. ASSUME NEW f \in Folder, RunStep(f) PROVE TypeOK'
  <2>1. CASE Begin(f)
    BY <2>1 DEF Begin, Goto, account, provider
  <2>2. CASE Load(f)
    BY <2>2 DEF Load, Goto, account, provider
  <2>3. CASE Fetched(f)
    BY <2>3 DEF Fetched, Leave, Goto, account, provider
  <2>4. CASE Unauthorized(f)
    BY <2>4 DEF Unauthorized, Goto, account, provider
  <2>5. CASE Failed(f)
    BY <2>5 DEF Failed, Leave, Goto, account, provider
  <2>6. CASE RunDies(f)
    BY <2>6 DEF RunDies, Leave, Goto, Fault, account, provider
  <2>7. CASE AlreadyRefreshed(f)
    BY <2>7 DEF AlreadyRefreshed, KeepLoaded, Goto, account, provider
  <2>8. CASE AcquireRefresh(f)
    BY <2>8 DEF AcquireRefresh, ReadToSend, Goto, provider
  <2>9. CASE Contended(f)
    BY <2>9 DEF Contended, Goto, account, provider
  <2>10. CASE GiveBack(f)
    BY <2>10 DEF GiveBack, KeepLoaded, Unlock, Goto, provider
  <2>11. CASE ProviderIssues(f)
    BY <2>11 DEF ProviderIssues, Goto, account
  <2>12. CASE ProviderRefuses(f)
    BY <2>12 DEF ProviderRefuses, Goto, account, provider
  <2>13. CASE CallFails(f)
    <3>1. issued' \in Pair /\ faults' \in 0 .. MaxFaults
      BY <2>13 DEF CallFails, Fault
    <3>2. owner' \in Process \cup {None} /\ live' \in BOOLEAN
      BY <2>13 DEF CallFails, Unlock
    <3> QED BY <2>13, <3>1, <3>2 DEF CallFails, Goto
  <2>14. CASE Store(f)
    <3>1. CASE Holds(f)
      <4>1. expected' \in [Folder -> Nat \cup {None}] /\ pc' \in [Folder -> Steps]
        BY <2>14, <3>1 DEF Store, Goto
      <4>2. generation' \in Nat /\ stored' \in Pair /\ owner' = None /\ live' = FALSE
        BY <2>14, <3>1 DEF Store, Unlock
      <4> QED BY <2>14, <4>1, <4>2 DEF Store, provider
    <3>2. CASE ~Holds(f)
      BY <2>14, <3>2 DEF Store, Goto, provider
    <3> QED BY <3>1, <3>2
  <2>15. CASE ReleaseRefused(f)
    BY <2>15 DEF ReleaseRefused, Unlock, Goto, provider
  <2>16. CASE MarkReauth(f)
    BY <2>16 DEF MarkReauth, Goto, provider
  <2> QED BY <1>5, <2>1, <2>2, <2>3, <2>4, <2>5, <2>6, <2>7, <2>8, <2>9, <2>10, <2>11, <2>12,
             <2>13, <2>14, <2>15, <2>16 DEF RunStep
<1>6. CASE UNCHANGED vars
  BY <1>6 DEF vars, provider, account, locals
<1> QED BY <1>1, <1>2, <1>3, <1>4, <1>5, <1>6
       DEF Next

-----------------------------------------------------------------------------
(* With and without faults. *)

\* The lease has one holder.
LEMMA OneHolder ==
  ASSUME NEW f \in Folder, NEW g \in Folder, Holds(f), Holds(g) PROVE f = g
  BY DEF Holds

\* What is stored has been issued, and a run's own pair is what its step says it is.
LEMMA RunStepKeepsRuns ==
  ASSUME TypeOK, TypeOK', stored <= issued, RunInv, NEW f \in Folder, RunStep(f)
  PROVE  stored' <= issued' /\ RunInv'
<1> SUFFICES ASSUME NEW g \in Folder PROVE stored' <= issued' /\ RunOK(g)'
  BY DEF RunInv
<1> USE FoldersHaveHosts DEF TypeOK, Pair, RunInv, RunOK, Holds
<1>1. CASE Begin(f)
  BY <1>1 DEF Begin, Goto, account, provider
<1>2. CASE Load(f)
  BY <1>2 DEF Load, Goto, account, provider
<1>3. CASE Fetched(f) \/ Failed(f) \/ RunDies(f)
  BY <1>3 DEF Fetched, Failed, RunDies, Leave, Goto, account, provider
<1>4. CASE Unauthorized(f)
  <2>1. CASE g = f
    <3>1. pc'[f] \in {"failed", "acquire"} /\ retrying'[f] = TRUE /\ expected'[f] = None
      BY <1>4, <2>1 DEF Unauthorized, Goto
    <3> QED BY <1>4, <2>1, <3>1 DEF Unauthorized, account, provider
  <2>2. CASE g # f
    BY <1>4, <2>2 DEF Unauthorized, Goto, account, provider
  <2> QED BY <2>1, <2>2
<1>5. CASE AlreadyRefreshed(f) \/ Contended(f) \/ GiveBack(f)
  BY <1>5 DEF AlreadyRefreshed, Contended, GiveBack, KeepLoaded, Unlock, Goto, account,
              provider
<1>6. CASE AcquireRefresh(f)
  BY <1>6 DEF AcquireRefresh, ReadToSend, Superseded, Goto, provider
<1>7. CASE ProviderIssues(f)
  BY <1>7 DEF ProviderIssues, Goto, account
<1>8. CASE ProviderRefuses(f) \/ CallFails(f)
  BY <1>8 DEF ProviderRefuses, CallFails, Unlock, Goto, account, provider
<1>9. CASE Store(f)
  <2>1. CASE Holds(f)
    BY <1>9, <2>1, OneHolder DEF Store, Unlock, Goto, provider
  <2>2. CASE ~Holds(f)
    BY <1>9, <2>2 DEF Store, Goto, provider
  <2> QED BY <2>1, <2>2
<1>10. CASE ReleaseRefused(f) \/ MarkReauth(f)
  BY <1>10 DEF ReleaseRefused, MarkReauth, Unlock, Goto, provider
<1> QED BY <1>1, <1>2, <1>3, <1>4, <1>5, <1>6, <1>7, <1>8, <1>9, <1>10
       DEF RunStep

\* The same for every step.
LEMMA RunsStep ==
  ASSUME TypeOK, TypeOK', stored <= issued, RunInv, [Next]_vars
  PROVE  stored' <= issued' /\ RunInv'
<1>1. CASE TokensExpire \/ ConsentWithdrawn \/ Reconnect \/ LeaseExpires \/ UNCHANGED vars
  BY <1>1 DEF TokensExpire, ConsentWithdrawn, Reconnect, LeaseExpires, vars, account,
              locals, provider, TypeOK, Pair, RunInv, RunOK, Holds
<1> QED BY <1>1, RunStepKeepsRuns DEF Next

\* Without a fault, a run's step leaves everybody at peace.
LEMMA RunStepKeepsPeace ==
  ASSUME TypeOK, TypeOK', stored <= issued, RunInv, Peaceful, faults = 0, faults' = 0,
         NEW f \in Folder, RunStep(f)
  PROVE  Peaceful'
<1> DEFINE Rest == /\ (\A g \in Folder : pc[g] # "store") => stored = issued
                   /\ status = "reauth_required" => revoked
<1> SUFFICES Rest' /\ \A g \in Folder : PeacefulRun(g)'
  BY DEF Peaceful
<1> USE FoldersHaveHosts DEF TypeOK, Pair, RunInv, RunOK, Peaceful, PeacefulRun,
                             Refreshing, Holds
<1>1. CASE Begin(f) \/ Load(f)
  BY <1>1 DEF Begin, Load, Goto, account, provider
<1>2. CASE Fetched(f) \/ Failed(f)
  BY <1>2 DEF Fetched, Failed, Leave, Goto, account, provider
<1>3. CASE RunDies(f)
  BY <1>3 DEF RunDies, Fault
<1>4. CASE Unauthorized(f)
  BY <1>4 DEF Unauthorized, Goto, account, provider
<1>5. CASE AlreadyRefreshed(f) \/ Contended(f)
  BY <1>5 DEF AlreadyRefreshed, Contended, KeepLoaded, Goto, account, provider
<1>6. CASE GiveBack(f)
  BY <1>6, OneHolder DEF GiveBack, KeepLoaded, Unlock, Goto, provider
<1>7. CASE AcquireRefresh(f)
  BY <1>7 DEF AcquireRefresh, ReadToSend, Superseded, Goto, provider
<1>8. CASE ProviderIssues(f)
  BY <1>8, OneHolder DEF ProviderIssues, Goto, account
<1>9. CASE ProviderRefuses(f)
  BY <1>9 DEF ProviderRefuses, Refusable, Goto, account, provider
<1>10. CASE CallFails(f)
  BY <1>10 DEF CallFails, Fault
<1>11. CASE Store(f)
  BY <1>11, OneHolder DEF Store, Unlock, Goto, provider
<1>12. CASE ReleaseRefused(f) \/ MarkReauth(f)
  BY <1>12, OneHolder DEF ReleaseRefused, MarkReauth, Unlock, Goto, provider
<1> QED BY <1>1, <1>2, <1>3, <1>4, <1>5, <1>6, <1>7, <1>8, <1>9, <1>10, <1>11, <1>12
       DEF RunStep

\* The same for every step; a fault, once met, stays counted.
LEMMA PeaceStep ==
  ASSUME TypeOK, TypeOK', stored <= issued, RunInv, faults = 0 => Peaceful, [Next]_vars
  PROVE  faults' = 0 => Peaceful'
<1> SUFFICES ASSUME faults' = 0 PROVE Peaceful'
  OBVIOUS
<1>1. faults = 0 /\ Peaceful
  <2>1. faults' \in {faults, faults + 1} /\ faults \in Nat
    BY BoundsAreNaturals
       DEF TypeOK, Next, vars, TokensExpire, ConsentWithdrawn, Reconnect, LeaseExpires,
           RunStep, Begin, Load, Fetched, Unauthorized, Failed, RunDies, AlreadyRefreshed,
           AcquireRefresh, Contended, GiveBack, ProviderIssues, ProviderRefuses,
           CallFails, Store, ReleaseRefused, MarkReauth, Fault
  <2> QED BY <2>1
<1>2. CASE TokensExpire \/ ConsentWithdrawn \/ UNCHANGED vars
  BY <1>1, <1>2 DEF TokensExpire, ConsentWithdrawn, vars, account, locals, provider,
                    Peaceful, PeacefulRun, Refreshing, Holds
<1>3. CASE Reconnect
  BY <1>1, <1>3 DEF Reconnect, Fault
<1>4. CASE LeaseExpires
  BY <1>1, <1>4 DEF LeaseExpires, Fault, Peaceful, PeacefulRun, Refreshing, Holds, locals,
                    provider
<1> QED BY <1>1, <1>2, <1>3, <1>4, RunStepKeepsPeace DEF Next

-----------------------------------------------------------------------------
(* The theorems. *)

\* CredentialInv is an invariant: everything below follows from it.
THEOREM CredentialInvariant == Spec => []CredentialInv
<1>1. Init => CredentialInv
  <2>1. Init => TypeOK
    <3>1. Init => expected \in [Folder -> Nat \cup {None}]
      BY DEF Init
    <3>2. Init => generation \in Nat /\ pc \in [Folder -> Steps] /\ token \in [Folder -> Pair]
      BY BoundsAreNaturals DEF Init, Pair, Steps
    <3>3. Init => issued \in Pair /\ spent \in 0 .. MaxPairs + 1 /\ stored \in Pair
                  /\ faults \in 0 .. MaxFaults
      BY BoundsAreNaturals DEF Init, Pair
    <3> QED BY <3>1, <3>2, <3>3 DEF Init, TypeOK
  <2>2. Init => stored <= issued /\ RunInv
    BY DEF Init, RunInv, RunOK
  <2>3. Init => Peaceful
    BY FoldersHaveHosts DEF Init, Peaceful, PeacefulRun, Refreshing
  <2> QED BY <2>1, <2>2, <2>3 DEF CredentialInv
<1>2. CredentialInv /\ [Next]_vars => CredentialInv'
  BY TypeStep, RunsStep, PeaceStep DEF CredentialInv
<1> QED BY <1>1, <1>2, PTL DEF Spec

\* The state stays of its type.
THEOREM TypeCorrect == Spec => []TypeOK
<1>1. CredentialInv => TypeOK
  BY DEF CredentialInv
<1> QED BY CredentialInvariant, <1>1, PTL

\* A refresh that somebody else has done already is not done again.
THEOREM NotRepeated == Spec => []RefreshNotRepeated
<1>1. CredentialInv => RefreshNotRepeated
  BY DEF CredentialInv, RunInv, RunOK, RefreshNotRepeated
<1> QED BY CredentialInvariant, <1>1, PTL

\* Without a fault the newest pair is in the database or on its way there.
THEOREM NoPairLost == Spec => []PairNotLost
<1>1. CredentialInv => PairNotLost
  BY DEF CredentialInv, Peaceful, PairNotLost
<1> QED BY CredentialInvariant, <1>1, PTL

\* Without a fault only a withdrawn consent makes an account ask for a new one.
THEOREM ReauthIsCaused == Spec => []ReauthHasCause
<1>1. CredentialInv => ReauthHasCause
  BY BoundsAreNaturals DEF CredentialInv, TypeOK, Peaceful, ReauthHasCause
<1> QED BY CredentialInvariant, <1>1, PTL

\* A refresh never puts an older pair in the place of a newer one.
THEOREM PairsNotOlder == Spec => NeverOlderPair
<1>1. ASSUME CredentialInv, [Next]_vars PROVE [stored' >= stored \/ Reconnect]_vars
  <2>1. CASE TokensExpire \/ ConsentWithdrawn \/ Reconnect \/ LeaseExpires \/ UNCHANGED vars
    BY <1>1, <2>1 DEF TokensExpire, ConsentWithdrawn, LeaseExpires, account, CredentialInv,
                      TypeOK, Pair
  <2>2. ASSUME NEW f \in Folder, RunStep(f) PROVE stored' >= stored
    <3>1. CASE Store(f)
      BY <1>1, <3>1 DEF Store, CredentialInv, TypeOK, Pair, RunInv, RunOK
    <3>2. CASE ~Store(f)
      BY <1>1, <2>2, <3>2
         DEF RunStep, Begin, Load, Fetched, Unauthorized, Failed, RunDies,
             AlreadyRefreshed, AcquireRefresh, Contended, GiveBack, ProviderIssues,
             ProviderRefuses, CallFails, ReleaseRefused, MarkReauth, account,
             CredentialInv, TypeOK, Pair
    <3> QED BY <3>1, <3>2
  <2> QED BY <1>1, <2>1, <2>2 DEF Next
<1> QED BY <1>1, CredentialInvariant, PTL DEF Spec, NeverOlderPair
=============================================================================
