--------------------------- MODULE MailSync_proofs ---------------------------
(***************************************************************************)
(* Proofs about MailSync, for any number of runs, processes, messages,     *)
(* changes, pages and faults.                                              *)
(***************************************************************************)
EXTENDS MailSync, FiniteSetTheorems, TLAPS

(* Typing. *)

\* Start is a cursor, NoPage a page.
LEMMA Defaults == Start \in Cursor /\ NoPage \in Page
  BY BoundsAreNaturals DEF Start, NoPage, Cursor, Page, Position

\* A run that ends keeps well-formed locals.
LEMMA LeaveType == ASSUME NEW r \in Run, RunType, Leave(r) PROVE RunType'
  BY Defaults, BoundsAreNaturals DEF RunType, Leave

\* So does a run that goes on to another step of its code.
LEMMA GotoType ==
  ASSUME NEW r \in Run, RunType, Goto(r, "renew") \/ Goto(r, "release")
                                 \/ Goto(r, "auth") \/ Goto(r, "error")
  PROVE  RunType'
  BY DEF RunType, Goto

\* So does a run that begins, or fails to.
LEMMA BeginType == ASSUME NEW r \in Run, RunType, RowType, Begin(r) PROVE RunType'
  BY DEF RunType, RowType, Begin, locals

\* Applying a page keeps the messages' rows well-formed.
LEMMA ProcessType ==
  ASSUME NEW r \in Run, ProviderType, MailType, RunType, ProcessItems(r)
  PROVE  MailType'
<1>1. \A m \in Msg : Item(r, m) \in Entry
  BY DEF ProviderType, RunType, Page, Item
<1>2. version' \in [Msg -> Nat]
  BY DEF ProcessItems, MailType
<1>3. content' \in [Msg -> Position]
  BY <1>1 DEF ProcessItems, MailType, Entry
<1>4. member' \in [Msg -> BOOLEAN]
  <2>1. \A m \in Msg : (Arrives(r, m) \/ (member[m] /\ ~Departs(r, m))) \in BOOLEAN
    OBVIOUS
  <2> QED BY <2>1, Zenon DEF ProcessItems
<1>5. latest' \in Position
  BY DEF ProcessItems, RunType, Page
<1> QED BY <1>2, <1>3, <1>4, <1>5 DEF MailType

\* Every step keeps every variable in its type.
LEMMA TypeStep == TypeOK /\ [Next]_vars => TypeOK'
<1> SUFFICES ASSUME TypeOK, [Next]_vars PROVE TypeOK'
  OBVIOUS
<1> USE DEF TypeOK
<1> USE BoundsAreNaturals, RunsHaveHosts
<1>1. ASSUME NEW m \in Msg, FolderChanges(m) PROVE TypeOK'
  <2>1. head' \in Position /\ head + 1 \in Position
    BY <1>1 DEF FolderChanges, ProviderType, Position
  <2>2. PICK here \in BOOLEAN :
           folder' = [folder EXCEPT ![head + 1] =
                      [folder[head] EXCEPT ![m] = [change |-> head + 1, present |-> here]]]
    BY <1>1 DEF FolderChanges
  <2>3. [change |-> head + 1, present |-> here] \in Entry
    BY <2>1 DEF Entry
  <2>4. [folder[head] EXCEPT ![m] = [change |-> head + 1, present |-> here]] \in [Msg -> Entry]
    BY <2>3 DEF ProviderType
  <2>5. ProviderType'
    BY <1>1, <2>1, <2>2, <2>4 DEF ProviderType, FolderChanges
  <2> QED BY <1>1, <2>5 DEF FolderChanges, RowType, MailType, RunType, syncRow, mail, locals
<1>2. CASE CursorsExpire
  <2>1. ProviderType'
    BY <1>2 DEF CursorsExpire, ProviderType, Fault
  <2> QED BY <1>2, <2>1 DEF CursorsExpire, Fault, ProviderType, RowType, MailType, RunType,
                            syncRow, mail, locals
<1>3. ASSUME NEW r \in Run, Discover(r) PROVE TypeOK'
  BY <1>3, BeginType DEF Discover, ProviderType, RowType, MailType, provider, syncRow, mail
<1>4. ASSUME NEW r \in Run, RunQueued(r) PROVE TypeOK'
  BY <1>4, BeginType DEF RunQueued, ProviderType, RowType, MailType, provider, syncRow, mail
<1>5. CASE Requested \/ ResultExpires
  BY <1>5 DEF Requested, ResultExpires, ProviderType, RowType, MailType, RunType, provider,
              syncRow, mail, locals
<1>6. CASE LeaseExpires
  <2>1. faults' \in 0 .. MaxFaults /\ faults <= faults'
    <3>1. CASE Fault
      BY <3>1 DEF Fault
    <3>2. CASE UNCHANGED faults
      BY <3>2
    <3> QED BY <1>6, <3>1, <3>2 DEF LeaseExpires
  <2>2. RowType' /\ UNCHANGED <<head, folder, period, mail, locals, arq>>
    BY <1>6 DEF LeaseExpires, RowType, provider
  <2> QED BY <2>1, <2>2 DEF ProviderType, MailType, RunType, mail, locals
<1>7. ASSUME NEW r \in Run, RunStep(r) PROVE TypeOK'
  <2>1. CASE Acquire(r)
    <3>1. RowType'
      BY <2>1 DEF Acquire, RowType
    <3>2. RunType'
      BY <2>1, GotoType, LeaveType DEF Acquire
    <3> QED BY <2>1, <3>1, <3>2 DEF Acquire, ProviderType, MailType, provider, mail
  <2>2. CASE TooManyPages(r)
    BY <2>2, GotoType DEF TooManyPages, ProviderType, RowType, MailType, provider, syncRow, mail
  <2>3. CASE Renew(r)
    <3>1. CASE Holds(r)
      <4>1. RunType'
        BY <2>3, <3>1 DEF Renew, RunType
      <4> QED BY <2>3, <3>1, <4>1 DEF Renew, ProviderType, RowType, MailType, provider, mail
    <3>2. CASE ~Holds(r)
      BY <2>3, <3>2, LeaveType DEF Renew, ProviderType, RowType, MailType, provider, mail
    <3> QED BY <3>1, <3>2
  <2>4. CASE FetchPage(r)
    <3>1. PICK to \in cursor[r].pos .. head, more \in BOOLEAN :
             page' = [page EXCEPT ![r] = [to |-> to, issued |-> period, at |-> head,
                                          more |-> more]]
      BY <2>4 DEF FetchPage
    <3>2. to \in Position
      BY <3>1 DEF ProviderType, RunType, Position, Cursor
    <3>3. [to |-> to, issued |-> period, at |-> head, more |-> more] \in Page
      BY <3>1, <3>2 DEF Page, ProviderType
    <3>4. RunType'
      BY <2>4, <3>1, <3>3 DEF FetchPage, RunType
    <3> QED BY <2>4, <3>4 DEF FetchPage, ProviderType, RowType, MailType, provider, syncRow, mail
  <2>5. CASE CursorRejected(r)
    BY <2>5, GotoType DEF CursorRejected, ProviderType, RowType, MailType, provider, syncRow, mail
  <2>6. CASE FetchFails(r)
    BY <2>6, GotoType DEF FetchFails, Fault, ProviderType, RowType, MailType, provider,
                          syncRow, mail
  <2>7. CASE ApplyPage(r)
    <3>1. [pos |-> page[r].to, issued |-> page[r].issued] \in Cursor
      BY DEF RunType, Page, Cursor
    <3>2. RowType'
      BY <2>7, <3>1 DEF ApplyPage, RowType
    <3>3. RunType'
      BY <2>7, <3>1, Defaults DEF ApplyPage, RunType
    <3>4. MailType'
      BY <2>7, ProcessType DEF ApplyPage
    <3> QED BY <2>7, <3>2, <3>3, <3>4 DEF ApplyPage, ProviderType, provider
  <2>8. CASE PageFails(r)
    BY <2>8, GotoType DEF PageFails, Fault, ProviderType, RowType, MailType, provider,
                          syncRow, mail
  <2>9. CASE Release(r)
    <3>1. RowType'
      BY <2>9 DEF Release, RowType
    <3> QED BY <2>9, <3>1, LeaveType DEF Release, ProviderType, MailType, provider, mail
  <2>10. CASE RunDies(r)
    BY <2>10, LeaveType DEF RunDies, Fault, ProviderType, RowType, MailType, provider,
                            syncRow, mail
  <2> QED BY <1>7, <2>1, <2>2, <2>3, <2>4, <2>5, <2>6, <2>7, <2>8, <2>9, <2>10 DEF RunStep
<1>8. CASE UNCHANGED vars
  BY <1>8 DEF vars, ProviderType, RowType, MailType, RunType, provider, syncRow, mail, locals
<1> QED BY <1>1, <1>2, <1>3, <1>4, <1>5, <1>6, <1>7, <1>8 DEF Next

-----------------------------------------------------------------------------
(* The provider's history. *)

\* Entries are recorded once and never change.
LEMMA FolderGrows ==
  ASSUME TypeOK, [Next]_vars
  PROVE  /\ head <= head' /\ head' \in Position
         /\ \A n \in 0 .. head : folder'[n] = folder[n]
<1>1. CASE UNCHANGED provider
  BY <1>1 DEF provider, TypeOK, ProviderType, Position
<1>2. CASE CursorsExpire
  BY <1>2 DEF CursorsExpire, TypeOK, ProviderType, Position
<1>3. ASSUME NEW m \in Msg, FolderChanges(m)
      PROVE  head' = head + 1 /\ head + 1 \in Position /\ \A n \in 0 .. head : folder'[n] = folder[n]
  BY <1>3, BoundsAreNaturals DEF FolderChanges, TypeOK, ProviderType, Position
<1>4. UNCHANGED provider \/ CursorsExpire \/ \E m \in Msg : FolderChanges(m)
  BY DEF Next, vars, Discover, RunQueued, Requested, ResultExpires, LeaseExpires, RunStep, Acquire,
         TooManyPages, Renew, FetchPage, CursorRejected, FetchFails, ApplyPage, PageFails,
         Release, RunDies
<1> QED BY <1>1, <1>2, <1>3, <1>4 DEF TypeOK, ProviderType, Position

\* The history stays consistent when a change is added to it.
LEMMA HistoryStep ==
  ASSUME TypeOK, [Next]_vars, NEW m \in Msg, HistoryOK(m)
  PROVE  HistoryOK(m)'
<1>1. CASE UNCHANGED <<head, folder>>
  BY <1>1 DEF HistoryOK
<1>2. ASSUME NEW k \in Msg, FolderChanges(k) PROVE HistoryOK(m)'
  <2>1. head' = head + 1 /\ head \in Nat
    BY <1>2 DEF FolderChanges, TypeOK, ProviderType, Position
  <2>2. \A n \in 0 .. head : folder'[n] = folder[n]
    BY FolderGrows
  <2>3. /\ folder'[head + 1][m].change = head + 1 \/ folder'[head + 1][m] = folder[head][m]
    <3>1. head + 1 \in Position
      BY <1>2, BoundsAreNaturals DEF FolderChanges, TypeOK, ProviderType, Position
    <3>2. PICK here \in BOOLEAN :
             folder' = [folder EXCEPT ![head + 1] =
                        [folder[head] EXCEPT ![k] = [change |-> head + 1, present |-> here]]]
      BY <1>2 DEF FolderChanges
    <3>3. folder'[head + 1] =
            [folder[head] EXCEPT ![k] = [change |-> head + 1, present |-> here]]
      BY <3>1, <3>2 DEF TypeOK, ProviderType
    <3>4. folder[head] \in [Msg -> Entry]
      BY DEF TypeOK, ProviderType
    <3> QED BY <3>3, <3>4
  <2>4. \A n \in 0 .. head : folder[n][m] \in Entry
    BY BoundsAreNaturals DEF TypeOK, ProviderType, Position
  <2>5. \A n \in 0 .. head :
          /\ folder[n][m].change <= n
          /\ \A i \in 0 .. n :
               /\ folder[i][m].change <= folder[n][m].change
               /\ folder[n][m].change <= i => folder[i][m] = folder[n][m]
    BY DEF HistoryOK
  <2>6. \A n \in 0 .. head : folder[n][m].change \in Nat
    BY <2>4 DEF Entry, Position
  <2> DEFINE Good(n) ==
          /\ folder'[n][m].change <= n
          /\ \A i \in 0 .. n :
               /\ folder'[i][m].change <= folder'[n][m].change
               /\ folder'[n][m].change <= i => folder'[i][m] = folder'[n][m]
  <2>7. \A n \in 0 .. head : Good(n)
    BY <2>1, <2>2, <2>5
  <2>8. Good(head + 1)
    <3>1. CASE folder'[head + 1][m].change = head + 1
      <4>1. \A i \in 0 .. head : folder'[i][m].change \in Nat /\ folder'[i][m].change <= i
        BY <2>2, <2>5, <2>6
      <4>2. \A i \in 0 .. head + 1 : i = head + 1 \/ (i \in 0 .. head /\ ~(head + 1 <= i))
        BY <2>1
      <4> QED BY <2>1, <3>1, <4>1, <4>2
    <3>2. CASE folder'[head + 1][m] = folder[head][m]
      BY <2>1, <2>2, <2>5, <2>6, <3>2
    <3> QED BY <2>3, <3>1, <3>2
  <2>9. \A n \in 0 .. head' : Good(n)
    BY <2>1, <2>7, <2>8
  <2> QED BY <2>9 DEF HistoryOK
<1>3. UNCHANGED <<head, folder>> \/ \E k \in Msg : FolderChanges(k)
  BY DEF Next, vars, CursorsExpire, Discover, RunQueued, Requested, ResultExpires, LeaseExpires, RunStep,
         Acquire, TooManyPages, Renew, FetchPage, CursorRejected, FetchFails, ApplyPage,
         PageFails, Release, RunDies, provider
<1> QED BY <1>1, <1>2, <1>3

-----------------------------------------------------------------------------
(* The page transaction. *)

\* The numbers of a message's change and of the positions are naturals.
LEMMA Numbers ==
  ASSUME TypeOK
  PROVE  /\ head \in Nat
         /\ \A n \in 0 .. head : n \in Position
         /\ \A n \in 0 .. head, m \in Msg : folder[n][m] \in Entry /\ folder[n][m].change \in Nat
         /\ \A m \in Msg : content[m] \in Nat /\ content[m] \in Position
         /\ token.pos \in Nat /\ \A r \in Run : cursor[r].pos \in Nat
         /\ \A r \in Run : page[r].to \in Nat /\ page[r].at \in Nat
         /\ latest \in Nat
<1>1. head \in Nat /\ \A n \in 0 .. head : n \in Position
  BY BoundsAreNaturals DEF TypeOK, ProviderType, Position
<1>2. \A n \in 0 .. head, m \in Msg : folder[n][m] \in Entry /\ folder[n][m].change \in Nat
  BY <1>1 DEF TypeOK, ProviderType, Entry, Position
<1>3. \A m \in Msg : content[m] \in Nat /\ content[m] \in Position
  BY DEF TypeOK, MailType, Position
<1>4. token.pos \in Nat
  BY DEF TypeOK, RowType, Cursor, Position
<1>5. \A r \in Run : cursor[r].pos \in Nat /\ page[r].to \in Nat /\ page[r].at \in Nat
  BY DEF TypeOK, RunType, Cursor, Page, Position
<1>6. latest \in Nat
  BY DEF TypeOK, MailType, Position
<1> QED BY <1>1, <1>2, <1>3, <1>4, <1>5, <1>6

\* Of all the steps only the page transaction touches the messages.
LEMMA MailChanges ==
  ASSUME [Next]_vars
  PROVE  UNCHANGED mail \/ \E r \in Run : ApplyPage(r)
  BY DEF Next, vars, FolderChanges, CursorsExpire, Discover, RunQueued, Requested, ResultExpires,
         LeaseExpires, RunStep, Acquire, TooManyPages, Renew, FetchPage, CursorRejected,
         FetchFails, PageFails, Release, RunDies

\* What a page transaction of a run that may commit leaves of each message.
LEMMA PageEffect ==
  ASSUME SyncInv, NEW r \in Run, ApplyPage(r), NEW m \in Msg, NEW a, a = page[r].at
  PROVE  /\ content'[m] >= content[m]
         /\ ContentOK(m)'
         /\ OnPage(r, m) => Shows(m, a)'
         /\ ~OnPage(r, m) => UNCHANGED <<content[m], member[m]>>
<1> DEFINE e == folder[page[r].at][m]
<1>1. /\ PageOK(r) /\ Holds(r) /\ HistoryOK(m) /\ ContentOK(m) /\ UNCHANGED <<head, folder>>
      /\ latest' = page[r].at
  BY DEF SyncInv, PageInv, FolderInv, ApplyPage, ProcessItems, provider
<1>2. /\ page[r].at \in 0 .. head /\ content[m] \in 0 .. page[r].at /\ content[m] \in 0 .. head
      /\ e.change \in Nat /\ e.present \in BOOLEAN
  BY <1>1, Numbers DEF PageOK, SyncInv, ContentOK, Entry
<1>3. content[m] <= e.change /\ e.change <= page[r].at /\ e.change \in 0 .. head
  BY <1>1, <1>2, Numbers DEF HistoryOK, ContentOK, SyncInv
<1>4. folder[e.change][m] = e
  BY <1>1, <1>2, <1>3 DEF HistoryOK
<1>5. /\ content'[m] = IF Arrives(r, m) THEN e.change ELSE content[m]
      /\ member'[m] = (Arrives(r, m) \/ (member[m] /\ ~Departs(r, m)))
  BY DEF ApplyPage, ProcessItems, Item
<1>6. Arrives(r, m) <=> OnPage(r, m) /\ e.present /\ (content[m] # e.change \/ ~member[m])
  BY DEF Arrives, Item
<1>7. Departs(r, m) <=> OnPage(r, m) /\ ~e.present /\ member[m]
  BY DEF Departs, Item
<1>8. content'[m] >= content[m] /\ ContentOK(m)'
  BY <1>1, <1>2, <1>3, <1>4, <1>5 DEF ContentOK
<1>9. ASSUME OnPage(r, m) PROVE Shows(m, a)'
  <2>1. IF e.present THEN member'[m] /\ content'[m] = e.change ELSE ~member'[m]
    <3>1. CASE e.present
      BY <1>5, <1>6, <1>7, <1>9, <3>1
    <3>2. CASE ~e.present
      BY <1>5, <1>6, <1>7, <1>9, <3>2
    <3> QED BY <3>1, <3>2
  <2>2. folder'[a][m] = e
    BY <1>1
  <2> QED BY <2>1, <2>2 DEF Shows
<1>10. ASSUME ~OnPage(r, m) PROVE UNCHANGED <<content[m], member[m]>>
  <2>1. member[m] \in BOOLEAN
    BY DEF SyncInv, TypeOK, MailType
  <2> QED BY <1>5, <1>6, <1>7, <1>10, <2>1
<1> QED BY <1>8, <1>9, <1>10

\* Covering a position survives every step, if no page applied so far was older.
LEMMA CoversKept ==
  ASSUME SyncInv, [Next]_vars, NEW p \in 0 .. latest, Covers(p)
  PROVE  Covers(p)'
<1> SUFFICES ASSUME NEW m \in Msg PROVE \E n \in p .. head' : Shows(m, n)'
  BY DEF Covers
<1>1. PICK n \in p .. head : Shows(m, n)
  BY DEF Covers
<1>2. n \in p .. head' /\ n \in 0 .. head /\ folder'[n] = folder[n] /\ head \in Nat
  BY <1>1, FolderGrows, Numbers, BoundsAreNaturals DEF SyncInv, Position
<1>3. CASE UNCHANGED mail
  BY <1>1, <1>2, <1>3 DEF Shows, mail
<1>4. ASSUME NEW r \in Run, ApplyPage(r) PROVE \E k \in p .. head' : Shows(m, k)'
  <2>1. CASE ~OnPage(r, m)
    <3>1. UNCHANGED <<content[m], member[m]>>
      BY <1>4, <2>1, PageEffect
    <3> QED BY <1>1, <1>2, <3>1 DEF Shows
  <2>2. CASE OnPage(r, m)
    <3>1. PICK a \in Nat : a = page[r].at
      BY Numbers DEF SyncInv
    <3>2. Shows(m, a)'
      BY <1>4, <2>2, <3>1, PageEffect
    <3>3. p <= a /\ a <= head /\ head' = head
      <4>1. latest <= a /\ a <= head /\ head' = head /\ latest \in Nat
        BY <1>4, <3>1, Numbers DEF ApplyPage, SyncInv, PageInv, PageOK, provider
      <4> QED BY <4>1
    <3> QED BY <1>2, <3>1, <3>2, <3>3
  <2> QED BY <2>1, <2>2
<1> QED BY <1>3, <1>4, MailChanges

\* After the page transaction everything up to the end of the page is there.
LEMMA PageCovers ==
  ASSUME SyncInv, NEW r \in Run, ApplyPage(r), NEW q \in 0 .. head, q = page[r].to
  PROVE  Covers(q)'
<1> SUFFICES ASSUME NEW m \in Msg PROVE \E n \in q .. head' : Shows(m, n)'
  BY DEF Covers
<1>1. PageOK(r) /\ Holds(r) /\ HistoryOK(m) /\ UNCHANGED <<head, folder>> /\ CursorOK(cursor[r])
  BY DEF SyncInv, PageInv, FolderInv, CursorInv, ApplyPage, provider
<1>2. /\ head \in Nat /\ q \in Nat /\ cursor[r].pos \in Nat /\ page[r].at \in Nat
      /\ cursor[r].pos <= q /\ q <= page[r].at /\ page[r].at <= head
  BY <1>1, Numbers DEF PageOK, SyncInv
<1>3. CASE OnPage(r, m)
  <2>1. PICK a \in Nat : a = page[r].at
    BY <1>2
  <2>2. Shows(m, a)'
    BY <1>3, <2>1, PageEffect
  <2> QED BY <1>1, <1>2, <2>1, <2>2
<1>4. CASE ~OnPage(r, m)
  <2>1. PICK n \in cursor[r].pos .. head : Shows(m, n)
    BY <1>1 DEF CursorOK, Covers
  <2>2. folder[q][m].change <= cursor[r].pos
    BY <1>2, <1>4, Numbers DEF OnPage, SyncInv
  <2>3. UNCHANGED <<content[m], member[m]>>
    BY <1>4, PageEffect
  <2>4. CASE n >= q
    BY <1>1, <2>1, <2>3, <2>4, <1>2 DEF Shows
  <2>5. CASE n < q
    <3>1. n \in 0 .. q /\ folder[q][m].change <= n
      BY <1>2, <2>1, <2>2, <2>5, Numbers DEF SyncInv
    <3>2. folder[n][m] = folder[q][m]
      BY <1>1, <1>2, <3>1 DEF HistoryOK
    <3>3. Shows(m, q)'
      BY <1>1, <2>1, <2>3, <3>2 DEF Shows
    <3> QED BY <1>1, <1>2, <3>3
  <2> QED BY <1>2, <2>1, <2>4, <2>5
<1> QED BY <1>3, <1>4

-----------------------------------------------------------------------------
(* The invariant. *)

\* A run's cursor changes to the stored one, to none, or with the stored one.
LEMMA CursorChanges ==
  ASSUME TypeOK, [Next]_vars
  PROVE  \/ token' = token /\ \A s \in Run : cursor'[s] \in {cursor[s], token, Start}
         \/ \E r \in Run : ApplyPage(r)
<1>1. CASE UNCHANGED <<token, cursor>>
  BY <1>1
<1>2. ASSUME NEW r \in Run, UNCHANGED token, Begin(r) \/ Leave(r)
      PROVE  token' = token /\ \A s \in Run : cursor'[s] \in {cursor[s], token, Start}
  BY <1>2 DEF Begin, Leave, TypeOK, RunType, locals
<1>3. ASSUME NEW r \in Run, RunStep(r)
      PROVE  UNCHANGED <<token, cursor>> \/ (UNCHANGED token /\ Leave(r)) \/ ApplyPage(r)
  BY <1>3 DEF RunStep, Acquire, TooManyPages, Renew, FetchPage, CursorRejected, FetchFails,
              PageFails, Release, RunDies, Goto, syncRow
<1>4. \/ UNCHANGED <<token, cursor>>
      \/ \E r \in Run : UNCHANGED token /\ Begin(r)
      \/ \E r \in Run : RunStep(r)
  BY DEF Next, vars, FolderChanges, CursorsExpire, Discover, RunQueued, Requested, ResultExpires,
         LeaseExpires, syncRow, locals
<1> QED BY <1>1, <1>2, <1>3, <1>4

\* No page that is applied is older than one applied before.
LEMMA LatestGrows ==
  ASSUME SyncInv, [Next]_vars
  PROVE  latest' \in Nat /\ latest <= latest' /\ latest' <= head'
<1>1. /\ latest \in Nat /\ head \in Nat /\ head' \in Nat /\ latest <= head /\ head <= head'
      /\ \A r \in Run : page[r].at \in Nat
  BY Numbers, FolderGrows, BoundsAreNaturals DEF SyncInv, FolderInv, Position
<1>2. CASE UNCHANGED mail
  BY <1>1, <1>2 DEF mail
<1>3. ASSUME NEW r \in Run, ApplyPage(r) PROVE latest' = page[r].at /\ latest <= latest' /\ latest' <= head
  BY <1>1, <1>3 DEF ApplyPage, ProcessItems, SyncInv, PageInv, PageOK
<1> QED BY <1>1, <1>2, <1>3, MailChanges

\* The stored cursor and the runs' copies of it stay covered.
LEMMA CursorStep ==
  ASSUME SyncInv, TypeOK', [Next]_vars
  PROVE  CursorInv'
<1>1. TypeOK /\ CursorInv /\ PageInv
  BY DEF SyncInv
<1>2. ASSUME NEW p \in Nat, p <= latest, Covers(p) PROVE p <= latest' /\ Covers(p)'
  <2>1. p \in 0 .. latest /\ latest \in Nat /\ latest' \in Nat /\ latest <= latest'
    BY <1>1, <1>2, Numbers, LatestGrows
  <2> QED BY <1>2, <2>1, CoversKept
<1>3. ASSUME NEW c, c = token \/ \E s \in Run : c = cursor[s] PROVE CursorOK(c)'
  <2>1. c.pos \in Nat /\ c.pos <= latest /\ Covers(c.pos)
    BY <1>1, <1>3, Numbers DEF CursorInv, CursorOK
  <2> QED BY <1>2, <2>1 DEF CursorOK
<1>4. CursorOK(Start)'
  <2>1. /\ head \in Nat /\ Start.pos = 0 /\ token.pos \in Nat /\ latest \in Nat
        /\ token.pos <= latest /\ latest <= head
    BY <1>1, Numbers DEF SyncInv, FolderInv, Start, CursorInv, CursorOK
  <2>2. Covers(0)
    BY <1>1, <2>1 DEF Covers, CursorInv, CursorOK
  <2> QED BY <1>2, <2>1, <2>2 DEF CursorOK
<1>5. CASE token' = token /\ \A s \in Run : cursor'[s] \in {cursor[s], token, Start}
  <2>1. CursorOK(token)'
    <3>1. PICK c : c = token
      OBVIOUS
    <3>2. CursorOK(c)'
      BY <1>3, <3>1
    <3> QED BY <1>5, <3>1, <3>2 DEF CursorOK
  <2>2. ASSUME NEW s \in Run PROVE CursorOK(cursor[s])'
    <3>1. PICK c : c = cursor'[s]
      OBVIOUS
    <3>2. CursorOK(c)'
      BY <1>3, <1>4, <1>5, <3>1
    <3> QED BY <3>1, <3>2 DEF CursorOK
  <2> QED BY <2>1, <2>2 DEF CursorInv
<1>6. ASSUME NEW r \in Run, ApplyPage(r) PROVE CursorInv'
  <2>1. PICK q \in 0 .. head : q = page[r].to
    BY <1>1, <1>6, Numbers DEF PageInv, PageOK, ApplyPage
  <2>2. Covers(q)' /\ q <= latest'
    <3>1. Covers(q)'
      BY <1>6, <2>1, PageCovers
    <3>2. latest' = page[r].at /\ page[r].to <= page[r].at
      BY <1>1, <1>6 DEF ApplyPage, ProcessItems, PageInv, PageOK
    <3> QED BY <2>1, <3>1, <3>2
  <2>3. token'.pos = q /\ cursor' = [cursor EXCEPT ![r] = token']
    BY <1>6, <2>1 DEF ApplyPage
  <2>4. CursorOK(token)'
    BY <2>2, <2>3 DEF CursorOK
  <2>5. ASSUME NEW s \in Run PROVE CursorOK(cursor[s])'
    <3>1. CASE s = r
      <4>1. cursor'[s] = token'
        BY <1>1, <2>3, <3>1 DEF TypeOK, RunType
      <4> QED BY <2>4, <4>1 DEF CursorOK
    <3>2. CASE s # r
      <4>1. PICK c : c = cursor[s]
        OBVIOUS
      <4>2. cursor'[s] = c
        BY <1>1, <2>3, <3>2, <4>1 DEF TypeOK, RunType
      <4>3. CursorOK(c)'
        BY <1>3, <4>1
      <4> QED BY <4>2, <4>3 DEF CursorOK
    <3> QED BY <3>1, <3>2
  <2> QED BY <2>4, <2>5 DEF CursorInv
<1> QED BY <1>1, <1>5, <1>6, CursorChanges

\* A run about to apply a page has just fetched it, or had it before; then nobody else
\* has applied one, or taken or given back its lease.
LEMMA AboutToApply ==
  ASSUME TypeOK, [Next]_vars, NEW r \in Run, pc'[r] = "apply"
  PROVE  \/ FetchPage(r)
         \/ /\ pc[r] = "apply"
            /\ page'[r] = page[r] /\ cursor'[r] = cursor[r]
            /\ Holds(r)' => Holds(r) /\ \A s \in Run : ~ApplyPage(s)
<1> DEFINE Same == /\ pc[r] = "apply"
                   /\ page'[r] = page[r] /\ cursor'[r] = cursor[r]
                   /\ Holds(r)' => Holds(r) /\ \A s \in Run : ~ApplyPage(s)
<1> USE RunsHaveHosts
<1>1. CASE UNCHANGED <<pc, cursor, page, owner, lease>>
  <2>1. \A s \in Run : ~ApplyPage(s)
    BY <1>1 DEF ApplyPage, TypeOK, RunType
  <2> QED BY <1>1, <2>1 DEF Holds
<1>2. ASSUME NEW s \in Run, Begin(s), UNCHANGED syncRow PROVE Same
  <2>1. s # r /\ pc[r] = "apply" /\ page'[r] = page[r] /\ cursor'[r] = cursor[r]
    BY <1>2 DEF Begin, TypeOK, RunType, locals
  <2>2. pc'[s] \in {"idle", "acquire"} /\ pc[s] = "idle" /\ \A k \in Run : k # s => pc'[k] = pc[k]
    BY <1>2 DEF Begin, TypeOK, RunType, locals
  <2>3. \A k \in Run : ~ApplyPage(k)
    BY <2>2 DEF ApplyPage, TypeOK, RunType
  <2> QED BY <1>2, <2>1, <2>3 DEF Holds, syncRow
<1>3. ASSUME NEW s \in Run, RunStep(s), s = r PROVE FetchPage(r)
  BY <1>3 DEF RunStep, Acquire, TooManyPages, Renew, CursorRejected, FetchFails, ApplyPage,
              PageFails, Release, RunDies, Goto, Leave, TypeOK, RunType
<1>4. ASSUME NEW s \in Run, RunStep(s), s # r PROVE Same
  <2>1. /\ pc[r] = "apply" /\ page'[r] = page[r] /\ cursor'[r] = cursor[r]
        /\ \A k \in Run : k # s => pc'[k] = pc[k]
    BY <1>4 DEF RunStep, Acquire, TooManyPages, Renew, FetchPage, CursorRejected, FetchFails,
                ApplyPage, PageFails, Release, RunDies, Goto, Leave, TypeOK, RunType
  <2>2. Holds(r)' => Holds(r) /\ lease = r /\ lease' = r
    BY <1>4 DEF RunStep, Acquire, TooManyPages, Renew, FetchPage, CursorRejected, FetchFails,
                ApplyPage, PageFails, Release, RunDies, syncRow, Holds
  <2>3. ASSUME Holds(r)', NEW k \in Run, ApplyPage(k) PROVE FALSE
    <3>1. k = r
      BY <2>2, <2>3 DEF ApplyPage, Holds
    <3>2. pc'[r] # "apply"
      BY <2>3, <3>1 DEF ApplyPage, TypeOK, RunType
    <3> QED BY <3>2
  <2> QED BY <2>1, <2>2, <2>3
<1>5. \/ UNCHANGED <<pc, cursor, page, owner, lease>>
      \/ \E s \in Run : Begin(s) /\ UNCHANGED syncRow
      \/ \E s \in Run : RunStep(s)
  BY DEF Next, vars, FolderChanges, CursorsExpire, Discover, RunQueued, Requested, ResultExpires,
         LeaseExpires, syncRow, locals
<1> QED BY <1>1, <1>2, <1>3, <1>4, <1>5

\* What a held page promises stays true.
LEMMA PageStep ==
  ASSUME SyncInv, [Next]_vars
  PROVE  PageInv'
<1>1. TypeOK /\ FolderInv /\ PageInv
  BY DEF SyncInv
<1> SUFFICES ASSUME NEW r \in Run, pc'[r] = "apply" PROVE PageOK(r)'
  BY DEF PageInv
<1>2. CASE FetchPage(r)
  <2>1. PICK to \in cursor[r].pos .. head, more \in BOOLEAN :
           page' = [page EXCEPT ![r] = [to |-> to, issued |-> period, at |-> head,
                                        more |-> more]]
    BY <1>2 DEF FetchPage
  <2>2. page'[r].to = to /\ page'[r].at = head
    BY <1>1, <2>1 DEF TypeOK, RunType
  <2>3. head' = head /\ cursor' = cursor /\ latest' = latest /\ latest <= head
    BY <1>1, <1>2 DEF FetchPage, FolderInv, provider, mail
  <2>4. head \in Nat /\ cursor[r].pos \in Nat
    BY <1>1, Numbers
  <2>5. cursor[r].pos <= to /\ to <= head
    BY <2>1, <2>4
  <2>6. /\ cursor'[r].pos <= page'[r].to /\ page'[r].to <= page'[r].at
        /\ page'[r].at <= head' /\ latest' <= page'[r].at
    BY <2>2, <2>3, <2>4, <2>5
  <2> QED BY <2>6 DEF PageOK
<1>3. CASE ~FetchPage(r)
  <2>1. /\ pc[r] = "apply" /\ page'[r] = page[r] /\ cursor'[r] = cursor[r]
        /\ Holds(r)' => Holds(r) /\ \A s \in Run : ~ApplyPage(s)
    BY <1>1, <1>3, AboutToApply
  <2>2. PageOK(r)
    BY <1>1, <2>1 DEF PageInv
  <2>3. cursor'[r].pos <= page'[r].to /\ page'[r].to <= page'[r].at /\ page'[r].at <= head'
    <3>1. head <= head' /\ head \in Nat /\ head' \in Nat /\ page[r].at \in Nat
      BY <1>1, FolderGrows, Numbers, BoundsAreNaturals DEF Position
    <3> QED BY <2>1, <2>2, <3>1 DEF PageOK
  <2>4. ASSUME Holds(r)' PROVE latest' <= page'[r].at
    <3>1. Holds(r) /\ UNCHANGED mail
      BY <2>1, <2>4, MailChanges
    <3> QED BY <2>1, <2>2, <3>1 DEF PageOK, mail
  <2> QED BY <2>3, <2>4 DEF PageOK
<1> QED BY <1>2, <1>3

\* The messages' fields still come from the folder's history, and only from its later part.
LEMMA ContentStep ==
  ASSUME SyncInv, [Next]_vars, NEW m \in Msg
  PROVE  ContentOK(m)' /\ content'[m] >= content[m]
<1>1. TypeOK /\ ContentOK(m) /\ content[m] \in Nat
  BY Numbers DEF SyncInv, FolderInv
<1>2. CASE UNCHANGED mail
  <2>1. content[m] \in 0 .. head
    BY <1>1, Numbers DEF SyncInv, FolderInv, ContentOK
  <2>2. folder'[content[m]] = folder[content[m]]
    BY <1>1, <2>1, FolderGrows
  <2> QED BY <1>1, <1>2, <2>2 DEF ContentOK, mail
<1>3. ASSUME NEW r \in Run, ApplyPage(r) PROVE ContentOK(m)' /\ content'[m] >= content[m]
  BY <1>3, PageEffect
<1> QED BY <1>2, <1>3, MailChanges

-----------------------------------------------------------------------------
(* Versions. *)

\* The changes of a message are finitely many, and later states have had no fewer.
LEMMA MoreChanges ==
  ASSUME NEW m \in Msg, NEW i \in Nat, NEW j \in i .. head, head \in Nat
  PROVE  /\ IsFiniteSet(Changes(m, i)) /\ IsFiniteSet(Changes(m, j))
         /\ Cardinality(Changes(m, i)) \in Nat /\ Cardinality(Changes(m, j)) \in Nat
         /\ Changes(m, i) \subseteq Changes(m, j)
         /\ Cardinality(Changes(m, i)) <= Cardinality(Changes(m, j))
<1>1. Changes(m, i) \subseteq Changes(m, j)
  BY DEF Changes
<1>2. IsFiniteSet(1 .. j) /\ Changes(m, j) \subseteq 1 .. j
  BY FS_Interval DEF Changes
<1>3. IsFiniteSet(Changes(m, j))
  BY <1>2, FS_Subset
<1> QED BY <1>1, <1>3, FS_Subset, FS_CardinalityType

\* What has been accounted for stays so as the folder changes.
LEMMA AccountedKept ==
  ASSUME SyncInv, [Next]_vars, UNCHANGED mail, NEW m \in Msg
  PROVE  Accounted(m)'
<1>1. PICK n \in 0 .. latest : Shows(m, n) /\ version[m] <= Cardinality(Changes(m, n))
  BY DEF SyncInv, VersionInv, Accounted
<1>2. latest \in Nat /\ head \in Nat /\ latest <= head /\ \A k \in 0 .. head : folder'[k] = folder[k]
  BY FolderGrows, Numbers DEF SyncInv, FolderInv
<1>3. n \in 0 .. head /\ \A k \in 1 .. n : k \in 0 .. head
  BY <1>1, <1>2
<1>4. Changes(m, n)' = Changes(m, n) /\ (Shows(m, n) <=> Shows(m, n)')
  BY <1>2, <1>3 DEF Changes, Shows, mail
<1>5. UNCHANGED <<version, latest>>
  BY DEF mail
<1>6. Shows(m, n)' /\ version'[m] <= Cardinality(Changes(m, n)')
  BY <1>1, <1>4, <1>5
<1> QED BY <1>1, <1>5, <1>6 DEF Accounted

\* A page transaction gives a message a version only if its rows showed a state older than
\* the message's last change on the page.
LEMMA AppliedIsAccounted ==
  ASSUME SyncInv, NEW r \in Run, ApplyPage(r), NEW m \in Msg
  PROVE  Accounted(m)'
<1>0. PICK a \in Nat : a = page[r].at
  BY Numbers DEF SyncInv
<1> DEFINE e == folder[a][m]
<1>1. /\ TypeOK /\ PageOK(r) /\ Holds(r) /\ HistoryOK(m) /\ Accounted(m)
      /\ head' = head /\ folder' = folder /\ latest' = a
  BY <1>0 DEF SyncInv, PageInv, FolderInv, VersionInv, ApplyPage, ProcessItems, provider
<1>2. PICK n \in 0 .. a : Shows(m, n) /\ version[m] <= Cardinality(Changes(m, n))
  <2>1. PICK k \in 0 .. latest : Shows(m, k) /\ version[m] <= Cardinality(Changes(m, k))
    BY <1>1 DEF Accounted
  <2>2. latest <= a /\ latest \in Nat
    BY <1>0, <1>1, Numbers DEF PageOK
  <2> QED BY <2>1, <2>2
<1>3. /\ head \in Nat /\ a \in Nat /\ a <= head /\ a \in 0 .. head /\ n \in 0 .. head /\ n \in Nat
      /\ e.change \in Nat /\ e.change <= a
  BY <1>0, <1>1, <1>2, Numbers DEF PageOK, HistoryOK
<1>4. version[m] \in Nat
  BY <1>1 DEF TypeOK, MailType
<1>5. /\ version'[m] = IF Arrives(r, m) \/ Departs(r, m) THEN version[m] + 1 ELSE version[m]
      /\ content'[m] = IF Arrives(r, m) THEN e.change ELSE content[m]
      /\ member'[m] = (Arrives(r, m) \/ (member[m] /\ ~Departs(r, m)))
  BY <1>0 DEF ApplyPage, ProcessItems, Item
<1>6. CASE ~Arrives(r, m) /\ ~Departs(r, m)
  <2>1. member[m] \in BOOLEAN
    BY <1>1 DEF TypeOK, MailType
  <2>2. content'[m] = content[m] /\ (member'[m] <=> member[m]) /\ version'[m] = version[m]
    BY <1>5, <1>6, <2>1
  <2>3. Shows(m, n)' /\ Changes(m, n)' = Changes(m, n)
    BY <1>1, <1>2, <2>2 DEF Shows, Changes
  <2> QED BY <1>1, <1>2, <1>3, <2>2, <2>3 DEF Accounted
<1>7. CASE Arrives(r, m) \/ Departs(r, m)
  <2>1. n < e.change
    <3> SUFFICES ASSUME e.change <= n PROVE FALSE
      BY <1>3
    <3>1. folder[n][m] = e
      BY <1>1, <1>2, <1>3 DEF HistoryOK
    <3>2. IF e.present THEN member[m] /\ content[m] = e.change ELSE ~member[m]
      BY <1>2, <3>1 DEF Shows
    <3>3. \/ e.present /\ (content[m] # e.change \/ ~member[m])
          \/ ~e.present /\ member[m]
      BY <1>0, <1>7 DEF Arrives, Departs, Item
    <3> QED BY <3>2, <3>3
  <2>2. folder[e.change][m] = e
    BY <1>1, <1>3 DEF HistoryOK
  <2>3. e.change \in Changes(m, a) /\ e.change \notin Changes(m, n)
    BY <1>3, <2>1, <2>2 DEF Changes
  <2> HIDE DEF e
  <2>4. /\ IsFiniteSet(Changes(m, n)) /\ Changes(m, n) \subseteq Changes(m, a)
        /\ Cardinality(Changes(m, n)) \in Nat
        /\ IsFiniteSet(Changes(m, a)) /\ Cardinality(Changes(m, a)) \in Nat
    BY <1>2, <1>3, MoreChanges
  <2>5. Cardinality(Changes(m, n) \cup {e.change}) = Cardinality(Changes(m, n)) + 1
    BY <2>3, <2>4, FS_AddElement
  <2>6. Cardinality(Changes(m, n) \cup {e.change}) <= Cardinality(Changes(m, a))
    BY <2>3, <2>4, FS_Subset
  <2>7. version'[m] <= Cardinality(Changes(m, a))
    BY <1>2, <1>4, <1>5, <1>7, <2>4, <2>5, <2>6
  <2>8. Shows(m, a)'
    <3>1. OnPage(r, m)
      BY <1>7 DEF Arrives, Departs
    <3> QED BY <1>0, <3>1, PageEffect
  <2>9. Changes(m, a)' = Changes(m, a)
    BY <1>1 DEF Changes
  <2> QED BY <1>1, <1>3, <2>7, <2>8, <2>9 DEF Accounted
<1> QED BY <1>6, <1>7

\* Versions stay accounted for.
LEMMA VersionStep ==
  ASSUME SyncInv, [Next]_vars
  PROVE  VersionInv'
  BY AccountedKept, AppliedIsAccounted, MailChanges DEF VersionInv

\* SyncInv holds at the start.
LEMMA InitInv == Init => SyncInv
<1> SUFFICES ASSUME Init PROVE SyncInv
  OBVIOUS
<1> DEFINE none == [change |-> 0, present |-> FALSE]
<1>1. TypeOK
  <2>1. none \in Entry /\ 0 \in Position
    BY BoundsAreNaturals DEF Entry, Position
  <2>2. [n \in Position |-> [m \in Msg |-> none]] \in [Position -> [Msg -> Entry]]
    BY <2>1
  <2>3. ProviderType
    BY <2>1, <2>2, BoundsAreNaturals DEF Init, ProviderType
  <2>4. RowType /\ MailType
    BY <2>1, Defaults DEF Init, RowType, MailType
  <2>5. RunType
    <3>1. 0 \in 0 .. MaxPages
      BY BoundsAreNaturals
    <3> QED BY <3>1, Defaults DEF Init, RunType
  <2> QED BY <2>3, <2>4, <2>5, BoundsAreNaturals DEF Init, TypeOK
<1>2. head = 0 /\ Start.pos = 0 /\ \A m \in Msg : folder[0][m] = none
  <2>1. folder[0] = [m \in Msg |-> none]
    BY BoundsAreNaturals DEF Init, Position
  <2> QED BY <2>1 DEF Init, Start
<1>3. ASSUME NEW m \in Msg PROVE HistoryOK(m) /\ ContentOK(m) /\ Shows(m, 0)
  <2>1. \A n \in 0 .. head : n = 0
    BY <1>2
  <2>2. folder[0][m].change = 0 /\ folder[0][m].present = FALSE
    BY <1>2
  <2>3. content[m] = 0 /\ member[m] = FALSE /\ latest = 0
    BY DEF Init
  <2>4. HistoryOK(m)
    BY <1>2, <2>1, <2>2 DEF HistoryOK
  <2>5. ContentOK(m) /\ Shows(m, 0)
    BY <1>2, <2>2, <2>3 DEF ContentOK, Shows
  <2> QED BY <2>4, <2>5
<1>4. latest = 0 /\ 0 \in 0 .. 0
  BY DEF Init
<1>5. CursorInv
  BY <1>2, <1>3, <1>4 DEF Init, CursorInv, CursorOK, Covers
<1>6. PageInv
  BY DEF Init, PageInv
<1>7. VersionInv
  <2>1. \A m \in Msg : Accounted(m)
    <3>1. \A m \in Msg : Changes(m, 0) = {} /\ version[m] = 0
      BY DEF Changes, Init
    <3>2. \A m \in Msg : version[m] <= Cardinality(Changes(m, 0))
      BY <3>1, FS_EmptySet
    <3> QED BY <1>3, <1>4, <3>2 DEF Accounted
  <2> QED BY <2>1 DEF Init, VersionInv
<1> QED BY <1>1, <1>2, <1>3, <1>4, <1>5, <1>6, <1>7 DEF SyncInv, FolderInv

\* SyncInv holds for ever: the conjunction of types, history, cursors, pages and versions that
\* the guarantees below rest on.
THEOREM SyncInvariant == Spec => []SyncInv
<1>1. SyncInv /\ [Next]_vars => SyncInv'
  <2> SUFFICES ASSUME SyncInv, [Next]_vars PROVE SyncInv'
    OBVIOUS
  <2>1. TypeOK'
    BY TypeStep DEF SyncInv
  <2>2. FolderInv'
    BY HistoryStep, ContentStep, LatestGrows DEF SyncInv, FolderInv
  <2>3. CursorInv'
    BY <2>1, CursorStep
  <2>4. PageInv'
    BY PageStep
  <2>5. VersionInv'
    BY VersionStep
  <2> QED BY <2>1, <2>2, <2>3, <2>4, <2>5 DEF SyncInv
<1> QED BY InitInv, <1>1, PTL DEF Spec

\* All variables keep to their types.
THEOREM TypeCorrect == Spec => []TypeOK
<1>1. SyncInv => TypeOK
  BY DEF SyncInv
<1> QED BY <1>1, SyncInvariant, PTL

\* The stored cursor of a folder never passes a change that is not in the database.
THEOREM NothingIsSkipped == Spec => []NothingSkipped
<1>1. SyncInv => NothingSkipped
  BY DEF SyncInv, CursorInv, CursorOK, NothingSkipped
<1> QED BY <1>1, SyncInvariant, PTL

\* Pages fetched again, whatever runs died, overran or overtook each other before, make no
\* versions and no events.
THEOREM ReplaysMakeNoVersions == Spec => []ReplaysAreSilent
<1>1. SyncInv => ReplaysAreSilent
  <2> SUFFICES ASSUME SyncInv, NEW m \in Msg PROVE version[m] <= Cardinality(Changes(m, head))
    BY DEF ReplaysAreSilent
  <2>1. PICK n \in 0 .. latest : version[m] <= Cardinality(Changes(m, n))
    BY DEF SyncInv, VersionInv, Accounted
  <2>2. head \in Nat /\ n \in Nat /\ head \in n .. head /\ version[m] \in Nat
    BY <2>1, Numbers DEF SyncInv, FolderInv, TypeOK, MailType
  <2>3. /\ Cardinality(Changes(m, n)) \in Nat /\ Cardinality(Changes(m, head)) \in Nat
        /\ Cardinality(Changes(m, n)) <= Cardinality(Changes(m, head))
    BY <2>2, MoreChanges
  <2> QED BY <2>1, <2>2, <2>3
<1> QED BY <1>1, SyncInvariant, PTL

\* No step of any run puts an older state of a message in the place of a newer one.
THEOREM MessagesNeverOlder == Spec => [][\A m \in Msg : content'[m] >= content[m]]_vars
<1>1. SyncInv /\ [Next]_vars => [\A m \in Msg : content'[m] >= content[m]]_vars
  BY ContentStep
<1> QED BY <1>1, SyncInvariant, PTL DEF Spec

-----------------------------------------------------------------------------
(* MailSync implements SyncPromise. *)

\* Only the provider's changes touch the folder, and only page transactions the rows and the
\* stored cursor.
LEMMA SeenFromOutside ==
  ASSUME TypeOK, [Next]_vars
  PROVE  \/ \E m \in Msg : FolderChanges(m)
         \/ \E r \in Run : ApplyPage(r)
         \/ UNCHANGED <<head, folder, mail, token>>
<1>1. (\E m \in Msg : FolderChanges(m)) \/ UNCHANGED <<head, folder>>
  BY DEF Next, vars, CursorsExpire, Discover, RunQueued, Requested, ResultExpires, LeaseExpires,
         RunStep, Acquire, TooManyPages, Renew, FetchPage, CursorRejected, FetchFails, ApplyPage,
         PageFails, Release, RunDies, provider
<1> QED BY <1>1, MailChanges, CursorChanges

\* The initial state is that of the promise.
LEMMA InitMaps == Init => Promise!Init
  BY DEF Init, Promise!Init, Position, Start

\* So is every change of the folder.
LEMMA ChangeMaps ==
  ASSUME NEW m \in Msg, FolderChanges(m)
  PROVE  \E here \in BOOLEAN : Promise!Change(m, here)
<1>1. PICK here \in BOOLEAN :
        /\ here \/ folder[head][m].present
        /\ folder' = [folder EXCEPT ![head + 1] =
                       [folder[head] EXCEPT ![m] = [change |-> head + 1, present |-> here]]]
  BY DEF FolderChanges
<1>2. /\ head < MaxChange /\ head' = head + 1
      /\ UNCHANGED <<content, member, version, latest, token>>
  BY DEF FolderChanges, mail, syncRow
<1>3. Promise!Change(m, here)
  BY <1>1, <1>2 DEF Promise!Change, Promise!rows
<1> QED BY <1>3

\* A page transaction refreshes the messages on its page, as of the moment it was fetched.
LEMMA PageMaps ==
  ASSUME SyncInv, CursorInv', NEW r \in Run, ApplyPage(r)
  PROVE  \E some \in SUBSET Msg, at \in 0 .. head : Promise!Refresh(some, at)
<1> DEFINE some == {m \in Msg : OnPage(r, m)}
<1>1. PICK at \in Nat : at = page[r].at
  BY Numbers DEF SyncInv
<1>2. /\ TypeOK /\ PageOK(r) /\ Holds(r) /\ UNCHANGED <<head, folder>> /\ latest' = at
      /\ token'.pos = page[r].to /\ ProcessItems(r)
  BY <1>1 DEF SyncInv, PageInv, ApplyPage, ProcessItems, provider
<1>3. /\ head \in Nat /\ latest \in Nat /\ page[r].to \in Nat
      /\ latest <= at /\ at <= head /\ page[r].to <= at
  BY <1>1, <1>2, Numbers DEF PageOK
<1>4. \A m \in Msg :
        /\ folder[at][m].present \in BOOLEAN /\ member[m] \in BOOLEAN
        /\ Item(r, m) = folder[at][m]
  <2>1. at \in 0 .. head
    BY <1>1, <1>3
  <2>2. \A m \in Msg : folder[at][m] \in Entry
    BY <1>2, <2>1, Numbers
  <2> QED BY <1>1, <1>2, <2>2 DEF Entry, Item, TypeOK, MailType
<1>5. /\ content' = [m \in Msg |-> IF Arrives(r, m) THEN Item(r, m).change ELSE content[m]]
      /\ member' = [m \in Msg |-> Arrives(r, m) \/ (member[m] /\ ~Departs(r, m))]
      /\ version' = [m \in Msg |-> IF Arrives(r, m) \/ Departs(r, m) THEN version[m] + 1
                                                                    ELSE version[m]]
  BY <1>2 DEF ProcessItems
<1>6. ASSUME NEW m \in Msg
      PROVE  /\ content'[m] = IF m \in some /\ folder[at][m].present
                                THEN folder[at][m].change ELSE content[m]
             /\ member'[m] = IF m \in some THEN folder[at][m].present ELSE member[m]
             /\ version'[m] = IF content'[m] # content[m] \/ member'[m] # member[m]
                                THEN version[m] + 1 ELSE version[m]
  <2> DEFINE e == folder[at][m]
  <2>1. /\ Arrives(r, m) <=> m \in some /\ e.present /\ (content[m] # e.change \/ ~member[m])
        /\ Departs(r, m) <=> m \in some /\ ~e.present /\ member[m]
        /\ e.present \in BOOLEAN /\ member[m] \in BOOLEAN
    BY <1>4 DEF Arrives, Departs
  <2>2. /\ content'[m] = IF Arrives(r, m) THEN e.change ELSE content[m]
        /\ member'[m] = (Arrives(r, m) \/ (member[m] /\ ~Departs(r, m)))
        /\ version'[m] = IF Arrives(r, m) \/ Departs(r, m) THEN version[m] + 1 ELSE version[m]
    BY <1>4, <1>5
  <2> HIDE DEF e, some
  <2>3. content'[m] = IF m \in some /\ e.present THEN e.change ELSE content[m]
    BY <2>1, <2>2
  <2>4. member'[m] = IF m \in some THEN e.present ELSE member[m]
    BY <2>1, <2>2
  <2>5. content'[m] # content[m] \/ member'[m] # member[m] <=> Arrives(r, m) \/ Departs(r, m)
    BY <2>1, <2>2
  <2>6. version'[m] = IF content'[m] # content[m] \/ member'[m] # member[m]
                        THEN version[m] + 1 ELSE version[m]
    BY <2>2, <2>5
  <2> QED BY <2>3, <2>4, <2>6 DEF e
<1>7. /\ content' = [m \in Msg |-> IF m \in some /\ folder[at][m].present
                                     THEN folder[at][m].change ELSE content[m]]
      /\ member' = [m \in Msg |-> IF m \in some THEN folder[at][m].present ELSE member[m]]
      /\ version' = [m \in Msg |-> IF content'[m] # content[m] \/ member'[m] # member[m]
                                     THEN version[m] + 1 ELSE version[m]]
  <2> HIDE DEF some
  <2>1. /\ content' = [m \in Msg |-> content'[m]]
        /\ member' = [m \in Msg |-> member'[m]]
        /\ version' = [m \in Msg |-> version'[m]]
    BY <1>5
  <2> QED BY <1>6, <2>1
<1>8. \A m \in Msg : \E n \in token'.pos .. head : Promise!Show(m, folder[n][m])'
  <2>1. \A m \in Msg : \E n \in token'.pos .. head : Shows(m, n)'
    BY <1>2 DEF CursorInv, CursorOK, Covers
  <2>2. \A m \in Msg, n \in token'.pos .. head : Shows(m, n)' => Promise!Show(m, folder[n][m])'
    BY DEF Shows, Promise!Show
  <2> QED BY <2>1, <2>2
<1>9. at \in latest .. head /\ at \in 0 .. head /\ token'.pos \in 0 .. at
  BY <1>2, <1>3
<1>10. Promise!Refresh(some, at)
  <2> HIDE DEF some
  <2> QED BY <1>2, <1>7, <1>8, <1>9 DEF Promise!Refresh
<1> QED BY <1>9, <1>10

\* Synchronisation keeps its promise: whatever runs overlap, die, overrun or fail, the rows of
\* a folder go through snapshots of it, never back, each in one step with its cursor and with
\* one event for every message it changes.
THEOREM SyncKeepsPromise == Spec => RowsFollowFolder
<1>1. SyncInv /\ SyncInv' /\ [Next]_vars =>
        [Promise!Next]_<<head, folder, <<content, member, version, latest>>, token.pos>>
  <2> SUFFICES ASSUME SyncInv, SyncInv', [Next]_vars
               PROVE  \/ Promise!Next
                      \/ UNCHANGED <<head, folder, content, member, version, latest, token.pos>>
    OBVIOUS
  <2>1. ASSUME NEW m \in Msg, FolderChanges(m) PROVE Promise!Next
    BY <2>1, ChangeMaps DEF Promise!Next
  <2>2. ASSUME NEW r \in Run, ApplyPage(r) PROVE Promise!Next
    BY <2>2, PageMaps DEF Promise!Next, SyncInv
  <2>3. CASE UNCHANGED <<head, folder, mail, token>>
    BY <2>3 DEF mail
  <2> QED BY <2>1, <2>2, <2>3, SeenFromOutside DEF SyncInv
<1> QED BY <1>1, InitMaps, SyncInvariant, PTL
        DEF Spec, RowsFollowFolder, Promise!Spec, Promise!vars, Promise!rows
=============================================================================
