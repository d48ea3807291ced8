--------------------------- MODULE MailSearch_proofs ---------------------------
(***************************************************************************)
(* Proofs about MailSearch: pages put together make the list, for any      *)
(* messages, page size, plans and number of changes.                       *)
(***************************************************************************)
EXTENDS MailSearch, SequenceTheorems, FiniteSetTheorems, TLAPS

(* Sort keys. *)

\* The sort values of n sort clauses.
Key(n) == {k \in Seq(Int) : Len(k) = n}
Width(req) == IF req.text THEN 3 ELSE 2

\* No key is before itself, and before is transitive (the sort of a search, search_after).
LEMMA BeforeIsStrict ==
  ASSUME NEW n \in Nat, NEW k \in Key(n)
  PROVE  ~Before(k, k)
  BY DEF Before, Key

\* Before is transitive.
LEMMA BeforeIsTransitive ==
  ASSUME NEW n \in Nat, NEW k \in Key(n), NEW l \in Key(n), NEW p \in Key(n),
         Before(k, l), Before(l, p)
  PROVE  Before(k, p)
  <1>1. /\ DOMAIN k = 1 .. n /\ DOMAIN l = 1 .. n
        /\ \A i \in 1 .. n : k[i] \in Int /\ l[i] \in Int /\ p[i] \in Int
    BY DEF Key
  <1>2. PICK a \in 1 .. n : k[a] > l[a] /\ \A j \in 1 .. a - 1 : k[j] = l[j]
    BY <1>1 DEF Before
  <1>3. PICK b \in 1 .. n : l[b] > p[b] /\ \A j \in 1 .. b - 1 : l[j] = p[j]
    BY <1>1 DEF Before
  <1>4. CASE a <= b
    <2>1. k[a] > p[a]
      <3>1. CASE a = b
        BY <1>1, <1>2, <1>3, <3>1
      <3>2. CASE a < b
        <4>1. l[a] = p[a]
          BY <1>2, <1>3, <3>2
        <4> QED BY <1>2, <4>1
      <3> QED BY <1>2, <1>3, <1>4, <3>1, <3>2
    <2>2. \A j \in 1 .. a - 1 : k[j] = p[j]
      BY <1>2, <1>3, <1>4
    <2> QED BY <1>1, <1>2, <2>1, <2>2 DEF Before
  <1>5. CASE b < a
    <2>1. k[b] = l[b]
      BY <1>2, <1>3, <1>5
    <2>2. k[b] > p[b]
      BY <1>3, <2>1
    <2>3. \A j \in 1 .. b - 1 : k[j] = p[j]
      BY <1>2, <1>3, <1>5
    <2> QED BY <1>1, <1>3, <2>2, <2>3 DEF Before
  <1> QED BY <1>2, <1>3, <1>4, <1>5

\* Of two keys that differ in the tiebreaker, one is before the other.
LEMMA BeforeIsTotal ==
  ASSUME NEW n \in {2, 3}, NEW k \in Key(n), NEW l \in Key(n), k[n] # l[n]
  PROVE  Before(k, l) \/ Before(l, k)
  <1>1. /\ DOMAIN k = 1 .. n /\ DOMAIN l = 1 .. n
        /\ \A i \in 1 .. n : k[i] \in Int /\ l[i] \in Int
    BY DEF Key
  <1>2. CASE k[1] # l[1]
    BY <1>1, <1>2 DEF Before
  <1>3. CASE k[1] = l[1] /\ k[2] # l[2]
    <2>1. \A j \in 1 .. 2 - 1 : k[j] = l[j]
      BY <1>3
    <2>2. 2 \in 1 .. n
      OBVIOUS
    <2> QED BY <1>1, <1>3, <2>1, <2>2 DEF Before
  <1>4. CASE k[1] = l[1] /\ k[2] = l[2]
    <2>1. n = 3
      BY <1>4
    <2>2. \A j \in 1 .. 3 - 1 : k[j] = l[j]
      BY <1>4
    <2> QED BY <1>1, <2>1, <2>2 DEF Before
  <1> QED BY <1>2, <1>3, <1>4

\* Moments and scores are numbers, so that what a hit is sorted by is a key of the request's
\* width, with the message's id last.
LEMMA KeyShape ==
  ASSUME ReadingInv, NEW req, req.text \in BOOLEAN, NEW vector \in BOOLEAN, NEW m \in Message
  PROVE  /\ SortKey(req, vector, m) \in Key(Width(req))
         /\ SortKey(req, vector, m)[Width(req)] = Id[m]
  <1> DEFINE s == Score(req, vector, m)
  <1>1. s \in Int
    <2>1. m \in Mentions => score[m] \in Int
      BY DEF ReadingInv
    <2>2. Near[m] \in Int
      BY NumbersAreNatural
    <2> QED BY <2>1, <2>2 DEF Score
  <1>2. Received(m) \in Int /\ Id[m] \in Int
    BY NumbersAreNatural, MomentsAreLate DEF ReadingInv, Received, Day
  <1> HIDE DEF s
  <1>3. CASE req.text
    <2>1. SortKey(req, vector, m) = <<s>> \o <<Received(m), Id[m]>>
      BY <1>3 DEF SortKey, s
    <2> DEFINE first == <<s>>
               rest  == <<Received(m), Id[m]>>
               key   == first \o rest
    <2>2. /\ first \in Seq(Int) /\ Len(first) = 1 /\ first[1] = s
          /\ rest \in Seq(Int) /\ Len(rest) = 2 /\ rest[1] = Received(m) /\ rest[2] = Id[m]
      BY <1>1, <1>2
    <2> HIDE DEF first, rest
    <2>3. /\ key \in Seq(Int) /\ Len(key) = Len(first) + Len(rest)
          /\ \A i \in 1 .. Len(first) + Len(rest) :
               key[i] = IF i <= Len(first) THEN first[i] ELSE rest[i - Len(first)]
      BY <2>2, ConcatProperties
    <2> HIDE DEF key
    <2>4. Len(key) = 3 /\ key[3] = Id[m]
      BY <2>2, <2>3
    <2> QED BY <1>3, <2>1, <2>3, <2>4 DEF Key, Width, key, first, rest
  <1>4. CASE ~req.text
    <2>1. SortKey(req, vector, m) = <<>> \o <<Received(m), Id[m]>>
      BY <1>4 DEF SortKey
    <2>2. SortKey(req, vector, m) = <<Received(m), Id[m]>>
      BY <1>2, <2>1
    <2> QED BY <1>2, <1>4, <2>2 DEF Key, Width
  <1> QED BY <1>3, <1>4

-----------------------------------------------------------------------------
(* Pages. *)

\* What a search finds are messages.
LEMMA HitsAreMessages ==
  ASSUME ReadingInv, NEW req, NEW vector
  PROVE  Hits(req, vector) \subseteq Message
  <1>1. Filtered(req) \subseteq Message
    BY DEF ReadingInv, Filtered
  <1>2. Neighbours(req, vector) \subseteq Filtered(req)
    BY DEF Neighbours, Nearest
  <1> QED BY <1>1, <1>2 DEF Hits

\* A page that is not empty has a last hit: one with the fewest hits of the page behind it.
LEMMA PageHasLast ==
  ASSUME ReadingInv, NEW req, req.text \in BOOLEAN, NEW vector \in BOOLEAN,
         NEW page \in SUBSET Message, page # {}
  PROVE  \E m \in page : \A n \in page :
           ~Before(SortKey(req, vector, m), SortKey(req, vector, n))
  <1> DEFINE key(m)   == SortKey(req, vector, m)
             Behind(m) == {n \in page : Before(key(m), key(n))}
             behinds  == {Behind(m) : m \in page}
  <1>1. IsFiniteSet(page)
    BY MessagesAreFinite, FS_Subset
  <1>2. FiniteSubsetsOf(page) = SUBSET page
    BY <1>1, FS_FiniteSubsetsOfFinite
  <1>3. IsWellFoundedOn(StrictSubsetOrdering(page), SUBSET page)
    BY <1>2, FS_StrictSubsetOrderingWellFounded
  <1>4. behinds \subseteq SUBSET page /\ behinds # {}
    OBVIOUS
  <1> HIDE DEF behinds
  <1>5. \E x \in behinds : \A y \in behinds : ~(<<y, x>> \in StrictSubsetOrdering(page))
    BY <1>3, <1>4, WFMin
  <1>6. PICK m \in page : \A n \in page : ~(<<Behind(n), Behind(m)>> \in StrictSubsetOrdering(page))
    BY <1>5 DEF behinds
  <1>7. \A n \in page : key(n) \in Key(Width(req))
    BY KeyShape
  <1>8. Width(req) \in Nat
    BY DEF Width
  <1>9. ASSUME NEW n \in page, Before(key(m), key(n)) PROVE FALSE
    <2>1. Behind(n) \subseteq Behind(m)
      <3> SUFFICES ASSUME NEW l \in page, Before(key(n), key(l)) PROVE Before(key(m), key(l))
        OBVIOUS
      <3> HIDE DEF key
      <3> QED BY <1>7, <1>8, <1>9, BeforeIsTransitive
    <2>2. n \in Behind(m)
      BY <1>9
    <2>3. n \notin Behind(n)
      <3> HIDE DEF key
      <3>1. ~Before(key(n), key(n))
        BY <1>7, <1>8, BeforeIsStrict
      <3> QED BY <3>1
    <2>4. Behind(n) \in SUBSET page /\ Behind(m) \in SUBSET page
      OBVIOUS
    <2> HIDE DEF Behind
    <2> QED BY <1>6, <2>1, <2>2, <2>3, <2>4 DEF StrictSubsetOrdering
  <1> QED BY <1>9

\* The cursor of a full page is the sort of a hit that no other hit of the page is behind.
LEMMA CursorIsLast ==
  ASSUME ReadingInv, NEW req, req.text \in BOOLEAN, NEW vector \in BOOLEAN,
         NEW page \in SUBSET Message, Cardinality(page) = PageSize
  PROVE  \E last \in page :
           /\ NextCursor(req, vector, page) = SortKey(req, vector, last)
           /\ \A n \in page : ~Before(SortKey(req, vector, last), SortKey(req, vector, n))
  <1>1. page # {}
    BY FS_EmptySet, NumbersAreNatural
  <1>2. \E m \in page : \A n \in page :
           ~Before(SortKey(req, vector, m), SortKey(req, vector, n))
    BY <1>1, PageHasLast
  <1> QED BY <1>2 DEF NextCursor

\* A cursor fits the request it came with.
LEMMA CursorShape ==
  ASSUME ReadingInv, NEW req, req.text \in BOOLEAN, NEW vector \in BOOLEAN,
         NEW page \in SUBSET Message
  PROVE  LET c == NextCursor(req, vector, page)
         IN  /\ c \in Seq(Int) /\ Fits(req, c)
             /\ c = <<>> <=> Cardinality(page) # PageSize
  <1>1. CASE Cardinality(page) # PageSize
    <2>1. NextCursor(req, vector, page) = <<>>
      BY <1>1 DEF NextCursor
    <2> QED BY <1>1, <2>1 DEF Fits
  <1>2. CASE Cardinality(page) = PageSize
    <2>1. PICK last \in page : NextCursor(req, vector, page) = SortKey(req, vector, last)
      BY <1>2, CursorIsLast
    <2>2. SortKey(req, vector, last) \in Key(Width(req))
      BY <2>1, KeyShape
    <2> QED BY <1>2, <2>1, <2>2 DEF Key, Width, Fits
  <1> QED BY <1>1, <1>2

\* A page keeps the types and leaves a cursor that fits.
LEMMA AnswerKeepsReading ==
  ASSUME ReadingInv, NEW req, req.text \in BOOLEAN, req.mode \in Modes, NEW vector \in BOOLEAN,
         NEW rest \in SUBSET Hits(req, vector), NEW late \in BOOLEAN,
         Answer(req, vector, rest, late)
  PROVE  ReadingInv'
  <1>1. PICK page \in PagesOf(req, vector, rest) :
          /\ cursor' = NextCursor(req, vector, page)
          /\ stage' = IF cursor' = <<>> THEN "ended" ELSE "more"
          /\ shown' = shown \cup page
          /\ twice' = twice \cup (shown \cap page)
          /\ lasting' = IF stage = "first" THEN Hits(req, vector) ELSE lasting
          /\ partial' = (partial \/ late)
          /\ ask' = req
          /\ UNCHANGED <<clock, index, natural>>
    BY DEF Answer
  <1>2. Hits(req, vector) \subseteq Message /\ page \subseteq Message
    BY HitsAreMessages DEF PagesOf
  <1>3. cursor' \in Seq(Int) /\ Fits(req, cursor')
    BY <1>1, <1>2, CursorShape
  <1>4. partial' \in BOOLEAN /\ stage' \in {"more", "ended"}
    BY <1>1 DEF ReadingInv
  <1>5. Fits(ask, cursor)'
    BY <1>1, <1>3 DEF Fits
  <1>6. /\ shown' \subseteq Message /\ twice' \subseteq shown' /\ lasting' \subseteq Message
    BY <1>1, <1>2 DEF ReadingInv
  <1> QED BY <1>1, <1>3, <1>4, <1>5, <1>6 DEF ReadingInv, clock, index

\* What a plan is turned into is a request.
LEMMA RequestsAreRequests ==
  ASSUME NEW plan \in Plans
  PROVE  Requested(plan).text \in BOOLEAN /\ Requested(plan).mode \in Modes
  BY PlansArePlans DEF PlanType, Requested, ModeOf, Modes

\* What is behind the cursor is among the hits.
LEMMA HitsFollow ==
  ASSUME NEW req, NEW vector
  PROVE  Rest(req, vector, cursor) \in SUBSET Hits(req, vector)
  BY DEF Rest

\* Every step keeps the types and the shape of the cursor.
LEMMA ReadingStep == ReadingInv /\ [Next]_vars => ReadingInv'
  <1> SUFFICES ASSUME ReadingInv, [Next]_vars PROVE ReadingInv'
    OBVIOUS
  <1>1. ASSUME NEW req, req.text \in BOOLEAN, req.mode \in Modes, Searches(req)
        PROVE  ReadingInv'
    <2>1. MayHaveVector(req) \in BOOLEAN
      BY <1>1 DEF MayHaveVector
    <2>2. PICK vector \in BOOLEAN :
            LET rest == Rest(req, vector, cursor) IN
            \/ Answer(req, vector, rest, FALSE)
            \/ \E found \in SUBSET rest : found # rest /\ Answer(req, vector, found, TRUE)
      BY <1>1, <2>1 DEF Searches
    <2>3. PICK rest \in SUBSET Hits(req, vector), late \in BOOLEAN :
            Answer(req, vector, rest, late)
      BY <2>2, HitsFollow
    <2> QED BY <1>1, <2>3, AnswerKeepsReading
  <1>2. CASE SearchMail
    BY <1>1, <1>2 DEF SearchMail, ReadingInv
  <1>3. ASSUME NEW plan \in Plans, SearchNatural(plan) PROVE ReadingInv'
    <2>1. CASE Refused
      BY <2>1, <1>3 DEF Refused, SearchNatural, ReadingInv, clock, index, Fits
    <2>2. CASE Searches(Requested(plan))
      BY <1>1, <2>2, RequestsAreRequests
    <2> QED BY <1>3, <2>1, <2>2 DEF SearchNatural
  <1>4. CASE IndexChanges
    <2>1. matching' \subseteq Message /\ vectors' \subseteq Message
      BY <1>4 DEF IndexChanges, ReadingInv
    <2>2. changes' \in 0 .. MaxChanges
      BY <1>4, NumbersAreNatural DEF IndexChanges, ReadingInv
    <2>3. lasting' \subseteq Message /\ score' \in [Mentions -> 1 .. 2]
      BY <1>4 DEF IndexChanges, ReadingInv
    <2> QED BY <1>4, <2>1, <2>2, <2>3 DEF IndexChanges, ReadingInv, clock, Fits
  <1>5. CASE Midnight
    <2>1. changes' \in 0 .. MaxChanges
      BY <1>5, NumbersAreNatural DEF Midnight, ReadingInv
    <2>2. now' \in Nat /\ now' >= start'
      BY <1>5, MomentsAreLate DEF Midnight, ReadingInv, Day
    <2> QED BY <1>5, <2>1, <2>2 DEF Midnight, ReadingInv, reading, Fits
  <1>6. CASE UNCHANGED vars
    BY <1>6 DEF vars, clock, index, reading, ReadingInv, Fits
  <1> QED BY <1>2, <1>3, <1>4, <1>5, <1>6 DEF Next

-----------------------------------------------------------------------------
(* The list. *)

\* A set of at most one ranking has no two.
LEMMA AtMostOne ==
  ASSUME NEW S, IsFiniteSet(S), Cardinality(S) <= 1, NEW x \in S, NEW y \in S
  PROVE  x = y
  <1> SUFFICES ASSUME x # y PROVE FALSE
    OBVIOUS
  <1>1. IsFiniteSet({x}) /\ Cardinality({x}) = 1
    BY FS_Singleton
  <1>2. IsFiniteSet({x} \cup {y}) /\ Cardinality({x} \cup {y}) = 2
    <2> DEFINE T == {x}
    <2>1. IsFiniteSet(T) /\ Cardinality(T) = 1 /\ y \notin T
      BY <1>1
    <2> HIDE DEF T
    <2>2. IsFiniteSet(T \cup {y}) /\ Cardinality(T \cup {y}) = 2
      BY <2>1, FS_AddElement
    <2> QED BY <2>2 DEF T
  <1>3. Cardinality({x} \cup {y}) <= Cardinality(S) /\ Cardinality(S) \in Nat
    BY FS_Subset, FS_CardinalityType
  <1> QED BY <1>2, <1>3

\* Searches that are ranked alike sort alike, and find the same.
LEMMA SameRanking ==
  ASSUME NEW req, req.text \in BOOLEAN, NEW v \in BOOLEAN, NEW w \in BOOLEAN,
         Ranking(req, v) = Ranking(req, w)
  PROVE  /\ Hits(req, v) = Hits(req, w)
         /\ \A m : SortKey(req, v, m) = SortKey(req, w, m)
  <1>1. CASE req.text
    BY <1>1 DEF Ranking
  <1>2. CASE ~req.text
    <2>1. ~TextRequired(req, v) /\ ~TextRequired(req, w)
      BY <1>2 DEF TextRequired
    <2>2. /\ Neighbours(req, v) \subseteq Filtered(req)
          /\ Neighbours(req, w) \subseteq Filtered(req)
      BY DEF Neighbours, Nearest
    <2>3. Hits(req, v) = Filtered(req) /\ Hits(req, w) = Filtered(req)
      BY <2>1, <2>2 DEF Hits
    <2>4. \A m : SortKey(req, v, m) = SortKey(req, w, m)
      BY <1>2 DEF SortKey
    <2> QED BY <2>3, <2>4
  <1> QED BY <1>1, <1>2

\* The index as it is, and the moment the reading began, are all a search depends on.
LEMMA SameIndex ==
  ASSUME UNCHANGED <<start, index>>, NEW req, NEW vector
  PROVE  /\ Hits(req, vector)' = Hits(req, vector)
         /\ Ranking(req, vector)' = Ranking(req, vector)
         /\ \A m : SortKey(req, vector, m)' = SortKey(req, vector, m)
  <1>1. Filtered(req)' = Filtered(req)
    BY DEF Filtered, Received, index
  <1>2. Neighbours(req, vector)' = Neighbours(req, vector)
    BY <1>1 DEF Neighbours, Nearest, index
  <1>3. Hits(req, vector)' = Hits(req, vector)
    BY <1>1, <1>2 DEF Hits, TextRequired
  <1>4. Ranking(req, vector)' = Ranking(req, vector)
    BY DEF Ranking, index
  <1>5. \A m : Score(req, vector, m)' = Score(req, vector, m)
    BY <1>2 DEF Score, TextRequired, index
  <1>6. \A m : SortKey(req, vector, m)' = SortKey(req, vector, m)
    BY <1>5 DEF SortKey, Received
  <1> QED BY <1>3, <1>4, <1>6

\* Nothing is left behind between two pages: what a full page leaves out comes after its last.
LEMMA LastPartsTheRest ==
  ASSUME ReadingInv, NEW req, req.text \in BOOLEAN, NEW vector \in BOOLEAN,
         NEW rest \in SUBSET Message, NEW page \in PagesOf(req, vector, rest),
         NEW last \in page, NEW m \in rest \ page
  PROVE  Before(SortKey(req, vector, last), SortKey(req, vector, m))
  <1>1. page \subseteq rest
    BY DEF PagesOf
  <1>2. ~Before(SortKey(req, vector, m), SortKey(req, vector, last))
    BY DEF PagesOf
  <1>3. /\ SortKey(req, vector, m) \in Key(Width(req))
        /\ SortKey(req, vector, last) \in Key(Width(req))
        /\ SortKey(req, vector, m)[Width(req)] # SortKey(req, vector, last)[Width(req)]
    <2>1. Id[m] # Id[last]
      BY <1>1, IdsDiffer
    <2> QED BY <1>1, <2>1, KeyShape
  <1>4. Width(req) \in {2, 3}
    BY DEF Width
  <1> QED BY <1>2, <1>3, <1>4, BeforeIsTotal

\* A page that has no next one is all that was left.
LEMMA LastPageIsAll ==
  ASSUME NEW req, NEW vector, NEW rest, NEW page \in PagesOf(req, vector, rest),
         Cardinality(page) # PageSize
  PROVE  page = rest
  BY DEF PagesOf

\* The first page parts the results, and so does every further one of the same ranking.
LEMMA PagePartsResults ==
  ASSUME SearchInv, stage \in {"first", "more"},
         NEW req, req.text \in BOOLEAN, NEW vector \in BOOLEAN,
         NEW rest, rest = Rest(req, vector, cursor), NEW page \in PagesOf(req, vector, rest),
         stage = "more" => ask = req /\ Parted(vector),
         NEW seen, seen = shown \cup page,
         NEW owed, owed = IF stage = "first" THEN Hits(req, vector) ELSE lasting,
         NEW c, c = NextCursor(req, vector, page)
  PROVE  /\ shown \cap page = {}
         /\ owed \subseteq Hits(req, vector)
         /\ Cardinality(page) # PageSize => owed \subseteq seen
         /\ Cardinality(page) = PageSize =>
              /\ \A m \in seen : ~Before(c, SortKey(req, vector, m))
              /\ \A m \in owed : m \in seen \/ Before(c, SortKey(req, vector, m))
  <1> DEFINE key(m) == SortKey(req, vector, m)
  <1>1. /\ Hits(req, vector) \subseteq Message /\ rest \subseteq Hits(req, vector)
        /\ page \subseteq rest /\ shown \subseteq Message
    BY HitsAreMessages, HitsFollow DEF PagesOf, SearchInv, ReadingInv
  <1>2. \A m \in Message : key(m) \in Key(Width(req))
    BY KeyShape DEF SearchInv
  <1>3. Width(req) \in Nat
    BY DEF Width
  <1>4. owed \subseteq Hits(req, vector)
    BY DEF Parted, SearchInv, ListInv
  <1>5. \A m \in owed : m \in shown \/ m \in rest
    <2>1. CASE stage = "first"
      BY <2>1 DEF SearchInv, ReadingInv, Rest
    <2>2. CASE stage = "more"
      BY <1>4, <2>2 DEF Parted, Rest
    <2> QED BY <2>1, <2>2
  <1>6. shown \cap page = {}
    <2>1. CASE stage = "first"
      BY <2>1 DEF SearchInv, ListInv
    <2>2. CASE stage = "more"
      BY <1>1, <2>2 DEF Parted, Rest, SearchInv, ReadingInv
    <2> QED BY <2>1, <2>2
  <1>7. Cardinality(page) # PageSize => owed \subseteq seen
    BY <1>5, LastPageIsAll
  <1>8. ASSUME Cardinality(page) = PageSize
        PROVE  /\ \A m \in seen : ~Before(c, key(m))
               /\ \A m \in owed : m \in seen \/ Before(c, key(m))
    <2>1. PICK last \in page : c = key(last) /\ \A n \in page : ~Before(key(last), key(n))
      BY <1>1, <1>8, CursorIsLast DEF SearchInv
    <2>2. ASSUME NEW m \in shown, Before(c, key(m)) PROVE FALSE
      <3>1. stage = "more"
        BY <2>2 DEF SearchInv, ListInv
      <3>2. Before(cursor, key(last)) /\ ~Before(cursor, key(m))
        BY <1>1, <2>1, <3>1 DEF Parted, Rest, SearchInv, ReadingInv
      <3>3. cursor \in Key(Width(req))
        BY <3>1 DEF SearchInv, ReadingInv, Fits, Key, Width
      <3>4. key(last) \in Key(Width(req)) /\ key(m) \in Key(Width(req))
        BY <1>1, <1>2, <2>1
      <3> HIDE DEF key
      <3> QED BY <1>3, <2>1, <2>2, <3>2, <3>3, <3>4, BeforeIsTransitive
    <2>3. ASSUME NEW m \in owed, m \notin seen PROVE Before(c, key(m))
      <3>1. m \in rest \ page
        BY <1>5, <2>3
      <3> QED BY <1>1, <2>1, <3>1, LastPartsTheRest DEF SearchInv
    <2> QED BY <2>1, <2>2, <2>3
  <1> QED BY <1>4, <1>6, <1>7, <1>8

\* A page keeps ListInv.
LEMMA AnswerKeepsList ==
  ASSUME SearchInv, ReadingInv', stage \in {"first", "more"},
         NEW req, req.text \in BOOLEAN, NEW vector \in BOOLEAN,
         NEW rest \in SUBSET Hits(req, vector), NEW late \in BOOLEAN,
         ~late => rest = Rest(req, vector, cursor),
         Answer(req, vector, rest, late)
  PROVE  ListInv'
  <1> DEFINE rk == Ranking(req, vector)
  <1>1. PICK page \in PagesOf(req, vector, rest) :
          /\ cursor' = NextCursor(req, vector, page)
          /\ stage' = IF cursor' = <<>> THEN "ended" ELSE "more"
          /\ shown' = shown \cup page
          /\ twice' = twice \cup (shown \cap page)
          /\ lasting' = IF stage = "first" THEN Hits(req, vector) ELSE lasting
          /\ rankings' = rankings \cup {rk}
          /\ partial' = (partial \/ late)
          /\ ask' = req
          /\ UNCHANGED <<clock, index, natural>>
    BY DEF Answer
  <1>2. UNCHANGED <<start, index>> /\ changes' = changes /\ changes \in Nat
    BY <1>1, NumbersAreNatural DEF clock, index, SearchInv, ReadingInv
  <1>3. rk.ask = req /\ rk.edition \in 0 .. changes
    BY <1>2 DEF Ranking
  <1>4. page \in SUBSET Message /\ stage' \in {"ended", "more"}
    BY <1>1, HitsAreMessages DEF PagesOf, SearchInv
  <1> HIDE DEF rk
  <1>5. IsFiniteSet(rankings')
    BY <1>1, FS_AddElement DEF SearchInv, ListInv
  <1>6. (\A x \in rankings : x.edition \in 0 .. changes)'
    BY <1>1, <1>2, <1>3 DEF SearchInv, ListInv
  <1>7. (\E x \in rankings : x.ask = ask)' /\ (stage # "first")'
    BY <1>1, <1>3, <1>4
  <1>8. ASSUME Alike'
        PROVE  /\ twice' = {}
               /\ stage' = "ended" => lasting' \subseteq shown'
               /\ stage' = "more" =>
                    \A v \in BOOLEAN : Ranking(ask, v)' \in rankings' => Parted(v)'
    <2>1. ~partial /\ ~late
      BY <1>1, <1>8 DEF Alike, SearchInv, ReadingInv
    <2>2. Alike /\ \A x \in rankings : x = rk
      BY <1>1, <1>8, <2>1 DEF Alike
    <2>3. stage = "more" => ask = req /\ Parted(vector)
      <3> SUFFICES ASSUME stage = "more" PROVE ask = req /\ Parted(vector)
        OBVIOUS
      <3>1. rk \in rankings /\ rk.ask = ask
        BY <2>2 DEF SearchInv, ListInv
      <3> QED BY <1>3, <2>2, <3>1 DEF SearchInv, ListInv, rk
    <2>4. rest = Rest(req, vector, cursor)
      BY <2>1
    <2>5. PICK owed : owed = IF stage = "first" THEN Hits(req, vector) ELSE lasting
      OBVIOUS
    <2>6. PICK seen : seen = shown \cup page
      OBVIOUS
    <2>7. PICK c : c = NextCursor(req, vector, page)
      OBVIOUS
    <2>8. /\ shown \cap page = {}
          /\ owed \subseteq Hits(req, vector)
          /\ Cardinality(page) # PageSize => owed \subseteq seen
          /\ Cardinality(page) = PageSize =>
               /\ \A m \in seen : ~Before(c, SortKey(req, vector, m))
               /\ \A m \in owed : m \in seen \/ Before(c, SortKey(req, vector, m))
      <3>1. stage \in {"first", "more"} /\ SearchInv /\ page \in PagesOf(req, vector, rest)
        OBVIOUS
      <3> QED BY <2>3, <2>4, <2>5, <2>6, <2>7, <3>1, PagePartsResults
    <2>9. lasting' = owed /\ shown' = seen /\ cursor' = c /\ ask' = req
      BY <1>1, <2>5, <2>6, <2>7
    <2>10. stage' = "ended" <=> Cardinality(page) # PageSize
      <3>1. NextCursor(req, vector, page) = <<>> <=> Cardinality(page) # PageSize
        BY <1>4, CursorShape DEF SearchInv
      <3> QED BY <1>1, <3>1
    <2>11. twice' = {}
      BY <1>1, <2>2, <2>8 DEF SearchInv, ListInv
    <2>12. ASSUME stage' = "more", NEW v \in BOOLEAN, Ranking(ask, v)' \in rankings'
           PROVE  Parted(v)'
      <3>1. Ranking(ask, v)' = Ranking(req, v)
        BY <1>2, <2>9, SameIndex DEF Ranking
      <3>2. Ranking(req, v) = Ranking(req, vector)
        BY <1>1, <2>2, <2>12, <3>1 DEF rk
      <3>3. Hits(req, v) = Hits(req, vector) /\ \A m : SortKey(req, v, m) = SortKey(req, vector, m)
        BY <3>2, SameRanking
      <3>4. Hits(req, v)' = Hits(req, v) /\ \A m : SortKey(req, v, m)' = SortKey(req, v, m)
        BY <1>2, SameIndex
      <3>5. PICK w : w = req
        OBVIOUS
      <3>6. /\ lasting' \subseteq Hits(w, v)'
            /\ \A m \in shown' : ~Before(cursor', SortKey(w, v, m)')
            /\ \A m \in lasting' : m \in shown' \/ Before(cursor', SortKey(w, v, m)')
        BY <2>8, <2>9, <2>10, <2>12, <3>3, <3>4, <3>5
      <3>7. ask' = w
        BY <2>9, <3>5
      <3> QED BY <3>6, <3>7 DEF Parted
    <2> QED BY <2>8, <2>9, <2>10, <2>11, <2>12
  <1> QED BY <1>5, <1>6, <1>7, <1>8 DEF ListInv

\* By date the list stays the same while the index changes; by score it is another list.
LEMMA ChangesKeepParted ==
  ASSUME SearchInv, UNCHANGED <<start, ask, shown, cursor, rankings>>, changes' = changes + 1,
         lasting' \subseteq lasting, lasting' \cap matching \subseteq matching', NEW v \in BOOLEAN,
         Ranking(ask, v) \in rankings => Parted(v),
         Ranking(ask, v)' \in rankings'
  PROVE  Parted(v)'
  <1>1. ~ask.text
    <2> SUFFICES ASSUME ask.text PROVE FALSE
      OBVIOUS
    <2>1. Ranking(ask, v)'.edition = changes + 1
      BY DEF Ranking
    <2>2. changes \in Nat
      BY NumbersAreNatural DEF SearchInv, ReadingInv
    <2> QED BY <2>1, <2>2 DEF SearchInv, ListInv
  <1>2. Ranking(ask, v)' = Ranking(ask, v)
    BY <1>1 DEF Ranking
  <1>3. Parted(v)
    BY <1>2
  <1>4. Hits(ask, v) = Filtered(ask) /\ Hits(ask, v)' = Filtered(ask)'
    BY <1>1 DEF Hits, Neighbours, Nearest, TextRequired
  <1>5. lasting' \subseteq Filtered(ask)'
    BY <1>3, <1>4 DEF Parted, Filtered, Received
  <1>6. \A m : SortKey(ask, v, m)' = SortKey(ask, v, m)
    BY <1>1 DEF SortKey, Received
  <1> QED BY <1>3, <1>4, <1>5, <1>6 DEF Parted

\* What happens between two pages keeps ListInv.
LEMMA ChangesKeepList ==
  ASSUME SearchInv, stage \in {"first", "more"}, changes' = changes + 1,
         UNCHANGED <<start, ask, stage, cursor, shown, twice, rankings, partial>>,
         lasting' \subseteq lasting, lasting' \cap matching \subseteq matching'
  PROVE  ListInv'
  <1>1. (\A x \in rankings : x.edition \in 0 .. changes)'
    BY NumbersAreNatural DEF SearchInv, ReadingInv, ListInv
  <1>2. ASSUME stage = "more", Alike, NEW v \in BOOLEAN, Ranking(ask, v)' \in rankings'
        PROVE  Parted(v)'
    BY <1>2, ChangesKeepParted DEF SearchInv, ListInv
  <1>3. Alike' <=> Alike
    BY DEF Alike
  <1> QED BY <1>1, <1>2, <1>3 DEF SearchInv, ListInv

\* Every step keeps the list of the pages.
LEMMA ListStep == SearchInv /\ ReadingInv' /\ [Next]_vars => ListInv'
  <1> SUFFICES ASSUME SearchInv, ReadingInv', [Next]_vars PROVE ListInv'
    OBVIOUS
  <1>1. ASSUME NEW req, req.text \in BOOLEAN, stage \in {"first", "more"}, Searches(req)
        PROVE  ListInv'
    <2>1. MayHaveVector(req) \in BOOLEAN
      BY <1>1 DEF MayHaveVector
    <2>2. PICK vector \in BOOLEAN :
            LET rest == Rest(req, vector, cursor) IN
            \/ Answer(req, vector, rest, FALSE)
            \/ \E found \in SUBSET rest : found # rest /\ Answer(req, vector, found, TRUE)
      BY <1>1, <2>1 DEF Searches
    <2>3. PICK rest \in SUBSET Hits(req, vector), late \in BOOLEAN :
            /\ ~late => rest = Rest(req, vector, cursor)
            /\ Answer(req, vector, rest, late)
      BY <2>2, HitsFollow
    <2> QED BY <1>1, <2>3, AnswerKeepsList
  <1>2. CASE SearchMail
    BY <1>1, <1>2 DEF SearchMail, SearchInv, ReadingInv
  <1>3. ASSUME NEW plan \in Plans, SearchNatural(plan) PROVE ListInv'
    <2>1. CASE Refused
      BY <2>1 DEF Refused, SearchInv, ListInv, Alike, clock, index
    <2>2. CASE Searches(Requested(plan))
      BY <1>1, <1>3, <2>2, RequestsAreRequests DEF SearchNatural
    <2> QED BY <1>3, <2>1, <2>2 DEF SearchNatural
  <1>4. CASE IndexChanges
    <2>1. lasting' \subseteq lasting /\ lasting' \cap matching \subseteq matching'
      BY <1>4 DEF IndexChanges
    <2> QED BY <1>4, <2>1, ChangesKeepList DEF IndexChanges, clock
  <1>5. CASE Midnight
    <2>1. /\ changes' = changes + 1 /\ lasting' = lasting /\ matching' = matching
          /\ UNCHANGED <<start, ask, stage, cursor, shown, twice, rankings, partial>>
          /\ stage \in {"first", "more"}
      BY <1>5 DEF Midnight, reading
    <2> QED BY <2>1, ChangesKeepList
  <1>6. CASE UNCHANGED vars
    <2>1. UNCHANGED <<start, index, reading>>
      BY <1>6 DEF vars, clock
    <2>2. PICK req : req = ask
      OBVIOUS
    <2>3. ask' = req
      BY <2>1, <2>2 DEF reading
    <2>4. \A v \in BOOLEAN : /\ Ranking(req, v)' = Ranking(req, v)
                              /\ Hits(req, v)' = Hits(req, v)
                              /\ \A m : SortKey(req, v, m)' = SortKey(req, v, m)
      BY <2>1, SameIndex
    <2>5. \A v \in BOOLEAN : Ranking(ask, v)' = Ranking(ask, v)
      BY <2>2, <2>3, <2>4 DEF Ranking
    <2>6. ASSUME NEW v \in BOOLEAN, Parted(v) PROVE Parted(v)'
      <3>1. /\ lasting' \subseteq Hits(req, v)'
            /\ \A m \in shown' : ~Before(cursor', SortKey(req, v, m)')
            /\ \A m \in lasting' : m \in shown' \/ Before(cursor', SortKey(req, v, m)')
        BY <2>1, <2>2, <2>4, <2>6 DEF Parted, reading
      <3> QED BY <2>3, <3>1 DEF Parted
    <2>7. UNCHANGED <<stage, twice, lasting, shown, rankings, partial, ask, changes>>
      BY <2>1 DEF reading, index
    <2> QED BY <2>5, <2>6, <2>7 DEF SearchInv, ListInv, Alike
  <1> QED BY <1>2, <1>3, <1>4, <1>5, <1>6 DEF Next

\* A reading that has not begun has shown nothing.
LEMMA SearchInvInitially == Init => SearchInv
  <1> SUFFICES ASSUME Init PROVE SearchInv
    OBVIOUS
  <1>1. start \in Starts /\ now = start /\ start \in Nat /\ zone \in Zones
    BY MomentsAreLate DEF Init
  <1>2. ask.text \in BOOLEAN /\ ask.mode \in Modes
    BY DEF Init
  <1>3. score \in [Mentions -> 1 .. 2] /\ changes \in 0 .. MaxChanges
    BY NumbersAreNatural DEF Init
  <1>4. cursor \in Seq(Int) /\ Fits(ask, cursor)
    BY DEF Init, Fits
  <1>5. /\ matching \subseteq Message /\ vectors \subseteq Message
        /\ natural \in BOOLEAN /\ stage = "first" /\ cursor = <<>> /\ partial = FALSE
        /\ shown = {} /\ twice = {} /\ lasting = {} /\ rankings = {}
    BY DEF Init
  <1>6. now \in Nat /\ now >= start
    BY <1>1
  <1>7. ReadingInv
    BY <1>1, <1>2, <1>3, <1>4, <1>5, <1>6 DEF ReadingInv
  <1>8. ListInv
    BY <1>5, FS_EmptySet DEF ListInv
  <1> QED BY <1>7, <1>8 DEF SearchInv
-----------------------------------------------------------------------------
(* The calendar. *)

\* The days before a year, and those before a month of a year.
YearStart(q) == 365 * q + (q + 1) \div 4
Leap(q) == (q + 2022) % 4 = 0
Offset == <<0, 31, 59, 90, 120, 151, 181, 212, 243, 273, 304, 334>>
InYear(q, k) == Offset[k + 1] + IF k >= 2 /\ Leap(q) THEN 1 ELSE 0

\* A month is one of the twelve of a year.
LEMMA MonthInYear ==
  ASSUME NEW q \in Int, NEW k \in 0 .. 11
  PROVE  (12 * q + k) \div 12 = q /\ (12 * q + k) % 12 = k
  OBVIOUS

\* Every month is one of a year.
LEMMA EveryMonth ==
  ASSUME NEW i \in Nat
  PROVE  \E q \in Nat, k \in 0 .. 11 : i = 12 * q + k
  <1>1. i \div 12 \in Nat /\ i - 12 * (i \div 12) \in 0 .. 11
    OBVIOUS
  <1> QED BY <1>1

\* The days before a month in a common year.
LEMMA Offsets ==
  /\ Offset[1] = 0 /\ Offset[2] = 31 /\ Offset[3] = 59 /\ Offset[4] = 90 /\ Offset[5] = 120
  /\ Offset[6] = 151 /\ Offset[7] = 181 /\ Offset[8] = 212 /\ Offset[9] = 243
  /\ Offset[10] = 273 /\ Offset[11] = 304 /\ Offset[12] = 334
  BY DEF Offset

\* The first day of a month, by its year and its place in it.
LEMMA FirstDayIs ==
  ASSUME NEW q \in Int, NEW k \in 0 .. 11, NEW i, i = 12 * q + k
  PROVE  FirstDay(i) = YearStart(q) + InYear(q, k)
  <1>1. i \div 12 = q /\ i % 12 = k
    BY MonthInYear
  <1>2. Year(i) = 2022 + q
    BY <1>1 DEF Year, FirstYear
  <1>3. (2022 + q - 1) \div 4 - (2022 - 1) \div 4 = (q + 1) \div 4
    OBVIOUS
  <1> QED BY <1>1, <1>2, <1>3, Offsets DEF FirstDay, YearStart, InYear, Leap, Offset, IsLeap, FirstYear

\* A year has 365 days, or 366.
LEMMA YearLength ==
  ASSUME NEW q \in Int
  PROVE  /\ YearStart(q + 1) - YearStart(q) = IF Leap(q) THEN 366 ELSE 365
         /\ YearStart(q) \in Int /\ YearStart(q + 1) \in Int
  BY DEF YearStart, Leap

\* Later years begin later.
LEMMA YearsGrow ==
  ASSUME NEW p \in Nat, NEW q \in Nat, p < q
  PROVE  YearStart(p + 1) <= YearStart(q) /\ 365 * q <= YearStart(q) /\ YearStart(q) <= 366 * q
  BY DEF YearStart

\* A month has 28 to 31 days, and lies in its year.
LEMMA MonthLength ==
  ASSUME NEW q \in Nat, NEW k \in 0 .. 11, NEW i, i = 12 * q + k, NEW j, j = i + 1
  PROVE  /\ FirstDay(i) \in Nat /\ FirstDay(j) \in Nat
         /\ FirstDay(j) - FirstDay(i) \in 28 .. 31
         /\ YearStart(q) <= FirstDay(i) /\ FirstDay(j) <= YearStart(q + 1)
         /\ 28 * i <= FirstDay(i) /\ FirstDay(j) <= 31 * j
  <1>0. q \in Int
    OBVIOUS
  <1>1. FirstDay(i) = YearStart(q) + InYear(q, k)
    BY <1>0, FirstDayIs, Zenon
  <1>2. FirstDay(j) = IF k = 11 THEN YearStart(q + 1) ELSE YearStart(q) + InYear(q, k + 1)
    <2>1. CASE k = 11
      <3>1. j = 12 * (q + 1) + 0 /\ q + 1 \in Int /\ 0 \in 0 .. 11
        BY <2>1
      <3>2. FirstDay(j) = YearStart(q + 1) + InYear(q + 1, 0)
        BY <3>1, FirstDayIs, Zenon
      <3>3. InYear(q + 1, 0) = 0
        BY Offsets DEF InYear
      <3> QED BY <2>1, <3>2, <3>3, YearLength
    <2>2. CASE k # 11
      <3>1. j = 12 * q + (k + 1) /\ k + 1 \in 0 .. 11 /\ q \in Int
        BY <2>2
      <3>2. FirstDay(j) = YearStart(q) + InYear(q, k + 1)
        BY <3>1, FirstDayIs
      <3> QED BY <2>2, <3>2
    <2> QED BY <2>1, <2>2
  <1>3. YearStart(q + 1) - YearStart(q) = IF Leap(q) THEN 366 ELSE 365
    BY YearLength
  <1>4. 365 * q <= YearStart(q) /\ 4 * YearStart(q) <= 1461 * q + 1 /\ YearStart(q) \in Nat
    BY DEF YearStart
  <1>5. /\ InYear(q, k) \in Nat /\ InYear(q, k) >= 28 * k /\ InYear(q, k) <= 31 * k
        /\ IF k = 11 THEN (IF Leap(q) THEN 366 ELSE 365) - InYear(q, k) = 31
           ELSE InYear(q, k + 1) \in Nat /\ InYear(q, k + 1) - InYear(q, k) \in 28 .. 31
    BY Offsets DEF InYear
  <1>6. YearStart(q + 1) \in Int
    BY <1>0, YearLength
  <1> HIDE DEF Leap
  <1>7. FirstDay(i) \in Nat /\ FirstDay(j) \in Nat /\ FirstDay(j) - FirstDay(i) \in 28 .. 31
    <2>1. CASE k = 11
      BY <1>1, <1>2, <1>3, <1>4, <1>5, <1>6, <2>1
    <2>2. CASE k # 11
      BY <1>1, <1>2, <1>3, <1>4, <1>5, <1>6, <2>2
    <2> QED BY <2>1, <2>2
  <1>8. YearStart(q) <= FirstDay(i) /\ 28 * i <= FirstDay(i)
    BY <1>1, <1>4, <1>5
  <1>9. FirstDay(j) <= YearStart(q + 1) /\ FirstDay(j) <= 31 * j
    <2>1. CASE k = 11
      BY <1>1, <1>2, <1>3, <1>4, <1>5, <1>6, <2>1
    <2>2. CASE k # 11
      BY <1>1, <1>2, <1>3, <1>4, <1>5, <1>6, <2>2
    <2> QED BY <2>1, <2>2
  <1> QED BY <1>7, <1>8, <1>9

\* The same for a month by its number.
LEMMA MonthSpan ==
  ASSUME NEW i \in Nat
  PROVE  /\ FirstDay(i) \in Nat /\ FirstDay(i + 1) \in Nat
         /\ FirstDay(i + 1) - FirstDay(i) \in 28 .. 31
         /\ 28 * i <= FirstDay(i) /\ FirstDay(i + 1) <= 31 * (i + 1)
  <1>1. PICK q \in Nat, k \in 0 .. 11 : i = 12 * q + k
    BY EveryMonth
  <1>2. PICK j \in Nat : j = i + 1
    OBVIOUS
  <1>3. /\ FirstDay(i) \in Nat /\ FirstDay(j) \in Nat
        /\ FirstDay(j) - FirstDay(i) \in 28 .. 31
        /\ 28 * i <= FirstDay(i) /\ FirstDay(j) <= 31 * j
    BY <1>1, <1>2, MonthLength, Zenon
  <1> QED BY <1>2, <1>3

\* A month ends before a later one begins.
LEMMA MonthsGrow ==
  ASSUME NEW i \in Nat, NEW j \in Nat, i < j
  PROVE  FirstDay(i + 1) <= FirstDay(j)
  <1>1. PICK q \in Nat, k \in 0 .. 11 : i = 12 * q + k
    BY EveryMonth
  <1>2. PICK p \in Nat, l \in 0 .. 11 : j = 12 * p + l
    BY EveryMonth
  <1>3. PICK n \in Nat : n = i + 1
    OBVIOUS
  <1>4. PICK o \in Nat : o = j + 1
    OBVIOUS
  <1>5. FirstDay(n) <= YearStart(q + 1) /\ FirstDay(n) \in Nat
    BY <1>1, <1>3, MonthLength, Zenon
  <1>6. YearStart(p) <= FirstDay(j) /\ FirstDay(j) \in Nat
    BY <1>2, <1>4, MonthLength, Zenon
  <1>7. CASE q < p
    <2>1. YearStart(q + 1) <= YearStart(p)
      BY <1>7, YearsGrow
    <2>2. YearStart(q + 1) \in Int /\ YearStart(p) \in Int
      BY DEF YearStart
    <2> QED BY <1>3, <1>5, <1>6, <2>1, <2>2
  <1>8. CASE q = p
    <2>1. k < l /\ k + 1 \in 0 .. 11 /\ n = 12 * q + (k + 1) /\ q \in Int
      BY <1>1, <1>2, <1>3, <1>8
    <2>2. FirstDay(n) = YearStart(q) + InYear(q, k + 1)
      BY <2>1, FirstDayIs, Zenon
    <2>3. FirstDay(j) = YearStart(q) + InYear(q, l)
      BY <1>2, <1>8, <2>1, FirstDayIs, Zenon
    <2>4. InYear(q, k + 1) \in Nat /\ InYear(q, l) \in Nat /\ InYear(q, k + 1) <= InYear(q, l)
      BY <2>1, Offsets DEF InYear
    <2>5. YearStart(q) \in Int
      BY DEF YearStart
    <2> QED BY <1>3, <2>2, <2>3, <2>4, <2>5
  <1>9. ~(p < q)
    BY <1>1, <1>2
  <1> QED BY <1>7, <1>8, <1>9

\* Every day is in a month: the first to end after the day.
LEMMA MonthExists ==
  ASSUME NEW d \in Nat
  PROVE  \E i \in Nat : FirstDay(i) <= d /\ d < FirstDay(i + 1)
  <1> DEFINE later == {i \in Nat : d < FirstDay(i + 1)}
  <1>1. d \in later
    BY MonthSpan
  <1>2. \E i \in later : \A j \in later : ~(<<j, i>> \in OpToRel(<, Nat))
    <2>1. later \subseteq Nat /\ later # {}
      BY <1>1
    <2> HIDE DEF later
    <2> QED BY <2>1, NatLessThanWellFounded, WFMin
  <1>3. PICK i \in later : \A j \in later : ~(j < i)
    BY <1>2 DEF OpToRel
  <1>4. CASE i = 0
    <2>1. FirstDay(0) = 0
      <3>1. 0 \in Int /\ 0 \in 0 .. 11 /\ 0 = 12 * 0 + 0
        OBVIOUS
      <3>2. FirstDay(0) = YearStart(0) + InYear(0, 0)
        BY <3>1, FirstDayIs, Zenon
      <3> QED BY <3>2, Offsets DEF YearStart, InYear
    <2> QED BY <1>3, <1>4, <2>1
  <1>5. CASE i # 0
    <2>1. PICK j \in Nat : j + 1 = i
      BY <1>5
    <2>2. ~(d < FirstDay(i))
      BY <1>3, <2>1
    <2> QED BY <1>3, <2>2, MonthSpan
  <1> QED BY <1>4, <1>5

\* The month of a day is the one it lies in.
LEMMA MonthOfIs ==
  ASSUME NEW d \in Nat, NEW i \in Nat, FirstDay(i) <= d, d < FirstDay(i + 1)
  PROVE  MonthOf(d) = i
  <1>1. 28 * i <= d /\ d < 31 * (i + 1)
    <2>1. /\ FirstDay(i) \in Nat /\ FirstDay(i + 1) \in Nat
          /\ 28 * i <= FirstDay(i) /\ FirstDay(i + 1) <= 31 * (i + 1)
      BY MonthSpan
    <2> QED BY <2>1
  <1>2. i \in d \div 31 .. d \div 28
    BY <1>1
  <1>3. ASSUME NEW j \in d \div 31 .. d \div 28, FirstDay(j) <= d, d < FirstDay(j + 1)
        PROVE  j = i
    <2>1. j \in Nat
      OBVIOUS
    <2>2. /\ FirstDay(i) \in Nat /\ FirstDay(i + 1) \in Nat
          /\ FirstDay(j) \in Nat /\ FirstDay(j + 1) \in Nat
      BY <2>1, MonthSpan
    <2>3. ~(i < j) /\ ~(j < i)
      BY <1>3, <2>1, <2>2, MonthsGrow
    <2> QED BY <2>1, <2>3
  <1>4. MonthOf(d) \in d \div 31 .. d \div 28
        /\ FirstDay(MonthOf(d)) <= d /\ d < FirstDay(MonthOf(d) + 1)
    BY <1>2 DEF MonthOf
  <1> QED BY <1>3, <1>4

\* Every day lies in its month.
LEMMA MonthOfDay ==
  ASSUME NEW d \in Nat
  PROVE  /\ MonthOf(d) \in Nat
         /\ FirstDay(MonthOf(d)) <= d /\ d < FirstDay(MonthOf(d) + 1)
  BY MonthExists, MonthOfIs

\* A day lies in a month or a later one if it is not before its first day.
LEMMA MonthAtLeast ==
  ASSUME NEW d \in Nat, NEW i \in Nat
  PROVE  i <= MonthOf(d) <=> FirstDay(i) <= d
  <1>1. PICK m \in Nat : m = MonthOf(d)
    BY MonthOfDay
  <1>2. FirstDay(m) <= d /\ d < FirstDay(m + 1)
    BY <1>1, MonthOfDay
  <1>7. FirstDay(m) \in Nat /\ FirstDay(m + 1) \in Nat
    BY MonthSpan
  <1>8. /\ FirstDay(i) \in Nat /\ FirstDay(i + 1) \in Nat
        /\ FirstDay(i + 1) - FirstDay(i) \in 28 .. 31
    BY MonthSpan
  <1>3. /\ FirstDay(m) \in Nat /\ FirstDay(m + 1) \in Nat
        /\ FirstDay(i) \in Nat /\ FirstDay(i + 1) \in Nat
        /\ FirstDay(i) < FirstDay(i + 1)
    BY <1>7, <1>8
  <1>4. CASE i < m
    <2>1. FirstDay(i + 1) <= FirstDay(m)
      BY <1>4, MonthsGrow
    <2> QED BY <1>1, <1>2, <1>3, <1>4, <2>1
  <1>5. CASE i = m
    BY <1>1, <1>2, <1>5
  <1>6. CASE m < i
    <2>1. FirstDay(m + 1) <= FirstDay(i)
      BY <1>6, MonthsGrow
    <2> QED BY <1>1, <1>2, <1>3, <1>6, <2>1
  <1> QED BY <1>4, <1>5, <1>6

\* December has 31 days.
LEMMA DecemberEnds ==
  ASSUME NEW q \in Nat
  PROVE  FirstDay(12 * q + 11) + 30 = FirstDay(12 * (q + 1)) - 1
  <1>1. PICK i \in Nat : i = 12 * q + 11
    OBVIOUS
  <1>2. PICK j \in Nat : j = 12 * (q + 1) + 0
    OBVIOUS
  <1>3. q \in Int /\ q + 1 \in Int /\ 11 \in 0 .. 11 /\ 0 \in 0 .. 11
    OBVIOUS
  <1>4. FirstDay(i) = YearStart(q) + InYear(q, 11)
    BY <1>1, <1>3, FirstDayIs, Zenon
  <1>5. FirstDay(j) = YearStart(q + 1) + InYear(q + 1, 0)
    BY <1>2, <1>3, FirstDayIs, Zenon
  <1>6. InYear(q, 11) = 334 + (IF Leap(q) THEN 1 ELSE 0) /\ InYear(q + 1, 0) = 0
    BY Offsets DEF InYear
  <1>7. YearStart(q + 1) - YearStart(q) = (IF Leap(q) THEN 366 ELSE 365)
    BY <1>3, YearLength
  <1>8. YearStart(q) \in Int /\ YearStart(q + 1) \in Int
    BY <1>3, YearLength
  <1> HIDE DEF Leap
  <1>9. FirstDay(i) + 30 = FirstDay(j) - 1
    BY <1>4, <1>5, <1>6, <1>7, <1>8
  <1>10. j = 12 * (q + 1)
    BY <1>2
  <1> QED BY <1>1, <1>9, <1>10

\* The year of a day is the one it lies in.
LEMMA YearOfDay ==
  ASSUME NEW d \in Nat, NEW q \in Nat
  PROVE  MonthOf(d) \div 12 = q <=> FirstDay(12 * q) <= d /\ d < FirstDay(12 * (q + 1))
  <1>1. PICK i \in Nat : i = 12 * q
    OBVIOUS
  <1>2. PICK j \in Nat : j = 12 * (q + 1)
    OBVIOUS
  <1>3. PICK m \in Nat : m = MonthOf(d)
    BY MonthOfDay
  <1>4. i <= m <=> FirstDay(i) <= d
    BY <1>3, MonthAtLeast
  <1>5. j <= m <=> FirstDay(j) <= d
    BY <1>3, MonthAtLeast
  <1>6. FirstDay(j) \in Nat
    BY MonthSpan
  <1>7. m \div 12 = q <=> i <= m /\ ~(j <= m)
    BY <1>1, <1>2
  <1>8. m \div 12 = q <=> FirstDay(i) <= d /\ d < FirstDay(j)
    BY <1>4, <1>5, <1>6, <1>7
  <1> QED BY <1>1, <1>2, <1>3, <1>8

\* The month of a day is the one it lies in, and no other.
LEMMA MonthIff ==
  ASSUME NEW d \in Nat, NEW i \in Nat
  PROVE  MonthOf(d) = i <=> FirstDay(i) <= d /\ d < FirstDay(i + 1)
  BY MonthOfDay, MonthOfIs

\* The days a phrase means, from its first to its last: of all days, and of those IsRight
\* looks at.
Meant(r, today, a, b) ==
  /\ a <= b
  /\ \A d \in Nat \cup {a - 1, a, b, b + 1} : Means(r, d, today) <=> a <= d /\ d <= b

\* The interval of a phrase that ends with a day.
WholeDays(r, moment, a, b) ==
  /\ a \in Int /\ b \in Int
  /\ Whole(r, moment) = Span(StartOf(a), EndOf(b))
  /\ Meant(r, DayOf(moment), a, b)

\* The day of a moment is a number.
LEMMA DayIsInt == ASSUME NEW moment \in Int PROVE DayOf(moment) \in Int
  BY DEF DayOf, Day

\* "today" is the interval of that day.
LEMMA TodayIsCovered ==
  ASSUME NEW r, r.kind = "today", NEW moment \in Int
  PROVE  WholeDays(r, moment, DayOf(moment), DayOf(moment))
  <1>1. DayOf(moment) \in Int
    BY DayIsInt
  <1> QED BY <1>1 DEF WholeDays, Meant, Means, Whole

\* "yesterday" is the interval of the day before.
LEMMA YesterdayIsCovered ==
  ASSUME NEW r, r.kind = "yesterday", NEW moment \in Int
  PROVE  WholeDays(r, moment, DayOf(moment) - 1, DayOf(moment) - 1)
  <1>1. PICK today \in Int : today = DayOf(moment)
    BY DayIsInt
  <1>2. StartOf(today) - Day = StartOf(today - 1) /\ EndOf(today) - Day = EndOf(today - 1)
    BY DEF StartOf, EndOf, First, Last, Hour, Day
  <1>3. Whole(r, moment) = Span(StartOf(today - 1), EndOf(today - 1))
    BY <1>1, <1>2 DEF Whole
  <1>4. Meant(r, today, today - 1, today - 1)
    BY DEF Meant, Means
  <1> QED BY <1>1, <1>3, <1>4 DEF WholeDays

\* The Mondays around a day.
LEMMA Mondays ==
  ASSUME NEW d \in Int
  PROVE  /\ Monday(d) \in Int /\ Weekday(d) \in 0 .. 6
         /\ \A e \in Int : Monday(e) = Monday(d) <=> Monday(d) <= e /\ e <= Monday(d) + 6
         /\ \A e \in Int : Monday(e) = Monday(d) - 7 <=> Monday(d) - 7 <= e /\ e <= Monday(d) - 1
  <1>1. \A e \in Int : /\ Weekday(e) \in 0 .. 6 /\ Monday(e) \in Int
                        /\ \E w \in Int : Monday(e) = 7 * w - 5
                        /\ Monday(e) <= e /\ e <= Monday(e) + 6
    <2> SUFFICES ASSUME NEW e \in Int
                 PROVE  /\ Weekday(e) \in 0 .. 6 /\ Monday(e) \in Int
                        /\ \E w \in Int : Monday(e) = 7 * w - 5
                        /\ Monday(e) <= e /\ e <= Monday(e) + 6
      OBVIOUS
    <2>1. PICK w \in Int : w = (e + 5) \div 7
      OBVIOUS
    <2>2. Weekday(e) \in 0 .. 6 /\ Weekday(e) = (e + 5) - (7 * w)
      BY <2>1 DEF Weekday
    <2>3. Monday(e) = 7 * w - 5
      BY <2>2 DEF Monday
    <2> QED BY <2>2, <2>3 DEF Monday
  <1>2. PICK v \in Int : Monday(d) = 7 * v - 5
    BY <1>1
  <1>3. ASSUME NEW e \in Int
        PROVE  /\ Monday(e) = Monday(d) <=> Monday(d) <= e /\ e <= Monday(d) + 6
               /\ Monday(e) = Monday(d) - 7 <=> Monday(d) - 7 <= e /\ e <= Monday(d) - 1
    <2>1. PICK w \in Int : Monday(e) = 7 * w - 5
      BY <1>1
    <2>2. Monday(e) <= e /\ e <= Monday(e) + 6
      BY <1>1
    <2> QED BY <1>2, <2>1, <2>2
  <1> QED BY <1>1, <1>3

\* The weeks begin with their Mondays and end with their Sundays.
LEMMA WeekIsCovered ==
  ASSUME NEW r, r.kind \in {"this_week", "last_week"}, NEW moment \in Int
  PROVE  \E a, b \in Int : WholeDays(r, moment, a, b)
  <1>1. PICK today \in Int : today = DayOf(moment)
    BY DayIsInt
  <1>2. PICK m \in Int : m = Monday(today)
    BY Mondays
  <1>3. CASE r.kind = "this_week"
    <2>1. Whole(r, moment) = Span(StartOf(m), EndOf(m + 6))
      BY <1>1, <1>2, <1>3 DEF Whole
    <2>2. Meant(r, today, m, m + 6)
      BY <1>2, <1>3, Mondays DEF Meant, Means
    <2> QED BY <1>1, <2>1, <2>2 DEF WholeDays
  <1>4. CASE r.kind = "last_week"
    <2>1. Whole(r, moment) = Span(StartOf(m - 7), EndOf(m - 1))
      BY <1>1, <1>2, <1>4 DEF Whole
    <2>2. Meant(r, today, m - 7, m - 1)
      BY <1>2, <1>4, Mondays DEF Meant, Means
    <2> QED BY <1>1, <2>1, <2>2 DEF WholeDays
  <1> QED BY <1>3, <1>4

\* The moment before a day is the last of the day before.
LEMMA BeforeDay == ASSUME NEW d \in Int PROVE StartOf(d) - 1 = EndOf(d - 1) /\ DayOf(EndOf(d)) = d
  BY DEF StartOf, EndOf, First, Last, Hour, Day, DayOf

\* The months begin with their first days and end before the next ones.
LEMMA MonthIsCovered ==
  ASSUME NEW r, r.kind \in {"this_month", "last_month"}, NEW moment \in Int,
         DayOf(moment) \in Nat, FirstDay(24) <= DayOf(moment)
  PROVE  \E a, b \in Int : WholeDays(r, moment, a, b)
  <1>1. PICK today \in Nat : today = DayOf(moment)
    OBVIOUS
  <1>2. PICK i \in Nat : i = MonthOf(today)
    BY MonthOfDay
  <1>3. 24 <= i
    BY <1>1, <1>2, MonthAtLeast
  <1>4. PICK j \in Nat : j + 1 = i
    BY <1>3
  <1>5. PICK a \in Nat, b \in Nat, c \in Nat : a = FirstDay(j) /\ b = FirstDay(i) /\ c = FirstDay(i + 1)
    BY MonthSpan
  <1>6. b - a \in 28 .. 31 /\ c - b \in 28 .. 31 /\ 28 * j <= a
    <2>1. /\ FirstDay(j + 1) - FirstDay(j) \in 28 .. 31 /\ 28 * j <= FirstDay(j)
          /\ FirstDay(i + 1) - FirstDay(i) \in 28 .. 31
      BY MonthSpan
    <2> QED BY <1>4, <1>5, <2>1
  <1>7. a >= 1
    BY <1>3, <1>4, <1>6
  <1>8. \A d \in Nat : /\ MonthOf(d) = i <=> b <= d /\ d <= c - 1
                       /\ MonthOf(d) = j <=> a <= d /\ d <= b - 1
    <2> SUFFICES ASSUME NEW d \in Nat
                 PROVE  /\ MonthOf(d) = i <=> b <= d /\ d <= c - 1
                        /\ MonthOf(d) = j <=> a <= d /\ d <= b - 1
      OBVIOUS
    <2>1. MonthOf(d) = i <=> FirstDay(i) <= d /\ d < FirstDay(i + 1)
      BY MonthIff
    <2>2. MonthOf(d) = j <=> FirstDay(j) <= d /\ d < FirstDay(j + 1)
      BY MonthIff
    <2> QED BY <1>4, <1>5, <2>1, <2>2
  <1>9. CASE r.kind = "this_month"
    <2>1. Whole(r, moment) = Span(StartOf(b), StartOf(c) - 1)
      BY <1>1, <1>2, <1>5, <1>9 DEF Whole, MonthDay
    <2>2. StartOf(c) - 1 = EndOf(c - 1)
      BY BeforeDay
    <2>3. \A d \in Nat \cup {b - 1, b, c - 1, c - 1 + 1} : MonthOf(d) = MonthOf(today) <=> b <= d /\ d <= c - 1
      BY <1>2, <1>6, <1>7, <1>8
    <2>4. Meant(r, today, b, c - 1)
      BY <1>6, <1>9, <2>3 DEF Meant, Means
    <2>5. c - 1 \in Int /\ b \in Int
      OBVIOUS
    <2> QED BY <1>1, <2>1, <2>2, <2>4, <2>5 DEF WholeDays
  <1>10. CASE r.kind = "last_month"
    <2>1. StartOf(b) - 1 = EndOf(b - 1) /\ DayOf(EndOf(b - 1)) = b - 1
      BY BeforeDay
    <2>2. MonthOf(b - 1) = j
      BY <1>6, <1>7, <1>8
    <2>3. Whole(r, moment) = Span(StartOf(a), EndOf(b - 1))
      <3>1. MonthDay(today) = b /\ MonthDay(b - 1) = a
        BY <1>2, <1>5, <2>2 DEF MonthDay
      <3> QED BY <1>1, <1>10, <2>1, <3>1 DEF Whole
    <2>4. \A d \in Nat \cup {a - 1, a, b - 1, b - 1 + 1} : MonthOf(d) = MonthOf(today) - 1 <=> a <= d /\ d <= b - 1
      BY <1>2, <1>4, <1>6, <1>7, <1>8
    <2>5. Meant(r, today, a, b - 1)
      BY <1>6, <1>10, <2>4 DEF Meant, Means
    <2>6. b - 1 \in Int /\ a \in Int
      OBVIOUS
    <2> QED BY <1>1, <2>1, <2>3, <2>5, <2>6 DEF WholeDays
  <1> QED BY <1>9, <1>10

\* The years begin with January and end with December.
LEMMA YearIsCovered ==
  ASSUME NEW r, r.kind \in {"this_year", "last_year"}, NEW moment \in Int,
         DayOf(moment) \in Nat, FirstDay(24) <= DayOf(moment)
  PROVE  \E a, b \in Int : WholeDays(r, moment, a, b)
  <1>1. PICK today \in Nat : today = DayOf(moment)
    OBVIOUS
  <1>2. PICK i \in Nat : i = MonthOf(today)
    BY MonthOfDay
  <1>3. 24 <= i
    BY <1>1, <1>2, MonthAtLeast
  <1>4. PICK q \in Nat : q = i \div 12
    OBVIOUS
  <1>5. PICK p \in Nat : p = q - 1 /\ p >= 1 /\ p + 1 = q
    BY <1>3, <1>4
  <1>6. PICK a \in Nat, b \in Nat, c \in Nat :
          a = FirstDay(12 * p) /\ b = FirstDay(12 * q) /\ c = FirstDay(12 * (q + 1))
    <2>1. 12 * p \in Nat /\ 12 * q \in Nat /\ 12 * (q + 1) \in Nat
      OBVIOUS
    <2> QED BY <2>1, MonthSpan
  <1>7. a >= 1 /\ a < b /\ b < c
    <2>1. FirstDay(12 * p) >= 28 * (12 * p)
      BY MonthSpan
    <2>2. ASSUME NEW x \in Nat, NEW y \in Nat, x < y PROVE FirstDay(x) < FirstDay(y)
      <3>1. FirstDay(x) \in Nat /\ FirstDay(x + 1) \in Nat /\ FirstDay(y) \in Nat
            /\ FirstDay(x + 1) - FirstDay(x) \in 28 .. 31
        BY <2>2, MonthSpan
      <3>2. FirstDay(x + 1) <= FirstDay(y)
        BY <2>2, MonthsGrow
      <3> QED BY <3>1, <3>2
    <2>3. 12 * p < 12 * q /\ 12 * q < 12 * (q + 1) /\ 12 * p \in Nat /\ 12 * q \in Nat
          /\ 12 * (q + 1) \in Nat
      BY <1>5
    <2>4. FirstDay(12 * p) < FirstDay(12 * q) /\ FirstDay(12 * q) < FirstDay(12 * (q + 1))
      BY <2>2, <2>3
    <2> QED BY <1>5, <1>6, <2>1, <2>4
  <1>8. \A d \in Nat : /\ Year(MonthOf(d)) = 2022 + (MonthOf(d) \div 12)
                       /\ MonthOf(d) \div 12 \in Nat
                       /\ MonthOf(d) \div 12 = q <=> b <= d /\ d <= c - 1
                       /\ MonthOf(d) \div 12 = p <=> a <= d /\ d <= b - 1
    <2> SUFFICES ASSUME NEW d \in Nat
                 PROVE  /\ Year(MonthOf(d)) = 2022 + (MonthOf(d) \div 12)
                        /\ MonthOf(d) \div 12 \in Nat
                        /\ MonthOf(d) \div 12 = q <=> b <= d /\ d <= c - 1
                        /\ MonthOf(d) \div 12 = p <=> a <= d /\ d <= b - 1
      OBVIOUS
    <2>1. MonthOf(d) \div 12 = q <=> FirstDay(12 * q) <= d /\ d < FirstDay(12 * (q + 1))
      BY YearOfDay
    <2>2. MonthOf(d) \div 12 = p <=> FirstDay(12 * p) <= d /\ d < FirstDay(12 * (p + 1))
      BY YearOfDay
    <2>3. FirstDay(12 * (p + 1)) = b
      BY <1>5, <1>6
    <2>4. PICK m \in Nat : m = MonthOf(d)
      BY MonthOfDay
    <2>5. m \div 12 \in Nat
      OBVIOUS
    <2>6. Year(MonthOf(d)) = 2022 + (MonthOf(d) \div 12)
      BY DEF Year, FirstYear
    <2>7. MonthOf(d) \div 12 \in Nat
      BY <2>4, <2>5
    <2>8. MonthOf(d) \div 12 = q <=> b <= d /\ d <= c - 1
      BY <1>6, <2>1
    <2>9. MonthOf(d) \div 12 = p <=> a <= d /\ d <= b - 1
      BY <1>6, <2>2, <2>3
    <2> QED BY <2>6, <2>7, <2>8, <2>9
  <1>9. MonthOf(today) \div 12 = q /\ Year(MonthOf(today)) = 2022 + q
    BY <1>2, <1>4, <1>8
  <1>10. \A d \in Nat : /\ Year(MonthOf(d)) = 2022 + q <=> b <= d /\ d <= c - 1
                        /\ Year(MonthOf(d)) = 2022 + q - 1 <=> a <= d /\ d <= b - 1
    <2> SUFFICES ASSUME NEW d \in Nat
                 PROVE  /\ Year(MonthOf(d)) = 2022 + q <=> b <= d /\ d <= c - 1
                        /\ Year(MonthOf(d)) = 2022 + q - 1 <=> a <= d /\ d <= b - 1
      OBVIOUS
    <2>1. PICK y \in Nat : y = MonthOf(d) \div 12
      BY <1>8
    <2>2. /\ Year(MonthOf(d)) = 2022 + y
          /\ y = q <=> b <= d /\ d <= c - 1
          /\ y = p <=> a <= d /\ d <= b - 1
      BY <1>8, <2>1
    <2> QED BY <1>5, <2>2
  <1>11. CASE r.kind = "this_year"
    <2>1. FirstDay(12 * q + 11) + 30 = c - 1
      BY <1>6, DecemberEnds
    <2>2. YearDay(today) = b
      BY <1>6, <1>9 DEF YearDay
    <2>3. Whole(r, moment) = Span(StartOf(b), EndOf(c - 1))
      BY <1>1, <1>9, <1>11, <2>1, <2>2 DEF Whole
    <2>4. \A d \in Nat \cup {b - 1, b, c - 1, c - 1 + 1} :
            Year(MonthOf(d)) = Year(MonthOf(today)) <=> b <= d /\ d <= c - 1
      BY <1>7, <1>9, <1>10
    <2>5. Meant(r, today, b, c - 1)
      BY <1>7, <1>11, <2>4 DEF Meant, Means
    <2>6. b \in Int /\ c - 1 \in Int
      OBVIOUS
    <2> QED BY <1>1, <2>3, <2>5, <2>6 DEF WholeDays
  <1>12. CASE r.kind = "last_year"
    <2>1. FirstDay(12 * (q - 1) + 11) + 30 = b - 1 /\ FirstDay(12 * (q - 1)) = a
      BY <1>5, <1>6, DecemberEnds
    <2>3. Whole(r, moment) = Span(StartOf(a), EndOf(b - 1))
      BY <1>1, <1>9, <1>12, <2>1 DEF Whole
    <2>4. \A d \in Nat \cup {a - 1, a, b - 1, b - 1 + 1} :
            Year(MonthOf(d)) = Year(MonthOf(today)) - 1 <=> a <= d /\ d <= b - 1
      BY <1>7, <1>9, <1>10
    <2>5. Meant(r, today, a, b - 1)
      BY <1>7, <1>12, <2>4 DEF Meant, Means
    <2>6. a \in Int /\ b - 1 \in Int
      OBVIOUS
    <2> QED BY <1>1, <2>3, <2>5, <2>6 DEF WholeDays
  <1> QED BY <1>11, <1>12

\* A weekday is the last one there was, or today.
LEMMA WeekdayIsCovered ==
  ASSUME NEW r, r.kind = "weekday", r.weekday \in 0 .. 6, NEW moment \in Int
  PROVE  \E a \in Int : WholeDays(r, moment, a, a)
  <1>1. PICK today \in Int : today = DayOf(moment)
    BY DayIsInt
  <1>2. PICK w \in 0 .. 6 : w = r.weekday
    OBVIOUS
  <1>3. PICK b \in 0 .. 6 : b = DaysBack(today, w)
    <2>1. PICK u \in 0 .. 6 : u = Weekday(today)
      BY DEF Weekday
    <2>2. (u - w) % 7 \in 0 .. 6
      OBVIOUS
    <2> QED BY <2>1, <2>2 DEF DaysBack
  <1>4. PICK a \in Int : a = today - b
    OBVIOUS
  <1>5. Weekday(today) \in 0 .. 6 /\ \E v \in Int : today + 5 = 7 * v + Weekday(today)
    BY DEF Weekday
  <1>6. \E v \in Int : Weekday(today) - w = 7 * v + b
    <2>1. PICK u \in 0 .. 6 : u = Weekday(today)
      BY <1>5
    <2>2. b = (u - w) % 7
      BY <1>3, <2>1 DEF DaysBack
    <2>3. PICK v \in Int : v = (u - w) \div 7
      OBVIOUS
    <2>4. u - w = 7 * v + b
      BY <2>2, <2>3
    <2> QED BY <2>1, <2>4
  <1>7. \E v \in Int : a + 5 = 7 * v + w
    <2>1. PICK v \in Int : today + 5 = 7 * v + Weekday(today)
      BY <1>5
    <2>2. PICK x \in Int : Weekday(today) - w = 7 * x + b
      BY <1>6
    <2>3. v + x \in Int /\ a + 5 = 7 * (v + x) + w
      BY <1>4, <1>5, <2>1, <2>2
    <2> QED BY <2>3
  <1>8. Weekday(a) = w
    BY <1>7 DEF Weekday
  <1>9. ASSUME NEW d \in Int PROVE Weekday(d) = w <=> \E v \in Int : d = a + 7 * v
    <2>1. PICK v \in Int : a + 5 = 7 * v + w
      BY <1>7
    <2>2. ASSUME Weekday(d) = w PROVE \E x \in Int : d = a + 7 * x
      <3>1. PICK x \in Int : x = (d + 5) \div 7
        OBVIOUS
      <3>2. d + 5 = 7 * x + w
        BY <2>2, <3>1 DEF Weekday
      <3>3. x - v \in Int /\ d = a + 7 * (x - v)
        BY <2>1, <3>2
      <3> QED BY <3>3
    <2>3. ASSUME NEW x \in Int, d = a + 7 * x PROVE Weekday(d) = w
      <3>1. v + x \in Int /\ d + 5 = 7 * (v + x) + w
        BY <2>1, <2>3
      <3> QED BY <3>1 DEF Weekday
    <2> QED BY <2>2, <2>3
  <1>10. ASSUME NEW d \in Int
         PROVE  Weekday(d) = w /\ today - 7 < d /\ d <= today <=> a <= d /\ d <= a
    <2>1. today - 7 < a /\ a <= today
      BY <1>4
    <2>2. ASSUME Weekday(d) = w, today - 7 < d, d <= today PROVE d = a
      <3>1. PICK v \in Int : d = a + 7 * v
        BY <1>9, <2>2
      <3>2. v = 0
        BY <1>4, <2>2, <3>1
      <3> QED BY <3>1, <3>2
    <2> QED BY <1>8, <2>1, <2>2
  <1>11. Meant(r, today, a, a)
    BY <1>2, <1>10 DEF Meant, Means
  <1>12. Whole(r, moment) = Span(StartOf(a), EndOf(a))
    BY <1>1, <1>2, <1>3, <1>4 DEF Whole
  <1> QED BY <1>1, <1>11, <1>12 DEF WholeDays

\* The days past reach back from the present.
LEMMA PastDaysAreCovered ==
  ASSUME NEW r, r.kind = "past_days", r.days \in Nat, NEW moment \in Int
  PROVE  \E a \in Int : /\ Whole(r, moment) = Span(StartOf(a), moment)
                        /\ Meant(r, DayOf(moment), a, DayOf(moment))
  <1>1. PICK today \in Int : today = DayOf(moment)
    BY DayIsInt
  <1>2. PICK n \in Nat : n = r.days
    OBVIOUS
  <1>3. PICK a \in Int : a = today - n
    OBVIOUS
  <1>4. StartOf(today) - Day * n = StartOf(a)
    BY <1>3 DEF StartOf, First, Day, Hour
  <1>5. Whole(r, moment) = Span(StartOf(a), moment)
    BY <1>1, <1>2, <1>4 DEF Whole
  <1>6. Meant(r, today, a, today)
    BY <1>2, <1>3 DEF Meant, Means
  <1> QED BY <1>1, <1>5, <1>6

\* Every phrase is the interval of the days it means, or of those up to the present.
LEMMA WholeIsMeant ==
  ASSUME NEW maxDays \in Nat, NEW r \in Intents(maxDays), NEW moment \in Int,
         DayOf(moment) \in Nat, FirstDay(24) <= DayOf(moment)
  PROVE  \E a, b \in Int :
           /\ Meant(r, DayOf(moment), a, b)
           /\ Whole(r, moment) = Span(StartOf(a), IF r.kind = "past_days" THEN moment ELSE EndOf(b))
           /\ r.kind = "past_days" => b = DayOf(moment)
  <1>1. r.kind \in Kinds /\ r.days \in Nat /\ r.weekday \in 0 .. 6
    BY DEF Intents
  <1>2. CASE r.kind = "past_days"
    BY <1>1, <1>2, PastDaysAreCovered, DayIsInt
  <1>3. CASE r.kind # "past_days"
    <2>1. \E a, b \in Int : WholeDays(r, moment, a, b)
      <3>1. CASE r.kind = "today"
        BY <3>1, TodayIsCovered, DayIsInt
      <3>2. CASE r.kind = "yesterday"
        <4>1. DayOf(moment) - 1 \in Int
          OBVIOUS
        <4> QED BY <3>2, <4>1, YesterdayIsCovered
      <3>3. CASE r.kind \in {"this_week", "last_week"}
        BY <3>3, WeekIsCovered
      <3>4. CASE r.kind \in {"this_month", "last_month"}
        BY <3>4, MonthIsCovered
      <3>5. CASE r.kind \in {"this_year", "last_year"}
        BY <3>5, YearIsCovered
      <3>6. CASE r.kind = "weekday"
        BY <1>1, <3>6, WeekdayIsCovered
      <3> QED BY <1>1, <1>3, <3>1, <3>2, <3>3, <3>4, <3>5, <3>6 DEF Kinds
    <2> QED BY <1>3, <2>1 DEF WholeDays
  <1> QED BY <1>2, <1>3

\* The moments of an hour lie in its day, and in their order.
LEMMA HoursOfDay ==
  ASSUME NEW d \in Int, NEW h \in 0 .. 23
  PROVE  /\ First(d, h) \in Int /\ Last(d, h) \in Int
         /\ DayOf(First(d, h)) = d /\ DayOf(Last(d, h)) = d
  BY DEF First, Last, Hour, Day, DayOf

\* An hour begins before a later one of the same or a later day ends.
LEMMA HoursInOrder ==
  ASSUME NEW a \in Int, NEW b \in Int, a <= b, NEW h \in 0 .. 23, NEW k \in 0 .. 23, h <= k
  PROVE  First(a, h) <= Last(b, k)
  BY DEF First, Last, Hour, Day

\* A period leaves the days and replaces the hours.
LEMMA NarrowedIsMeant ==
  ASSUME NEW p \in Periods, NEW a \in Int, NEW b \in Int, a <= b,
         NEW t \in Int, DayOf(t) = b, NEW n, n = Narrowed(p, Span(StartOf(a), t))
  PROVE  /\ n.from \in Int /\ n.to \in Int /\ n.from <= n.to
         /\ DayOf(n.from) = a /\ DayOf(n.to) = b
         /\ \E h \in Hours(p) : n.from = First(a, h) /\ \A k \in Hours(p) : h <= k
         /\ IF p = "full_day" THEN n.to = t
            ELSE \E h \in Hours(p) : n.to = Last(b, h) /\ \A k \in Hours(p) : k <= h
  <1>1. DayOf(StartOf(a)) = a /\ StartOf(a) \in Int
    BY HoursOfDay DEF StartOf
  <1>2. ASSUME NEW h \in 0 .. 23, NEW k \in 0 .. 23, h <= k, p # "full_day", Hours(p) = h .. k,
               n = Span(First(a, h), Last(b, k))
        PROVE  /\ n.from \in Int /\ n.to \in Int /\ n.from <= n.to
               /\ DayOf(n.from) = a /\ DayOf(n.to) = b
               /\ \E x \in Hours(p) : n.from = First(a, x) /\ \A y \in Hours(p) : x <= y
               /\ \E x \in Hours(p) : n.to = Last(b, x) /\ \A y \in Hours(p) : y <= x
    <2>1. n.from = First(a, h) /\ n.to = Last(b, k)
      BY <1>2 DEF Span
    <2>2. h \in Hours(p) /\ k \in Hours(p) /\ \A y \in Hours(p) : h <= y /\ y <= k
      BY <1>2
    <2>3. /\ First(a, h) \in Int /\ Last(b, k) \in Int /\ First(a, h) <= Last(b, k)
          /\ DayOf(First(a, h)) = a /\ DayOf(Last(b, k)) = b
      BY <1>2, HoursOfDay, HoursInOrder
    <2> QED BY <2>1, <2>2, <2>3
  <1>3. CASE p = "morning"
    <2>1. n = Span(First(a, 6), Last(b, 11)) /\ Hours(p) = 6 .. 11
      BY <1>1, <1>3 DEF Narrowed, Hours, Span
    <2> QED BY <1>2, <1>3, <2>1
  <1>4. CASE p = "afternoon"
    <2>1. n = Span(First(a, 12), Last(b, 17)) /\ Hours(p) = 12 .. 17
      BY <1>1, <1>4 DEF Narrowed, Hours, Span
    <2> QED BY <1>2, <1>4, <2>1
  <1>5. CASE p = "evening"
    <2>1. n = Span(First(a, 18), Last(b, 23)) /\ Hours(p) = 18 .. 23
      BY <1>1, <1>5 DEF Narrowed, Hours, Span
    <2> QED BY <1>2, <1>5, <2>1
  <1>6. CASE p = "full_day"
    <2>1. n.from = First(a, 0) /\ n.to = t /\ Hours(p) = 0 .. 23
      BY <1>6 DEF Narrowed, Hours, Span, StartOf
    <2>2. First(a, 0) <= t
      BY DEF First, Hour, Day, DayOf
    <2>3. DayOf(First(a, 0)) = a /\ First(a, 0) \in Int
      BY <1>1 DEF StartOf
    <2>4. 0 \in Hours(p) /\ \A k \in Hours(p) : 0 <= k
      BY <2>1
    <2> QED BY <1>6, <2>1, <2>2, <2>3, <2>4
  <1> QED BY <1>3, <1>4, <1>5, <1>6 DEF Periods

-----------------------------------------------------------------------------
(* Results. *)

\* The cursor always fits the request it came with, and parts what was read from what is to be.
THEOREM SearchInvariant == Spec => []SearchInv
  <1>1. SearchInv /\ [Next]_vars => SearchInv'
    BY ReadingStep, ListStep DEF SearchInv
  <1> QED BY <1>1, SearchInvInitially, PTL DEF Spec

\* Pages of one ranking repeat no message and leave none out, whatever the index does and
\* however many pages there are (search_after, the id as tiebreaker, next_page_cursor).
THEOREM PagesAreTheList == Spec => []PagesMakeTheList
  <1>1. SearchInv => PagesMakeTheList
    <2> SUFFICES ASSUME SearchInv, Cardinality(rankings) <= 1, ~partial
                 PROVE  twice = {} /\ (stage = "ended" => lasting \subseteq shown)
      BY DEF PagesMakeTheList
    <2>1. Alike
      BY AtMostOne DEF SearchInv, ListInv, Alike
    <2> QED BY <2>1 DEF SearchInv, ListInv
  <1> QED BY <1>1, SearchInvariant, PTL

\* A phrase becomes the interval of the days it means, for every day from January 2024 on, in
\* every zone, and for any number of days past: over leap years and the ends of weeks, months
\* and years (translate_date_range_intent), in a calendar without the exception of 2100.  IsRight looks at the days beside the ends only;
\* here no other day is meant, and none between the ends is not.
THEOREM EveryWindowIsRight ==
  ASSUME NEW maxDays \in Nat, NEW r \in Intents(maxDays), NEW moment \in Int, NEW ahead \in Int,
         DayOf(moment + Hour * ahead) \in Nat, FirstDay(24) <= DayOf(moment + Hour * ahead)
  PROVE  /\ IsRight(r, moment, ahead)
         /\ \A d \in Nat :
              Means(r, d, DayOf(moment + Hour * ahead))
                <=> /\ DayOf(Window(r, moment, ahead).from + Hour * ahead) <= d
                    /\ d <= DayOf(Window(r, moment, ahead).to + Hour * ahead)
  <1>1. PICK local \in Int : local = moment + Hour * ahead
    BY DEF Hour
  <1>2. PICK today \in Nat : today = DayOf(local) /\ FirstDay(24) <= today
    BY <1>1
  <1>3. PICK a \in Int, b \in Int :
          /\ Meant(r, today, a, b)
          /\ Whole(r, local) = Span(StartOf(a), IF r.kind = "past_days" THEN local ELSE EndOf(b))
          /\ r.kind = "past_days" => b = today
    BY <1>2, WholeIsMeant
  <1>4. PICK t \in Int : t = (IF r.kind = "past_days" THEN local ELSE EndOf(b)) /\ DayOf(t) = b
    BY <1>2, <1>3, HoursOfDay DEF EndOf
  <1>5. r.period \in Periods
    BY DEF Intents
  <1>6. PICK n : n = Narrowed(r.period, Span(StartOf(a), t))
    OBVIOUS
  <1>7. /\ a <= b
        /\ \A d \in Nat \cup {a - 1, a, b, b + 1} : Means(r, d, today) <=> a <= d /\ d <= b
    BY <1>3 DEF Meant
  <1>8. /\ n.from \in Int /\ n.to \in Int /\ n.from <= n.to
        /\ DayOf(n.from) = a /\ DayOf(n.to) = b
        /\ \E h \in Hours(r.period) : n.from = First(a, h) /\ \A k \in Hours(r.period) : h <= k
        /\ IF r.period = "full_day" THEN n.to = t
           ELSE \E h \in Hours(r.period) : n.to = Last(b, h) /\ \A k \in Hours(r.period) : k <= h
    BY <1>4, <1>5, <1>6, <1>7, NarrowedIsMeant
  <1>9. Window(r, moment, ahead) = Span(n.from - Hour * ahead, n.to - Hour * ahead)
    BY <1>1, <1>3, <1>4, <1>6 DEF Window
  <1>10. /\ Window(r, moment, ahead).from + Hour * ahead = n.from
         /\ Window(r, moment, ahead).to + Hour * ahead = n.to
    <2>1. PICK z \in Int : z = Hour * ahead
      BY DEF Hour
    <2>2. n.from - z + z = n.from /\ n.to - z + z = n.to
      BY <1>8
    <2> QED BY <1>9, <2>1, <2>2 DEF Span
  <1>11. IF r.kind = "past_days" /\ r.period = "full_day"
           THEN n.to = local
           ELSE \E h \in Hours(r.period) :
                  n.to = Last(b, h) /\ \A k \in Hours(r.period) : k <= h
    <2>1. CASE r.period # "full_day"
      BY <1>8, <2>1
    <2>2. CASE r.period = "full_day" /\ r.kind = "past_days"
      BY <1>4, <1>8, <2>2
    <2>3. CASE r.period = "full_day" /\ r.kind # "past_days"
      <3>1. n.to = Last(b, 23)
        BY <1>4, <1>8, <2>3 DEF EndOf
      <3>2. 23 \in Hours(r.period) /\ \A k \in Hours(r.period) : k <= 23
        BY <2>3 DEF Hours
      <3> QED BY <2>3, <3>1, <3>2
    <2> QED BY <2>1, <2>2, <2>3
  <1>12. IsRight(r, moment, ahead) <=>
           /\ n.from <= n.to
           /\ \A d \in {DayOf(n.from) - 1, DayOf(n.from), DayOf(n.to), DayOf(n.to) + 1} :
                Means(r, d, today) <=> DayOf(n.from) <= d /\ d <= DayOf(n.to)
           /\ \E h \in Hours(r.period) :
                n.from = First(DayOf(n.from), h) /\ \A k \in Hours(r.period) : h <= k
           /\ IF r.kind = "past_days" /\ r.period = "full_day"
                THEN n.to = local
                ELSE \E h \in Hours(r.period) :
                       n.to = Last(DayOf(n.to), h) /\ \A k \in Hours(r.period) : k <= h
    BY <1>1, <1>2, <1>10, Zenon DEF IsRight
  <1>13. IsRight(r, moment, ahead)
    BY <1>7, <1>8, <1>11, <1>12
  <1> QED BY <1>1, <1>2, <1>7, <1>8, <1>10, <1>13

\* Whatever moment a reading begins at, each phrase its first page may be asked with is translated
\* right for the user's zone (translate_date_range_intent, called with the clock of the page).
THEOREM FirstWindowsRight == Spec => []WindowsAreRight
  <1>1. SearchInv => WindowsAreRight
    <2> SUFFICES ASSUME SearchInv, NEW r \in Intents(2)
                 PROVE  IsRight(r, now, zone)
      BY DEF WindowsAreRight
    <2>1. PICK s \in Nat, t \in Nat, z \in -23 .. 23 :
            s = start /\ t = now /\ z = zone /\ t >= s /\ DayOf(s) > FirstDay(24)
      BY MomentsAreLate DEF SearchInv, ReadingInv
    <2>2. FirstDay(24) \in Nat
      BY MonthSpan
    <2>3. DayOf(t + Hour * z) \in Nat /\ FirstDay(24) <= DayOf(t + Hour * z)
      BY <2>1, <2>2 DEF DayOf, Hour, Day
    <2>4. IsRight(r, t, z)
      BY <2>3, EveryWindowIsRight
    <2> QED BY <2>1, <2>4
  <1> QED BY <1>1, SearchInvariant, PTL
=============================================================================
