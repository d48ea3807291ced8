------------------------------ MODULE MailSearch ------------------------------
(***************************************************************************)
(* Reading through the results of a mail search, page by page: POST        *)
(* /search/mail, with one request for all pages, and POST                  *)
(* /search/mail/natural-language, which has the request made anew from the *)
(* user's words for every page.                                            *)
(*                                                                         *)
(* The service keeps nothing between two pages.  What connects them is the *)
(* cursor, the sort values of the last hit of a page; meanwhile messages   *)
(* come and go, the scores of a text change with the index, the query may  *)
(* have a vector or not, and the words may be understood differently.      *)
(*                                                                         *)
(* A request that fails changes nothing, and the client may repeat it: it  *)
(* is not an action.  The index is that of one tenant.                     *)
(***************************************************************************)
EXTENDS DateWindows, Sequences

CONSTANTS
  Message,
  Age,           \* [Message -> Nat]: days ago it was received, when the reading begins
  Id,            \* [Message -> Nat]: the order of the messages' ids
  Late,          \* messages whose vector is still to come when the reading begins
  Mentions,      \* messages that contain the query text
  Near,          \* [Message -> Nat]: similarity to the query's vector
  PageSize,
  Starts,        \* the moments at which a reading may begin
  Zones,         \* the users' time zones
  Plans,         \* what the words may be understood to mean
  MaxChanges     \* bound: changes of the index, and midnights

ASSUME NumbersAreNatural ==
  /\ Age \in [Message -> Nat] /\ Id \in [Message -> Nat] /\ Near \in [Message -> Nat]
  /\ PageSize \in Nat \ {0} /\ MaxChanges \in Nat
ASSUME MessagesAreFinite == IsFiniteSet(Message)
\* The years a phrase may name begin with FirstYear, and a zone is hours from UTC.
ASSUME MomentsAreLate ==
  Starts \subseteq {t \in Nat : DayOf(t) > FirstDay(24)} /\ Zones \subseteq -23 .. 23
ASSUME IdsDiffer == \A m, n \in Message : Id[m] = Id[n] => m = n

VARIABLES
  start, now, zone,
  matching,      \* documents that pass the filters: tenant, not deleted, folder, sender, ...
  vectors,       \* documents that have a semantic_vector
  score,         \* the score of the query text in each document, by the index as it is
  changes,
  natural,       \* whether the reading goes through the natural language endpoint
  ask,           \* the MailSearchRequest of the last page, or of the first to come
  stage,         \* "first", "more", "ended", "refused"
  cursor,        \* next_page_cursor of the last page
  (* history *)
  shown, twice,  \* messages on the pages so far, and those that were on two of them
  lasting,       \* results of the first page's request that have been results ever since
  rankings,      \* how the pages so far were sorted
  partial        \* Elasticsearch has run out of its three seconds

index   == <<matching, vectors, score, changes>>
clock   == <<start, now, zone>>
reading == <<natural, ask, stage, cursor, shown, twice, lasting, rankings, partial>>
vars    == <<clock, index, reading>>

Always  == Span(-1, -1)
Modes   == {"lexical", "semantic", "hybrid"}

\* A plan: the text if there is one, also if it is blank; the intent; whether there is a
\* flag to filter by; recipients; and how many entities the hints (account, folder, sender,
\* participants) have matched.
PlanType == [query : {"none", "blank", "text"}, retrieval : {"keyword", "semantic", "mixed"},
             dates : {{}} \cup {{r} : r \in Intents(2)}, filtered : BOOLEAN,
             recipients : BOOLEAN, hint : {"none", "zero", "one", "many"}]

ASSUME PlansArePlans == Plans \subseteq PlanType

-----------------------------------------------------------------------------
(* From a plan to a request. *)

\* What search_natural_language answers with 400 instead of searching.
Unsupported(plan) ==
  \/ plan.recipients
  \/ plan.hint \in {"zero", "many"}
  \/ /\ plan.retrieval = "keyword" /\ plan.query = "none"
     /\ ~plan.filtered /\ plan.hint = "none" /\ plan.dates = {}
  \/ plan.retrieval # "keyword" /\ plan.query # "text"

ModeOf(plan) ==
  CASE plan.retrieval = "keyword"  -> "lexical"
    [] plan.retrieval = "semantic" -> "semantic"
    [] plan.retrieval = "mixed"    -> "hybrid"

\* The dates are translated with the clock of this page.
Requested(plan) ==
  [text |-> plan.query = "text", mode |-> ModeOf(plan),
   window |-> IF plan.dates = {} THEN Always
                                 ELSE Window(CHOOSE r \in plan.dates : TRUE, now, zone)]

-----------------------------------------------------------------------------
(* One search. *)

Received(m) == start - Day * Age[m]

Filtered(req) ==
  {m \in matching : \/ req.window = Always
                    \/ req.window.from <= Received(m) /\ Received(m) <= req.window.to}

\* The query has a vector if the mode wants one and the text could be embedded.
MayHaveVector(req) == req.text /\ req.mode \in {"semantic", "hybrid"}

\* multi_match is required unless the vector replaces it.
TextRequired(req, vector) == req.text /\ (req.mode \in {"lexical", "hybrid"} \/ ~vector)

\* knn: the PageSize documents nearest to the vector, among those that pass the filters.
Nearest(req) ==
  LET near == Filtered(req) \cap vectors IN
  {m \in near : Cardinality({n \in near : Near[n] > Near[m]}) < PageSize}

Neighbours(req, vector) == IF vector THEN Nearest(req) ELSE {}

Hits(req, vector) ==
  Neighbours(req, vector) \cup
  IF TextRequired(req, vector) THEN Filtered(req) \cap Mentions ELSE Filtered(req)

Score(req, vector, m) ==
  (IF TextRequired(req, vector) /\ m \in Mentions THEN score[m] ELSE 0)
  + IF m \in Neighbours(req, vector) THEN Near[m] ELSE 0

\* Plausible mistakes: no tiebreaker, and a sort that is the same with and without a text.
SortKeyUntied(req, vector, m) ==
  (IF req.text THEN <<Score(req, vector, m)>> ELSE <<>>) \o <<Received(m), 0>>
SortKeyOfDate(req, vector, m) == <<Received(m), Id[m]>>

\* The sort values of a hit: score, date and id with a text, date and id without one.
SortKey(req, vector, m) ==
  (IF req.text THEN <<Score(req, vector, m)>> ELSE <<>>) \o <<Received(m), Id[m]>>

\* Descending, the first difference decides.
Before(k, l) == \E i \in DOMAIN k : k[i] > l[i] /\ \A j \in 1 .. i - 1 : k[j] = l[j]

\* The hits behind the cursor, and the pages they may begin with.
Rest(req, vector, from) ==
  {m \in Hits(req, vector) : from = <<>> \/ Before(from, SortKey(req, vector, m))}

PagesOf(req, vector, rest) ==
  {page \in SUBSET rest :
     /\ IF Cardinality(rest) <= PageSize THEN page = rest ELSE Cardinality(page) = PageSize
     /\ \A m \in page, n \in rest \ page :
          ~Before(SortKey(req, vector, n), SortKey(req, vector, m))}

\* A full page has a next one: its cursor is the sort of its last hit.
NextCursor(req, vector, page) ==
  IF Cardinality(page) # PageSize THEN <<>>
  ELSE LET last == CHOOSE m \in page :
                     \A n \in page : ~Before(SortKey(req, vector, m), SortKey(req, vector, n))
       IN  SortKey(req, vector, last)

\* What makes two pages parts of one list: the same sort of the same documents.
Ranking(req, vector) ==
  IF req.text THEN [ask |-> req, vector |-> vector, edition |-> changes]
              ELSE [ask |-> req, vector |-> FALSE, edition |-> 0]

\* A page is answered.  A search that takes three seconds is answered with what there is.
Answer(req, vector, rest, late) ==
  \E page \in PagesOf(req, vector, rest) :
    /\ cursor' = NextCursor(req, vector, page)
    /\ stage' = IF cursor' = <<>> THEN "ended" ELSE "more"
    /\ shown' = shown \cup page
    /\ twice' = twice \cup (shown \cap page)
    /\ lasting' = IF stage = "first" THEN Hits(req, vector) ELSE lasting
    /\ rankings' = rankings \cup {Ranking(req, vector)}
    /\ partial' = (partial \/ late)
    /\ ask' = req
    /\ UNCHANGED <<clock, index, natural>>

\* Elasticsearch refuses a cursor with more or fewer values than the sort has: 400.
Fits(req, from) == from = <<>> \/ Len(from) = IF req.text THEN 3 ELSE 2

Searches(req) ==
  \E vector \in {FALSE, MayHaveVector(req)} :
    LET rest == Rest(req, vector, cursor) IN
    \/ Answer(req, vector, rest, FALSE)
    \/ \E found \in SUBSET rest : found # rest /\ Answer(req, vector, found, TRUE)

Refused ==
  /\ stage' = "refused"
  /\ UNCHANGED <<clock, index, natural, ask, cursor, shown, twice, lasting, rankings, partial>>

\* POST /search/mail: the same request with the last page's cursor.
SearchMail ==
  /\ ~natural /\ stage \in {"first", "more"}
  /\ Searches(ask)

\* POST /search/mail/natural-language: the words are understood once more.
SearchNatural(plan) ==
  /\ natural /\ stage \in {"first", "more"}
  /\ IF Unsupported(plan) \/ ~Fits(Requested(plan), cursor)
       THEN Refused
       ELSE Searches(Requested(plan))

-----------------------------------------------------------------------------
(* What happens between two pages. *)

\* A message is indexed, moved, read or deleted, or its vector arrives; the scores follow.
IndexChanges ==
  /\ stage \in {"first", "more"}
  /\ changes < MaxChanges /\ changes' = changes + 1
  /\ \E m \in Message :
       \/ matching' = (matching \ {m}) \cup ({m} \ matching) /\ UNCHANGED vectors
       \/ vectors' = vectors \cup {m} /\ UNCHANGED matching
  /\ score' \in [Mentions -> 1 .. 2]
  /\ lasting' = lasting \cap matching'
  /\ UNCHANGED <<clock, natural, ask, stage, cursor, shown, twice, rankings, partial>>

Midnight ==
  /\ stage \in {"first", "more"}
  /\ changes < MaxChanges /\ changes' = changes + 1
  /\ now' = now + Day
  /\ UNCHANGED <<start, zone, matching, vectors, score, reading>>

Init ==
  /\ start \in Starts /\ now = start /\ zone \in Zones
  /\ matching \in SUBSET Message /\ vectors = Message \ Late
  /\ score = [m \in Mentions |-> 1] /\ changes = 0
  /\ natural \in BOOLEAN
  /\ ask \in [text : BOOLEAN, mode : Modes, window : {Always}]
  /\ ask.text \/ ask.mode = "hybrid"
  /\ natural => ~ask.text
  /\ stage = "first" /\ cursor = <<>>
  /\ shown = {} /\ twice = {} /\ lasting = {} /\ rankings = {} /\ partial = FALSE

Next == SearchMail \/ (\E plan \in Plans : SearchNatural(plan)) \/ IndexChanges \/ Midnight

Spec == Init /\ [][Next]_vars

-----------------------------------------------------------------------------
(* Properties. *)

\* A reading goes on exactly while there is a cursor, and the cursor has the values that the
\* request it came with is sorted by: Elasticsearch refuses no reader who repeats the request
\* (search_after and sort, SearchService.search_mail).
ReadingInv ==
  /\ start \in Starts /\ now \in Nat /\ now >= start /\ zone \in Zones
  /\ matching \subseteq Message /\ vectors \subseteq Message
  /\ score \in [Mentions -> 1 .. 2] /\ changes \in 0 .. MaxChanges
  /\ natural \in BOOLEAN /\ ask.text \in BOOLEAN /\ ask.mode \in Modes
  /\ stage \in {"first", "more", "ended", "refused"}
  /\ shown \subseteq Message /\ twice \subseteq shown /\ lasting \subseteq Message
  /\ partial \in BOOLEAN
  /\ stage = "more" => cursor # <<>>
  /\ stage \in {"first", "ended"} => cursor = <<>>
  /\ cursor \in Seq(Int) /\ Fits(ask, cursor)

\* Pages put together are the list: if they were sorted alike - by date, whatever changes
\* meanwhile, or by one score - and no answer was partial, then no message is shown twice, and
\* who has read to the end has seen every message that was a result all the time
\* (search_after, the id as tiebreaker, next_page_cursor).
PagesMakeTheList ==
  Cardinality(rankings) <= 1 /\ ~partial =>
    /\ twice = {}
    /\ stage = "ended" => lasting \subseteq shown

\* Whatever phrase the first page is asked with, on whatever day and in whatever zone, its
\* window is right: it begins and ends with the days the phrase names and the period's hours,
\* over leap days and the ends of weeks, months and years (translate_date_range_intent).
WindowsAreRight == stage = "first" => \A r \in Intents(2) : IsRight(r, now, zone)

\* The strengthening of PagesMakeTheList.  The rankings are those of the requests so far, the
\* last one's among them.  If they are one, the cursor parts the results: what was shown is not
\* behind it, and what has been a result all the time was shown or is.
Alike == (\A x, y \in rankings : x = y) /\ ~partial
Parted(vector) ==
  /\ lasting \subseteq Hits(ask, vector)
  /\ \A m \in shown : ~Before(cursor, SortKey(ask, vector, m))
  /\ \A m \in lasting : m \in shown \/ Before(cursor, SortKey(ask, vector, m))
ListInv ==
  /\ IsFiniteSet(rankings)
  /\ \A x \in rankings : x.edition \in 0 .. changes
  /\ stage = "first" => shown = {} /\ rankings = {}
  /\ stage = "more" => \E x \in rankings : x.ask = ask
  /\ Alike =>
       /\ twice = {}
       /\ stage = "ended" => lasting \subseteq shown
       /\ stage = "more" =>
            \A vector \in BOOLEAN : Ranking(ask, vector) \in rankings => Parted(vector)

SearchInv == ReadingInv /\ ListInv
=============================================================================
