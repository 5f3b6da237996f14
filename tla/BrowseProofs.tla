---------------------------- MODULE BrowseProofs ----------------------------
(***************************************************************************)
(* The arithmetic of pages for any window and any number of hits, and what *)
(* the page shows for any number of requests under way.                    *)
(***************************************************************************)
EXTENDS Browse, TLAPS

(* searchEvents never asks beyond max_result_window, unless a single page   *)
(* is larger than it.                                                       *)
THEOREM SliceInWindow ==
  ASSUME NEW page \in Nat \ {0}, NEW limit \in Nat \ {0}
  PROVE  /\ EsFrom(page, limit) \in Nat
         /\ EsFrom(page, limit) + limit <= Larger(Window, limit)
<1>1. (page - 1) * limit \in Nat
  OBVIOUS
<1>2. \A n \in Nat : /\ Smaller(n, Larger(0, Window - limit)) \in Nat
                     /\ Smaller(n, Larger(0, Window - limit)) + limit <= Larger(Window, limit)
  BY BrowseAssumption DEF Smaller, Larger
<1> QED BY <1>1, <1>2 DEF EsFrom

(* Within the window both paths of getEvents return the same slice. *)
THEOREM PathsAgree ==
  ASSUME NEW page \in Nat \ {0}, NEW limit \in Nat \ {0}, page * limit <= Window
  PROVE  EsFrom(page, limit) = DbFrom(page, limit)
<1>1. (page - 1) * limit \in Nat /\ (page - 1) * limit = page * limit - limit
  OBVIOUS
<1>2. page * limit \in Nat
  OBVIOUS
<1> QED BY <1>1, <1>2, BrowseAssumption DEF EsFrom, DbFrom, Smaller, Larger

(* a \div b is at least q when q times b fits into a. *)
LEMMA DivAtLeast ==
  ASSUME NEW a \in Nat, NEW b \in Nat \ {0}, NEW q \in Nat, q * b <= a
  PROVE  a \div b \in Nat /\ q <= a \div b
<1> DEFINE d == a \div b
<1>1. d \in Nat /\ a < (d + 1) * b
  OBVIOUS
<1>2. q * b < (d + 1) * b
  BY <1>1
<1>3. q < d + 1
  BY <1>1, <1>2
<1> QED BY <1>1, <1>3

(* Every hit that the window lets through is on a page that the pager has,  *)
(* on either path.                                                          *)
THEOREM EveryHitHasAPage ==
  ASSUME NEW total \in Nat, NEW size \in Nat \ {0},
         NEW hit \in Nat \ {0}, hit <= Smaller(total, Window),
         NEW page \in Nat \ {0}, (page - 1) * size < hit, hit <= page * size
  PROVE  /\ page <= Pages(total, size)
         /\ EsFrom(page, size) < hit /\ hit <= EsFrom(page, size) + size
         /\ DbFrom(page, size) < hit /\ hit <= DbFrom(page, size) + size
<1> DEFINE m == Smaller(total, Window)
<1>1. m \in Nat /\ hit <= m /\ m <= Window /\ Window \in Nat
  BY BrowseAssumption DEF Smaller
<1>2. (page - 1) * size \in Nat /\ (page - 1) * size = page * size - size /\ page * size \in Nat
  OBVIOUS
<1>3. page * size <= m + size - 1
  BY <1>1, <1>2
<1>4. page <= Pages(total, size)
  BY <1>1, <1>3, DivAtLeast DEF Pages
<1>5. EsFrom(page, size) < hit /\ hit <= EsFrom(page, size) + size
  BY <1>1, <1>2 DEF EsFrom, Smaller, Larger
<1> QED BY <1>2, <1>4, <1>5 DEF DbFrom

(* The pager offers the page one is on, and no page beyond the last. *)
THEOREM PagerShowsPage ==
  ASSUME NEW last \in Nat, NEW page \in 1 .. last
  PROVE  page \in Numbered(page, last) /\ Buttons(page, last) \subseteq 1 .. last
<1>1. page \in Numbered(page, last)
  BY DEF Numbered, FirstButton, Larger
<1>2. Buttons(page, last) \subseteq 1 .. last
  BY DEF Buttons, Numbered
<1> QED BY <1>1, <1>2

-----------------------------------------------------------------------------
(* The strengthening: the page's query is about to be asked for, or was the *)
(* last to be asked for, or is the one shown unless the page is misled.     *)
Asked ==
  \/ timer
  \/ newest # None /\ request[newest].pc # "idle" /\ request[newest].query = query
  \/ newest = None /\ (misled \/ shown.query = query)
IInv == BrowseTypeOK /\ Asked

LEMMA PagesIsNat == ASSUME NEW total \in Nat, NEW size \in Nat \ {0} PROVE Pages(total, size) \in Nat
<1>1. Smaller(total, Window) \in Nat
  BY BrowseAssumption DEF Smaller
<1>2. Smaller(total, Window) + size - 1 \in Nat
  BY <1>1
<1> QED BY <1>2 DEF Pages

LEMMA ButtonsArePages ==
  ASSUME NEW page \in Nat \ {0}, NEW last \in Nat PROVE Buttons(page, last) \subseteq Nat \ {0}
  BY DEF Buttons, Numbered

LEMMA TotalIsNat == BrowseTypeOK => Total \in Nat
  BY BrowseAssumption DEF BrowseTypeOK, Total, Query

LEMMA EditKeeps ==
  ASSUME IInv, NEW q \in Query, Edit(q), UNCHANGED <<request, shown, newest, misled>>,
         chosen' \in Paths \cup {None}
  PROVE  IInv'
  BY DEF IInv, BrowseTypeOK, Asked, Edit

LEMMA SetPageKeeps ==
  ASSUME IInv, NEW page \in Buttons(query.page, Pages(Total, query.size)), SetPage(page)
  PROVE  IInv'
<1>1. query \in Query /\ shown.path \in Paths \cup {None}
  BY DEF IInv, BrowseTypeOK
<1>2. query.page \in Nat \ {0} /\ query.size \in Nat \ {0}
  BY <1>1, BrowseAssumption DEF Query
<1>3. page \in Nat \ {0}
  BY <1>2, TotalIsNat, PagesIsNat, ButtonsArePages DEF IInv
<1>4. [query EXCEPT !.page = page] \in Query
  BY <1>1, <1>3 DEF Query
<1>5. chosen' \in Paths \cup {None}
  BY <1>1 DEF SetPage
<1> QED BY <1>4, <1>5, EditKeeps DEF SetPage

LEMMA RequestKeeps ==
  ASSUME IInv, NEW k \in Slots,
         SendSearch(k) \/ Answered(k) \/ Failed(k) \/ \E path \in Paths : getEvents(k, path)
  PROVE  IInv'
<1>1. CASE SendSearch(k)
  BY <1>1, BrowseAssumption DEF IInv, BrowseTypeOK, Asked, SendSearch
<1>2. CASE Answered(k)
  <2>1. request[k].query \in Query /\ request[k].path \in Paths \cup {None}
    BY <1>2 DEF IInv, BrowseTypeOK, Answered, Idle
  <2>2. BrowseTypeOK'
    BY <1>2, <2>1 DEF IInv, BrowseTypeOK, Answered, Forget
  <2>3. CASE newest = k
    BY <1>2, <2>2, <2>3, BrowseAssumption DEF IInv, Asked, Answered, Forget
  <2>4. CASE newest # k
    <3>1. newest # None => newest \in Slots /\ request'[newest] = request[newest]
      BY <1>2, <2>4 DEF IInv, BrowseTypeOK, Answered, Forget
    <3> QED BY <1>2, <2>2, <2>4, <3>1 DEF IInv, Asked, Answered, Forget
  <2> QED BY <2>3, <2>4
<1>3. CASE Failed(k)
  <2>1. BrowseTypeOK'
    BY <1>3 DEF IInv, BrowseTypeOK, Failed, Forget
  <2>2. CASE newest = k
    BY <1>3, <2>1, <2>2 DEF IInv, Asked, Failed, Forget
  <2>3. CASE newest # k
    <3>1. newest # None => newest \in Slots /\ request'[newest] = request[newest]
      BY <1>3, <2>3 DEF IInv, BrowseTypeOK, Failed, Forget
    <3> QED BY <1>3, <2>1, <2>3, <3>1 DEF IInv, Asked, Failed, Forget
  <2> QED BY <2>2, <2>3
<1>4. CASE \E path \in Paths : getEvents(k, path)
  <2>1. PICK path \in Paths : getEvents(k, path)
    BY <1>4
  <2>2. request[k].query \in Query
    BY <2>1 DEF IInv, BrowseTypeOK, getEvents, Idle
  <2>3. [pc |-> "served", query |-> request[k].query, path |-> path]
          \in [pc : {"sent", "served"}, query : Query, path : Paths \cup {None}]
    BY <2>2
  <2>4. BrowseTypeOK'
    BY <2>1, <2>3 DEF IInv, BrowseTypeOK, getEvents
  <2>5. Asked'
    BY <2>1 DEF IInv, BrowseTypeOK, Asked, getEvents
  <2> QED BY <2>4, <2>5 DEF IInv
<1> QED BY <1>1, <1>2, <1>3, <1>4

LEMMA InitIInv == BrowseInit => IInv
<1> SUFFICES ASSUME BrowseInit PROVE IInv
  OBVIOUS
<1>1. query \in Query
  BY DEF BrowseInit, Query
<1> QED BY <1>1 DEF BrowseInit, IInv, BrowseTypeOK, Asked

LEMMA NextKeepsIInv == IInv /\ [BrowseNext]_browseVars => IInv'
<1> SUFFICES ASSUME IInv, [BrowseNext]_browseVars PROVE IInv'
  OBVIOUS
<1> USE DEF IInv
<1>1. query \in Query /\ chosen \in Paths \cup {None}
  BY DEF BrowseTypeOK
<1>2. CASE \E f \in Filters : SetFilter(f)
  <2>1. PICK f \in Filters : SetFilter(f)
    BY <1>2
  <2>2. [filter |-> f, page |-> 1, size |-> query.size] \in Query
    BY <1>1 DEF Query
  <2> QED BY <1>1, <2>1, <2>2, EditKeeps DEF SetFilter
<1>3. CASE \E size \in Sizes : SetSize(size)
  <2>1. PICK size \in Sizes : SetSize(size)
    BY <1>3
  <2>2. [filter |-> query.filter, page |-> 1, size |-> size] \in Query
    BY <1>1 DEF Query
  <2> QED BY <1>1, <2>1, <2>2, EditKeeps DEF SetSize
<1>4. CASE \E page \in Buttons(query.page, Pages(Total, query.size)) : SetPage(page)
  BY <1>4, SetPageKeeps
<1>5. CASE \E k \in Slots : \/ SendSearch(k) \/ Answered(k) \/ Failed(k)
                            \/ \E path \in Paths : getEvents(k, path)
  BY <1>5, RequestKeeps
<1>6. CASE UNCHANGED browseVars
  BY <1>6 DEF browseVars, BrowseTypeOK, Asked
<1> QED BY <1>2, <1>3, <1>4, <1>5, <1>6 DEF BrowseNext

THEOREM IInvHolds == BrowseSpec => []IInv
<1> QED BY InitIInv, NextKeepsIInv, PTL DEF BrowseSpec

(* The query and everything asked and shown stay queries the page can have. *)
THEOREM BrowseTypeCorrect == BrowseSpec => []BrowseTypeOK
<1>1. IInv => BrowseTypeOK
  BY DEF IInv
<1> QED BY IInvHolds, <1>1, PTL

(* The search effect: at rest, the page answers its query unless the last   *)
(* request failed or was overtaken, however many requests were under way.   *)
THEOREM RestShowsQuery == BrowseSpec => []SettledShowsQuery
<1>1. IInv => SettledShowsQuery
  BY DEF IInv, BrowseTypeOK, Asked, Settled, SettledShowsQuery
<1> QED BY IInvHolds, <1>1, PTL

-----------------------------------------------------------------------------
(***************************************************************************)
(* The page that the pager led to.  A page beyond the first that is still  *)
(* chosen by a path's total is one of the pages of that total, what is     *)
(* shown came over a path, and before the first answer something else      *)
(* accounts for the page: the timer, a request or a failure.               *)
(***************************************************************************)
Offered == query.page > 1 /\ chosen # None
             => query.page <= Pages(Hits[query.filter][chosen], query.size)
ServedByPath == \A k \in Slots : request[k].pc = "served" => request[k].path \in Paths
FirstAnswer == shown.path = None /\ newest = None => timer \/ misled
PagerInv == Offered /\ ServedByPath /\ FirstAnswer

(* No page of the pager starts beyond the last hit. *)
LEMMA PageStartsInside ==
  ASSUME NEW total \in Nat \ {0}, NEW size \in Nat \ {0}, NEW page \in Nat \ {0},
         page = 1 \/ page <= Pages(total, size)
  PROVE  /\ (page - 1) * size \in Nat /\ (page - 1) * size < total
         /\ EsFrom(page, size) \in Nat /\ EsFrom(page, size) < total
<1> DEFINE m == Smaller(total, Window)
<1>1. m \in Nat /\ m <= total
  BY BrowseAssumption DEF Smaller
<1>2. (page - 1) * size \in Nat /\ (page - 1) * size < total
  <2>1. CASE page = 1
    BY <2>1
  <2>2. CASE page # 1
    <3> DEFINE d == (m + size - 1) \div size
    <3>1. m + size - 1 \in Nat /\ d \in Nat /\ page <= d
      BY <1>1, <2>2 DEF Pages
    <3>2. d * size <= m + size - 1
      BY <3>1
    <3> HIDE DEF d
    <3>3. page * size <= d * size
      BY <3>1
    <3>4. (page - 1) * size = page * size - size /\ (page - 1) * size \in Nat
      OBVIOUS
    <3>5. page * size \in Nat /\ d * size \in Nat
      BY <3>1
    <3> QED BY <1>1, <3>2, <3>3, <3>4, <3>5
  <2> QED BY <2>1, <2>2
<1>3. EsFrom(page, size) \in Nat /\ EsFrom(page, size) <= (page - 1) * size
  BY <1>2, BrowseAssumption DEF EsFrom, Smaller, Larger
<1> QED BY <1>2, <1>3

LEMMA InitPager == BrowseInit => PagerInv
  BY DEF BrowseInit, PagerInv, Offered, ServedByPath, FirstAnswer, Idle

LEMMA SetPageOffers ==
  ASSUME IInv, PagerInv, NEW page \in Buttons(query.page, Pages(Total, query.size)), SetPage(page)
  PROVE  PagerInv'
<1>1. /\ query \in Query /\ query' = [query EXCEPT !.page = page] /\ timer' = TRUE
      /\ UNCHANGED <<request, shown, newest, misled>>
      /\ chosen' = IF /\ shown.query.filter = query.filter
                      /\ query.page <= Pages(Total, query.size)
                   THEN shown.path ELSE None
  BY DEF IInv, BrowseTypeOK, SetPage, Edit
<1>2. /\ query'.page = page /\ query'.filter = query.filter /\ query'.size = query.size
      /\ query.page \in Nat \ {0} /\ query.size \in Nat \ {0}
  BY <1>1, BrowseAssumption DEF Query
<1>3. Total \in Nat /\ Pages(Total, query.size) \in Nat
  BY <1>2, TotalIsNat, PagesIsNat DEF IInv
<1>4. Offered'
  <2> SUFFICES ASSUME chosen' # None
               PROVE  page <= Pages(Hits[query.filter][chosen'], query.size)
    BY <1>2 DEF Offered
  <2>1. /\ chosen' = shown.path /\ shown.path # None
        /\ shown.query.filter = query.filter /\ query.page <= Pages(Total, query.size)
    BY <1>1
  <2>2. Total = Hits[query.filter][chosen']
    BY <2>1 DEF Total
  <2>3. page \in 1 .. Pages(Total, query.size)
    BY <1>2, <1>3, <2>1, PagerShowsPage
  <2> QED BY <2>2, <2>3
<1> QED BY <1>1, <1>4 DEF PagerInv, ServedByPath, FirstAnswer

LEMMA NextKeepsPager == IInv /\ PagerInv /\ [BrowseNext]_browseVars => PagerInv'
<1> SUFFICES ASSUME IInv, PagerInv, [BrowseNext]_browseVars PROVE PagerInv'
  OBVIOUS
<1> USE DEF PagerInv
<1>1. /\ query \in Query /\ None \notin Slots \cup Paths
      /\ request \in [Slots -> {Idle} \cup
           [pc : {"sent", "served"}, query : Query, path : Paths \cup {None}]]
  BY BrowseAssumption DEF IInv, BrowseTypeOK
<1>2. CASE \/ \E f \in Filters : SetFilter(f)
           \/ \E size \in Sizes : SetSize(size)
  <2>1. query'.page = 1 /\ timer' = TRUE /\ UNCHANGED <<request, shown, newest, misled>>
    BY <1>2 DEF SetFilter, SetSize, Edit
  <2> QED BY <2>1 DEF Offered, ServedByPath, FirstAnswer
<1>3. CASE \E page \in Buttons(query.page, Pages(Total, query.size)) : SetPage(page)
  BY <1>3, SetPageOffers
<1>4. CASE \E k \in Slots : SendSearch(k)
  <2>1. PICK k \in Slots : SendSearch(k)
    BY <1>4
  <2>2. Offered'
    BY <2>1 DEF SendSearch, Offered
  <2>3. ServedByPath'
    BY <1>1, <2>1 DEF SendSearch, ServedByPath
  <2>4. FirstAnswer'
    BY <1>1, <2>1 DEF SendSearch, FirstAnswer
  <2> QED BY <2>2, <2>3, <2>4
<1>5. CASE \E k \in Slots, path \in Paths : getEvents(k, path)
  <2>1. PICK k \in Slots, path \in Paths : getEvents(k, path)
    BY <1>5
  <2>2. Offered' /\ FirstAnswer'
    BY <2>1 DEF getEvents, Offered, FirstAnswer
  <2>3. ServedByPath'
    BY <1>1, <2>1 DEF getEvents, ServedByPath
  <2> QED BY <2>2, <2>3
<1>6. CASE \E k \in Slots : Answered(k) \/ Failed(k)
  <2>1. PICK k \in Slots : Answered(k) \/ Failed(k)
    BY <1>6
  <2>2. Offered'
    BY <2>1 DEF Answered, Failed, Offered
  <2>3. ServedByPath'
    BY <1>1, <2>1 DEF Answered, Failed, Forget, ServedByPath, Idle
  <2>4. FirstAnswer'
    <3>1. CASE Answered(k)
      BY <1>1, <3>1 DEF Answered, ServedByPath, FirstAnswer
    <3>2. CASE Failed(k)
      BY <1>1, <3>2 DEF Failed, Forget, FirstAnswer
    <3> QED BY <2>1, <3>1, <3>2
  <2> QED BY <2>2, <2>3, <2>4
<1>7. CASE UNCHANGED browseVars
  BY <1>7 DEF browseVars, Offered, ServedByPath, FirstAnswer
<1> QED BY <1>2, <1>3, <1>4, <1>5, <1>6, <1>7 DEF BrowseNext

(* The pager's buttons, Elasticsearch's window and the order of answers     *)
(* together: at rest, a page reached through the pager of the query's own   *)
(* total is not empty, whatever the window and the number of hits, and      *)
(* starts with the event its label names, on the database's path always,    *)
(* and on Elasticsearch's when the page ends within the window.             *)
THEOREM PagesHaveEvents == BrowseSpec => []PageHasItsEvents
<1>1. IInv /\ PagerInv => PageHasItsEvents
  <2> DEFINE q == shown.query
             path == shown.path
             total == Hits[q.filter][path]
  <2> SUFFICES ASSUME IInv, PagerInv, Settled, ~misled, Total > 0, q.page > 1 => chosen = path
               PROVE  /\ First(q, path) <= Last(q, path)
                      /\ path = "db" \/ q.page * q.size <= Window
                           => First(q, path) = (q.page - 1) * q.size + 1
    BY DEF PageHasItsEvents
  <2>1. q = query /\ newest = None /\ ~timer
    BY DEF IInv, Asked, Settled, BrowseTypeOK
  <2>2. q.filter \in Filters /\ q.page \in Nat \ {0} /\ q.size \in Nat \ {0}
    BY BrowseAssumption DEF IInv, BrowseTypeOK, Query
  <2>3. path \in Paths
    BY <2>1 DEF IInv, BrowseTypeOK, PagerInv, FirstAnswer
  <2>4. path # None /\ total \in Nat
    BY <2>2, <2>3, BrowseAssumption
  <2>5. total \in Nat \ {0}
    BY <2>4 DEF Total
  <2>6. q.page = 1 \/ q.page <= Pages(total, q.size)
    BY <2>1, <2>2, <2>4 DEF PagerInv, Offered
  <2>7. /\ (q.page - 1) * q.size \in Nat /\ (q.page - 1) * q.size < total
        /\ EsFrom(q.page, q.size) \in Nat /\ EsFrom(q.page, q.size) < total
    BY <2>2, <2>5, <2>6, PageStartsInside
  <2>8. First(q, path) \in Nat /\ First(q, path) <= total
    BY <2>5, <2>7 DEF First, DbFrom
  <2>9. First(q, path) <= Last(q, path)
    BY <2>2, <2>5, <2>8 DEF Last, Smaller
  <2>10. CASE path = "db"
    BY <2>7, <2>9, <2>10 DEF First, DbFrom
  <2>11. CASE path = "es"
    <3>1. ASSUME q.page * q.size <= Window PROVE EsFrom(q.page, q.size) = (q.page - 1) * q.size
      BY <2>2, <3>1, PathsAgree DEF DbFrom
    <3>2. q.page * q.size <= Window => First(q, path) = (q.page - 1) * q.size + 1
      BY <2>7, <2>11, <3>1 DEF First
    <3> QED BY <2>9, <2>11, <3>2
  <2> QED BY <2>3, <2>10, <2>11 DEF Paths
<1> QED BY <1>1, InitPager, NextKeepsPager, IInvHolds, PTL DEF BrowseSpec
=============================================================================
