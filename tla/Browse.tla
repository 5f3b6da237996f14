------------------------------- MODULE Browse -------------------------------
(***************************************************************************)
(* Browsing events: the debounced search of App.tsx and its pager, and the *)
(* two paths of getEvents that answer it, Elasticsearch and the database.  *)
(* What a filter (text and category) finds on a path is fixed, and its     *)
(* hits are numbered from 1; an answer is determined by query and path.    *)
(***************************************************************************)
EXTENDS Integers

CONSTANTS
  Filters,   \* texts and categories to search for
  Sizes,     \* page sizes on offer: 12, 24, 48
  Hits,      \* Hits[f][path]: how many events the filter finds
  Window,    \* Elasticsearch's max_result_window, 10000
  Slots,     \* requests that may be under way at once: a bound for TLC
  None

Paths == {"es", "db"}

ASSUME BrowseAssumption ==
  /\ Sizes \subseteq Nat \ {0} /\ Window \in Nat
  /\ Hits \in [Filters -> [Paths -> Nat]]
  /\ None \notin Slots \cup Paths

VARIABLES
  query,    \* searchQuery and selectedCategory, currentPage, pageSize
  timer,    \* whether the debounce timer runs
  request,  \* request[k]: a search under way
  shown,    \* the query that the events on the page answer, and the path
  newest,   \* history: the request sent last, until it is answered
  misled,   \* history: whether the newest request failed or was overtaken
  chosen    \* history: the path whose total, for this very filter, offered the page

browseVars == <<query, timer, request, shown, newest, misled, chosen>>

Query == [filter : Filters, page : Nat \ {0}, size : Sizes]
Idle == [pc |-> "idle", query |-> None, path |-> None]

-----------------------------------------------------------------------------
(***************************************************************************)
(* Offsets: searchEvents keeps the slice inside the window, the database   *)
(* path does not.  An answer holds the events numbered First to Last.      *)
(***************************************************************************)
Smaller(i, j) == IF i < j THEN i ELSE j
Larger(i, j) == IF i < j THEN j ELSE i

EsFrom(page, limit) ==
  Smaller((page - 1) * limit, Larger(0, Window - limit))
DbFrom(page, limit) == (page - 1) * limit

First(q, path) == 1 + (IF path = "es" THEN EsFrom(q.page, q.size) ELSE DbFrom(q.page, q.size))
Last(q, path) == Smaller(First(q, path) + q.size - 1, Hits[q.filter][path])

(***************************************************************************)
(* The pager: the last page, and the pages its buttons lead to.            *)
(***************************************************************************)
Pages(total, size) == (Smaller(total, Window) + size - 1) \div size

FirstButton(page, last) ==
  LET start == Larger(1, page - 2) IN
  IF start + 4 > last THEN Larger(1, last - 4) ELSE start

Numbered(page, last) ==
  {p \in 1 .. last : FirstButton(page, last) <= p /\ p <= FirstButton(page, last) + 4}

ButtonsNeverOff(page, last) ==             \* variant: no button is disabled
  Numbered(page, last) \cup {1, page - 1, page + 1, last}
Buttons(page, last) ==
  Numbered(page, last) \cup (IF page > 1 THEN {1, page - 1} ELSE {})
                       \cup (IF page < last THEN {page + 1, last} ELSE {})

-----------------------------------------------------------------------------
(***************************************************************************)
(* A change of the query starts the timer anew; a request once sent is     *)
(* never cancelled.                                                        *)
(***************************************************************************)
EditNoSearch(q) ==                         \* variant: the size is no dependency
  /\ q # query /\ query' = q
  /\ timer' = (timer \/ q.size = query.size)
Edit(q) == q # query /\ query' = q /\ timer' = TRUE

KeepPage(f) ==                             \* variant: the page is not reset
  /\ Edit([query EXCEPT !.filter = f])
  /\ UNCHANGED <<request, shown, newest, misled, chosen>>
SetFilter(f) ==
  /\ Edit([filter |-> f, page |-> 1, size |-> query.size])
  /\ UNCHANGED <<request, shown, newest, misled, chosen>>

(* The total before the first answer is a million: more than the window. *)
Total == IF shown.path = None THEN Window + 1 ELSE Hits[shown.query.filter][shown.path]

SetSize(size) ==
  /\ Total > 0
  /\ Edit([filter |-> query.filter, page |-> 1, size |-> size])
  /\ UNCHANGED <<request, shown, newest, misled, chosen>>

(* The pager goes by the last answer, which may be one to another filter:   *)
(* then it may lead beyond the end, and from there back only page by page.  *)
SetPage(page) ==
  /\ Total > 0
  /\ Edit([query EXCEPT !.page = page])
  /\ chosen' = IF /\ shown.query.filter = query.filter
                  /\ query.page <= Pages(Total, query.size)
               THEN shown.path ELSE None
  /\ UNCHANGED <<request, shown, newest, misled>>

SendSearch(k) ==
  /\ timer /\ request[k].pc = "idle"
  /\ timer' = FALSE
  /\ request' = [request EXCEPT ![k] = [pc |-> "sent", query |-> query, path |-> None]]
  /\ newest' = k /\ misled' = FALSE
  /\ UNCHANGED <<query, shown, chosen>>

(* getEvents: Elasticsearch or, if it is not connected or fails, the database. *)
getEvents(k, path) ==
  /\ request[k].pc = "sent"
  /\ request' = [request EXCEPT ![k] =
       [pc |-> "served", query |-> request[k].query, path |-> path]]
  /\ UNCHANGED <<query, timer, shown, newest, misled, chosen>>

Forget(k) ==
  /\ request' = [request EXCEPT ![k] = Idle]
  /\ newest' = IF newest = k THEN None ELSE newest

(* An answer is shown whatever has been asked or shown since. *)
Answered(k) ==
  /\ request[k].pc = "served"
  /\ shown' = [query |-> request[k].query, path |-> request[k].path]
  /\ Forget(k)
  /\ misled' = (newest # k)
  /\ UNCHANGED <<query, timer, chosen>>

(* Without an answer, or after an error, the events on the page stay. *)
Failed(k) ==
  /\ request[k].pc # "idle"
  /\ Forget(k)
  /\ misled' = (misled \/ newest = k)
  /\ UNCHANGED <<query, timer, shown, chosen>>

-----------------------------------------------------------------------------
BrowseInit ==
  /\ query \in [filter : Filters, page : {1}, size : Sizes]
  /\ timer = TRUE
  /\ request = [k \in Slots |-> Idle]
  /\ shown = [query |-> query, path |-> None]
  /\ newest = None /\ misled = FALSE /\ chosen = None

BrowseNext ==
  \/ \E f \in Filters : SetFilter(f)
  \/ \E size \in Sizes : SetSize(size)
  \/ \E page \in Buttons(query.page, Pages(Total, query.size)) : SetPage(page)
  \/ \E k \in Slots : \/ SendSearch(k) \/ Answered(k) \/ Failed(k)
                      \/ \E path \in Paths : getEvents(k, path)

BrowseSpec == BrowseInit /\ [][BrowseNext]_browseVars

-----------------------------------------------------------------------------
(* Every variable stays in its domain; no button leads to a page below 1. *)
BrowseTypeOK ==
  /\ query \in Query /\ timer \in BOOLEAN /\ misled \in BOOLEAN
  /\ request \in [Slots -> {Idle} \cup
       [pc : {"sent", "served"}, query : Query, path : Paths \cup {None}]]
  /\ shown \in [query : Query, path : Paths \cup {None}]
  /\ newest \in Slots \cup {None} /\ chosen \in Paths \cup {None}

Settled == ~timer /\ \A k \in Slots : request[k].pc = "idle"

(* When typing, paging and requests have come to rest, the page shows the   *)
(* answer to the query it has, unless the last request failed or an older   *)
(* answer came after its own: there is no other way to see wrong results.   *)
SettledShowsQuery == Settled /\ ~misled => shown.query = query

(* A page reached by the pager of the query's own results has events on it, *)
(* and the first is the one its label names (README.md, "respecting         *)
(* Elasticsearch result window guards"), except that the last page within   *)
(* the window is moved back to end with it.                                 *)
PageHasItsEvents ==
  LET q == shown.query  path == shown.path IN
  /\ Settled /\ ~misled /\ Total > 0
  /\ q.page > 1 => chosen = path
  => /\ First(q, path) <= Last(q, path)
     /\ path = "db" \/ q.page * q.size <= Window => First(q, path) = (q.page - 1) * q.size + 1
=============================================================================
