----------------------------- MODULE MailSearch -----------------------------
(***************************************************************************)
(* Searching on the mail page of one tab (mail/page.tsx): the text typed   *)
(* in the box, searched when it rests, and the structured filter share one *)
(* list of results, loaded page by page.  No search is ever aborted.  A    *)
(* filter is its set of fields.  Every search finds all the mail, and what *)
(* it found is marked with it, to tell the lists of two searches apart.    *)
(***************************************************************************)
EXTENDS Naturals, Sequences, FiniteSets

CONSTANTS Queries,      \* texts that can be searched
          Filters,      \* filters that the dialog can give, as sets of fields
          PageSize,     \* results of a request
          StartMail,    \* messages there are at first
          MaxMail,      \* bound on messages, the newest has the largest number
          MaxRequests,  \* bound on searches and further pages
          MaxEvents     \* bound on requests that fail, rows not written, and messages that
                        \* arrive, leave or are taken off the list

NoText == ""
Fields == UNION Filters
Texts  == Queries \cup {NoText}
Search == [query : Texts, fields : SUBSET Fields]
Plain(q)      == [query |-> q, fields |-> {}]
Structured(f) == [query |-> NoText, fields |-> f]
\* A row is known by its id in the table or, when it is not there, by that
\* of the provider.
Result == [search : Search, mail : 1 .. MaxMail, saved : BOOLEAN]

VARIABLES
    live, used,         \* the messages of the mailbox; numbers given
    \* the tab
    input, timer,       \* searchInput; the text searchDebounceRef waits with
    query, filter,      \* searchQuery; advancedFilter
    results, offset, hasMore,
    inFlight,           \* searchInFlightRef
    loading, loadingMore,
    requests, sent, events,
    \* history
    crossed,            \* a search began or was given up while another was under way
    mixed,              \* a text and a filter at once, or a list emptied under its filter
    late,               \* the search was given up, or replaced, while a text waited
    gone,               \* a message left the mailbox or the list since the search began
    begun               \* the newest message when it began

mailbox == <<live, used>>
modes   == <<input, timer, query, filter>>
list    == <<results, offset, hasMore>>
busy    == <<inFlight, loading, loadingMore>>
calls   == <<requests, sent, events>>
hist    == <<crossed, mixed, late, gone, begun>>
vars    == <<mailbox, modes, list, busy, calls, hist>>

TypeOK ==
    /\ live \subseteq 1 .. used /\ used \in 0 .. MaxMail
    /\ input \in Texts /\ timer \in Texts /\ query \in Texts /\ filter \subseteq Fields
    /\ \A i \in DOMAIN results : results[i] \in Result
    /\ offset \in Nat /\ hasMore \in BOOLEAN
    /\ inFlight \in BOOLEAN /\ loading \in BOOLEAN /\ loadingMore \in BOOLEAN
    /\ \A r \in requests : r.search \in Search /\ r.n \in 1 .. sent
    /\ sent \in 0 .. MaxRequests /\ events \in 0 .. MaxEvents
    /\ crossed \in BOOLEAN /\ mixed \in BOOLEAN /\ late \in BOOLEAN /\ gone \in BOOLEAN
    /\ begun \in 0 .. used

Init ==
    /\ live = 1 .. StartMail /\ used = StartMail
    /\ input = NoText /\ timer = NoText /\ query = NoText /\ filter = {}
    /\ results = << >> /\ offset = 0 /\ hasMore = FALSE
    /\ inFlight = FALSE /\ loading = FALSE /\ loadingMore = FALSE
    /\ requests = {} /\ sent = 0 /\ events = 0
    /\ crossed = FALSE /\ mixed = FALSE /\ late = FALSE /\ gone = FALSE /\ begun = 0

-----------------------------------------------------------------------------
(* The searches.                                                           *)

Searching == query # NoText \/ filter # {}   \* isSearchMode

\* What the page asks more of: the filter, if there is one.
Current == IF filter # {} THEN Structured(filter) ELSE Plain(query)

Reset(reset) ==
    /\ offset' = IF reset THEN 0 ELSE offset
    /\ results' = IF reset THEN << >> ELSE results

\* runSearch and runAdvancedSearch, which differ in the request alone.
Run(s, reset) ==
    /\ sent < MaxRequests /\ sent' = sent + 1
    /\ inFlight' = TRUE
    /\ loading' = (loading \/ reset) /\ loadingMore' = (loadingMore \/ ~reset)
    /\ Reset(reset)
    /\ requests' = requests \cup
           {[n |-> sent + 1, search |-> s, reset |-> reset, offset |-> offset', at |-> "sent",
             got |-> << >>, more |-> FALSE]}
    /\ UNCHANGED <<hasMore, events>>

Begins(s) ==
    /\ Run(s, TRUE)
    /\ crossed' = (requests # {}) /\ gone' = FALSE /\ begun' = used

Stops == UNCHANGED <<offset, hasMore, busy, calls>> /\ crossed' = (crossed \/ requests # {})

Both(q, f) == q # NoText /\ f # {}

\* handleSearchInput
Type(text) ==
    /\ text \in Queries /\ text # input
    /\ input' = text /\ timer' = text /\ late' = FALSE
    /\ UNCHANGED <<mailbox, query, filter, list, busy, calls, crossed, mixed, gone, begun>>

Erase ==
    /\ input # NoText
    /\ input' = NoText /\ timer' = NoText /\ query' = NoText /\ results' = << >>
    /\ Stops /\ mixed' = (mixed \/ filter # {}) /\ late' = FALSE
    /\ UNCHANGED <<mailbox, filter, gone, begun>>

\* The text has rested for 600 ms; a new query is searched.
Rests ==
    /\ timer # NoText /\ timer' = NoText /\ query' = timer
    /\ IF timer # query THEN Begins(Plain(timer)) /\ mixed' = Both(timer, filter)
       ELSE UNCHANGED <<list, busy, calls, crossed, mixed, gone, begun>>
    /\ UNCHANGED <<mailbox, input, filter, late>>

\* handleAdvancedSearch leaves the timer running.
AdvancedSearch(f) ==
    /\ input' = NoText /\ query' = NoText /\ filter' = f
    /\ Begins(Structured(f)) /\ mixed' = FALSE
    /\ late' = (late \/ timer # NoText)
    /\ UNCHANGED <<mailbox, timer>>

\* removeAdvancedFilterField
RemoveField(key) ==
    /\ key \in filter /\ filter' = filter \ {key}
    /\ \/ filter' # {} /\ Begins(Structured(filter'))
       \/ filter' = {} /\ results' = << >> /\ Stops /\ UNCHANGED <<gone, begun>>
    /\ mixed' = (Both(query, filter') \/ (filter' = {} /\ mixed))
    /\ UNCHANGED <<mailbox, input, timer, query, late>>

\* So does clearSearch.
ClearSearch ==
    /\ input' = NoText /\ query' = NoText /\ filter' = {} /\ results' = << >>
    /\ Stops /\ late' = (late \/ timer # NoText)
    /\ UNCHANGED <<mailbox, timer, mixed, gone, begun>>

MayLoad == ~inFlight /\ ~loadingMore /\ hasMore

\* The end of the list is in view.
LoadMore ==
    /\ Searching /\ ~(loading /\ results = << >>) /\ MayLoad
    /\ Run(Current, FALSE)
    /\ UNCHANGED <<mailbox, modes, hist>>

-----------------------------------------------------------------------------
(* The server: a page of the provider's results; persistSearchResults gives *)
(* each the id of its row, or the provider's when the row is not written.  *)

Event == events < MaxEvents /\ events' = events + 1
Replaces(r, q) == requests' = (requests \ {r}) \cup {q}

\* The message in place i, the newest first.
Nth(i) == CHOOSE m \in live : Cardinality({k \in live : k >= m}) = i

Page(r) ==
    LET left == Cardinality(live) - r.offset
        size == IF left < 0 THEN 0 ELSE IF left < PageSize THEN left ELSE PageSize
    IN  [i \in 1 .. size |-> [search |-> r.search, mail |-> Nth(r.offset + i), saved |-> TRUE]]

Serve(r) ==
    /\ r.at = "sent"
    /\ LET answer(page) == [r EXCEPT !.at = "answered", !.got = page,
                                     !.more = Cardinality(live) > r.offset + PageSize] IN
       \/ Replaces(r, answer(Page(r))) /\ UNCHANGED events
       \/ /\ Event
          /\ \E i \in DOMAIN Page(r) : Replaces(r, answer([Page(r) EXCEPT ![i].saved = FALSE]))
    /\ UNCHANGED <<mailbox, modes, list, busy, sent, hist>>

Refuse(r) ==
    /\ r.at = "sent" /\ Event /\ Replaces(r, [r EXCEPT !.at = "refused"])
    /\ UNCHANGED <<mailbox, modes, list, busy, sent, hist>>

\* The entries of seq at the places J, in order.
Place(J, k)  == CHOOSE j \in J : Cardinality({i \in J : i <= j}) = k
Kept(seq, J) == [k \in 1 .. Cardinality(J) |-> seq[Place(J, k)]]

\* Mutant: a further page with the rows that are listed.
AddedTwice(page) == results \o page

\* A further page without the rows that are listed.
Added(page) ==
    results \o Kept(page, {j \in DOMAIN page : \A i \in DOMAIN results : results[i] # page[j]})

\* finally, of whichever search.
Ends(r) ==
    /\ requests' = requests \ {r}
    /\ inFlight' = FALSE /\ loading' = FALSE /\ loadingMore' = FALSE

Take(r) ==
    /\ r.at = "answered" /\ Ends(r)
    /\ results' = IF r.reset THEN r.got ELSE Added(r.got)
    /\ hasMore' = r.more /\ offset' = r.offset + Len(r.got)
    /\ UNCHANGED <<mailbox, modes, sent, events, hist>>

Fail(r) ==
    /\ r.at = "refused" /\ Ends(r)
    /\ UNCHANGED <<mailbox, modes, list, sent, events, hist>>

-----------------------------------------------------------------------------
(* The mailbox changes; a row is taken off the list ahead of its message.  *)

Arrives ==
    /\ Event /\ used < MaxMail /\ used' = used + 1 /\ live' = live \cup {used + 1}
    /\ UNCHANGED <<modes, list, busy, requests, sent, hist>>

Leaves(m) ==
    /\ Event /\ m \in live /\ live' = live \ {m} /\ gone' = TRUE
    /\ UNCHANGED <<used, modes, list, busy, requests, sent, crossed, mixed, late, begun>>

\* handleContextAction, handleDelete
RemoveRow(m) ==
    /\ Event /\ Searching /\ \E i \in DOMAIN results : results[i].mail = m
    /\ results' = Kept(results, {i \in DOMAIN results : results[i].mail # m}) /\ gone' = TRUE
    /\ UNCHANGED <<mailbox, modes, offset, hasMore, busy, requests, sent, crossed, mixed, late, begun>>

Next ==
    \/ \E text \in Queries : Type(text)
    \/ Erase \/ Rests \/ ClearSearch \/ LoadMore \/ Arrives
    \/ \E f \in Filters : AdvancedSearch(f)
    \/ \E key \in Fields : RemoveField(key)
    \/ \E r \in requests : Serve(r) \/ Refuse(r) \/ Take(r) \/ Fail(r)
    \/ \E m \in 1 .. MaxMail : Leaves(m) \/ RemoveRow(m)

Spec == Init /\ [][Next]_vars

-----------------------------------------------------------------------------
\* The searches did not overlap, nor the two ways to search.
Orderly == Searching /\ ~crossed /\ ~mixed

\* The message came before, once with and once without its row.
Again(j) == \E k \in 1 .. j - 1 : results[k].mail = results[j].mail

(* The results shown are of the search shown, and no row is shown twice.   *)
(* The newest comes first, but for a message that came once with and once  *)
(* without its row, and for mail that arrived after the first row was      *)
(* found, in such numbers that it filled the pages behind.                 *)
ResultsAreOfSearch ==
    Orderly =>
        /\ \A i \in DOMAIN results : results[i].search = Current
        /\ \A i, j \in DOMAIN results : i # j => results[i] # results[j]
        /\ ~gone => \A i, j \in DOMAIN results : i < j =>
               \/ results[i].mail > results[j].mail
               \/ Again(j) \/ results[j].mail > results[1].mail

(* Page by page no message is skipped, whatever mail arrives meanwhile:    *)
(* all down to the last row are shown, but those that came after the       *)
(* search began and before its first row.  When a message leaves, the      *)
(* pages behind it move up, and one may be skipped.                        *)
NoneSkipped ==
    Orderly /\ ~gone =>
        \A i \in DOMAIN results : \A m \in live :
            (m > results[i].mail /\ (m <= begun \/ m < results[1].mail)) =>
                \E k \in DOMAIN results : results[k].mail = m

(* However often the end of the list comes into view, one request at a     *)
(* time loads a page (mail/page.tsx:341-346).                              *)
OneRequestAtATime == ~crossed => Cardinality(requests) <= 1

(* What is searched is what is in the box, unless the search was given up  *)
(* or replaced while a text waited: it is searched all the same.           *)
QueryIsInput == timer = NoText => query = input \/ late

(* The spinners stop with the last request.                                *)
SpinnersEnd == requests = {} => ~inFlight /\ ~loading /\ ~loadingMore

SearchHolds ==
    /\ TypeOK /\ ResultsAreOfSearch /\ NoneSkipped /\ OneRequestAtATime
    /\ QueryIsInput /\ SpinnersEnd
=============================================================================
