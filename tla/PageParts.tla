------------------------------ MODULE PageParts -----------------------------
(***************************************************************************)
(* The pages of the web client that load lists and change them: the folder *)
(* lists and the search of the mail page, and the tree of the docs page.   *)
(* They do not share state: a behaviour is of the page that onPage names   *)
(* from its first state, and the others have no state in it.  A variable   *)
(* that several pages have is that of the page.                            *)
(***************************************************************************)
EXTENDS Integers, Sequences, FiniteSets

CONSTANTS
    Mails, Folders, Home, MaxOps, MaxFetches,                            \* MailListing
    Queries, FieldSets, PageSize, StartMail, MaxMail, MaxSearches, SearchEvents, \* MailSearch
    MaxPages, PageRequests, PageFaults, Tags                             \* DocPages

VARIABLES
    onPage,  \* the page this behaviour is of
    \* MailListing
    where, seen, activeFolderId, lists, have, outdated, fetch, copies, kept, pickable, counts,
    queue, queued, fetched, unheard, dirty, unseen, flipped, drifted,
    \* MailSearch
    live, arrived, input, timer, query, fields, results, offset, hasMore, inFlight, searching,
    loadingMore, late, gone, begun,
    \* DocPages
    pageRows, pagesMade, named, docs, selectedId, active, loadingDoc, templateOpen,
    pendingParentId, exempt, tagged, muddled,
    \* of more than one
    asking, issued, trouble, crossing, mixture

Listing == INSTANCE MailListing WITH
    stale <- outdated, offered <- pickable, unlisted <- unseen, Messages <- Mails
Find == INSTANCE MailSearch WITH
    used <- arrived, filter <- fields, loading <- searching, requests <- asking, sent <- issued,
    events <- trouble, crossed <- crossing, mixed <- mixture,
    Filters <- FieldSets, MaxRequests <- MaxSearches, MaxEvents <- SearchEvents
Pg == INSTANCE DocPages WITH
    rows <- pageRows, used <- pagesMade, requests <- asking, sent <- issued, faults <- trouble,
    excused <- exempt, crossed <- crossing, mixed <- mixture, wanted <- tagged,
    MaxRequests <- PageRequests, MaxFaults <- PageFaults

listVars   == <<where, seen, activeFolderId, lists, have, outdated, fetch, copies, kept, pickable,
               counts, queue, queued, fetched, unheard, dirty, unseen, flipped, drifted>>
findVars   == <<live, arrived, input, timer, query, fields, results, offset, hasMore, inFlight,
               searching, loadingMore, late, gone, begun>>
treeVars   == <<pageRows, pagesMade, named, docs, selectedId, active, loadingDoc, templateOpen,
               pendingParentId, exempt, tagged, muddled>>
sharedVars == <<asking, issued, trouble, crossing, mixture>>
pageVars   == <<onPage, listVars, findVars, treeVars, sharedVars>>

NoList ==
    /\ where = 0 /\ seen = 0 /\ activeFolderId = 0 /\ lists = 0 /\ have = 0 /\ outdated = 0
    /\ fetch = 0 /\ copies = 0 /\ kept = 0 /\ pickable = 0 /\ counts = 0 /\ queue = 0 /\ queued = 0
    /\ fetched = 0 /\ unheard = 0 /\ dirty = 0 /\ unseen = 0 /\ flipped = 0 /\ drifted = 0
NoFind ==
    /\ live = 0 /\ arrived = 0 /\ input = 0 /\ timer = 0 /\ query = 0 /\ fields = 0 /\ results = 0
    /\ offset = 0 /\ hasMore = 0 /\ inFlight = 0 /\ searching = 0 /\ loadingMore = 0 /\ late = 0
    /\ gone = 0 /\ begun = 0
NoTree ==
    /\ pageRows = 0 /\ pagesMade = 0 /\ named = 0 /\ docs = 0 /\ selectedId = 0 /\ active = 0
    /\ loadingDoc = 0 /\ templateOpen = 0 /\ pendingParentId = 0 /\ exempt = 0 /\ tagged = 0
    /\ muddled = 0
NoShared == asking = 0 /\ issued = 0 /\ trouble = 0 /\ crossing = 0 /\ mixture = 0

-----------------------------------------------------------------------------
InitList == onPage = "listing" /\ Listing!Init /\ NoFind /\ NoTree /\ NoShared
InitFind == onPage = "search" /\ Find!Init /\ NoList /\ NoTree
InitTree == onPage = "pages" /\ Pg!Init /\ NoList /\ NoFind

FirstPage == InitList \/ InitFind \/ InitTree

InList ==
    /\ onPage = "listing" /\ Listing!Next
    /\ UNCHANGED <<onPage, findVars, treeVars, sharedVars>>
InFind == onPage = "search" /\ Find!Next /\ UNCHANGED <<onPage, listVars, treeVars>>
InTree == onPage = "pages" /\ Pg!Next /\ UNCHANGED <<onPage, listVars, findVars>>

StepPage == InList \/ InFind \/ InTree

PageSpec == FirstPage /\ [][StepPage]_pageVars

-----------------------------------------------------------------------------
(* What was done ahead of the server is undone when it fails: at rest the  *)
(* lists and the counts of the folders are right, but for what ops and     *)
(* fetches that crossed, bulk actions, moves and lost answers leave untold *)
(* (mail/page.tsx, runner.ts).                                             *)
ListingHolds == onPage = "listing" => Listing!ListingHolds

(* The results shown are of the search shown, none twice and none skipped, *)
(* loaded one page at a time, and what is searched is what is in the box   *)
(* (mail/page.tsx).                                                        *)
SearchHolds == onPage = "search" => Find!SearchHolds

(* However the answers of the docs page cross: no page gets out of reach   *)
(* unseen, the list is the server's, the page shown is the selected one    *)
(* (docs/page.tsx, docs.service.ts).                                       *)
PagesHold == onPage = "pages" => Pg!PagesHold
=============================================================================
