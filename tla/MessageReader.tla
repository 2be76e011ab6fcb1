--------------------------- MODULE MessageReader ---------------------------
(***************************************************************************)
(* The reader of the mail page (openMessage in mail/page.tsx, with         *)
(* lib/mailBodyCache.ts): the row that is selected, the body that is       *)
(* shown, and the read flags of the rows, those of the folder and those of *)
(* a search, which are set before the server knows.  A new open aborts the *)
(* fetch of the one before.  A message is looked up in the folder first,   *)
(* then in the results; one that is in neither counts as read.             *)
(***************************************************************************)
EXTENDS Naturals, FiniteSets

CONSTANTS Messages,
          Drafts,              \* those that are drafts: opened for editing
          Folders,             \* sets of messages that a folder may list
          MaxOpens, MaxEvents  \* bounds: opens; faults, refetches, closings

Nothing == "nothing"

VARIABLES
    selected, shown,       \* activeMessageId, activeMessage
    final,                 \* is the body shown the final one?
    loading,               \* the spinner
    openAbort,             \* number of the fetch that may be aborted
    fetches, opens,
    cache, watched,        \* bodies in the cache; bodies being polled for
    nav,                   \* the row the debounce of j and k waits to open
    folder,                \* messages of the folder that is listed
    listRead, unread,      \* flags of its rows, its unread count
    found, foundRead,      \* the results of a search, their flags
    serverRead, marks,     \* flags at the server; markRead requests under way
    embedding,             \* bodies the server has still to finish
    events,
    \* history
    overtaken,             \* selection or body changed under a fetch that was not aborted
    failed,                \* the last open failed, and left the body of the one before
    unmarked,              \* opened with nothing to tell that it was unread: again while it was
                           \* being fetched, without a row, or by a row that has gone astray
    unsaid,                \* the server missed a mark, or the list was read before one arrived
    astray,                \* results that were read before a mark, or whose open was undone
    miscounted             \* a message of another folder was counted off this one

view   == <<selected, shown, final, loading>>
flags  == <<listRead, unread>>
rows   == <<found, foundRead>>
server == <<serverRead, marks, embedding>>
follow == <<overtaken, failed>>
told   == <<unmarked, unsaid, astray, miscounted>>
vars   == <<view, openAbort, fetches, opens, cache, watched, nav, folder, flags, rows, server,
            events, follow, told>>

Fetch == [n : 1 .. MaxOpens, msg : Messages, wasUnread : BOOLEAN, aborted : BOOLEAN,
          from : {"server", "copy", "offline"}]

TypeOK ==
    /\ selected \in Messages \cup {Nothing} /\ shown \in Messages \cup {Nothing}
    /\ final \in BOOLEAN /\ loading \in BOOLEAN
    /\ openAbort \in 0 .. opens /\ fetches \subseteq Fetch /\ opens \in 0 .. MaxOpens
    /\ cache \subseteq Messages \ embedding /\ watched \subseteq Messages
    /\ nav \in Messages \cup {Nothing}
    /\ folder \subseteq Messages /\ listRead \subseteq folder /\ unread \in Nat
    /\ found \subseteq Messages /\ foundRead \subseteq found
    /\ serverRead \subseteq Messages /\ marks \subseteq Messages /\ embedding \subseteq Messages
    /\ events \in 0 .. MaxEvents
    /\ overtaken \in BOOLEAN /\ failed \in BOOLEAN /\ unmarked \subseteq Messages
    /\ unsaid \subseteq Messages /\ astray \subseteq Messages /\ miscounted \in BOOLEAN

Init ==
    /\ selected = Nothing /\ shown = Nothing /\ final = FALSE /\ loading = FALSE
    /\ openAbort = 0 /\ fetches = {} /\ opens = 0 /\ cache = {} /\ watched = {} /\ nav = Nothing
    /\ folder \in Folders /\ found = {}
    /\ listRead = Drafts \cap folder /\ foundRead = {} /\ serverRead = Drafts
    /\ unread = Cardinality(folder \ Drafts)
    /\ marks = {} /\ embedding \in SUBSET (Messages \ Drafts) /\ events = 0
    /\ overtaken = FALSE /\ failed = FALSE /\ unmarked = {} /\ unsaid = {} /\ astray = {}
    /\ miscounted = FALSE

Event == events < MaxEvents /\ events' = events + 1

Marks(m, wasUnread) == marks' = IF wasUnread THEN marks \cup {m} ELSE marks

Aborted(fs) == {[f EXCEPT !.aborted = @ \/ f.n = openAbort] : f \in fs}

-----------------------------------------------------------------------------
WasUnread(m) == IF m \in folder THEN m \notin listRead ELSE m \in found \ foundRead

\* Nothing tells that the message is unread, if it is.
Untold(m) == (\E f \in fetches : f.msg = m) \/ (m \notin folder /\ m \notin found \ astray)

\* The flag is set in the folder and in the results, and the count of the folder
\* that is listed goes down wherever the message is.
Optimistic(m) ==
    IF WasUnread(m)
    THEN /\ listRead' = listRead \cup ({m} \cap folder)
         /\ foundRead' = foundRead \cup ({m} \cap found)
         /\ unread' = IF unread > 0 THEN unread - 1 ELSE unread
         /\ miscounted' = (miscounted \/ m \notin folder)
    ELSE UNCHANGED <<flags, foundRead, miscounted>>

\* From the cache at once, leaving a fetch under way alone; else by a fetch.
Opens(m) ==
    /\ opens < MaxOpens /\ opens' = opens + 1 /\ selected' = m
    /\ Optimistic(m) /\ failed' = FALSE
    /\ unmarked' = IF Untold(m) THEN unmarked \cup {m} ELSE unmarked
    /\ IF m \in cache
       THEN /\ shown' = m /\ final' = TRUE /\ loading' = FALSE /\ Marks(m, WasUnread(m))
            /\ overtaken' = (overtaken \/ fetches # {})
            /\ UNCHANGED <<openAbort, fetches>>
       ELSE /\ \E from \in {"server", "offline"} :
                  fetches' = Aborted(fetches) \cup
                      {[n |-> opens', msg |-> m, wasUnread |-> WasUnread(m), aborted |-> FALSE,
                        from |-> from]}
            /\ openAbort' = opens' /\ loading' = TRUE
            /\ UNCHANGED <<shown, final, marks, overtaken>>
    /\ UNCHANGED <<cache, watched, folder, found, serverRead, embedding, events, unsaid, astray>>

Open(m) == Opens(m) /\ UNCHANGED nav

\* j and k select at once, and open what is settled on.
Navigate(m) ==
    /\ Event /\ selected' = m /\ nav' = m
    /\ overtaken' = (overtaken \/ fetches # {})
    /\ UNCHANGED <<shown, final, loading, openAbort, fetches, opens, cache, watched, folder, flags,
                   rows, server, failed, told>>

NavigateOpens == nav # Nothing /\ Opens(nav) /\ nav' = Nothing

\* Escape, a deletion or a move; or a search, which empties the results.  What
\* is being fetched is not aborted.
Close ==
    /\ Event /\ selected' = Nothing /\ shown' = Nothing
    /\ found' \in {found, {}} /\ foundRead' = foundRead \cap found'
    /\ overtaken' = (overtaken \/ fetches # {}) /\ failed' = FALSE
    /\ UNCHANGED <<final, loading, openAbort, fetches, opens, cache, watched, nav, folder, flags,
                   server, told>>

\* The search is left, and the reader stays.
ClearSearch ==
    /\ found # {} /\ found' = {} /\ foundRead' = {}
    /\ UNCHANGED <<view, openAbort, fetches, opens, cache, watched, nav, folder, flags, server,
                   events, follow, told>>

\* A body that was asked for when the pointer was over a row.
Prefetched(m) ==
    /\ m \notin cache \cup embedding \cup Drafts /\ cache' = cache \cup {m}
    /\ UNCHANGED <<view, openAbort, fetches, opens, watched, nav, folder, flags, rows, server,
                   events, follow, told>>

\* The finally: the spinner is the business of the newest open.
Ends(f) ==
    /\ fetches' = fetches \ {f}
    /\ loading' = IF openAbort = f.n THEN FALSE ELSE loading

\* Mutant: an aborted open keeps its optimistic flag.
RevertNever(f) == UNCHANGED <<flags, astray>>

\* The results keep theirs.
Revert(f) ==
    IF f.wasUnread
    THEN /\ listRead' = listRead \ {f.msg} /\ unread' = unread + 1
         /\ astray' = astray \cup {f.msg}
    ELSE UNCHANGED <<flags, astray>>

\* A draft goes to the compose window; a body that is not final is not cached.
Loads(f, isFinal) ==
    /\ Ends(f)
    /\ IF f.msg \in Drafts
       THEN /\ selected' = Nothing /\ shown' = Nothing
            /\ UNCHANGED <<final, cache, watched, marks>>
       ELSE /\ shown' = f.msg /\ final' = isFinal /\ Marks(f.msg, f.wasUnread) /\ UNCHANGED selected
            /\ cache' = IF isFinal THEN cache \cup {f.msg} ELSE cache
            /\ watched' = IF isFinal THEN watched ELSE watched \cup {f.msg}
    /\ UNCHANGED <<openAbort, opens, nav, folder, flags, rows, serverRead, embedding, events,
                   failed, told>>

Answered(f) ==
    /\ f.from = "server" /\ ~f.aborted
    /\ Loads(f, f.msg \notin embedding) /\ UNCHANGED overtaken

Superseded(f) ==
    /\ f.from = "server" /\ f.aborted /\ Revert(f) /\ Ends(f)
    /\ UNCHANGED <<selected, shown, final, openAbort, opens, cache, watched, nav, folder, rows, server,
                   events, follow, unmarked, unsaid, miscounted>>

\* The network fails: the copy in IndexedDB is asked for.
FallsBack(f) ==
    /\ f.from = "server" /\ ~f.aborted /\ Event
    /\ fetches' = (fetches \ {f}) \cup {[f EXCEPT !.from = "copy"]}
    /\ UNCHANGED <<view, openAbort, opens, cache, watched, nav, folder, flags, rows, server, follow,
                   told>>

\* IndexedDB is not aborted: a copy shows even when the open is superseded.
CopyFound(f) ==
    /\ f.from \in {"copy", "offline"}
    /\ \E isFinal \in {FALSE, f.msg \notin embedding} : Loads(f, isFinal)
    /\ overtaken' = (overtaken \/ f.aborted)

\* The open fails: the selection is cleared, and the body of the open before
\* stays.  Offline, the selection is cleared whoever owns it by now.
NoCopy(f) ==
    /\ f.from \in {"copy", "offline"} /\ Revert(f)
    /\ fetches' = fetches \ {f}
    /\ IF f.from = "copy" /\ f.aborted
       THEN UNCHANGED <<selected, follow>>
       ELSE /\ selected' = Nothing /\ overtaken' = (overtaken \/ f.aborted)
            /\ failed' = ~f.aborted
    /\ loading' = IF f.from = "offline" \/ openAbort = f.n THEN FALSE ELSE loading
    /\ UNCHANGED <<shown, final, openAbort, opens, cache, watched, nav, folder, rows, server, events,
                   unmarked, unsaid, miscounted>>

-----------------------------------------------------------------------------
Marked(m) ==
    /\ m \in marks /\ marks' = marks \ {m}
    /\ \/ serverRead' = serverRead \cup {m} /\ UNCHANGED <<events, unsaid>>
       \/ Event /\ unsaid' = unsaid \cup {m} /\ UNCHANGED serverRead
    /\ UNCHANGED <<view, openAbort, fetches, opens, cache, watched, nav, folder, flags, rows,
                   embedding, follow, unmarked, astray, miscounted>>

\* Polls until the body is final, and gives up after eight times.
Watched(m) ==
    /\ m \in watched /\ watched' = watched \ {m}
    /\ IF m \in embedding THEN UNCHANGED <<cache, final>>
       ELSE cache' = cache \cup {m} /\ final' = (final \/ shown = m)
    /\ UNCHANGED <<selected, shown, loading, openAbort, fetches, opens, nav, folder, flags, rows,
                   server, events, follow, told>>

Embedded(m) ==
    /\ m \in embedding /\ embedding' = embedding \ {m}
    /\ UNCHANGED <<view, openAbort, fetches, opens, cache, watched, nav, folder, flags, rows,
                   serverRead, marks, events, follow, told>>

\* Flags the server gave before it got the marks that are missing in them.
Answers == {a \in SUBSET serverRead : Drafts \subseteq a}
\* What it did not say, or does not yet know.
Missed(a) == (serverRead \cup marks \cup {f.msg : f \in fetches}) \ a

\* The list and the folders are read again.
Refetch ==
    /\ Event
    /\ \E a \in Answers :
          /\ listRead' = a \cap folder /\ unread' = Cardinality(folder \ a)
          /\ unsaid' = unsaid \cup Missed(a)
    /\ UNCHANGED <<view, openAbort, fetches, opens, cache, watched, nav, folder, rows, server, follow,
                   unmarked, astray, miscounted>>

\* Results arrive: the first page replaces what there is, further pages add.
Found ==
    /\ Event
    /\ \E a \in Answers, page \in SUBSET Messages, kept \in {{}, found} :
          /\ found' = kept \cup page
          /\ foundRead' = (foundRead \cap kept) \cup ((page \ kept) \cap a)
          /\ astray' = (astray \cap kept) \cup ((page \ kept) \cap Missed(a))
    /\ UNCHANGED <<view, openAbort, fetches, opens, cache, watched, nav, folder, flags, server, follow,
                   unmarked, unsaid, miscounted>>

Next ==
    \/ \E m \in Messages : \/ Open(m) \/ Navigate(m) \/ Prefetched(m) \/ Marked(m) \/ Watched(m)
                           \/ Embedded(m)
    \/ \E f \in fetches : Answered(f) \/ Superseded(f) \/ FallsBack(f) \/ CopyFound(f) \/ NoCopy(f)
    \/ NavigateOpens \/ Close \/ ClearSearch \/ Refetch \/ Found

Spec == Init /\ [][Next]_vars

-----------------------------------------------------------------------------
Quiet == fetches = {} /\ marks = {}

(* When nothing is being fetched the body shown is that of the selected    *)
(* row - the one that is deleted or moved - unless a change that aborts    *)
(* nothing came while one was being fetched.  After an open that failed    *)
(* the body before it stays, and no row is selected.                       *)
ShownIsSelected ==
    fetches = {} /\ nav = Nothing /\ ~overtaken
        => shown = selected \/ (failed /\ selected = Nothing)

(* The flags set ahead of the server, and the count, agree with it in the  *)
(* end, whichever opens were aborted or failed; but the results keep the   *)
(* flags of opens that were undone, and the count is that of the folder    *)
(* only if no message of another one was opened from the results.          *)
FlagsAgree ==
    /\ Quiet => /\ \A m \in folder \ unsaid : m \in listRead <=> m \in serverRead
                /\ \A m \in found \ (unsaid \cup astray) : m \in foundRead <=> m \in serverRead
    /\ unsaid = {} /\ ~miscounted => unread = Cardinality(folder \ listRead)

(* A message that is shown has been marked read, unless nothing told the   *)
(* page that it was unread, or the request was lost.                       *)
ShownIsRead ==
    Quiet /\ shown # Nothing => shown \in serverRead \cup unmarked \cup unsaid

(* A spinner turns only while the newest open is being fetched.            *)
SpinnerEnds == loading => \E f \in fetches : f.n = openAbort

-----------------------------------------------------------------------------
\* The rows are ahead of the server by the marks that are under way and those
\* that opens will send, of which there is one for each message of the folder.
Ahead(m) == m \in serverRead \cup marks \/ \E f \in fetches : f.msg = m /\ f.wasUnread

FlagsInv ==
    /\ Drafts \subseteq serverRead /\ Drafts \cap folder \subseteq listRead
    /\ Drafts \cap found \subseteq foundRead
    /\ \A m \in folder \ unsaid : m \in listRead <=> Ahead(m)
    /\ \A m \in found \ (unsaid \cup astray) : m \in foundRead <=> Ahead(m)
    /\ \A f \in fetches : f.wasUnread =>
          /\ f.msg \notin Drafts /\ (f.msg \in folder \/ miscounted)
          /\ f.msg \in folder \ unsaid =>
                /\ f.msg \notin serverRead \cup marks
                /\ \A g \in fetches : g.msg = f.msg /\ g.wasUnread => g = f

\* What is shown, or will be without a mark to come, has been marked.
ReadInv ==
    \A m \in Messages \ (unmarked \cup unsaid) :
        m = shown \/ (\E f \in fetches : f.msg = m /\ ~f.wasUnread) => m \in serverRead \cup marks

\* Only the newest fetch is not aborted, and it is that of the selected row.
NewestInv ==
    /\ \A f \in fetches :
          /\ f.n <= opens /\ \A g \in fetches : f.n = g.n => f = g
          /\ ~f.aborted => f.n = openAbort /\ (overtaken \/ selected = f.msg)
    /\ \/ overtaken \/ nav # Nothing \/ shown = selected \/ (failed /\ selected = Nothing)
       \/ \E f \in fetches : ~f.aborted

(* The body shown is that of the selected row, the read flags are the      *)
(* server's, and the spinner stops.                                        *)
ReaderHolds ==
    /\ TypeOK /\ FlagsInv /\ ReadInv /\ NewestInv
    /\ ShownIsSelected /\ FlagsAgree /\ ShownIsRead /\ SpinnerEnds
=============================================================================
