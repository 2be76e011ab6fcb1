---------------------------- MODULE MailListing ----------------------------
(***************************************************************************)
(* The folder lists of the mail page of one tab (mail/page.tsx), which     *)
(* change before the server does: a message is taken off the list, or its  *)
(* flag set, and an op is left in the outbox that does it later, or tells  *)
(* that it failed.  Lists are of one page; the outbox, modelled in         *)
(* OfflineOutbox, is a queue here.  A query is fetched again when the      *)
(* library (TanStack Query) finds it stale.                                *)
(***************************************************************************)
EXTENDS Naturals, Integers, Sequences, FiniteSets

CONSTANTS Messages, Folders,
          Home,         \* the folder the messages are in at first
          MaxOps,       \* bound on ops ever queued
          MaxFetches    \* bound on lists ever asked for by the user

Gone == "gone"
Ops  == [kind : {"move", "delete", "mark"}, ids : SUBSET Messages, to : Folders, read : BOOLEAN,
         source : Folders, wasUnread : BOOLEAN, bulk : BOOLEAN]

VARIABLES
    where, seen,        \* the server's folder and flag of each message
    \* the tab
    activeFolderId,
    lists, have,        \* the cached lists, functions on messages to their flag; which there are
    stale,              \* lists that were invalidated
    fetch,              \* of each folder: at, got, dirty
    copies, kept,       \* the offline copies of lists; which there are
    offered,            \* ids shown since selectedIds was last cleared: it is a subset of them
    counts,             \* unreadCount and totalCount of the sidebar
    queue, queued, fetched,
    \* history
    unheard,            \* messages the first op has changed, of which the answer was lost
    dirty,              \* <<f, m>>: an op on m was under way when the list of f was fetched,
                        \* its next fetch was called off, or a flag that was set put back
    unlisted,           \* <<f, m>>: m came to f, or failed to leave it, unseen by the list of f
    flipped,            \* messages marked while another mark was under way
    drifted             \* folders whose counts the code does not keep

server == <<where, seen>>
cache  == <<lists, have, stale, copies, kept>>
page   == <<activeFolderId, offered>>
vars   == <<server, page, cache, fetch, counts, queue, queued, fetched, unheard,
            dirty, unlisted, flipped, drifted>>

Lists == UNION {[S -> BOOLEAN] : S \in SUBSET Messages}
Idle  == [at |-> "idle", got |-> << >>, dirty |-> {}]

TypeOK ==
    /\ where \in [Messages -> Folders \cup {Gone}] /\ seen \in [Messages -> BOOLEAN]
    /\ activeFolderId \in Folders /\ offered \subseteq Messages
    /\ \A f \in Folders : lists[f] \in Lists /\ copies[f] \in Lists
    /\ have \subseteq Folders /\ stale \subseteq Folders /\ kept \subseteq Folders
    /\ \A f \in Folders : fetch[f].at \in {"idle", "sent", "answered", "failed"}
    /\ counts \in [Folders -> [unread : Nat, total : Nat]]
    /\ \A i \in DOMAIN queue : queue[i] \in Ops
    /\ queued \in 0 .. MaxOps /\ fetched \in 0 .. MaxFetches
    /\ unheard \subseteq Messages /\ dirty \subseteq Folders \X Messages
    /\ unlisted \subseteq Folders \X Messages
    /\ flipped \subseteq Messages /\ drifted \subseteq Folders

In(f)     == {m \in Messages : where[m] = f}
OnServer(f) == [m \in In(f) |-> seen[m]]
TrueCounts == [f \in Folders |-> [unread |-> Cardinality({m \in In(f) : ~seen[m]}),
                                  total  |-> Cardinality(In(f))]]
Pending(q) == UNION {q[i].ids : i \in DOMAIN q}

Whence(ids) == {where[m] : m \in ids} \ {Gone}

Init ==
    /\ where = [m \in Messages |-> Home] /\ seen = [m \in Messages |-> FALSE]
    /\ activeFolderId = Home
    /\ lists = [f \in Folders |-> << >>] /\ have = {} /\ stale = {}
    /\ fetch = [f \in Folders |-> IF f = Home THEN [Idle EXCEPT !.at = "sent"] ELSE Idle]
    /\ copies = [f \in Folders |-> << >>] /\ kept = {}
    /\ offered = {} /\ counts = TrueCounts
    /\ queue = << >> /\ queued = 0 /\ fetched = 1
    /\ unheard = {} /\ dirty = {} /\ unlisted = {} /\ flipped = {} /\ drifted = {}

-----------------------------------------------------------------------------
(* Fetching.                                                               *)

\* A fetch under way is given up and begun anew.
Fetches(f, q) ==
    fetch' = [fetch EXCEPT ![f] = [at |-> "sent", got |-> << >>, dirty |-> Pending(q)]]

FetchBegins(f, q) ==
    /\ fetched < MaxFetches /\ fetched' = fetched + 1 /\ Fetches(f, q)

\* The list is fetched unless it is there and fresh; after two minutes it is not.
SelectFolder(f) ==
    /\ f # activeFolderId /\ activeFolderId' = f
    /\ \/ fetch[f].at = "idle" /\ FetchBegins(f, queue)
       \/ (fetch[f].at # "idle" \/ f \in have \ stale) /\ UNCHANGED <<fetch, fetched>>
    /\ offered' = offered \cup IF f \in have THEN DOMAIN lists[f] ELSE {}
    /\ UNCHANGED <<server, cache, counts, queue, queued, unheard, dirty, unlisted, flipped, drifted>>

\* The refresh button; the window comes to the front.
Refetch ==
    /\ FetchBegins(activeFolderId, queue)
    /\ UNCHANGED <<server, page, cache, counts, queue, queued, unheard, dirty, unlisted, flipped, drifted>>

ServeList(f) ==
    /\ fetch[f].at = "sent"
    /\ fetch' = [fetch EXCEPT ![f].at = "answered", ![f].got = OnServer(f)]
    /\ UNCHANGED <<server, page, cache, counts, queue, queued, fetched, unheard,
                   dirty, unlisted, flipped, drifted>>

ListFails(f) ==
    /\ fetch[f].at = "sent"
    /\ fetch' = [fetch EXCEPT ![f].at = "failed"]
    /\ UNCHANGED <<server, page, cache, counts, queue, queued, fetched, unheard,
                   dirty, unlisted, flipped, drifted>>

Of(f) == {f} \X Messages

\* The list becomes what was read; excused is what may be wrong with it.
Becomes(f, list, excused) ==
    /\ lists' = [lists EXCEPT ![f] = list] /\ have' = have \cup {f} /\ stale' = stale \ {f}
    /\ offered' = offered \cup IF f = activeFolderId THEN DOMAIN list ELSE {}
    /\ dirty' = (dirty \ Of(f)) \cup excused /\ unlisted' = unlisted \ Of(f)

TakeList(f) ==
    /\ fetch[f].at = "answered" /\ fetch' = [fetch EXCEPT ![f] = Idle]
    /\ Becomes(f, fetch[f].got, {f} \X fetch[f].dirty)
    /\ copies' = [copies EXCEPT ![f] = fetch[f].got] /\ kept' = kept \cup {f}
    /\ UNCHANGED <<server, activeFolderId, counts, queue, queued, fetched, unheard, flipped, drifted>>

\* The offline copy, if there is one; what changed since is not in it.
TakeFailure(f) ==
    /\ fetch[f].at = "failed" /\ fetch' = [fetch EXCEPT ![f] = Idle]
    /\ \/ f \in kept /\ Becomes(f, copies[f], Of(f))
       \/ f \notin kept /\ UNCHANGED <<lists, have, stale, offered, dirty, unlisted>>
    /\ UNCHANGED <<server, activeFolderId, copies, kept, counts, queue, queued, fetched, unheard,
                   flipped, drifted>>

\* The desktop app reads the folders anew every two minutes.
PollFolders ==
    /\ counts' = TrueCounts /\ counts' # counts
    /\ drifted' = {queue[i].source : i \in DOMAIN queue} \cup Whence(Pending(queue))
    /\ UNCHANGED <<server, page, cache, fetch, queue, queued, fetched, unheard, dirty,
                   unlisted, flipped>>

-----------------------------------------------------------------------------
(* The user.                                                               *)

Less(f, S) == [m \in DOMAIN lists[f] \ S |-> lists[f][m]]
Minus(n, k) == IF n < k THEN 0 ELSE n - k

\* updateFolderCounts
Charged(f, unread, total) ==
    [counts EXCEPT ![f] = [unread |-> Minus(@.unread, unread), total |-> Minus(@.total, total)]]

\* setQueryData: what the page writes counts as an answer.
Writes(f, list) ==
    /\ lists' = [lists EXCEPT ![f] = list]
    /\ stale' = stale \ IF f \in have THEN {f} ELSE {}

\* An op is queued; a list that is being fetched may show its messages as they were.
Queues(op) ==
    /\ queued < MaxOps /\ queued' = queued + 1
    /\ queue' = Append(queue, op)
    /\ fetch' = [f \in Folders |-> IF fetch[f].at = "idle" THEN fetch[f]
                                   ELSE [fetch[f] EXCEPT !.dirty = @ \cup op.ids]]

Op(kind, ids) == [kind |-> kind, ids |-> ids, to |-> activeFolderId, read |-> FALSE,
                  source |-> activeFolderId, wasUnread |-> FALSE, bulk |-> FALSE]

\* The list shows m as it is, for all that the code knows.
Sure(f, m) ==
    /\ <<f, m>> \notin dirty \cup unlisted /\ m \notin flipped \cup Pending(queue)
    /\ fetch[f].at = "idle" /\ f \notin stale

\* Rows of other lists that show what is taken away.
Left(ids) == {fm \in (Folders \ {activeFolderId}) \X ids : fm[2] \in DOMAIN lists[fm[1]]}

\* handleMoveToFolder, moveToInbox, deleteMessage, handleContextAction: of a
\* message on the list, or one that a search has found in any folder.
TakeAway(m, kind, to) ==
    /\ where[m] # Gone \/ m \in DOMAIN lists[activeFolderId]
    /\ LET f      == activeFolderId
           listed == m \in DOMAIN lists[f]
           unread == listed /\ ~lists[f][m]
       IN  /\ Queues([Op(kind, {m}) EXCEPT !.to = to, !.wasUnread = unread])
           /\ Writes(f, Less(f, {m}))
           /\ counts' = Charged(f, IF unread THEN 1 ELSE 0, 1)
           /\ drifted' = drifted \cup IF listed /\ Sure(f, m) THEN {} ELSE {f} \cup Whence({m})
           /\ unlisted' = unlisted \cup Left({m})
    /\ UNCHANGED <<server, page, have, copies, kept, fetched, unheard, dirty, flipped>>

\* markRead, markUnread of handleContextAction
Mark(m, read) ==
    /\ m \in DOMAIN lists[activeFolderId] /\ lists[activeFolderId][m] # read
    /\ Queues([Op("mark", {m}) EXCEPT !.read = read, !.wasUnread = read])
    /\ Writes(activeFolderId, [lists[activeFolderId] EXCEPT ![m] = read])
    /\ counts' = [counts EXCEPT ![activeFolderId].unread = IF read THEN Minus(@, 1) ELSE @ + 1]
    /\ drifted' = drifted \cup IF Sure(activeFolderId, m) THEN {} ELSE {activeFolderId} \cup Whence({m})
    /\ flipped' = flipped \cup {x \in {m} : x \in Pending(queue)}
    /\ unlisted' = unlisted \cup Left({m})
    /\ UNCHANGED <<server, page, have, copies, kept, fetched, unheard, dirty>>

\* handleBulkAction: the counts are left alone, and the selection may be of
\* another folder than the active one.
Bulk(kind, read) ==
    /\ \E ids \in SUBSET offered \ {{}} :
          LET f == activeFolderId
              marked == [m \in DOMAIN lists[f] |-> IF m \in ids THEN read ELSE lists[f][m]]
          IN  /\ Queues([Op(kind, ids) EXCEPT !.read = read, !.bulk = TRUE])
              /\ Writes(f, IF kind = "mark" THEN marked ELSE Less(f, ids))
              /\ unlisted' = unlisted \cup Left(ids)
              /\ flipped' = flipped \cup {m \in ids : kind = "mark" /\ m \in Pending(queue)}
              /\ drifted' = drifted \cup {f} \cup Whence(ids)
    /\ offered' = IF activeFolderId \in have THEN DOMAIN lists'[activeFolderId] ELSE {}
    /\ UNCHANGED <<server, activeFolderId, have, copies, kept, counts, fetched, unheard, dirty>>

-----------------------------------------------------------------------------
(* The outbox runs its first op.  The bulk endpoints answer that all is    *)
(* well whichever of the messages they failed to change.  An answer that   *)
(* is lost leaves the op where it is, to be tried again or given up.       *)

Applied(op, done) ==
    /\ where' = [m \in Messages |->
          IF m \notin done THEN where[m]
          ELSE CASE op.kind = "move" -> op.to [] op.kind = "delete" -> Gone [] OTHER -> where[m]]
    /\ seen' = [m \in Messages |-> IF m \in done /\ op.kind = "mark" THEN op.read ELSE seen[m]]

There(op) == {m \in op.ids : where[m] # Gone}

\* All of it, or what a bulk endpoint could do of it.
CanBe(op, done) ==
    /\ op.bulk \/ There(op) = op.ids
    /\ done \subseteq There(op) /\ (op.bulk \/ done = op.ids)

\* What a move brought to its folder, and the counts of that folder, nobody told.
Brought(op, done)  == IF op.kind = "move" THEN {op.to} \X done ELSE {}
BroughtTo(op)      == IF op.kind = "move" THEN {op.to} ELSE {}

Runs ==
    /\ queue # << >> /\ queue' = Tail(queue) /\ unheard' = {}
    /\ LET op == Head(queue) IN
       /\ \E done \in SUBSET op.ids :
             /\ CanBe(op, done) /\ Applied(op, done)
             /\ unlisted' = unlisted \cup ({op.source} \X (op.ids \ done)) \cup Brought(op, done)
       /\ drifted' = drifted \cup BroughtTo(op)
    /\ UNCHANGED <<page, cache, fetch, counts, queued, fetched, dirty, flipped>>

\* The request took effect, and the connection broke before its answer.
RunsUnheard ==
    /\ queue # << >>
    /\ LET op == Head(queue) IN
       /\ \E done \in SUBSET op.ids \ {{}} :
             /\ CanBe(op, done) /\ Applied(op, done)
             /\ unheard' = unheard \cup done
             /\ unlisted' = unlisted \cup Brought(op, done)
       /\ drifted' = drifted \cup BroughtTo(op)
    /\ UNCHANGED <<page, cache, fetch, counts, queue, queued, fetched, dirty, flipped>>

\* invalidateMessages: an active list is fetched again, another when it is selected.
Invalidates(f, q) ==
    IF f = activeFolderId THEN Fetches(f, q) /\ UNCHANGED <<fetched, stale>>
    ELSE stale' = stale \cup {f} /\ UNCHANGED <<fetch, fetched>>

Recharged(op) ==
    [counts EXCEPT ![op.source] =
        [unread |-> @.unread + IF op.wasUnread THEN 1 ELSE 0, total |-> @.total + 1]]

\* Mutant: the counts are put back, the list is not.
RollbackCounts(op, q) ==
    counts' = Recharged(op) /\ UNCHANGED <<lists, stale, fetch, fetched, dirty>>

\* onFailed: a flag is set to the other value, which calls off a fetch that
\* was to come; otherwise the list is asked for again.
Rollback(op, q) ==
    IF op.kind = "mark" /\ ~op.bulk
    THEN /\ Writes(op.source, [m \in DOMAIN lists[op.source] |->
                                  IF m \in op.ids THEN ~op.read ELSE lists[op.source][m]])
         /\ counts' = [counts EXCEPT ![op.source].unread = IF op.read THEN @ + 1 ELSE Minus(@, 1)]
         /\ dirty' = dirty \cup ({op.source} \X unheard)
                            \cup IF op.source \in stale THEN Of(op.source) ELSE {}
         /\ UNCHANGED <<fetch, fetched>>
    ELSE /\ counts' = IF op.bulk THEN counts ELSE Recharged(op)
         /\ Invalidates(op.source, q) /\ UNCHANGED <<lists, dirty>>

\* The last attempt failed; whether one has done it, the page cannot know.
GivesUp ==
    /\ queue # << >> /\ queue' = Tail(queue) /\ Rollback(Head(queue), Tail(queue))
    /\ unheard' = {} /\ drifted' = drifted \cup {Head(queue).source : m \in unheard}
    /\ UNCHANGED <<server, page, have, copies, kept, queued, unlisted, flipped>>

Next ==
    \/ \E f \in Folders : SelectFolder(f) \/ ServeList(f) \/ ListFails(f) \/ TakeList(f) \/ TakeFailure(f)
    \/ Refetch \/ PollFolders \/ Runs \/ RunsUnheard \/ GivesUp
    \/ \E m \in Messages :
          \/ TakeAway(m, "delete", activeFolderId)
          \/ \E f \in Folders \ {activeFolderId} : TakeAway(m, "move", f)
          \/ \E read \in BOOLEAN : Mark(m, read)
    \/ Bulk("delete", FALSE)
    \/ \E read \in BOOLEAN : Bulk("mark", read)

Spec == Init /\ [][Next]_vars

-----------------------------------------------------------------------------
\* Nothing is queued, and no list is being fetched or about to be.
AtRest(f) == queue = << >> /\ fetch[f].at = "idle" /\ f \in have \ stale

(* At rest a list shows the messages that are in its folder, as they are,  *)
(* whatever was done ahead of the server and then failed; but for those    *)
(* with an op under way while the list was fetched, that came meanwhile,   *)
(* that a bulk action left behind unsaid, or were taken away elsewhere,    *)
(* for a flag put back although the server has set it, its answer lost,    *)
(* and for lists whose next fetch the rollback of a flag called off.       *)
ListAgrees ==
    \A f \in Folders : AtRest(f) =>
        \A m \in Messages : <<f, m>> \notin dirty \cup unlisted /\ m \notin flipped =>
            /\ m \in DOMAIN lists[f] <=> where[m] = f
            /\ m \in DOMAIN lists[f] => lists[f][m] = seen[m]

(* At rest the counts are right, but for folders that messages came to, or *)
(* that were read or charged while an op was under way, or by an action    *)
(* from a search or on several messages, or that were put back for an op   *)
(* the server has done, its answers lost.                                  *)
CountsAgree == queue = << >> => \A f \in Folders \ drifted : counts[f] = TrueCounts[f]

ListingHolds == TypeOK /\ ListAgrees /\ CountsAgree
=============================================================================
