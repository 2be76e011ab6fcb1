------------------------------ MODULE DocPages ------------------------------
(***************************************************************************)
(* The tree of a user's pages: the rows of the table Document              *)
(* (docs.service.ts) and the docs page of one tab (docs/page.tsx and       *)
(* DocTree.tsx), which keeps a list of them and the page that is open, and *)
(* changes both with what each answer says when it comes.  Requests are    *)
(* served in any order.  A page has a parent, a title and tags; favourites *)
(* and covers are written the way tags are, without the menu's closure,    *)
(* and the suffix of a copy's title is left out.  The editor keeps the     *)
(* title also in the document that is edited together (the map meta of     *)
(* DocsEditor.tsx), and gives it to the page whenever it has synced.       *)
(***************************************************************************)
EXTENDS Naturals, FiniteSets

CONSTANTS MaxPages,     \* bound on pages ever created
          MaxRequests,  \* bound on requests ever sent
          MaxFaults,    \* bound on requests that fail, or whose answer is lost
          Tags

Pages == 1 .. MaxPages
None  == 0              \* parentId of a page at the top, selectedId of no page
Row   == [parent : Pages \cup {None}, title : {"first", "renamed"}, tags : SUBSET Tags]

VARIABLES
    rows,        \* the table, a function on the ids of the pages there are
    used,        \* ids ever given
    named,       \* pages whose document edited together has a title, "renamed"
    \* the tab
    docs,        \* its list of pages
    selectedId, active,      \* active: id and tags of activeDocs
    loadingDoc,
    templateOpen, pendingParentId,
    requests, sent, faults,
    \* history
    excused,     \* pages out of reach since their ancestor's removal, or a blind request
    crossed,     \* pages two of whose writes were under way at once, or one failed, or that
                 \* were selected while an editor of another page gave its title
    mixed,       \* something else was opened, closed or failed during a load
    wanted,      \* tags of each page as the user clicked them
    muddled      \* pages whose menu showed tags that are not theirs

table == <<rows, used, named>>
page  == <<selectedId, active, loadingDoc>>
picker == <<templateOpen, pendingParentId>>
hist  == <<excused, crossed, mixed, wanted, muddled>>
vars  == <<table, docs, page, picker, requests, sent, faults, hist>>

Kinds == {"load", "open", "create", "duplicate", "remove", "move", "rename", "tags"}
IsTable(d) == d \in [DOMAIN d -> Row] /\ DOMAIN d \subseteq Pages

\* A request: its arguments, whether its page was selected when it was sent,
\* and whether the user did not see the tree as it is; got is what came back.
Request(got) ==
    [n : 1 .. MaxRequests, kind : Kinds, page : Pages \cup {None}, parent : Pages \cup {None},
     tags : SUBSET Tags, shown : BOOLEAN, at : {"sent", "answered", "refused"},
     blind : BOOLEAN, got : {got}]

NoDoc == [id |-> None, tags |-> {}]

TypeOK ==
    /\ IsTable(rows) /\ IsTable(docs) /\ used \in 0 .. MaxPages /\ named \subseteq Pages
    /\ selectedId \in Pages \cup {None}
    /\ active \in [id : Pages \cup {None}, tags : SUBSET Tags]
    /\ loadingDoc \in BOOLEAN /\ templateOpen \in BOOLEAN
    /\ pendingParentId \in Pages \cup {None}
    /\ \A r \in requests : IsTable(r.got) /\ r \in Request(r.got)
    /\ sent \in 0 .. MaxRequests /\ faults \in 0 .. MaxFaults
    /\ excused \subseteq Pages /\ crossed \subseteq Pages /\ mixed \in BOOLEAN
    /\ wanted \in [Pages -> SUBSET Tags] /\ muddled \subseteq Pages

-----------------------------------------------------------------------------
\* S and the pages below, level by level.
Below(d, S) ==
    LET level[k \in 0 .. MaxPages] ==
            IF k = 0 THEN S
            ELSE LET above == level[k - 1]
                 IN  above \cup {p \in DOMAIN d : d[p].parent \in above}
    IN  level[MaxPages]

\* buildTree: the children of a page that is in the tree are in the tree.
\* A page whose parent is missing, or that is its own ancestor, is not.
Shown(d)  == Below(d, {p \in DOMAIN d : d[p].parent = None})
Hidden(d) == DOMAIN d \ Shown(d)

\* x and the pages below it.
Subtree(d, x) == Below(d, {x})

Tree(d) == [p \in DOMAIN d |-> d[p].parent]

Reshapes(r) == r.kind \in {"create", "duplicate", "remove", "move", "load"}

Of(kind, p) == {r \in requests : r.kind = kind /\ r.page = p}
Opens       == {r \in requests : r.kind = "open"}
Loads       == {r \in requests : r.kind = "load"}

\* Writes under way that the list of the tab will take p's new state from.
Pending(p) == {r \in requests : r.kind = "load" \/ (r.page = p /\ r.kind # "open")}

Ask(kind, p) ==
    [n |-> sent + 1, kind |-> kind, page |-> p, parent |-> None, tags |-> {},
     shown |-> p \in Pages \cap {selectedId}, at |-> "sent", got |-> << >>, blind |-> FALSE]

\* Send q; a request that reshapes the tree is blind beside another one.
SendsDoubting(q, doubted) ==
    LET others == {r \in requests : Reshapes(r)}
        alone  == ~Reshapes(q) \/ others = {}
        seen   == Tree(docs) = Tree(rows)
    IN  /\ sent < MaxRequests /\ sent' = sent + 1
        /\ requests' = {IF Reshapes(r) THEN [r EXCEPT !.blind = @ \/ ~alone] ELSE r : r \in requests}
                       \cup {[q EXCEPT !.blind = @ \/ ~alone \/ ~seen]}
        /\ crossed' = crossed \cup (doubted \cap Pages) \cup
                      IF q.kind # "open" /\ Pending(q.page) # {} THEN {q.page} \cap Pages ELSE {}

Sends(q) == SendsDoubting(q, {})

\* The page has just asked for the list, or it has it.
Init ==
    /\ used = 2 /\ named = {}
    /\ rows = [p \in 1 .. 2 |-> [parent |-> p - 1, title |-> "first", tags |-> {}]]
    /\ selectedId = None /\ active = NoDoc /\ loadingDoc = FALSE
    /\ templateOpen = FALSE /\ pendingParentId = None
    /\ \/ sent = 0 /\ docs = rows /\ requests = {}
       \/ sent = 1 /\ docs = << >> /\ requests = {[Ask("load", None) EXCEPT !.n = 1]}
    /\ faults = 0
    /\ excused = {} /\ crossed = {} /\ mixed = FALSE
    /\ wanted = [p \in Pages |-> {}] /\ muddled = {}

-----------------------------------------------------------------------------
(* The user.  The template picker and the confirmation are modal.          *)

\* selectDoc, in the tree, among the favourites or on a link of the assistant;
\* a load under way is not aborted.
Select(p) ==
    /\ ~templateOpen /\ p \in DOMAIN docs /\ p # selectedId
    /\ selectedId' = p /\ loadingDoc' = TRUE
    /\ Sends(Ask("open", p))
    /\ mixed' = (Opens # {} \/ Of("remove", p) # {})
    /\ muddled' = IF Of("tags", p) # {} THEN muddled \cup {p} ELSE muddled
    /\ UNCHANGED <<table, docs, active, picker, faults, excused, wanted>>

\* The way back of small screens.
Back ==
    /\ ~templateOpen /\ selectedId # None
    /\ selectedId' = None /\ active' = NoDoc
    /\ mixed' = (mixed \/ Opens # {})
    /\ UNCHANGED <<table, docs, loadingDoc, picker, requests, sent, faults, excused, crossed, wanted,
                   muddled>>

OpenTemplatePicker(p) ==
    /\ ~templateOpen /\ sent < MaxRequests /\ used < MaxPages /\ p \in Shown(docs) \cup {None}
    /\ templateOpen' = TRUE /\ pendingParentId' = p
    /\ UNCHANGED <<table, docs, page, requests, sent, faults, hist>>

\* What pendingParentId is while the picker is closed is never read.
CloseTemplatePicker ==
    /\ templateOpen /\ templateOpen' = FALSE /\ pendingParentId' = None
    /\ UNCHANGED <<table, docs, page, requests, sent, faults, hist>>

CreateFromTemplate ==
    /\ templateOpen /\ templateOpen' = FALSE /\ pendingParentId' = None
    /\ Sends([Ask("create", None) EXCEPT !.parent = pendingParentId,
                                         !.blind = pendingParentId \notin Shown(docs) \cup {None}])
    /\ UNCHANGED <<table, docs, page, faults, excused, mixed, wanted, muddled>>

Duplicate(p) ==
    /\ ~templateOpen /\ p \in Shown(docs) /\ used < MaxPages
    /\ Sends(Ask("duplicate", p))
    /\ UNCHANGED <<table, docs, page, picker, faults, excused, mixed, wanted, muddled>>

Remove(p) ==
    /\ ~templateOpen /\ p \in Shown(docs)
    /\ Sends(Ask("remove", p))
    /\ mixed' = (mixed \/ Opens # {})
    /\ UNCHANGED <<table, docs, page, picker, faults, excused, wanted, muddled>>

\* DocTreeItem.onDrop: any page but x itself, x's own subpages included.
Drop(x, p) ==
    /\ ~templateOpen /\ {x, p} \subseteq Shown(docs) /\ x # p
    /\ Sends([Ask("move", x) EXCEPT !.parent = p, !.blind = p \in Subtree(docs, x)])
    /\ UNCHANGED <<table, docs, page, picker, faults, excused, mixed, wanted, muddled>>

\* handleTitleChange: the editor that is shown gives its title, and the list is
\* changed at the selected page.
TitleChange ==
    docs' = IF selectedId \in DOMAIN docs THEN [docs EXCEPT ![selectedId].title = "renamed"] ELSE docs

\* handleTitleBlur; the request is for the page that is shown.
Rename ==
    /\ ~templateOpen /\ ~loadingDoc /\ active.id # None
    /\ TitleChange /\ named' = named \cup {active.id}
    /\ SendsDoubting(Ask("rename", active.id),
                     IF selectedId = active.id THEN {} ELSE {selectedId, active.id})
    /\ UNCHANGED <<rows, used, page, picker, faults, excused, mixed, wanted, muddled>>

\* The editor has synced: it takes the title of the document, if there is one.
Synced ==
    /\ ~loadingDoc /\ active.id \in named
    /\ TitleChange
    /\ crossed' = IF selectedId = active.id THEN crossed ELSE crossed \cup ({selectedId} \cap Pages)
    /\ UNCHANGED <<table, page, picker, requests, sent, faults, excused, mixed, wanted, muddled>>

Toggled(S, t) == IF t \in S THEN S \ {t} ELSE S \cup {t}

\* handleTagToggle sends all tags of the page, as the menu shows them.
ToggleTag(t) ==
    /\ ~templateOpen /\ ~loadingDoc /\ active.id # None
    /\ Sends([Ask("tags", active.id) EXCEPT !.tags = Toggled(active.tags, t)])
    /\ wanted' = [wanted EXCEPT ![active.id] = Toggled(@, t)]
    /\ muddled' = IF Of("tags", active.id) \cup Of("open", active.id) # {}
                  THEN muddled \cup {active.id} ELSE muddled
    /\ UNCHANGED <<table, docs, page, picker, faults, excused, mixed>>

-----------------------------------------------------------------------------
(* The server.  No foreign key binds parentId, and nothing but the row     *)
(* itself is removed.                                                      *)

NewRow(r) ==
    IF r.kind = "create" THEN [parent |-> r.parent, title |-> "first", tags |-> {}]
                         ELSE rows[r.page]

Written(r) ==
    CASE r.kind \in {"create", "duplicate"} ->
            [p \in DOMAIN rows \cup {used + 1} |-> IF p = used + 1 THEN NewRow(r) ELSE rows[p]]
      [] r.kind = "remove" -> [p \in DOMAIN rows \ {r.page} |-> rows[p]]
      [] r.kind = "move"   -> [rows EXCEPT ![r.page].parent = r.parent]
      [] r.kind = "rename" -> [rows EXCEPT ![r.page].title = "renamed"]
      [] r.kind = "tags"   -> [rows EXCEPT ![r.page].tags = r.tags]
      [] OTHER -> rows

Adds(r) == r.kind \in {"create", "duplicate"}

Answer(r) ==
    CASE r.kind = "load" -> rows
      [] r.kind = "open" -> [p \in {r.page} |-> rows[p]]
      [] Adds(r)         -> [p \in {used + 1} |-> NewRow(r)]
      [] OTHER           -> << >>

Replaces(r, q) == requests' = (requests \ {r}) \cup {q}

Fault == faults < MaxFaults /\ faults' = faults + 1

\* The pages the list may be wrong about once r has failed.
Doubts(r) == CASE r.kind = "load" -> Pages
               [] r.kind \in {"remove", "move", "rename", "tags"} -> {r.page}
               [] OTHER -> {}

\* Served; or served, and the answer is lost.
Serve(r) ==
    /\ r.at = "sent" /\ (r.kind \in {"load", "create"} \/ r.page \in DOMAIN rows)
    /\ Adds(r) => used < MaxPages
    /\ rows' = Written(r) /\ used' = IF Adds(r) THEN used + 1 ELSE used
    /\ excused' = (excused \cup IF r.kind = "remove" \/ r.blind THEN Hidden(rows') ELSE {})
                  \cap Hidden(rows')
    /\ wanted' = IF r.kind = "duplicate" THEN [wanted EXCEPT ![used'] = rows[r.page].tags] ELSE wanted
    /\ \/ /\ Replaces(r, [r EXCEPT !.at = "answered", !.got = Answer(r)])
          /\ crossed' = IF Adds(r) /\ Loads # {} THEN crossed \cup {used'} ELSE crossed
          /\ UNCHANGED <<faults, muddled>>
       \/ /\ Fault /\ Replaces(r, [r EXCEPT !.at = "refused"])
          /\ crossed' = crossed \cup IF Adds(r) THEN {used'} ELSE Doubts(r)
          /\ muddled' = IF r.kind = "tags" THEN muddled \cup {r.page} ELSE muddled
    /\ UNCHANGED <<named, docs, page, picker, sent, mixed>>

\* There is no such page, or the request fails.
Refuse(r) ==
    /\ r.at = "sent"
    /\ \/ r.page \in Pages \ DOMAIN rows /\ UNCHANGED faults
       \/ Fault
    /\ Replaces(r, [r EXCEPT !.at = "refused"])
    /\ crossed' = crossed \cup Doubts(r)
    /\ muddled' = IF r.kind = "tags" THEN muddled \cup {r.page} ELSE muddled
    /\ UNCHANGED <<table, docs, page, picker, sent, excused, mixed, wanted>>

-----------------------------------------------------------------------------
(* The tab takes an answer.                                                *)

Ends(r) == requests' = requests \ {r}

TakeLoad(r) ==
    /\ r.kind = "load" /\ docs' = r.got /\ Ends(r)
    /\ UNCHANGED <<table, page, picker, sent, faults, hist>>

\* The page that came is shown, whatever is selected by now.
TakeOpen(r) ==
    /\ r.kind = "open" /\ Ends(r)
    /\ active' = [id |-> r.page, tags |-> r.got[r.page].tags] /\ loadingDoc' = FALSE
    /\ UNCHANGED <<table, docs, selectedId, picker, sent, faults, hist>>

\* The new page is put on the list and opened; the parent the picker is for
\* is forgotten, also when it is open again.
TakeNew(r) ==
    LET p == CHOOSE q \in DOMAIN r.got : TRUE IN
    /\ Adds(r) /\ sent < MaxRequests /\ sent' = sent + 1
    /\ docs' = [q \in DOMAIN docs \cup {p} |-> IF q = p THEN r.got[p] ELSE docs[q]]
    /\ selectedId' = p /\ loadingDoc' = TRUE
    /\ requests' = (requests \ {r}) \cup {[Ask("open", p) EXCEPT !.shown = TRUE]}
    /\ mixed' = (Opens # {})
    /\ muddled' = IF Of("tags", p) # {} THEN muddled \cup {p} ELSE muddled
    /\ pendingParentId' = IF r.kind = "create" THEN None ELSE pendingParentId
    /\ UNCHANGED <<table, active, templateOpen, faults, excused, crossed, wanted>>

\* Mutant: the page that is removed stays open.
TakeRemovedStaysOpen(r) ==
    /\ r.kind = "remove" /\ Ends(r)
    /\ docs' = [p \in DOMAIN docs \ {r.page} |-> docs[p]]
    /\ UNCHANGED <<table, page, picker, sent, faults, hist>>

\* What was selected when the user asked decides whether the page closes.
TakeRemoved(r) ==
    /\ r.kind = "remove" /\ Ends(r)
    /\ docs' = [p \in DOMAIN docs \ {r.page} |-> docs[p]]
    /\ IF r.shown
       THEN selectedId' = None /\ active' = NoDoc /\ mixed' = (mixed \/ Opens # {})
       ELSE UNCHANGED <<selectedId, active, mixed>>
    /\ UNCHANGED <<table, loadingDoc, picker, sent, faults, excused, crossed, wanted, muddled>>

TakeMoved(r) ==
    /\ r.kind = "move" /\ Ends(r)
    /\ docs' = IF r.page \in DOMAIN docs THEN [docs EXCEPT ![r.page].parent = r.parent] ELSE docs
    /\ UNCHANGED <<table, page, picker, sent, faults, hist>>

\* The tags are also put on the page that is shown, whichever it is by now.
TakeTags(r) ==
    /\ r.kind = "tags" /\ Ends(r)
    /\ docs' = IF r.page \in DOMAIN docs THEN [docs EXCEPT ![r.page].tags = r.tags] ELSE docs
    /\ active' = IF active.id = None THEN active ELSE [active EXCEPT !.tags = r.tags]
    /\ muddled' = IF active.id \in {None, r.page} THEN muddled ELSE muddled \cup {active.id}
    /\ UNCHANGED <<table, selectedId, loadingDoc, picker, sent, faults, excused, crossed, mixed, wanted>>

Take(r) ==
    /\ r.at = "answered"
    /\ \/ TakeLoad(r) \/ TakeOpen(r) \/ TakeNew(r) \/ TakeRemoved(r) \/ TakeMoved(r) \/ TakeTags(r)
       \/ /\ r.kind = "rename" /\ Ends(r)
          /\ UNCHANGED <<table, docs, page, picker, sent, faults, hist>>

\* A message; only the spinner and the picker's parent change.
Fail(r) ==
    /\ r.at = "refused" /\ Ends(r)
    /\ loadingDoc' = IF r.kind = "open" THEN FALSE ELSE loadingDoc
    /\ mixed' = (mixed \/ r.kind = "open")
    /\ pendingParentId' = IF r.kind = "create" THEN None ELSE pendingParentId
    /\ UNCHANGED <<table, docs, selectedId, active, templateOpen, sent, faults, excused, crossed, wanted,
                   muddled>>

Next ==
    \/ Back \/ CloseTemplatePicker \/ CreateFromTemplate \/ Rename \/ Synced
    \/ \E p \in Pages : Select(p) \/ Duplicate(p) \/ Remove(p) \/ \E x \in Pages : Drop(x, p)
    \/ \E p \in Pages \cup {None} : OpenTemplatePicker(p)
    \/ \E t \in Tags : ToggleTag(t)
    \/ \E r \in requests : Serve(r) \/ Refuse(r) \/ Take(r) \/ Fail(r)

Spec == Init /\ [][Next]_vars

-----------------------------------------------------------------------------
Quiet == requests = {}

(* No page gets out of the tree, where only its mark as a favourite or a   *)
(* link could find it, but by the removal of a page above it, by a drop    *)
(* onto its own subpage, or by a request made while the user did not see   *)
(* the tree as it was.                                                     *)
PagesReachable == Hidden(rows) \subseteq excused

(* When nothing is under way the list is what the server holds, but for    *)
(* pages two of whose writes crossed or failed, and those that were        *)
(* selected, but not yet or never shown, while the page that stayed open   *)
(* gave its title.                                                         *)
ListAgrees ==
    Quiet => \A p \in Pages \ crossed :
        (p \in DOMAIN docs <=> p \in DOMAIN rows) /\ (p \in DOMAIN docs => docs[p] = rows[p])

(* When nothing is being loaded the page that is shown is the selected     *)
(* one, unless another was opened, closed or removed during a load.        *)
ShownIsSelected == Opens = {} /\ ~mixed => active.id = selectedId /\ ~loadingDoc

(* No editor stays open on a page that is gone.                            *)
ShownExists == Quiet /\ ~mixed /\ active.id \notin crossed \cup {None} => active.id \in DOMAIN rows

(* A page has the tags the user chose for it, unless a toggle overlapped   *)
(* with another one or with the loading of a page.                         *)
TagsAreChosen ==
    Quiet => \A p \in DOMAIN rows \ muddled : rows[p].tags = wanted[p]

PagesHold == TypeOK /\ PagesReachable /\ ListAgrees /\ ShownIsSelected /\ ShownExists /\ TagsAreChosen

(* What the dialog promises: a document goes with all its subpages.        *)
SubpagesGoToo == \A p \in DOMAIN rows : rows[p].parent \in DOMAIN rows \cup {None}
=============================================================================
