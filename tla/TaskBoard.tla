----------------------------- MODULE TaskBoard -----------------------------
(***************************************************************************)
(* The tasks page of one tab (tasks/page.tsx) with the sheet in which a    *)
(* task is edited (TaskModal.tsx), over the rows of the table Task.  The   *)
(* page keeps a list and changes it with what each answer says when it     *)
(* comes; requests are served in any order.  The sheet stays mounted when  *)
(* it is closed, and saves its form whole - but for a field that is empty  *)
(* there, which is not sent, and which the server then leaves as it was.   *)
(* Of a task: whether it is done, and one text that may be empty (as its   *)
(* description, date, link and recurrence; a title may not).  Dropping a   *)
(* card on a column of the board writes what a toggle writes.              *)
(***************************************************************************)
EXTENDS Naturals, FiniteSets

CONSTANTS MaxTasks,     \* bound on tasks ever created
          MaxRequests,  \* bound on requests ever sent
          MaxFaults,    \* bound on requests that fail, or whose answer is lost
          Recurring     \* tasks whose completion creates the next occurrence

Tasks   == 1 .. MaxTasks
New     == 0            \* the key of the sheet for a task to be created
Texts   == {"", "first", "second"}
Row     == [done : BOOLEAN, text : Texts]
Filters == {"ALL", "TODO"}   \* DONE as TODO; TODAY loads all

VARIABLES
    rows, used,         \* the table, a function on the ids there are; ids ever given
    \* the tab
    tasks,              \* its list, a function on ids
    doubled,            \* ids that are on the list twice
    filter, loading,
    offered,            \* ids shown since selectedIds was last cleared: it is a subset of them
    bulk,               \* what the loop of a bulk action still has to do
    modal,              \* key, open, form, saving of the sheet; base: its form when
                        \* mounted; touched: the fields the user changed since
    requests, sent, faults,
    \* history
    loadedFor,          \* the filter of the list
    mixed,              \* two loads were under way at once, or one failed
    crossed,            \* tasks two of whose writes crossed, or one failed, or a load overlapped
    unlisted,           \* next occurrences, of which the page is not told
    wanted,             \* each row as the user chose it
    stale               \* tasks written from what is older than what the user chose since

table == <<rows, used>>
list  == <<tasks, doubled>>
view  == <<filter, loading>>
picks == <<offered, bulk>>
calls == <<requests, sent, faults>>
hist  == <<loadedFor, mixed, crossed, unlisted, wanted, stale>>
vars  == <<table, list, view, picks, modal, calls, hist>>

Kinds   == {"load", "set", "save", "create", "remove"}
Tables  == UNION {[S -> Row] : S \in SUBSET Tasks}
\* by is what sent it; got is what came back.
Request == [n : 1 .. MaxRequests, kind : Kinds, task : Tasks \cup {New}, row : Row, filter : Filters,
            by : {"hand", "quick", "bulk"}, at : {"sent", "answered", "refused"}, got : Tables]
Empty   == [done |-> FALSE, text |-> ""]
Done    == [done |-> TRUE, text |-> ""]
NoBulk  == [kind |-> "none", left |-> {}]

TypeOK ==
    /\ rows \in Tables /\ tasks \in Tables /\ used \in 0 .. MaxTasks /\ doubled \subseteq DOMAIN tasks
    /\ filter \in Filters /\ loading \in BOOLEAN
    /\ offered \subseteq Tasks
    /\ bulk \in [kind : {"none", "set", "remove"}, left : SUBSET Tasks]
    /\ modal \in [key : Tasks \cup {New}, open : BOOLEAN, form : Row, base : Row,
                  touched : SUBSET {"done", "text"}, saving : 0 .. MaxRequests]
    /\ requests \subseteq Request
    /\ sent \in 0 .. MaxRequests /\ faults \in 0 .. MaxFaults
    /\ loadedFor \in Filters /\ mixed \in BOOLEAN
    /\ crossed \subseteq Tasks /\ unlisted \subseteq Tasks /\ stale \subseteq Tasks
    /\ wanted \in [Tasks -> Row]

-----------------------------------------------------------------------------
Loads   == {r \in requests : r.kind = "load"}
Writes  == requests \ Loads
\* The tasks a request is about, as far as that is known.
About(r) == (IF r.kind = "create" THEN DOMAIN r.got ELSE {r.task}) \cap Tasks

Matches(f, row) == f = "ALL" \/ ~row.done

Ask(kind, i, row) ==
    [n |-> sent + 1, kind |-> kind, task |-> i, row |-> row, filter |-> filter,
     by |-> "hand", at |-> "sent", got |-> << >>]

\* Send q beside the other requests R.
SendsBeside(R, q) ==
    /\ sent < MaxRequests /\ sent' = sent + 1
    /\ requests' = R \cup {q}
    /\ crossed' = crossed \cup
           IF q.kind = "load" THEN UNION {About(r) : r \in R}
           ELSE {i \in About(q) : \E r \in R : r.kind = "load" \/ i \in About(r)}

Sends(q) == SendsBeside(requests, q)

\* The page has just asked for the list.
Init ==
    /\ used = 2 /\ rows = [i \in 1 .. 2 |-> [done |-> (i = 2), text |-> "first"]]
    /\ tasks = << >> /\ doubled = {} /\ filter = "ALL" /\ loading = TRUE
    /\ offered = {} /\ bulk = NoBulk
    /\ modal = [key |-> New, open |-> FALSE, form |-> Empty, base |-> Empty, touched |-> {},
              saving |-> 0]
    /\ sent = 1 /\ faults = 0
    /\ requests = {[n |-> 1, kind |-> "load", task |-> New, row |-> Empty, filter |-> "ALL",
                    by |-> "hand", at |-> "sent", got |-> << >>]}
    /\ loadedFor = "ALL" /\ mixed = FALSE /\ crossed = {} /\ unlisted = {} /\ stale = {}
    /\ wanted = [i \in Tasks |-> IF i \in DOMAIN rows THEN rows[i] ELSE Empty]

-----------------------------------------------------------------------------
(* The user.  The sheet is modal, and so is the confirmation.              *)

\* The cards are shown.
Listed(i) == ~modal.open /\ ~loading /\ i \in DOMAIN tasks

\* A filter tab; loadTasks does not abort a load under way.
SetFilter(f) ==
    /\ ~modal.open /\ f # filter
    /\ filter' = f /\ loading' = TRUE /\ offered' = {}
    /\ Sends([Ask("load", New, Empty) EXCEPT !.filter = f])
    /\ mixed' = (Loads # {})
    /\ UNCHANGED <<table, list, bulk, modal, faults, loadedFor, unlisted, wanted, stale>>

\* handleToggle, handleDrop: the status the card does not show.
Toggle(i) ==
    /\ Listed(i)
    /\ LET new == [tasks[i] EXCEPT !.done = ~@] IN
       /\ Sends(Ask("set", i, new))
       /\ wanted' = [wanted EXCEPT ![i].done = new.done]
    /\ UNCHANGED <<table, list, view, picks, modal, faults, loadedFor, mixed, unlisted, stale>>

Delete(i) ==
    /\ Listed(i) /\ Sends(Ask("remove", i, Empty))
    /\ UNCHANGED <<table, list, view, picks, modal, faults, loadedFor, mixed, unlisted, wanted, stale>>

\* handleQuickAdd, one at a time; the text is read before the request.
QuickAdd ==
    /\ ~modal.open /\ used < MaxTasks /\ ~\E r \in requests : r.by = "quick"
    /\ Sends([Ask("create", New, Empty) EXCEPT !.by = "quick"])
    /\ UNCHANGED <<table, list, view, picks, modal, faults, loadedFor, mixed, unlisted, wanted, stale>>

\* One request of a bulk action; the task goes off what is left to do.  It
\* says what the user chose at the click, by now perhaps otherwise.
BulkRequest(R, kind, i, left) ==
    /\ SendsBeside(R, [Ask(kind, i, Done) EXCEPT !.by = "bulk"])
    /\ bulk' = [kind |-> kind, left |-> left \ {i}]
    /\ stale' = stale \cup IF kind = "set" /\ ~wanted'[i].done THEN {i} ELSE {}

\* toggleSelect on any of the cards, by now or earlier, then the bulk action.
StartBulk(kind) ==
    /\ ~modal.open /\ bulk.kind = "none"
    /\ \E selectedIds \in SUBSET offered :
          /\ sent + Cardinality(selectedIds) <= MaxRequests
          /\ wanted' = [i \in Tasks |-> IF kind = "set" /\ i \in selectedIds
                                         THEN [wanted[i] EXCEPT !.done = Done.done] ELSE wanted[i]]
          /\ \E i \in selectedIds : BulkRequest(requests, kind, i, selectedIds)
    /\ UNCHANGED <<table, list, view, offered, modal, faults, loadedFor, mixed, unlisted>>

-----------------------------------------------------------------------------
(* The sheet.                                                              *)

\* Mutant: one form for all tasks.
OpenFormKept(key, form) ==
    modal' = IF key = modal.key THEN [modal EXCEPT !.open = TRUE]
             ELSE [key |-> key, open |-> TRUE, form |-> modal.form, base |-> form, touched |-> {}, saving |-> 0]

\* React mounts the sheet anew, and so its form, when the key changes.
OpenForm(key, form) ==
    modal' = IF key = modal.key THEN [modal EXCEPT !.open = TRUE]
             ELSE [key |-> key, open |-> TRUE, form |-> form, base |-> form, touched |-> {}, saving |-> 0]

OpenEdit(i) ==
    /\ Listed(i) /\ OpenForm(i, tasks[i])
    /\ UNCHANGED <<table, list, view, picks, calls, hist>>

OpenCreate ==
    /\ ~modal.open /\ OpenForm(New, Empty)
    /\ UNCHANGED <<table, list, view, picks, calls, hist>>

EditForm ==
    /\ modal.open /\ modal.saving = 0
    /\ \/ modal' = [modal EXCEPT !.form.done = ~@, !.touched = @ \cup {"done"}]
       \/ \E text \in {"", "second"} : modal' = [modal EXCEPT !.form.text = text, !.touched = @ \cup {"text"}]
    /\ UNCHANGED <<table, list, view, picks, calls, hist>>

\* Also while it is saving.
CloseModal ==
    /\ modal.open /\ modal' = [modal EXCEPT !.open = FALSE]
    /\ UNCHANGED <<table, list, view, picks, calls, hist>>

\* The fields a save sends: an empty text is sent as undefined.
Carried == {"done"} \cup IF modal.form.text = "" THEN {} ELSE {"text"}

\* A field the user did not change, that the form has from an older row.
Older(f, want) == f \notin modal.touched /\ modal.form[f] = modal.base[f] /\ modal.form[f] # want[f]

Save ==
    /\ modal.open /\ modal.saving = 0
    /\ modal' = [modal EXCEPT !.saving = sent + 1]
    /\ LET i == modal.key IN
       IF i = New
       THEN /\ used < MaxTasks /\ Sends(Ask("create", New, modal.form))
            /\ UNCHANGED <<wanted, stale>>
       ELSE /\ Sends(Ask("save", i, modal.form))
            /\ wanted' = [wanted EXCEPT ![i] =
                             [f \in DOMAIN @ |-> IF f \in modal.touched \cap Carried THEN modal.form[f] ELSE @[f]]]
            /\ stale' = stale \cup IF \E f \in Carried : Older(f, wanted[i]) THEN {i} ELSE {}
    /\ UNCHANGED <<table, list, view, picks, faults, loadedFor, mixed, unlisted>>

-----------------------------------------------------------------------------
(* The server (tasks.service.ts).                                          *)

Finds(r) == r.kind \in {"load", "create"} \/ r.task \in DOMAIN rows

Spawns(r) ==
    /\ r.kind \in {"set", "save"} /\ r.task \in Recurring
    /\ r.row.done /\ ~rows[r.task].done

\* The next occurrence is a copy of the row as it was read.
NewRow(r) == IF Spawns(r) THEN rows[r.task] ELSE r.row

Adds(r) == r.kind = "create" \/ Spawns(r)

\* The row after a save: the server writes the fields that are sent.
Merged(form, row) == [done |-> form.done, text |-> IF form.text = "" THEN row.text ELSE form.text]

Changed(r) ==
    CASE r.kind = "set"    -> [rows EXCEPT ![r.task].done = r.row.done]
      [] r.kind = "save"   -> [rows EXCEPT ![r.task] = Merged(r.row, @)]
      [] r.kind = "remove" -> [i \in DOMAIN rows \ {r.task} |-> rows[i]]
      [] OTHER -> rows

Written(r) ==
    IF ~Adds(r) THEN Changed(r)
    ELSE [i \in DOMAIN rows \cup {used + 1} |-> IF i = used + 1 THEN NewRow(r) ELSE Changed(r)[i]]

Answer(r) ==
    CASE r.kind = "load"   -> [i \in {j \in DOMAIN rows : Matches(r.filter, rows[j])} |-> rows[i]]
      [] r.kind = "create" -> [i \in {used + 1} |-> r.row]
      [] r.kind = "remove" -> << >>
      [] OTHER             -> [i \in {r.task} |-> Changed(r)[i]]

Replaces(r, q) == requests' = (requests \ {r}) \cup {q}
Fault == faults < MaxFaults /\ faults' = faults + 1

\* Served; or served, and the answer is lost.
Serve(r) ==
    /\ r.at = "sent" /\ Finds(r) /\ (Adds(r) => used < MaxTasks)
    /\ rows' = Written(r) /\ used' = IF Adds(r) THEN used + 1 ELSE used
    /\ wanted' = IF Adds(r) THEN [wanted EXCEPT ![used'] = NewRow(r)] ELSE wanted
    /\ unlisted' = IF Spawns(r) THEN unlisted \cup {used'} ELSE unlisted
    /\ \/ /\ Replaces(r, [r EXCEPT !.at = "answered", !.got = Answer(r)]) /\ UNCHANGED faults
          /\ crossed' = IF r.kind = "create" /\ Loads # {} THEN crossed \cup {used'} ELSE crossed
       \/ /\ Fault /\ Replaces(r, [r EXCEPT !.at = "refused"])
          /\ crossed' = crossed \cup IF r.kind = "create" THEN {used'} ELSE About(r)
    /\ UNCHANGED <<list, view, picks, modal, sent, loadedFor, mixed, stale>>

\* There is no such task, or the request fails.
Refuse(r) ==
    /\ r.at = "sent"
    /\ (~Finds(r) /\ UNCHANGED faults) \/ Fault
    /\ Replaces(r, [r EXCEPT !.at = "refused"])
    /\ crossed' = crossed \cup About(r)
    /\ UNCHANGED <<table, list, view, picks, modal, sent, loadedFor, mixed, unlisted, wanted, stale>>

-----------------------------------------------------------------------------
(* The tab takes an answer.                                                *)

Put(d, e) == [i \in DOMAIN d \cup DOMAIN e |-> IF i \in DOMAIN e THEN e[i] ELSE d[i]]
Drop(d, i) == [j \in DOMAIN d \ {i} |-> d[j]]
Ends(r) == requests' = requests \ {r}
Shown   == IF loading' THEN {} ELSE DOMAIN tasks'

\* The list that came is shown, whatever the filter is by now.
TakeLoad(r) ==
    /\ r.kind = "load" /\ Ends(r)
    /\ tasks' = r.got /\ doubled' = {} /\ loading' = FALSE
    /\ loadedFor' = r.filter /\ unlisted' = unlisted \ DOMAIN r.got
    /\ offered' = offered \cup Shown
    /\ UNCHANGED <<table, filter, bulk, modal, sent, faults, mixed, crossed, wanted, stale>>

\* What a write's answer does to the list: a toggle changes a row that is
\* there, a quick add puts one in front unseen, the sheet replaces or adds.
Takes(r) ==
    LET there == DOMAIN r.got \cap DOMAIN tasks IN
    CASE r.kind = "remove" -> tasks' = Drop(tasks, r.task) /\ doubled' = doubled \ {r.task}
      [] r.kind = "set"    -> tasks' = (IF there = {} THEN tasks ELSE Put(tasks, r.got)) /\ UNCHANGED doubled
      [] OTHER             -> /\ tasks' = Put(tasks, r.got)
                              /\ doubled' = IF r.by = "quick" THEN doubled \cup there ELSE doubled

\* The loop of a bulk action goes on, or ends and clears the selection.
Continues(r) ==
    IF r.by = "bulk" /\ bulk.left # {}
    THEN /\ \E i \in bulk.left : BulkRequest(requests \ {r}, bulk.kind, i, bulk.left)
         /\ offered' = offered \cup Shown
    ELSE /\ Ends(r)
         /\ bulk' = IF r.by = "bulk" THEN NoBulk ELSE bulk
         /\ offered' = Shown \cup IF r.by = "bulk" THEN {} ELSE offered
         /\ UNCHANGED <<sent, crossed, stale>>

\* The sheet that saved says so and closes - whichever sheet is open by then.
Saved(r) ==
    modal' = IF r.by = "quick" \/ r.kind \notin {"save", "create"} THEN modal
             ELSE IF modal.saving # r.n THEN [modal EXCEPT !.open = FALSE]
             ELSE [modal EXCEPT !.open = FALSE, !.saving = 0, !.base = modal.form, !.touched = {}]

Take(r) ==
    /\ r.at = "answered"
    /\ \/ TakeLoad(r)
       \/ /\ r.kind # "load" /\ Takes(r) /\ Saved(r)
          /\ UNCHANGED <<table, view, faults, loadedFor, mixed, unlisted, wanted>>
          /\ Continues(r)

\* A message; a failed load leaves the list of another filter in place.
Fail(r) ==
    /\ r.at = "refused"
    /\ loading' = (loading /\ r.kind # "load")
    /\ mixed' = (mixed \/ r.kind = "load")
    /\ modal' = IF modal.saving = r.n THEN [modal EXCEPT !.saving = 0] ELSE modal
    /\ UNCHANGED <<table, list, filter, faults, loadedFor, unlisted, wanted>>
    /\ Continues(r)

Next ==
    \/ \E f \in Filters : SetFilter(f)
    \/ \E i \in Tasks : Toggle(i) \/ Delete(i) \/ OpenEdit(i)
    \/ QuickAdd \/ OpenCreate \/ EditForm \/ CloseModal \/ Save
    \/ \E kind \in {"set", "remove"} : StartBulk(kind)
    \/ \E r \in requests : Serve(r) \/ Refuse(r) \/ Take(r) \/ Fail(r)

Spec == Init /\ [][Next]_vars

-----------------------------------------------------------------------------
Quiet == requests = {}

(* When nothing is under way the list shows rows as they are, no task that *)
(* is gone and none twice, and misses none that the filter asks for, but   *)
(* for tasks whose writes or loads crossed or failed, and for the next     *)
(* occurrence of a task just completed, of which the page is not told.     *)
ListAgrees ==
    Quiet => \A i \in Tasks \ crossed :
        /\ i \in DOMAIN tasks => i \in DOMAIN rows /\ tasks[i] = rows[i] /\ i \notin doubled
        /\ i \in DOMAIN rows \ unlisted /\ Matches(filter, rows[i]) /\ ~mixed => i \in DOMAIN tasks

(* The list is that of the tab that is chosen, unless loads overlapped or  *)
(* failed.                                                                 *)
ListIsOfFilter == Loads = {} /\ ~mixed => loadedFor = filter /\ ~loading

(* A task is as the user chose it last, field by field, although the sheet *)
(* saves its whole form and a bulk action goes on long after the click.    *)
(* Not so: a field that was emptied keeps what it had; a task saved from a *)
(* form older than that choice, which happens when the sheet of the same   *)
(* task is opened again, is as that form; and one that the user set to do  *)
(* while a bulk action had yet to come to it, is done.                     *)
TasksAreChosen ==
    Quiet => \A i \in DOMAIN rows \ (crossed \cup stale) : rows[i] = wanted[i]

BoardHolds == TypeOK /\ ListAgrees /\ ListIsOfFilter /\ TasksAreChosen
=============================================================================
