---------------------------- MODULE LiveDocument ----------------------------
(***************************************************************************)
(* One shared document: its row (content, yjsState), the copy of it in the *)
(* memory of the collaboration server, and the tabs in which it is edited  *)
(* (collab.server.ts, docs.service.ts, DocsEditor.tsx).                    *)
(*                                                                         *)
(* A Yjs document is a set of insertions that only grows, merged by union. *)
(* An insertion is <<edit, by>>: what was inserted, and the opening of a   *)
(* tab that inserted it; a deletion is an edit like any other.  0 is the   *)
(* text of a template.  content, the JSON text, has no memory of who       *)
(* inserted what: it is a set of edits.                                    *)
(***************************************************************************)
EXTENDS Naturals, FiniteSets

CONSTANTS Tabs,
          Guests,               \* tabs on a share link, without an account
          MaxOpens, MaxEdits,   \* bounds
          MaxEvents             \* on all openings, edits, failures and requests

Texts == 0 .. MaxEdits
Ops   == Texts \X (1 .. MaxOpens)
Rights == {"none", "read", "edit"}

VARIABLES
    content, yjs, versions,  \* the row; {} is null, for yjs also an empty state
    loaded, live, dirty,     \* in the server: loaded, its state, to be stored
    right,                   \* what each tab's user may do now
    opened,                  \* number of the opening of each tab, 0 when closed
    initial, doc,            \* content it was given, its Yjs document
    editable, synced, conn, unsaved,
    opens, events,
    \* history
    typed, lost,             \* edits typed; those lost for a cause the code accepts
    writers,                 \* openings that have connected with the right to edit
    raced,                   \* content was inserted while another tab held a text
    given, overtyped         \* what the document came with; it was typed over too early

row    == <<content, yjs, versions>>
server == <<loaded, live, dirty>>
tab    == <<opened, initial, doc, editable, synced, conn, unsaved>>
hist   == <<typed, lost, writers, raced, given, overtyped>>
vars   == <<row, server, right, tab, opens, events, hist>>

EditsOf(ops) == {op[1] : op \in ops}

TypeOK ==
    /\ content \subseteq Texts /\ yjs \subseteq Ops
    /\ \A v \in versions : v # {} /\ v \subseteq Texts
    /\ loaded \in BOOLEAN /\ live \subseteq Ops /\ dirty \in BOOLEAN
    /\ ~loaded => live = {} /\ ~dirty
    /\ right \in [Tabs -> Rights]
    /\ opened \in [Tabs -> 0 .. MaxOpens] /\ initial \in [Tabs -> SUBSET Texts]
    /\ doc \in [Tabs -> SUBSET Ops]
    /\ editable \in [Tabs -> BOOLEAN] /\ synced \in [Tabs -> BOOLEAN]
    /\ conn \in [Tabs -> {"off", "read", "edit"}] /\ unsaved \in [Tabs -> SUBSET Texts]
    /\ \A t \in Tabs : conn[t] # "off" => synced[t] /\ loaded
    /\ opens \in 0 .. MaxOpens /\ events \in 0 .. MaxEvents
    /\ typed \subseteq Texts \ {0} /\ lost \subseteq Texts
    /\ writers \subseteq 1 .. MaxOpens /\ raced \in BOOLEAN
    /\ given \subseteq {0} /\ overtyped \in BOOLEAN

\* A new document is empty, or has the content of a template or of a copy.
Init ==
    /\ content \in {{}, {0}} /\ yjs = {} /\ versions = {}
    /\ loaded = FALSE /\ live = {} /\ dirty = FALSE
    /\ right \in {r \in [Tabs -> {"read", "edit"}] : \A t \in Tabs \ Guests : r[t] = "edit"}
    /\ opened = [t \in Tabs |-> 0] /\ initial = [t \in Tabs |-> {}] /\ doc = initial
    /\ editable = [t \in Tabs |-> FALSE] /\ synced = editable
    /\ conn = [t \in Tabs |-> "off"] /\ unsaved = initial
    /\ opens = 0 /\ events = 0
    /\ typed = {} /\ lost = {} /\ writers = {} /\ raced = FALSE
    /\ given = content /\ overtyped = FALSE

Event == events < MaxEvents /\ events' = events + 1

-----------------------------------------------------------------------------
(* A tab.                                                                  *)

\* The page reads the document, whatever its mode, and mounts the editor.
Open(t) ==
    /\ opened[t] = 0 /\ right[t] # "none" /\ opens < MaxOpens
    /\ Event /\ opens' = opens + 1 /\ opened' = [opened EXCEPT ![t] = opens']
    /\ initial' = [initial EXCEPT ![t] = content]
    /\ editable' = [editable EXCEPT ![t] = right[t] = "edit"]
    /\ UNCHANGED <<row, server, right, doc, synced, conn, unsaved, hist>>

\* The JSON that waits for the timer; a guest's would be refused, it has no account.
ToSave(t, d) == IF t \in Guests THEN {} ELSE EditsOf(d)

\* Mutant: a viewer's connection is not made read-only.
GrantedAlways(t) == "edit"

Granted(t) == right[t]

\* What onSynced inserts when the document d it got is empty.
Fallback(t, d) == IF d = {} THEN {<<e, opened[t]>> : e \in initial[t]} ELSE {}

\* Authentication, loading, and the exchange of states, on every connection.
\* initial has no use after the first: the document is not empty again, and
\* what was typed before the first keeps it out.
Connect(t) ==
    /\ opened[t] # 0 /\ conn[t] = "off" /\ right[t] # "none"
    /\ LET stored   == IF loaded THEN live ELSE yjs
           merged   == stored \cup doc[t]
           inserted == Fallback(t, merged)
       IN /\ conn' = [conn EXCEPT ![t] = Granted(t)]
          /\ live' = IF conn'[t] = "edit" THEN merged ELSE stored
          /\ dirty' = (dirty \/ live' # stored)
          /\ doc' = [doc EXCEPT ![t] = merged \cup inserted]
          \* setContent is an update of this editor, to be saved
          /\ unsaved' = [unsaved EXCEPT ![t] = IF inserted = {} THEN @ ELSE ToSave(t, doc'[t])]
          /\ raced' = (raced \/ (inserted # {} /\ \E u \in Tabs \ {t} : doc[u] # {}))
          /\ overtyped' = (overtyped \/ (stored = {} /\ doc[t] # {} /\ ~synced[t]))
    /\ loaded' = TRUE /\ initial' = [initial EXCEPT ![t] = {}] /\ synced' = [synced EXCEPT ![t] = TRUE]
    /\ writers' = IF right[t] = "edit" THEN writers \cup {opened[t]} ELSE writers
    /\ UNCHANGED <<row, right, opened, editable, opens, events, typed, lost, given>>

\* A local change, also without a connection and before the first; it restarts
\* the save timer.
Type(t) ==
    /\ opened[t] # 0 /\ editable[t] /\ Event
    /\ \E e \in Texts \ ({0} \cup typed) :
          /\ \A k \in 1 .. e - 1 : k \in typed
          /\ typed' = typed \cup {e}
          /\ doc' = [doc EXCEPT ![t] = @ \cup {<<e, opened[t]>>}]
    /\ unsaved' = [unsaved EXCEPT ![t] = ToSave(t, doc'[t])]
    /\ UNCHANGED <<row, server, right, opened, initial, editable, synced, conn, opens,
                   lost, writers, raced, given, overtyped>>

Send(t) ==
    /\ conn[t] = "edit" /\ ~(doc[t] \subseteq live)
    /\ live' = live \cup doc[t] /\ dirty' = TRUE
    /\ UNCHANGED <<row, loaded, right, tab, opens, events, hist>>

\* Mutant: readers get the text of their connection and no later change.
HearsEditors(t) == conn[t] = "edit"

Hears(t) == conn[t] # "off"

Receive(t) ==
    /\ Hears(t) /\ ~(live \subseteq doc[t])
    /\ doc' = [doc EXCEPT ![t] = @ \cup live]
    /\ UNCHANGED <<row, server, right, opened, initial, editable, synced, conn, unsaved, opens,
                   events, hist>>

\* snapshotVersion; {} is no content yet.
Snapshot == {content} \ {{}}

\* The timer of half a second fires.  verifyWriteAccess looks at the right of
\* now; no version is taken within five minutes of one.
Save(t) ==
    /\ unsaved[t] # {}
    /\ unsaved' = [unsaved EXCEPT ![t] = {}]
    /\ IF right[t] = "edit"
       THEN /\ content' = unsaved[t]
            /\ versions' = IF versions = {} THEN Snapshot ELSE versions
       ELSE UNCHANGED <<content, versions>>
    /\ overtyped' = (overtyped \/ (~synced[t] /\ live \cup yjs = {} /\ content' # content))
    /\ UNCHANGED <<yjs, server, right, opened, initial, doc, editable, synced, conn, opens, events,
                   typed, lost, writers, raced, given>>

\* Not tried again before the next change.
SaveFails(t) ==
    /\ unsaved[t] # {} /\ Event
    /\ unsaved' = [unsaved EXCEPT ![t] = {}]
    /\ UNCHANGED <<row, server, right, opened, initial, doc, editable, synced, conn, opens, hist>>

\* The timer is cleared.  What was sent arrives before the end of a connection;
\* what a tab without one, or with a read-only one, has typed is lost.  What it
\* inserted for a template is in content.
Close(t) ==
    /\ opened[t] # 0 /\ (conn[t] = "edit" => doc[t] \subseteq live)
    /\ opened' = [opened EXCEPT ![t] = 0] /\ initial' = [initial EXCEPT ![t] = {}]
    /\ doc' = [doc EXCEPT ![t] = {}] /\ unsaved' = [unsaved EXCEPT ![t] = {}]
    /\ editable' = [editable EXCEPT ![t] = FALSE] /\ synced' = [synced EXCEPT ![t] = FALSE]
    /\ conn' = [conn EXCEPT ![t] = "off"]
    /\ lost' = IF conn[t] = "edit" THEN lost
               ELSE lost \cup (EditsOf({op \in doc[t] : op[2] = opened[t]}) \ {0})
    /\ UNCHANGED <<row, server, right, opens, events, typed, writers, raced, given, overtyped>>

Drop(t) ==
    /\ conn[t] # "off" /\ Event
    /\ conn' = [conn EXCEPT ![t] = "off"]
    /\ UNCHANGED <<row, server, right, opened, initial, doc, editable, synced, unsaved, opens, hist>>

-----------------------------------------------------------------------------
(* The server.                                                             *)

\* Debounced by 300 ms, 2 s at most.
Store ==
    /\ dirty
    /\ yjs' = live /\ dirty' = FALSE
    /\ UNCHANGED <<content, versions, loaded, live, right, tab, opens, events, hist>>

Alone == loaded /\ \A t \in Tabs : conn[t] = "off"

\* After the last connection; it may store a document that has not changed.
Unload ==
    /\ Alone
    /\ yjs' = live \/ (~dirty /\ UNCHANGED yjs)
    /\ loaded' = FALSE /\ live' = {} /\ dirty' = FALSE
    /\ UNCHANGED <<content, versions, right, tab, opens, events, hist>>

\* With what it had still to store; the tabs keep theirs.
Crash ==
    /\ loaded /\ Event
    /\ loaded' = FALSE /\ live' = {} /\ dirty' = FALSE
    /\ conn' = [t \in Tabs |-> "off"]
    /\ lost' = IF dirty THEN lost \cup EditsOf(live \ yjs) ELSE lost
    /\ UNCHANGED <<row, right, opened, initial, doc, editable, synced, unsaved, opens,
                   typed, writers, raced, given, overtyped>>

-----------------------------------------------------------------------------
(* Requests.                                                               *)

\* restoreVersion: content is kept as a version, and yjsState goes.
Restore(t) ==
    /\ opened[t] # 0 /\ t \notin Guests /\ right[t] = "edit" /\ Event
    /\ \E v \in versions : content' = v
    /\ versions' = versions \cup Snapshot
    /\ yjs' = {} /\ lost' = lost \cup EditsOf(yjs)
    /\ UNCHANGED <<server, right, tab, opens, typed, writers, raced, given, overtyped>>

\* Invites and share links; connections stay as they are.
SetRight(t) ==
    /\ Event
    /\ \E r \in Rights \ {right[t]} : right' = [right EXCEPT ![t] = r]
    /\ UNCHANGED <<row, server, tab, opens, hist>>

Next ==
    \/ \E t \in Tabs : \/ Open(t) \/ Connect(t) \/ Type(t) \/ Send(t) \/ Receive(t) \/ Save(t)
                       \/ SaveFails(t) \/ Close(t) \/ Drop(t) \/ Restore(t) \/ SetRight(t)
    \/ Store \/ Unload \/ Crash

\* A tab connects again, changes travel, the debounce ends.
Fairness ==
    /\ \A t \in Tabs : WF_vars(Connect(t)) /\ WF_vars(Send(t)) /\ WF_vars(Receive(t))
    /\ WF_vars(Store)

Spec == Init /\ [][Next]_vars /\ Fairness

-----------------------------------------------------------------------------
(* What was typed is in a tab, in the server or in yjsState, unless a tab  *)
(* that was not connected to edit was closed on it, the server died before *)
(* it stored it, or a restore threw it away.                               *)
NothingTypedIsLost ==
    typed \subseteq lost \cup EditsOf(live \cup yjs \cup UNION {doc[t] : t \in Tabs})

(* What the document came with is still to be had: in content while the    *)
(* Yjs state is empty, else in the Yjs document; unless it was lost for    *)
(* such a cause, or somebody typed before the first synchronisation: then  *)
(* the empty document is not filled, or what was typed is saved over       *)
(* content.                                                                *)
GivenIsKept ==
    overtyped \/ given \subseteq
        lost \cup EditsOf(live \cup yjs \cup UNION {doc[t] : t \in Tabs})
             \cup IF live \cup yjs = {} THEN content ELSE {}

(* What others see comes from openings that had the right to edit when     *)
(* they connected, this time or before.                                    *)
OnlyWritersWrite ==
    /\ \A op \in live \cup yjs : op[2] \in writers
    /\ \A t \in Tabs : \A op \in doc[t] : op[2] \in writers \cup {opened[t]}

(* No text is there twice, unless content was inserted into an empty       *)
(* document while another tab held a text it had not yet sent.             *)
NoDoubles ==
    ~raced => \A p, q \in live \cup yjs : p[1] = q[1] => p = q

(* In the end everybody who may is connected and sees the same text, and   *)
(* what readers have besides never reaches the others.                     *)
Agreed ==
    \A t \in Tabs : opened[t] # 0 /\ right[t] # "none" =>
        /\ conn[t] # "off" /\ live \subseteq doc[t]
        /\ conn[t] = "edit" => doc[t] = live

(* What was typed is stored in the end, unless its tab may not edit any    *)
(* more, or it is lost for a cause.                                        *)
Stored(e) ==
    \/ e \in EditsOf(yjs) \cup lost
    \/ \E t \in Tabs : e \in EditsOf(doc[t]) /\ (right[t] # "edit" \/ conn[t] = "read")

(* Tabs with and without the right to edit, guests, reconnections, crashes *)
(* of the server and restored versions: nothing typed or given is lost but *)
(* by the causes named, who may only read changes nothing for others, and  *)
(* no text appears twice (DocsEditor.tsx, collab.server.ts).               *)
DocumentsHold ==
    TypeOK /\ NothingTypedIsLost /\ GivenIsKept /\ OnlyWritersWrite /\ NoDoubles

(* All who may see the same text, and what was typed is stored.            *)
Converged == Agreed /\ \A e \in typed : Stored(e)
=============================================================================
