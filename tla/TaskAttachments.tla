-------------------------- MODULE TaskAttachments --------------------------
(***************************************************************************)
(* The attachments of one task (tasks.service.ts): a column that holds the *)
(* whole list.  A request reads it, and later writes it back whole.        *)
(***************************************************************************)
EXTENDS Naturals, FiniteSets

CONSTANTS Requests,
          Limit,    \* attachments per task
          MaxFiles  \* bound on all files ever uploaded

Files == 1 .. MaxFiles

VARIABLES
    attachments,
    req,             \* the requests in flight: the list read, what they add and drop
    uploaded,        \* files handed to a request, in order
    added, deleted,  \* history: by requests that have written
    crossed          \* history: written by others between a request's read and its write

vars == <<attachments, req, uploaded, added, deleted, crossed>>

None == [writes |-> FALSE, existing |-> {}, adds |-> {}, drops |-> {}]

TypeOK ==
    /\ attachments \subseteq 1 .. uploaded /\ uploaded \in 0 .. MaxFiles
    /\ req \in [Requests -> [writes : BOOLEAN, existing : SUBSET Files,
                             adds : SUBSET Files, drops : SUBSET Files]]
    /\ added \subseteq 1 .. uploaded /\ deleted \subseteq added /\ crossed \subseteq added

Init ==
    /\ attachments = {} /\ req = [r \in Requests |-> None] /\ uploaded = 0
    /\ added = {} /\ deleted = {} /\ crossed = {}

Reads(r, adds, drops) ==
    /\ req[r] = None
    /\ req' = [req EXCEPT ![r] = [writes |-> TRUE, existing |-> attachments,
                                  adds |-> adds, drops |-> drops]]
    /\ UNCHANGED <<attachments, added, deleted, crossed>>

Fits(existing, files) == Cardinality(existing) + Cardinality(files) <= Limit

AddAttachments(r) ==
    \E last \in uploaded + 1 .. MaxFiles :
        /\ Fits(attachments, uploaded + 1 .. last)
        /\ Reads(r, uploaded + 1 .. last, {}) /\ uploaded' = last

\* The answer is 404 when the list that was read does not hold it.
DeleteAttachment(r) ==
    \E id \in attachments : Reads(r, {}, {id}) /\ UNCHANGED uploaded

Merged(r) == (req[r].existing \cup req[r].adds) \ req[r].drops

\* The whole list, as it was read; the rows changed since then are overruled.
Writes(r) ==
    /\ req[r].writes
    /\ attachments' = Merged(r)
    /\ added' = added \cup req[r].adds /\ deleted' = deleted \cup req[r].drops
    /\ crossed' = crossed \cup (attachments \ req[r].existing) \cup (req[r].existing \ attachments)
    /\ req' = [req EXCEPT ![r] = None] /\ UNCHANGED uploaded

Fails(r) ==
    /\ req[r].writes /\ req' = [req EXCEPT ![r] = None]
    /\ UNCHANGED <<attachments, uploaded, added, deleted, crossed>>

Next == \E r \in Requests : AddAttachments(r) \/ DeleteAttachment(r) \/ Writes(r) \/ Fails(r)

Spec == Init /\ [][Next]_vars

-----------------------------------------------------------------------------
(* A task has at most Limit attachments, although the check is made on a   *)
(* list that may be old when the new one is written.                       *)
WithinLimit == Cardinality(attachments) <= Limit

(* Every file that was added and not deleted is there, and no other, but   *)
(* for those that changed while another request held an older list.        *)
AttachmentsKept == attachments \ crossed = (added \ deleted) \ crossed

(* The list of files stays within its limit and holds what requests say    *)
(* (tasks.service.ts).                                                     *)
FilesKept == TypeOK /\ WithinLimit /\ AttachmentsKept
=============================================================================
