---------------------------- MODULE DocEmbedding ----------------------------
(***************************************************************************)
(* The embedding rows of one document and the processes that refresh them  *)
(* (doc-embed-worker.service.ts): a row says which version of the document *)
(* it was made from, and the document is due while that is not the newest. *)
(* Ticks of one process do not overlap; a second process is another API.   *)
(* The other documents are one condition: whether those ahead of this one  *)
(* fill the batch.                                                         *)
(***************************************************************************)
EXTENDS Naturals

CONSTANTS Workers,
          Texts,                \* contents that differ; "blank" has no text
          Unwritten,            \* content of a document nobody has saved
          FailureLimit,
          MaxUpdates, MaxFaults \* bounds

VARIABLES
    content, updatedAt,         \* the document; saves and storing yjsState raise updatedAt
    signedIn,                   \* its owner has a token that has not expired
    crowded,                    \* newer documents fill the LIMIT, or the shares of the batch
    rows,                       \* its rows: kind, chunkText, sourceUpdatedAt
    pc, seen, text,             \* of each worker: updatedAt and content it goes by
    failures,                   \* of each worker, in memory
    faults,
    crossed,                    \* history: rows were made younger than they are
    streak                      \* failures of each worker since it last succeeded

work == <<pc, seen, text>>
gates == <<signedIn, crowded>>
vars == <<content, updatedAt, gates, rows, work, failures, faults, crossed, streak>>

Contents == Texts \cup {"blank", Unwritten}
Stages == {"idle", "picked", "read", "same", "embed", "write", "blank", "failed", "given up"}

TypeOK ==
    /\ content \in Contents /\ updatedAt \in 0 .. MaxUpdates
    /\ signedIn \in BOOLEAN /\ crowded \in BOOLEAN
    /\ rows \in [kind : {"none", "vectors", "tombstone"}, text : Contents, src : 0 .. MaxUpdates]
    /\ pc \in [Workers -> Stages]
    /\ seen \in [Workers -> 0 .. MaxUpdates] /\ text \in [Workers -> Contents]
    /\ failures \in [Workers -> 0 .. FailureLimit - 1]
    /\ faults \in 0 .. MaxFaults /\ crossed \in BOOLEAN
    /\ streak \in [Workers -> 0 .. MaxFaults]

NoRows == [kind |-> "none", text |-> Unwritten, src |-> 0]

Init ==
    /\ content = Unwritten /\ updatedAt = 0 /\ rows = NoRows
    /\ signedIn \in BOOLEAN /\ crowded \in BOOLEAN
    /\ pc = [w \in Workers |-> "idle"] /\ seen = [w \in Workers |-> 0]
    /\ text = [w \in Workers |-> Unwritten] /\ failures = [w \in Workers |-> 0]
    /\ faults = 0 /\ crossed = FALSE /\ streak = failures

Goes(w, from, to) == pc[w] = from /\ pc' = [pc EXCEPT ![w] = to]

Ends(w) ==
    /\ pc' = [pc EXCEPT ![w] = "idle"] /\ seen' = [seen EXCEPT ![w] = 0]
    /\ text' = [text EXCEPT ![w] = Unwritten]

Fault == faults < MaxFaults /\ faults' = faults + 1

-----------------------------------------------------------------------------
\* A save; storing the Yjs state of an open editor changes updatedAt alone.
Update ==
    /\ updatedAt < MaxUpdates /\ updatedAt' = updatedAt + 1
    /\ content' \in {content} \cup Texts \cup {"blank"}
    /\ UNCHANGED <<gates, rows, work, failures, faults, crossed, streak>>

\* The owner signs in or out, or the token expires.
Session ==
    /\ signedIn' = ~signedIn
    /\ UNCHANGED <<content, updatedAt, crowded, rows, work, failures, faults, crossed, streak>>

\* Others save documents, or a tick embeds them.
Crowd ==
    /\ crowded' = ~crowded
    /\ UNCHANGED <<content, updatedAt, signedIn, rows, work, failures, faults, crossed, streak>>

\* The WHERE of the query.
Due ==
    /\ content # Unwritten /\ signedIn
    /\ rows.kind = "none" \/ rows.src < updatedAt

\* The ORDER BY and LIMIT of the query, and the shares of its users.
Pick(w) ==
    /\ Due /\ ~crowded /\ Goes(w, "idle", "picked")
    /\ seen' = [seen EXCEPT ![w] = updatedAt]
    /\ UNCHANGED <<content, updatedAt, gates, rows, text, failures, faults, crossed, streak>>

\* The content is read by a query of its own, after the one that picked.
Read(w) ==
    /\ Goes(w, "picked", IF content = "blank" THEN "blank" ELSE "read")
    /\ text' = [text EXCEPT ![w] = content]
    /\ UNCHANGED <<content, updatedAt, gates, rows, seen, failures, faults, crossed, streak>>

\* Mutant: the rows are stamped with the version there is when they are written.
StampNow(w) == updatedAt

Stamp(w) == seen[w]

Compare(w) ==
    /\ Goes(w, "read", IF rows.kind = "vectors" /\ rows.text = text[w] THEN "same" ELSE "embed")
    /\ UNCHANGED <<content, updatedAt, gates, rows, seen, text, failures, faults, crossed, streak>>

\* updateMany touches whatever rows there are by now.
Refresh(w) ==
    /\ pc[w] = "same"
    /\ IF rows.kind = "none" THEN UNCHANGED <<rows, crossed>>
       ELSE /\ rows' = [rows EXCEPT !.src = Stamp(w)]
            /\ crossed' = (rows.text # text[w] \/ rows.kind = "tombstone")
    /\ failures' = [failures EXCEPT ![w] = 0] /\ streak' = [streak EXCEPT ![w] = 0]
    /\ Ends(w) /\ UNCHANGED <<content, updatedAt, gates, faults>>

Embed(w) ==
    /\ Goes(w, "embed", "write")
    /\ UNCHANGED <<content, updatedAt, gates, rows, seen, text, failures, faults, crossed, streak>>

Write(w) ==
    /\ pc[w] = "write"
    /\ rows' = [kind |-> "vectors", text |-> text[w], src |-> Stamp(w)]
    /\ crossed' = FALSE /\ streak' = [streak EXCEPT ![w] = 0]
    /\ failures' = [failures EXCEPT ![w] = 0]
    /\ Ends(w) /\ UNCHANGED <<content, updatedAt, gates, faults>>

Tombstone(w) == rows' = [kind |-> "tombstone", text |-> "blank", src |-> Stamp(w)]

\* Mutant: a document without text is passed over.
BlankSkipped(w) ==
    /\ pc[w] = "blank" /\ UNCHANGED <<rows, crossed>>
    /\ Ends(w) /\ UNCHANGED <<content, updatedAt, gates, failures, faults, streak>>

\* No text is for good; the count of failures stays as it is.
Blank(w) ==
    /\ pc[w] = "blank" /\ Tombstone(w) /\ crossed' = FALSE
    /\ Ends(w) /\ UNCHANGED <<content, updatedAt, gates, failures, faults, streak>>

\* The model or the database fails.
Fail(w) ==
    /\ pc[w] \in {"read", "same", "embed", "write", "blank"} /\ Fault
    /\ pc' = [pc EXCEPT ![w] = "failed"] /\ streak' = [streak EXCEPT ![w] = @ + 1]
    /\ UNCHANGED <<content, updatedAt, gates, rows, seen, text, failures, crossed>>

OutOfTries(w) == failures[w] + 1 >= FailureLimit

Strike(w) ==
    /\ pc[w] = "failed"
    /\ IF OutOfTries(w)
       THEN pc' = [pc EXCEPT ![w] = "given up"] /\ UNCHANGED <<failures, seen, text>>
       ELSE failures' = [failures EXCEPT ![w] = @ + 1] /\ Ends(w)
    /\ UNCHANGED <<content, updatedAt, gates, rows, faults, crossed, streak>>

GiveUp(w) ==
    /\ pc[w] = "given up" /\ Tombstone(w) /\ crossed' = FALSE
    /\ failures' = [failures EXCEPT ![w] = 0]
    /\ Ends(w) /\ UNCHANGED <<content, updatedAt, gates, faults, streak>>

\* The tick ends on a query that failed, or on the tombstone of the catch block.
Abandon(w) ==
    /\ pc[w] \in {"picked", "given up"} /\ Fault
    /\ Ends(w) /\ UNCHANGED <<content, updatedAt, gates, rows, failures, crossed, streak>>

Restart(w) ==
    /\ (pc[w] # "idle" \/ failures[w] > 0) /\ Fault
    /\ failures' = [failures EXCEPT ![w] = 0]
    /\ Ends(w) /\ UNCHANGED <<content, updatedAt, gates, rows, crossed, streak>>

Step(w) ==
    \/ Pick(w) \/ Read(w) \/ Compare(w) \/ Refresh(w) \/ Embed(w) \/ Write(w)
    \/ Blank(w) \/ Strike(w) \/ GiveUp(w)

Next ==
    \/ Update \/ Session \/ Crowd
    \/ \E w \in Workers : Step(w) \/ Fail(w) \/ Abandon(w) \/ Restart(w)

\* The job runs every minute.
Fairness == \A w \in Workers : WF_vars(Step(w))

Spec == Init /\ [][Next]_vars /\ Fairness

-----------------------------------------------------------------------------
(* Rows that pass for current hold the text of the document, although it   *)
(* may change at any point between the query that picked it and the write; *)
(* except when a process found its text in rows another one replaced       *)
(* before it moved their date.                                             *)
CurrentRowsAgree ==
    rows.kind = "vectors" /\ rows.src >= updatedAt /\ ~crossed => rows.text = content

(* A document that has a text is passed over for good only when one        *)
(* process failed FailureLimit times since it was last embedded.           *)
PassedOverWithCause ==
    rows.kind = "tombstone" /\ rows.src >= updatedAt /\ ~crossed
        => content = "blank" \/ \E w \in Workers : streak[w] >= FailureLimit

(* Once nobody edits, the owner stays signed in and the documents ahead    *)
(* leave room, the document is settled and stays so.                       *)
Open == signedIn /\ ~crowded
Settled == content = Unwritten \/ (rows.kind # "none" /\ rows.src >= updatedAt)

\* What a worker goes by is the newest version, or an older one.
WorkInv ==
    \A w \in Workers :
       /\ seen[w] <= updatedAt
       /\ pc[w] \in {"read", "same", "embed", "write", "blank"} /\ seen[w] = updatedAt
             => text[w] = content
       /\ pc[w] = "blank" => text[w] = "blank"

\* Failures are counted in memory only, hence never too many.
StrikesInv ==
    \A w \in Workers :
       /\ streak[w] <= faults
       /\ failures[w] + (IF pc[w] = "failed" THEN 1 ELSE 0) <= streak[w]
       /\ pc[w] = "given up" => streak[w] >= FailureLimit

(* Rows that pass for current hold the text of the document, a document    *)
(* that has a text is passed over only with a cause, and no worker goes by *)
(* a version that never was.                                               *)
RowsOfDocuments ==
    /\ TypeOK /\ rows.src <= updatedAt /\ WorkInv /\ StrikesInv
    /\ CurrentRowsAgree /\ PassedOverWithCause
=============================================================================
