-------------------------- MODULE CommitmentLedger ---------------------------
(***************************************************************************)
(* The commitment ledger: one row of the table Commitment, the card worker *)
(* that projects mail into it (card-worker.service.ts) and the user's      *)
(* requests that resolve, reopen and promote it (mail.service.ts).  The    *)
(* messages are those of the row's conversation, numbered by receivedAt.   *)
(* Every awaited database call is a step of its own.                       *)
(***************************************************************************)
EXTENDS Naturals

CONSTANTS MaxMessage, \* messages are 1 .. MaxMessage (bound)
          Requests,   \* requests ever made, each at most once (bound)
          IdleLimit,  \* COMMITMENT_IDLE_ARCHIVE_DAYS, in steps of the clock
          MaxCrashes  \* bound on restarts of the API process

ASSUME ConstantsAssumption ==
    /\ MaxMessage \in Nat /\ MaxCrashes \in Nat
    /\ IdleLimit \in Nat \ {0}

Messages == 1 .. MaxMessage
None     == 0         \* no message
NoTask   == "no task"
ASSUME NoTaskAssumption == NoTask \notin Requests

Choices  == {"open", "done", "dismissed"}  \* COMMITMENT_UPDATE_STATUSES
Statuses == Choices \cup {"absent", "archived", "promoted"}
Closed   == {"done", "dismissed", "promoted"}
InFlight == {"update", "create", "promote", "undo"}

VARIABLES
    \* the row
    status, suggest, hint, source, task, resolved,
    idle,      \* time since lastActivityAt
    tasks,     \* table Task: a task is named by the request that created it
    \* the worker
    arrived,   \* messages in the mirror
    carded,    \* messages whose card is current
    batch,     \* what is left of this tick's batch
    at,        \* where the worker is, and on which message
    msg,
    \* the requests
    pc, choice,
    crashes,
    \* history, for the properties only
    leaked,    \* tasks whose compensation failed or was lost in a crash
    overlapped \* two requests have been in flight at once

row    == <<status, suggest, hint, source, task, resolved>>
worker == <<arrived, carded, batch, at, msg>>
reqs   == <<pc, choice>>
hist   == <<leaked, overlapped>>
vars   == <<row, idle, tasks, worker, reqs, crashes, hist>>

TypeOK ==
    /\ status \in Statuses
    /\ suggest \in BOOLEAN /\ resolved \in BOOLEAN
    /\ hint \in Messages \cup {None} /\ source \in Messages \cup {None}
    /\ task \in Requests \cup {NoTask} /\ tasks \subseteq Requests
    /\ idle \in 0 .. IdleLimit
    /\ arrived \subseteq Messages /\ carded \subseteq arrived
    /\ batch \subseteq arrived
    /\ at \in {"sleep", "classify", "project", "flag"}
    /\ msg \in Messages \cup {None}
    /\ at \in {"project", "flag"} => msg \in Messages
    /\ pc \in [Requests -> {"new", "ended"} \cup InFlight]
    /\ choice \in [Requests -> Choices]
    /\ crashes \in 0 .. MaxCrashes
    /\ leaked \subseteq Requests /\ overlapped \in BOOLEAN

Init ==
    /\ status = "absent" /\ suggest = FALSE /\ hint = None /\ source = None
    /\ task = NoTask /\ resolved = FALSE
    /\ idle = 0
    /\ tasks = {} /\ leaked = {} /\ overlapped = FALSE
    /\ arrived = {} /\ carded = {} /\ batch = {}
    /\ at = "sleep" /\ msg = None
    /\ pc = [r \in Requests |-> "new"]
    /\ choice = [r \in Requests |-> "open"]
    /\ crashes = 0

-----------------------------------------------------------------------------
(* The card worker.                                                        *)

\* The mail sync stores a message; a backfill stores older ones later.
Arrive(m) ==
    /\ m \notin arrived
    /\ arrived' = arrived \cup {m}
    /\ UNCHANGED <<row, idle, tasks, carded, batch, at, msg, reqs, crashes,
                   hist>>

\* A card made by another model than the extractor's is selected again.
ModelChange ==
    /\ crashes < MaxCrashes
    /\ at = "sleep"
    /\ carded # {} /\ carded' = {}
    /\ crashes' = crashes + 1
    /\ UNCHANGED <<row, idle, tasks, arrived, batch, at, msg, reqs, hist>>

StartTick ==
    /\ at = "sleep"
    /\ at' = "classify" /\ batch' = arrived \ carded
    /\ UNCHANGED <<row, idle, tasks, arrived, carded, msg, reqs, crashes,
                   hist>>

\* The newest message of the batch: its card is written (and its commitments
\* come next), it is given up on (a tombstone card), or it is left for later.
Classify ==
    /\ at = "classify" /\ batch # {}
    /\ \E m \in batch :
          /\ \A n \in batch : n <= m
          /\ batch' = batch \ {m}
          /\ \/ carded' = carded \cup {m} /\ at' = "project" /\ msg' = m
             \/ carded' = carded \cup {m} /\ UNCHANGED <<at, msg>>
             \/ UNCHANGED <<carded, at, msg>>
    /\ UNCHANGED <<row, idle, tasks, arrived, reqs, crashes, hist>>

\* create of the upsert: anchored to the message, never to the clock.
NewRow ==
    /\ status = "absent"
    /\ status' = "open" /\ source' = msg /\ idle' = 0
    /\ UNCHANGED <<suggest, hint, task, resolved>>

\* update of the upsert: the activity date only.
SeenAgain ==
    /\ status # "absent"
    /\ idle' = 0
    /\ UNCHANGED row

\* The message may or may not state this commitment.
Project ==
    /\ at = "project"
    /\ \/ NewRow
       \/ SeenAgain
       \/ UNCHANGED <<row, idle>>
    /\ at' = "flag"
    /\ UNCHANGED <<tasks, arrived, carded, batch, msg, reqs, crashes, leaked, overlapped>>

\* Mutant: without the status of the where clause.
AnswersAnyStatus(m) == status # "absent" /\ source < m

Answers(m) == status = "open" /\ source < m

\* A reply in the conversation flags the open row for review.
Flag ==
    /\ at = "flag"
    /\ IF Answers(msg)
       THEN suggest' = TRUE /\ hint' = msg /\ idle' = 0
       ELSE UNCHANGED <<suggest, hint, idle>>
    /\ at' = "classify"
    /\ UNCHANGED <<status, source, task, resolved, tasks, arrived, carded,
                   batch, msg, reqs, crashes, hist>>

\* The projection or the flag fails: logged, and the next message is taken.
LedgerWriteFails ==
    /\ at \in {"project", "flag"}
    /\ at' = "classify"
    /\ UNCHANGED <<row, idle, tasks, arrived, carded, batch, msg, reqs,
                   crashes, hist>>

Archive ==
    IF status = "open" /\ idle = IdleLimit
    THEN status' = "archived" /\ UNCHANGED <<suggest, hint, source, task, resolved>>
    ELSE UNCHANGED row

\* The tick ends; once an hour it archives what has been idle too long.
EndTick ==
    /\ at = "classify" /\ batch = {}
    /\ at' = "sleep"
    /\ Archive \/ UNCHANGED row
    /\ UNCHANGED <<idle, tasks, arrived, carded, batch, msg, reqs, crashes,
                   hist>>

Tick ==
    /\ idle < IdleLimit /\ idle' = idle + 1
    /\ UNCHANGED <<row, tasks, worker, reqs, crashes, hist>>

-----------------------------------------------------------------------------
(* The user's requests: each reads the row, then writes it by id.          *)

Starts(r) ==
    /\ pc[r] = "new"
    /\ overlapped' = (overlapped \/ \E s \in Requests : pc[s] \in InFlight)

Goto(r, place) == pc' = [pc EXCEPT ![r] = place]

\* Mutant: a promoted row can be resolved again.
UpdateReadsUnguarded(r, c) ==
    /\ Starts(r)
    /\ status # "absent"
    /\ Goto(r, "update") /\ choice' = [choice EXCEPT ![r] = c]
    /\ UNCHANGED <<row, idle, tasks, worker, crashes, leaked>>

\* Resolved elsewhere is a 409, a missing row a 404: no request is made then.
UpdateReads(r, c) ==
    /\ Starts(r)
    /\ status \notin {"absent", "promoted"}
    /\ Goto(r, "update") /\ choice' = [choice EXCEPT ![r] = c]
    /\ UNCHANGED <<row, idle, tasks, worker, crashes, leaked>>

\* lastActivityAt is not written.
SetStatus(c) ==
    /\ status' = c
    /\ resolved' = (c # "open") /\ suggest' = FALSE
    /\ UNCHANGED <<hint, source, task, idle>>

UpdateWrites(r) ==
    /\ pc[r] = "update"
    /\ SetStatus(choice[r]) \/ UNCHANGED <<row, idle>>
    /\ Goto(r, "ended")
    /\ UNCHANGED <<tasks, worker, choice, crashes, leaked, overlapped>>

Promotable == status = "open"

PromoteReads(r) ==
    /\ Starts(r)
    /\ Promotable
    /\ Goto(r, "create")
    /\ UNCHANGED <<row, idle, tasks, worker, choice, crashes, leaked>>

PromoteCreates(r) ==
    /\ pc[r] = "create"
    /\ \/ tasks' = tasks \cup {r} /\ Goto(r, "promote")
       \/ Goto(r, "ended") /\ UNCHANGED tasks
    /\ UNCHANGED <<row, idle, worker, choice, crashes, hist>>

SetPromoted(r) ==
    /\ status' = "promoted" /\ task' = r /\ resolved' = TRUE
    /\ UNCHANGED <<suggest, hint, source, idle>>

PromoteWrites(r) ==
    /\ pc[r] = "promote"
    /\ \/ SetPromoted(r) /\ Goto(r, "ended")
       \/ Goto(r, "undo") /\ UNCHANGED <<row, idle>>
    /\ UNCHANGED <<tasks, worker, choice, crashes, leaked, overlapped>>

\* The compensation is best effort.
PromoteUndoes(r) ==
    /\ pc[r] = "undo"
    /\ \/ tasks' = tasks \ {r} /\ UNCHANGED leaked
       \/ leaked' = leaked \cup {r} /\ UNCHANGED tasks
    /\ Goto(r, "ended")
    /\ UNCHANGED <<row, idle, worker, choice, crashes, overlapped>>

\* The process restarts: the tick and the requests in flight are gone.
Crash ==
    /\ crashes < MaxCrashes
    /\ crashes' = crashes + 1
    /\ at' = "sleep" /\ batch' = {}
    /\ leaked' = leaked \cup {r \in tasks : pc[r] \in {"promote", "undo"}}
    /\ pc' = [r \in Requests |-> IF pc[r] \in InFlight THEN "ended" ELSE pc[r]]
    /\ UNCHANGED <<row, idle, tasks, arrived, carded, msg, choice,
                   overlapped>>

Worker == StartTick \/ Classify \/ Project \/ Flag \/ LedgerWriteFails \/ EndTick

Next ==
    \/ \E m \in Messages : Arrive(m)
    \/ ModelChange \/ Worker \/ Tick \/ Crash
    \/ \E r \in Requests :
          \/ \E c \in Choices : UpdateReads(r, c)
          \/ UpdateWrites(r)
          \/ PromoteReads(r) \/ PromoteCreates(r) \/ PromoteWrites(r)
          \/ PromoteUndoes(r)

Spec == Init /\ [][Next]_vars

-----------------------------------------------------------------------------
(* The worker never deletes a row, so a request finds the one it read.     *)
RowStays ==
    /\ status = "absent" <=> source = None
    /\ status = "absent" => hint = None /\ \A r \in Requests : pc[r] \notin InFlight

(* As long as no requests overlapped: the row a request is about to write  *)
(* has not been promoted since it was read, only a promoted row has a task, *)
(* and each task is accounted for.                                         *)
Alone ==
    \A r \in Requests : pc[r] \in InFlight =>
        status # "promoted" /\ \A s \in Requests \ {r} : pc[s] \notin InFlight

TaskMeansPromoted == task # NoTask => status = "promoted"

TasksAccounted ==
    \A r \in tasks : task = r \/ pc[r] \in {"promote", "undo"} \/ r \in leaked

Serial == ~overlapped => Alone /\ TaskMeansPromoted /\ TasksAccounted

(* Whatever overlaps, the columns of the row agree: it has a date of       *)
(* resolution exactly when it is closed, and a row the user resolved is    *)
(* never shown as waiting for a review (updateCommitment "always clears    *)
(* suggestResolve", the reply hint only flags open rows).                  *)
ColumnsAgree ==
    /\ resolved <=> status \in Closed
    /\ suggest => status \notin {"absent", "done", "dismissed"}

(* A review is only ever suggested by mail newer than the message the      *)
(* commitment comes from, in whatever order the worker meets the two       *)
(* (card-worker.service.ts: extractedAt is the message's receivedAt).      *)
HintIsNewer ==
    /\ hint # None => source # None /\ source < hint
    /\ suggest => hint # None

\* The inductive invariant.
IInv == TypeOK /\ ColumnsAgree /\ HintIsNewer /\ RowStays /\ Serial

(* At most one task of a commitment is left, but for those a crash or a    *)
(* failed compensation leaked (mail.service.ts: no "duplicate Task").      *)
OneTask ==
    \A r, s \in tasks \ leaked :
        pc[r] = "ended" /\ pc[s] = "ended" => r = s

(* So it is, as long as no two requests have overlapped: the saga of a     *)
(* promotion undoes its task when the ledger write fails, and a later      *)
(* promotion is refused when it succeeded.                                 *)
OneTaskEach == ~overlapped => OneTask

(* Requests, the worker and failures in any order: the columns of the row  *)
(* agree, hints come from newer mail, and a commitment gets one task.      *)
LedgerHolds == IInv /\ ColumnsAgree /\ HintIsNewer /\ OneTaskEach

(* A promoted row is terminal, its task the authority (mail.service.ts,    *)
(* updateCommitment): no later request or tick changes its status or task. *)
PromotedIsTerminal ==
    [][status = "promoted" => status' = "promoted" /\ task' = task]_vars

(* It is, as long as no two requests have overlapped: whatever the worker, *)
(* restarts and failed writes do meanwhile.                                *)
PromotedStays ==
    [][status = "promoted" /\ ~overlapped
          => status' = "promoted" /\ task' = task]_vars
=============================================================================
