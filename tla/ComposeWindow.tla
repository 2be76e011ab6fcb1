--------------------------- MODULE ComposeWindow ---------------------------
(***************************************************************************)
(* The window in which mail is written (ComposeModal.tsx): there is one,   *)
(* which is opened again and again and keeps its timers, its undo flag and *)
(* the draft it knows of over all of them.  An opening is a number; so is  *)
(* a draft.  Answers arrive whatever the window shows by then.             *)
(***************************************************************************)
EXTENDS Naturals, FiniteSets

CONSTANTS MaxOpenings, MaxDrafts, MaxEvents \* bounds: events are saves, schedules and faults

Openings == 1 .. MaxOpenings
Drafts   == 1 .. MaxDrafts

VARIABLES
    open,            \* the opening shown, or 0
    savedDraftId,    \* the draft the window knows of, or 0
    saving,          \* draftStatus is 'saving'
    undoCancelled, undoTimer,
    timers, toasts,  \* sends that wait for their five seconds; that show Undo
    requests,        \* saves, sends and schedules under way
    openings, drafts, events,
    entitled,        \* openings that made each draft or were opened on it
    \* history
    clicked, sent, told,
    crossed,         \* sends whose Undo was shown at the time of another send
    late,            \* undone after the timer had fired
    reloaded,        \* sends that were under way when the page was left
    foreign, strayed \* drafts changed by another opening; drafts whose number another one was given

window == <<open, savedDraftId, saving>>
undo   == <<undoCancelled, undoTimer, timers, toasts>>
record == <<clicked, sent, told, crossed, late, reloaded>>
vars   == <<window, undo, requests, openings, drafts, events, entitled, record, foreign, strayed>>

Request == [op : {"save", "send", "schedule"}, by : Openings, draft : 0 .. MaxDrafts]

TypeOK ==
    /\ open \in 0 .. openings /\ savedDraftId \in 0 .. drafts /\ saving \in BOOLEAN
    /\ undoCancelled \in BOOLEAN /\ undoTimer \in 0 .. openings
    /\ timers \subseteq clicked /\ toasts \subseteq clicked /\ requests \subseteq Request
    /\ openings \in 0 .. MaxOpenings /\ drafts \in 0 .. MaxDrafts /\ events \in 0 .. MaxEvents
    /\ entitled \in [Drafts -> SUBSET Openings]
    /\ clicked \subseteq Openings /\ sent \subseteq Openings
    /\ told \in [Openings -> SUBSET {"cancelled", "sent", "failed"}]
    /\ crossed \subseteq clicked /\ late \subseteq clicked /\ reloaded \subseteq clicked
    /\ foreign \subseteq Drafts /\ strayed \subseteq Drafts

Init ==
    /\ open = 0 /\ savedDraftId = 0 /\ saving = FALSE
    /\ undoCancelled = FALSE /\ undoTimer = 0 /\ timers = {} /\ toasts = {}
    /\ requests = {} /\ openings = 0 /\ drafts = 0 /\ events = 0
    /\ entitled = [d \in Drafts |-> {}]
    /\ clicked = {} /\ sent = {} /\ told = [c \in Openings |-> {}]
    /\ crossed = {} /\ late = {} /\ reloaded = {} /\ foreign = {} /\ strayed = {}

Event == events < MaxEvents /\ events' = events + 1

\* A change of draft d by opening c: was it c's to change?
Changed(d, c) == IF d = 0 \/ c \in entitled[d] THEN {} ELSE {d}

-----------------------------------------------------------------------------
Fill(d) == d

\* On nothing, a reply, or draft d.  When it is open already, and another message
\* or another mode comes, the fields are filled anew and the text is gone.
Open ==
    /\ openings < MaxOpenings /\ openings' = openings + 1 /\ open' = openings'
    /\ \E d \in 0 .. drafts :
          /\ savedDraftId' = Fill(d)
          /\ entitled' = IF d = 0 THEN entitled ELSE [entitled EXCEPT ![d] = @ \cup {open'}]
    /\ saving' = FALSE
    /\ UNCHANGED <<undo, requests, drafts, events, record, foreign, strayed>>

Close ==
    /\ open # 0 /\ open' = 0
    /\ UNCHANGED <<savedDraftId, saving, undo, requests, openings, drafts, events, entitled,
                   record, foreign, strayed>>

\* The request to discard is not awaited, and may fail.
Discard ==
    /\ open # 0 /\ open' = 0 /\ savedDraftId' = 0 /\ saving' = FALSE
    /\ foreign' = foreign \cup Changed(savedDraftId, open)
    /\ UNCHANGED <<undo, requests, openings, drafts, events, entitled, record, strayed>>

SaveDraft ==
    /\ open # 0 /\ ~saving /\ Event /\ saving' = TRUE
    /\ requests' = requests \cup {[op |-> "save", by |-> open, draft |-> savedDraftId]}
    /\ UNCHANGED <<open, savedDraftId, undo, openings, drafts, entitled, record, foreign, strayed>>

\* The draft is written; a new one gets the next number.
SaveAnswered ==
    \E q \in requests :
        LET d == IF q.draft = 0 THEN drafts + 1 ELSE q.draft IN
        /\ q.op = "save" /\ d <= MaxDrafts
        /\ requests' = requests \ {q} /\ savedDraftId' = d /\ saving' = FALSE
        /\ drafts' = IF q.draft = 0 THEN d ELSE drafts
        /\ entitled' = IF q.draft = 0 THEN [entitled EXCEPT ![d] = {q.by}] ELSE entitled
        /\ foreign' = foreign \cup Changed(q.draft, q.by)
        /\ strayed' = IF open \in {0, q.by} THEN strayed ELSE strayed \cup {d}
        /\ UNCHANGED <<open, undo, openings, events, record>>

SaveFails ==
    /\ Event
    /\ \E q \in requests : q.op = "save" /\ requests' = requests \ {q}
    /\ saving' = FALSE
    /\ UNCHANGED <<open, savedDraftId, undo, openings, drafts, entitled, record, foreign, strayed>>

LowersFlag == FALSE

\* The window is closed and the draft discarded before the five seconds begin.
Send ==
    /\ open # 0 /\ open' = 0 /\ clicked' = clicked \cup {open}
    /\ foreign' = foreign \cup Changed(savedDraftId, open)
    /\ undoCancelled' = LowersFlag /\ undoTimer' = open
    /\ timers' = timers \cup {open} /\ toasts' = toasts \cup {open}
    /\ crossed' = IF toasts = {} THEN crossed ELSE crossed \cup toasts'
    /\ UNCHANGED <<savedDraftId, saving, requests, openings, drafts, events, entitled,
                   sent, told, late, reloaded, strayed>>

Tell(c, what) == told' = [told EXCEPT ![c] = @ \cup {what}]

\* Mutant: the toast speaks of a cancellation that is not made.
UndoSaysSo(c) ==
    /\ c \in toasts /\ toasts' = toasts \ {c} /\ Tell(c, "cancelled")
    /\ late' = IF c \in timers THEN late ELSE late \cup {c}
    /\ UNCHANGED <<undoCancelled, undoTimer, timers, window, requests, openings, drafts, events,
                   entitled, clicked, sent, crossed, reloaded, foreign, strayed>>

\* One flag and one timer for all sends.
Undo(c) ==
    /\ c \in toasts /\ toasts' = toasts \ {c} /\ Tell(c, "cancelled")
    /\ undoCancelled' = TRUE /\ timers' = timers \ {undoTimer}
    /\ late' = IF c \in timers THEN late ELSE late \cup {c}
    /\ UNCHANGED <<undoTimer, window, requests, openings, drafts, events, entitled,
                   clicked, sent, crossed, reloaded, foreign, strayed>>

Fire(c) ==
    /\ c \in timers /\ timers' = timers \ {c}
    /\ requests' = IF undoCancelled THEN requests
                   ELSE requests \cup {[op |-> "send", by |-> c, draft |-> 0]}
    /\ UNCHANGED <<undoCancelled, undoTimer, toasts, window, openings, drafts, events, entitled,
                   record, foreign, strayed>>

\* The toast outlives the timer by a fifth of a second.
ToastEnds(c) ==
    /\ c \in toasts \ timers /\ toasts' = toasts \ {c}
    /\ UNCHANGED <<undoCancelled, undoTimer, timers, window, requests, openings, drafts, events,
                   entitled, record, foreign, strayed>>

SendAnswered ==
    \E q \in requests :
        /\ q.op = "send" /\ requests' = requests \ {q}
        /\ \/ sent' = sent \cup {q.by} /\ Tell(q.by, "sent") /\ toasts' = toasts \ {q.by}
              /\ UNCHANGED events
           \/ Event /\ sent' \in {sent, sent \cup {q.by}} /\ Tell(q.by, "failed") /\ UNCHANGED toasts
        /\ UNCHANGED <<undoCancelled, undoTimer, timers, window, openings, drafts, entitled,
                       clicked, crossed, late, reloaded, foreign, strayed>>

Schedule ==
    /\ open # 0 /\ Event
    /\ requests' = requests \cup {[op |-> "schedule", by |-> open, draft |-> savedDraftId]}
    /\ UNCHANGED <<window, undo, openings, drafts, entitled, record, foreign, strayed>>

\* It closes whatever the window shows by now; a failure leaves it open.
ScheduleAnswered ==
    \E q \in requests :
        /\ q.op = "schedule" /\ requests' = requests \ {q}
        /\ \/ open' = 0 /\ foreign' = foreign \cup Changed(q.draft, q.by)
           \/ UNCHANGED <<open, foreign>>
        /\ UNCHANGED <<savedDraftId, saving, undo, openings, drafts, events, entitled, record, strayed>>

\* What waits in the page is gone.
Reload ==
    /\ Event /\ open' = 0 /\ savedDraftId' = 0 /\ saving' = FALSE
    /\ undoCancelled' = FALSE /\ undoTimer' = 0 /\ timers' = {} /\ toasts' = {}
    /\ requests' = {}
    /\ reloaded' = reloaded \cup timers \cup {q.by : q \in {p \in requests : p.op = "send"}}
    /\ UNCHANGED <<openings, drafts, entitled, clicked, sent, told, crossed, late, foreign, strayed>>

Next ==
    \/ Open \/ Close \/ Discard \/ SaveDraft \/ SaveAnswered \/ SaveFails \/ Send \/ SendAnswered
    \/ Schedule \/ ScheduleAnswered \/ Reload
    \/ \E c \in Openings : Undo(c) \/ Fire(c) \/ ToastEnds(c)

Spec == Init /\ [][Next]_vars

-----------------------------------------------------------------------------
(* What the user was told to be cancelled is not sent, unless the timer    *)
(* had fired or another send showed its Undo at the same time: the flag    *)
(* and the timer are shared.                                               *)
CancelledIsNotSent ==
    \A c \in sent : "cancelled" \in told[c] => c \in crossed \cup late

(* A send does not come to nothing without a word, with those exceptions   *)
(* and unless the page was left.                                           *)
NoSendDropped ==
    \A c \in clicked :
        \/ c \in timers \cup crossed \cup late \cup reloaded \/ told[c] # {}
        \/ \E q \in requests : q.op = "send" /\ q.by = c

(* A draft is overwritten or discarded only by an opening that made it or  *)
(* was opened on it, unless the answer of a slow save gave its number to   *)
(* another one.                                                            *)
DraftsKept == foreign \subseteq strayed

(* What the user was told of a send is what happened, and no draft is      *)
(* another opening's, with the exceptions above (ComposeModal.tsx).        *)
ComposeHolds == TypeOK /\ CancelledIsNotSent /\ NoSendDropped /\ DraftsKept
=============================================================================
