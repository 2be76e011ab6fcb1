--------------------------- MODULE AskConversation ---------------------------
(***************************************************************************)
(* The panel in which a user asks the assistant (AskPanel.tsx and          *)
(* ask.store.ts): one question at a time, which may be about a thread that *)
(* is gathered and pinned first, and the cards (ProposalCard.tsx) on which *)
(* the user approves what the assistant proposes in its answer.  The panel *)
(* stays mounted when it is closed, what is in it does not.  Left out: the *)
(* text, sources, steps and charts of a turn, the lock of a thread, and    *)
(* saving a mail as a draft, which differs from sending it in the endpoint.*)
(***************************************************************************)
EXTENDS Naturals

CONSTANTS Threads,
          MaxAsks, MaxProposals, MaxPosts,  \* bounds
          MaxEvents,  \* bound on openings, closings and changes of scope
          MaxFaults   \* bound on requests that fail, or whose answer is lost

Proposals == 1 .. MaxProposals
None      == "none"
Scopes    == Threads \cup {None, "doc"}
OrNone    == Threads \cup {None}
Statuses  == {"idle", "working", "done", "dismissed", "error"}

VARIABLES
    open, scope,      \* the store
    phase, asked,     \* of the question: its place, the scope it was asked in
    stopped,          \* its signal is aborted
    payload,          \* the thread that is pinned in its request
    pinCache, pinnedCount, pinnedAck,  \* whose text, length and acknowledgement
    live, turns,      \* the proposals of the running turn and of those completed
    status,           \* of each card
    posts,            \* requests of cards; mounted: the card is still there
    asks, proposed, posted, events, faults,
    \* history
    executed,         \* times the server carried out each proposal
    remounted,        \* cards mounted again after they were approved
    unsure,           \* proposals carried out whose answer was lost
    strayed,          \* an answer about a thread whose scope was left meanwhile
    cleared           \* proposals of failed turns and of closed conversations

store    == <<open, scope>>
question == <<phase, asked, stopped, payload>>
pin      == <<pinCache, pinnedCount, pinnedAck>>
cards    == <<live, turns, status, posts>>
counts   == <<asks, proposed, posted, events, faults>>
hist     == <<executed, remounted, unsure, strayed, cleared>>
vars     == <<store, question, pin, cards, counts, hist>>

Post == [n : 1 .. MaxPosts, proposal : Proposals, at : {"sent", "ok", "failed"}, mounted : BOOLEAN]

TypeOK ==
    /\ open \in BOOLEAN /\ scope \in Scopes
    /\ phase \in {"idle", "gather", "stream"} /\ asked \in Scopes /\ stopped \in BOOLEAN
    /\ {payload, pinCache, pinnedCount, pinnedAck} \subseteq OrNone
    /\ live \subseteq Proposals /\ turns \subseteq Proposals /\ live \cap turns = {}
    /\ status \in [Proposals -> Statuses] /\ posts \subseteq Post
    /\ asks \in 0 .. MaxAsks /\ proposed \in 0 .. MaxProposals /\ posted \in 0 .. MaxPosts
    /\ events \in 0 .. MaxEvents /\ faults \in 0 .. MaxFaults
    /\ executed \in [Proposals -> 0 .. MaxPosts]
    /\ remounted \cup unsure \cup cleared \subseteq Proposals /\ strayed \in BOOLEAN

Init ==
    /\ open = FALSE /\ scope = None
    /\ phase = "idle" /\ asked = None /\ stopped = FALSE /\ payload = None
    /\ pinCache = None /\ pinnedCount = None /\ pinnedAck = None
    /\ live = {} /\ turns = {} /\ status = [p \in Proposals |-> "idle"] /\ posts = {}
    /\ asks = 0 /\ proposed = 0 /\ posted = 0 /\ events = 0 /\ faults = 0
    /\ executed = [p \in Proposals |-> 0] /\ remounted = {} /\ unsure = {}
    /\ strayed = FALSE /\ cleared = {}

Event == events < MaxEvents /\ events' = events + 1
Fault == faults < MaxFaults /\ faults' = faults + 1

Streaming == phase # "idle"
Shown     == turns \cup (IF Streaming THEN live ELSE {})
Mounted(p) == open /\ p \in Shown

Approved(p) == executed[p] > 0 \/ \E q \in posts : q.proposal = p

-----------------------------------------------------------------------------
(* The store, and what a change of it does in the panel.                   *)

\* The effect on scope: another thread, or none, invalidates the pin.
Scoped(s) ==
    /\ scope' = s
    /\ IF s \notin Threads \/ pinCache \notin {None, s}
       THEN pinCache' = None /\ pinnedCount' = None /\ pinnedAck' = None /\ strayed' = FALSE
       ELSE /\ UNCHANGED pin
            \* What came for another thread before is shown for this one now.
            /\ strayed' = (strayed /\ {pinnedCount, pinnedAck} \cap Threads # {})

\* The cards of S are gone; the requests they made are not.
Unmount(S) ==
    /\ status' = [p \in Proposals |-> IF p \in S THEN "idle" ELSE status[p]]
    /\ posts' = {[q EXCEPT !.mounted = @ /\ q.proposal \notin S] : q \in posts}

\* openAsk, with or without a scope; also while the panel is open.
OpenAsk(s) ==
    /\ Event /\ open' = TRUE /\ Scoped(s)
    /\ UNCHANGED <<question, cards, asks, proposed, posted, faults, executed, remounted, unsure,
                   cleared>>

\* close: the question goes on, the cards are unmounted.
Close ==
    /\ open /\ Event /\ open' = FALSE /\ Scoped(None)
    /\ Unmount(Shown)
    /\ remounted' = remounted \cup {p \in Shown : Approved(p)}
    /\ UNCHANGED <<question, live, turns, asks, proposed, posted, faults, executed, unsure, cleared>>

ClearScope ==
    /\ open /\ scope # None /\ Event /\ Scoped(None)
    /\ UNCHANGED <<open, question, cards, asks, proposed, posted, faults, executed, remounted, unsure,
                   cleared>>

\* The button is disabled while an answer is streamed.  The pin stays.
StartNewConversation ==
    /\ open /\ ~Streaming /\ Event
    /\ turns' = {} /\ live' = {} /\ pinnedAck' = None
    /\ Unmount(turns) /\ cleared' = cleared \cup turns
    /\ UNCHANGED <<store, question, pinCache, pinnedCount, asks, proposed, posted, faults, executed,
                   remounted, unsure, strayed>>

-----------------------------------------------------------------------------
(* A question.                                                             *)

\* Mutant: any thread that was gathered will do.
InCacheAny(s) == s # None /\ pinCache # None

InCache(s) == s # None /\ pinCache = s

\* A thread that yielded no text is cached, and not sent along.
Sends(t) == payload' \in {t, None}

\* ask and the beginning of ensurePinned.
Ask ==
    /\ open /\ ~Streaming /\ asks < MaxAsks /\ asks' = asks + 1
    /\ asked' = scope /\ stopped' = FALSE /\ live' = {}
    /\ IF scope \in Threads /\ ~InCache(scope)
       THEN phase' = "gather" /\ payload' = None
       ELSE phase' = "stream" /\ Sends(IF scope \in Threads THEN pinCache ELSE None)
    /\ UNCHANGED <<store, pin, turns, status, posts, proposed, posted, events, faults, hist>>

\* The thread has come, whatever is in scope by now.
Gathered ==
    /\ phase = "gather"
    /\ pinCache' = asked /\ pinnedCount' = asked /\ Sends(asked)
    /\ phase' = "stream"
    /\ strayed' = (strayed \/ scope # asked)
    /\ UNCHANGED <<store, asked, stopped, pinnedAck, cards, counts, executed, remounted, unsure,
                   cleared>>

\* The question is sent unpinned.
GatherFails ==
    /\ phase = "gather" /\ Fault
    /\ phase' = "stream"
    /\ UNCHANGED <<store, asked, stopped, payload, pin, cards, asks, proposed, posted, events, hist>>

\* The button; a gathering is not interrupted.
Stop ==
    /\ open /\ Streaming /\ ~stopped /\ stopped' = TRUE
    /\ UNCHANGED <<store, phase, asked, payload, pin, cards, counts, hist>>

Answering == phase = "stream" /\ ~stopped

\* The frame with which the server acknowledges the pin.
Pinned ==
    /\ Answering /\ payload # None /\ pinnedAck # payload
    /\ pinnedAck' = payload
    /\ strayed' = (strayed \/ scope # payload \/ pinCache # payload)
    /\ UNCHANGED <<store, question, pinCache, pinnedCount, cards, counts, executed, remounted, unsure,
                   cleared>>

\* onProposal: the card is live at once.
Proposal ==
    /\ Answering /\ asked # "doc" /\ proposed < MaxProposals
    /\ proposed' = proposed + 1 /\ live' = live \cup {proposed'}
    /\ UNCHANGED <<store, question, pin, turns, status, posts, asks, posted, events, faults, hist>>

\* The turn is completed: its cards are mounted anew below it.
Completes ==
    /\ Answering
    /\ phase' = "idle" /\ turns' = turns \cup live /\ live' = {}
    /\ Unmount(live) /\ remounted' = remounted \cup {p \in live : Approved(p)}
    /\ UNCHANGED <<store, asked, stopped, payload, pin, counts, executed, unsure, strayed, cleared>>

\* The stream breaks, or the signal is aborted: no turn is added.
Breaks ==
    /\ phase = "stream"
    /\ \/ stopped /\ UNCHANGED <<faults, cleared>>
       \/ ~stopped /\ Fault /\ cleared' = cleared \cup live
    /\ phase' = "idle" /\ live' = {} /\ Unmount(live)
    /\ UNCHANGED <<store, asked, stopped, payload, pin, turns, asks, proposed, posted, events, executed,
                   remounted, unsure, strayed>>

-----------------------------------------------------------------------------
(* The cards.                                                              *)

Enabled(p) == Mounted(p) /\ status[p] \in {"idle", "error"}

Approve(p) ==
    /\ Enabled(p) /\ posted < MaxPosts /\ posted' = posted + 1
    /\ status' = [status EXCEPT ![p] = "working"]
    /\ posts' = posts \cup {[n |-> posted', proposal |-> p, at |-> "sent", mounted |-> TRUE]}
    /\ UNCHANGED <<store, question, pin, live, turns, asks, proposed, events, faults, hist>>

Dismiss(p) ==
    /\ Enabled(p)
    /\ status' = [status EXCEPT ![p] = "dismissed"]
    /\ UNCHANGED <<store, question, pin, live, turns, posts, counts, hist>>

\* POST /mail/send or /calendar/events: carried out, carried out with the
\* answer lost, or refused.
Execute(q) ==
    LET p == q.proposal
        Becomes(end) == posts' = (posts \ {q}) \cup {[q EXCEPT !.at = end]}
    IN  /\ q.at = "sent"
        /\ \/ executed' = [executed EXCEPT ![p] = @ + 1] /\ Becomes("ok") /\ UNCHANGED <<faults, unsure>>
           \/ /\ executed' = [executed EXCEPT ![p] = @ + 1] /\ Becomes("failed")
              /\ Fault /\ unsure' = unsure \cup {p}
           \/ Fault /\ Becomes("failed") /\ UNCHANGED <<executed, unsure>>
        /\ UNCHANGED <<store, question, pin, live, turns, status, asks, proposed, posted, events,
                       remounted, strayed, cleared>>

\* A card that has been unmounted learns nothing.
Answer(q) ==
    /\ q.at # "sent" /\ posts' = posts \ {q}
    /\ status' = IF q.mounted /\ status[q.proposal] # "dismissed"
                 THEN [status EXCEPT ![q.proposal] = IF q.at = "ok" THEN "done" ELSE "error"]
                 ELSE status
    /\ UNCHANGED <<store, question, pin, live, turns, counts, hist>>

Next ==
    \/ Close \/ ClearScope \/ StartNewConversation
    \/ Ask \/ Gathered \/ GatherFails \/ Stop \/ Pinned \/ Proposal \/ Completes \/ Breaks
    \/ \E s \in Threads \cup {"doc", scope} : OpenAsk(s)
    \/ \E p \in Proposals : Approve(p) \/ Dismiss(p)
    \/ \E q \in posts : Execute(q) \/ Answer(q)

Spec == Init /\ [][Next]_vars

-----------------------------------------------------------------------------
(* What is proposed is done at most once, unless its card was mounted      *)
(* again after the approval, or the answer to it was lost.                 *)
DoneOnce == \A p \in Proposals : executed[p] > 1 => p \in remounted \cup unsure

(* What a card says is so: done is done, working has a request that will   *)
(* answer it, and what can be approved or was dismissed has not been done. *)
CardsAreRight ==
    \A p \in Proposals : Mounted(p) =>
        /\ status[p] = "done" => executed[p] > 0
        /\ status[p] = "working" => \E q \in posts : q.proposal = p /\ q.mounted
        /\ status[p] \in {"idle", "dismissed", "error"} /\ p \notin remounted \cup unsure
              => ~Approved(p)

(* The thread that is sent along is the one the question is about.         *)
PinIsAsked == Streaming => payload \in {None, asked}

(* What the chip tells of the pinned thread is about that thread, unless   *)
(* an answer came after its scope had been left: the effect clears what is *)
(* shown only along with a text that is cached, so it may outlive a later  *)
(* change of thread, even when the same thread was in scope again.         *)
ChipIsRight == scope \in Threads /\ ~strayed => {pinnedCount, pinnedAck} \subseteq {None, scope}

AskHolds == TypeOK /\ DoneOnce /\ CardsAreRight /\ PinIsAsked /\ ChipIsRight

(* A card that was shown stays, until its turn fails or the conversation   *)
(* is closed: stopping the answer does not discard it.                     *)
StopKeepsCards == 1 .. proposed \subseteq Shown \cup cleared
=============================================================================
