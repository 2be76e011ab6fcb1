----------------------------- MODULE AgentTurn -----------------------------
(***************************************************************************)
(* One turn of the assistant (agent.service.ts): the model is asked, the   *)
(* tools it calls are dispatched, and their results go back to it, within  *)
(* limits.  What the model answers is arbitrary: it ignores the tools it   *)
(* is offered and the tool choice it is given.                             *)
(***************************************************************************)
EXTENDS Naturals

CONSTANTS MaxIterations, MaxCallsPerIteration

VARIABLES
    locked,      \* "this thread only"
    pc, iter,
    late,        \* the minute is over, or the transcript is too long
    final,       \* the model was told to answer now
    nudged, used,
    left,        \* calls still to be dispatched
    unanswered,  \* tool calls of the last assistant message without a reply
    requests,    \* history: how often the model was asked
    shown,       \* did the user see text?
    executed, proposals, clarified

flow    == <<pc, iter, final, nudged, used, left, unanswered>>
effects == <<shown, executed, proposals, clarified>>
vars    == <<locked, late, flow, requests, effects>>

\* A call that is unknown, has invalid arguments, or an alias for an id; a
\* read of the thread, of another one, a search, a gated write, a question.
Kinds == {"bad", "read", "outside", "search", "write", "ask"}

TypeOK ==
    /\ locked \in BOOLEAN /\ late \in BOOLEAN /\ final \in BOOLEAN
    /\ pc \in {"loop", "asked", "dispatch", "convert", "done"}
    /\ iter \in 1 .. MaxIterations + 2
    /\ nudged \in BOOLEAN /\ used \in BOOLEAN /\ shown \in BOOLEAN
    /\ left \in 0 .. MaxCallsPerIteration /\ unanswered \in Nat
    /\ requests \in 0 .. MaxIterations + 4
    /\ executed \subseteq Kinds /\ proposals \in BOOLEAN /\ clarified \in Nat

Init ==
    /\ locked \in BOOLEAN /\ pc = "loop" /\ iter = 1 /\ late = FALSE /\ final = FALSE
    /\ nudged = FALSE /\ used = FALSE /\ left = 0 /\ unanswered = 0 /\ requests = 0
    /\ shown = FALSE /\ executed = {} /\ proposals = FALSE /\ clarified = 0

-----------------------------------------------------------------------------
\* Up to one more than there may be.
Count == requests' = IF requests > MaxIterations + 3 THEN requests ELSE requests + 1

\* Past MaxIterations the model is asked once more, without tools.
Ask ==
    /\ pc = "loop" /\ iter <= MaxIterations + 1
    /\ final' = (iter > MaxIterations \/ late)
    /\ Count /\ pc' = "asked"
    /\ UNCHANGED <<locked, late, iter, nudged, used, left, unanswered, effects>>

Probing == iter = 1 /\ ~final

\* Mutant: that it has been corrected is not remembered.
NudgeAgain ==
    /\ pc = "asked" /\ Probing /\ ~nudged /\ pc' = "loop"
    /\ UNCHANGED <<locked, late, iter, final, nudged, used, left, unanswered, requests, effects>>

\* The first answer uses no tool: it is withheld, and corrected once.
Nudge ==
    /\ pc = "asked" /\ Probing /\ ~nudged
    /\ nudged' = TRUE /\ pc' = "loop" /\ UNCHANGED iter
    /\ UNCHANGED <<locked, late, final, used, left, unanswered, requests, effects>>

Answers == pc = "asked" /\ ~(Probing /\ ~nudged)

\* No calls, or calls that were not wanted any more.
Answer ==
    /\ Answers /\ shown' = TRUE /\ pc' = IF used THEN "convert" ELSE "done"
    /\ UNCHANGED <<locked, late, iter, final, nudged, used, left, unanswered, requests,
                   executed, proposals, clarified>>

Cap(n) == IF n > MaxCallsPerIteration THEN MaxCallsPerIteration ELSE n

\* The calls that are kept are the calls the transcript shows.
Kept(n) == Cap(n)

\* n calls with or without text; those over the limit are dropped.
Call ==
    /\ pc = "asked" /\ ~final
    /\ \E n \in 1 .. MaxCallsPerIteration + 1, text \in BOOLEAN :
          /\ left' = Cap(n) /\ unanswered' = Kept(n)
          /\ shown' = (shown \/ text)
    /\ pc' = "dispatch"
    /\ UNCHANGED <<locked, late, iter, final, nudged, used, requests,
                   executed, proposals, clarified>>

\* THREAD_LOCK_TOOLS, and assertIdInThread for those that take an id.
ThreadTools == {"read", "outside", "ask"}

\* Mutant: the lock only chooses the tools that are offered.
RefusedNever(kind) == FALSE

Refused(kind) == locked /\ (kind \notin ThreadTools \/ kind = "outside")

EndsTurn(kind) == kind = "ask"

\* The tool may fail: its error is the reply.
Dispatch ==
    /\ pc = "dispatch" /\ left > 0
    /\ left' = left - 1 /\ unanswered' = unanswered - 1
    /\ \E kind \in Kinds :
          /\ clarified' = IF kind = "ask" THEN clarified + 1 ELSE clarified
          /\ proposals' = (proposals \/ (kind = "write" /\ ~Refused(kind)))
          /\ executed' = IF kind \in {"read", "outside", "search"} /\ ~Refused(kind)
                         THEN executed \cup {kind} ELSE executed
          /\ pc' = IF EndsTurn(kind) THEN "done" ELSE "dispatch"
    /\ UNCHANGED <<locked, late, iter, final, nudged, used, requests, shown>>

CountIteration == iter' = iter + 1

NextIteration ==
    /\ pc = "dispatch" /\ left = 0
    /\ used' = TRUE /\ CountIteration /\ pc' = "loop"
    /\ UNCHANGED <<locked, late, final, nudged, left, unanswered, requests, effects>>

\* An answer that ends with a question: one more request, for a card.
Convert ==
    /\ pc = "convert" /\ pc' = "done"
    /\ \/ UNCHANGED <<requests, clarified>>
       \/ Count /\ clarified' \in {clarified, clarified + 1}
    /\ UNCHANGED <<locked, late, iter, final, nudged, used, left, unanswered,
                   shown, executed, proposals>>

\* The model cannot be reached, or the user has gone.
Fail ==
    /\ pc \in {"loop", "asked"} /\ pc' = "done"
    /\ UNCHANGED <<locked, late, iter, final, nudged, used, left, unanswered, requests, effects>>

Late ==
    /\ ~late /\ pc # "done" /\ late' = TRUE
    /\ UNCHANGED <<locked, flow, requests, effects>>

Step == Ask \/ Nudge \/ Answer \/ Call \/ Dispatch \/ NextIteration \/ Convert \/ Fail

Next == Step \/ Late

\* A request to the model answers or fails: fetch gives up after five minutes.
Spec == Init /\ [][Next]_vars /\ WF_vars(Step)

-----------------------------------------------------------------------------
(* The model is asked a bounded number of times, whatever it answers: each *)
(* iteration, the correction, the last answer and the conversion once.     *)
RequestsBounded == requests <= MaxIterations + 3

(* Whenever the model is asked, each tool call it is shown has a reply.    *)
RepliesMatch == pc = "asked" => unanswered = 0

(* Under the lock nothing outside the thread is read, nothing is searched  *)
(* and nothing proposed, although the model may call anything.             *)
LockHolds == locked => executed \subseteq {"read"} /\ ~proposals

(* The user is asked at most one question in a turn.                       *)
OneQuestion == clarified <= 1

(* The user sees an answer that used no tool only after the correction or  *)
(* when there was no time for one.                                         *)
ProbedFirst == shown /\ pc = "done" => used \/ nudged \/ late \/ clarified > 0 \/ left > 0

(* Every turn ends.                                                        *)
Over == pc = "done"

(* Whatever the model answers, a turn keeps its limits, its lock and the   *)
(* form of its transcript.                                                 *)
TurnsHold ==
    TypeOK /\ RequestsBounded /\ RepliesMatch /\ LockHolds /\ OneQuestion /\ ProbedFirst
=============================================================================
