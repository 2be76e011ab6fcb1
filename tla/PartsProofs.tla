---------------------------- MODULE PartsProofs ----------------------------
(***************************************************************************)
(* Theorems about the components of Parts, each for any values of its      *)
(* constants.                                                              *)
(***************************************************************************)
EXTENDS Parts, FiniteSetTheorems, WellFoundedInduction, TLAPS

-----------------------------------------------------------------------------
(* A behaviour of Parts is one of the component in focus.                  *)

LEMMA FirstOfFocus ==
  ASSUME Init
  PROVE  /\ focus = "agent" => Agent!Init
         /\ focus = "generation" => Gen!Init
         /\ focus = "embedding" => Doc!Init
         /\ focus = "ews" => Ews!Init
         /\ focus = "batch" => Batch!Init
         /\ focus = "document" => Live!Init
         /\ focus = "reader" => Reader!Init
BY DEF Init, InitTurn, InitBrief, InitEmbed, InitCall, InitBatch, InitTab, InitReader

LEMMA StepOfFocus ==
  ASSUME [Next]_vars
  PROVE  /\ focus' = focus
         /\ focus = "agent" => [Agent!Next]_Agent!vars
         /\ focus = "generation" => [Gen!Next]_Gen!vars
         /\ focus = "embedding" => [Doc!Next]_Doc!vars
         /\ focus = "ews" => [Ews!Next]_Ews!vars
         /\ focus = "batch" => [Batch!Next]_Batch!vars
         /\ focus = "document" => [Live!Next]_Live!vars
         /\ focus = "reader" => [Reader!Next]_Reader!vars
<1>1. CASE Next
  BY <1>1 DEF Next, InTurn, InBrief, InEmbed, InCall, InBatch, InTab, InReader
<1>2. CASE UNCHANGED vars
  <2>1. UNCHANGED Agent!vars
    BY <1>2 DEF vars, turnVars, Agent!vars, Agent!flow, Agent!effects
  <2>2. UNCHANGED Gen!vars
    BY <1>2 DEF vars, briefVars, Gen!vars
  <2>3. UNCHANGED Doc!vars
    BY <1>2 DEF vars, embedVars, Doc!vars, Doc!work, Doc!gates
  <2>4. UNCHANGED Ews!vars
    BY <1>2 DEF vars, callVars, Ews!vars, Ews!conns, Ews!state
  <2>5. UNCHANGED Batch!vars
    BY <1>2 DEF vars, batchVars, Batch!vars, Batch!world, Batch!worker, Batch!hist
  <2>6. UNCHANGED Live!vars
    BY <1>2 DEF vars, tabVars, Live!vars, Live!row, Live!server, Live!tab, Live!hist
  <2>7. UNCHANGED Reader!vars
    BY <1>2 DEF vars, readerVars, Reader!vars, Reader!view, Reader!flags, Reader!rows,
                Reader!server, Reader!follow, Reader!told
  <2>8. focus' = focus
    BY <1>2 DEF vars
  <2> QED
    BY <2>1, <2>2, <2>3, <2>4, <2>5, <2>6, <2>7, <2>8
<1> QED
  BY <1>1, <1>2

-----------------------------------------------------------------------------
LEMMA LeastOf ==
  ASSUME NEW T, T \subseteq Nat, T # {}
  PROVE  \E x \in T : \A y \in T : x <= y
<1>1. \E x \in T : \A y \in T : ~(<<y, x>> \in OpToRel(<, Nat))
  BY NatLessThanWellFounded, WFMin
<1>2. PICK x \in T : \A y \in T : ~(<<y, x>> \in OpToRel(<, Nat))
  BY <1>1
<1>3. ASSUME NEW y \in T PROVE x <= y
  <2>1. <<y, x>> \in Nat \X Nat
    OBVIOUS
  <2>2. ~(y < x)
    BY <1>2, <2>1 DEF OpToRel
  <2> QED
    BY <2>2
<1> QED
  BY <1>3

LEMMA GreatestOf ==
  ASSUME NEW n \in Nat, NEW T, T \subseteq 1 .. n, T # {}
  PROVE  \E x \in T : \A y \in T : y <= x
<1> DEFINE U == {n - x : x \in T}
<1>1. PICK u \in U : \A v \in U : u <= v
  <2>1. \A x \in T : n - x \in Nat /\ n - x \in U
    OBVIOUS
  <2>2. U \subseteq Nat /\ U # {}
    BY <2>1
  <2> HIDE DEF U
  <2> QED
    BY <2>2, LeastOf
<1>2. PICK x \in T : u = n - x
  BY <1>1
<1>3. ASSUME NEW y \in T PROVE y <= x
  <2>1. u <= n - y
    BY <1>1
  <2> QED
    BY <1>2, <2>1
<1> QED
  BY <1>3

-----------------------------------------------------------------------------
(* A turn of the assistant (AgentTurn): what holds for any limits and      *)
(* whatever the model answers.                                             *)

TurnLimits == MaxIterations \in Nat \ {0} /\ MaxCallsPerIteration \in Nat

TurnTypes ==
    /\ locked \in BOOLEAN /\ late \in BOOLEAN /\ final \in BOOLEAN
    /\ nudged \in BOOLEAN /\ used \in BOOLEAN /\ shown \in BOOLEAN
    /\ pc \in {"loop", "asked", "dispatch", "convert", "done"}
    /\ iter \in Nat /\ left \in Nat /\ unanswered \in Nat
    /\ left <= MaxCallsPerIteration
    /\ requests \in Nat /\ clarified \in Nat
    /\ executed \subseteq Agent!Kinds /\ proposals \in BOOLEAN

\* The model was asked once for each iteration begun, and for the correction;
\* the request for a card ends the turn.
RequestsInv ==
    /\ iter >= 1 /\ iter <= MaxIterations + 1
    /\ pc = "asked" /\ iter > MaxIterations => final
    /\ pc = "dispatch" => iter <= MaxIterations
    /\ pc = "loop" => requests <= iter - 1 + (IF nudged THEN 1 ELSE 0)
    /\ pc \in {"asked", "dispatch", "convert"} => requests <= iter + (IF nudged THEN 1 ELSE 0)
    /\ requests <= MaxIterations + 3

\* While calls are dispatched those left are those without a reply.
RepliesInv ==
    /\ pc = "dispatch" => unanswered = left
    /\ pc \in {"loop", "asked"} => unanswered = 0

\* A question ends the turn, and the conversion is its last step.
QuestionInv ==
    /\ pc # "done" => clarified = 0
    /\ clarified <= 1

\* From the second iteration on tools have been used, and nothing was shown
\* before that but beside calls.
ProbeInv ==
    /\ pc # "done" /\ iter > 1 => used
    /\ pc \in {"loop", "asked"} /\ shown => used
    /\ pc = "convert" => used
    /\ pc = "asked" /\ final => late \/ iter > MaxIterations

TurnInv ==
    /\ TurnTypes /\ RequestsInv /\ RepliesInv /\ QuestionInv /\ ProbeInv
    /\ Agent!LockHolds /\ Agent!ProbedFirst

-----------------------------------------------------------------------------
LEMMA InitTurnInv == ASSUME TurnLimits, Agent!Init PROVE TurnInv
<1>0. left <= MaxCallsPerIteration
  BY DEF TurnLimits, Agent!Init
<1>1. TurnTypes
  BY <1>0 DEF Agent!Init, TurnTypes, Agent!Kinds
<1>2. RequestsInv /\ RepliesInv /\ QuestionInv
  BY DEF TurnLimits, Agent!Init, RequestsInv, RepliesInv, QuestionInv
<1>3. ProbeInv
  BY DEF Agent!Init, ProbeInv
<1>4. Agent!LockHolds /\ Agent!ProbedFirst
  BY DEF Agent!Init, Agent!LockHolds, Agent!ProbedFirst
<1> QED
  BY <1>1, <1>2, <1>3, <1>4 DEF TurnInv

LEMMA CapIsNat ==
    ASSUME TurnLimits, NEW n \in 1 .. MaxCallsPerIteration + 1
    PROVE  /\ Agent!Cap(n) \in Nat /\ Agent!Kept(n) = Agent!Cap(n)
           /\ Agent!Cap(n) <= MaxCallsPerIteration
BY DEF TurnLimits, Agent!Cap, Agent!Kept

\* One step per action.
LEMMA StepTurnInv == ASSUME TurnLimits, TurnInv, [Agent!Next]_Agent!vars PROVE TurnInv'
<1> USE DEF TurnLimits, TurnInv
<1>1. CASE Agent!Ask
  BY <1>1 DEF Agent!Ask, Agent!Count, Agent!effects, TurnTypes, RequestsInv, RepliesInv, QuestionInv, ProbeInv,
              Agent!LockHolds, Agent!ProbedFirst
<1>2. CASE Agent!Nudge
  BY <1>2 DEF Agent!Nudge, Agent!Probing, Agent!effects, TurnTypes, RequestsInv, RepliesInv, QuestionInv, ProbeInv,
              Agent!LockHolds, Agent!ProbedFirst
<1>3. CASE Agent!Answer
  BY <1>3 DEF Agent!Answer, Agent!Answers, Agent!Probing, TurnTypes, RequestsInv, RepliesInv, QuestionInv, ProbeInv,
              Agent!LockHolds, Agent!ProbedFirst
<1>4. CASE Agent!Call
  <2>1. PICK n \in 1 .. MaxCallsPerIteration + 1, words \in BOOLEAN :
           left' = Agent!Cap(n) /\ unanswered' = Agent!Kept(n) /\ shown' = (shown \/ words)
    BY <1>4 DEF Agent!Call
  <2>2. left' \in Nat /\ unanswered' = left' /\ left' <= MaxCallsPerIteration
    BY <2>1, CapIsNat
  <2>3. shown' \in BOOLEAN
    BY <2>1 DEF TurnTypes
  <2> QED
    BY <1>4, <2>2, <2>3 DEF Agent!Call, TurnTypes, RequestsInv, RepliesInv, QuestionInv, ProbeInv,
                            Agent!LockHolds, Agent!ProbedFirst
<1>5. CASE Agent!Dispatch
  <2>1. PICK tool \in Agent!Kinds :
           /\ clarified' = IF tool = "ask" THEN clarified + 1 ELSE clarified
           /\ proposals' = (proposals \/ (tool = "write" /\ ~Agent!Refused(tool)))
           /\ executed' = IF tool \in {"read", "outside", "search"} /\ ~Agent!Refused(tool)
                          THEN executed \cup {tool} ELSE executed
           /\ pc' = IF Agent!EndsTurn(tool) THEN "done" ELSE "dispatch"
    BY <1>5 DEF Agent!Dispatch
  <2>2. Agent!LockHolds'
    BY <1>5, <2>1 DEF Agent!Dispatch, Agent!Refused, Agent!ThreadTools, Agent!Kinds, Agent!LockHolds, TurnTypes
  <2>3. TurnTypes'
    <3>1. unanswered' \in Nat /\ left' \in Nat /\ left' <= MaxCallsPerIteration
      BY <1>5 DEF Agent!Dispatch, TurnTypes, RepliesInv
    <3>2. executed' \subseteq Agent!Kinds /\ clarified' \in Nat
      BY <2>1 DEF TurnTypes
    <3>3. proposals' \in BOOLEAN
      BY <2>1 DEF TurnTypes
    <3> QED
      BY <1>5, <2>1, <3>1, <3>2, <3>3 DEF Agent!Dispatch, TurnTypes
  <2> QED
    BY <1>5, <2>1, <2>2, <2>3 DEF Agent!Dispatch, Agent!EndsTurn, TurnTypes, RequestsInv, RepliesInv,
                                  QuestionInv, ProbeInv, Agent!ProbedFirst
<1>6. CASE Agent!NextIteration
  BY <1>6 DEF Agent!NextIteration, Agent!CountIteration, Agent!effects, TurnTypes, RequestsInv, RepliesInv, QuestionInv,
              ProbeInv, Agent!LockHolds, Agent!ProbedFirst
<1>7. CASE Agent!Convert
  BY <1>7 DEF Agent!Convert, Agent!Count, TurnTypes, RequestsInv, RepliesInv, QuestionInv, ProbeInv,
              Agent!LockHolds, Agent!ProbedFirst
<1>8. CASE Agent!Fail
  BY <1>8 DEF Agent!Fail, Agent!effects, TurnTypes, RequestsInv, RepliesInv, QuestionInv, ProbeInv,
              Agent!LockHolds, Agent!ProbedFirst
<1>9. CASE Agent!Late
  BY <1>9 DEF Agent!Late, Agent!flow, Agent!effects, TurnTypes, RequestsInv, RepliesInv, QuestionInv, ProbeInv,
              Agent!LockHolds, Agent!ProbedFirst
<1>10. CASE UNCHANGED Agent!vars
  BY <1>10 DEF Agent!vars, Agent!flow, Agent!effects, TurnTypes, RequestsInv, RepliesInv, QuestionInv, ProbeInv,
               Agent!LockHolds, Agent!ProbedFirst
<1> QED
  BY <1>1, <1>2, <1>3, <1>4, <1>5, <1>6, <1>7, <1>8, <1>9, <1>10 DEF Agent!Next, Agent!Step

\* The invariant the others follow from.
THEOREM TurnInvariant == TurnLimits => (Agent!Spec => []TurnInv)
<1> SUFFICES ASSUME TurnLimits PROVE Agent!Spec => []TurnInv
  OBVIOUS
<1>1. Agent!Init => TurnInv
  BY InitTurnInv
<1>2. TurnInv /\ [Agent!Next]_Agent!vars => TurnInv'
  BY StepTurnInv
<1> QED
  BY <1>1, <1>2, PTL DEF Agent!Spec

(* The model is asked at most MaxIterations + 3 times, and whenever it is, *)
(* each call it sees has a reply (agent.service.ts, run).                  *)
THEOREM TurnIsBounded == TurnLimits => (Agent!Spec => [](Agent!RequestsBounded /\ Agent!RepliesMatch))
<1> SUFFICES ASSUME TurnLimits PROVE Agent!Spec => [](Agent!RequestsBounded /\ Agent!RepliesMatch)
  OBVIOUS
<1>1. TurnInv => Agent!RequestsBounded /\ Agent!RepliesMatch
  BY DEF TurnInv, RequestsInv, RepliesInv, Agent!RequestsBounded, Agent!RepliesMatch
<1> QED
  BY TurnInvariant, <1>1, PTL

(* Whatever the model calls, a locked turn reads nothing outside its       *)
(* thread and proposes nothing (thread-lock.ts, dispatchContent).          *)
THEOREM LockAlwaysHolds == TurnLimits => (Agent!Spec => []Agent!LockHolds)
<1> SUFFICES ASSUME TurnLimits PROVE Agent!Spec => []Agent!LockHolds
  OBVIOUS
<1>1. TurnInv => Agent!LockHolds
  BY DEF TurnInv
<1> QED
  BY TurnInvariant, <1>1, PTL

(* The user is asked once at most, and shown an answer without tools only  *)
(* after the correction or out of time.                                    *)
THEOREM TurnIsOrderly == TurnLimits => (Agent!Spec => [](Agent!OneQuestion /\ Agent!ProbedFirst))
<1> SUFFICES ASSUME TurnLimits PROVE Agent!Spec => [](Agent!OneQuestion /\ Agent!ProbedFirst)
  OBVIOUS
<1>1. TurnInv => Agent!OneQuestion /\ Agent!ProbedFirst
  BY DEF TurnInv, QuestionInv, Agent!OneQuestion
<1> QED
  BY TurnInvariant, <1>1, PTL

LEMMA TurnInvHolds == ASSUME TurnLimits, TurnInv PROVE Agent!TurnsHold
<1>1. Agent!TypeOK
  BY DEF TurnLimits, TurnInv, TurnTypes, RequestsInv, Agent!TypeOK
<1> QED
  BY <1>1 DEF TurnInv, RequestsInv, RepliesInv, QuestionInv, Agent!TurnsHold,
              Agent!RequestsBounded, Agent!RepliesMatch, Agent!OneQuestion

(* All that a run checks of a turn, for any limits.                        *)
THEOREM TurnsAlwaysHold == TurnLimits => (Spec => []TurnsHold)
<1> SUFFICES ASSUME TurnLimits PROVE Spec => []TurnsHold
  OBVIOUS
<1> DEFINE Kept == focus = "agent" => TurnInv
<1>1. Init => Kept
  BY InitTurnInv, FirstOfFocus
<1>2. Kept /\ [Next]_vars => Kept'
  BY StepTurnInv, StepOfFocus
<1>3. Kept => TurnsHold
  BY TurnInvHolds DEF TurnsHold
<1> QED
  BY <1>1, <1>2, <1>3, PTL DEF Spec

-----------------------------------------------------------------------------
(* The cached briefs (GenerationCache).                                    *)

GenLimits ==
    MaxTime \in Nat \ {0} /\ MaxMade \in Nat /\ MaxFaults \in Nat /\ MailLimit \in Nat

LEMMA NewestOf ==
  ASSUME GenLimits, NEW S \in SUBSET Gen!Times, S # {}
  PROVE  Gen!Newest(S) \in S /\ \A t \in S : t <= Gen!Newest(S)
<1>1. S \subseteq 1 .. MaxTime /\ MaxTime \in Nat
  BY DEF Gen!Times, GenLimits
<1>2. \E t \in S : \A u \in S : u <= t
  BY <1>1, GreatestOf
<1> QED
  BY <1>2 DEF Gen!Newest

GenTypes ==
    /\ clock \in Gen!Times /\ mail \in [Gen!Times -> {"none", "text", "empty"}]
    /\ \A t \in Gen!Times : mail[t] # "none" => t <= clock
    /\ row \in Gen!Brief /\ gen \in [Requests -> Gen!Brief]
    /\ requests \in 0 .. MaxMade /\ faults \in 0 .. MaxFaults /\ late \subseteq Gen!Times

LEMMA SameNumber == ASSUME NEW S PROVE Gen!Cardinality(S) = Cardinality(S)
BY DEF Gen!Cardinality, Cardinality, Gen!IsFiniteSet, IsFiniteSet

\* Mail that is still considered was considered before there was more.
LEMMA WithinFewer ==
  ASSUME GenLimits, NEW S \in SUBSET Gen!Times, NEW T \in SUBSET S,
         NEW t \in Gen!Within(S), t \in T
  PROVE  t \in Gen!Within(T)
<1>1. t \in S /\ Cardinality(Gen!Above(S, t)) < MailLimit
  <2>1. t \in S /\ Gen!Cardinality(Gen!Above(S, t)) < MailLimit
    BY DEF Gen!Within
  <2> QED
    BY <2>1, SameNumber
<1>2. IsFiniteSet(1 .. MaxTime)
  BY FS_Interval DEF GenLimits
<1>3. Gen!Above(S, t) \subseteq 1 .. MaxTime /\ Gen!Above(T, t) \subseteq Gen!Above(S, t)
  BY DEF Gen!Times, Gen!Above
<1>4. IsFiniteSet(Gen!Above(S, t))
  BY <1>2, <1>3, FS_Subset
<1>5. /\ IsFiniteSet(Gen!Above(T, t))
      /\ Cardinality(Gen!Above(T, t)) <= Cardinality(Gen!Above(S, t))
  BY <1>3, <1>4, FS_Subset
<1>6. Cardinality(Gen!Above(S, t)) \in Nat /\ Cardinality(Gen!Above(T, t)) \in Nat
  BY <1>4, <1>5, FS_CardinalityType
<1>7. Cardinality(Gen!Above(T, t)) < MailLimit
  BY <1>1, <1>5, <1>6 DEF GenLimits
<1>8. Gen!Cardinality(Gen!Above(T, t)) < MailLimit
  BY <1>7, SameNumber
<1> QED
  BY <1>8 DEF Gen!Within

LEMMA WithinAre == ASSUME NEW S PROVE Gen!Within(S) \subseteq S
BY DEF Gen!Within

\* More mail brings nothing to quote but itself.
LEMMA QuotableGrows ==
  ASSUME GenLimits, GenTypes, GenTypes', NEW u \in Gen!Times, mail[u] # "none" => mail'[u] # "none",
         \A t \in Gen!Times : t # u => mail'[t] = mail[t]
  PROVE  Gen!Quotable' \subseteq Gen!Quotable \cup {u}
<1> SUFFICES ASSUME NEW t \in Gen!Quotable', t # u PROVE t \in Gen!Quotable
  OBVIOUS
<1>1. t \in Gen!Within(Gen!Involving') /\ mail'[t] = "text"
  BY DEF Gen!Quotable, Gen!Considered
<1>2. t \in Gen!Involving'
  BY <1>1, WithinAre
<1>3. t \in Gen!Times /\ mail[t] = "text"
  BY <1>1, <1>2 DEF Gen!Involving
<1>4. /\ Gen!Involving' \in SUBSET Gen!Times /\ Gen!Involving \in SUBSET Gen!Involving'
      /\ t \in Gen!Involving
  BY <1>3 DEF Gen!Involving
<1>5. t \in Gen!Within(Gen!Involving)
  BY <1>1, <1>4, WithinFewer
<1> QED
  BY <1>3, <1>5 DEF Gen!Quotable, Gen!Considered

\* What is quoted is mail with a text.
LEMMA QuotableAre ==
  Gen!Quotable \in SUBSET Gen!Times /\ \A t \in Gen!Quotable : mail[t] = "text" /\ t \in Gen!Involving
<1>1. Gen!Considered \subseteq Gen!Involving
  BY WithinAre DEF Gen!Considered
<1> QED
  BY <1>1 DEF Gen!Quotable, Gen!Involving

LEMMA QuotableAreThen == Gen!Quotable' \in SUBSET Gen!Times
<1>1. Gen!Considered' \subseteq Gen!Involving'
  BY WithinAre DEF Gen!Considered
<1> QED
  BY <1>1 DEF Gen!Quotable, Gen!Involving

LEMMA GenNone == ASSUME GenLimits PROVE Gen!None \in Gen!Brief /\ 1 \in Gen!Times
  BY DEF GenLimits, Gen!None, Gen!Brief, Gen!Times

LEMMA GenTypesAre ==
  ASSUME GenLimits PROVE Gen!TypeOK <=> GenTypes /\ row.anchor <= clock /\ row.since <= clock
<1>1. Gen!Brief \cup {Gen!None} = Gen!Brief
  BY GenNone
<1> QED
  BY <1>1 DEF Gen!TypeOK, GenTypes

LEMMA GenInit == ASSUME GenLimits, Gen!Init PROVE Gen!IInv
<1>1. GenTypes
  BY GenNone DEF GenLimits, Gen!Init, GenTypes
<1>2. Gen!Faithful(Gen!None) /\ Gen!None.anchor = 0 /\ Gen!None.since = 0
  <2>1. Gen!Quotable = {}
    BY QuotableAre DEF Gen!Init
  <2> QED
    BY <2>1 DEF Gen!Faithful, Gen!None
<1> QED
  BY <1>1, <1>2, GenTypesAre DEF Gen!Init, Gen!IInv

\* New mail is newer than every brief, or late.
LEMMA FaithfulStays ==
  ASSUME GenLimits, GenTypes, NEW b \in Gen!Brief, b.since <= clock, Gen!Faithful(b),
         late \subseteq late',
         \A t \in Gen!Quotable' : t \in Gen!Quotable \/ t > clock \/ t \in late'
  PROVE  Gen!Faithful(b)'
<1>1. b.since \in Nat /\ clock \in Nat /\ \A t \in Gen!Quotable' : t \in Nat
  <2>1. Gen!Quotable' \subseteq Gen!Times
    BY QuotableAreThen
  <2> QED
    BY <2>1 DEF GenLimits, GenTypes, Gen!Brief, Gen!Times
<1>2. \A t \in (Gen!Quotable \ late)' : t <= b.since => t \in Gen!Quotable \ late
  BY <1>1
<1> QED
  BY <1>2 DEF Gen!Faithful

LEMMA GenNext == ASSUME GenLimits, Gen!IInv, [Gen!Next]_Gen!vars PROVE Gen!IInv'
<1>0. /\ GenTypes /\ row.anchor <= clock /\ row.since <= clock /\ Gen!Faithful(row)
      /\ \A r \in Requests : /\ gen[r] \in Gen!Brief /\ Gen!Faithful(gen[r])
                             /\ gen[r].anchor <= clock /\ gen[r].since <= clock
  BY GenTypesAre DEF Gen!IInv, GenTypes
<1>a. /\ MaxTime \in Nat \ {0} /\ clock \in 1 .. MaxTime /\ row \in Gen!Brief /\ row.anchor \in Nat
      /\ row.since \in Nat /\ \A r \in Requests : gen[r].anchor \in Nat /\ gen[r].since \in Nat
  BY <1>0 DEF GenLimits, GenTypes, Gen!Times, Gen!Brief
<1>b. GenTypes' /\ row'.anchor <= clock' /\ row'.since <= clock' => Gen!TypeOK'
  <2>1. Gen!Brief \cup {Gen!None} = Gen!Brief
    BY GenNone
  <2> QED
    BY <2>1 DEF Gen!TypeOK, GenTypes
<1>1. CASE Gen!Arrive
  <2>1. PICK sort \in {"none", "text", "empty"} : mail' = [mail EXCEPT ![clock + 1] = sort]
    BY <1>1 DEF Gen!Arrive
  <2>2. clock' = clock + 1 /\ clock' \in Gen!Times /\ clock < clock' /\ UNCHANGED <<row, gen, late>>
    BY <1>1, <1>a DEF Gen!Arrive, Gen!Times
  <2>3. GenTypes'
    BY <1>0, <1>1, <1>a, <2>1, <2>2 DEF Gen!Arrive, GenTypes, Gen!Times
  <2>4. \A t \in Gen!Quotable' : t \in Gen!Quotable \/ t > clock
    <3>1. mail[clock + 1] = "none"
      BY <1>0, <1>a, <2>2 DEF GenTypes
    <3>2. \A t \in Gen!Times : t # clock + 1 => mail'[t] = mail[t]
      BY <1>0, <2>1 DEF GenTypes
    <3>3. Gen!Quotable' \subseteq Gen!Quotable \cup {clock + 1}
      BY <1>0, <2>2, <2>3, <3>1, <3>2, QuotableGrows
    <3> QED
      BY <1>a, <3>3
  <2>5. Gen!Faithful(row)'
    BY <1>0, <2>2, <2>4, FaithfulStays DEF GenTypes
  <2>6. ASSUME NEW r \in Requests PROVE Gen!Faithful(gen[r])'
    BY <1>0, <2>2, <2>4, FaithfulStays DEF GenTypes
  <2>7. /\ row'.anchor <= clock' /\ row'.since <= clock'
        /\ \A r \in Requests : gen'[r].anchor <= clock' /\ gen'[r].since <= clock'
    BY <1>0, <1>a, <2>2
  <2> QED
    BY <1>b, <2>2, <2>3, <2>5, <2>6, <2>7 DEF Gen!IInv
<1>2. CASE Gen!ArriveLate
  <2>1. PICK u \in 1 .. clock, sort \in {"text", "empty"} :
           mail' = [mail EXCEPT ![u] = sort] /\ late' = late \cup {u}
    BY <1>2 DEF Gen!ArriveLate
  <2>2. u \in Gen!Times /\ u <= clock /\ UNCHANGED <<clock, row, gen>>
    BY <1>2, <1>a DEF Gen!ArriveLate, Gen!Times
  <2>3. GenTypes'
    BY <1>0, <1>2, <2>1, <2>2 DEF Gen!ArriveLate, GenTypes
  <2>4. \A t \in Gen!Quotable' : t \in Gen!Quotable \/ t \in late'
    <3>1. \A t \in Gen!Times : t # u => mail'[t] = mail[t]
      BY <1>0, <2>1 DEF GenTypes
    <3>a. mail'[u] = sort /\ sort # "none"
      BY <1>0, <2>1, <2>2 DEF GenTypes
    <3>2. Gen!Quotable' \subseteq Gen!Quotable \cup {u}
      BY <1>0, <2>1, <2>2, <2>3, <3>1, <3>a, QuotableGrows
    <3> QED
      BY <2>1, <3>2
  <2>5. late \subseteq late' /\ row' = row /\ gen' = gen /\ clock' = clock
    BY <2>1, <2>2
  <2>6. Gen!Faithful(row)'
    BY <1>0, <2>4, <2>5, FaithfulStays DEF GenTypes
  <2>7. ASSUME NEW r \in Requests PROVE Gen!Faithful(gen[r])'
    BY <1>0, <2>4, <2>5, FaithfulStays DEF GenTypes
  <2> QED
    BY <1>0, <1>b, <2>3, <2>5, <2>6, <2>7 DEF Gen!IInv
<1>8. CASE Gen!Delete
  <2>1. PICK u \in Gen!Involving : mail' = [mail EXCEPT ![u] = "none"]
    BY <1>8 DEF Gen!Delete
  <2>2. /\ late' = late \cup (Gen!Quotable' \ Gen!Quotable)
        /\ UNCHANGED <<clock, row, gen, requests, faults>>
    BY <1>8 DEF Gen!Delete
  <2>3. Gen!Quotable' \subseteq Gen!Times
    BY QuotableAreThen
  <2>a. u \in Gen!Times
    BY <2>1 DEF Gen!Involving
  <2>b. mail' \in [Gen!Times -> {"none", "text", "empty"}]
        /\ \A t \in Gen!Times : mail'[t] # "none" => t <= clock
    BY <1>0, <2>1, <2>a DEF GenTypes
  <2>c. late' \subseteq Gen!Times
    BY <1>0, <2>2, <2>3 DEF GenTypes
  <2>4. GenTypes'
    BY <1>0, <2>2, <2>b, <2>c DEF GenTypes
  <2>5. \A t \in Gen!Quotable' : t \in Gen!Quotable \/ t \in late'
    BY <2>2
  <2>6. late \subseteq late' /\ row' = row /\ gen' = gen /\ clock' = clock
    BY <2>2
  <2>7. Gen!Faithful(row)'
    BY <1>0, <2>5, <2>6, FaithfulStays DEF GenTypes
  <2>8. ASSUME NEW r \in Requests PROVE Gen!Faithful(gen[r])'
    BY <1>0, <2>5, <2>6, FaithfulStays DEF GenTypes
  <2> QED
    BY <1>0, <1>b, <2>4, <2>6, <2>7, <2>8 DEF Gen!IInv
<1>3. ASSUME UNCHANGED <<clock, mail, late>>, GenTypes', row'.anchor <= clock, row'.since <= clock,
             Gen!Faithful(row'),
             \A r \in Requests : /\ gen'[r].anchor <= clock /\ gen'[r].since <= clock
                                /\ Gen!Faithful(gen'[r])
      PROVE  Gen!IInv'
  BY <1>3, <1>b DEF Gen!IInv, Gen!Faithful, Gen!Quotable, Gen!Considered, Gen!Involving
\* A brief that is put beside the others.
<1>c. ASSUME NEW r \in Requests, NEW b \in Gen!Brief, gen' = [gen EXCEPT ![r] = b],
             UNCHANGED <<clock, mail, row, late>>, requests' \in 0 .. MaxMade,
             faults' \in 0 .. MaxFaults, b.anchor <= clock, b.since <= clock, Gen!Faithful(b)
      PROVE  Gen!IInv'
  <2>1. \A q \in Requests : gen'[q] = b \/ gen'[q] = gen[q]
    BY <1>0, <1>c DEF GenTypes
  <2>2. GenTypes'
    BY <1>0, <1>c DEF GenTypes
  <2> QED
    BY <1>0, <1>3, <1>c, <2>1, <2>2
<1>4. ASSUME NEW r \in Requests, Gen!ReadMail(r) PROVE Gen!IInv'
  <2>1. Gen!Quotable \in SUBSET Gen!Times /\ \A t \in Gen!Quotable : t <= clock
    BY <1>0, QuotableAre DEF GenTypes
  <2>2. PICK d \in BOOLEAN, known \in {{}, Gen!Quotable} :
           /\ known = IF d THEN {} ELSE Gen!Quotable
           /\ gen' = [gen EXCEPT ![r] = [known |-> known, since |-> clock,
                        anchor |-> Gen!Newest(known), degraded |-> d, made |-> FALSE]]
    BY <1>4 DEF Gen!ReadMail
  <2> DEFINE b == [known |-> known, since |-> clock, anchor |-> Gen!Newest(known),
                   degraded |-> d, made |-> FALSE]
  <2>3. known \in SUBSET Gen!Times /\ \A t \in known : t <= clock
    BY <2>1
  <2>4. /\ Gen!Newest(known) \in 0 .. MaxTime /\ Gen!Newest(known) <= clock
        /\ \A t \in known : t <= Gen!Newest(known)
    <3>1. CASE known = {}
      <4>1. Gen!Newest(known) = 0
        BY <3>1 DEF Gen!Newest
      <4> QED
        BY <1>a, <3>1, <4>1
    <3>2. CASE known # {}
      <4>1. Gen!Newest(known) \in known /\ \A t \in known : t <= Gen!Newest(known)
        BY <2>3, <3>2, NewestOf
      <4>2. Gen!Newest(known) \in 1 .. MaxTime
        BY <2>3, <4>1 DEF Gen!Times
      <4> QED
        BY <1>a, <2>3, <4>1, <4>2
    <3> QED
      BY <3>1, <3>2
  <2>5. b \in Gen!Brief
    BY <1>a, <2>3, <2>4 DEF Gen!Brief
  <2>6. b.anchor <= clock /\ b.since <= clock
    BY <1>a, <2>4
  <2>7. Gen!Faithful(b)
    BY <2>2, <2>4, <2>6 DEF Gen!Faithful
  <2>8. /\ requests' \in 0 .. MaxMade /\ faults' \in 0 .. MaxFaults
        /\ UNCHANGED <<clock, mail, row, late>>
    BY <1>0, <1>4 DEF Gen!ReadMail, GenTypes, GenLimits
  <2>9. gen' = [gen EXCEPT ![r] = b]
    BY <2>2
  <2> QED
    BY <1>c, <2>5, <2>6, <2>7, <2>8, <2>9
<1>9. ASSUME NEW r \in Requests, Gen!Prepare(r) PROVE Gen!IInv'
  <2> DEFINE b == Gen!Anchored(gen[r])
  <2>1. gen' = [gen EXCEPT ![r] = b] /\ UNCHANGED <<clock, mail, row, late, requests, faults>>
    BY <1>9 DEF Gen!Prepare
  <2>a. /\ gen[r] \in Gen!Brief /\ gen[r].anchor <= clock /\ gen[r].since <= clock
        /\ Gen!Faithful(gen[r]) /\ gen[r].known \in SUBSET Gen!Times
    BY <1>0 DEF Gen!Brief
  <2>2. (IF gen[r].known = {} THEN clock ELSE gen[r].anchor) \in 0 .. MaxTime
    BY <1>a, <2>a DEF Gen!Brief
  <2>3. b \in Gen!Brief
    BY <2>a, <2>2 DEF Gen!Brief, Gen!Anchored
  <2>4. Gen!Faithful(b)
    BY <2>a DEF Gen!Faithful, Gen!Anchored
  <2>5. b.anchor <= clock /\ b.since <= clock
    BY <1>a, <2>a DEF Gen!Anchored
  <2>6. requests' \in 0 .. MaxMade /\ faults' \in 0 .. MaxFaults
    BY <1>0, <2>1 DEF GenTypes
  <2> QED
    BY <1>c, <2>1, <2>3, <2>4, <2>5, <2>6
<1>d. Gen!Faithful(Gen!None) /\ Gen!None.anchor <= clock /\ Gen!None.since <= clock
  <2>1. \A t \in Gen!Quotable : t \in 1 .. MaxTime
    BY QuotableAre DEF Gen!Times
  <2> QED
    BY <1>a, <2>1 DEF Gen!Faithful, Gen!None
<1>5. ASSUME NEW r \in Requests, Gen!Upsert(r) PROVE Gen!IInv'
  <2>1. row' = gen[r]
    BY <1>0, <1>5 DEF Gen!Upsert, Gen!Anchor, Gen!Brief
  <2>2. gen' = [gen EXCEPT ![r] = Gen!None] /\ UNCHANGED <<clock, mail, late, requests, faults>>
    BY <1>5 DEF Gen!Upsert
  <2>3. GenTypes'
    BY <1>0, <2>1, <2>2, GenNone DEF GenTypes
  <2> QED
    BY <1>0, <1>3, <1>d, <2>1, <2>2, <2>3 DEF GenTypes
<1>6. ASSUME NEW r \in Requests, Gen!Abort(r) PROVE Gen!IInv'
  <2>1. gen' = [gen EXCEPT ![r] = Gen!None] /\ UNCHANGED <<clock, mail, row, late, requests, faults>>
    BY <1>6 DEF Gen!Abort
  <2>2. GenTypes'
    BY <1>0, <2>1, GenNone DEF GenTypes
  <2> QED
    BY <1>0, <1>3, <1>d, <2>1, <2>2 DEF GenTypes
<1>7. CASE UNCHANGED Gen!vars
  BY <1>0, <1>3, <1>7 DEF Gen!vars, GenTypes
<1> QED
  BY <1>1, <1>2, <1>4, <1>5, <1>6, <1>7, <1>8, <1>9 DEF Gen!Next

LEMMA FaithfulIsFresh ==
  ASSUME GenLimits, Gen!IInv PROVE Gen!FreshKnowsAll /\ Gen!KnowingIsFresh
<1>0. GenTypes /\ Gen!Faithful(row) /\ row.anchor \in Nat /\ row.since \in Nat
  BY GenTypesAre DEF Gen!IInv, GenTypes, Gen!Brief
<1>1. Gen!Involving \in SUBSET Gen!Times /\ \A t \in Gen!Times : t \in Nat
  BY DEF Gen!Involving, Gen!Times
<1>2. ASSUME ~Gen!Stale, ~row.degraded
      PROVE  Gen!Quotable \ (late \cup Gen!Between(row)) \subseteq row.known
  <2> SUFFICES ASSUME NEW t \in Gen!Quotable \ (late \cup Gen!Between(row)) PROVE t \in row.known
    OBVIOUS
  <2>1. t \in Gen!Involving /\ t \in Nat /\ t \in Gen!Times
    BY QuotableAre DEF Gen!Times
  <2>2. t <= Gen!Newest(Gen!Involving) /\ Gen!Newest(Gen!Involving) \in Nat
    BY <1>1, <2>1, NewestOf
  <2>3. t <= row.anchor
    BY <1>0, <1>2, <2>1, <2>2 DEF Gen!Stale
  <2>4. t <= row.since
    BY <1>0, <2>1, <2>3 DEF Gen!Faithful, Gen!Between
  <2> QED
    BY <1>0, <1>2, <2>4 DEF Gen!Faithful
<1>3. ASSUME Gen!Involving # {}, Gen!Involving \subseteq row.known PROVE ~Gen!Stale
  <2>1. Gen!Newest(Gen!Involving) \in row.known /\ Gen!Newest(Gen!Involving) \in Nat
    BY <1>1, <1>3, NewestOf
  <2> QED
    BY <1>0, <2>1 DEF Gen!Faithful, Gen!Stale
<1> QED
  BY <1>2, <1>3 DEF Gen!FreshKnowsAll, Gen!KnowingIsFresh

(* However mail arrives while briefs are made and replace each other: one  *)
(* that is served as fresh knows all the mail within the limit but what    *)
(* came to be quoted behind its time, or between the reads of a brief that *)
(* had found none; and one that knows all is not called stale              *)
(* (generation-cache.service.ts).                                          *)
THEOREM BriefsAreFresh == GenLimits => (Spec => []BriefsFresh)
<1> SUFFICES ASSUME GenLimits PROVE Spec => []BriefsFresh
  OBVIOUS
<1> DEFINE Kept == focus = "generation" => Gen!IInv
<1>1. Init => Kept
  BY GenInit, FirstOfFocus
<1>2. Kept /\ [Next]_vars => Kept'
  BY GenNext, StepOfFocus
<1>3. Kept => BriefsFresh
  BY FaithfulIsFresh DEF Gen!BriefsFresh, BriefsFresh
<1> QED
  BY <1>1, <1>2, <1>3, PTL DEF Spec
-----------------------------------------------------------------------------
(* The embedding rows of a document (DocEmbedding).                        *)

DocLimits == FailureLimit \in Nat \ {0} /\ MaxUpdates \in Nat /\ MaxFaults \in Nat

DocTypes ==
    /\ content \in Doc!Contents /\ updatedAt \in 0 .. MaxUpdates
    /\ signedIn \in BOOLEAN /\ crowded \in BOOLEAN
    /\ rows \in [kind : {"none", "vectors", "tombstone"}, text : Doc!Contents, src : 0 .. MaxUpdates]
    /\ faults \in 0 .. MaxFaults /\ crossed \in BOOLEAN

WorkerTypes ==
    /\ pc \in [Workers -> Doc!Stages]
    /\ seen \in [Workers -> 0 .. MaxUpdates] /\ text \in [Workers -> Doc!Contents]
    /\ failures \in [Workers -> Nat] /\ streak \in [Workers -> Nat]

\* What holds of one worker.
WorkOf(w) ==
    /\ seen[w] <= updatedAt
    /\ pc[w] \in {"read", "same", "embed", "write", "blank"} /\ seen[w] = updatedAt
          => text[w] = content
    /\ pc[w] = "blank" => text[w] = "blank"

StrikesOf(w) ==
    /\ failures[w] < FailureLimit /\ streak[w] <= faults
    /\ failures[w] + (IF pc[w] = "failed" THEN 1 ELSE 0) <= streak[w]
    /\ pc[w] = "given up" => streak[w] >= FailureLimit

DocInv ==
    /\ DocTypes /\ WorkerTypes /\ rows.src <= updatedAt
    /\ \A w \in Workers : WorkOf(w) /\ StrikesOf(w)
    /\ Doc!CurrentRowsAgree /\ Doc!PassedOverWithCause

LEMMA DocInvHolds == ASSUME DocLimits, DocInv PROVE Doc!RowsOfDocuments
<1>1. DocTypes /\ WorkerTypes /\ \A w \in Workers : WorkOf(w) /\ StrikesOf(w)
  BY DEF DocInv
<1>2. FailureLimit \in Nat \ {0} /\ MaxFaults \in Nat /\ faults \in 0 .. MaxFaults
  BY <1>1 DEF DocTypes, DocLimits
<1>3. ASSUME NEW w \in Workers
      PROVE  failures[w] \in 0 .. FailureLimit - 1 /\ streak[w] \in 0 .. MaxFaults
  <2>1. failures[w] \in Nat /\ streak[w] \in Nat
    BY <1>1 DEF WorkerTypes
  <2>2. failures[w] < FailureLimit /\ streak[w] <= faults
    BY <1>1 DEF StrikesOf
  <2>3. FailureLimit \in Nat /\ MaxFaults \in Nat /\ faults \in Nat /\ faults <= MaxFaults
    BY <1>2
  <2> QED
    BY <2>1, <2>2, <2>3
<1>4. failures \in [Workers -> 0 .. FailureLimit - 1] /\ streak \in [Workers -> 0 .. MaxFaults]
  BY <1>1, <1>3 DEF WorkerTypes
<1>5. Doc!TypeOK
  BY <1>1, <1>4 DEF DocTypes, WorkerTypes, Doc!TypeOK
<1>6. Doc!WorkInv /\ Doc!StrikesInv
  BY <1>1 DEF WorkOf, StrikesOf, Doc!WorkInv, Doc!StrikesInv
<1> QED
  BY <1>5, <1>6 DEF DocInv, Doc!RowsOfDocuments

LEMMA DocInit == ASSUME DocLimits, Doc!Init PROVE DocInv
<1>1. DocTypes /\ WorkerTypes
  <2>1. 0 \in 0 .. MaxUpdates /\ 0 \in 0 .. MaxFaults /\ 0 \in Nat
    BY DEF DocLimits
  <2>2. Unwritten \in Doc!Contents /\ "idle" \in Doc!Stages
    BY DEF Doc!Contents, Doc!Stages
  <2>3. DocTypes
    BY <2>1, <2>2 DEF Doc!Init, DocTypes, Doc!NoRows
  <2>4. WorkerTypes
    BY <2>1, <2>2 DEF Doc!Init, WorkerTypes
  <2> QED
    BY <2>3, <2>4
<1>2. rows.src <= updatedAt /\ rows.kind = "none"
  BY DEF Doc!Init, Doc!NoRows
<1>3. \A w \in Workers : WorkOf(w) /\ StrikesOf(w)
  BY DEF DocLimits, Doc!Init, WorkOf, StrikesOf
<1> QED
  BY <1>1, <1>2, <1>3 DEF DocInv, Doc!CurrentRowsAgree, Doc!PassedOverWithCause

\* A step of worker w leaves the others alone.
Same(v) ==
    pc'[v] = pc[v] /\ seen'[v] = seen[v] /\ text'[v] = text[v] /\ failures'[v] = failures[v]
    /\ streak'[v] = streak[v]

\* It suffices to look at the worker that steps, and at the rows.
LEMMA OfOneWorker ==
  ASSUME DocLimits, DocInv, NEW w \in Workers, UNCHANGED <<content, updatedAt, signedIn, crowded>>,
         faults <= faults', DocTypes', WorkerTypes', rows'.src <= updatedAt,
         \A v \in Workers : v # w => Same(v), WorkOf(w)', StrikesOf(w)',
         Doc!CurrentRowsAgree', Doc!PassedOverWithCause'
  PROVE  DocInv'
<1>1. ASSUME NEW v \in Workers, v # w PROVE WorkOf(v)' /\ StrikesOf(v)'
  <2>1. WorkOf(v) /\ StrikesOf(v) /\ Same(v)
    BY <1>1 DEF DocInv
  <2>2. WorkOf(v)'
    BY <2>1 DEF WorkOf, Same
  <2>3. streak[v] \in Nat /\ faults \in Nat /\ faults' \in Nat /\ streak[v] <= faults'
    <3>1. streak[v] \in Nat /\ faults \in 0 .. MaxFaults /\ faults' \in 0 .. MaxFaults
      BY DEF DocInv, DocTypes, WorkerTypes
    <3>2. streak[v] <= faults
      BY <2>1 DEF StrikesOf
    <3> QED
      BY <3>1, <3>2 DEF DocLimits
  <2>4. StrikesOf(v)'
    BY <2>1, <2>3 DEF StrikesOf, Same
  <2> QED
    BY <2>2, <2>4
<1> QED
  BY <1>1 DEF DocInv

\* What holds of a worker that has ended.
LEMMA EndedWorker ==
  ASSUME DocLimits, DocInv, NEW w \in Workers, Doc!Ends(w), UNCHANGED updatedAt,
         WorkerTypes' /\ faults' \in Nat, failures'[w] < FailureLimit, streak'[w] <= faults',
         failures'[w] <= streak'[w]
  PROVE  WorkOf(w)' /\ StrikesOf(w)'
<1>1. pc'[w] = "idle" /\ seen'[w] = 0
  BY DEF Doc!Ends, DocInv, WorkerTypes
<1>2. updatedAt \in Nat /\ failures'[w] \in Nat /\ streak'[w] \in Nat
  BY DEF DocInv, DocTypes, DocLimits, WorkerTypes
<1>3. WorkOf(w)'
  BY <1>1, <1>2 DEF WorkOf
<1> QED
  BY <1>1, <1>2, <1>3 DEF StrikesOf

\* A step that changes nothing but the stage, or fails.
Stays(w, to) ==
    /\ pc[w] \in {"read", "same", "embed", "write", "blank"} /\ to # "failed"
    /\ UNCHANGED <<faults, streak>>

Fails(w, to) ==
    /\ to = "failed" /\ pc[w] # "failed" /\ Doc!Fault
    /\ streak' = [streak EXCEPT ![w] = streak[w] + 1]

Moves(w, to) ==
    /\ to \notin {"blank", "given up"} /\ to \in Doc!Stages /\ pc' = [pc EXCEPT ![w] = to]
    /\ UNCHANGED <<content, updatedAt, signedIn, crowded, rows, seen, text, failures, crossed>>
    /\ Stays(w, to) \/ Fails(w, to)

LEMMA MovesOn == ASSUME DocLimits, DocInv, NEW w \in Workers, NEW to, Moves(w, to) PROVE DocInv'
<1>1. DocTypes /\ WorkerTypes /\ WorkOf(w) /\ StrikesOf(w)
  BY DEF DocInv
<1>a. MaxFaults \in Nat /\ FailureLimit \in Nat /\ faults \in 0 .. MaxFaults
  BY <1>1 DEF DocTypes, DocLimits
<1>b. \A v \in Workers : streak[v] \in Nat /\ failures[v] \in Nat
  BY <1>1 DEF WorkerTypes
<1>2. faults' \in 0 .. MaxFaults /\ faults <= faults'
  <2>1. faults' = faults \/ (faults < MaxFaults /\ faults' = faults + 1)
    BY DEF Moves, Stays, Fails, Doc!Fault
  <2> QED
    BY <1>a, <2>1
<1>c. \A v \in Workers : streak'[v] = streak[v] \/ streak'[v] = streak[v] + 1
  BY <1>1 DEF WorkerTypes, Moves, Stays, Fails
<1>d. ASSUME NEW v \in Workers PROVE streak'[v] \in Nat /\ streak'[v] >= streak[v]
  <2>1. streak[v] \in Nat /\ (streak'[v] = streak[v] \/ streak'[v] = streak[v] + 1)
    BY <1>b, <1>c
  <2> QED
    BY <2>1
<1>3. DocTypes'
  BY <1>1, <1>2 DEF DocTypes, Moves
<1>4. WorkerTypes'
  <2>1. streak' \in [Workers -> Nat]
    BY <1>1, <1>d DEF WorkerTypes, Moves, Stays, Fails
  <2> QED
    BY <1>1, <2>1 DEF WorkerTypes, Moves
<1>5. \A v \in Workers : v # w => Same(v)
  BY <1>1 DEF WorkerTypes, Same, Moves, Stays, Fails
<1>6. pc'[w] = to
  BY <1>1 DEF WorkerTypes, Moves
<1>7. WorkOf(w)'
  BY <1>1, <1>6 DEF WorkOf, Moves, Stays, Fails
<1>8. StrikesOf(w)'
  <2>1. CASE Stays(w, to)
    BY <1>1, <1>6, <2>1 DEF StrikesOf, Moves, Stays
  <2>2. CASE Fails(w, to)
    <3>1. streak'[w] = streak[w] + 1 /\ faults' = faults + 1
      BY <1>1, <2>2 DEF WorkerTypes, Fails, Doc!Fault
    <3>2. failures'[w] = failures[w] /\ failures[w] < FailureLimit /\ streak[w] <= faults
      BY <1>1 DEF StrikesOf, Moves
    <3>4. streak[w] \in Nat /\ failures[w] \in Nat
      BY <1>b
    <3>c. faults \in Nat
      BY <1>a
    <3>3. failures[w] <= streak[w]
      <4>1. failures[w] + 0 <= streak[w]
        BY <1>1, <2>2 DEF StrikesOf, Fails
      <4> QED
        BY <3>4, <4>1
    <3>5. streak'[w] <= faults' /\ failures'[w] + 1 <= streak'[w]
      BY <3>1, <3>2, <3>3, <3>4, <3>c
    <3> QED
      BY <1>6, <2>2, <3>2, <3>5 DEF StrikesOf, Moves, Fails
  <2> QED
    BY <2>1, <2>2 DEF Moves
<1>9. Doc!PassedOverWithCause'
  <2>1. ASSUME NEW v \in Workers, streak[v] >= FailureLimit PROVE streak'[v] >= FailureLimit
    <3>1. streak[v] \in Nat /\ streak'[v] \in Nat /\ streak'[v] >= streak[v] /\ FailureLimit \in Nat
      BY <1>a, <1>b, <1>d
    <3> QED
      BY <2>1, <3>1
  <2>2. Doc!PassedOverWithCause
    BY DEF DocInv
  <2> QED
    BY <2>1, <2>2 DEF Doc!PassedOverWithCause, Moves
<1>10. Doc!CurrentRowsAgree' /\ rows'.src <= updatedAt
  BY DEF DocInv, Doc!CurrentRowsAgree, Moves
<1>e. UNCHANGED <<content, updatedAt, signedIn, crowded>>
  BY DEF Moves
<1> QED
  BY <1>2, <1>3, <1>4, <1>5, <1>7, <1>8, <1>9, <1>10, <1>e, OfOneWorker

LEMMA DocUpdate == ASSUME DocLimits, DocInv, Doc!Update PROVE DocInv'
<1>1. DocTypes /\ WorkerTypes
  BY DEF DocInv
<1>2. /\ updatedAt \in Nat /\ updatedAt' = updatedAt + 1 /\ updatedAt' \in 0 .. MaxUpdates
      /\ content' \in Doc!Contents
  BY <1>1 DEF DocTypes, DocLimits, Doc!Update, Doc!Contents, Doc!gates
<1>3. DocTypes' /\ WorkerTypes'
  BY <1>1, <1>2 DEF DocTypes, WorkerTypes, Doc!Update, Doc!work, Doc!gates
<1>4. ASSUME NEW v \in Workers PROVE WorkOf(v)' /\ StrikesOf(v)'
  <2>1. seen[v] \in Nat /\ seen[v] <= updatedAt /\ seen' = seen
    BY <1>1 DEF WorkerTypes, DocLimits, DocInv, WorkOf, Doc!Update, Doc!work, Doc!gates
  <2>2. seen'[v] <= updatedAt' /\ seen'[v] # updatedAt'
    BY <1>2, <2>1
  <2> QED
    BY <2>2 DEF DocInv, WorkOf, StrikesOf, Doc!Update, Doc!work, Doc!gates
<1>5. rows.src \in Nat /\ rows.src <= updatedAt /\ rows' = rows
  BY <1>1 DEF DocInv, DocTypes, DocLimits, Doc!Update, Doc!gates
<1>6. rows'.src <= updatedAt' /\ ~(rows'.src >= updatedAt')
  BY <1>2, <1>5
<1> QED
  BY <1>3, <1>4, <1>6 DEF DocInv, Doc!CurrentRowsAgree, Doc!PassedOverWithCause

LEMMA DocPick == ASSUME DocLimits, DocInv, NEW w \in Workers, Doc!Pick(w) PROVE DocInv'
<1>1. DocTypes /\ WorkerTypes /\ WorkOf(w) /\ StrikesOf(w)
  BY DEF DocInv
<1>2. DocTypes' /\ WorkerTypes'
  BY <1>1 DEF DocTypes, WorkerTypes, Doc!Pick, Doc!Goes, Doc!Stages, Doc!gates
<1>3. \A v \in Workers : v # w => Same(v)
  BY <1>1 DEF WorkerTypes, Doc!Pick, Doc!Goes, Same, Doc!gates
<1>4. pc'[w] = "picked" /\ pc[w] = "idle" /\ seen'[w] = updatedAt /\ updatedAt \in Nat
  BY <1>1 DEF WorkerTypes, DocTypes, DocLimits, Doc!Pick, Doc!Goes, Doc!gates
<1>5. WorkOf(w)' /\ StrikesOf(w)'
  BY <1>1, <1>4 DEF Doc!Pick, WorkOf, StrikesOf, Doc!gates
<1>6. faults \in Nat /\ UNCHANGED <<content, updatedAt, signedIn, crowded, rows, faults, crossed, streak>>
  BY <1>1 DEF DocTypes, DocLimits, Doc!Pick, Doc!gates
<1>7. rows'.src <= updatedAt /\ Doc!CurrentRowsAgree' /\ Doc!PassedOverWithCause'
  BY <1>6 DEF DocInv, Doc!CurrentRowsAgree, Doc!PassedOverWithCause
<1> QED
  BY <1>2, <1>3, <1>5, <1>6, <1>7, OfOneWorker

LEMMA DocRead == ASSUME DocLimits, DocInv, NEW w \in Workers, Doc!Read(w) PROVE DocInv'
<1>1. DocTypes /\ WorkerTypes /\ WorkOf(w) /\ StrikesOf(w)
  BY DEF DocInv
<1>2. DocTypes' /\ WorkerTypes'
  BY <1>1 DEF DocTypes, WorkerTypes, Doc!Read, Doc!Goes, Doc!Stages, Doc!gates
<1>3. \A v \in Workers : v # w => Same(v)
  BY <1>1 DEF WorkerTypes, Doc!Read, Doc!Goes, Same, Doc!gates
<1>4. /\ pc[w] = "picked" /\ text'[w] = content
      /\ pc'[w] = IF content = "blank" THEN "blank" ELSE "read"
  BY <1>1 DEF WorkerTypes, Doc!Read, Doc!Goes, Doc!gates
<1>5. WorkOf(w)' /\ StrikesOf(w)'
  BY <1>1, <1>4 DEF Doc!Read, WorkOf, StrikesOf, Doc!gates
<1>6. faults \in Nat /\ UNCHANGED <<content, updatedAt, signedIn, crowded, rows, faults, crossed, streak>>
  BY <1>1 DEF DocTypes, DocLimits, Doc!Read, Doc!gates
<1>7. rows'.src <= updatedAt /\ Doc!CurrentRowsAgree' /\ Doc!PassedOverWithCause'
  BY <1>6 DEF DocInv, Doc!CurrentRowsAgree, Doc!PassedOverWithCause
<1> QED
  BY <1>2, <1>3, <1>5, <1>6, <1>7, OfOneWorker

\* Compare, Embed and Fail.
LEMMA DocMoves ==
  ASSUME DocLimits, DocInv, NEW w \in Workers, Doc!Compare(w) \/ Doc!Embed(w) \/ Doc!Fail(w)
  PROVE  DocInv'
<1>1. CASE Doc!Compare(w)
  <2>1. PICK to \in {"same", "embed"} : pc' = [pc EXCEPT ![w] = to]
    BY <1>1 DEF Doc!Compare, Doc!Goes, Doc!gates
  <2>2. Moves(w, to)
    BY <1>1, <2>1 DEF Doc!Compare, Doc!Goes, Doc!Stages, Moves, Stays, Doc!gates
  <2> QED
    BY <2>2, MovesOn
<1>2. CASE Doc!Embed(w)
  <2>1. Moves(w, "write")
    BY <1>2 DEF Doc!Embed, Doc!Goes, Doc!Stages, Moves, Stays, Doc!gates
  <2> QED
    BY <2>1, MovesOn
<1>3. CASE Doc!Fail(w)
  <2>1. Moves(w, "failed")
    BY <1>3 DEF Doc!Fail, Doc!Stages, Moves, Fails, Doc!gates
  <2> QED
    BY <2>1, MovesOn
<1> QED
  BY <1>1, <1>2, <1>3

\* The types of a worker that has ended, and of those that go on.
LEMMA EndsTypes ==
  ASSUME DocLimits, WorkerTypes, NEW w \in Workers, Doc!Ends(w),
         failures' = failures \/ failures' = [failures EXCEPT ![w] = 0],
         streak' = streak \/ streak' = [streak EXCEPT ![w] = 0]
  PROVE  WorkerTypes' /\ \A v \in Workers : v # w => Same(v)
<1>1. 0 \in 0 .. MaxUpdates /\ Unwritten \in Doc!Contents /\ "idle" \in Doc!Stages
  BY DEF DocLimits, Doc!Contents, Doc!Stages
<1>2. /\ pc' \in [Workers -> Doc!Stages] /\ seen' \in [Workers -> 0 .. MaxUpdates]
      /\ text' \in [Workers -> Doc!Contents]
  BY <1>1 DEF WorkerTypes, Doc!Ends
<1>3. failures' \in [Workers -> Nat] /\ streak' \in [Workers -> Nat]
  BY DEF WorkerTypes
<1>4. ASSUME NEW v \in Workers, v # w PROVE Same(v)
  BY <1>4 DEF WorkerTypes, Doc!Ends, Same
<1> QED
  BY <1>2, <1>3, <1>4 DEF WorkerTypes

\* A worker that ends: it has failed as often as before or counts anew.
LEMMA Leaves ==
  ASSUME DocLimits, DocInv, NEW w \in Workers, Doc!Ends(w), UNCHANGED <<content, updatedAt, signedIn, crowded>>,
         faults' \in 0 .. MaxFaults, faults <= faults', DocTypes', rows'.src <= updatedAt,
         \/ failures' = failures /\ streak' = streak
         \/ failures' = [failures EXCEPT ![w] = 0]
            /\ (streak' = streak \/ streak' = [streak EXCEPT ![w] = 0]),
         Doc!CurrentRowsAgree', Doc!PassedOverWithCause'
  PROVE  DocInv'
<1>1. WorkerTypes /\ StrikesOf(w)
  BY DEF DocInv
<1>2. WorkerTypes' /\ \A v \in Workers : v # w => Same(v)
  BY <1>1, EndsTypes
<1>3. /\ failures[w] \in Nat /\ streak[w] \in Nat /\ faults \in Nat /\ faults' \in Nat
      /\ FailureLimit \in Nat /\ FailureLimit > 0 /\ failures[w] < FailureLimit
      /\ streak[w] <= faults
  <2>1. failures[w] \in Nat /\ streak[w] \in Nat
    BY <1>1 DEF WorkerTypes
  <2>2. failures[w] < FailureLimit /\ streak[w] <= faults
    BY <1>1 DEF StrikesOf
  <2>3. MaxFaults \in Nat /\ faults \in 0 .. MaxFaults /\ FailureLimit \in Nat \ {0}
    BY DEF DocInv, DocTypes, DocLimits
  <2>4. faults \in Nat /\ faults' \in Nat /\ FailureLimit \in Nat /\ FailureLimit > 0
    BY <2>3
  <2> QED
    BY <2>1, <2>2, <2>4
<1>4. failures[w] <= streak[w]
  <2>1. PICK n \in {0, 1} : failures[w] + n <= streak[w]
    BY <1>1 DEF StrikesOf
  <2> QED
    BY <1>3, <2>1
<1>5. \/ failures'[w] = failures[w] /\ streak'[w] = streak[w]
      \/ failures'[w] = 0 /\ (streak'[w] = streak[w] \/ streak'[w] = 0)
  BY <1>1 DEF WorkerTypes
<1>6. failures'[w] < FailureLimit /\ streak'[w] <= faults' /\ failures'[w] <= streak'[w]
  BY <1>3, <1>4, <1>5
<1>7. WorkOf(w)' /\ StrikesOf(w)'
  BY <1>2, <1>3, <1>6, EndedWorker
<1> QED
  BY <1>2, <1>7, OfOneWorker

LEMMA DocRefresh == ASSUME DocLimits, DocInv, NEW w \in Workers, Doc!Refresh(w) PROVE DocInv'
<1>1. DocTypes /\ WorkerTypes /\ WorkOf(w) /\ Doc!CurrentRowsAgree /\ Doc!PassedOverWithCause
  BY DEF DocInv
<1>2. /\ Doc!Ends(w) /\ UNCHANGED <<content, updatedAt, signedIn, crowded, faults>>
      /\ failures' = [failures EXCEPT ![w] = 0] /\ streak' = [streak EXCEPT ![w] = 0]
  BY DEF Doc!Refresh, Doc!gates
<1>3. /\ seen[w] \in 0 .. MaxUpdates /\ seen[w] <= updatedAt /\ updatedAt \in Nat
      /\ seen[w] \in Nat /\ faults \in 0 .. MaxFaults /\ faults <= faults
  BY <1>1 DEF WorkerTypes, DocTypes, WorkOf, DocLimits
<1>4. CASE rows.kind = "none"
  <2>1. UNCHANGED <<rows, crossed>>
    BY <1>4 DEF Doc!Refresh, Doc!gates
  <2>2. DocTypes' /\ rows'.src <= updatedAt
    BY <1>1, <1>2, <2>1 DEF DocTypes, DocInv
  <2>3. Doc!CurrentRowsAgree' /\ Doc!PassedOverWithCause'
    BY <1>4, <2>1 DEF Doc!CurrentRowsAgree, Doc!PassedOverWithCause
  <2> QED
    BY <1>2, <1>3, <2>2, <2>3, Leaves
<1>5. CASE rows.kind # "none"
  <2>1. /\ rows' = [rows EXCEPT !.src = seen[w]]
        /\ crossed' = (rows.text # text[w] \/ rows.kind = "tombstone") /\ pc[w] = "same"
    BY <1>5 DEF Doc!Refresh, Doc!Stamp, Doc!gates
  <2>2. rows'.kind = rows.kind /\ rows'.text = rows.text /\ rows'.src = seen[w]
    BY <1>1, <2>1 DEF DocTypes
  <2>3. DocTypes'
    BY <1>1, <1>2, <1>3, <2>1 DEF DocTypes
  <2>4. ASSUME rows'.kind = "vectors", rows'.src >= updatedAt, ~crossed' PROVE rows'.text = content
    <3>1. seen[w] = updatedAt
      BY <1>3, <2>2, <2>4
    <3>2. text[w] = content
      BY <1>1, <2>1, <3>1 DEF WorkOf
    <3> QED
      BY <2>1, <2>2, <2>4, <3>2
  <2>5. Doc!CurrentRowsAgree'
    BY <1>2, <2>4 DEF Doc!CurrentRowsAgree
  <2>6. Doc!PassedOverWithCause'
    BY <2>1, <2>2 DEF Doc!PassedOverWithCause
  <2>7. rows'.src <= updatedAt
    BY <1>3, <2>2
  <2> QED
    BY <1>2, <1>3, <2>3, <2>5, <2>6, <2>7, Leaves
<1> QED
  BY <1>4, <1>5

LEMMA DocWrite == ASSUME DocLimits, DocInv, NEW w \in Workers, Doc!Write(w) PROVE DocInv'
<1>1. DocTypes /\ WorkerTypes /\ WorkOf(w)
  BY DEF DocInv
<1>2. /\ Doc!Ends(w) /\ UNCHANGED <<content, updatedAt, signedIn, crowded, faults>> /\ pc[w] = "write" /\ ~crossed'
      /\ failures' = [failures EXCEPT ![w] = 0] /\ streak' = [streak EXCEPT ![w] = 0]
      /\ rows' = [kind |-> "vectors", text |-> text[w], src |-> seen[w]]
  BY DEF Doc!Write, Doc!Stamp, Doc!gates
<1>3. /\ seen[w] \in 0 .. MaxUpdates /\ seen[w] <= updatedAt /\ updatedAt \in Nat
      /\ seen[w] \in Nat /\ faults \in 0 .. MaxFaults /\ faults <= faults
      /\ text[w] \in Doc!Contents
  BY <1>1 DEF WorkerTypes, DocTypes, WorkOf, DocLimits
<1>4. DocTypes'
  <2>1. rows' \in [kind : {"none", "vectors", "tombstone"}, text : Doc!Contents, src : 0 .. MaxUpdates]
    BY <1>2, <1>3
  <2>2. crossed' = FALSE
    BY DEF Doc!Write, Doc!gates
  <2> QED
    BY <1>1, <1>2, <2>1, <2>2 DEF DocTypes
<1>5. rows'.kind = "vectors" /\ rows'.text = text[w] /\ rows'.src = seen[w]
  BY <1>2
<1>6. ASSUME rows'.src >= updatedAt PROVE rows'.text = content
  <2>1. seen[w] = updatedAt
    BY <1>3, <1>5, <1>6
  <2> QED
    BY <1>1, <1>2, <1>5, <2>1 DEF WorkOf
<1>7. Doc!CurrentRowsAgree' /\ Doc!PassedOverWithCause' /\ rows'.src <= updatedAt
  BY <1>2, <1>3, <1>5, <1>6 DEF Doc!CurrentRowsAgree, Doc!PassedOverWithCause
<1> QED
  BY <1>2, <1>3, <1>4, <1>7, Leaves

\* Blank and GiveUp.
LEMMA DocTombstone ==
  ASSUME DocLimits, DocInv, NEW w \in Workers, Doc!Blank(w) \/ Doc!GiveUp(w) PROVE DocInv'
<1>1. DocTypes /\ WorkerTypes /\ WorkOf(w) /\ StrikesOf(w)
  BY DEF DocInv
<1>2. /\ Doc!Ends(w) /\ UNCHANGED <<content, updatedAt, signedIn, crowded, faults, streak>> /\ crossed' = FALSE
      /\ failures' = failures \/ failures' = [failures EXCEPT ![w] = 0]
      /\ rows' = [kind |-> "tombstone", text |-> "blank", src |-> seen[w]]
      /\ pc[w] = "blank" \/ pc[w] = "given up"
  BY DEF Doc!Blank, Doc!GiveUp, Doc!Tombstone, Doc!Stamp, Doc!gates
<1>3. /\ seen[w] \in 0 .. MaxUpdates /\ seen[w] <= updatedAt /\ updatedAt \in Nat
      /\ seen[w] \in Nat /\ faults \in 0 .. MaxFaults /\ faults <= faults
      /\ "blank" \in Doc!Contents
  BY <1>1 DEF WorkerTypes, DocTypes, WorkOf, DocLimits, Doc!Contents
<1>4. DocTypes'
  BY <1>1, <1>2, <1>3 DEF DocTypes
<1>5. rows'.kind = "tombstone" /\ rows'.src = seen[w]
  BY <1>2
<1>6. ASSUME rows'.src >= updatedAt
      PROVE  content = "blank" \/ streak[w] >= FailureLimit
  <2>1. seen[w] = updatedAt
    BY <1>3, <1>5, <1>6
  <2> QED
    BY <1>1, <1>2, <2>1 DEF WorkOf, StrikesOf
<1>7. Doc!CurrentRowsAgree' /\ Doc!PassedOverWithCause' /\ rows'.src <= updatedAt
  BY <1>2, <1>3, <1>5, <1>6 DEF Doc!CurrentRowsAgree, Doc!PassedOverWithCause
<1> QED
  BY <1>2, <1>3, <1>4, <1>7, Leaves

\* Abandon and Restart.
LEMMA DocBreaks ==
  ASSUME DocLimits, DocInv, NEW w \in Workers, Doc!Abandon(w) \/ Doc!Restart(w) PROVE DocInv'
<1>1. DocTypes /\ Doc!CurrentRowsAgree /\ Doc!PassedOverWithCause
  BY DEF DocInv
<1>2. /\ Doc!Ends(w) /\ UNCHANGED <<content, updatedAt, signedIn, crowded, rows, crossed, streak>> /\ Doc!Fault
      /\ failures' = failures \/ failures' = [failures EXCEPT ![w] = 0]
  BY DEF Doc!Abandon, Doc!Restart, Doc!gates
<1>3. faults' \in 0 .. MaxFaults /\ faults <= faults'
  BY <1>1, <1>2 DEF Doc!Fault, DocTypes, DocLimits
<1>4. DocTypes' /\ rows'.src <= updatedAt
  BY <1>1, <1>2, <1>3 DEF DocTypes, DocInv
<1>5. Doc!CurrentRowsAgree' /\ Doc!PassedOverWithCause'
  BY <1>1, <1>2 DEF Doc!CurrentRowsAgree, Doc!PassedOverWithCause
<1> QED
  BY <1>2, <1>3, <1>4, <1>5, Leaves

LEMMA DocStrike == ASSUME DocLimits, DocInv, NEW w \in Workers, Doc!Strike(w) PROVE DocInv'
<1>1. DocTypes /\ WorkerTypes /\ WorkOf(w) /\ StrikesOf(w)
  BY DEF DocInv
<1>2. pc[w] = "failed" /\ UNCHANGED <<content, updatedAt, signedIn, crowded, rows, faults, crossed, streak>>
  BY DEF Doc!Strike, Doc!gates
<1>3. /\ failures[w] \in Nat /\ streak[w] \in Nat /\ FailureLimit \in Nat
      /\ updatedAt \in Nat /\ faults \in Nat /\ faults <= faults
  BY <1>1 DEF WorkerTypes, DocTypes, DocLimits
<1>4. failures[w] + 1 <= streak[w] /\ streak[w] <= faults /\ failures[w] < FailureLimit
  BY <1>1, <1>2 DEF StrikesOf
<1>5. DocTypes' /\ rows'.src <= updatedAt /\ Doc!CurrentRowsAgree' /\ Doc!PassedOverWithCause'
  BY <1>1, <1>2 DEF DocTypes, DocInv, Doc!CurrentRowsAgree, Doc!PassedOverWithCause
<1>6. CASE Doc!OutOfTries(w)
  <2>1. pc' = [pc EXCEPT ![w] = "given up"] /\ UNCHANGED <<failures, seen, text>>
    BY <1>6 DEF Doc!Strike, Doc!gates
  <2>2. WorkerTypes' /\ \A v \in Workers : v # w => Same(v)
    BY <1>1, <1>2, <2>1 DEF WorkerTypes, Same, Doc!Stages
  <2>3. failures[w] + 1 >= FailureLimit
    BY <1>6 DEF Doc!OutOfTries
  <2>4. streak[w] >= FailureLimit /\ failures[w] <= streak[w]
    BY <1>3, <1>4, <2>3
  <2>a. failures[w] + 0 <= streak[w]
    BY <1>3, <2>4
  <2>5. pc'[w] = "given up" /\ failures[w] + 0 <= streak[w]
    BY <1>1, <2>1, <2>a DEF WorkerTypes
  <2>6. WorkOf(w)' /\ StrikesOf(w)'
    BY <1>1, <1>2, <1>4, <2>1, <2>4, <2>5 DEF WorkOf, StrikesOf
  <2> QED
    BY <1>2, <1>3, <1>5, <2>2, <2>6, OfOneWorker
<1>7. CASE ~Doc!OutOfTries(w)
  <2>1. failures' = [failures EXCEPT ![w] = @ + 1] /\ Doc!Ends(w)
    BY <1>7 DEF Doc!Strike, Doc!gates
  <2>2. failures'[w] = failures[w] + 1 /\ failures' \in [Workers -> Nat]
        /\ \A v \in Workers : v # w => failures'[v] = failures[v]
    BY <1>1, <2>1 DEF WorkerTypes
  <2>3. failures[w] + 1 < FailureLimit
    BY <1>3, <1>7 DEF Doc!OutOfTries
  <2>4. 0 \in 0 .. MaxUpdates /\ Unwritten \in Doc!Contents /\ "idle" \in Doc!Stages
    BY DEF DocLimits, Doc!Contents, Doc!Stages
  <2>5. WorkerTypes'
    BY <1>1, <1>2, <2>1, <2>2, <2>4 DEF WorkerTypes, Doc!Ends
  <2>6. ASSUME NEW v \in Workers, v # w PROVE Same(v)
    BY <1>1, <1>2, <2>1, <2>2, <2>6 DEF WorkerTypes, Doc!Ends, Same
  <2>7. WorkOf(w)' /\ StrikesOf(w)'
    BY <1>2, <1>3, <1>4, <2>1, <2>2, <2>3, <2>5, EndedWorker
  <2> QED
    BY <1>2, <1>3, <1>5, <2>5, <2>6, <2>7, OfOneWorker
<1> QED
  BY <1>6, <1>7

LEMMA DocGates == ASSUME DocLimits, DocInv, Doc!Session \/ Doc!Crowd PROVE DocInv'
BY DEF Doc!Session, Doc!Crowd, Doc!work, DocInv, DocTypes, WorkerTypes, WorkOf, StrikesOf,
       Doc!CurrentRowsAgree, Doc!PassedOverWithCause

LEMMA DocNext == ASSUME DocLimits, DocInv, [Doc!Next]_Doc!vars PROVE DocInv'
<1>1. CASE UNCHANGED Doc!vars
  BY <1>1 DEF Doc!vars, Doc!work, Doc!gates, DocInv, DocTypes, WorkerTypes, WorkOf, StrikesOf,
              Doc!CurrentRowsAgree, Doc!PassedOverWithCause
<1> QED
  BY <1>1, DocUpdate, DocPick, DocRead, DocMoves, DocRefresh, DocWrite, DocTombstone, DocBreaks,
     DocStrike, DocGates DEF Doc!Next, Doc!Step

(* However saves, several processes, failures and restarts interleave:     *)
(* rows that pass for current hold the text of the document, and one that  *)
(* has a text is passed over only after FailureLimit failures of one       *)
(* process (doc-embed-worker.service.ts).                                  *)
THEOREM RowsAlwaysAgree == DocLimits => (Spec => []RowsOfDocuments)
<1> SUFFICES ASSUME DocLimits PROVE Spec => []RowsOfDocuments
  OBVIOUS
<1> DEFINE Kept == focus = "embedding" => DocInv
<1>1. Init => Kept
  BY DocInit, FirstOfFocus
<1>2. Kept /\ [Next]_vars => Kept'
  BY DocNext, StepOfFocus
<1>3. Kept => RowsOfDocuments
  BY DocInvHolds DEF RowsOfDocuments
<1> QED
  BY <1>1, <1>2, <1>3, PTL DEF Spec
-----------------------------------------------------------------------------
(* The connections to Exchange (EwsConnections).                           *)

EwsLimits == MaxAgents \in Nat /\ MaxEvents \in Nat

EndedWell == Ews!NotSignedOutInVain /\ Ews!ResetByLogoutOnly /\ ended \subseteq Ews!Failures

ConnTypes ==
    /\ pool \in {0} \cup open /\ made \in 0 .. MaxAgents /\ open \subseteq 1 .. made
    /\ warm \subseteq 1 .. made /\ stale \subseteq 1 .. made /\ owned \subseteq 1 .. made

CallTypes ==
    /\ pc \in [Calls -> {"idle", "next", "asking"}] /\ isolated \in [Calls -> BOOLEAN]
    /\ tries \in [Calls -> 0 .. 1] /\ rounds \in [Calls -> 0 .. 1]
    /\ agent \in [Calls -> 0 .. made] /\ private \in [Calls -> SUBSET (1 .. made)]
    /\ company \subseteq Calls /\ evicted \subseteq Calls

LEMMA EwsTypes ==
  Ews!TypeOK <=> ConnTypes /\ CallTypes /\ password \in BOOLEAN /\ events \in 0 .. MaxEvents
                 /\ ended \subseteq Ews!Failures
  BY DEF Ews!TypeOK, ConnTypes, CallTypes, Ews!NoAgent

\* What holds of one call, and of one beside another.
OwnOf(c) ==
    /\ private[c] \subseteq owned /\ (~isolated[c] => private[c] = {})
    /\ pc[c] = "idle" => tries[c] = 0 /\ private[c] = {}
    /\ pc[c] = "asking" =>
          agent[c] # 0 /\ (IF isolated[c] THEN agent[c] \in private[c] ELSE agent[c] \notin owned)
    /\ pc[c] = "asking" /\ agent[c] \notin open => c \in evicted

Pools(c) == pc[c] # "idle" /\ ~isolated[c]

AloneOf(c) ==
    Pools(c) /\ c \notin company /\ tries[c] = 1 =>
        IF pc[c] = "next" THEN pool = 0 ELSE agent[c] \notin warm

EwsInv ==
    /\ ConnTypes /\ CallTypes /\ password \in BOOLEAN /\ events \in 0 .. MaxEvents /\ EndedWell
    /\ pool \notin owned /\ warm \cap owned = {} /\ stale \subseteq warm
    /\ open \cap owned \subseteq UNION {private[c] : c \in Calls}
    /\ \A c \in Calls : OwnOf(c) /\ AloneOf(c)
    /\ \A c \in Calls : \A d \in Calls \ {c} :
          private[c] \cap private[d] = {} /\ (Pools(c) /\ Pools(d) => c \in company)

LEMMA EwsInvIs == EwsInv <=> Ews!ConnectionsHold
<1>1. EwsInv => Ews!TypeOK
  BY EwsTypes DEF EwsInv, EndedWell
<1>2. EwsInv => Ews!PrivateInv /\ Ews!EvictedInv /\ Ews!PrivateClosed
  BY DEF EwsInv, OwnOf, Ews!PrivateInv, Ews!EvictedInv, Ews!PrivateClosed, Ews!NoAgent
<1>3. EwsInv => Ews!CompanyInv
  BY DEF EwsInv, AloneOf, Pools, Ews!CompanyInv, Ews!Pooled, Ews!NoAgent
<1>4. Ews!ConnectionsHold => ConnTypes /\ CallTypes /\ password \in BOOLEAN /\ events \in 0 .. MaxEvents
                             /\ EndedWell
  BY EwsTypes DEF Ews!ConnectionsHold, EndedWell
<1>5. Ews!ConnectionsHold => \A c \in Calls : OwnOf(c) /\ AloneOf(c)
  BY DEF Ews!ConnectionsHold, OwnOf, AloneOf, Pools, Ews!PrivateInv, Ews!EvictedInv, Ews!CompanyInv,
         Ews!Pooled, Ews!NoAgent
<1>6. Ews!ConnectionsHold =>
         \A c \in Calls : \A d \in Calls \ {c} :
            private[c] \cap private[d] = {} /\ (Pools(c) /\ Pools(d) => c \in company)
  BY DEF Ews!ConnectionsHold, Pools, Ews!PrivateInv, Ews!CompanyInv, Ews!Pooled
<1>7. Ews!ConnectionsHold => pool \notin owned /\ warm \cap owned = {} /\ stale \subseteq warm
                             /\ open \cap owned \subseteq UNION {private[c] : c \in Calls}
  BY DEF Ews!ConnectionsHold, Ews!PrivateInv, Ews!PrivateClosed
<1> QED
  BY <1>1, <1>2, <1>3, <1>4, <1>5, <1>6, <1>7 DEF EwsInv, EndedWell, Ews!ConnectionsHold

LEMMA EwsInit == ASSUME EwsLimits, Ews!Init PROVE EwsInv
<1>1. CallTypes /\ ConnTypes
  BY DEF EwsLimits, Ews!Init, CallTypes, ConnTypes, Ews!NoAgent
<1>2. EndedWell /\ password \in BOOLEAN /\ events \in 0 .. MaxEvents
  BY DEF EwsLimits, Ews!Init, EndedWell, Ews!NotSignedOutInVain, Ews!ResetByLogoutOnly
<1>3. \A c \in Calls : OwnOf(c) /\ AloneOf(c) /\ ~Pools(c) /\ private[c] = {}
  BY DEF Ews!Init, OwnOf, AloneOf, Pools
<1> QED
  BY <1>1, <1>2, <1>3 DEF EwsInv, Ews!Init

\* A step of call c leaves the others alone.
SameCall(d) ==
    /\ pc'[d] = pc[d] /\ isolated'[d] = isolated[d] /\ tries'[d] = tries[d]
    /\ agent'[d] = agent[d] /\ private'[d] = private[d]

LEMMA EwsReturns ==
  ASSUME EwsLimits, EwsInv, NEW c \in Calls, NEW to \in {"idle", "next"}, Ews!Returns(c, to),
         pc[c] = "asking", UNCHANGED <<pool, made, stale, owned, password>>,
         warm' = warm \/ warm' = warm \cup ({agent[c]} \ private[c]),
         events' \in 0 .. MaxEvents, EndedWell'
  PROVE  EwsInv'
<1>1. ConnTypes /\ CallTypes /\ OwnOf(c)
  BY DEF EwsInv
<1>2. open' = open \ private[c] /\ private' = [private EXCEPT ![c] = {}] /\ agent' = [agent EXCEPT ![c] = 0]
      /\ tries' = [tries EXCEPT ![c] = 0] /\ pc' = [pc EXCEPT ![c] = to]
  BY DEF Ews!Returns, Ews!Closes, Ews!NoAgent
<1>3. /\ isolated' = isolated \/ isolated' = [isolated EXCEPT ![c] = FALSE]
      /\ rounds' = [rounds EXCEPT ![c] = 0] \/ rounds' = [rounds EXCEPT ![c] = 1]
      /\ \/ company' = company \/ (company' = company \ {c} /\ to = "idle")
      /\ \/ evicted' = evicted \/ evicted' = evicted \ {c}
  BY DEF Ews!Returns
<1>4. CallTypes'
  <2>1. 0 \in 0 .. 1 /\ 1 \in 0 .. 1 /\ 0 \in 0 .. made
    BY <1>1 DEF ConnTypes, EwsLimits
  <2>2. tries' \in [Calls -> 0 .. 1] /\ rounds' \in [Calls -> 0 .. 1]
    BY <1>1, <1>2, <1>3, <2>1 DEF CallTypes
  <2>3. agent' \in [Calls -> 0 .. made] /\ private' \in [Calls -> SUBSET (1 .. made)]
    BY <1>1, <1>2, <2>1 DEF CallTypes
  <2>4. pc' \in [Calls -> {"idle", "next", "asking"}] /\ isolated' \in [Calls -> BOOLEAN]
    BY <1>1, <1>2, <1>3 DEF CallTypes
  <2> QED
    BY <1>1, <1>3, <2>2, <2>3, <2>4 DEF CallTypes
<1>5. ASSUME NEW d \in Calls, d # c PROVE SameCall(d)
  BY <1>1, <1>2, <1>3, <1>5 DEF CallTypes, SameCall
<1>6. pc'[c] = to /\ tries'[c] = 0 /\ private'[c] = {} /\ agent'[c] = 0
  BY <1>1, <1>2 DEF CallTypes
<1>7. agent[c] # 0 /\ agent[c] \in 0 .. made /\ (agent[c] \in private[c] \/ agent[c] \notin owned)
  BY <1>1 DEF OwnOf, CallTypes
<1>8. warm' \subseteq 1 .. made /\ warm' \cap owned = {} /\ warm \subseteq warm'
  <2>1. agent[c] \in 1 .. made
    BY <1>1, <1>7 DEF ConnTypes, EwsLimits
  <2> QED
    BY <1>1, <1>7, <2>1 DEF ConnTypes, EwsInv
<1>9. private[c] \subseteq owned
  BY <1>1 DEF OwnOf
<1>10. ConnTypes'
  BY <1>1, <1>2, <1>8, <1>9 DEF ConnTypes, EwsInv
<1>11. OwnOf(c)' /\ AloneOf(c)'
  BY <1>6 DEF OwnOf, AloneOf
<1>12. ASSUME NEW d \in Calls, d # c PROVE OwnOf(d)' /\ AloneOf(d)'
  <2>1. SameCall(d) /\ OwnOf(d) /\ AloneOf(d) /\ private[c] \cap private[d] = {}
    BY <1>5, <1>12 DEF EwsInv
  <2>2. (d \in company' <=> d \in company) /\ (d \in evicted' <=> d \in evicted)
    BY <1>3, <1>12
  <2>3. pc[d] = "asking" => (agent[d] \in open' <=> agent[d] \in open)
    BY <1>2, <1>9, <2>1 DEF OwnOf
  <2>4. OwnOf(d)'
    BY <2>1, <2>2, <2>3 DEF OwnOf, SameCall
  <2>5. Pools(d) /\ Pools(c) => d \in company
    BY <1>12 DEF EwsInv
  <2>6. ~Pools(c) => warm' = warm
    BY <1>1 DEF Pools, OwnOf
  <2>7. AloneOf(d)'
    BY <2>1, <2>2, <2>5, <2>6 DEF AloneOf, SameCall, Pools
  <2> QED
    BY <2>4, <2>7
<1>13. ASSUME NEW a \in Calls, NEW b \in Calls \ {a}
       PROVE  private'[a] \cap private'[b] = {} /\ (Pools(a)' /\ Pools(b)' => a \in company')
  <2>1. private[a] \cap private[b] = {} /\ (Pools(a) /\ Pools(b) => a \in company)
    BY DEF EwsInv
  <2>2. private'[a] \in {private[a], {}} /\ private'[b] \in {private[b], {}}
    BY <1>5, <1>6 DEF SameCall
  <2>3. Pools(a)' => Pools(a) /\ (a \in company => a \in company')
    <3>1. CASE a = c
      BY <1>1, <1>3, <1>6, <3>1 DEF Pools, CallTypes, Ews!Returns
    <3>2. CASE a # c
      BY <1>3, <1>5, <3>2 DEF Pools, SameCall
    <3> QED
      BY <3>1, <3>2
  <2>4. Pools(b)' => Pools(b)
    <3>1. CASE b = c
      BY <1>1, <1>3, <1>6, <3>1 DEF Pools, CallTypes, Ews!Returns
    <3>2. CASE b # c
      BY <1>5, <3>2 DEF Pools, SameCall
    <3> QED
      BY <3>1, <3>2
  <2> QED
    BY <2>1, <2>2, <2>3, <2>4
<1>14. (open \cap owned)' \subseteq UNION {private'[d] : d \in Calls}
  <2> SUFFICES ASSUME NEW x \in (open \cap owned)' PROVE \E d \in Calls : x \in private'[d]
    OBVIOUS
  <2>1. x \in open /\ x \in owned /\ x \notin private[c]
    BY <1>2
  <2>2. PICK d \in Calls : x \in private[d]
    BY <2>1 DEF EwsInv
  <2>3. d # c
    BY <2>1, <2>2
  <2> QED
    BY <1>5, <2>2, <2>3 DEF SameCall
<1>15. pool' \notin owned' /\ stale' \subseteq warm' /\ password' \in BOOLEAN
  BY <1>8 DEF EwsInv
<1>16. \A d \in Calls : OwnOf(d)' /\ AloneOf(d)'
  BY <1>11, <1>12
<1> QED
  BY <1>4, <1>8, <1>10, <1>13, <1>14, <1>15, <1>16 DEF EwsInv

\* The properties look at how calls have ended only.
LEMMA EndsWell ==
  ASSUME EndedWell, UNCHANGED ended PROVE EndedWell'
  BY DEF EndedWell, Ews!NotSignedOutInVain, Ews!ResetByLogoutOnly, Ews!Failures

LEMMA EwsEvent == ASSUME EwsLimits, EwsInv, Ews!Event PROVE events' \in 0 .. MaxEvents
  BY DEF EwsLimits, EwsInv, Ews!Event

LEMMA EwsAnswered ==
  ASSUME EwsLimits, EwsInv, NEW c \in Calls,
         Ews!Answered(c) \/ Ews!Busy(c) \/ Ews!NetworkFails(c)
  PROVE  EwsInv'
<1>1. EndedWell' /\ pc[c] = "asking" /\ UNCHANGED <<pool, made, stale, owned, password>>
  BY EndsWell DEF EwsInv, Ews!Answered, Ews!Busy, Ews!NetworkFails
<1>2. /\ Ews!Returns(c, "idle") \/ Ews!Returns(c, "next")
      /\ warm' = warm \/ warm' = warm \cup ({agent[c]} \ private[c])
  BY DEF Ews!Answered, Ews!Busy, Ews!NetworkFails
<1>3. events' \in 0 .. MaxEvents
  BY EwsEvent DEF EwsInv, Ews!Answered, Ews!Busy, Ews!NetworkFails
<1> QED
  BY <1>1, <1>2, <1>3, EwsReturns

\* The 401 that ends a call that had its connections for itself: a wrong password.
LEMMA RefusedRightly ==
  ASSUME EwsLimits, EwsInv, NEW c \in Calls, pc[c] = "asking", agent[c] \in open, tries[c] = 1,
         ~password \/ agent[c] \in stale \/ Ews!Beside(c) # {}
  PROVE  ~password \/ (c \in company /\ ~isolated[c])
<1>1. ConnTypes /\ CallTypes /\ OwnOf(c) /\ AloneOf(c)
  BY DEF EwsInv
<1>2. ASSUME Ews!Beside(c) # {}
      PROVE  c \in company /\ ~isolated[c]
  <2>1. PICK d \in Calls \ {c} : pc[d] = "asking" /\ agent[d] = agent[c]
    BY <1>2 DEF Ews!Beside
  <2>2. OwnOf(d) /\ private[c] \cap private[d] = {} /\ (Pools(c) /\ Pools(d) => c \in company)
    BY <2>1 DEF EwsInv
  <2> QED
    BY <1>1, <2>1, <2>2 DEF OwnOf, Pools
<1>3. ASSUME agent[c] \in stale
      PROVE  c \in company /\ ~isolated[c]
  <2>1. agent[c] \in warm /\ agent[c] \notin owned
    BY <1>3 DEF EwsInv
  <2> QED
    BY <1>1, <2>1 DEF OwnOf, AloneOf, Pools
<1> QED
  BY <1>2, <1>3

\* A call that ends badly is noted.
LEMMA NotedWell ==
  ASSUME EwsInv, NEW c \in Calls, NEW how, Ews!FailsWith(c, how),
         \/ how = "unauthorized" /\ (~password \/ (c \in company /\ ~isolated[c]))
         \/ how = "reset" /\ c \in evicted
  PROVE  EndedWell'
<1> DEFINE e == [how |-> how, isolated |-> isolated[c], wrong |-> ~password,
                 company |-> c \in company, evicted |-> c \in evicted]
<1>1. ended' = ended \cup {e}
  BY DEF Ews!FailsWith
<1>2. e \in Ews!Failures
  <2>1. isolated[c] \in BOOLEAN /\ how \in {"unauthorized", "reset"}
    BY DEF EwsInv, CallTypes
  <2>2. (~password) \in BOOLEAN /\ (c \in company) \in BOOLEAN /\ (c \in evicted) \in BOOLEAN
    OBVIOUS
  <2> QED
    BY <2>1, <2>2 DEF Ews!Failures
<1>3. ended' \subseteq Ews!Failures
  BY <1>1, <1>2 DEF EwsInv, EndedWell
<1>4. /\ e.how = "unauthorized" => e.wrong \/ (e.company /\ ~e.isolated)
      /\ e.how = "reset" => e.evicted
  OBVIOUS
<1> HIDE DEF e
<1>5. /\ \A f \in ended' : f.how = "unauthorized" => f.wrong \/ (f.company /\ ~f.isolated)
      /\ \A f \in ended' : f.how = "reset" => f.evicted
  BY <1>1, <1>4 DEF EwsInv, EndedWell, Ews!NotSignedOutInVain, Ews!ResetByLogoutOnly
<1> QED
  BY <1>3, <1>5 DEF EndedWell, Ews!NotSignedOutInVain, Ews!ResetByLogoutOnly, Ews!Failures

LEMMA EwsReset == ASSUME EwsLimits, EwsInv, NEW c \in Calls, Ews!Reset(c) PROVE EwsInv'
<1>1. /\ pc[c] = "asking" /\ agent[c] \notin open /\ Ews!FailsWith(c, "reset")
      /\ Ews!Returns(c, "idle") /\ UNCHANGED <<pool, made, warm, stale, password, events, owned>>
  BY DEF Ews!Reset
<1>2. c \in evicted
  BY <1>1 DEF EwsInv, OwnOf
<1>3. EndedWell' /\ events' \in 0 .. MaxEvents
  BY <1>1, <1>2, NotedWell DEF EwsInv
<1> QED
  BY <1>1, <1>3, EwsReturns

LEMMA EwsUnauthorized == ASSUME EwsLimits, EwsInv, NEW c \in Calls, Ews!Unauthorized(c) PROVE EwsInv'
<1>1. /\ pc[c] = "asking" /\ agent[c] \in open
      /\ ~password \/ agent[c] \in stale \/ Ews!Beside(c) # {}
      /\ UNCHANGED <<made, warm, stale, password, events, owned>>
  BY DEF Ews!Unauthorized
<1>2. ConnTypes /\ CallTypes /\ OwnOf(c) /\ EndedWell /\ events' \in 0 .. MaxEvents
  BY <1>1 DEF EwsInv
<1>3. CASE tries[c] # 0
  <2>1. Ews!FailsWith(c, "unauthorized") /\ Ews!Returns(c, "idle") /\ UNCHANGED pool
    BY <1>3 DEF Ews!Unauthorized
  <2>2. tries[c] = 1
    BY <1>2, <1>3 DEF CallTypes
  <2>3. ~password \/ (c \in company /\ ~isolated[c])
    BY <1>1, <2>2, RefusedRightly
  <2>4. EndedWell'
    BY <2>1, <2>3, NotedWell
  <2> QED
    BY <1>1, <1>2, <2>1, <2>4, EwsReturns
<1>4. CASE tries[c] = 0
  <2>1. /\ pool' = (IF isolated[c] THEN pool ELSE 0) /\ UNCHANGED open
        /\ tries' = [tries EXCEPT ![c] = 1] /\ pc' = [pc EXCEPT ![c] = "next"]
        /\ UNCHANGED <<isolated, rounds, agent, private, company, evicted, ended>>
    BY <1>4 DEF Ews!Unauthorized, Ews!Retire, Ews!NoAgent
  <2>2. EndedWell'
    BY <1>2, <2>1, EndsWell
  <2>3. ConnTypes' /\ CallTypes'
    BY <1>1, <1>2, <2>1 DEF ConnTypes, CallTypes
  <2>4. pc'[c] = "next" /\ Pools(c)' = Pools(c)
    BY <1>1, <1>2, <2>1 DEF CallTypes, Pools
  <2>5. OwnOf(c)' /\ AloneOf(c)'
    BY <1>1, <1>2, <2>1, <2>4 DEF OwnOf, AloneOf, Pools
  <2>6. ASSUME NEW d \in Calls, d # c
        PROVE  OwnOf(d)' /\ AloneOf(d)' /\ Pools(d)' = Pools(d)
    <3>1. SameCall(d) /\ OwnOf(d) /\ AloneOf(d) /\ (Pools(d) /\ Pools(c) => d \in company)
      BY <1>2, <2>1, <2>6 DEF EwsInv, CallTypes, SameCall
    <3>2. OwnOf(d)' /\ Pools(d)' = Pools(d)
      BY <1>1, <2>1, <3>1 DEF OwnOf, Pools, SameCall
    <3>3. ~Pools(c) => pool' = pool
      BY <1>1, <2>1 DEF Pools
    <3>4. AloneOf(d)'
      BY <1>1, <2>1, <3>1, <3>2, <3>3 DEF AloneOf, SameCall
    <3> QED
      BY <3>2, <3>4
  <2>7. \A d \in Calls : OwnOf(d)' /\ AloneOf(d)' /\ Pools(d)' = Pools(d)
    BY <2>4, <2>5, <2>6
  <2>8. pool' \notin owned'
    BY <1>1, <1>2, <2>1 DEF ConnTypes, EwsInv, EwsLimits
  <2>9. /\ warm' \cap owned' = {} /\ stale' \subseteq warm' /\ password' \in BOOLEAN
        /\ (open \cap owned)' \subseteq UNION {private'[d] : d \in Calls}
    BY <1>1, <2>1 DEF EwsInv
  <2>10. ASSUME NEW a \in Calls, NEW b \in Calls \ {a}
         PROVE  private'[a] \cap private'[b] = {} /\ (Pools(a)' /\ Pools(b)' => a \in company')
    BY <2>1, <2>7 DEF EwsInv
  <2> QED
    BY <1>2, <2>2, <2>3, <2>7, <2>8, <2>9, <2>10 DEF EwsInv
<1> QED
  BY <1>3, <1>4

LEMMA EwsBegin == ASSUME EwsLimits, EwsInv, NEW c \in Calls, Ews!Begin(c) PROVE EwsInv'
<1>1. PICK own \in BOOLEAN :
         /\ isolated' = [isolated EXCEPT ![c] = own]
         /\ company' = IF own \/ Ews!Pooled = {} THEN company ELSE company \cup Ews!Pooled \cup {c}
  BY DEF Ews!Begin
<1>2. /\ pc[c] = "idle" /\ pc' = [pc EXCEPT ![c] = "next"]
      /\ UNCHANGED <<pool, made, open, warm, stale, tries, rounds, agent, private, password,
                     evicted, owned, ended>>
  BY DEF Ews!Begin, Ews!conns
<1>3. ConnTypes /\ CallTypes /\ OwnOf(c) /\ ~Pools(c)
  BY <1>2 DEF EwsInv, Pools
<1>4. ConnTypes' /\ CallTypes'
  BY <1>1, <1>2, <1>3 DEF ConnTypes, CallTypes, Ews!Pooled
<1>5. EndedWell' /\ events' \in 0 .. MaxEvents
  BY <1>2, EndsWell, EwsEvent DEF EwsInv, Ews!Begin
<1>6. pc'[c] = "next" /\ isolated'[c] = own
  BY <1>1, <1>2, <1>3 DEF CallTypes
<1>7. OwnOf(c)' /\ AloneOf(c)'
  BY <1>2, <1>3, <1>6 DEF OwnOf, AloneOf
<1>8. company \subseteq company'
  BY <1>1
<1>9. ASSUME NEW d \in Calls, d # c
      PROVE  OwnOf(d)' /\ AloneOf(d)' /\ Pools(d)' = Pools(d)
  <2>1. SameCall(d) /\ OwnOf(d) /\ AloneOf(d)
    BY <1>1, <1>2, <1>3, <1>9 DEF EwsInv, CallTypes, SameCall
  <2> QED
    BY <1>2, <1>8, <2>1 DEF OwnOf, AloneOf, Pools, SameCall
<1>10. ASSUME NEW a \in Calls, NEW b \in Calls \ {a}
       PROVE  private'[a] \cap private'[b] = {} /\ (Pools(a)' /\ Pools(b)' => a \in company')
  <2>1. private[a] \cap private[b] = {} /\ (Pools(a) /\ Pools(b) => a \in company)
    BY DEF EwsInv
  <2>2. ASSUME Pools(a)', Pools(b)' PROVE a \in company'
    <3>1. CASE a # c /\ b # c
      BY <1>8, <1>9, <2>1, <2>2, <3>1
    <3>2. CASE a = c \/ b = c
      <4>1. PICK d \in {a, b} : d # c /\ Pools(d)' /\ {a, b} = {c, d}
        BY <2>2, <3>2
      <4>2. d \in Ews!Pooled
        BY <1>9, <4>1 DEF Ews!Pooled, Pools
      <4>3. ~own
        BY <1>6, <2>2, <4>1, <3>2 DEF Pools
      <4>4. company' = company \cup Ews!Pooled \cup {c}
        BY <1>1, <4>2, <4>3
      <4> QED
        BY <4>1, <4>2, <4>4
    <3> QED
      BY <3>1, <3>2
  <2> QED
    BY <1>2, <2>1, <2>2
<1>11. /\ pool' \notin owned' /\ warm' \cap owned' = {} /\ stale' \subseteq warm' /\ password' \in BOOLEAN
       /\ (open \cap owned)' \subseteq UNION {private'[d] : d \in Calls}
  BY <1>2 DEF EwsInv
<1> QED
  BY <1>4, <1>5, <1>7, <1>9, <1>10, <1>11 DEF EwsInv

LEMMA EwsAsk == ASSUME EwsLimits, EwsInv, NEW c \in Calls, Ews!Ask(c) PROVE EwsInv'
<1>1. /\ pc[c] = "next" /\ pc' = [pc EXCEPT ![c] = "asking"]
      /\ UNCHANGED <<warm, stale, isolated, tries, rounds, password, events, company, evicted, ended>>
  BY DEF Ews!Ask
<1>2. ConnTypes /\ CallTypes /\ OwnOf(c) /\ AloneOf(c)
  BY DEF EwsInv
<1>a. made \in Nat /\ MaxAgents \in Nat /\ made <= MaxAgents
  BY <1>2 DEF ConnTypes, EwsLimits
<1>3. EndedWell' /\ events' \in 0 .. MaxEvents /\ password' \in BOOLEAN
  BY <1>1, EndsWell DEF EwsInv
<1>4. /\ \/ made' = made /\ owned' = owned /\ open' = open /\ pool' = pool /\ private' = private
            /\ agent' = [agent EXCEPT ![c] = pool] /\ pool # 0 /\ ~isolated[c]
         \/ made' = made + 1 /\ made < MaxAgents /\ owned' = owned /\ open' = open \cup {made + 1}
            /\ pool = 0 /\ pool' = made + 1 /\ private' = private
            /\ agent' = [agent EXCEPT ![c] = made + 1] /\ ~isolated[c]
         \/ made' = made + 1 /\ made < MaxAgents /\ owned' = owned \cup {made + 1}
            /\ open' = open \cup {made + 1}
            /\ pool' = pool /\ private' = [private EXCEPT ![c] = private[c] \cup {made + 1}]
            /\ agent' = [agent EXCEPT ![c] = made + 1] /\ isolated[c]
  BY <1>1, <1>2 DEF Ews!Ask, Ews!NoAgent, CallTypes
<1>5. 1 .. made \subseteq 1 .. made' /\ 0 .. made \subseteq 0 .. made' /\ made' \in 0 .. MaxAgents
      /\ (made' = made + 1 => made + 1 \in 1 .. made' /\ made + 1 \in 0 .. made')
  BY <1>4, <1>a
<1>6. /\ made + 1 \notin 1 .. made /\ made + 1 \notin 0 .. made /\ made + 1 # 0
  BY <1>a
<1>7. ConnTypes'
  BY <1>1, <1>2, <1>4, <1>5 DEF ConnTypes
<1>8. CallTypes'
  <2>1. agent' \in [Calls -> 0 .. made']
    <3>1. pool \in 0 .. made
      BY <1>2, <1>a DEF ConnTypes
    <3> QED
      BY <1>2, <1>4, <1>5, <3>1 DEF CallTypes
  <2>2. private' \in [Calls -> SUBSET (1 .. made')]
    BY <1>2, <1>4, <1>5 DEF CallTypes
  <2> QED
    BY <1>1, <1>2, <2>1, <2>2 DEF CallTypes
<1>9. pc'[c] = "asking" /\ isolated'[c] = isolated[c]
  BY <1>1, <1>2 DEF CallTypes
<1>10. \A d \in Calls : d # c => SameCall(d)
  BY <1>1, <1>2, <1>4 DEF CallTypes, SameCall
<1>b. /\ made + 1 \notin open /\ made + 1 \notin warm /\ made + 1 \notin owned /\ made + 1 # pool
      /\ \A d \in Calls : made + 1 \notin private[d] /\ made + 1 # agent[d]
  BY <1>2, <1>6 DEF ConnTypes, CallTypes
<1>11. OwnOf(c)'
  <2>1. CASE isolated[c]
    <3>1. made' = made + 1 /\ owned' = owned \cup {made + 1} /\ open' = open \cup {made + 1}
          /\ private'[c] = private[c] \cup {made + 1} /\ agent'[c] = made + 1
      BY <1>2, <1>4, <2>1 DEF CallTypes
    <3> QED
      BY <1>2, <1>6, <1>9, <2>1, <3>1 DEF OwnOf
  <2>2. CASE ~isolated[c]
    <3>1. owned' = owned /\ private' = private /\ agent'[c] = pool' /\ pool' # 0 /\ pool' \in open'
          /\ pool' \notin owned
      BY <1>2, <1>4, <1>6, <1>b, <2>2 DEF CallTypes, ConnTypes, EwsInv
    <3> QED
      BY <1>2, <1>9, <2>2, <3>1 DEF OwnOf
  <2> QED
    BY <2>1, <2>2
<1>12. AloneOf(c)'
  <2> SUFFICES ASSUME ~isolated[c], c \notin company, tries[c] = 1 PROVE agent'[c] \notin warm
    BY <1>1, <1>9 DEF AloneOf, Pools
  <2>1. pool = 0
    BY <1>1, <1>2 DEF AloneOf, Pools
  <2>2. agent'[c] = made + 1
    BY <1>2, <1>4, <2>1 DEF CallTypes
  <2> QED
    BY <1>b, <2>2
<1>13. ASSUME NEW d \in Calls, d # c PROVE OwnOf(d)' /\ AloneOf(d)' /\ Pools(d)' = Pools(d)
  <2>1. SameCall(d) /\ OwnOf(d) /\ AloneOf(d) /\ (Pools(d) /\ Pools(c) => d \in company)
    BY <1>10, <1>13 DEF EwsInv
  <2>2. OwnOf(d)'
    BY <1>1, <1>4, <1>b, <2>1 DEF OwnOf, SameCall
  <2>3. Pools(d)' = Pools(d)
    BY <2>1 DEF Pools, SameCall
  <2>4. Pools(c) \/ pool' = pool
    BY <1>1, <1>4 DEF Pools
  <2>5. AloneOf(d)'
    BY <1>1, <2>1, <2>3, <2>4 DEF AloneOf, SameCall
  <2> QED
    BY <2>2, <2>3, <2>5
<1>14. Pools(c)' = Pools(c)
  BY <1>1, <1>9 DEF Pools
<1>15. ASSUME NEW a \in Calls, NEW b \in Calls \ {a}
       PROVE  private'[a] \cap private'[b] = {} /\ (Pools(a)' /\ Pools(b)' => a \in company')
  <2>1. private[a] \cap private[b] = {} /\ (Pools(a) /\ Pools(b) => a \in company)
    BY DEF EwsInv
  <2>2. private'[a] \cap private'[b] = {}
    <3>1. \A d \in Calls : private'[d] = private[d] \/ (d = c /\ private'[d] = private[d] \cup {made + 1})
      BY <1>2, <1>4 DEF CallTypes
    <3> QED
      BY <1>b, <2>1, <3>1
  <2> QED
    BY <1>1, <1>13, <1>14, <2>1, <2>2
<1>16. pool' \notin owned' /\ warm' \cap owned' = {} /\ stale' \subseteq warm'
  BY <1>1, <1>4, <1>b DEF EwsInv
<1>17. (open \cap owned)' \subseteq UNION {private'[d] : d \in Calls}
  <2> SUFFICES ASSUME NEW x \in (open \cap owned)' PROVE \E d \in Calls : x \in private'[d]
    OBVIOUS
  <2>1. CASE x \in open /\ x \in owned
    <3>1. PICK d \in Calls : x \in private[d]
      BY <2>1 DEF EwsInv
    <3>2. private[d] \subseteq private'[d]
      BY <1>2, <1>4 DEF CallTypes
    <3> QED
      BY <3>1, <3>2
  <2>2. CASE ~(x \in open /\ x \in owned)
    <3>1. x = made + 1 /\ private'[c] = private[c] \cup {made + 1}
      BY <1>2, <1>4, <1>b, <2>2 DEF CallTypes, ConnTypes
    <3> QED
      BY <3>1
  <2> QED
    BY <2>1, <2>2
<1>18. \A d \in Calls : OwnOf(d)' /\ AloneOf(d)'
  BY <1>11, <1>12, <1>13
<1> QED
  BY <1>3, <1>7, <1>8, <1>15, <1>16, <1>17, <1>18 DEF EwsInv

\* Recycle, PasswordChanges and Logout.
LEMMA EwsElsewhere ==
  ASSUME EwsLimits, EwsInv, Ews!Recycle \/ Ews!PasswordChanges \/ Ews!Logout PROVE EwsInv'
<1>1. ConnTypes /\ CallTypes
  BY DEF EwsInv
<1>2. events' \in 0 .. MaxEvents /\ EndedWell'
  BY EwsEvent, EndsWell DEF EwsInv, Ews!Recycle, Ews!PasswordChanges, Ews!Logout
<1>3. /\ UNCHANGED <<made, warm, pc, isolated, tries, rounds, agent, private, company, owned>>
      /\ password' \in BOOLEAN
  BY DEF EwsInv, Ews!Recycle, Ews!PasswordChanges, Ews!Logout, Ews!conns, Ews!state
<1>4. /\ stale' = stale \/ \E x \in warm : stale' = stale \cup {x}
      /\ \/ UNCHANGED <<pool, open, evicted>>
         \/ /\ open' = open \ {pool} /\ pool' = 0
            /\ evicted' = evicted \cup {d \in Calls : pc[d] = "asking" /\ agent[d] = pool}
  BY DEF Ews!Recycle, Ews!PasswordChanges, Ews!Logout, Ews!conns, Ews!NoAgent
<1>5. ConnTypes' /\ CallTypes'
  BY <1>1, <1>3, <1>4 DEF ConnTypes, CallTypes
<1>6. ASSUME NEW d \in Calls PROVE OwnOf(d)' /\ AloneOf(d)'
  <2>1. OwnOf(d) /\ AloneOf(d)
    BY DEF EwsInv
  <2>2. pc[d] = "asking" /\ agent[d] \notin open' => d \in evicted'
    BY <1>4, <2>1 DEF OwnOf
  <2> QED
    BY <1>3, <1>4, <2>1, <2>2 DEF OwnOf, AloneOf, Pools
<1>7. ASSUME NEW a \in Calls, NEW b \in Calls \ {a}
      PROVE  private'[a] \cap private'[b] = {} /\ (Pools(a)' /\ Pools(b)' => a \in company')
  BY <1>3 DEF EwsInv, Pools
<1>8. pool' \notin owned'
  <2>1. 0 \notin owned
    BY <1>1 DEF ConnTypes, EwsLimits
  <2> QED
    BY <1>3, <1>4, <2>1 DEF EwsInv
<1>9. /\ warm' \cap owned' = {} /\ stale' \subseteq warm'
      /\ (open \cap owned)' \subseteq UNION {private'[d] : d \in Calls}
  BY <1>3, <1>4 DEF EwsInv
<1> QED
  BY <1>2, <1>3, <1>5, <1>6, <1>7, <1>8, <1>9 DEF EwsInv

LEMMA EwsNext == ASSUME EwsLimits, EwsInv, [Ews!Next]_Ews!vars PROVE EwsInv'
<1>1. CASE UNCHANGED Ews!vars
  <2>1. /\ UNCHANGED <<pool, made, open, warm, stale, pc, isolated, tries, rounds, agent, private,
                       password, events, company, evicted, owned, ended>>
    BY <1>1 DEF Ews!vars, Ews!conns, Ews!state
  <2>2. EndedWell'
    BY <2>1, EndsWell DEF EwsInv
  <2>3. ConnTypes' /\ CallTypes' /\ password' \in BOOLEAN /\ events' \in 0 .. MaxEvents
    BY <2>1 DEF EwsInv, ConnTypes, CallTypes
  <2>4. \A d \in Calls : OwnOf(d)' /\ AloneOf(d)' /\ Pools(d)' = Pools(d)
    BY <2>1 DEF EwsInv, OwnOf, AloneOf, Pools
  <2> QED
    BY <2>1, <2>2, <2>3, <2>4 DEF EwsInv
<1> QED
  BY <1>1, EwsBegin, EwsAsk, EwsAnswered, EwsUnauthorized, EwsReset, EwsElsewhere DEF Ews!Next

(* For any number of calls and connections, however calls, throttling, 401s,*)
(* recycled connections, new passwords and logouts meet: the right password *)
(* is never found wrong by a call that has its connections for itself, a    *)
(* 401 takes nothing from other calls, and nothing leaks (ews-transport.ts).*)
THEOREM ConnectionsAlwaysHold == EwsLimits => (Spec => []ConnectionsHold)
<1> SUFFICES ASSUME EwsLimits PROVE Spec => []ConnectionsHold
  OBVIOUS
<1> DEFINE Kept == focus = "ews" => EwsInv
<1>1. Init => Kept
  BY EwsInit, FirstOfFocus
<1>2. Kept /\ [Next]_vars => Kept'
  BY EwsNext, StepOfFocus
<1>3. Kept => ConnectionsHold
  BY EwsInvIs DEF ConnectionsHold
<1> QED
  BY <1>1, <1>2, <1>3, PTL DEF Spec
-----------------------------------------------------------------------------
(* Places in a finite set: how many elements come before one.              *)

Rank(S, R, m) == Cardinality({k \in S : <<k, m>> \in R})

Orders(R, S) ==
    /\ \A x \in S : <<x, x>> \notin R
    /\ \A x \in S : \A y \in S : \A z \in S : <<x, y>> \in R /\ <<y, z>> \in R => <<x, z>> \in R
    /\ \A x \in S : \A y \in S : x = y \/ <<x, y>> \in R \/ <<y, x>> \in R

LEMMA RankGrows ==
  ASSUME NEW S, IsFiniteSet(S), NEW R, Orders(R, S), NEW k \in S, NEW m \in S
  PROVE  /\ Rank(S, R, m) \in Nat /\ Rank(S, R, m) < Cardinality(S)
         /\ <<k, m>> \in R => Rank(S, R, k) < Rank(S, R, m)
<1> DEFINE B(x) == {y \in S : <<y, x>> \in R}
<1>1. \A x \in S : IsFiniteSet(B(x)) /\ Cardinality(B(x)) \in Nat
  BY FS_Subset, FS_CardinalityType
<1>2. B(m) \in SUBSET (S \ {m}) /\ IsFiniteSet(S \ {m}) /\ Cardinality(S \ {m}) = Cardinality(S) - 1
  BY FS_RemoveElement DEF Orders
<1>3. Cardinality(B(m)) <= Cardinality(S) - 1
  BY <1>2, FS_Subset
<1>4. Cardinality(S) \in Nat
  BY FS_CardinalityType
<1>5. ASSUME <<k, m>> \in R PROVE Cardinality(B(k)) < Cardinality(B(m))
  <2>1. B(k) \in SUBSET B(m) /\ k \in B(m) /\ k \notin B(k)
    BY <1>5 DEF Orders
  <2>2. Cardinality(B(k)) <= Cardinality(B(m)) /\ Cardinality(B(m)) # Cardinality(B(k))
    BY <1>1, <2>1, FS_Subset
  <2> QED
    BY <1>1, <2>2
<1>6. Rank(S, R, m) = Cardinality(B(m)) /\ Rank(S, R, k) = Cardinality(B(k))
  BY DEF Rank
<1> HIDE DEF B
<1> QED
  BY <1>1, <1>3, <1>4, <1>5, <1>6

\* Of an element that comes before another the place is lower, and conversely.
LEMMA RankIs ==
  ASSUME NEW S, IsFiniteSet(S), NEW R, Orders(R, S), NEW k \in S, NEW m \in S
  PROVE  /\ <<k, m>> \in R <=> Rank(S, R, k) < Rank(S, R, m)
         /\ Rank(S, R, k) = Rank(S, R, m) => k = m
<1>1. k = m \/ <<k, m>> \in R \/ <<m, k>> \in R
  BY DEF Orders
<1>2. Rank(S, R, k) \in Nat /\ Rank(S, R, m) \in Nat
  BY RankGrows
<1>3. <<k, m>> \in R => Rank(S, R, k) < Rank(S, R, m)
  BY RankGrows
<1>4. <<m, k>> \in R => Rank(S, R, m) < Rank(S, R, k)
  BY RankGrows
<1> QED
  BY <1>1, <1>2, <1>3, <1>4

\* Every place is taken.
LEMMA RankExists ==
  ASSUME NEW S, IsFiniteSet(S), NEW R, Orders(R, S), NEW i \in Nat, i < Cardinality(S)
  PROVE  \E m \in S : Rank(S, R, m) = i
<1> DEFINE n == Cardinality(S)
           T == 0 .. n - 1
           f == [m \in S |-> Rank(S, R, m)]
<1>1. n \in Nat
  BY FS_CardinalityType
<1>2. IsFiniteSet(T) /\ Cardinality(T) = n
  <2>1. 0 \in Int /\ n - 1 \in Int
    BY <1>1
  <2> QED
    BY <1>1, <2>1, FS_Interval
<1>3. ASSUME NEW m \in S PROVE Rank(S, R, m) \in T
  <2>1. Rank(S, R, m) \in Nat /\ Rank(S, R, m) < n
    BY RankGrows
  <2> HIDE DEF n
  <2> QED
    BY <1>1, <2>1
<1>4. f \in Injection(S, T)
  <2>1. f \in [S -> T]
    BY <1>3
  <2>2. \A a \in S : \A b \in S : f[a] = f[b] => a = b
    BY RankIs
  <2> QED
    BY <2>1, <2>2 DEF Injection, IsInjective
<1>5. f \in Surjection(S, T)
  BY <1>2, <1>4, FS_Injection
<1>6. i \in T
  BY <1>1
<1>7. PICK m \in S : f[m] = i
  BY <1>5, <1>6 DEF Surjection
<1> QED
  BY <1>7
-----------------------------------------------------------------------------
(* The workers that read messages (BatchWorker): the shares of a batch.    *)

BatchLimits ==
    /\ MaxMessage \in Nat /\ Owner \in [1 .. MaxMessage -> Users]
    /\ PerUser \in [Batch!Kinds -> Nat] /\ Total \in [Batch!Kinds -> Nat]
    /\ FailureLimit \in Nat \ {0} /\ BatchEvents \in Nat

\* The workers count as everybody does.
LEMMA SameCount == ASSUME NEW S PROVE Batch!Cardinality(S) = Cardinality(S)
  BY DEF Batch!Cardinality, Cardinality

\* The candidates of the same owner, those of them that are newer, the newest.
OfOwner(C, m) == {j \in C : Owner[j] = Owner[m]}
Newer(C, m)   == Cardinality({j \in OfOwner(C, m) : j > m})
First(C, m)   == CHOOSE j \in OfOwner(C, m) : \A i \in OfOwner(C, m) : i <= j

Younger == {p \in Batch!Messages \X Batch!Messages : p[1] > p[2]}
Turns(C) == {p \in C \X C : Batch!Sooner(C, p[1], p[2])}

LEMMA SoonerIs ==
  ASSUME NEW C, NEW m, NEW n
  PROVE  Batch!Sooner(C, m, n) <=>
            Newer(C, m) < Newer(C, n) \/ (Newer(C, m) = Newer(C, n) /\ First(C, m) > First(C, n))
  BY SameCount DEF Batch!Sooner, Newer, First, OfOwner

LEMMA CandidatesAre ==
  ASSUME BatchLimits, NEW C \in SUBSET Batch!Messages
  PROVE  IsFiniteSet(C) /\ \A m \in C : m \in Nat
<1>1. IsFiniteSet(1 .. MaxMessage)
  BY FS_Interval DEF BatchLimits
<1>2. IsFiniteSet(C)
  BY <1>1, FS_Subset DEF Batch!Messages
<1>3. \A m \in C : m \in 1 .. MaxMessage
  BY DEF Batch!Messages
<1> QED
  BY <1>2, <1>3

LEMMA YoungerOrders ==
  ASSUME BatchLimits, NEW S \in SUBSET Batch!Messages PROVE Orders(Younger, S)
<1>1. \A x \in S : x \in Nat /\ x \in Batch!Messages
  BY CandidatesAre
<1>2. \A x \in S : \A y \in S : <<x, y>> \in Younger <=> x > y
  BY <1>1 DEF Younger
<1> QED
  BY <1>1, <1>2 DEF Orders

\* How many are newer is the place among those of the owner.
LEMMA NewerIsRank ==
  ASSUME BatchLimits, NEW C \in SUBSET Batch!Messages, NEW m \in C
  PROVE  Newer(C, m) = Rank(OfOwner(C, m), Younger, m)
<1>1. \A j \in OfOwner(C, m) : j > m <=> <<j, m>> \in Younger
  BY DEF OfOwner, Younger
<1>2. {j \in OfOwner(C, m) : j > m} = {j \in OfOwner(C, m) : <<j, m>> \in Younger}
  BY <1>1
<1> QED
  BY <1>2 DEF Newer, Rank

LEMMA NewerType ==
  ASSUME BatchLimits, NEW C \in SUBSET Batch!Messages, NEW m \in C
  PROVE  /\ Newer(C, m) \in Nat /\ Newer(C, m) < Cardinality(OfOwner(C, m))
         /\ OfOwner(C, m) \in SUBSET C /\ IsFiniteSet(OfOwner(C, m)) /\ m \in OfOwner(C, m)
<1>1. OfOwner(C, m) \in SUBSET C /\ m \in OfOwner(C, m)
  BY DEF OfOwner
<1>2. IsFiniteSet(OfOwner(C, m))
  BY <1>1, CandidatesAre, FS_Subset
<1>3. Orders(Younger, OfOwner(C, m))
  BY <1>1, YoungerOrders
<1>4. /\ Rank(OfOwner(C, m), Younger, m) \in Nat
      /\ Rank(OfOwner(C, m), Younger, m) < Cardinality(OfOwner(C, m))
  <2> HIDE DEF OfOwner
  <2> QED
    BY <1>1, <1>2, <1>3, RankGrows
<1> QED
  BY <1>1, <1>2, <1>4, NewerIsRank

\* The newest of an owner tells owners apart.
LEMMA FirstIs ==
  ASSUME BatchLimits, NEW C \in SUBSET Batch!Messages, NEW m \in C
  PROVE  First(C, m) \in OfOwner(C, m) /\ First(C, m) \in Nat /\ Owner[First(C, m)] = Owner[m]
<1>1. OfOwner(C, m) \subseteq 1 .. MaxMessage /\ OfOwner(C, m) # {} /\ MaxMessage \in Nat
  BY DEF OfOwner, Batch!Messages, BatchLimits
<1>2. \E j \in OfOwner(C, m) : \A i \in OfOwner(C, m) : i <= j
  BY <1>1, GreatestOf
<1>3. First(C, m) \in OfOwner(C, m)
  BY <1>2 DEF First
<1> QED
  BY <1>1, <1>3 DEF OfOwner

\* Of one owner the newer come first, and no two have the same turn.
LEMMA NewerTells ==
  ASSUME BatchLimits, NEW C \in SUBSET Batch!Messages, NEW m \in C, NEW n \in C,
         Owner[m] = Owner[n]
  PROVE  /\ m > n <=> Newer(C, m) < Newer(C, n)
         /\ Newer(C, m) = Newer(C, n) => m = n
<1>1. OfOwner(C, m) = OfOwner(C, n)
  BY DEF OfOwner
<1> DEFINE S == OfOwner(C, m)
<1>2. S \in SUBSET Batch!Messages /\ IsFiniteSet(S) /\ m \in S /\ n \in S
  BY <1>1, NewerType
<1>3. Orders(Younger, S)
  BY <1>2, YoungerOrders
<1>4. Newer(C, m) = Rank(S, Younger, m) /\ Newer(C, n) = Rank(S, Younger, n)
  BY <1>1, NewerIsRank
<1>5. <<m, n>> \in Younger <=> m > n
  BY DEF Younger
<1> HIDE DEF S
<1> QED
  BY <1>2, <1>3, <1>4, <1>5, RankIs

LEMMA TurnsOrder ==
  ASSUME BatchLimits, NEW C \in SUBSET Batch!Messages, NEW S \in SUBSET C
  PROVE  Orders(Turns(C), S)
<1>1. \A x \in S : Newer(C, x) \in Nat /\ First(C, x) \in Nat
  BY NewerType, FirstIs
<1>2. \A x \in S : \A y \in S : <<x, y>> \in Turns(C) <=>
         Newer(C, x) < Newer(C, y) \/ (Newer(C, x) = Newer(C, y) /\ First(C, x) > First(C, y))
  BY SoonerIs DEF Turns
<1>3. ASSUME NEW x \in S, NEW y \in S, Newer(C, x) = Newer(C, y), First(C, x) = First(C, y)
      PROVE  x = y
  <2>1. Owner[x] = Owner[y]
    BY <1>3, FirstIs
  <2> QED
    BY <1>3, <2>1, NewerTells
<1>4. \A x \in S : <<x, x>> \notin Turns(C)
  BY <1>1, <1>2
<1>5. ASSUME NEW x \in S, NEW y \in S, NEW z \in S, <<x, y>> \in Turns(C), <<y, z>> \in Turns(C)
      PROVE  <<x, z>> \in Turns(C)
  BY <1>1, <1>2, <1>5
<1>6. ASSUME NEW x \in S, NEW y \in S PROVE x = y \/ <<x, y>> \in Turns(C) \/ <<y, x>> \in Turns(C)
  BY <1>1, <1>2, <1>3
<1> QED
  BY <1>4, <1>5, <1>6 DEF Orders

\* Those that have a share, and how many of them fit.
Sharing(k, C) == {m \in C : Newer(C, m) < PerUser[k]}
Size(k, C) == IF Cardinality(Sharing(k, C)) < Total[k] THEN Cardinality(Sharing(k, C)) ELSE Total[k]

Turn(k, C, m) == Rank(Sharing(k, C), Turns(C), m)

LEMMA PickIs ==
  ASSUME BatchLimits, NEW k \in Batch!Kinds, NEW C \in SUBSET Batch!Messages
  PROVE  Batch!PickFair[k][C] =
            [i \in 1 .. Size(k, C) |-> CHOOSE m \in Sharing(k, C) : Turn(k, C, m) + 1 = i]
<1> DEFINE S == {m \in C : Batch!Cardinality({j \in C : Owner[j] = Owner[m] /\ j > m}) < PerUser[k]}
           Place(m) == Batch!Cardinality({x \in S : Batch!Sooner(C, x, m)}) + 1
           n == IF Batch!Cardinality(S) < Total[k] THEN Batch!Cardinality(S) ELSE Total[k]
<1>1. Batch!PickFair[k][C] = [i \in 1 .. n |-> CHOOSE m \in S : Place(m) = i]
  BY DEF Batch!PickFair, Batch!InOrder
<1>2. \A m : {j \in C : Owner[j] = Owner[m] /\ j > m} = {j \in OfOwner(C, m) : j > m}
  BY DEF OfOwner
<1>3. S = Sharing(k, C)
  BY <1>2, SameCount DEF Sharing, Newer
<1>4. n = Size(k, C)
  BY <1>3, SameCount DEF Size
<1>5. \A m \in S : Place(m) = Turn(k, C, m) + 1
  <2>1. ASSUME NEW m \in S PROVE {x \in S : Batch!Sooner(C, x, m)} = {x \in S : <<x, m>> \in Turns(C)}
    BY DEF Turns
  <2> QED
    BY <1>3, <2>1, SameCount DEF Turn, Rank
<1> HIDE DEF S, Place, n
<1>6. \A i : (CHOOSE m \in S : Place(m) = i) = CHOOSE m \in Sharing(k, C) : Turn(k, C, m) + 1 = i
  BY <1>3, <1>5
<1> QED
  BY <1>1, <1>4, <1>6

Picked(k, C) == {m \in Sharing(k, C) : Turn(k, C, m) < Size(k, C)}
OfUser(S, u) == {m \in S : Owner[m] = u}

LEMMA SharingIs ==
  ASSUME BatchLimits, NEW k \in Batch!Kinds, NEW C \in SUBSET Batch!Messages
  PROVE  /\ Sharing(k, C) \in SUBSET C /\ IsFiniteSet(Sharing(k, C))
         /\ Cardinality(Sharing(k, C)) \in Nat
         /\ Size(k, C) \in Nat /\ Size(k, C) <= Total[k] /\ Size(k, C) <= Cardinality(Sharing(k, C))
         /\ PerUser[k] \in Nat /\ Orders(Turns(C), Sharing(k, C))
<1>1. Sharing(k, C) \in SUBSET C
  BY DEF Sharing
<1>2. IsFiniteSet(Sharing(k, C))
  BY <1>1, CandidatesAre, FS_Subset
<1>3. Cardinality(Sharing(k, C)) \in Nat
  BY <1>2, FS_CardinalityType
<1>4. Total[k] \in Nat /\ PerUser[k] \in Nat
  BY DEF BatchLimits
<1>5. Size(k, C) \in Nat /\ Size(k, C) <= Total[k] /\ Size(k, C) <= Cardinality(Sharing(k, C))
  BY <1>3, <1>4 DEF Size
<1>6. Orders(Turns(C), Sharing(k, C))
  BY <1>1, TurnsOrder
<1> QED
  BY <1>1, <1>2, <1>3, <1>4, <1>5, <1>6

\* The batch is in the order of turns.
LEMMA PickedInTurn ==
  ASSUME BatchLimits, NEW k \in Batch!Kinds, NEW C \in SUBSET Batch!Messages,
         NEW i \in 1 .. Size(k, C)
  PROVE  /\ Batch!PickFair[k][C][i] \in Sharing(k, C)
         /\ Turn(k, C, Batch!PickFair[k][C][i]) = i - 1
<1>1. i - 1 \in Nat /\ i - 1 < Cardinality(Sharing(k, C)) /\ i \in Nat
  BY SharingIs
<1>2. PICK m \in Sharing(k, C) : Turn(k, C, m) = i - 1
  BY <1>1, SharingIs, RankExists DEF Turn
<1>3. Turn(k, C, m) + 1 = i
  BY <1>1, <1>2
<1>4. \A x \in Sharing(k, C) : Turn(k, C, x) \in Nat
  BY SharingIs, RankGrows DEF Turn
<1> DEFINE c == CHOOSE x \in Sharing(k, C) : Turn(k, C, x) + 1 = i
<1>5. c \in Sharing(k, C) /\ Turn(k, C, c) + 1 = i
  BY <1>3
<1>6. Batch!PickFair[k][C][i] = c
  <2>1. Batch!PickFair[k][C] =
           [j \in 1 .. Size(k, C) |-> CHOOSE x \in Sharing(k, C) : Turn(k, C, x) + 1 = j]
    BY PickIs, Zenon
  <2> DEFINE F(j) == CHOOSE x \in Sharing(k, C) : Turn(k, C, x) + 1 = j
  <2>2. Batch!PickFair[k][C] = [j \in 1 .. Size(k, C) |-> F(j)]
    BY <2>1, Zenon
  <2>3. F(i) = c
    OBVIOUS
  <2> HIDE DEF F
  <2>4. Batch!PickFair[k][C][i] = F(i)
    BY <2>2, Zenon
  <2> QED
    BY <2>3, <2>4
<1> HIDE DEF c
<1>7. Turn(k, C, c) = i - 1
  BY <1>1, <1>4, <1>5
<1> QED
  BY <1>5, <1>6, <1>7

LEMMA BatchIs ==
  ASSUME BatchLimits, NEW k \in Batch!Kinds, NEW C \in SUBSET Batch!Messages,
         NEW b, b = Batch!PickFair[k][C]
  PROVE  /\ b \in Seq(Batch!Messages) /\ Len(b) = Size(k, C) /\ DOMAIN b = 1 .. Size(k, C)
         /\ \A i \in 1 .. Size(k, C) : b[i] \in Picked(k, C)
         /\ \A i, j \in 1 .. Size(k, C) : b[i] = b[j] => i = j
         /\ \A m \in Picked(k, C) : \E i \in 1 .. Size(k, C) : b[i] = m
<1> DEFINE n == Size(k, C)
<1>0. n \in Nat
  BY SharingIs
<1>1. \A i \in 1 .. n : b[i] \in Sharing(k, C) /\ Turn(k, C, b[i]) = i - 1
  BY PickedInTurn
<1>2. DOMAIN b = 1 .. n /\ b = [i \in 1 .. n |-> b[i]]
  BY PickIs
<1>3. Sharing(k, C) \subseteq Batch!Messages
  BY SharingIs
<1>4. b \in [1 .. n -> Batch!Messages]
  BY <1>1, <1>2, <1>3
<1> HIDE DEF n
<1>5. b \in Seq(Batch!Messages) /\ Len(b) = n
  BY <1>0, <1>4
<1>6. ASSUME NEW i \in 1 .. n PROVE b[i] \in Picked(k, C)
  <2>1. i - 1 < n
    BY <1>0
  <2> QED
    BY <1>1, <2>1 DEF Picked, n
<1>7. ASSUME NEW i \in 1 .. n, NEW j \in 1 .. n, b[i] = b[j] PROVE i = j
  <2>1. i - 1 = j - 1
    BY <1>1, <1>7
  <2> QED
    BY <1>0, <2>1
<1>8. ASSUME NEW m \in Picked(k, C) PROVE \E i \in 1 .. n : b[i] = m
  <2>1. m \in Sharing(k, C) /\ Turn(k, C, m) \in Nat /\ Turn(k, C, m) < n
    BY SharingIs, RankGrows DEF Picked, Turn, n
  <2> DEFINE i == Turn(k, C, m) + 1
  <2>2. i \in 1 .. n /\ i - 1 = Turn(k, C, m)
    BY <1>0, <2>1
  <2>3. b[i] \in Sharing(k, C) /\ Turn(k, C, b[i]) = Turn(k, C, m)
    BY <1>1, <2>2
  <2>4. b[i] = m
    BY <2>1, <2>3, SharingIs, RankIs DEF Turn
  <2> QED
    BY <2>2, <2>4
<1> QED
  BY <1>2, <1>5, <1>6, <1>7, <1>8 DEF n

\* What a user has in the batch.
LEMMA ShareIs ==
  ASSUME BatchLimits, NEW k \in Batch!Kinds, NEW C \in SUBSET Batch!Messages,
         NEW b, b = Batch!PickFair[k][C], NEW u
  PROVE  /\ Cardinality({i \in DOMAIN b : Owner[b[i]] = u}) = Cardinality(OfUser(Picked(k, C), u))
         /\ IsFiniteSet(OfUser(Picked(k, C), u)) /\ Cardinality(OfUser(Picked(k, C), u)) \in Nat
<1> DEFINE S == {i \in DOMAIN b : Owner[b[i]] = u}
           T == OfUser(Picked(k, C), u)
           f == [i \in S |-> b[i]]
<1>1. IsFiniteSet(DOMAIN b)
  <2>1. Size(k, C) \in Int /\ 1 \in Int
    BY SharingIs
  <2>2. IsFiniteSet(1 .. Size(k, C))
    BY <2>1, FS_Interval
  <2>3. DOMAIN b = 1 .. Size(k, C)
    BY BatchIs
  <2> QED
    BY <2>2, <2>3
<1>2. IsFiniteSet(S)
  BY <1>1, FS_Subset
<1>3. f \in [S -> T] /\ \A x \in S : \A y \in S : f[x] = f[y] => x = y
  BY BatchIs DEF OfUser
<1>4. \A m \in T : \E i \in S : f[i] = m
  <2> SUFFICES ASSUME NEW m \in T PROVE \E i \in S : f[i] = m
    OBVIOUS
  <2>1. m \in Picked(k, C) /\ Owner[m] = u
    BY DEF OfUser
  <2>2. PICK i \in DOMAIN b : b[i] = m
    BY <2>1, BatchIs
  <2> QED
    BY <2>1, <2>2
<1> HIDE DEF S, T, f
<1>5. f \in Bijection(S, T)
  BY <1>3, <1>4 DEF Bijection, Injection, IsInjective, Surjection
<1>6. IsFiniteSet(T) /\ Cardinality(T) = Cardinality(S)
  BY <1>2, <1>5, FS_Bijection DEF ExistsBijection
<1>7. Cardinality(T) \in Nat
  BY <1>6, FS_CardinalityType
<1> QED
  BY <1>6, <1>7 DEF S, T

\* Who has fewer newer messages comes first, and whoever comes first has no more.
LEMMA TurnTells ==
  ASSUME BatchLimits, NEW k \in Batch!Kinds, NEW C \in SUBSET Batch!Messages,
         NEW m \in Sharing(k, C), NEW n \in Sharing(k, C)
  PROVE  /\ Newer(C, m) < Newer(C, n) => Turn(k, C, m) < Turn(k, C, n)
         /\ Turn(k, C, m) < Turn(k, C, n) => Newer(C, m) <= Newer(C, n)
         /\ Turn(k, C, m) \in Nat /\ Turn(k, C, n) \in Nat
<1>1. m \in C /\ n \in C
  BY SharingIs
<1>2. <<m, n>> \in Turns(C) <=> Turn(k, C, m) < Turn(k, C, n)
  BY SharingIs, RankIs DEF Turn
<1>3. <<m, n>> \in Turns(C) <=>
         Newer(C, m) < Newer(C, n) \/ (Newer(C, m) = Newer(C, n) /\ First(C, m) > First(C, n))
  BY <1>1, SoonerIs DEF Turns
<1>4. Newer(C, m) \in Nat /\ Newer(C, n) \in Nat
  BY <1>1, NewerType
<1>5. Turn(k, C, m) \in Nat /\ Turn(k, C, n) \in Nat
  BY SharingIs, RankGrows DEF Turn
<1> QED
  BY <1>2, <1>3, <1>4, <1>5

\* With a message of a user the newer ones of that user are in the batch.
LEMMA NewerToo ==
  ASSUME BatchLimits, NEW k \in Batch!Kinds, NEW C \in SUBSET Batch!Messages, NEW u,
         NEW m \in OfUser(Picked(k, C), u), NEW j \in C, Owner[j] = u, j > m
  PROVE  j \in OfUser(Picked(k, C), u)
<1>1. m \in C /\ Owner[m] = u /\ m \in Sharing(k, C) /\ Turn(k, C, m) < Size(k, C)
  BY SharingIs DEF OfUser, Picked
<1>2. Newer(C, j) < Newer(C, m) /\ Newer(C, j) \in Nat /\ Newer(C, m) \in Nat
  BY <1>1, NewerTells, NewerType
<1>3. Newer(C, m) < PerUser[k] /\ PerUser[k] \in Nat /\ Size(k, C) \in Nat
  BY <1>1, SharingIs DEF Sharing
<1>4. Newer(C, j) < PerUser[k]
  BY <1>2, <1>3
<1>5. j \in Sharing(k, C)
  BY <1>4 DEF Sharing
<1>6. /\ Turn(k, C, j) < Turn(k, C, m)
      /\ Turn(k, C, j) \in Nat /\ Turn(k, C, m) \in Nat
  BY <1>1, <1>2, <1>5, TurnTells
<1>7. Turn(k, C, j) < Size(k, C)
  BY <1>1, <1>3, <1>6
<1> QED
  BY <1>5, <1>7 DEF OfUser, Picked

\* So what a user has in the batch are the newest messages of that user.
LEMMA NewestFirst ==
  ASSUME BatchLimits, NEW k \in Batch!Kinds, NEW C \in SUBSET Batch!Messages, NEW u,
         NEW j \in C, Owner[j] = u
  PROVE  /\ j \in OfUser(Picked(k, C), u) => Newer(C, j) < Cardinality(OfUser(Picked(k, C), u))
         /\ j \notin OfUser(Picked(k, C), u) => Cardinality(OfUser(Picked(k, C), u)) <= Newer(C, j)
<1> DEFINE T == OfUser(Picked(k, C), u)
           N == {x \in OfOwner(C, j) : x > j}
<1>1. IsFiniteSet(T) /\ Cardinality(T) \in Nat
  BY ShareIs
<1>2. IsFiniteSet(N) /\ Cardinality(N) = Newer(C, j) /\ Newer(C, j) \in Nat
  BY NewerType, FS_Subset DEF Newer
<1>3. T \subseteq C /\ \A x \in T : Owner[x] = u /\ x \in Nat
  BY SharingIs, CandidatesAre DEF OfUser, Picked
<1>4. j \in Nat /\ j \notin N
  BY CandidatesAre
<1>5. ASSUME j \in T PROVE N \cup {j} \in SUBSET T
  BY <1>5, NewerToo DEF OfOwner
<1>6. ASSUME j \notin T PROVE T \in SUBSET N
  <2> SUFFICES ASSUME NEW x \in T PROVE x \in N
    OBVIOUS
  <2>1. x \in OfOwner(C, j) /\ x # j /\ x \in Nat
    BY <1>3, <1>6 DEF OfOwner
  <2>2. ~(j > x)
    BY <1>6, NewerToo
  <2> QED
    BY <1>4, <2>1, <2>2
<1> HIDE DEF T, N
<1>7. ASSUME j \in T PROVE Newer(C, j) < Cardinality(T)
  <2>1. Cardinality(N \cup {j}) = Cardinality(N) + 1
    BY <1>2, <1>4, FS_AddElement
  <2>2. Cardinality(N \cup {j}) <= Cardinality(T)
    BY <1>1, <1>5, <1>7, FS_Subset
  <2> QED
    BY <1>1, <1>2, <2>1, <2>2
<1>8. ASSUME j \notin T PROVE Cardinality(T) <= Newer(C, j)
  BY <1>2, <1>6, <1>8, FS_Subset
<1> QED
  BY <1>7, <1>8 DEF T

\* Of a user with more candidates there is one for each place up to theirs.
LEMMA SomebodyAt ==
  ASSUME BatchLimits, NEW C \in SUBSET Batch!Messages, NEW m \in C,
         NEW i \in Nat, i < Cardinality(OfOwner(C, m))
  PROVE  \E j \in C : Owner[j] = Owner[m] /\ Newer(C, j) = i
<1> DEFINE S == OfOwner(C, m)
<1>1. IsFiniteSet(S) /\ Orders(Younger, S) /\ S \in SUBSET C
  BY NewerType, YoungerOrders DEF OfOwner
<1>2. \A j \in S : Owner[j] = Owner[m] /\ OfOwner(C, j) = S
  BY DEF OfOwner
<1> HIDE DEF S
<1>3. PICK j \in S : Rank(S, Younger, j) = i
  BY <1>1, RankExists DEF S
<1>4. Newer(C, j) = i
  BY <1>1, <1>2, <1>3, NewerIsRank
<1> QED
  BY <1>1, <1>2, <1>3, <1>4

\* Nobody has more than PerUser of a batch.
LEMMA NobodyHasMore ==
  ASSUME BatchLimits, NEW k \in Batch!Kinds, NEW C \in SUBSET Batch!Messages, NEW u
  PROVE  Cardinality(OfUser(Picked(k, C), u)) <= PerUser[k]
<1> DEFINE T == OfUser(Picked(k, C), u)
           p == PerUser[k]
           f == [m \in T |-> Newer(C, m)]
<1>1. p \in Nat /\ IsFiniteSet(T) /\ Cardinality(T) \in Nat
  BY SharingIs, ShareIs
<1>2. ASSUME NEW m \in T PROVE m \in C /\ Owner[m] = u /\ Newer(C, m) \in Nat /\ Newer(C, m) < p
  BY SharingIs, NewerType DEF OfUser, Picked, Sharing
<1>3. \A x \in T : \A y \in T : Newer(C, x) = Newer(C, y) => x = y
  BY <1>2, NewerTells
<1> HIDE DEF T, p
<1>4. IsFiniteSet(0 .. p - 1) /\ Cardinality(0 .. p - 1) = p
  <2> DEFINE q == p - 1
  <2>1. 0 \in Int /\ q \in Int /\ (IF 0 > q THEN 0 ELSE q - 0 + 1) = p
    BY <1>1
  <2> HIDE DEF q
  <2>2. IsFiniteSet(0 .. q) /\ Cardinality(0 .. q) = p
    BY <2>1, FS_Interval
  <2> QED
    BY <2>2 DEF q
<1>5. \A m \in T : Newer(C, m) \in 0 .. p - 1
  BY <1>1, <1>2
<1>6. f \in Injection(T, 0 .. p - 1)
  BY <1>3, <1>5 DEF Injection, IsInjective
<1>7. Cardinality(T) <= Cardinality(0 .. p - 1)
  BY <1>4, <1>6, FS_Injection
<1> QED
  BY <1>4, <1>7 DEF T, p

\* With a candidate left over there is one whose turn is the next of the user.
LEMMA NextOf ==
  ASSUME BatchLimits, NEW k \in Batch!Kinds, NEW C \in SUBSET Batch!Messages, NEW u,
         NEW m \in C, Owner[m] = u, m \notin Picked(k, C)
  PROVE  \E j \in C : /\ Owner[j] = u /\ j \notin Picked(k, C)
                      /\ Newer(C, j) = Cardinality(OfUser(Picked(k, C), u))
<1> DEFINE n == Cardinality(OfUser(Picked(k, C), u))
<1>1. n \in Nat
  BY ShareIs
<1>2. m \notin OfUser(Picked(k, C), u)
  BY DEF OfUser
<1>3. n <= Newer(C, m)
  BY <1>2, NewestFirst
<1>4. /\ Newer(C, m) < Cardinality(OfOwner(C, m)) /\ Newer(C, m) \in Nat
      /\ Cardinality(OfOwner(C, m)) \in Nat
  BY NewerType, FS_CardinalityType
<1> HIDE DEF n
<1>5. n < Cardinality(OfOwner(C, m))
  BY <1>1, <1>3, <1>4
<1>6. PICK j \in C : Owner[j] = u /\ Newer(C, j) = n
  BY <1>1, <1>5, SomebodyAt
<1>7. j \notin OfUser(Picked(k, C), u)
  <2> SUFFICES ASSUME j \in OfUser(Picked(k, C), u) PROVE FALSE
    OBVIOUS
  <2>1. Newer(C, j) < n
    BY <1>6, NewestFirst DEF n
  <2> QED
    BY <1>1, <1>6, <2>1
<1> QED
  BY <1>6, <1>7 DEF OfUser, n

\* Nobody has two messages more than somebody with a candidate left over.
LEMMA NobodyIsAhead ==
  ASSUME BatchLimits, NEW k \in Batch!Kinds, NEW C \in SUBSET Batch!Messages, NEW u, NEW v,
         NEW j \in C, Owner[j] = u, j \notin Picked(k, C),
         Newer(C, j) = Cardinality(OfUser(Picked(k, C), u))
  PROVE  Cardinality(OfUser(Picked(k, C), v)) <= Cardinality(OfUser(Picked(k, C), u)) + 1
<1> DEFINE a == Cardinality(OfUser(Picked(k, C), u))
           b == Cardinality(OfUser(Picked(k, C), v))
<1>1. a \in Nat /\ b \in Nat /\ b <= PerUser[k] /\ PerUser[k] \in Nat
  BY ShareIs, NobodyHasMore, SharingIs
<1>2. Newer(C, j) = a
  OBVIOUS
<1> SUFFICES ASSUME b >= a + 2 PROVE FALSE
  <2> HIDE DEF a, b
  <2>1. b <= a + 1
    BY <1>1
  <2> QED
    BY <2>1 DEF a, b
<1>3. PICK y \in OfUser(Picked(k, C), v) : TRUE
  <2>1. OfUser(Picked(k, C), v) # {}
    <3> SUFFICES ASSUME OfUser(Picked(k, C), v) = {} PROVE FALSE
      OBVIOUS
    <3>1. b = 0
      BY FS_EmptySet
    <3> HIDE DEF a, b
    <3> QED
      BY <1>1, <3>1
  <2> QED
    BY <2>1
<1>4. y \in C /\ Owner[y] = v /\ OfUser(Picked(k, C), v) \in SUBSET OfOwner(C, y)
  BY SharingIs DEF OfUser, Picked, OfOwner
<1>5. b <= Cardinality(OfOwner(C, y)) /\ Cardinality(OfOwner(C, y)) \in Nat
  BY <1>4, NewerType, FS_Subset, FS_CardinalityType
<1>6. b - 1 \in Nat /\ b - 1 < Cardinality(OfOwner(C, y))
  <2> HIDE DEF a, b
  <2> QED
    BY <1>1, <1>5
<1>7. PICK x \in C : Owner[x] = v /\ Newer(C, x) = b - 1
  BY <1>4, <1>6, SomebodyAt
<1>8. x \in Picked(k, C)
  <2> SUFFICES ASSUME x \notin Picked(k, C) PROVE FALSE
    OBVIOUS
  <2>1. x \notin OfUser(Picked(k, C), v)
    BY DEF OfUser
  <2>2. b <= Newer(C, x)
    BY <1>7, <2>1, NewestFirst
  <2> HIDE DEF a, b
  <2> QED
    BY <1>1, <1>7, <2>2
<1>9. x \in Sharing(k, C) /\ Turn(k, C, x) < Size(k, C)
  BY <1>8 DEF Picked
<1>10. j \in Sharing(k, C)
  <2>1. Newer(C, j) < PerUser[k]
    <3> HIDE DEF a, b
    <3> QED
      BY <1>1, <1>2
  <2> QED
    BY <2>1 DEF Sharing
<1>11. ~(Turn(k, C, j) < Size(k, C))
  BY <1>10 DEF Picked
<1>12. Turn(k, C, x) < Turn(k, C, j)
  <2>1. Turn(k, C, x) \in Nat /\ Turn(k, C, j) \in Nat /\ Size(k, C) \in Nat
    BY <1>9, <1>10, TurnTells, SharingIs
  <2> QED
    BY <1>9, <1>11, <2>1
<1>13. Newer(C, x) <= Newer(C, j)
  BY <1>9, <1>10, <1>12, TurnTells
<1> HIDE DEF a, b
<1> QED
  BY <1>1, <1>2, <1>7, <1>13

\* A place is left empty only when all have their share.
LEMMA EmptyPlaces ==
  ASSUME BatchLimits, NEW k \in Batch!Kinds, NEW C \in SUBSET Batch!Messages, NEW u,
         NEW j \in C, Owner[j] = u, j \notin Picked(k, C),
         Newer(C, j) = Cardinality(OfUser(Picked(k, C), u)), Size(k, C) < Total[k]
  PROVE  Cardinality(OfUser(Picked(k, C), u)) = PerUser[k]
<1>1. Size(k, C) = Cardinality(Sharing(k, C))
  <2>1. Total[k] \in Nat /\ Cardinality(Sharing(k, C)) \in Nat
    BY SharingIs DEF BatchLimits
  <2> QED
    BY <2>1 DEF Size
<1>2. j \notin Sharing(k, C)
  <2> SUFFICES ASSUME j \in Sharing(k, C) PROVE FALSE
    OBVIOUS
  <2>1. Turn(k, C, j) < Cardinality(Sharing(k, C))
    BY SharingIs, RankGrows DEF Turn
  <2> QED
    BY <1>1, <2>1 DEF Picked
<1>3. ~(Newer(C, j) < PerUser[k])
  BY <1>2 DEF Sharing
<1>4. Newer(C, j) <= PerUser[k] /\ Newer(C, j) \in Nat /\ PerUser[k] \in Nat
  <2>1. Cardinality(OfUser(Picked(k, C), u)) <= PerUser[k]
    BY NobodyHasMore
  <2>2. Newer(C, j) \in Nat
    BY NewerType
  <2>3. PerUser[k] \in Nat
    BY SharingIs
  <2> QED
    BY <2>1, <2>2, <2>3
<1> QED
  BY <1>3, <1>4

\* So every batch is fair.
LEMMA BatchIsFair ==
  ASSUME BatchLimits, kind \in Batch!Kinds, NEW C \in SUBSET Batch!Messages
  PROVE  Batch!Fair(C, Batch!PickFair[kind][C])
<1> DEFINE b == Batch!PickFair[kind][C]
           In(u) == Cardinality({i \in DOMAIN b : Owner[b[i]] = u})
           Left(u) == \E m \in C : Owner[m] = u /\ ~\E i \in DOMAIN b : b[i] = m
<1>1. Len(b) = Size(kind, C) /\ \A m \in Picked(kind, C) : \E i \in DOMAIN b : b[i] = m
  BY BatchIs
<1>2. \A u : In(u) = Cardinality(OfUser(Picked(kind, C), u))
  BY ShareIs
<1>3. ASSUME NEW u, Left(u)
      PROVE  \E j \in C : /\ Owner[j] = u /\ j \notin Picked(kind, C)
                          /\ Newer(C, j) = Cardinality(OfUser(Picked(kind, C), u))
  BY <1>1, <1>3, NextOf
<1> HIDE DEF b, In, Left
<1>4. ASSUME NEW u PROVE In(u) <= PerUser[kind]
  BY <1>2, NobodyHasMore
<1>5. ASSUME NEW u, NEW v, Left(u) PROVE In(v) <= In(u) + 1
  BY <1>2, <1>3, <1>5, NobodyIsAhead
<1>6. ASSUME NEW u, Left(u), Len(b) < Total[kind] PROVE In(u) = PerUser[kind]
  BY <1>1, <1>2, <1>3, <1>6, EmptyPlaces
<1>7. \A u \in Users : /\ In(u) <= PerUser[kind]
                       /\ Left(u) => /\ \A v \in Users : In(v) <= In(u) + 1
                                     /\ Len(b) < Total[kind] => In(u) = PerUser[kind]
  BY <1>4, <1>5, <1>6
<1>8. \A u : Batch!Cardinality({i \in DOMAIN b : Owner[b[i]] = u}) = In(u)
  BY SameCount DEF In
<1> QED
  BY <1>7, <1>8 DEF Batch!Fair, b, In, Left

-----------------------------------------------------------------------------
(* The readings of the workers.                                            *)

MailTypes ==
    /\ kind \in Batch!Kinds
    /\ place \in [Batch!Messages -> {"gone", "inbox", "filed"}]
    /\ age \in [Batch!Messages -> 0 .. 2] /\ signed \subseteq Users
    /\ rows \in [Batch!Messages -> {"none", "old", "good", "dead"}]

FlowTypes ==
    /\ batch \in Seq(Batch!Messages) /\ Len(batch) <= Total[kind]
    /\ pc \in {"idle", "loop", "store", "project", "strike"}
    /\ pc \notin {"idle", "loop"} => batch # <<>>
    /\ got \in {"", "text", "nothing"} /\ (got # "" <=> pc = "store")

CountTypes ==
    /\ strikes \in [Batch!Messages -> 0 .. FailureLimit - 1] /\ streak \in [Batch!Messages -> Nat]
    /\ events \in 0 .. BatchEvents

TellTypes ==
    /\ verdict \in [Batch!Messages -> {"", "empty", "failing"}]
    /\ projected \subseteq Batch!Messages /\ cut \subseteq Batch!Messages

BatchInv == MailTypes /\ FlowTypes /\ CountTypes /\ TellTypes /\ Batch!StrikesInv /\ Batch!PromisesKept

LEMMA BatchInvIs == BatchInv <=> Batch!CardsHavePromises
  BY DEF BatchInv, MailTypes, FlowTypes, CountTypes, TellTypes, Batch!CardsHavePromises, Batch!TypeOK

LEMMA BatchInit == ASSUME BatchLimits, Batch!Init PROVE BatchInv
<1>1. /\ kind \in Batch!Kinds
      /\ place = [m \in Batch!Messages |-> "inbox"] /\ age = [m \in Batch!Messages |-> 0]
      /\ signed = Users /\ rows = [m \in Batch!Messages |-> "none"]
  BY DEF Batch!Init
<1>2. /\ strikes = [m \in Batch!Messages |-> 0] /\ streak = [m \in Batch!Messages |-> 0]
      /\ batch = <<>> /\ pc = "idle" /\ got = "" /\ events = 0
  BY DEF Batch!Init
<1>3. verdict = [m \in Batch!Messages |-> ""] /\ projected = {} /\ cut = {}
  BY DEF Batch!Init
<1>4. MailTypes
  BY <1>1 DEF MailTypes
<1>5. TellTypes
  BY <1>3 DEF TellTypes
<1>6. FlowTypes
  <2>1. Total[kind] \in Nat
    BY <1>1 DEF BatchLimits
  <2>2. <<>> \in Seq(Batch!Messages) /\ Len(<<>>) = 0
    OBVIOUS
  <2>3. 0 <= Total[kind]
    BY <2>1
  <2>4. Len(batch) <= Total[kind] /\ batch \in Seq(Batch!Messages)
    BY <1>2, <2>2, <2>3
  <2> QED
    BY <1>2, <2>4 DEF FlowTypes
<1>7. CountTypes
  <2>1. 0 \in 0 .. FailureLimit - 1 /\ 0 \in 0 .. BatchEvents
    BY DEF BatchLimits
  <2> QED
    BY <1>2, <2>1 DEF CountTypes
<1>8. Batch!StrikesInv
  <2>1. \A m \in Batch!Messages : strikes[m] = 0 /\ streak[m] = 0 /\ pc # "strike"
    BY <1>2
  <2> QED
    BY <2>1 DEF Batch!StrikesInv
<1>9. Batch!PromisesKept
  BY <1>1 DEF Batch!PromisesKept
<1> QED
  BY <1>4, <1>5, <1>6, <1>7, <1>8, <1>9 DEF BatchInv

LEMMA CurIs ==
  ASSUME BatchLimits, FlowTypes, batch # <<>>
  PROVE  /\ Batch!cur \in Batch!Messages
         /\ Tail(batch) \in Seq(Batch!Messages) /\ Len(Tail(batch)) = Len(batch) - 1
         /\ Len(batch) \in Nat
<1>1. batch \in Seq(Batch!Messages)
  BY DEF FlowTypes
<1>2. /\ Head(batch) \in Batch!Messages /\ Tail(batch) \in Seq(Batch!Messages)
      /\ Len(Tail(batch)) = Len(batch) - 1 /\ Len(batch) \in Nat
  BY <1>1
<1> QED
  BY <1>2 DEF Batch!cur

LEMMA EmptyBatch ==
  ASSUME BatchLimits, MailTypes
  PROVE  <<>> \in Seq(Batch!Messages) /\ Len(<<>>) <= Total[kind]
<1>1. 0 <= Total[kind]
  BY DEF BatchLimits, MailTypes
<1>2. <<>> \in Seq(Batch!Messages) /\ Len(<<>>) = 0
  OBVIOUS
<1> QED
  BY <1>1, <1>2

LEMMA LessFits == ASSUME NEW l \in Nat, NEW t \in Nat, l <= t PROVE l - 1 <= t
  OBVIOUS

LEMMA BatchLeaves ==
  ASSUME BatchLimits, MailTypes, FlowTypes, batch # <<>>, Batch!Leave, got' = "", kind' = kind
  PROVE  FlowTypes' /\ pc' = "loop"
<1>1. Total[kind] \in Nat
  BY DEF MailTypes, BatchLimits
<1>2. Len(batch) <= Total[kind]
  BY DEF FlowTypes
<1>3. /\ Tail(batch) \in Seq(Batch!Messages) /\ Len(Tail(batch)) = Len(batch) - 1
      /\ Len(batch) \in Nat
  BY CurIs
<1>4. Len(Tail(batch)) <= Total[kind]
  <2>1. Len(batch) - 1 <= Total[kind]
    BY <1>1, <1>2, <1>3, LessFits
  <2> QED
    BY <1>3, <2>1
<1>5. batch' = Tail(batch) /\ pc' = "loop"
  BY DEF Batch!Leave
<1> QED
  BY <1>3, <1>4, <1>5 DEF FlowTypes

LEMMA BatchEvent ==
  ASSUME BatchLimits, CountTypes, Batch!Event PROVE events' \in 0 .. BatchEvents
  BY DEF BatchLimits, CountTypes, Batch!Event

LEMMA BatchStart ==
  ASSUME BatchLimits, BatchInv, Batch!StartTick PROVE BatchInv'
<1> DEFINE C == Batch!Candidates
<1>1. kind \in Batch!Kinds /\ C \in SUBSET Batch!Messages
  BY DEF BatchInv, MailTypes, Batch!Candidates
<1>2. batch' = Batch!PickFair[kind][C] /\ pc = "idle" /\ pc' = "loop"
      /\ UNCHANGED <<kind, place, age, signed, rows, strikes, got, events, streak, verdict, projected, cut>>
  BY DEF Batch!StartTick, Batch!world, Batch!hist
<1> HIDE DEF C
<1>3. batch' \in Seq(Batch!Messages) /\ Len(batch') = Size(kind, C)
  BY <1>1, <1>2, BatchIs
<1>4. Len(batch') <= Total[kind]
  BY <1>1, <1>3, SharingIs
<1>5. FlowTypes'
  BY <1>2, <1>3, <1>4 DEF BatchInv, FlowTypes
<1>6. MailTypes' /\ CountTypes' /\ TellTypes'
  BY <1>2 DEF BatchInv, MailTypes, CountTypes, TellTypes
<1>7. Batch!StrikesInv'
  BY <1>2 DEF BatchInv, Batch!StrikesInv
<1>8. Batch!PromisesKept'
  BY <1>2 DEF BatchInv, Batch!PromisesKept
<1> QED
  BY <1>5, <1>6, <1>7, <1>8 DEF BatchInv

LEMMA BatchRead ==
  ASSUME BatchLimits, BatchInv, NEW g \in {"text", "nothing"}, Batch!Read(g) PROVE BatchInv'
<1>1. /\ batch # <<>> /\ pc = "loop" /\ pc' = "store" /\ got' = g
      /\ UNCHANGED <<kind, place, age, signed, rows, strikes, batch, events, streak, verdict, projected, cut>>
  BY DEF Batch!Read, Batch!world, Batch!hist
<1>2. FlowTypes'
  BY <1>1 DEF BatchInv, FlowTypes
<1>3. MailTypes' /\ CountTypes' /\ TellTypes'
  BY <1>1 DEF BatchInv, MailTypes, CountTypes, TellTypes
<1>4. Batch!StrikesInv' /\ Batch!PromisesKept'
  BY <1>1 DEF BatchInv, Batch!StrikesInv, Batch!PromisesKept
<1> QED
  BY <1>2, <1>3, <1>4 DEF BatchInv

\* A reading or a write that fails counts at once, its strike follows.
LEMMA BatchStruck ==
  ASSUME BatchLimits, BatchInv, batch # <<>>, pc \notin {"strike", "project"}, pc' = "strike",
         streak' = [streak EXCEPT ![Batch!cur] = @ + 1],
         Batch!Event \/ UNCHANGED events, UNCHANGED <<batch, strikes>>
  PROVE  CountTypes' /\ Batch!StrikesInv'
<1>1. Batch!cur \in Batch!Messages /\ Batch!cur' = Batch!cur
  BY CurIs DEF BatchInv, Batch!cur
<1>2. events' \in 0 .. BatchEvents
  BY BatchEvent DEF BatchInv, CountTypes
<1>3. CountTypes'
  BY <1>1, <1>2 DEF BatchInv, CountTypes
<1>4. \A m \in Batch!Messages : strikes[m] \in Int /\ streak[m] \in Nat /\ strikes[m] <= streak[m]
  BY DEF BatchInv, CountTypes, Batch!StrikesInv
<1>5. \A m \in Batch!Messages : streak'[m] = IF m = Batch!cur THEN streak[m] + 1 ELSE streak[m]
  BY <1>1 DEF BatchInv, CountTypes
<1>6. ASSUME NEW m \in Batch!Messages
      PROVE  strikes'[m] + (IF pc' = "strike" /\ m = Batch!cur' THEN 1 ELSE 0) <= streak'[m]
  BY <1>1, <1>4, <1>5
<1> QED
  BY <1>3, <1>6 DEF Batch!StrikesInv

LEMMA BatchReadFails ==
  ASSUME BatchLimits, BatchInv, Batch!ReadFails PROVE BatchInv'
<1>1. /\ batch # <<>> /\ pc = "loop" /\ pc' = "strike"
      /\ streak' = [streak EXCEPT ![Batch!cur] = @ + 1]
      /\ Batch!Event \/ UNCHANGED events
      /\ UNCHANGED <<kind, place, age, signed, rows, strikes, batch, got, verdict, projected, cut>>
  BY DEF Batch!ReadFails, Batch!world
<1>2. CountTypes' /\ Batch!StrikesInv'
  BY <1>1, BatchStruck
<1>3. FlowTypes'
  BY <1>1 DEF BatchInv, FlowTypes
<1>4. MailTypes' /\ TellTypes'
  BY <1>1 DEF BatchInv, MailTypes, TellTypes
<1>5. Batch!PromisesKept'
  BY <1>1 DEF BatchInv, Batch!PromisesKept
<1> QED
  BY <1>2, <1>3, <1>4, <1>5 DEF BatchInv

LEMMA BatchStoreFails ==
  ASSUME BatchLimits, BatchInv, Batch!StoreFails PROVE BatchInv'
<1>1. /\ pc = "store" /\ pc' = "strike" /\ got' = ""
      /\ streak' = [streak EXCEPT ![Batch!cur] = @ + 1]
      /\ Batch!Event \/ UNCHANGED events
      /\ UNCHANGED <<kind, place, age, signed, strikes, batch, verdict, projected, cut>>
  BY DEF Batch!StoreFails, Batch!world
<1>2. batch # <<>> /\ Batch!cur \in Batch!Messages
  BY <1>1, CurIs DEF BatchInv, FlowTypes
<1>3. rows' = rows \/ rows' = [rows EXCEPT ![Batch!cur] = "none"]
  BY DEF Batch!StoreFails
<1>4. CountTypes' /\ Batch!StrikesInv'
  BY <1>1, <1>2, BatchStruck
<1>5. FlowTypes'
  BY <1>1 DEF BatchInv, FlowTypes
<1>6. MailTypes' /\ TellTypes'
  BY <1>1, <1>2, <1>3 DEF BatchInv, MailTypes, TellTypes
<1>7. \A m \in Batch!Messages : rows'[m] = "good" => rows[m] = "good"
  BY <1>2, <1>3 DEF BatchInv, MailTypes
<1>8. Batch!PromisesKept'
  BY <1>1, <1>7 DEF BatchInv, Batch!PromisesKept
<1> QED
  BY <1>4, <1>5, <1>6, <1>8 DEF BatchInv

LEMMA BatchStore ==
  ASSUME BatchLimits, BatchInv, Batch!Store PROVE BatchInv'
<1> DEFINE c == Batch!cur
<1>1. /\ pc = "store" /\ got' = "" /\ UNCHANGED <<kind, place, age, signed, events>>
      /\ rows' = [rows EXCEPT ![c] = IF place[c] = "gone" THEN "none"
                                     ELSE IF got = "text" THEN "good" ELSE "dead"]
      /\ verdict' = [verdict EXCEPT ![c] = IF rows'[c] = "dead" THEN "empty" ELSE ""]
      /\ projected' = projected \ {c} /\ cut' = cut \ {c}
  BY DEF Batch!Store, Batch!world
<1>2. /\ strikes' = [strikes EXCEPT ![c] = IF Batch!KeepsStrikes THEN @ ELSE 0]
      /\ streak' = [streak EXCEPT ![c] = IF Batch!KeepsStrikes THEN @ ELSE 0]
  BY DEF Batch!Store
<1>3. IF Batch!NeedsLedger THEN pc' = "project" /\ UNCHANGED batch ELSE Batch!Leave
  BY DEF Batch!Store
<1>4. batch # <<>> /\ c \in Batch!Messages
  BY <1>1, CurIs DEF BatchInv, FlowTypes
<1>5. FlowTypes' /\ pc' \in {"project", "loop"}
  <2>1. CASE Batch!NeedsLedger
    BY <1>1, <1>3, <2>1 DEF BatchInv, FlowTypes
  <2>2. CASE ~Batch!NeedsLedger
    BY <1>1, <1>3, <1>4, <2>2, BatchLeaves DEF BatchInv
  <2> QED
    BY <2>1, <2>2
<1>6. MailTypes'
  <2> HIDE DEF c
  <2> QED
    BY <1>1, <1>4 DEF BatchInv, MailTypes
<1>7. TellTypes'
  <2> HIDE DEF c
  <2> QED
    BY <1>1, <1>4 DEF BatchInv, TellTypes
<1>8. CountTypes'
  <2>1. 0 \in 0 .. FailureLimit - 1
    BY DEF BatchLimits
  <2> HIDE DEF c
  <2> QED
    BY <1>1, <1>2, <1>4, <2>1 DEF BatchInv, CountTypes
<1>9. Batch!StrikesInv'
  <2>1. \A m \in Batch!Messages : strikes[m] \in Int /\ streak[m] \in Nat /\ strikes[m] <= streak[m]
    BY DEF BatchInv, CountTypes, Batch!StrikesInv
  <2> HIDE DEF c
  <2>2. ASSUME NEW m \in Batch!Messages
        PROVE  \/ strikes'[m] = strikes[m] /\ streak'[m] = streak[m]
               \/ strikes'[m] = 0 /\ streak'[m] = 0
    BY <1>2, <1>4 DEF BatchInv, CountTypes
  <2>3. \A m \in Batch!Messages : strikes'[m] \in Int /\ strikes'[m] <= streak'[m]
    BY <2>1, <2>2
  <2> QED
    BY <1>5, <2>3 DEF Batch!StrikesInv
<1>10. Batch!PromisesKept'
  <2> SUFFICES ASSUME kind' = "cards", NEW m \in Batch!Messages, rows'[m] = "good"
               PROVE  m \in projected' \cup cut' \/ (pc' = "project" /\ m = Batch!cur')
    BY DEF Batch!PromisesKept
  <2>1. CASE m = c
    <3>1. got = "text"
      <4> HIDE DEF c
      <4> QED
        BY <1>1, <1>4, <2>1 DEF BatchInv, MailTypes
    <3>2. Batch!NeedsLedger
      BY <1>1, <3>1 DEF Batch!NeedsLedger
    <3> QED
      BY <1>3, <2>1, <3>2 DEF Batch!cur
  <2>2. CASE m # c
    <3>1. rows[m] = "good"
      <4> HIDE DEF c
      <4> QED
        BY <1>1, <1>4, <2>2 DEF BatchInv, MailTypes
    <3>2. m \in projected \cup cut
      BY <1>1, <3>1 DEF BatchInv, Batch!PromisesKept
    <3> QED
      BY <1>1, <2>2, <3>2
  <2> QED
    BY <2>1, <2>2
<1> QED
  BY <1>5, <1>6, <1>7, <1>8, <1>9, <1>10 DEF BatchInv

LEMMA SamePromises ==
  ASSUME Batch!PromisesKept, kind' = kind, pc # "project",
         \A m \in projected : m \in projected', \A m \in cut : m \in cut',
         \A m \in Batch!Messages : rows'[m] = "good" => rows[m] = "good"
  PROVE  Batch!PromisesKept'
  BY DEF Batch!PromisesKept

LEMMA NotStriking ==
  ASSUME CountTypes', pc' # "strike", \A m \in Batch!Messages : strikes'[m] <= streak'[m]
  PROVE  Batch!StrikesInv'
<1>1. \A m \in Batch!Messages : strikes'[m] \in Int
  BY DEF CountTypes
<1> QED
  BY <1>1 DEF Batch!StrikesInv

\* Strikes never exceed the failures, nor does one more while one is due.
LEMMA Strikes ==
  ASSUME BatchInv, NEW m \in Batch!Messages
  PROVE  /\ strikes[m] \in Nat /\ streak[m] \in Nat /\ strikes[m] <= streak[m]
         /\ pc = "strike" /\ m = Batch!cur => strikes[m] + 1 <= streak[m]
<1>1. strikes[m] \in Nat /\ streak[m] \in Nat
  BY DEF BatchInv, CountTypes
<1>2. strikes[m] + (IF pc = "strike" /\ m = Batch!cur THEN 1 ELSE 0) <= streak[m]
  BY DEF BatchInv, Batch!StrikesInv
<1> QED
  BY <1>1, <1>2

LEMMA BatchProject ==
  ASSUME BatchLimits, BatchInv,
         \/ Batch!Project
         \/ Batch!ProjectFails
  PROVE  BatchInv'
<1>1. /\ pc = "project" /\ Batch!Leave
      /\ UNCHANGED <<kind, place, age, signed, rows, strikes, got, streak, verdict>>
  BY DEF Batch!Project, Batch!ProjectFails, Batch!world
<1>2. batch # <<>> /\ Batch!cur \in Batch!Messages /\ got' = ""
  BY <1>1, CurIs DEF BatchInv, FlowTypes
<1>3. \/ projected' = projected /\ cut' = cut \cup {Batch!cur}
      \/ projected' = projected \cup {Batch!cur} /\ cut' = cut
  BY DEF Batch!Project, Batch!ProjectFails
<1>4. Batch!Event \/ UNCHANGED events
  BY DEF Batch!Project, Batch!ProjectFails
<1>5. events' \in 0 .. BatchEvents
  BY <1>4, BatchEvent DEF BatchInv, CountTypes
<1>6. FlowTypes' /\ pc' = "loop"
  BY <1>1, <1>2, BatchLeaves DEF BatchInv
<1>7. MailTypes' /\ CountTypes'
  BY <1>1, <1>5 DEF BatchInv, MailTypes, CountTypes
<1>8. TellTypes'
  BY <1>1, <1>2, <1>3 DEF BatchInv, TellTypes
<1>9. Batch!StrikesInv'
  <2>1. \A m \in Batch!Messages : strikes'[m] <= streak'[m]
    BY <1>1, Strikes
  <2> QED
    BY <1>6, <1>7, <2>1, NotStriking
<1>10. Batch!PromisesKept'
  BY <1>1, <1>3 DEF BatchInv, Batch!PromisesKept
<1> QED
  BY <1>6, <1>7, <1>8, <1>9, <1>10 DEF BatchInv

LEMMA BatchStrike ==
  ASSUME BatchLimits, BatchInv, Batch!Strike PROVE BatchInv'
<1> DEFINE c == Batch!cur
<1>1. /\ pc = "strike" /\ ~Batch!LastStrike /\ Batch!Leave /\ strikes' = [strikes EXCEPT ![c] = @ + 1]
      /\ UNCHANGED <<kind, place, age, signed, rows, got, events, streak, verdict, projected, cut>>
  BY DEF Batch!Strike, Batch!world, Batch!hist
<1>2. batch # <<>> /\ c \in Batch!Messages /\ got' = ""
  BY <1>1, CurIs DEF BatchInv, FlowTypes
<1>3. FlowTypes' /\ pc' = "loop"
  BY <1>1, <1>2, BatchLeaves DEF BatchInv
<1>4. MailTypes' /\ TellTypes'
  BY <1>1 DEF BatchInv, MailTypes, TellTypes
<1>5. strikes[c] \in Nat /\ ~(strikes[c] + 1 >= FailureLimit) /\ strikes[c] + 1 <= streak[c]
  BY <1>1, <1>2, Strikes DEF Batch!LastStrike
<1> HIDE DEF c
<1>6. CountTypes'
  <2>1. strikes[c] + 1 \in 0 .. FailureLimit - 1
    BY <1>5 DEF BatchLimits
  <2> QED
    BY <1>1, <1>2, <2>1 DEF BatchInv, CountTypes
<1>7. ASSUME NEW m \in Batch!Messages PROVE strikes'[m] <= streak'[m]
  <2>1. CASE m = c
    BY <1>1, <1>2, <1>5, <2>1 DEF BatchInv, CountTypes
  <2>2. CASE m # c
    <3>1. strikes'[m] = strikes[m] /\ streak'[m] = streak[m]
      BY <1>1, <2>2 DEF BatchInv, CountTypes
    <3> QED
      BY <3>1, Strikes
  <2> QED
    BY <2>1, <2>2
<1>8. Batch!StrikesInv'
  BY <1>3, <1>6, <1>7, NotStriking
<1>9. Batch!PromisesKept'
  BY <1>1 DEF BatchInv, Batch!PromisesKept
<1> QED
  BY <1>3, <1>4, <1>6, <1>8, <1>9 DEF BatchInv

LEMMA BatchTombstone ==
  ASSUME BatchLimits, BatchInv, Batch!Tombstone PROVE BatchInv'
<1> DEFINE c == Batch!cur
<1>1. /\ pc = "strike" /\ Batch!Leave /\ strikes' = [strikes EXCEPT ![c] = 0]
      /\ rows' = [rows EXCEPT ![c] = IF place[c] = "gone" THEN "none" ELSE "dead"]
      /\ verdict' = [verdict EXCEPT ![c] = IF rows'[c] = "dead" THEN "failing" ELSE ""]
      /\ UNCHANGED <<kind, place, age, signed, got, events, streak, projected, cut>>
  BY DEF Batch!Tombstone, Batch!world, Batch!GivesUp
<1>2. batch # <<>> /\ c \in Batch!Messages /\ got' = ""
  BY <1>1, CurIs DEF BatchInv, FlowTypes
<1>3. FlowTypes' /\ pc' = "loop"
  BY <1>1, <1>2, BatchLeaves DEF BatchInv
<1> HIDE DEF c
<1>4. MailTypes'
  BY <1>1, <1>2 DEF BatchInv, MailTypes
<1>5. TellTypes'
  BY <1>1, <1>2 DEF BatchInv, TellTypes
<1>6. CountTypes'
  <2>1. 0 \in 0 .. FailureLimit - 1
    BY DEF BatchLimits
  <2> QED
    BY <1>1, <1>2, <2>1 DEF BatchInv, CountTypes
<1>7. ASSUME NEW m \in Batch!Messages PROVE strikes'[m] <= streak'[m]
  <2>1. strikes'[m] = strikes[m] \/ strikes'[m] = 0
    BY <1>1, <1>2 DEF BatchInv, CountTypes
  <2>2. streak'[m] = streak[m]
    BY <1>1
  <2> QED
    BY <2>1, <2>2, Strikes
<1>8. Batch!StrikesInv'
  BY <1>3, <1>6, <1>7, NotStriking
<1>9. \A m \in Batch!Messages : rows'[m] = "good" => rows[m] = "good"
  BY <1>1, <1>2 DEF BatchInv, MailTypes
<1>10. Batch!PromisesKept'
  BY <1>1, <1>9, SamePromises DEF BatchInv
<1> QED
  BY <1>3, <1>4, <1>5, <1>6, <1>8, <1>10 DEF BatchInv

LEMMA BatchTombstoneFails ==
  ASSUME BatchLimits, BatchInv, Batch!TombstoneFails PROVE BatchInv'
<1>1. /\ pc = "strike" /\ pc' = "idle" /\ batch' = <<>> /\ (Batch!Event \/ UNCHANGED events)
      /\ UNCHANGED <<kind, place, age, signed, rows, strikes, got, streak, verdict, projected, cut>>
  BY DEF Batch!TombstoneFails, Batch!world, Batch!hist
<1>2. events' \in 0 .. BatchEvents
  BY <1>1, BatchEvent DEF BatchInv, CountTypes
<1>3. MailTypes' /\ TellTypes'
  BY <1>1 DEF BatchInv, MailTypes, TellTypes
<1>4. CountTypes'
  BY <1>1, <1>2 DEF BatchInv, CountTypes
<1>5. FlowTypes'
  BY <1>1, EmptyBatch DEF BatchInv, FlowTypes
<1>6. \A m \in Batch!Messages : strikes'[m] <= streak'[m]
  BY <1>1, Strikes
<1>7. Batch!StrikesInv'
  BY <1>1, <1>4, <1>6, NotStriking
<1>8. Batch!PromisesKept'
  BY <1>1, SamePromises DEF BatchInv
<1> QED
  BY <1>3, <1>4, <1>5, <1>7, <1>8 DEF BatchInv

LEMMA BatchEnd ==
  ASSUME BatchLimits, BatchInv, Batch!EndTick PROVE BatchInv'
<1>1. /\ pc = "loop" /\ pc' = "idle"
      /\ UNCHANGED <<kind, place, age, signed, strikes, batch, got, events, streak, projected, cut>>
  BY DEF Batch!EndTick, Batch!world
<1>2. \/ rows' = rows /\ verdict' = verdict
      \/ /\ rows' = [m \in Batch!Messages |-> IF m \in Batch!Purged THEN "none" ELSE rows[m]]
         /\ verdict' = [m \in Batch!Messages |-> IF m \in Batch!Purged THEN "" ELSE verdict[m]]
  BY DEF Batch!EndTick
<1>3. MailTypes' /\ TellTypes'
  BY <1>1, <1>2 DEF BatchInv, MailTypes, TellTypes
<1>4. CountTypes' /\ FlowTypes'
  BY <1>1 DEF BatchInv, CountTypes, FlowTypes
<1>5. \A m \in Batch!Messages : strikes'[m] <= streak'[m]
  BY <1>1, Strikes
<1>6. Batch!StrikesInv'
  BY <1>1, <1>4, <1>5, NotStriking
<1>7. \A m \in Batch!Messages : rows'[m] = "good" => rows[m] = "good"
  BY <1>2
<1>8. Batch!PromisesKept'
  BY <1>1, <1>7, SamePromises DEF BatchInv
<1> QED
  BY <1>3, <1>4, <1>6, <1>8 DEF BatchInv

LEMMA BatchRestart ==
  ASSUME BatchLimits, BatchInv, NEW s \in BOOLEAN, Batch!Restart(s) PROVE BatchInv'
<1>1. /\ Batch!Event /\ pc' = "idle" /\ batch' = <<>> /\ got' = ""
      /\ strikes' = [m \in Batch!Messages |-> 0] /\ streak' = [m \in Batch!Messages |-> 0]
      /\ cut' = IF pc = "project" THEN cut \cup {Batch!cur} ELSE cut
      /\ UNCHANGED <<kind, place, age, signed, projected>>
  BY DEF Batch!Restart, Batch!world
<1>2. \/ rows' = rows /\ verdict' = verdict
      \/ /\ rows' = [m \in Batch!Messages |-> IF rows[m] = "none" THEN "none" ELSE "old"]
         /\ verdict' = [m \in Batch!Messages |-> ""]
  BY DEF Batch!Restart
<1>3. events' \in 0 .. BatchEvents
  BY <1>1, BatchEvent DEF BatchInv
<1>4. pc = "project" => Batch!cur \in Batch!Messages
  BY CurIs DEF BatchInv, FlowTypes
<1>5. MailTypes'
  BY <1>1, <1>2 DEF BatchInv, MailTypes
<1>6. TellTypes'
  BY <1>1, <1>2, <1>4 DEF BatchInv, TellTypes
<1>7. CountTypes'
  <2>1. 0 \in 0 .. FailureLimit - 1
    BY DEF BatchLimits
  <2> QED
    BY <1>1, <1>3, <2>1 DEF CountTypes
<1>8. FlowTypes'
  BY <1>1, EmptyBatch DEF BatchInv, FlowTypes
<1>9. \A m \in Batch!Messages : strikes'[m] <= streak'[m]
  <2>1. \A m \in Batch!Messages : strikes'[m] = 0 /\ streak'[m] = 0
    BY <1>1
  <2> QED
    BY <2>1
<1>10. Batch!StrikesInv'
  BY <1>1, <1>7, <1>9, NotStriking
<1>11. \A m \in Batch!Messages : rows'[m] = "good" => rows[m] = "good"
  BY <1>2
<1>12. Batch!PromisesKept'
  BY <1>1, <1>11 DEF BatchInv, Batch!PromisesKept
<1> QED
  BY <1>5, <1>6, <1>7, <1>8, <1>10, <1>12 DEF BatchInv

\* What happens in the mailbox leaves the worker where it is.
LEMMA BatchMove ==
  ASSUME BatchLimits, BatchInv, NEW m \in Batch!Messages, NEW to \in {"gone", "inbox", "filed"},
         Batch!Move(m, to)
  PROVE  BatchInv'
<1>1. /\ Batch!Event /\ place' = [place EXCEPT ![m] = to]
      /\ UNCHANGED <<kind, age, signed, strikes, batch, pc, got, streak>>
  BY DEF Batch!Move, Batch!worker
<1>2. \/ UNCHANGED <<rows, verdict, projected, cut>>
      \/ /\ rows' = [rows EXCEPT ![m] = "none"] /\ verdict' = [verdict EXCEPT ![m] = ""]
         /\ projected' = projected \ {m} /\ cut' = cut \ {m}
  BY DEF Batch!Move
<1>3. events' \in 0 .. BatchEvents
  BY <1>1, BatchEvent DEF BatchInv
<1>4. MailTypes'
  BY <1>1, <1>2 DEF BatchInv, MailTypes
<1>5. TellTypes'
  BY <1>2 DEF BatchInv, TellTypes
<1>6. CountTypes' /\ FlowTypes'
  BY <1>1, <1>3 DEF BatchInv, CountTypes, FlowTypes
<1>7. Batch!StrikesInv'
  BY <1>1 DEF BatchInv, Batch!StrikesInv, Batch!cur
<1>8. Batch!PromisesKept'
  <2> SUFFICES ASSUME kind' = "cards", NEW n \in Batch!Messages, rows'[n] = "good"
               PROVE  n \in projected' \cup cut' \/ (pc' = "project" /\ n = Batch!cur')
    BY DEF Batch!PromisesKept
  <2>1. rows[n] = "good" /\ (n \in projected \cup cut => n \in projected' \cup cut')
    BY <1>2 DEF BatchInv, MailTypes
  <2> QED
    BY <1>1, <2>1 DEF BatchInv, Batch!PromisesKept, Batch!cur
<1> QED
  BY <1>4, <1>5, <1>6, <1>7, <1>8 DEF BatchInv

LEMMA BatchWorld ==
  ASSUME BatchLimits, BatchInv,
         \/ \E m \in Batch!Messages : Batch!GrowsOld(m)
         \/ \E u \in Users : Batch!SignInOrOut(u)
         \/ UNCHANGED Batch!vars
  PROVE  BatchInv'
<1>1. UNCHANGED <<kind, place, rows, strikes, batch, pc, got, streak, verdict, projected, cut>>
  BY DEF Batch!GrowsOld, Batch!SignInOrOut, Batch!vars, Batch!world, Batch!worker, Batch!hist
<1>2. Batch!Event \/ UNCHANGED events
  BY DEF Batch!GrowsOld, Batch!SignInOrOut, Batch!vars
<1>3. events' \in 0 .. BatchEvents
  BY <1>2, BatchEvent DEF BatchInv, CountTypes
<1>4. age' \in [Batch!Messages -> 0 .. 2]
  <2>1. CASE UNCHANGED age
    BY <2>1 DEF BatchInv, MailTypes
  <2>2. CASE \E m \in Batch!Messages : Batch!GrowsOld(m)
    <3>1. PICK m \in Batch!Messages : age[m] < 2 /\ age' = [age EXCEPT ![m] = @ + 1]
      BY <2>2 DEF Batch!GrowsOld
    <3>2. age[m] + 1 \in 0 .. 2
      BY <3>1 DEF BatchInv, MailTypes
    <3> QED
      BY <3>1, <3>2 DEF BatchInv, MailTypes
  <2> QED
    BY <2>1, <2>2 DEF Batch!SignInOrOut, Batch!vars, Batch!world
<1>5. signed' \subseteq Users
  BY DEF BatchInv, MailTypes, Batch!GrowsOld, Batch!SignInOrOut, Batch!vars, Batch!world
<1>6. MailTypes' /\ TellTypes'
  BY <1>1, <1>4, <1>5 DEF BatchInv, MailTypes, TellTypes
<1>7. CountTypes' /\ FlowTypes'
  BY <1>1, <1>3 DEF BatchInv, CountTypes, FlowTypes
<1>8. Batch!StrikesInv' /\ Batch!PromisesKept'
  BY <1>1 DEF BatchInv, Batch!StrikesInv, Batch!PromisesKept, Batch!cur
<1> QED
  BY <1>6, <1>7, <1>8 DEF BatchInv

LEMMA BatchNext == ASSUME BatchLimits, BatchInv, [Batch!Next]_Batch!vars PROVE BatchInv'
<1>1. CASE Batch!Step
  BY <1>1, BatchStart, BatchRead, BatchStore, BatchProject, BatchStrike, BatchTombstone, BatchEnd
     DEF Batch!Step
<1>2. CASE Batch!Failure
  BY <1>2, BatchReadFails, BatchStoreFails, BatchProject, BatchTombstoneFails DEF Batch!Failure
<1>3. CASE Batch!World
  BY <1>3, BatchRestart, BatchMove, BatchWorld DEF Batch!World
<1> QED
  BY <1>1, <1>2, <1>3, BatchWorld DEF Batch!Next

(* For any number of messages and users, and any shares and limits: a card  *)
(* has its commitments in the ledger unless their writing failed or a crash *)
(* came between the two (card-worker.service.ts), and strikes are failures. *)
THEOREM CardsAlwaysPromised == BatchLimits => (Spec => []CardsHavePromises)
<1> SUFFICES ASSUME BatchLimits PROVE Spec => []CardsHavePromises
  OBVIOUS
<1> DEFINE Kept == focus = "batch" => BatchInv
<1>1. Init => Kept
  BY BatchInit, FirstOfFocus
<1>2. Kept /\ [Next]_vars => Kept'
  BY BatchNext, StepOfFocus
<1>3. Kept => CardsHavePromises
  BY BatchInvIs DEF CardsHavePromises
<1> QED
  BY <1>1, <1>2, <1>3, PTL DEF Spec

\* Only the last strike of a row of failures gives a message up.
LEMMA BatchGivesUp ==
  ASSUME BatchLimits, BatchInv, [Batch!Next]_Batch!vars PROVE Batch!GivenUpLate
<1> SUFFICES ASSUME NEW m \in Batch!Messages, verdict'[m] = "failing", verdict[m] # "failing"
             PROVE  streak[m] >= FailureLimit
  BY DEF Batch!GivenUpLate
<1>1. CASE Batch!Tombstone
  <2>1. /\ pc = "strike" /\ Batch!LastStrike
        /\ verdict' = [verdict EXCEPT ![Batch!cur] = IF rows'[Batch!cur] = "dead" THEN "failing" ELSE ""]
    BY <1>1 DEF Batch!Tombstone
  <2>2. m = Batch!cur
    BY <2>1 DEF BatchInv, TellTypes
  <2>3. strikes[m] + 1 <= streak[m] /\ strikes[m] \in Nat /\ streak[m] \in Nat
    BY <2>1, <2>2, Strikes
  <2>4. strikes[m] + 1 >= FailureLimit
    BY <2>1, <2>2 DEF Batch!LastStrike
  <2> QED
    BY <2>3, <2>4 DEF BatchLimits
<1>2. CASE Batch!Store
  <2>1. verdict' = [verdict EXCEPT ![Batch!cur] = IF rows'[Batch!cur] = "dead" THEN "empty" ELSE ""]
    BY <1>2 DEF Batch!Store
  <2> QED
    BY <2>1 DEF BatchInv, TellTypes
<1>3. CASE Batch!EndTick
  BY <1>3 DEF Batch!EndTick
<1>4. CASE \E s \in BOOLEAN : Batch!Restart(s)
  BY <1>4 DEF Batch!Restart
<1>5. CASE \E n \in Batch!Messages, to \in {"gone", "inbox", "filed"} : Batch!Move(n, to)
  BY <1>5 DEF Batch!Move, BatchInv, TellTypes
<1>6. CASE UNCHANGED verdict
  BY <1>6
<1> QED
  BY <1>1, <1>2, <1>3, <1>4, <1>5, <1>6
     DEF Batch!Next, Batch!Step, Batch!Failure, Batch!World, Batch!StartTick, Batch!Read, Batch!Project,
         Batch!Strike, Batch!ReadFails, Batch!StoreFails, Batch!ProjectFails, Batch!TombstoneFails,
         Batch!GrowsOld, Batch!SignInOrOut, Batch!vars, Batch!hist

\* A batch is picked by StartTick only.
LEMMA BatchShares ==
  ASSUME BatchLimits, BatchInv, [Batch!Next]_Batch!vars PROVE Batch!FairShares
<1> SUFFICES ASSUME pc = "idle", pc' = "loop" PROVE Batch!Fair(Batch!Candidates, batch')
  BY DEF Batch!FairShares
<1>1. Batch!StartTick
  BY DEF Batch!Next, Batch!Step, Batch!Failure, Batch!World, Batch!Read, Batch!Store, Batch!Project,
         Batch!Strike, Batch!Tombstone, Batch!EndTick, Batch!ReadFails, Batch!StoreFails,
         Batch!ProjectFails, Batch!TombstoneFails, Batch!Restart, Batch!Move, Batch!worker,
         Batch!GrowsOld, Batch!SignInOrOut, Batch!vars
<1>2. batch' = Batch!PickFair[kind][Batch!Candidates]
  BY <1>1 DEF Batch!StartTick
<1>3. kind \in Batch!Kinds /\ Batch!Candidates \in SUBSET Batch!Messages
  BY DEF BatchInv, MailTypes, Batch!Candidates
<1>4. Batch!Fair(Batch!Candidates, Batch!PickFair[kind][Batch!Candidates])
  BY <1>3, BatchIsFair
<1> QED
  BY <1>2, <1>4

\* A row goes with its message, its model or its age.
LEMMA BatchReadsOnce ==
  ASSUME BatchLimits, BatchInv, [Batch!Next]_Batch!vars PROVE Batch!ReadOnce
<1> SUFFICES ASSUME NEW m \in Batch!Messages, rows[m] \in {"good", "dead"}, rows'[m] # "old",
                    place'[m] # "gone", Batch!Eligible(m)'
             PROVE  FALSE
  BY DEF Batch!ReadOnce
<1>1. rows'[m] = "none" /\ age'[m] = 0
  BY DEF Batch!Eligible
<1>2. CASE Batch!Store
  <2>1. /\ place' = place
        /\ rows' = [rows EXCEPT ![Batch!cur] = IF place[Batch!cur] = "gone" THEN "none"
                                              ELSE IF got = "text" THEN "good" ELSE "dead"]
    BY <1>2 DEF Batch!Store, Batch!world
  <2> QED
    BY <1>1, <2>1 DEF BatchInv, MailTypes
<1>3. CASE Batch!Tombstone
  <2>1. /\ place' = place
        /\ rows' = [rows EXCEPT ![Batch!cur] = IF place[Batch!cur] = "gone" THEN "none" ELSE "dead"]
    BY <1>3 DEF Batch!Tombstone, Batch!world, Batch!GivesUp
  <2> QED
    BY <1>1, <2>1 DEF BatchInv, MailTypes
<1>4. CASE Batch!StoreFails
  BY <1>1, <1>4 DEF Batch!StoreFails, BatchInv, MailTypes
<1>5. CASE Batch!EndTick
  <2>1. age' = age
    BY <1>5 DEF Batch!EndTick, Batch!world
  <2>2. m \notin Batch!Purged
    BY <1>1, <2>1 DEF Batch!Purged
  <2> QED
    BY <1>1, <1>5, <2>2 DEF Batch!EndTick
<1>6. CASE \E s \in BOOLEAN : Batch!Restart(s)
  BY <1>1, <1>6 DEF Batch!Restart
<1>7. CASE \E n \in Batch!Messages, to \in {"gone", "inbox", "filed"} : Batch!Move(n, to)
  BY <1>1, <1>7 DEF Batch!Move, BatchInv, MailTypes
<1>8. CASE UNCHANGED rows
  BY <1>1, <1>8
<1> QED
  BY <1>2, <1>3, <1>4, <1>5, <1>6, <1>7, <1>8
     DEF Batch!Next, Batch!Step, Batch!Failure, Batch!World, Batch!StartTick, Batch!Read, Batch!Project,
         Batch!Strike, Batch!ReadFails, Batch!ProjectFails, Batch!TombstoneFails,
         Batch!GrowsOld, Batch!SignInOrOut, Batch!vars

(* For any number of messages and users, and any shares and limits: a       *)
(* message is given up only after FailureLimit failures in a row, whoever   *)
(* has candidates left in the queue has no two messages less in the batch   *)
(* than anybody else (pickFairBatch), and what was read is not read again.  *)
THEOREM BatchesAlwaysFair == BatchLimits => (Spec => BatchesFair)
<1> SUFFICES ASSUME BatchLimits PROVE Spec => BatchesFair
  OBVIOUS
<1> DEFINE Kept == focus = "batch" => BatchInv
<1>1. Init => Kept
  BY BatchInit, FirstOfFocus
<1>2. Kept /\ [Next]_vars => Kept'
  BY BatchNext, StepOfFocus
<1>3. Kept /\ [Next]_vars => (focus = "batch" => Batch!FairStep)
  BY StepOfFocus, BatchGivesUp, BatchShares, BatchReadsOnce DEF Batch!FairStep
<1> QED
  BY <1>1, <1>2, <1>3, PTL DEF Spec, BatchesFair

-----------------------------------------------------------------------------
(* The reader of the mail page (MessageReader).                            *)

ReaderLimits ==
    /\ IsFiniteSet(Mails) /\ Reader!Nothing \notin Mails /\ Drafts \subseteq Mails
    /\ Folders \subseteq SUBSET Mails /\ ReaderOpens \in Nat /\ ReaderEvents \in Nat

PageTypes ==
    /\ selected \in Mails \cup {Reader!Nothing} /\ shown \in Mails \cup {Reader!Nothing}
    /\ final \in BOOLEAN /\ loading \in BOOLEAN /\ nav \in Mails \cup {Reader!Nothing}
    /\ cache \subseteq Mails \ embedding /\ watched \subseteq Mails
    /\ embedding \subseteq Mails
    /\ overtaken \in BOOLEAN /\ failed \in BOOLEAN /\ miscounted \in BOOLEAN
    /\ unmarked \subseteq Mails /\ unsaid \subseteq Mails /\ astray \subseteq Mails

FetchTypes ==
    /\ openAbort \in 0 .. opens /\ fetches \subseteq Reader!Fetch /\ opens \in 0 .. ReaderOpens
    /\ events \in 0 .. ReaderEvents

FlagTypes ==
    /\ folder \subseteq Mails /\ listRead \subseteq folder /\ unread \in Nat
    /\ found \subseteq Mails /\ foundRead \subseteq found
    /\ serverRead \subseteq Mails /\ marks \subseteq Mails

\* What holds of one message, of two fetches, and of the page.
AheadOf(m) == \E f \in fetches : f.msg = m /\ f.wasUnread
FlagOf(m) ==
    /\ m \in folder \ unsaid => (m \in listRead <=> m \in serverRead \cup marks \/ AheadOf(m))
    /\ m \in found \ (unsaid \cup astray)
           => (m \in foundRead <=> m \in serverRead \cup marks \/ AheadOf(m))
FetchOf(f) ==
    /\ f.wasUnread => f.msg \notin Drafts /\ (f.msg \in folder \/ miscounted)
    /\ f.wasUnread /\ f.msg \in folder \ unsaid => f.msg \notin serverRead \cup marks
    /\ f.n <= opens /\ (~f.aborted => f.n = openAbort /\ (overtaken \/ selected = f.msg))
Apart(f, g) ==
    /\ f.n = g.n => f = g
    /\ f.wasUnread /\ g.wasUnread /\ f.msg = g.msg /\ f.msg \in folder \ unsaid => f = g
ReadOf(m) ==
    m \notin unmarked \cup unsaid =>
        (m = shown \/ (\E f \in fetches : f.msg = m /\ ~f.wasUnread)
            => m \in serverRead \cup marks)
Followed ==
    \/ overtaken \/ nav # Reader!Nothing \/ shown = selected
    \/ failed /\ selected = Reader!Nothing
    \/ \E f \in fetches : ~f.aborted
Counted == unsaid = {} /\ ~miscounted => unread = Cardinality(folder \ listRead)

FetchInv == \A f \in fetches : FetchOf(f) /\ \A g \in fetches : Apart(f, g)
DraftInv ==
    /\ Drafts \subseteq serverRead /\ Drafts \cap folder \subseteq listRead
    /\ Drafts \cap found \subseteq foundRead
MarkInv  == DraftInv /\ \A m \in Mails : FlagOf(m)
ReaderInv ==
    /\ PageTypes /\ FetchTypes /\ FlagTypes /\ FetchInv /\ MarkInv /\ \A m \in Mails : ReadOf(m)
    /\ Followed /\ Counted /\ Reader!SpinnerEnds

LEMMA AsManyMessages == ASSUME NEW S PROVE Reader!Cardinality(S) = Cardinality(S)
  BY DEF Reader!Cardinality, Cardinality

LEMMA ReaderTypes == PageTypes /\ FetchTypes /\ FlagTypes => Reader!TypeOK
  BY DEF PageTypes, FetchTypes, FlagTypes, Reader!TypeOK

LEMMA ReaderInvHolds == ASSUME ReaderLimits, ReaderInv PROVE Reader!ReaderHolds
<1>1. Reader!TypeOK
  BY ReaderTypes DEF ReaderInv
<1>2. \A f \in fetches : f.msg \in Mails /\ f.wasUnread \in BOOLEAN /\ f.aborted \in BOOLEAN
  BY DEF ReaderInv, FetchTypes, Reader!Fetch
<1>3. folder \subseteq Mails /\ found \subseteq Mails
  BY DEF ReaderInv, FlagTypes
<1>4. Reader!FlagsInv
  <2>1. DraftInv /\ \A m \in Mails : FlagOf(m)
    BY DEF ReaderInv, MarkInv
  <2>2. /\ \A m \in folder \ unsaid : m \in listRead <=> Reader!Ahead(m)
        /\ \A m \in found \ (unsaid \cup astray) : m \in foundRead <=> Reader!Ahead(m)
    BY <1>3, <2>1 DEF FlagOf, AheadOf, Reader!Ahead
  <2>3. \A f \in fetches : FetchOf(f) /\ \A g \in fetches : Apart(f, g)
    BY DEF ReaderInv, FetchInv
  <2>4. \A f \in fetches : f.wasUnread =>
          /\ f.msg \notin Drafts /\ (f.msg \in folder \/ miscounted)
          /\ f.msg \in folder \ unsaid =>
                /\ f.msg \notin serverRead \cup marks
                /\ \A g \in fetches : g.msg = f.msg /\ g.wasUnread => g = f
    BY <1>2, <2>3 DEF FetchOf, Apart
  <2> QED
    BY <2>1, <2>2, <2>4 DEF DraftInv, Reader!FlagsInv
<1>5. Reader!ReadInv
  BY DEF ReaderInv, ReadOf, Reader!ReadInv
<1>6. Reader!NewestInv
  BY DEF ReaderInv, FetchInv, FetchOf, Apart, Followed, Reader!NewestInv
<1>7. Reader!ShownIsSelected
  BY DEF ReaderInv, Followed, Reader!ShownIsSelected
<1>8. Reader!FlagsAgree
  <2>1. ASSUME Reader!Quiet
        PROVE  /\ \A m \in folder \ unsaid : m \in listRead <=> m \in serverRead
               /\ \A m \in found \ (unsaid \cup astray) : m \in foundRead <=> m \in serverRead
    BY <1>3, <2>1 DEF ReaderInv, MarkInv, FlagOf, AheadOf, Reader!Quiet
  <2> QED
    BY <2>1, AsManyMessages DEF ReaderInv, Counted, Reader!FlagsAgree
<1>9. Reader!ShownIsRead
  BY DEF ReaderInv, PageTypes, ReadOf, Reader!ShownIsRead, Reader!Quiet
<1>10. Reader!SpinnerEnds
  BY DEF ReaderInv
<1> QED
  BY <1>1, <1>4, <1>5, <1>6, <1>7, <1>8, <1>9, <1>10 DEF Reader!ReaderHolds

LEMMA ReaderInit == ASSUME ReaderLimits, Reader!Init PROVE ReaderInv
<1>1. /\ selected = Reader!Nothing /\ shown = Reader!Nothing /\ final = FALSE /\ loading = FALSE
      /\ openAbort = 0 /\ fetches = {} /\ opens = 0 /\ cache = {} /\ watched = {} /\ nav = Reader!Nothing
      /\ folder \in Folders /\ found = {} /\ listRead = Drafts \cap folder /\ foundRead = {}
      /\ serverRead = Drafts /\ marks = {}
      /\ embedding \in SUBSET (Mails \ Drafts) /\ events = 0
      /\ overtaken = FALSE /\ failed = FALSE /\ unmarked = {} /\ unsaid = {} /\ astray = {}
      /\ miscounted = FALSE
  BY DEF Reader!Init
<1>2. unread = Cardinality(folder \ Drafts) /\ folder \ Drafts = folder \ listRead
  BY <1>1, AsManyMessages DEF Reader!Init
<1>3. unread \in Nat
  <2>1. IsFiniteSet(folder \ Drafts)
    BY <1>1, FS_Subset DEF ReaderLimits
  <2> QED
    BY <1>2, <2>1, FS_CardinalityType
<1>4. PageTypes
  BY <1>1 DEF PageTypes
<1>5. FetchTypes /\ FlagTypes
  BY <1>1, <1>3 DEF FetchTypes, FlagTypes, ReaderLimits
<1>6. MarkInv
  BY <1>1 DEF MarkInv, DraftInv, FlagOf, AheadOf
<1>7. FetchInv /\ Followed /\ Counted /\ Reader!SpinnerEnds
  BY <1>1, <1>2 DEF FetchInv, Followed, Counted, Reader!SpinnerEnds
<1>8. \A m \in Mails : ReadOf(m)
  BY <1>1 DEF ReadOf, ReaderLimits
<1> QED
  BY <1>4, <1>5, <1>6, <1>7, <1>8 DEF ReaderInv

LEMMA FetchesAre ==
  ASSUME ReaderInv, NEW f \in fetches
  PROVE  /\ f \in Reader!Fetch /\ f.n \in Nat /\ f.n >= 1 /\ f.n <= ReaderOpens /\ f.msg \in Mails
         /\ f.wasUnread \in BOOLEAN /\ f.aborted \in BOOLEAN
BY DEF ReaderInv, FetchTypes, Reader!Fetch

LEMMA PageIs ==
  ASSUME ReaderLimits, ReaderInv
  PROVE  /\ opens \in Nat /\ opens <= ReaderOpens /\ openAbort \in Nat /\ openAbort <= opens
         /\ ReaderOpens \in Nat /\ events \in 0 .. ReaderEvents
BY DEF ReaderLimits, ReaderInv, FetchTypes

LEMMA OnlyNewest ==
  ASSUME ReaderInv, NEW f \in fetches, NEW g \in fetches, ~f.aborted, ~g.aborted
  PROVE  f = g
BY DEF ReaderInv, FetchInv, FetchOf, Apart

LEMMA ReaderEvent ==
  ASSUME ReaderLimits, ReaderInv, Reader!Event PROVE events' \in 0 .. ReaderEvents
<1>1. events \in 0 .. ReaderEvents /\ ReaderEvents \in Nat
  BY DEF ReaderLimits, ReaderInv, FetchTypes
<1> QED
  BY <1>1 DEF Reader!Event

LEMMA FolderFinite ==
  ASSUME ReaderLimits, ReaderInv
  PROVE  /\ IsFiniteSet(folder) /\ folder \subseteq Mails /\ listRead \subseteq folder
         /\ Cardinality(folder \ listRead) \in Nat
<1>1. folder \subseteq Mails /\ listRead \subseteq folder
  BY DEF ReaderInv, FlagTypes
<1>2. IsFiniteSet(folder) /\ IsFiniteSet(folder \ listRead)
  BY <1>1, FS_Subset DEF ReaderLimits
<1> QED
  BY <1>1, <1>2, FS_CardinalityType

\* One message more or less that is unread.
LEMMA OneRead ==
  ASSUME NEW F, IsFiniteSet(F), NEW S \in SUBSET F, NEW m \in F
  PROVE  /\ m \notin S => /\ Cardinality(F \ S) > 0
                          /\ Cardinality(F \ (S \cup {m})) = Cardinality(F \ S) - 1
         /\ m \in S => Cardinality(F \ (S \ {m})) = Cardinality(F \ S) + 1
<1>1. IsFiniteSet(F \ S)
  BY FS_Subset
<1>2. Cardinality(F \ S) \in Nat
  BY <1>1, FS_CardinalityType
<1>3. ASSUME m \notin S
      PROVE  /\ Cardinality(F \ S) > 0
             /\ Cardinality(F \ (S \cup {m})) = Cardinality(F \ S) - 1
  <2>1. F \ (S \cup {m}) = (F \ S) \ {m} /\ m \in F \ S
    BY <1>3
  <2>2. Cardinality((F \ S) \ {m}) = Cardinality(F \ S) - 1
    BY <1>1, <2>1, FS_RemoveElement
  <2>3. Cardinality(F \ S) # 0
    BY <1>1, <2>1, FS_EmptySet
  <2> QED
    BY <1>2, <2>1, <2>2, <2>3
<1>4. ASSUME m \in S PROVE Cardinality(F \ (S \ {m})) = Cardinality(F \ S) + 1
  <2>1. F \ (S \ {m}) = (F \ S) \cup {m} /\ m \notin F \ S
    BY <1>4
  <2> QED
    BY <1>1, <2>1, FS_AddElement
<1> QED
  BY <1>3, <1>4

\* What an open does to the flags, from wherever the body comes.
LEMMA OpenFlags ==
  ASSUME ReaderLimits, ReaderInv, NEW m \in Mails, Reader!Opens(m)
  PROVE  /\ folder' = folder /\ found' = found /\ unsaid' = unsaid /\ astray' = astray
         /\ failed' = FALSE
         /\ miscounted' \in BOOLEAN /\ (miscounted => miscounted')
         /\ Reader!WasUnread(m) => (m \in folder \/ miscounted') /\ m \notin Drafts
         /\ listRead \subseteq listRead' /\ listRead' \subseteq folder
         /\ foundRead \subseteq foundRead' /\ foundRead' \subseteq found
         /\ \A k \in Mails \ {m} : /\ k \in listRead' <=> k \in listRead
                                   /\ k \in foundRead' <=> k \in foundRead
         /\ Reader!WasUnread(m) => /\ m \in folder => m \in listRead' /\ m \notin listRead
                                   /\ m \in found => m \in foundRead'
         /\ ~Reader!WasUnread(m) => /\ listRead' = listRead /\ foundRead' = foundRead
                                    /\ m \in folder => m \in listRead
                                    /\ m \notin folder /\ m \in found => m \in foundRead
<1>1. /\ folder' = folder /\ found' = found /\ unsaid' = unsaid /\ astray' = astray
      /\ failed' = FALSE
  BY DEF Reader!Opens
<1>2. /\ folder \subseteq Mails /\ listRead \subseteq folder /\ found \subseteq Mails
      /\ foundRead \subseteq found /\ miscounted \in BOOLEAN /\ DraftInv
  BY DEF ReaderInv, FlagTypes, PageTypes, MarkInv
<1>3. CASE Reader!WasUnread(m)
  <2>1. /\ listRead' = listRead \cup ({m} \cap folder)
        /\ foundRead' = foundRead \cup ({m} \cap found)
        /\ miscounted' = (miscounted \/ m \notin folder)
    BY <1>3 DEF Reader!Opens, Reader!Optimistic
  <2>2. \/ m \in folder /\ m \notin listRead
        \/ m \notin folder /\ m \in found /\ m \notin foundRead
    BY <1>3 DEF Reader!WasUnread
  <2>3. m \notin Drafts
    BY <1>2, <2>2 DEF DraftInv
  <2> QED
    BY <1>1, <1>2, <1>3, <2>1, <2>2, <2>3
<1>4. CASE ~Reader!WasUnread(m)
  <2>1. listRead' = listRead /\ foundRead' = foundRead /\ miscounted' = miscounted
    BY <1>4 DEF Reader!Opens, Reader!Optimistic, Reader!flags
  <2>2. /\ m \in folder => m \in listRead
        /\ m \notin folder /\ m \in found => m \in foundRead
    BY <1>4 DEF Reader!WasUnread
  <2> QED
    BY <1>1, <1>2, <1>4, <2>1, <2>2
<1> QED
  BY <1>3, <1>4

LEMMA OpenCounts ==
  ASSUME ReaderLimits, ReaderInv, NEW m \in Mails, Reader!Opens(m)
  PROVE  Counted' /\ unread' \in Nat
<1>1. unread \in Nat /\ Counted
  BY DEF ReaderInv, FlagTypes
<1>2. folder' = folder /\ unsaid' = unsaid
  BY DEF Reader!Opens
<1>3. CASE Reader!WasUnread(m)
  <2>1. /\ listRead' = listRead \cup ({m} \cap folder)
        /\ miscounted' = (miscounted \/ m \notin folder)
        /\ unread' = IF unread > 0 THEN unread - 1 ELSE unread
    BY <1>3 DEF Reader!Opens, Reader!Optimistic
  <2>2. unread' \in Nat
    BY <1>1, <2>1
  <2>3. ASSUME unsaid' = {}, ~miscounted' PROVE unread' = Cardinality(folder' \ listRead')
    <3>1. m \in folder /\ m \notin listRead /\ unread = Cardinality(folder \ listRead)
      BY <1>1, <1>2, <1>3, <2>1, <2>3 DEF Reader!WasUnread, Counted
    <3>2. listRead' = listRead \cup {m}
      BY <2>1, <3>1
    <3>3. /\ Cardinality(folder \ listRead) > 0
          /\ Cardinality(folder \ (listRead \cup {m})) = Cardinality(folder \ listRead) - 1
      BY <3>1, FolderFinite, OneRead
    <3> QED
      BY <1>1, <1>2, <2>1, <3>1, <3>2, <3>3
  <2> QED
    BY <2>2, <2>3 DEF Counted
<1>4. CASE ~Reader!WasUnread(m)
  BY <1>1, <1>2, <1>4 DEF Reader!Opens, Reader!Optimistic, Reader!flags, Counted
<1> QED
  BY <1>3, <1>4

\* What was not unread when it was opened had been marked, if anything told so.
LEMMA OpenedRead ==
  ASSUME ReaderLimits, ReaderInv, NEW m \in Mails, ~Reader!WasUnread(m), ~Reader!Untold(m),
         m \notin unsaid
  PROVE  m \in serverRead \cup marks
<1>1. ~AheadOf(m) /\ (m \in folder \/ m \in found \ astray)
  BY DEF Reader!Untold, AheadOf
<1>2. FlagOf(m)
  BY DEF ReaderInv, MarkInv
<1> QED
  BY <1>1, <1>2 DEF FlagOf, Reader!WasUnread

LEMMA OpensCached ==
  ASSUME ReaderLimits, ReaderInv, NEW m \in Mails, Reader!Opens(m), m \in cache,
         nav' \in Mails \cup {Reader!Nothing}
  PROVE  ReaderInv'
<1>1. /\ opens < ReaderOpens /\ opens' = opens + 1 /\ selected' = m /\ shown' = m /\ final' = TRUE
      /\ loading' = FALSE /\ marks' = IF Reader!WasUnread(m) THEN marks \cup {m} ELSE marks
      /\ overtaken' = (overtaken \/ fetches # {}) /\ openAbort' = openAbort /\ fetches' = fetches
      /\ unmarked' = (IF Reader!Untold(m) THEN unmarked \cup {m} ELSE unmarked)
      /\ cache' = cache /\ watched' = watched /\ serverRead' = serverRead
      /\ embedding' = embedding /\ events' = events
  BY DEF Reader!Opens, Reader!Marks
<1>2. PageTypes'
  BY <1>1, OpenFlags DEF ReaderInv, PageTypes
<1>3. FetchTypes'
  BY <1>1, PageIs DEF ReaderInv, FetchTypes, Reader!Fetch
<1>4. FlagTypes'
  BY <1>1, OpenFlags, OpenCounts DEF ReaderInv, FlagTypes
<1>5. FlagOf(m) /\ DraftInv
  BY DEF ReaderInv, MarkInv
<1>6. FetchInv'
  <2>1. ASSUME NEW f \in fetches PROVE FetchOf(f)'
    <3>1. FetchOf(f) /\ f.n \in Nat /\ folder' = folder /\ unsaid' = unsaid
      BY FetchesAre, OpenFlags DEF ReaderInv, FetchInv
    <3>2. f.wasUnread /\ f.msg = m /\ m \in folder \ unsaid => ~Reader!WasUnread(m)
      BY <1>5 DEF FlagOf, AheadOf, Reader!WasUnread
    <3>3. f.wasUnread /\ f.msg \in folder \ unsaid => f.msg \notin serverRead \cup marks'
      BY <1>1, <3>1, <3>2 DEF FetchOf
    <3>4. f.n <= opens'
      BY <1>1, <3>1, PageIs DEF FetchOf
    <3>5. miscounted => miscounted'
      BY OpenFlags
    <3> QED
      BY <1>1, <3>1, <3>3, <3>4, <3>5 DEF FetchOf
  <2>2. \A f, g \in fetches : Apart(f, g)'
    BY <1>1, OpenFlags DEF ReaderInv, FetchInv, Apart
  <2> QED
    BY <1>1, <2>1, <2>2 DEF FetchInv
<1>7. MarkInv'
  <2>1. ASSUME NEW k \in Mails PROVE FlagOf(k)'
    <3>1. FlagOf(k) /\ (AheadOf(k)' <=> AheadOf(k))
      BY <1>1 DEF ReaderInv, MarkInv, AheadOf
    <3>2. CASE k # m
      BY <1>1, <3>1, <3>2, OpenFlags DEF FlagOf
    <3>3. CASE k = m /\ Reader!WasUnread(m)
      BY <1>1, <3>3, OpenFlags DEF FlagOf
    <3>4. CASE k = m /\ ~Reader!WasUnread(m)
      BY <1>1, <3>1, <3>4, OpenFlags DEF FlagOf
    <3> QED
      BY <3>2, <3>3, <3>4
  <2>2. DraftInv'
    BY <1>1, <1>5, OpenFlags DEF DraftInv
  <2> QED
    BY <2>1, <2>2 DEF MarkInv
<1>8. ASSUME NEW k \in Mails PROVE ReadOf(k)'
  <2>1. ReadOf(k) /\ unsaid' = unsaid
    BY OpenFlags DEF ReaderInv
  <2>2. k = m /\ k \notin unmarked' \cup unsaid => k \in serverRead \cup marks'
    BY <1>1, OpenedRead
  <2> QED
    BY <1>1, <2>1, <2>2 DEF ReadOf
<1>9. Followed' /\ Reader!SpinnerEnds'
  BY <1>1 DEF Followed, Reader!SpinnerEnds
<1> QED
  BY <1>2, <1>3, <1>4, <1>6, <1>7, <1>8, <1>9, OpenCounts DEF ReaderInv

\* The fetches that a new one aborts are otherwise as they were.
LEMMA AbortedIs ==
  ASSUME ReaderInv, NEW g \in Reader!Aborted(fetches)
  PROVE  /\ g \in Reader!Fetch
         /\ \E f \in fetches :
                /\ g.n = f.n /\ g.msg = f.msg /\ g.wasUnread = f.wasUnread
                /\ g = [f EXCEPT !.aborted = @ \/ f.n = openAbort]
                /\ g.aborted
<1>1. PICK f \in fetches : g = [f EXCEPT !.aborted = @ \/ f.n = openAbort]
  BY DEF Reader!Aborted
<1>2. f \in Reader!Fetch /\ f.aborted \in BOOLEAN
  BY FetchesAre
<1>3. g.n = f.n /\ g.msg = f.msg /\ g.wasUnread = f.wasUnread /\ g.aborted = (f.aborted \/ f.n = openAbort)
  BY <1>1, <1>2 DEF Reader!Fetch
<1>4. f.aborted \/ f.n = openAbort
  BY DEF ReaderInv, FetchInv, FetchOf
<1>5. g.aborted
  BY <1>3, <1>4
<1>6. g \in Reader!Fetch
  BY <1>1, <1>2 DEF Reader!Fetch
<1> QED
  BY <1>1, <1>3, <1>5, <1>6

LEMMA AbortedKeeps ==
  ASSUME ReaderInv, NEW f \in fetches
  PROVE  \E g \in Reader!Aborted(fetches) : g.msg = f.msg /\ g.wasUnread = f.wasUnread
<1> DEFINE g == [f EXCEPT !.aborted = @ \/ f.n = openAbort]
<1>1. g \in Reader!Aborted(fetches)
  BY DEF Reader!Aborted
<1>2. g.msg = f.msg /\ g.wasUnread = f.wasUnread
  BY FetchesAre DEF Reader!Fetch
<1> QED
  BY <1>1, <1>2

LEMMA OpensFetches ==
  ASSUME ReaderLimits, ReaderInv, NEW m \in Mails, Reader!Opens(m), m \notin cache,
         nav' \in Mails \cup {Reader!Nothing}
  PROVE  ReaderInv'
<1> DEFINE Old(g) == g \in Reader!Aborted(fetches)
           was == Reader!WasUnread(m)
<1>0. was \in BOOLEAN
  <2>1. CASE m \in folder
    BY <2>1 DEF Reader!WasUnread
  <2>2. CASE m \notin folder
    BY <2>2 DEF Reader!WasUnread
  <2> QED
    BY <2>1, <2>2
<1>1. PICK from \in {"server", "offline"} :
         fetches' = Reader!Aborted(fetches) \cup
                        {[n |-> opens', msg |-> m, wasUnread |-> was, aborted |-> FALSE,
                          from |-> from]}
  BY DEF Reader!Opens
<1>2. /\ opens < ReaderOpens /\ opens' = opens + 1 /\ selected' = m /\ shown' = shown /\ final' = final
      /\ loading' = TRUE /\ marks' = marks /\ overtaken' = overtaken /\ openAbort' = opens'
      /\ unmarked' = (IF Reader!Untold(m) THEN unmarked \cup {m} ELSE unmarked)
      /\ cache' = cache /\ watched' = watched /\ serverRead' = serverRead
      /\ embedding' = embedding /\ events' = events
  BY DEF Reader!Opens
<1>3. PICK new \in Reader!Fetch :
         /\ new.n = opens' /\ new.msg = m /\ new.wasUnread = was /\ new.aborted = FALSE
         /\ new \in fetches' /\ \A g \in fetches' : Old(g) \/ g = new
  <2> DEFINE e == [n |-> opens', msg |-> m, wasUnread |-> was, aborted |-> FALSE,
                  from |-> from]
  <2> HIDE DEF was
  <2>1. opens' \in 1 .. ReaderOpens
    BY <1>2, PageIs
  <2>2. e \in Reader!Fetch
    BY <1>0, <2>1 DEF Reader!Fetch
  <2>3. e \in fetches' /\ \A g \in fetches' : Old(g) \/ g = e
    BY <1>1
  <2> QED
    BY <2>2, <2>3
<1>4. \A g \in fetches' : Old(g) \/ g = new
  BY <1>3
<1>5. \A g : Old(g) => g \in fetches'
  BY <1>1
<1>6. PageTypes'
  BY <1>2, OpenFlags DEF ReaderInv, PageTypes
<1>7. FetchTypes'
  <2>1. fetches' \subseteq Reader!Fetch
    BY <1>3, <1>4, AbortedIs
  <2>2. opens' \in 0 .. ReaderOpens /\ openAbort' \in 0 .. opens' /\ events' \in 0 .. ReaderEvents
    BY <1>2, PageIs
  <2> QED
    BY <2>1, <2>2 DEF FetchTypes, Reader!Fetch
<1>8. FlagTypes'
  BY <1>2, OpenFlags, OpenCounts DEF ReaderInv, FlagTypes
<1>9. FlagOf(m) /\ DraftInv
  BY DEF ReaderInv, MarkInv
<1>10. was /\ m \in folder \ unsaid => m \notin serverRead \cup marks /\ ~AheadOf(m)
  BY <1>9, OpenFlags DEF FlagOf
<1>11. FetchInv'
  <2>1. ASSUME NEW g, Old(g) PROVE FetchOf(g)' /\ g.n \in Nat /\ g.n <= opens
    <3>1. PICK f \in fetches : g.n = f.n /\ g.msg = f.msg /\ g.wasUnread = f.wasUnread /\ g.aborted
      BY <2>1, AbortedIs
    <3>2. FetchOf(f) /\ f.n \in Nat
      BY FetchesAre DEF ReaderInv, FetchInv
    <3>3. g.n <= opens'
      BY <1>2, <3>1, <3>2, PageIs DEF FetchOf
    <3>4. folder' = folder /\ unsaid' = unsaid /\ (miscounted => miscounted')
      BY OpenFlags
    <3> QED
      BY <1>2, <3>1, <3>2, <3>3, <3>4 DEF FetchOf
  <2>2. FetchOf(new)'
    <3>1. opens' <= opens' /\ new.n = opens'
      BY <1>2, <1>3, PageIs
    <3>2. new.wasUnread => new.msg \notin Drafts /\ (new.msg \in folder' \/ miscounted')
      BY <1>3, OpenFlags
    <3>3. new.wasUnread /\ m \in folder' \ unsaid' => m \notin serverRead \cup marks
      BY <1>3, <1>10, OpenFlags
    <3> QED
      BY <1>2, <1>3, <3>1, <3>2, <3>3 DEF FetchOf
  <2>3. ASSUME NEW g, NEW h, Old(g), Old(h) PROVE Apart(g, h)'
    <3>1. PICK f \in fetches : g.n = f.n /\ g.msg = f.msg /\ g.wasUnread = f.wasUnread
                                /\ g = [f EXCEPT !.aborted = @ \/ f.n = openAbort]
      BY <2>3, AbortedIs
    <3>2. PICK e \in fetches : h.n = e.n /\ h.msg = e.msg /\ h.wasUnread = e.wasUnread
                                /\ h = [e EXCEPT !.aborted = @ \/ e.n = openAbort]
      BY <2>3, AbortedIs
    <3>3. Apart(f, e)
      BY DEF ReaderInv, FetchInv
    <3>4. f = e => g = h
      BY <3>1, <3>2
    <3>5. folder' = folder /\ unsaid' = unsaid
      BY OpenFlags
    <3> QED
      BY <1>2, <3>1, <3>2, <3>3, <3>4, <3>5 DEF Apart
  <2>4. ASSUME NEW g, Old(g) PROVE Apart(g, new)' /\ Apart(new, g)'
    <3>1. g.n # new.n
      BY <1>2, <1>3, <2>1, <2>4, PageIs
    <3>2. PICK f \in fetches : g.msg = f.msg /\ g.wasUnread = f.wasUnread
      BY <2>4, AbortedIs
    <3>3. new.wasUnread /\ g.wasUnread /\ g.msg = new.msg => m \notin folder \ unsaid
      BY <1>3, <1>10, <3>2 DEF AheadOf
    <3>4. folder' = folder /\ unsaid' = unsaid
      BY OpenFlags
    <3> QED
      BY <1>2, <1>3, <3>1, <3>3, <3>4 DEF Apart
  <2>5. Apart(new, new)'
    BY DEF Apart
  <2> QED
    BY <1>4, <2>1, <2>2, <2>3, <2>4, <2>5 DEF FetchInv
<1>12. MarkInv'
  <2>1. ASSUME NEW k \in Mails PROVE FlagOf(k)'
    <3>1. FlagOf(k)
      BY DEF ReaderInv, MarkInv
    <3>2. AheadOf(k) => AheadOf(k)'
      BY <1>5, AbortedKeeps DEF AheadOf
    <3>3. (k # m \/ ~was) /\ AheadOf(k)' => AheadOf(k)
      BY <1>3, <1>4, AbortedIs DEF AheadOf
    <3>4. was => AheadOf(m)'
      BY <1>3 DEF AheadOf
    <3>5. CASE k # m
      BY <1>2, <3>1, <3>2, <3>3, <3>5, OpenFlags DEF FlagOf
    <3>6. CASE k = m /\ was
      BY <1>2, <3>4, <3>6, OpenFlags DEF FlagOf
    <3>7. CASE k = m /\ ~was
      BY <1>2, <3>1, <3>2, <3>3, <3>7, OpenFlags DEF FlagOf
    <3> QED
      BY <3>5, <3>6, <3>7
  <2>2. DraftInv'
    BY <1>2, <1>9, OpenFlags DEF DraftInv
  <2> QED
    BY <2>1, <2>2 DEF MarkInv
<1>13. ASSUME NEW k \in Mails PROVE ReadOf(k)'
  <2> SUFFICES ASSUME k \notin unmarked' \cup unsaid,
                      k = shown' \/ \E g \in fetches' : g.msg = k /\ ~g.wasUnread
               PROVE  k \in serverRead \cup marks
    BY <1>2, OpenFlags DEF ReadOf
  <2>1. ReadOf(k) /\ k \notin unmarked \cup unsaid
    BY <1>2 DEF ReaderInv
  <2>2. CASE k = shown'
    BY <1>2, <2>1, <2>2 DEF ReadOf
  <2>3. CASE \E g : Old(g) /\ g.msg = k /\ ~g.wasUnread
    BY <2>1, <2>3, AbortedIs DEF ReadOf
  <2>4. CASE new.msg = k /\ ~new.wasUnread
    <3>1. k = m /\ ~was /\ ~Reader!Untold(m)
      BY <1>2, <1>3, <2>4
    <3> QED
      BY <2>1, <3>1, OpenedRead
  <2> QED
    BY <1>4, <2>2, <2>3, <2>4
<1>14. Followed' /\ Reader!SpinnerEnds'
  BY <1>2, <1>3 DEF Followed, Reader!SpinnerEnds
<1> QED
  BY <1>6, <1>7, <1>8, <1>11, <1>12, <1>13, <1>14, OpenCounts DEF ReaderInv

\* What changes the selection while a fetch is under way overtakes it.
LEMMA ReaderTurns ==
  ASSUME ReaderLimits, ReaderInv, Reader!Close \/ \E m \in Mails : Reader!Navigate(m)
  PROVE  ReaderInv'
<1>1. /\ selected' \in Mails \cup {Reader!Nothing} /\ failed' \in {failed, FALSE}
      /\ overtaken' = (overtaken \/ fetches # {}) /\ final' = final /\ loading' = loading
      /\ openAbort' = openAbort /\ fetches' = fetches /\ opens' = opens /\ cache' = cache
      /\ watched' = watched /\ folder' = folder /\ listRead' = listRead /\ unread' = unread
      /\ serverRead' = serverRead /\ marks' = marks /\ embedding' = embedding
      /\ unmarked' = unmarked /\ unsaid' = unsaid /\ astray' = astray /\ miscounted' = miscounted
  BY DEF Reader!Close, Reader!Navigate, Reader!flags, Reader!rows, Reader!server, Reader!told
<1>2. Reader!Event
  BY DEF Reader!Close, Reader!Navigate
<1>3. /\ nav' \in Mails \cup {Reader!Nothing} /\ shown' \in {shown, Reader!Nothing}
      /\ nav' # Reader!Nothing \/ shown' = selected'
  BY DEF Reader!Close, Reader!Navigate, ReaderInv, PageTypes, ReaderLimits
<1>4. found' \subseteq found /\ foundRead' = foundRead \cap found'
  <2>1. foundRead \subseteq found
    BY DEF ReaderInv, FlagTypes
  <2> QED
    BY <2>1 DEF Reader!Close, Reader!Navigate, Reader!rows
<1>5. PageTypes'
  BY <1>1, <1>3 DEF ReaderInv, PageTypes
<1>6. FetchTypes'
  BY <1>1, <1>2, ReaderEvent DEF ReaderInv, FetchTypes, Reader!Fetch
<1>7. FlagTypes' /\ Counted'
  BY <1>1, <1>4 DEF ReaderInv, FlagTypes, Counted
<1>8. FetchInv'
  BY <1>1 DEF ReaderInv, FetchInv, FetchOf, Apart
<1>9. MarkInv'
  BY <1>1, <1>4 DEF ReaderInv, MarkInv, DraftInv, FlagOf, AheadOf
<1>10. \A m \in Mails : ReadOf(m)'
  BY <1>1, <1>3 DEF ReaderInv, ReadOf, ReaderLimits
<1>11. Followed' /\ Reader!SpinnerEnds'
  BY <1>1, <1>3 DEF ReaderInv, Followed, Reader!SpinnerEnds
<1> QED
  BY <1>5, <1>6, <1>7, <1>8, <1>9, <1>10, <1>11 DEF ReaderInv

\* The bodies that are kept, and the results that are left, concern no flag of
\* the folder and no selection.
LEMMA ReaderWatched ==
  ASSUME ReaderLimits, ReaderInv,
         \/ Reader!ClearSearch
         \/ \E m \in Mails : Reader!Watched(m) \/ Reader!Embedded(m) \/ Reader!Prefetched(m)
  PROVE  ReaderInv'
<1>1. /\ selected' = selected /\ shown' = shown /\ loading' = loading
      /\ openAbort' = openAbort /\ fetches' = fetches /\ opens' = opens /\ nav' = nav
      /\ folder' = folder /\ listRead' = listRead /\ unread' = unread /\ serverRead' = serverRead
      /\ marks' = marks /\ events' = events /\ overtaken' = overtaken /\ failed' = failed
      /\ unmarked' = unmarked /\ unsaid' = unsaid /\ astray' = astray /\ miscounted' = miscounted
  BY DEF Reader!Watched, Reader!Embedded, Reader!Prefetched, Reader!ClearSearch, Reader!view,
         Reader!flags, Reader!rows, Reader!server, Reader!follow, Reader!told
<1>2. /\ embedding' \subseteq embedding /\ watched' \subseteq watched
      /\ final' \in BOOLEAN /\ cache' \subseteq Mails \ embedding'
  <2>1. PageTypes
    BY DEF ReaderInv
  <2>2. CASE Reader!ClearSearch
    BY <2>1, <2>2 DEF Reader!ClearSearch, Reader!view, Reader!server, PageTypes
  <2>3. ASSUME NEW m \in Mails, Reader!Watched(m)
        PROVE  /\ embedding' \subseteq embedding /\ watched' \subseteq watched
               /\ final' \in BOOLEAN /\ cache' \subseteq Mails \ embedding'
    <3>1. /\ watched' = watched \ {m} /\ embedding' = embedding
          /\ \/ cache' = cache /\ final' = final
             \/ m \notin embedding /\ cache' = cache \cup {m} /\ final' = (final \/ shown = m)
      BY <2>3 DEF Reader!Watched, Reader!server
    <3> QED
      BY <2>1, <2>3, <3>1 DEF PageTypes
  <2>4. ASSUME NEW m \in Mails, Reader!Embedded(m)
        PROVE  /\ embedding' \subseteq embedding /\ watched' \subseteq watched
               /\ final' \in BOOLEAN /\ cache' \subseteq Mails \ embedding'
    BY <2>1, <2>4 DEF Reader!Embedded, Reader!view, PageTypes
  <2>5. ASSUME NEW m \in Mails, Reader!Prefetched(m)
        PROVE  /\ embedding' \subseteq embedding /\ watched' \subseteq watched
               /\ final' \in BOOLEAN /\ cache' \subseteq Mails \ embedding'
    BY <2>1, <2>5 DEF Reader!Prefetched, Reader!view, Reader!server, PageTypes
  <2> QED
    BY <2>2, <2>3, <2>4, <2>5
<1>3. found' \subseteq found /\ foundRead' = foundRead \cap found'
  <2>1. foundRead \subseteq found
    BY DEF ReaderInv, FlagTypes
  <2> QED
    BY <2>1 DEF Reader!Watched, Reader!Embedded, Reader!Prefetched, Reader!ClearSearch, Reader!rows
<1>4. PageTypes'
  BY <1>1, <1>2 DEF ReaderInv, PageTypes
<1>5. FetchTypes' /\ FlagTypes' /\ Counted'
  BY <1>1, <1>3 DEF ReaderInv, FetchTypes, Reader!Fetch, FlagTypes, Counted
<1>6. FetchInv'
  BY <1>1 DEF ReaderInv, FetchInv, FetchOf, Apart
<1>7. MarkInv'
  BY <1>1, <1>3 DEF ReaderInv, MarkInv, DraftInv, FlagOf, AheadOf
<1>8. \A k \in Mails : ReadOf(k)'
  BY <1>1, <1>2 DEF ReaderInv, ReadOf
<1>9. Followed' /\ Reader!SpinnerEnds'
  BY <1>1 DEF ReaderInv, Followed, Reader!SpinnerEnds
<1> QED
  BY <1>4, <1>5, <1>6, <1>7, <1>8, <1>9 DEF ReaderInv

LEMMA ReaderMarked ==
  ASSUME ReaderLimits, ReaderInv, NEW m \in Mails, Reader!Marked(m)
  PROVE  ReaderInv'
<1>1. /\ selected' = selected /\ shown' = shown /\ loading' = loading /\ final' = final
      /\ openAbort' = openAbort /\ fetches' = fetches /\ opens' = opens /\ nav' = nav
      /\ folder' = folder /\ listRead' = listRead /\ unread' = unread /\ cache' = cache
      /\ found' = found /\ foundRead' = foundRead /\ watched' = watched /\ embedding' = embedding
      /\ overtaken' = overtaken /\ failed' = failed /\ unmarked' = unmarked
      /\ astray' = astray /\ miscounted' = miscounted
  BY DEF Reader!Marked, Reader!view, Reader!flags, Reader!rows, Reader!follow
<1>2. m \in marks /\ marks' = marks \ {m}
  BY DEF Reader!Marked
<1>3. \/ serverRead' = serverRead \cup {m} /\ unsaid' = unsaid
      \/ serverRead' = serverRead /\ unsaid' = unsaid \cup {m}
  BY DEF Reader!Marked
<1>4. events' \in 0 .. ReaderEvents
  BY ReaderEvent, PageIs DEF Reader!Marked
<1>5. PageTypes'
  BY <1>1, <1>3 DEF ReaderInv, PageTypes
<1>6. FetchTypes'
  BY <1>1, <1>4 DEF ReaderInv, FetchTypes, Reader!Fetch
<1>7. FlagTypes'
  BY <1>1, <1>2, <1>3 DEF ReaderInv, FlagTypes
<1>8. Counted'
  BY <1>1, <1>3 DEF ReaderInv, Counted
<1>9. FetchInv'
  BY <1>1, <1>2, <1>3 DEF ReaderInv, FetchInv, FetchOf, Apart
<1>10. MarkInv'
  <2>1. ASSUME NEW k \in Mails PROVE FlagOf(k)'
    <3>1. FlagOf(k)
      BY DEF ReaderInv, MarkInv
    <3> QED
      BY <1>1, <1>2, <1>3, <3>1 DEF FlagOf, AheadOf
  <2>2. DraftInv'
    BY <1>1, <1>3 DEF ReaderInv, MarkInv, DraftInv
  <2> QED
    BY <2>1, <2>2 DEF MarkInv
<1>11. ASSUME NEW k \in Mails PROVE ReadOf(k)'
  <2>1. ReadOf(k)
    BY DEF ReaderInv
  <2> QED
    BY <1>1, <1>2, <1>3, <2>1 DEF ReadOf
<1>12. Followed' /\ Reader!SpinnerEnds'
  BY <1>1 DEF ReaderInv, Followed, Reader!SpinnerEnds
<1> QED
  BY <1>5, <1>6, <1>7, <1>8, <1>9, <1>10, <1>11, <1>12 DEF ReaderInv

LEMMA ReaderRefetch ==
  ASSUME ReaderLimits, ReaderInv, Reader!Refetch
  PROVE  ReaderInv'
<1>1. /\ selected' = selected /\ shown' = shown /\ loading' = loading /\ final' = final
      /\ openAbort' = openAbort /\ fetches' = fetches /\ opens' = opens /\ nav' = nav
      /\ cache' = cache /\ watched' = watched /\ serverRead' = serverRead /\ marks' = marks
      /\ folder' = folder /\ found' = found /\ foundRead' = foundRead
      /\ embedding' = embedding /\ overtaken' = overtaken /\ failed' = failed
      /\ unmarked' = unmarked /\ astray' = astray /\ miscounted' = miscounted
  BY DEF Reader!Refetch, Reader!view, Reader!rows, Reader!server, Reader!follow
<1>2. PICK a \in Reader!Answers :
         /\ listRead' = a \cap folder /\ unread' = Reader!Cardinality(folder \ a)
         /\ unsaid' = unsaid \cup Reader!Missed(a)
  BY DEF Reader!Refetch
<1>3. /\ a \subseteq serverRead /\ Drafts \subseteq a /\ serverRead \subseteq Mails
      /\ marks \subseteq Mails /\ folder \subseteq Mails
  BY DEF Reader!Answers, ReaderInv, FlagTypes
<1>4. events' \in 0 .. ReaderEvents
  BY ReaderEvent DEF Reader!Refetch
<1>5. unread' = Cardinality(folder' \ listRead') /\ unread' \in Nat
  <2>1. IsFiniteSet(folder \ a)
    BY <1>3, FS_Subset DEF ReaderLimits
  <2>2. folder \ a = folder' \ listRead'
    BY <1>1, <1>2
  <2> QED
    BY <1>2, <2>1, <2>2, FS_CardinalityType, AsManyMessages
<1>6. \A f \in fetches : f.msg \in Mails /\ f.msg \in unsaid' \cup a
  BY <1>2, FetchesAre DEF Reader!Missed
<1>7. unsaid' \subseteq Mails /\ unsaid \subseteq unsaid'
      /\ \A k \in serverRead \cup marks : k \in unsaid' \cup a
  <2>1. Reader!Missed(a) \subseteq Mails
    BY <1>3, <1>6 DEF Reader!Missed
  <2>2. unsaid \subseteq Mails
    BY DEF ReaderInv, PageTypes
  <2> QED
    BY <1>2, <2>1, <2>2 DEF Reader!Missed
<1>8. PageTypes'
  BY <1>1, <1>7 DEF ReaderInv, PageTypes
<1>9. FetchTypes'
  BY <1>1, <1>4 DEF ReaderInv, FetchTypes, Reader!Fetch
<1>10. FlagTypes' /\ Counted'
  BY <1>1, <1>2, <1>3, <1>5 DEF ReaderInv, FlagTypes, Counted
<1>11. FetchInv'
  BY <1>1, <1>7 DEF ReaderInv, FetchInv, FetchOf, Apart
<1>12. MarkInv'
  <2>1. ASSUME NEW k \in Mails PROVE FlagOf(k)'
    <3>1. FlagOf(k) /\ (AheadOf(k)' <=> AheadOf(k))
      BY <1>1 DEF ReaderInv, MarkInv, AheadOf
    <3>2. k \notin unsaid' => (AheadOf(k) => k \in a) /\ (k \in serverRead \cup marks <=> k \in a)
      BY <1>3, <1>6, <1>7 DEF AheadOf
    <3> QED
      BY <1>1, <1>2, <1>7, <3>1, <3>2 DEF FlagOf
  <2>2. DraftInv'
    BY <1>1, <1>2, <1>3 DEF ReaderInv, MarkInv, DraftInv
  <2> QED
    BY <2>1, <2>2 DEF MarkInv
<1>13. \A k \in Mails : ReadOf(k)'
  BY <1>1, <1>7 DEF ReaderInv, ReadOf
<1>14. Followed' /\ Reader!SpinnerEnds'
  BY <1>1 DEF ReaderInv, Followed, Reader!SpinnerEnds
<1> QED
  BY <1>8, <1>9, <1>10, <1>11, <1>12, <1>13, <1>14 DEF ReaderInv

\* Results are as true as the answer they came with, or astray.
LEMMA ReaderFound ==
  ASSUME ReaderLimits, ReaderInv, Reader!Found
  PROVE  ReaderInv'
<1>1. /\ selected' = selected /\ shown' = shown /\ loading' = loading /\ final' = final
      /\ openAbort' = openAbort /\ fetches' = fetches /\ opens' = opens /\ nav' = nav
      /\ cache' = cache /\ watched' = watched /\ serverRead' = serverRead /\ marks' = marks
      /\ folder' = folder /\ listRead' = listRead /\ unread' = unread
      /\ embedding' = embedding /\ overtaken' = overtaken /\ failed' = failed
      /\ unmarked' = unmarked /\ unsaid' = unsaid /\ miscounted' = miscounted
  BY DEF Reader!Found, Reader!view, Reader!flags, Reader!server, Reader!follow
<1>2. PICK a \in Reader!Answers, page \in SUBSET Mails, kept \in {{}, found} :
         /\ found' = kept \cup page
         /\ foundRead' = (foundRead \cap kept) \cup ((page \ kept) \cap a)
         /\ astray' = (astray \cap kept) \cup ((page \ kept) \cap Reader!Missed(a))
  BY DEF Reader!Found
<1>3. /\ a \subseteq serverRead /\ Drafts \subseteq a /\ kept \subseteq found
      /\ found \subseteq Mails /\ foundRead \subseteq found /\ astray \subseteq Mails
  BY DEF Reader!Answers, ReaderInv, FlagTypes, PageTypes
<1>4. events' \in 0 .. ReaderEvents
  BY ReaderEvent DEF Reader!Found
<1>5. found' \subseteq Mails /\ foundRead' \subseteq found' /\ astray' \subseteq Mails
  BY <1>2, <1>3
<1>6. PageTypes'
  BY <1>1, <1>5 DEF ReaderInv, PageTypes
<1>7. FetchTypes'
  BY <1>1, <1>4 DEF ReaderInv, FetchTypes, Reader!Fetch
<1>8. FlagTypes' /\ Counted'
  BY <1>1, <1>5 DEF ReaderInv, FlagTypes, Counted
<1>9. FetchInv'
  BY <1>1 DEF ReaderInv, FetchInv, FetchOf, Apart
<1>10. MarkInv'
  <2>1. ASSUME NEW k \in Mails PROVE FlagOf(k)'
    <3>1. FlagOf(k) /\ (AheadOf(k)' <=> AheadOf(k))
      BY <1>1 DEF ReaderInv, MarkInv, AheadOf
    <3>2. CASE k \in kept
      BY <1>1, <1>2, <1>3, <3>1, <3>2 DEF FlagOf
    <3>3. CASE k \in page \ kept
      <4>1. k \notin astray' => (k \in serverRead \cup marks \/ AheadOf(k) <=> k \in a)
        BY <1>2, <1>3, <3>3 DEF AheadOf, Reader!Missed
      <4> QED
        BY <1>1, <1>2, <3>1, <3>3, <4>1 DEF FlagOf
    <3>4. CASE k \notin found'
      BY <1>1, <3>1, <3>4 DEF FlagOf
    <3> QED
      BY <1>2, <3>2, <3>3, <3>4
  <2>2. DraftInv'
    BY <1>1, <1>2, <1>3 DEF ReaderInv, MarkInv, DraftInv
  <2> QED
    BY <2>1, <2>2 DEF MarkInv
<1>11. \A k \in Mails : ReadOf(k)'
  BY <1>1 DEF ReaderInv, ReadOf
<1>12. Followed' /\ Reader!SpinnerEnds'
  BY <1>1 DEF ReaderInv, Followed, Reader!SpinnerEnds
<1> QED
  BY <1>6, <1>7, <1>8, <1>9, <1>10, <1>11, <1>12 DEF ReaderInv

LEMMA ReaderFallsBack ==
  ASSUME ReaderLimits, ReaderInv, NEW f \in fetches, Reader!FallsBack(f)
  PROVE  ReaderInv'
<1>1. /\ selected' = selected /\ shown' = shown /\ loading' = loading /\ final' = final
      /\ openAbort' = openAbort /\ opens' = opens /\ nav' = nav /\ cache' = cache
      /\ watched' = watched /\ folder' = folder /\ listRead' = listRead /\ unread' = unread
      /\ found' = found /\ foundRead' = foundRead
      /\ serverRead' = serverRead /\ marks' = marks /\ embedding' = embedding
      /\ overtaken' = overtaken /\ failed' = failed /\ unmarked' = unmarked /\ unsaid' = unsaid
      /\ astray' = astray /\ miscounted' = miscounted
  BY DEF Reader!FallsBack, Reader!view, Reader!flags, Reader!rows, Reader!server, Reader!follow,
         Reader!told
<1>2. PICK c \in Reader!Fetch :
         /\ c.n = f.n /\ c.msg = f.msg /\ c.wasUnread = f.wasUnread /\ c.aborted = f.aborted
         /\ fetches' = (fetches \ {f}) \cup {c}
  <2>1. fetches' = (fetches \ {f}) \cup {[f EXCEPT !.from = "copy"]}
    BY DEF Reader!FallsBack
  <2> QED
    BY <2>1, FetchesAre DEF Reader!Fetch
<1>3. events' \in 0 .. ReaderEvents
  BY ReaderEvent DEF Reader!FallsBack
<1>4. PageTypes' /\ FlagTypes' /\ Counted'
  BY <1>1 DEF ReaderInv, PageTypes, FlagTypes, Counted
<1>5. FetchTypes'
  BY <1>1, <1>2, <1>3 DEF ReaderInv, FetchTypes, Reader!Fetch
<1>6. FetchInv'
  <2>1. ASSUME NEW g \in fetches' PROVE FetchOf(g)'
    <3>1. FetchOf(f) /\ (g \in fetches => FetchOf(g))
      BY DEF ReaderInv, FetchInv
    <3> QED
      BY <1>1, <1>2, <3>1 DEF FetchOf
  <2>2. ASSUME NEW g \in fetches', NEW h \in fetches' PROVE Apart(g, h)'
    <3>1. \A e, d \in fetches : Apart(e, d)
      BY DEF ReaderInv, FetchInv
    <3> QED
      BY <1>1, <1>2, <3>1 DEF Apart
  <2> QED
    BY <2>1, <2>2 DEF FetchInv
<1>7. MarkInv'
  <2>1. ASSUME NEW k \in Mails PROVE FlagOf(k)'
    <3>1. FlagOf(k)
      BY DEF ReaderInv, MarkInv
    <3>2. AheadOf(k)' <=> AheadOf(k)
      BY <1>2 DEF AheadOf
    <3> QED
      BY <1>1, <3>1, <3>2 DEF FlagOf
  <2> QED
    BY <1>1, <2>1 DEF ReaderInv, MarkInv, DraftInv
<1>8. ASSUME NEW k \in Mails PROVE ReadOf(k)'
  <2>1. ReadOf(k)
    BY DEF ReaderInv
  <2> QED
    BY <1>1, <1>2, <2>1 DEF ReadOf
<1>9. Followed' /\ Reader!SpinnerEnds'
  <2>1. Followed /\ Reader!SpinnerEnds
    BY DEF ReaderInv
  <2> QED
    BY <1>1, <1>2, <2>1 DEF Followed, Reader!SpinnerEnds
<1> QED
  BY <1>4, <1>5, <1>6, <1>7, <1>8, <1>9 DEF ReaderInv

\* An answer from the server or a copy.
LEMMA ReaderLoads ==
  ASSUME ReaderLimits, ReaderInv, NEW f \in fetches,
         NEW isFinal \in {FALSE, f.msg \notin embedding}, Reader!Loads(f, isFinal),
         overtaken' \in BOOLEAN, overtaken => overtaken', f.aborted => overtaken'
  PROVE  ReaderInv'
<1>1. /\ openAbort' = openAbort /\ opens' = opens /\ nav' = nav /\ folder' = folder
      /\ listRead' = listRead /\ unread' = unread /\ found' = found /\ foundRead' = foundRead
      /\ serverRead' = serverRead /\ embedding' = embedding
      /\ events' = events /\ failed' = failed /\ unmarked' = unmarked /\ unsaid' = unsaid
      /\ astray' = astray /\ miscounted' = miscounted
      /\ fetches' = fetches \ {f} /\ loading' = IF openAbort = f.n THEN FALSE ELSE loading
  BY DEF Reader!Loads, Reader!Ends, Reader!flags, Reader!rows, Reader!told
<1>2. \/ /\ f.msg \in Drafts /\ selected' = Reader!Nothing /\ shown' = Reader!Nothing
         /\ final' = final /\ cache' = cache /\ watched' = watched /\ marks' = marks
      \/ /\ f.msg \notin Drafts /\ selected' = selected /\ shown' = f.msg /\ final' = isFinal
         /\ marks' = IF f.wasUnread THEN marks \cup {f.msg} ELSE marks
         /\ cache' = IF isFinal THEN cache \cup {f.msg} ELSE cache
         /\ watched' = IF isFinal THEN watched ELSE watched \cup {f.msg}
  BY DEF Reader!Loads, Reader!Marks
<1>3. f.msg \in Mails /\ f.wasUnread \in BOOLEAN /\ f.aborted \in BOOLEAN
  BY FetchesAre
<1>4. FetchOf(f) /\ \A g \in fetches : Apart(f, g) /\ Apart(g, f)
  BY DEF ReaderInv, FetchInv
<1>5. \A g \in fetches' : g \in fetches /\ g # f
  BY <1>1
<1>6. f.wasUnread => f.msg \notin Drafts
  BY <1>4 DEF FetchOf
<1>7. marks' = IF f.wasUnread THEN marks \cup {f.msg} ELSE marks
  BY <1>2, <1>3, <1>6
<1>8. PageTypes'
  <2>1. PageTypes
    BY DEF ReaderInv
  <2>2. isFinal \in BOOLEAN /\ (isFinal => f.msg \notin embedding)
    OBVIOUS
  <2>3. cache' \subseteq Mails \ embedding /\ watched' \subseteq Mails /\ final' \in BOOLEAN
    BY <1>2, <1>3, <2>1, <2>2 DEF PageTypes
  <2>4. /\ selected' \in Mails \cup {Reader!Nothing} /\ shown' \in Mails \cup {Reader!Nothing}
        /\ loading' \in BOOLEAN
    BY <1>1, <1>2, <1>3, <2>1 DEF PageTypes
  <2> QED
    BY <1>1, <2>1, <2>3, <2>4 DEF PageTypes
<1>9. FetchTypes' /\ FlagTypes' /\ Counted'
  BY <1>1, <1>3, <1>7 DEF ReaderInv, FetchTypes, Reader!Fetch, FlagTypes, Counted
<1>10. FetchInv'
  <2>1. ASSUME NEW g \in fetches' PROVE FetchOf(g)'
    <3>1. g \in fetches /\ g # f /\ FetchOf(g) /\ Apart(f, g)
      BY <1>4, <1>5 DEF ReaderInv, FetchInv
    <3>2. g.wasUnread /\ g.msg \in folder \ unsaid => g.msg \notin serverRead \cup marks'
      BY <1>7, <3>1 DEF FetchOf, Apart
    <3>3. ~g.aborted => overtaken' \/ selected' = g.msg
      <4>1. ~g.aborted => f.aborted
        BY <1>3, <3>1, OnlyNewest
      <4> QED
        BY <4>1
    <3> QED
      BY <1>1, <3>1, <3>2, <3>3 DEF FetchOf
  <2>2. ASSUME NEW g \in fetches', NEW h \in fetches' PROVE Apart(g, h)'
    BY <1>1, <1>5 DEF ReaderInv, FetchInv, Apart
  <2> QED
    BY <2>1, <2>2 DEF FetchInv
<1>11. MarkInv'
  <2>1. ASSUME NEW k \in Mails PROVE FlagOf(k)'
    <3>1. FlagOf(k)
      BY DEF ReaderInv, MarkInv
    <3>2. AheadOf(k)' => AheadOf(k)
      BY <1>5 DEF AheadOf
    <3>3. AheadOf(k) => AheadOf(k)' \/ (k = f.msg /\ f.wasUnread)
      BY <1>1 DEF AheadOf
    <3>4. f.wasUnread => AheadOf(f.msg)
      BY DEF AheadOf
    <3>5. k \in serverRead \cup marks \/ AheadOf(k) <=> k \in serverRead' \cup marks' \/ AheadOf(k)'
      BY <1>1, <1>7, <3>2, <3>3, <3>4
    <3> QED
      BY <1>1, <3>1, <3>5 DEF FlagOf
  <2> QED
    BY <1>1, <2>1 DEF ReaderInv, MarkInv, DraftInv
<1>12. ASSUME NEW k \in Mails PROVE ReadOf(k)'
  <2>1. ReadOf(k) /\ k # Reader!Nothing
    BY DEF ReaderInv, ReaderLimits
  <2>2. CASE k = f.msg
    <3>1. k \notin unmarked \cup unsaid => f.wasUnread \/ k \in serverRead \cup marks
      BY <2>1, <2>2 DEF ReadOf
    <3> QED
      BY <1>1, <1>7, <2>2, <3>1 DEF ReadOf
  <2>3. CASE k # f.msg
    <3>1. k = shown' => k = shown
      BY <1>2, <2>1, <2>3
    <3>2. marks \subseteq marks'
      BY <1>7
    <3> QED
      BY <1>1, <2>1, <3>1, <3>2 DEF ReadOf
  <2> QED
    BY <2>2, <2>3
<1>13. Followed'
  <2>1. f.aborted \/ overtaken \/ selected = f.msg
    BY <1>3, <1>4 DEF FetchOf
  <2> QED
    BY <1>2, <2>1 DEF Followed
<1>14. Reader!SpinnerEnds'
  <2>1. Reader!SpinnerEnds
    BY DEF ReaderInv
  <2> QED
    BY <1>1, <2>1 DEF Reader!SpinnerEnds
<1> QED
  BY <1>8, <1>9, <1>10, <1>11, <1>12, <1>13, <1>14 DEF ReaderInv

\* A fetch that ends without a body takes its flag back, but not in the results.
LEMMA ReaderReverts ==
  ASSUME ReaderLimits, ReaderInv, NEW f \in fetches, Reader!Superseded(f) \/ Reader!NoCopy(f)
  PROVE  ReaderInv'
<1>1. /\ openAbort' = openAbort /\ opens' = opens /\ nav' = nav /\ serverRead' = serverRead
      /\ marks' = marks /\ embedding' = embedding /\ events' = events /\ unmarked' = unmarked
      /\ unsaid' = unsaid /\ miscounted' = miscounted /\ folder' = folder /\ found' = found
      /\ foundRead' = foundRead /\ shown' = shown /\ final' = final /\ cache' = cache
      /\ watched' = watched /\ fetches' = fetches \ {f}
  BY DEF Reader!Superseded, Reader!NoCopy, Reader!Ends, Reader!server, Reader!rows
<1>2. \/ /\ f.wasUnread /\ listRead' = listRead \ {f.msg} /\ unread' = unread + 1
         /\ astray' = astray \cup {f.msg}
      \/ ~f.wasUnread /\ listRead' = listRead /\ unread' = unread /\ astray' = astray
  BY DEF Reader!Superseded, Reader!NoCopy, Reader!Revert, Reader!flags
<1>3. \/ f.aborted /\ selected' = selected /\ overtaken' = overtaken /\ failed' = failed
      \/ /\ selected' = Reader!Nothing /\ overtaken' = (overtaken \/ f.aborted)
         /\ failed' = ~f.aborted
  BY DEF Reader!Superseded, Reader!NoCopy, Reader!follow
<1>4. loading' = FALSE \/ (loading' = loading /\ f.n # openAbort)
  BY DEF Reader!Superseded, Reader!NoCopy, Reader!Ends
<1>5. f.msg \in Mails /\ f.wasUnread \in BOOLEAN /\ f.aborted \in BOOLEAN
  BY FetchesAre
<1>6. FetchOf(f) /\ \A g \in fetches : Apart(f, g) /\ Apart(g, f)
  BY DEF ReaderInv, FetchInv
<1>7. \A g \in fetches' : g \in fetches /\ g # f
  BY <1>1
<1>8. PageTypes'
  BY <1>1, <1>2, <1>3, <1>4, <1>5 DEF ReaderInv, PageTypes
<1>9. FetchTypes' /\ FlagTypes'
  BY <1>1, <1>2 DEF ReaderInv, FetchTypes, Reader!Fetch, FlagTypes
<1>10. Counted'
  <2>1. CASE f.wasUnread
    <3>1. AheadOf(f.msg) /\ FlagOf(f.msg)
      BY <1>5, <2>1 DEF AheadOf, ReaderInv, MarkInv
    <3>2. Counted /\ unread \in Nat /\ listRead \in SUBSET folder
      BY DEF ReaderInv, FlagTypes
    <3>3. ASSUME unsaid = {}, ~miscounted PROVE f.msg \in folder /\ f.msg \in listRead
      BY <1>6, <2>1, <3>1, <3>3 DEF FlagOf, FetchOf
    <3>4. ASSUME unsaid = {}, ~miscounted
          PROVE  Cardinality(folder \ listRead') = Cardinality(folder \ listRead) + 1
      BY <1>2, <2>1, <3>2, <3>3, <3>4, FolderFinite, OneRead
    <3> QED
      BY <1>1, <1>2, <2>1, <3>2, <3>4 DEF Counted
  <2>2. CASE ~f.wasUnread
    BY <1>1, <1>2, <2>2 DEF ReaderInv, Counted
  <2> QED
    BY <2>1, <2>2
<1>11. FetchInv'
  <2>1. ASSUME NEW g \in fetches' PROVE FetchOf(g)'
    <3>1. g \in fetches /\ g # f /\ FetchOf(g)
      BY <1>7 DEF ReaderInv, FetchInv
    <3>2. ~g.aborted => f.aborted
      BY <1>5, <3>1, OnlyNewest
    <3>3. ~g.aborted => overtaken' \/ selected' = g.msg
      BY <1>3, <3>1, <3>2 DEF FetchOf
    <3> QED
      BY <1>1, <3>1, <3>3 DEF FetchOf
  <2>2. ASSUME NEW g \in fetches', NEW h \in fetches' PROVE Apart(g, h)'
    BY <1>1, <1>7 DEF ReaderInv, FetchInv, Apart
  <2> QED
    BY <2>1, <2>2 DEF FetchInv
<1>12. MarkInv'
  <2>1. ASSUME NEW k \in Mails PROVE FlagOf(k)'
    <3>1. FlagOf(k)
      BY DEF ReaderInv, MarkInv
    <3>2. AheadOf(k)' => AheadOf(k)
      BY <1>7 DEF AheadOf
    <3>3. AheadOf(k) => AheadOf(k)' \/ (k = f.msg /\ f.wasUnread)
      BY <1>1 DEF AheadOf
    <3>4. f.wasUnread /\ f.msg \in folder \ unsaid => ~AheadOf(f.msg)'
      BY <1>6, <1>7 DEF AheadOf, Apart
    <3>5. f.wasUnread /\ f.msg \in folder \ unsaid => f.msg \notin serverRead \cup marks
      BY <1>6 DEF FetchOf
    <3>6. k # f.msg \/ ~f.wasUnread
            => (k \in listRead' <=> k \in listRead) /\ (AheadOf(k)' <=> AheadOf(k))
      BY <1>2, <3>2, <3>3
    <3>7. CASE k # f.msg \/ ~f.wasUnread
      BY <1>1, <1>2, <3>1, <3>6, <3>7 DEF FlagOf
    <3>8. CASE k = f.msg /\ f.wasUnread
      BY <1>1, <1>2, <3>4, <3>5, <3>8 DEF FlagOf
    <3> QED
      BY <3>7, <3>8
  <2>2. f.wasUnread => f.msg \notin Drafts
    BY <1>6 DEF FetchOf
  <2>3. DraftInv'
    BY <1>1, <1>2, <2>2 DEF ReaderInv, MarkInv, DraftInv
  <2> QED
    BY <2>1, <2>3 DEF MarkInv
<1>13. ASSUME NEW k \in Mails PROVE ReadOf(k)'
  <2>1. ReadOf(k)
    BY DEF ReaderInv
  <2> QED
    BY <1>1, <2>1 DEF ReadOf
<1>14. Followed'
  <2>1. Followed
    BY DEF ReaderInv
  <2>2. CASE f.aborted /\ selected' = selected /\ overtaken' = overtaken /\ failed' = failed
    BY <1>1, <2>1, <2>2 DEF Followed
  <2>3. CASE /\ selected' = Reader!Nothing /\ overtaken' = (overtaken \/ f.aborted)
             /\ failed' = ~f.aborted
    BY <1>1, <2>3 DEF Followed
  <2> QED
    BY <1>3, <2>2, <2>3
<1>15. Reader!SpinnerEnds'
  <2>1. Reader!SpinnerEnds
    BY DEF ReaderInv
  <2> QED
    BY <1>1, <1>4, <2>1 DEF Reader!SpinnerEnds
<1> QED
  BY <1>8, <1>9, <1>10, <1>11, <1>12, <1>13, <1>14, <1>15 DEF ReaderInv

LEMMA ReaderNext ==
  ASSUME ReaderLimits, ReaderInv, [Reader!Next]_Reader!vars PROVE ReaderInv'
<1>1. ASSUME NEW m \in Mails, Reader!Opens(m), nav' \in Mails \cup {Reader!Nothing}
      PROVE  ReaderInv'
  BY <1>1, OpensCached, OpensFetches
<1>2. nav \in Mails \cup {Reader!Nothing}
  BY DEF ReaderInv, PageTypes
<1>3. ASSUME NEW m \in Mails, Reader!Open(m) PROVE ReaderInv'
  BY <1>1, <1>2, <1>3 DEF Reader!Open
<1>4. CASE Reader!NavigateOpens
  BY <1>1, <1>2, <1>4 DEF Reader!NavigateOpens
<1>5. ASSUME NEW f \in fetches, Reader!Answered(f) PROVE ReaderInv'
  <2>1. /\ Reader!Loads(f, f.msg \notin embedding) /\ overtaken' = overtaken /\ ~f.aborted
    BY <1>5 DEF Reader!Answered
  <2>2. overtaken \in BOOLEAN
    BY DEF ReaderInv, PageTypes
  <2>3. PICK isFinal \in {FALSE, f.msg \notin embedding} : Reader!Loads(f, isFinal)
    BY <2>1
  <2> QED
    BY <2>1, <2>2, <2>3, ReaderLoads
<1>6. ASSUME NEW f \in fetches, Reader!CopyFound(f) PROVE ReaderInv'
  <2>1. PICK isFinal \in {FALSE, f.msg \notin embedding} : Reader!Loads(f, isFinal)
    BY <1>6 DEF Reader!CopyFound
  <2>2. overtaken' = (overtaken \/ f.aborted)
    BY <1>6 DEF Reader!CopyFound
  <2>3. overtaken' \in BOOLEAN
    BY <2>2
  <2> QED
    BY <2>1, <2>2, <2>3, ReaderLoads
<1>7. CASE UNCHANGED Reader!vars
  <2>1. UNCHANGED <<selected, shown, final, loading, openAbort, fetches, opens, cache, watched, nav,
                    folder, listRead, unread, found, foundRead, serverRead, marks, embedding, events,
                    overtaken, failed, unmarked, unsaid, astray, miscounted>>
    BY <1>7 DEF Reader!vars, Reader!view, Reader!flags, Reader!rows, Reader!server, Reader!follow,
                Reader!told
  <2>2. PageTypes' /\ FetchTypes' /\ FlagTypes' /\ Counted'
    BY <2>1 DEF ReaderInv, PageTypes, FetchTypes, Reader!Fetch, FlagTypes, Counted
  <2>3. FetchInv' /\ MarkInv'
    BY <2>1 DEF ReaderInv, FetchInv, FetchOf, Apart, MarkInv, DraftInv, FlagOf, AheadOf
  <2>4. (\A m \in Mails : ReadOf(m)') /\ Followed' /\ Reader!SpinnerEnds'
    BY <2>1 DEF ReaderInv, ReadOf, Followed, Reader!SpinnerEnds
  <2> QED
    BY <2>2, <2>3, <2>4 DEF ReaderInv
<1> QED
  BY <1>3, <1>4, <1>5, <1>6, <1>7, ReaderTurns, ReaderWatched, ReaderMarked, ReaderRefetch,
     ReaderFound, ReaderFallsBack, ReaderReverts DEF Reader!Next

(* For any messages and drafts, however opens, answers, failures and lists  *)
(* read again cross: the body shown is that of the selected row, unless a   *)
(* change that aborts nothing came while it was fetched; the flags set      *)
(* ahead and the unread count agree with the server in the end; what is     *)
(* shown is marked read; the spinner stops (mail/page.tsx).                 *)
THEOREM ReaderAlwaysHolds == ReaderLimits => (Spec => []ReaderHolds)
<1> SUFFICES ASSUME ReaderLimits PROVE Spec => []ReaderHolds
  OBVIOUS
<1> DEFINE Kept == focus = "reader" => ReaderInv
<1>1. Init => Kept
  BY ReaderInit, FirstOfFocus
<1>2. Kept /\ [Next]_vars => Kept'
  BY ReaderNext, StepOfFocus
<1>3. Kept => ReaderHolds
  BY ReaderInvHolds DEF ReaderHolds
<1> QED
  BY <1>1, <1>2, <1>3, PTL DEF Spec
-----------------------------------------------------------------------------
(* A shared document (LiveDocument).                                       *)

LiveLimits == MaxOpens \in Nat /\ MaxEdits \in Nat /\ MaxEvents \in Nat

\* The types, of the row and the server, of the tabs, and of the bounds.
ServerTypes ==
    /\ content \subseteq Live!Texts /\ yjs \subseteq Live!Ops
    /\ \A v \in versions : v # {} /\ v \subseteq Live!Texts
    /\ loaded \in BOOLEAN /\ live \subseteq Live!Ops /\ dirty \in BOOLEAN
    /\ ~loaded => live = {} /\ ~dirty

TellsTypes ==
    /\ typed \subseteq Live!Texts \ {0} /\ lost \subseteq Live!Texts
    /\ writers \subseteq 1 .. MaxOpens /\ raced \in BOOLEAN

TabTypes ==
    /\ right \in [Tabs -> Live!Rights]
    /\ opened \in [Tabs -> 0 .. MaxOpens] /\ initial \in [Tabs -> SUBSET Live!Texts]
    /\ doc \in [Tabs -> SUBSET Live!Ops]
    /\ editable \in [Tabs -> BOOLEAN] /\ synced \in [Tabs -> BOOLEAN]
    /\ conn \in [Tabs -> {"off", "read", "edit"}] /\ unsaved \in [Tabs -> SUBSET Live!Texts]

BoundTypes == opens \in 0 .. MaxOpens /\ events \in 0 .. MaxEvents

\* A tab that is connected is open; what others have inserted it got from the
\* server, which has it still or lost it for a cause.
TabOf(t) ==
    /\ opened[t] = 0 => doc[t] = {} /\ conn[t] = "off"
    /\ conn[t] # "off" => synced[t] /\ loaded
    /\ conn[t] = "edit" => opened[t] \in writers
    /\ \A op \in doc[t] :
          /\ op[2] \in writers \cup {opened[t]}
          /\ op[2] = opened[t] \/ op \in live \cup yjs \/ op[1] \in lost

\* The server has what is stored, and what it has not stored it will store.
ServerInv ==
    /\ loaded => yjs \subseteq live
    /\ \A op \in live : op \in yjs \/ op[1] \in lost \/ dirty
    /\ \A op \in live \cup yjs : op[2] \in writers

\* Everything that is anywhere has been typed, or came with the document.
Known == typed \cup {0}

RowTexts ==
    /\ content \subseteq Known /\ \A v \in versions : v \subseteq Known
    /\ \A op \in live \cup yjs : op[1] \in Known
TabTexts(t) ==
    initial[t] \cup unsaved[t] \subseteq Known /\ \A op \in doc[t] : op[1] \in Known

Held(op) == op \in live \cup yjs \/ \E t \in Tabs : op \in doc[t]

TypedKept == \A e \in typed : e \in lost \/ \E op : Held(op) /\ op[1] = e
Single    == ~raced => \A p, q : Held(p) /\ Held(q) /\ p[1] = q[1] => p = q

LiveInv ==
    /\ ServerTypes /\ TellsTypes /\ TabTypes /\ BoundTypes /\ (\A t \in Tabs : TabOf(t)) /\ ServerInv
    /\ RowTexts /\ (\A t \in Tabs : TabTexts(t)) /\ TypedKept /\ Single

\* What the document came with, as long as it has not been lost and nobody has
\* typed over it.
GivenSafe == 0 \in given /\ 0 \notin lost /\ ~overtyped

\* The Yjs document is empty, in the server and in the row.
Blank == live \cup yjs = {}

RowGiven ==
    /\ Blank => 0 \in content /\ \A v \in versions : 0 \in v
    /\ live # {} => 0 \in Live!EditsOf(live)
    /\ yjs # {} => 0 \in Live!EditsOf(yjs)

\* A tab that has been synchronised has it; one that has not will insert it.
TabGiven(t) ==
    /\ synced[t] => 0 \in Live!EditsOf(doc[t])
    /\ opened[t] # 0 /\ ~synced[t] /\ Blank => 0 \in initial[t]
    /\ unsaved[t] # {} /\ Blank => IF synced[t] THEN 0 \in unsaved[t] ELSE doc[t] # {}

GivenTypes == given \subseteq {0} /\ overtyped \in BOOLEAN
GivenInv   == GivenTypes /\ (GivenSafe => RowGiven /\ \A t \in Tabs : TabGiven(t))

LEMMA LiveInvHolds == ASSUME LiveLimits, LiveInv, GivenInv PROVE Live!DocumentsHold
<1>1. Live!TypeOK
  BY DEF LiveInv, ServerTypes, TellsTypes, TabTypes, BoundTypes, TabOf, GivenInv, GivenTypes,
     Live!TypeOK
<1>2. Live!NothingTypedIsLost
  <2>1. ASSUME NEW e \in typed, e \notin lost
        PROVE  e \in Live!EditsOf(live \cup yjs \cup UNION {doc[t] : t \in Tabs})
    <3>1. PICK op : Held(op) /\ op[1] = e
      BY <2>1 DEF LiveInv, TypedKept
    <3>2. op \in live \cup yjs \cup UNION {doc[t] : t \in Tabs}
      BY <3>1 DEF Held
    <3> QED
      BY <3>1, <3>2 DEF Live!EditsOf
  <2> QED
    BY <2>1 DEF Live!NothingTypedIsLost
<1>3. Live!OnlyWritersWrite
  BY DEF LiveInv, ServerInv, TabOf, Live!OnlyWritersWrite
<1>4. Live!NoDoubles
  BY DEF LiveInv, Single, Held, Live!NoDoubles
<1>5. Live!GivenIsKept
  <2>1. SUFFICES ASSUME GivenSafe
        PROVE  0 \in Live!EditsOf(live \cup yjs \cup UNION {doc[t] : t \in Tabs})
                        \cup IF live \cup yjs = {} THEN content ELSE {}
    BY DEF GivenInv, GivenTypes, GivenSafe, Live!GivenIsKept
  <2>2. CASE Blank
    BY <2>1, <2>2 DEF GivenInv, RowGiven, Blank
  <2>3. CASE ~Blank
    <3>1. \E op \in live \cup yjs : op[1] = 0
      BY <2>1, <2>3 DEF GivenInv, RowGiven, Blank, Live!EditsOf
    <3> QED
      BY <3>1 DEF Live!EditsOf
  <2> QED
    BY <2>2, <2>3
<1> QED
  BY <1>1, <1>2, <1>3, <1>4, <1>5 DEF Live!DocumentsHold

LEMMA LiveInit == ASSUME LiveLimits, Live!Init PROVE LiveInv
<1>1. /\ content \in {{}, {0}} /\ yjs = {} /\ versions = {}
      /\ loaded = FALSE /\ live = {} /\ dirty = FALSE
      /\ typed = {} /\ lost = {} /\ writers = {} /\ raced = FALSE /\ opens = 0 /\ events = 0
      /\ opened = [t \in Tabs |-> 0] /\ conn = [t \in Tabs |-> "off"]
      /\ \A t \in Tabs : doc[t] = {} /\ initial[t] = {} /\ unsaved[t] = {}
  BY DEF Live!Init
<1>2. 0 \in Live!Texts /\ 0 \in 0 .. MaxOpens /\ 0 \in 0 .. MaxEvents
  BY DEF LiveLimits, Live!Texts
<1>3. ServerTypes /\ TellsTypes /\ BoundTypes
  BY <1>1, <1>2 DEF ServerTypes, TellsTypes, BoundTypes
<1>4. TabTypes
  <2>1. right \in [Tabs -> Live!Rights]
    BY DEF Live!Init, Live!Rights
  <2>2. doc \in [Tabs -> SUBSET Live!Ops] /\ initial \in [Tabs -> SUBSET Live!Texts]
        /\ unsaved \in [Tabs -> SUBSET Live!Texts]
    BY DEF Live!Init
  <2> QED
    BY <1>1, <1>2, <2>1, <2>2 DEF TabTypes, Live!Init
<1>5. \A t \in Tabs : TabOf(t) /\ TabTexts(t)
  BY <1>1 DEF TabOf, TabTexts, Known
<1>6. ServerInv /\ RowTexts /\ TypedKept /\ Single
  BY <1>1 DEF ServerInv, RowTexts, Known, TypedKept, Single, Held
<1> QED
  BY <1>3, <1>4, <1>5, <1>6 DEF LiveInv

\* A step that inserts nothing, and loses nothing untold.
LEMMA Carries ==
  ASSUME LiveInv, typed' = typed, lost \subseteq lost', raced => raced',
         \A op : Held(op)' => Held(op),
         \A op : Held(op) => Held(op)' \/ op[1] \in lost' \/ op[1] = 0
  PROVE  TypedKept' /\ Single'
<1>1. 0 \notin typed
  BY DEF LiveInv, TellsTypes
<1> QED
  BY <1>1 DEF LiveInv, TypedKept, Single

LEMMA LiveEvent ==
  ASSUME LiveLimits, LiveInv, Live!Event PROVE events' \in 0 .. MaxEvents
<1>1. events \in 0 .. MaxEvents /\ MaxEvents \in Nat
  BY DEF LiveLimits, LiveInv, BoundTypes
<1> QED
  BY <1>1 DEF Live!Event

LEMMA LiveOpen ==
  ASSUME LiveLimits, LiveInv, NEW t \in Tabs, Live!Open(t) PROVE LiveInv'
<1>1. /\ opened[t] = 0 /\ opens < MaxOpens /\ opens' = opens + 1
      /\ opened' = [opened EXCEPT ![t] = opens'] /\ initial' = [initial EXCEPT ![t] = content]
      /\ editable' = [editable EXCEPT ![t] = right[t] = "edit"]
      /\ content' = content /\ yjs' = yjs /\ versions' = versions /\ loaded' = loaded
      /\ live' = live /\ dirty' = dirty /\ right' = right /\ doc' = doc /\ synced' = synced
      /\ conn' = conn /\ unsaved' = unsaved /\ typed' = typed /\ lost' = lost
      /\ writers' = writers /\ raced' = raced
  BY DEF Live!Open, Live!row, Live!server, Live!hist
<1>2. events' \in 0 .. MaxEvents
  BY LiveEvent DEF Live!Open
<1>3. opens' \in 0 .. MaxOpens /\ opens' # 0
  BY <1>1 DEF LiveLimits, LiveInv, BoundTypes
<1>4. ServerTypes' /\ TellsTypes' /\ BoundTypes'
  BY <1>1, <1>2, <1>3 DEF LiveInv, ServerTypes, TellsTypes, BoundTypes
<1>5. TabTypes'
  <2>1. TabTypes /\ content \in SUBSET Live!Texts
    BY DEF LiveInv, ServerTypes
  <2>2. opened' \in [Tabs -> 0 .. MaxOpens]
    BY <1>1, <1>3, <2>1 DEF TabTypes
  <2>3. initial' \in [Tabs -> SUBSET Live!Texts]
    BY <1>1, <2>1 DEF TabTypes
  <2>4. editable' \in [Tabs -> BOOLEAN]
    BY <1>1, <2>1 DEF TabTypes
  <2> QED
    BY <1>1, <2>1, <2>2, <2>3, <2>4 DEF TabTypes
<1>6. ASSUME NEW u \in Tabs PROVE TabOf(u)' /\ TabTexts(u)'
  <2>1. TabOf(u) /\ TabTexts(u) /\ TabTypes /\ content \subseteq Known
    BY DEF LiveInv, RowTexts
  <2>2. CASE u = t
    <3>1. opened'[u] = opens' /\ doc[u] = {} /\ conn[u] = "off" /\ initial'[u] = content
      BY <1>1, <2>1, <2>2 DEF TabOf, TabTypes
    <3> QED
      BY <1>1, <1>3, <2>1, <3>1 DEF TabOf, TabTexts, Known
  <2>3. CASE u # t
    <3>1. opened'[u] = opened[u] /\ initial'[u] = initial[u]
      BY <1>1, <2>1, <2>3 DEF TabTypes
    <3> QED
      BY <1>1, <2>1, <3>1 DEF TabOf, TabTexts, Known
  <2> QED
    BY <2>2, <2>3
<1>7. ServerInv' /\ RowTexts'
  BY <1>1 DEF LiveInv, ServerInv, RowTexts, Known
<1>8. TypedKept' /\ Single'
  <2>1. \A op : Held(op)' <=> Held(op)
    BY <1>1 DEF Held
  <2> QED
    BY <1>1, <2>1, Carries
<1> QED
  BY <1>4, <1>5, <1>6, <1>7, <1>8 DEF LiveInv

LEMMA LiveType ==
  ASSUME LiveLimits, LiveInv, NEW t \in Tabs, Live!Type(t) PROVE LiveInv'
<1>1. /\ opened[t] # 0
      /\ content' = content /\ yjs' = yjs /\ versions' = versions /\ loaded' = loaded
      /\ live' = live /\ dirty' = dirty /\ right' = right /\ opened' = opened
      /\ initial' = initial /\ editable' = editable /\ synced' = synced
      /\ conn' = conn /\ opens' = opens /\ lost' = lost /\ writers' = writers /\ raced' = raced
  BY DEF Live!Type, Live!row, Live!server
<1>2. PICK e \in Live!Texts \ ({0} \cup typed) :
         typed' = typed \cup {e} /\ doc' = [doc EXCEPT ![t] = @ \cup {<<e, opened[t]>>}]
  BY DEF Live!Type
<1>3. unsaved' = [unsaved EXCEPT ![t] = Live!ToSave(t, doc'[t])]
  BY DEF Live!Type
<1>4. events' \in 0 .. MaxEvents
  BY LiveEvent DEF Live!Type
<1>5. /\ TabTypes /\ ServerTypes /\ TellsTypes /\ opened[t] \in 1 .. MaxOpens
      /\ doc \in [Tabs -> SUBSET Live!Ops] /\ TabTexts(t) /\ TabOf(t)
  <2>1. opened[t] \in 0 .. MaxOpens /\ opened[t] # 0
    BY <1>1 DEF LiveInv, TabTypes
  <2> QED
    BY <2>1 DEF LiveInv, TabTypes
<1> DEFINE op == <<e, opened[t]>>
<1>6. /\ op[1] = e /\ op[2] = opened[t] /\ op \in Live!Ops
      /\ doc'[t] = doc[t] \cup {op} /\ \A u \in Tabs : u # t => doc'[u] = doc[u]
  BY <1>2, <1>5 DEF Live!Ops
<1> HIDE DEF op
<1>7. Live!ToSave(t, doc'[t]) \subseteq Known' /\ Live!ToSave(t, doc'[t]) \subseteq Live!Texts
  <2>1. Live!EditsOf(doc'[t]) \subseteq Known'
    BY <1>2, <1>5, <1>6 DEF Live!EditsOf, TabTexts, Known
  <2>2. Known' \subseteq Live!Texts
    BY <1>2, <1>5 DEF Known, TellsTypes, LiveLimits, Live!Texts
  <2> QED
    BY <2>1, <2>2 DEF Live!ToSave
<1>8. ServerTypes' /\ TellsTypes' /\ BoundTypes'
  BY <1>1, <1>2, <1>4 DEF LiveInv, ServerTypes, TellsTypes, BoundTypes
<1>9. TabTypes'
  <2>1. doc' \in [Tabs -> SUBSET Live!Ops]
    BY <1>2, <1>5, <1>6
  <2>2. unsaved' \in [Tabs -> SUBSET Live!Texts]
    BY <1>3, <1>5, <1>7 DEF TabTypes
  <2> QED
    BY <1>1, <1>5, <2>1, <2>2 DEF TabTypes
<1>10. ASSUME NEW u \in Tabs PROVE TabOf(u)' /\ TabTexts(u)'
  <2>1. TabOf(u) /\ TabTexts(u) /\ Known \subseteq Known'
    BY <1>2 DEF LiveInv, Known
  <2>2. unsaved'[u] \subseteq Known'
    BY <1>3, <1>5, <1>7, <2>1 DEF TabTypes, TabTexts
  <2>3. CASE u = t
    BY <1>1, <1>2, <1>6, <2>1, <2>2, <2>3 DEF TabOf, TabTexts, Known
  <2>4. CASE u # t
    BY <1>1, <1>6, <2>1, <2>2, <2>4 DEF TabOf, TabTexts
  <2> QED
    BY <2>3, <2>4
<1>11. ServerInv' /\ RowTexts'
  BY <1>1, <1>2 DEF LiveInv, ServerInv, RowTexts, Known
<1>12. \A p : Held(p)' <=> Held(p) \/ p = op
  BY <1>1, <1>6 DEF Held
<1>13. TypedKept'
  BY <1>1, <1>2, <1>6, <1>12 DEF LiveInv, TypedKept
<1>14. Single'
  <2>1. \A p : Held(p) => p[1] # e
    BY <1>2 DEF LiveInv, Held, RowTexts, TabTexts, Known
  <2> QED
    BY <1>1, <1>6, <1>12, <2>1 DEF LiveInv, Single
<1> QED
  BY <1>8, <1>9, <1>10, <1>11, <1>13, <1>14 DEF LiveInv

LEMMA LiveConnect ==
  ASSUME LiveLimits, LiveInv, NEW t \in Tabs, Live!Connect(t) PROVE LiveInv'
<1> DEFINE stored   == IF loaded THEN live ELSE yjs
           merged   == stored \cup doc[t]
           inserted == Live!Fallback(t, merged)
<1>1. /\ opened[t] # 0 /\ loaded' = TRUE
      /\ content' = content /\ yjs' = yjs /\ versions' = versions
      /\ right' = right /\ opened' = opened /\ editable' = editable
      /\ opens' = opens /\ events' = events /\ typed' = typed /\ lost' = lost
      /\ initial' = [initial EXCEPT ![t] = {}] /\ synced' = [synced EXCEPT ![t] = TRUE]
      /\ writers' = IF right[t] = "edit" THEN writers \cup {opened[t]} ELSE writers
      /\ right[t] # "none"
  BY DEF Live!Connect, Live!row
<1>2. /\ conn' = [conn EXCEPT ![t] = right[t]]
      /\ live' = IF conn'[t] = "edit" THEN merged ELSE stored
      /\ dirty' = (dirty \/ live' # stored)
      /\ doc' = [doc EXCEPT ![t] = merged \cup inserted]
      /\ unsaved' = [unsaved EXCEPT ![t] = IF inserted = {} THEN @ ELSE Live!ToSave(t, doc'[t])]
      /\ raced' = (raced \/ (inserted # {} /\ \E u \in Tabs \ {t} : doc[u] # {}))
  BY DEF Live!Connect, Live!Granted
<1>3. /\ stored = live \cup yjs
      /\ inserted # {} => merged = {}
      /\ \A op \in inserted : op[1] \in initial[t] /\ op[2] = opened[t] /\ op \in initial[t] \X {opened[t]}
      /\ \A p, q \in inserted : p[1] = q[1] => p = q
  BY DEF LiveInv, ServerTypes, ServerInv, Live!Fallback
<1>4. merged = stored \cup doc[t]
  OBVIOUS
<1> HIDE DEF stored, merged, inserted
<1>5. TabTypes /\ ServerTypes /\ TellsTypes /\ BoundTypes /\ TabOf(t) /\ TabTexts(t) /\ ServerInv /\ RowTexts
  BY DEF LiveInv
<1>6. opened[t] \in 1 .. MaxOpens /\ MaxOpens \in Nat
  <2>1. opened[t] \in 0 .. MaxOpens /\ opened[t] # 0
    BY <1>1, <1>5 DEF TabTypes
  <2> QED
    BY <2>1 DEF LiveLimits
<1>7. inserted \subseteq Live!Ops /\ merged \subseteq Live!Ops /\ stored \subseteq Live!Ops
  <2>1. initial[t] \subseteq Live!Texts /\ doc[t] \subseteq Live!Ops
    BY <1>5 DEF TabTypes
  <2>2. inserted \subseteq Live!Ops
    BY <1>3, <1>6, <2>1 DEF Live!Ops
  <2> QED
    BY <1>3, <1>4, <1>5, <2>1, <2>2 DEF ServerTypes
<1>8. conn'[t] = right[t] /\ conn'[t] \in {"read", "edit"} /\ doc'[t] = merged \cup inserted
      /\ \A u \in Tabs : u # t => conn'[u] = conn[u] /\ doc'[u] = doc[u]
  <2>1. right[t] \in Live!Rights /\ right[t] # "none"
    BY <1>1, <1>5 DEF TabTypes
  <2> QED
    BY <1>2, <1>5, <2>1 DEF TabTypes, Live!Rights
<1>9. stored \subseteq live' /\ live' \subseteq merged
  BY <1>2, <1>4
<1>10. ServerTypes'
  <2>1. live' \subseteq Live!Ops /\ dirty' \in BOOLEAN
    BY <1>2, <1>5, <1>7, <1>9 DEF ServerTypes
  <2> QED
    BY <1>1, <1>5, <2>1 DEF ServerTypes
<1>11. TellsTypes' /\ BoundTypes'
  <2>1. writers' \subseteq 1 .. MaxOpens /\ raced' \in BOOLEAN
    BY <1>1, <1>2, <1>5, <1>6 DEF TellsTypes
  <2> QED
    BY <1>1, <1>5, <2>1 DEF TellsTypes, BoundTypes
<1>12. \A op \in doc'[t] : op[1] \in Known
  BY <1>3, <1>4, <1>5, <1>8 DEF RowTexts, TabTexts
<1>13. Live!ToSave(t, doc'[t]) \subseteq Known /\ Live!ToSave(t, doc'[t]) \subseteq Live!Texts
  <2>1. Known \subseteq Live!Texts
    BY <1>5 DEF Known, TellsTypes, LiveLimits, Live!Texts
  <2> QED
    BY <1>12, <2>1 DEF Live!ToSave, Live!EditsOf
<1>14. /\ unsaved' \in [Tabs -> SUBSET Live!Texts] /\ unsaved'[t] \subseteq Known
       /\ \A u \in Tabs : u # t => unsaved'[u] = unsaved[u]
  <2>1. unsaved \in [Tabs -> SUBSET Live!Texts] /\ unsaved[t] \subseteq Known
    BY <1>5 DEF TabTypes, TabTexts
  <2> DEFINE w == IF inserted = {} THEN unsaved[t] ELSE Live!ToSave(t, doc'[t])
  <2>2. w \in SUBSET Live!Texts /\ w \subseteq Known
    BY <1>13, <2>1
  <2>3. unsaved' = [unsaved EXCEPT ![t] = w]
    BY <1>2
  <2> HIDE DEF w
  <2> QED
    BY <2>1, <2>2, <2>3
<1>15. TabTypes'
  <2>1. doc' \in [Tabs -> SUBSET Live!Ops]
    <3>1. merged \cup inserted \in SUBSET Live!Ops /\ doc \in [Tabs -> SUBSET Live!Ops]
      BY <1>5, <1>7 DEF TabTypes
    <3> QED
      BY <1>2, <3>1
  <2>2. conn' \in [Tabs -> {"off", "read", "edit"}]
    <3>1. right[t] \in {"off", "read", "edit"} /\ conn \in [Tabs -> {"off", "read", "edit"}]
      BY <1>5, <1>8 DEF TabTypes
    <3> QED
      BY <1>2, <3>1
  <2>3. initial' \in [Tabs -> SUBSET Live!Texts] /\ synced' \in [Tabs -> BOOLEAN]
    BY <1>1, <1>5 DEF TabTypes
  <2> QED
    BY <1>1, <1>5, <1>14, <2>1, <2>2, <2>3 DEF TabTypes
<1>16. ServerInv'
  <2>1. yjs' \subseteq live'
    BY <1>1, <1>3, <1>9
  <2>2. \A op \in live' : op \in yjs' \/ op[1] \in lost' \/ dirty'
    BY <1>1, <1>2, <1>3, <1>5 DEF ServerInv
  <2>3. \A op \in live' \cup yjs' : op[2] \in writers'
    <3>1. \A op \in stored : op[2] \in writers
      BY <1>3, <1>5 DEF ServerInv
    <3>2. \A op \in doc[t] : op[2] \in writers \cup {opened[t]}
      BY <1>5 DEF TabOf
    <3> QED
      BY <1>1, <1>2, <1>3, <1>4, <1>8, <3>1, <3>2
  <2> QED
    BY <2>1, <2>2, <2>3 DEF ServerInv
<1>17. RowTexts'
  BY <1>1, <1>2, <1>3, <1>4, <1>5 DEF RowTexts, TabTexts, Known
<1>18. ASSUME NEW u \in Tabs PROVE TabOf(u)' /\ TabTexts(u)'
  <2>1. TabOf(u) /\ TabTexts(u)
    BY DEF LiveInv
  <2>2. CASE u = t
    <3>1. opened'[t] # 0 /\ synced'[t] = TRUE /\ loaded' = TRUE /\ initial'[t] = {}
      BY <1>1, <1>5 DEF TabTypes
    <3>2. conn'[t] = "edit" => opened'[t] \in writers'
      BY <1>1, <1>8
    <3>3. ASSUME NEW op \in doc'[t]
          PROVE  /\ op[2] \in writers' \cup {opened'[t]}
                 /\ op[2] = opened'[t] \/ op \in live' \cup yjs' \/ op[1] \in lost'
      <4>1. CASE op \in stored
        <5>1. op[2] \in writers
          BY <1>3, <1>5, <4>1 DEF ServerInv
        <5> QED
          BY <1>1, <1>9, <4>1, <5>1
      <4>2. CASE op \in doc[t]
        BY <1>1, <1>3, <1>5, <1>9, <4>2 DEF TabOf
      <4>3. CASE op \in inserted
        BY <1>1, <1>3, <4>3
      <4> QED
        BY <1>4, <1>8, <3>3, <4>1, <4>2, <4>3
    <3> QED
      BY <1>1, <1>12, <1>14, <2>2, <3>1, <3>2, <3>3 DEF TabOf, TabTexts, Known
  <2>3. CASE u # t
    <3>1. /\ opened'[u] = opened[u] /\ synced'[u] = synced[u] /\ initial'[u] = initial[u]
          /\ conn'[u] = conn[u] /\ doc'[u] = doc[u] /\ unsaved'[u] = unsaved[u]
      BY <1>1, <1>5, <1>8, <1>14, <2>3 DEF TabTypes
    <3>2. live \cup yjs \subseteq live' \cup yjs' /\ writers \subseteq writers'
      BY <1>1, <1>3, <1>9
    <3>3. TabTexts(u)'
      BY <1>1, <2>1, <3>1 DEF TabTexts, Known
    <3> QED
      BY <1>1, <2>1, <3>1, <3>2, <3>3 DEF TabOf
  <2> QED
    BY <2>2, <2>3
<1>19. \A op : Held(op)' <=> Held(op) \/ op \in inserted
  <2>1. ASSUME NEW op PROVE Held(op)' <=> Held(op) \/ op \in inserted
    <3>1. op \in live' \cup yjs' => op \in stored \cup doc[t]
      BY <1>1, <1>3, <1>4, <1>9
    <3>2. op \in stored => op \in live'
      BY <1>9
    <3>3. (\E u \in Tabs : op \in doc'[u]) <=> (op \in stored \/ op \in inserted \/ \E u \in Tabs : op \in doc[u])
      BY <1>4, <1>8
    <3> QED
      BY <1>3, <3>1, <3>2, <3>3 DEF Held
  <2> QED
    BY <2>1
<1>20. TypedKept'
  BY <1>1, <1>19 DEF LiveInv, TypedKept
<1>21. Single'
  <2>1. CASE inserted = {}
    BY <1>2, <1>19, <2>1 DEF LiveInv, Single
  <2>2. CASE inserted # {}
    <3>1. ~raced' => \A op : ~Held(op)
      BY <1>2, <1>3, <1>4, <2>2 DEF Held
    <3> QED
      BY <1>3, <1>19, <3>1 DEF Single
  <2> QED
    BY <2>1, <2>2
<1> QED
  BY <1>10, <1>11, <1>15, <1>16, <1>17, <1>18, <1>20, <1>21 DEF LiveInv

LEMMA LiveSend ==
  ASSUME LiveLimits, LiveInv, NEW t \in Tabs, Live!Send(t) PROVE LiveInv'
<1>1. /\ conn[t] = "edit" /\ live' = live \cup doc[t] /\ dirty' = TRUE
      /\ content' = content /\ yjs' = yjs /\ versions' = versions /\ loaded' = loaded
      /\ right' = right /\ opened' = opened /\ initial' = initial /\ doc' = doc
      /\ editable' = editable /\ synced' = synced /\ conn' = conn /\ unsaved' = unsaved
      /\ opens' = opens /\ events' = events
      /\ typed' = typed /\ lost' = lost /\ writers' = writers /\ raced' = raced
  BY DEF Live!Send, Live!row, Live!tab, Live!hist
<1>2. TabTypes /\ ServerTypes /\ TabOf(t) /\ TabTexts(t) /\ ServerInv /\ RowTexts
  BY DEF LiveInv
<1>3. loaded /\ opened[t] \in writers /\ doc[t] \subseteq Live!Ops
  BY <1>1, <1>2 DEF TabOf, TabTypes
<1>4. ServerTypes' /\ TellsTypes' /\ TabTypes' /\ BoundTypes'
  <2>1. ServerTypes'
    BY <1>1, <1>2, <1>3 DEF ServerTypes
  <2> QED
    BY <1>1, <2>1 DEF LiveInv, TellsTypes, TabTypes, BoundTypes
<1>5. \A u \in Tabs : TabOf(u)' /\ TabTexts(u)'
  BY <1>1 DEF LiveInv, TabOf, TabTexts, Known
<1>6. ServerInv'
  BY <1>1, <1>2, <1>3 DEF ServerInv, TabOf
<1>7. RowTexts'
  BY <1>1, <1>2 DEF RowTexts, TabTexts, Known
<1>8. \A op : Held(op)' <=> Held(op)
  BY <1>1 DEF Held
<1>9. TypedKept' /\ Single'
  BY <1>1, <1>8, Carries
<1> QED
  BY <1>4, <1>5, <1>6, <1>7, <1>9 DEF LiveInv

LEMMA LiveReceive ==
  ASSUME LiveLimits, LiveInv, NEW t \in Tabs, Live!Receive(t) PROVE LiveInv'
<1>1. /\ conn[t] # "off" /\ doc' = [doc EXCEPT ![t] = @ \cup live]
      /\ content' = content /\ yjs' = yjs /\ versions' = versions /\ loaded' = loaded
      /\ live' = live /\ dirty' = dirty
      /\ right' = right /\ opened' = opened /\ initial' = initial
      /\ editable' = editable /\ synced' = synced /\ conn' = conn /\ unsaved' = unsaved
      /\ opens' = opens /\ events' = events
      /\ typed' = typed /\ lost' = lost /\ writers' = writers /\ raced' = raced
  BY DEF Live!Receive, Live!Hears, Live!row, Live!server, Live!hist
<1>2. TabTypes /\ ServerTypes /\ ServerInv /\ RowTexts /\ TabOf(t)
  BY DEF LiveInv
<1>3. doc' \in [Tabs -> SUBSET Live!Ops] /\ doc'[t] = doc[t] \cup live
      /\ \A u \in Tabs : u # t => doc'[u] = doc[u]
  <2>1. doc \in [Tabs -> SUBSET Live!Ops] /\ live \in SUBSET Live!Ops
    BY <1>2 DEF TabTypes, ServerTypes
  <2> QED
    BY <1>1, <2>1
<1>4. ServerTypes' /\ TellsTypes' /\ TabTypes' /\ BoundTypes'
  <2>1. TabTypes'
    BY <1>1, <1>2, <1>3 DEF TabTypes
  <2> QED
    BY <1>1, <2>1 DEF LiveInv, TellsTypes, ServerTypes, BoundTypes
<1>5. ASSUME NEW u \in Tabs PROVE TabOf(u)' /\ TabTexts(u)'
  <2>1. TabOf(u) /\ TabTexts(u)
    BY DEF LiveInv
  <2>2. CASE u = t
    <3>1. \A op \in doc'[t] : op \in doc[t] \/ (op \in live /\ op[2] \in writers /\ op[1] \in Known)
      BY <1>2, <1>3 DEF ServerInv, RowTexts
    <3>2. opened[t] # 0
      BY <1>1, <1>2 DEF TabOf
    <3> QED
      BY <1>1, <2>1, <2>2, <3>1, <3>2 DEF TabOf, TabTexts, Known
  <2>3. CASE u # t
    BY <1>1, <1>3, <2>1, <2>3 DEF TabOf, TabTexts, Known
  <2> QED
    BY <2>2, <2>3
<1>6. ServerInv' /\ RowTexts'
  BY <1>1, <1>2 DEF ServerInv, RowTexts, Known
<1>7. \A op : Held(op)' <=> Held(op)
  BY <1>1, <1>3 DEF Held
<1>8. TypedKept' /\ Single'
  BY <1>1, <1>7, Carries
<1> QED
  BY <1>4, <1>5, <1>6, <1>8 DEF LiveInv

\* Saving writes the texts of a tab, which are known, to the row; the text of
\* the server and those of the tabs stay.
LEMMA LiveSave ==
  ASSUME LiveLimits, LiveInv, NEW t \in Tabs, Live!Save(t) \/ Live!SaveFails(t) PROVE LiveInv'
<1>1. /\ unsaved' = [unsaved EXCEPT ![t] = {}] /\ unsaved[t] # {}
      /\ yjs' = yjs /\ loaded' = loaded /\ live' = live /\ dirty' = dirty
      /\ right' = right /\ opened' = opened /\ initial' = initial /\ doc' = doc
      /\ editable' = editable /\ synced' = synced /\ conn' = conn
      /\ opens' = opens
      /\ typed' = typed /\ lost' = lost /\ writers' = writers /\ raced' = raced
  BY DEF Live!Save, Live!SaveFails, Live!row, Live!server, Live!hist
<1>2. events' \in 0 .. MaxEvents
  <2>1. events \in 0 .. MaxEvents
    BY DEF LiveInv, BoundTypes
  <2> QED
    BY <2>1, LiveEvent DEF Live!Save, Live!SaveFails
<1>3. TabTypes /\ ServerTypes /\ RowTexts /\ TabTexts(t)
  BY DEF LiveInv
<1>4. /\ content' = content \/ content' = unsaved[t]
      /\ \A v \in versions' : v \in versions \/ (v = content /\ v # {})
  BY DEF Live!Save, Live!SaveFails, Live!row, Live!Snapshot
<1>5. unsaved[t] \subseteq Known /\ unsaved[t] \subseteq Live!Texts
  BY <1>3 DEF TabTexts, TabTypes
<1>6. ServerTypes'
  <2>1. content' \subseteq Live!Texts /\ \A v \in versions' : v # {} /\ v \subseteq Live!Texts
    BY <1>3, <1>4, <1>5 DEF ServerTypes
  <2> QED
    BY <1>1, <1>3, <2>1 DEF ServerTypes
<1>7. TabTypes' /\ TellsTypes' /\ BoundTypes'
  <2>1. unsaved' \in [Tabs -> SUBSET Live!Texts]
    BY <1>1, <1>3 DEF TabTypes
  <2> QED
    BY <1>1, <1>2, <1>3, <2>1 DEF LiveInv, TabTypes, TellsTypes, BoundTypes
<1>8. RowTexts'
  <2>1. content' \subseteq Known /\ \A v \in versions' : v \subseteq Known
    BY <1>3, <1>4, <1>5 DEF RowTexts
  <2> QED
    BY <1>1, <1>3, <2>1 DEF RowTexts, Known
<1>9. ASSUME NEW u \in Tabs PROVE TabOf(u)' /\ TabTexts(u)'
  <2>1. TabOf(u) /\ TabTexts(u) /\ unsaved'[u] \subseteq unsaved[u]
    BY <1>1, <1>3 DEF LiveInv, TabTypes
  <2> QED
    BY <1>1, <2>1 DEF TabOf, TabTexts, Known
<1>10. ServerInv'
  BY <1>1 DEF LiveInv, ServerInv
<1>11. \A op : Held(op)' <=> Held(op)
  BY <1>1 DEF Held
<1>12. TypedKept' /\ Single'
  BY <1>1, <1>11, Carries
<1> QED
  BY <1>6, <1>7, <1>8, <1>9, <1>10, <1>12 DEF LiveInv

\* What the tab alone has is what it inserted itself.
LEMMA LiveClose ==
  ASSUME LiveLimits, LiveInv, NEW t \in Tabs, Live!Close(t) PROVE LiveInv'
<1>1. /\ opened[t] # 0 /\ (conn[t] = "edit" => doc[t] \subseteq live)
      /\ opened' = [opened EXCEPT ![t] = 0] /\ initial' = [initial EXCEPT ![t] = {}]
      /\ doc' = [doc EXCEPT ![t] = {}] /\ unsaved' = [unsaved EXCEPT ![t] = {}]
      /\ editable' = [editable EXCEPT ![t] = FALSE] /\ synced' = [synced EXCEPT ![t] = FALSE]
      /\ conn' = [conn EXCEPT ![t] = "off"]
      /\ content' = content /\ yjs' = yjs /\ versions' = versions /\ loaded' = loaded
      /\ live' = live /\ dirty' = dirty /\ right' = right
      /\ opens' = opens /\ events' = events
      /\ typed' = typed /\ writers' = writers /\ raced' = raced
  BY DEF Live!Close, Live!row, Live!server
<1>2. lost' = IF conn[t] = "edit" THEN lost
              ELSE lost \cup (Live!EditsOf({op \in doc[t] : op[2] = opened[t]}) \ {0})
  BY DEF Live!Close
<1>3. TabTypes /\ ServerTypes /\ TellsTypes /\ TabOf(t) /\ TabTexts(t)
  BY DEF LiveInv
<1>4. lost \subseteq lost' /\ lost' \subseteq Live!Texts
  <2>1. Live!EditsOf({op \in doc[t] : op[2] = opened[t]}) \subseteq Live!Texts
    BY <1>3 DEF TabTypes, Live!EditsOf, Live!Ops
  <2> QED
    BY <1>2, <1>3, <2>1 DEF TellsTypes
<1>5. ASSUME NEW op \in doc[t] PROVE op \in live \cup yjs \/ op[1] \in lost' \/ op[1] = 0
  <2>1. CASE conn[t] = "edit"
    BY <1>1, <1>5, <2>1
  <2>2. CASE conn[t] # "edit" /\ op[2] = opened[t]
    BY <1>2, <1>5, <2>2 DEF Live!EditsOf
  <2>3. CASE op[2] # opened[t]
    BY <1>3, <1>4, <1>5, <2>3 DEF TabOf
  <2> QED
    BY <2>1, <2>2, <2>3
<1>6. TabTypes'
  <2>1. opened' \in [Tabs -> 0 .. MaxOpens]
    BY <1>1, <1>3 DEF TabTypes, LiveLimits
  <2>2. initial' \in [Tabs -> SUBSET Live!Texts] /\ unsaved' \in [Tabs -> SUBSET Live!Texts]
    BY <1>1, <1>3 DEF TabTypes
  <2>3. doc' \in [Tabs -> SUBSET Live!Ops]
    BY <1>1, <1>3 DEF TabTypes
  <2>4. editable' \in [Tabs -> BOOLEAN] /\ synced' \in [Tabs -> BOOLEAN]
    BY <1>1, <1>3 DEF TabTypes
  <2>5. conn' \in [Tabs -> {"off", "read", "edit"}]
    BY <1>1, <1>3 DEF TabTypes
  <2> QED
    BY <1>1, <1>3, <2>1, <2>2, <2>3, <2>4, <2>5 DEF TabTypes
<1>7. ServerTypes' /\ TellsTypes' /\ BoundTypes'
  BY <1>1, <1>3, <1>4 DEF LiveInv, ServerTypes, TellsTypes, BoundTypes
<1>8. ASSUME NEW u \in Tabs PROVE TabOf(u)' /\ TabTexts(u)'
  <2>1. TabOf(u) /\ TabTexts(u)
    BY DEF LiveInv
  <2>2. CASE u = t
    <3>1. opened'[u] = 0 /\ doc'[u] = {} /\ conn'[u] = "off" /\ initial'[u] = {} /\ unsaved'[u] = {}
      BY <1>1, <1>3, <2>2 DEF TabTypes
    <3> QED
      BY <3>1 DEF TabOf, TabTexts
  <2>3. CASE u # t
    <3>1. /\ opened'[u] = opened[u] /\ doc'[u] = doc[u] /\ conn'[u] = conn[u]
          /\ initial'[u] = initial[u] /\ unsaved'[u] = unsaved[u] /\ synced'[u] = synced[u]
      BY <1>1, <1>3, <2>3 DEF TabTypes
    <3>2. TabTexts(u)'
      BY <1>1, <2>1, <3>1 DEF TabTexts, Known
    <3>3. \A op \in doc'[u] : /\ op[2] \in writers' \cup {opened'[u]}
                              /\ op[2] = opened'[u] \/ op \in live' \cup yjs' \/ op[1] \in lost'
      BY <1>1, <1>4, <2>1, <3>1 DEF TabOf
    <3>4. opened'[u] = 0 => doc'[u] = {} /\ conn'[u] = "off"
      BY <2>1, <3>1 DEF TabOf
    <3>5. conn'[u] # "off" => synced'[u] /\ loaded'
      BY <1>1, <2>1, <3>1 DEF TabOf
    <3>6. conn'[u] = "edit" => opened'[u] \in writers'
      BY <1>1, <2>1, <3>1 DEF TabOf
    <3> QED
      BY <3>2, <3>3, <3>4, <3>5, <3>6 DEF TabOf
  <2> QED
    BY <2>2, <2>3
<1>9. ServerInv' /\ RowTexts'
  BY <1>1, <1>4 DEF LiveInv, ServerInv, RowTexts, Known
<1>10. \A op : Held(op)' => Held(op)
  <2>1. \A u \in Tabs : doc'[u] \subseteq doc[u]
    BY <1>1, <1>3 DEF TabTypes
  <2> QED
    BY <1>1, <2>1 DEF Held
<1>11. \A op : Held(op) => Held(op)' \/ op[1] \in lost' \/ op[1] = 0
  <2>1. \A u \in Tabs : u # t => doc'[u] = doc[u]
    BY <1>1, <1>3 DEF TabTypes
  <2> QED
    BY <1>1, <1>5, <2>1 DEF Held
<1>12. TypedKept' /\ Single'
  BY <1>1, <1>4, <1>10, <1>11, Carries
<1> QED
  BY <1>6, <1>7, <1>8, <1>9, <1>12 DEF LiveInv

LEMMA LiveDrop ==
  ASSUME LiveLimits, LiveInv, NEW t \in Tabs, Live!Drop(t) PROVE LiveInv'
<1>1. /\ conn' = [conn EXCEPT ![t] = "off"]
      /\ content' = content /\ yjs' = yjs /\ versions' = versions /\ loaded' = loaded
      /\ live' = live /\ dirty' = dirty
      /\ right' = right /\ opened' = opened /\ initial' = initial /\ doc' = doc
      /\ editable' = editable /\ synced' = synced /\ unsaved' = unsaved
      /\ opens' = opens
      /\ typed' = typed /\ lost' = lost /\ writers' = writers /\ raced' = raced
  BY DEF Live!Drop, Live!row, Live!server, Live!hist
<1>2. events' \in 0 .. MaxEvents
  BY LiveEvent DEF Live!Drop
<1>3. conn' \in [Tabs -> {"off", "read", "edit"}] /\ \A u \in Tabs : conn'[u] \in {"off", conn[u]}
  BY <1>1 DEF LiveInv, TabTypes
<1>4. ServerTypes' /\ TellsTypes' /\ TabTypes' /\ BoundTypes'
  BY <1>1, <1>2, <1>3 DEF LiveInv, TellsTypes, TabTypes, ServerTypes, BoundTypes
<1>5. \A u \in Tabs : TabOf(u)' /\ TabTexts(u)'
  BY <1>1, <1>3 DEF LiveInv, TabOf, TabTexts, Known
<1>6. ServerInv' /\ RowTexts'
  BY <1>1 DEF LiveInv, ServerInv, RowTexts, Known
<1>7. \A op : Held(op)' <=> Held(op)
  BY <1>1 DEF Held
<1>8. TypedKept' /\ Single'
  BY <1>1, <1>7, Carries
<1> QED
  BY <1>4, <1>5, <1>6, <1>8 DEF LiveInv

LEMMA LiveSetRight ==
  ASSUME LiveLimits, LiveInv, NEW t \in Tabs, Live!SetRight(t) PROVE LiveInv'
<1>1. /\ content' = content /\ yjs' = yjs /\ versions' = versions /\ loaded' = loaded
      /\ live' = live /\ dirty' = dirty
      /\ opened' = opened /\ initial' = initial /\ doc' = doc
      /\ editable' = editable /\ synced' = synced /\ conn' = conn /\ unsaved' = unsaved
      /\ opens' = opens
      /\ typed' = typed /\ lost' = lost /\ writers' = writers /\ raced' = raced
  BY DEF Live!SetRight, Live!row, Live!server, Live!tab, Live!hist
<1>2. events' \in 0 .. MaxEvents
  BY LiveEvent DEF Live!SetRight
<1>3. right' \in [Tabs -> Live!Rights]
  BY DEF Live!SetRight, LiveInv, TabTypes
<1>4. ServerTypes' /\ TellsTypes' /\ TabTypes' /\ BoundTypes'
  BY <1>1, <1>2, <1>3 DEF LiveInv, TellsTypes, TabTypes, ServerTypes, BoundTypes
<1>5. \A u \in Tabs : TabOf(u)' /\ TabTexts(u)'
  BY <1>1 DEF LiveInv, TabOf, TabTexts, Known
<1>6. ServerInv' /\ RowTexts'
  BY <1>1 DEF LiveInv, ServerInv, RowTexts, Known
<1>7. \A op : Held(op)' <=> Held(op)
  BY <1>1 DEF Held
<1>8. TypedKept' /\ Single'
  BY <1>1, <1>7, Carries
<1> QED
  BY <1>4, <1>5, <1>6, <1>8 DEF LiveInv

\* The state is stored, with the document kept in the memory of the server or not.
LEMMA LiveStore ==
  ASSUME LiveLimits, LiveInv, Live!Store \/ Live!Unload PROVE LiveInv'
<1>1. /\ content' = content /\ versions' = versions
      /\ right' = right /\ opened' = opened /\ initial' = initial /\ doc' = doc
      /\ editable' = editable /\ synced' = synced /\ conn' = conn /\ unsaved' = unsaved
      /\ opens' = opens /\ events' = events /\ dirty' = FALSE
      /\ typed' = typed /\ lost' = lost /\ writers' = writers /\ raced' = raced
  BY DEF Live!Store, Live!Unload, Live!tab, Live!hist
<1>2. ServerTypes /\ ServerInv /\ TabTypes
  BY DEF LiveInv
<1>3. loaded /\ yjs \subseteq live
  BY <1>2 DEF Live!Store, Live!Unload, Live!Alone, ServerTypes, ServerInv
<1>4. \/ loaded' = loaded /\ live' = live
      \/ loaded' = FALSE /\ live' = {} /\ \A t \in Tabs : conn[t] = "off"
  BY DEF Live!Store, Live!Unload, Live!Alone
<1>5. yjs' = live \/ (~dirty /\ yjs' = yjs /\ live' = {})
  BY DEF Live!Store, Live!Unload
<1>6. ServerTypes' /\ TellsTypes' /\ TabTypes' /\ BoundTypes'
  <2>1. ServerTypes'
    BY <1>1, <1>2, <1>4, <1>5 DEF ServerTypes
  <2> QED
    BY <1>1, <2>1 DEF LiveInv, TellsTypes, TabTypes, BoundTypes
<1>7. live' \cup yjs' \subseteq live \cup yjs
  BY <1>3, <1>4, <1>5
<1>8. \A op \in live \cup yjs : op \in live' \cup yjs' \/ op[1] \in lost
  BY <1>2, <1>3, <1>5 DEF ServerInv
<1>9. ASSUME NEW u \in Tabs PROVE TabOf(u)' /\ TabTexts(u)'
  <2>1. TabOf(u) /\ TabTexts(u)
    BY DEF LiveInv
  <2>2. conn'[u] # "off" => synced'[u] /\ loaded'
    BY <1>1, <1>4, <2>1 DEF TabOf
  <2>3. TabTexts(u)'
    BY <1>1, <2>1 DEF TabTexts, Known
  <2> QED
    BY <1>1, <1>8, <2>1, <2>2, <2>3 DEF TabOf
<1>10. ServerInv'
  BY <1>1, <1>2, <1>4, <1>5, <1>7 DEF ServerInv
<1>11. RowTexts'
  BY <1>1, <1>7 DEF LiveInv, RowTexts, Known
<1>12. \A op : Held(op)' => Held(op)
  BY <1>1, <1>7 DEF Held
<1>13. \A op : Held(op) => Held(op)' \/ op[1] \in lost'
  BY <1>1, <1>8 DEF Held
<1>14. TypedKept' /\ Single'
  BY <1>1, <1>12, <1>13, Carries
<1> QED
  BY <1>6, <1>9, <1>10, <1>11, <1>14 DEF LiveInv

LEMMA LiveCrash ==
  ASSUME LiveLimits, LiveInv, Live!Crash PROVE LiveInv'
<1>1. /\ loaded /\ loaded' = FALSE /\ live' = {} /\ dirty' = FALSE
      /\ conn' = [t \in Tabs |-> "off"]
      /\ lost' = IF dirty THEN lost \cup Live!EditsOf(live \ yjs) ELSE lost
      /\ content' = content /\ yjs' = yjs /\ versions' = versions
      /\ right' = right /\ opened' = opened /\ initial' = initial /\ doc' = doc
      /\ editable' = editable /\ synced' = synced /\ unsaved' = unsaved
      /\ opens' = opens
      /\ typed' = typed /\ writers' = writers /\ raced' = raced
  BY DEF Live!Crash, Live!row
<1>2. events' \in 0 .. MaxEvents
  BY LiveEvent DEF Live!Crash
<1>3. ServerTypes /\ ServerInv /\ TellsTypes /\ RowTexts
  BY DEF LiveInv
<1>4. lost \subseteq lost' /\ lost' \subseteq Live!Texts
  <2>1. Live!EditsOf(live \ yjs) \subseteq Live!Texts
    BY <1>3 DEF ServerTypes, Live!EditsOf, Live!Ops
  <2> QED
    BY <1>1, <1>3, <2>1 DEF TellsTypes
<1>5. \A op \in live \cup yjs : op \in live' \cup yjs' \/ op[1] \in lost'
  BY <1>1, <1>3 DEF ServerInv, Live!EditsOf
<1>6. ServerTypes' /\ TellsTypes' /\ TabTypes' /\ BoundTypes'
  <2>1. ServerTypes' /\ TellsTypes'
    BY <1>1, <1>3, <1>4 DEF ServerTypes, TellsTypes
  <2> QED
    BY <1>1, <1>2, <2>1 DEF LiveInv, TabTypes, BoundTypes
<1>7. ASSUME NEW u \in Tabs PROVE TabOf(u)' /\ TabTexts(u)'
  <2>1. TabOf(u) /\ TabTexts(u) /\ conn'[u] = "off"
    BY <1>1 DEF LiveInv
  <2>2. \A op \in doc'[u] : /\ op[2] \in writers' \cup {opened'[u]}
                            /\ op[2] = opened'[u] \/ op \in live' \cup yjs' \/ op[1] \in lost'
    BY <1>1, <1>4, <1>5, <2>1 DEF TabOf
  <2> QED
    BY <1>1, <2>1, <2>2 DEF TabOf, TabTexts, Known
<1>8. ServerInv' /\ RowTexts'
  BY <1>1, <1>3 DEF ServerInv, RowTexts, Known
<1>9. \A op : Held(op)' => Held(op)
  BY <1>1 DEF Held
<1>10. \A op : Held(op) => Held(op)' \/ op[1] \in lost'
  BY <1>1, <1>5 DEF Held
<1>11. TypedKept' /\ Single'
  BY <1>1, <1>4, <1>9, <1>10, Carries
<1> QED
  BY <1>6, <1>7, <1>8, <1>11 DEF LiveInv

LEMMA LiveRestore ==
  ASSUME LiveLimits, LiveInv, NEW t \in Tabs, Live!Restore(t) PROVE LiveInv'
<1>1. /\ yjs' = {} /\ lost' = lost \cup Live!EditsOf(yjs)
      /\ loaded' = loaded /\ live' = live /\ dirty' = dirty
      /\ right' = right /\ opened' = opened /\ initial' = initial /\ doc' = doc
      /\ editable' = editable /\ synced' = synced /\ conn' = conn /\ unsaved' = unsaved
      /\ opens' = opens
      /\ typed' = typed /\ writers' = writers /\ raced' = raced
  BY DEF Live!Restore, Live!server, Live!tab
<1>2. events' \in 0 .. MaxEvents
  BY LiveEvent DEF Live!Restore
<1>3. /\ content' \in versions
      /\ \A v \in versions' : v \in versions \/ (v = content /\ v # {})
  BY DEF Live!Restore, Live!Snapshot
<1>4. ServerTypes /\ ServerInv /\ TellsTypes /\ RowTexts
  BY DEF LiveInv
<1>5. lost \subseteq lost' /\ lost' \subseteq Live!Texts
  <2>1. Live!EditsOf(yjs) \subseteq Live!Texts
    BY <1>4 DEF ServerTypes, Live!EditsOf, Live!Ops
  <2> QED
    BY <1>1, <1>4, <2>1 DEF TellsTypes
<1>6. \A op \in live \cup yjs : op \in live' \/ op[1] \in lost'
  BY <1>1 DEF Live!EditsOf
<1>7. ServerTypes' /\ TellsTypes' /\ TabTypes' /\ BoundTypes'
  <2>1. ServerTypes'
    <3>1. content' \subseteq Live!Texts /\ \A v \in versions' : v # {} /\ v \subseteq Live!Texts
      BY <1>3, <1>4 DEF ServerTypes
    <3> QED
      BY <1>1, <1>4, <3>1 DEF ServerTypes
  <2>2. TellsTypes'
    BY <1>1, <1>4, <1>5 DEF TellsTypes
  <2> QED
    BY <1>1, <1>2, <2>1, <2>2 DEF LiveInv, TabTypes, BoundTypes
<1>8. ASSUME NEW u \in Tabs PROVE TabOf(u)' /\ TabTexts(u)'
  <2>1. TabOf(u) /\ TabTexts(u)
    BY DEF LiveInv
  <2>2. \A op \in doc'[u] : /\ op[2] \in writers' \cup {opened'[u]}
                            /\ op[2] = opened'[u] \/ op \in live' \cup yjs' \/ op[1] \in lost'
    BY <1>1, <1>5, <1>6, <2>1 DEF TabOf
  <2> QED
    BY <1>1, <2>1, <2>2 DEF TabOf, TabTexts, Known
<1>9. ServerInv'
  <2>1. \A op \in live : op[1] \in lost' \/ dirty
    BY <1>1, <1>4, <1>5 DEF ServerInv, Live!EditsOf
  <2> QED
    BY <1>1, <1>4, <2>1 DEF ServerInv
<1>10. RowTexts'
  <2>1. content' \subseteq Known /\ \A v \in versions' : v \subseteq Known
    BY <1>3, <1>4 DEF RowTexts
  <2> QED
    BY <1>1, <1>4, <2>1 DEF RowTexts, Known
<1>11. \A op : Held(op)' => Held(op)
  BY <1>1 DEF Held
<1>12. \A op : Held(op) => Held(op)' \/ op[1] \in lost'
  BY <1>1, <1>6 DEF Held
<1>13. TypedKept' /\ Single'
  BY <1>1, <1>5, <1>11, <1>12, Carries
<1> QED
  BY <1>7, <1>8, <1>9, <1>10, <1>13 DEF LiveInv

LEMMA LiveNext ==
  ASSUME LiveLimits, LiveInv, [Live!Next]_(Live!vars) PROVE LiveInv'
<1>1. CASE \E t \in Tabs : \/ Live!Open(t) \/ Live!Connect(t) \/ Live!Type(t) \/ Live!Send(t)
                           \/ Live!Receive(t) \/ Live!Save(t) \/ Live!SaveFails(t) \/ Live!Close(t)
                           \/ Live!Drop(t) \/ Live!Restore(t) \/ Live!SetRight(t)
  BY <1>1, LiveOpen, LiveConnect, LiveType, LiveSend, LiveReceive, LiveSave, LiveClose, LiveDrop,
     LiveRestore, LiveSetRight
<1>2. CASE Live!Store \/ Live!Unload \/ Live!Crash
  BY <1>2, LiveStore, LiveCrash
<1>3. CASE UNCHANGED Live!vars
  <2>1. /\ content' = content /\ yjs' = yjs /\ versions' = versions /\ loaded' = loaded
        /\ live' = live /\ dirty' = dirty
        /\ right' = right /\ opened' = opened /\ initial' = initial /\ doc' = doc
        /\ editable' = editable /\ synced' = synced /\ conn' = conn /\ unsaved' = unsaved
        /\ opens' = opens /\ events' = events
        /\ typed' = typed /\ lost' = lost /\ writers' = writers /\ raced' = raced
    BY <1>3 DEF Live!vars, Live!row, Live!server, Live!tab, Live!hist
  <2>2. ServerTypes' /\ TellsTypes' /\ TabTypes' /\ BoundTypes'
    BY <2>1 DEF LiveInv, TellsTypes, TabTypes, ServerTypes, BoundTypes
  <2>3. \A u \in Tabs : TabOf(u)' /\ TabTexts(u)'
    BY <2>1 DEF LiveInv, TabOf, TabTexts, Known
  <2>4. ServerInv' /\ RowTexts'
    BY <2>1 DEF LiveInv, ServerInv, RowTexts, Known
  <2>5. \A op : Held(op)' <=> Held(op)
    BY <2>1 DEF Held
  <2>6. TypedKept' /\ Single'
    BY <2>1, <2>5, Carries
  <2> QED
    BY <2>2, <2>3, <2>4, <2>6 DEF LiveInv
<1> QED
  BY <1>1, <1>2, <1>3 DEF Live!Next

-----------------------------------------------------------------------------
(* What the document came with: GivenInv is kept by every step.            *)

\* Typed over stays typed over, lost stays lost.
LEMMA GivenGrows ==
  ASSUME GivenInv, given' = given, overtyped' \in BOOLEAN, overtyped => overtyped',
         lost \subseteq lost',
         GivenSafe' /\ RowGiven /\ (\A t \in Tabs : TabGiven(t))
             => RowGiven' /\ \A t \in Tabs : TabGiven(t)'
  PROVE  GivenInv'
<1>1. GivenSafe' => GivenSafe
  BY DEF GivenSafe
<1> QED
  BY <1>1 DEF GivenInv, GivenTypes

LEMMA GivenInit == ASSUME Live!Init PROVE GivenInv
<1>1. /\ content \in {{}, {0}} /\ yjs = {} /\ versions = {} /\ live = {}
      /\ given = content /\ overtyped = FALSE
      /\ \A t \in Tabs : opened[t] = 0 /\ doc[t] = {} /\ synced[t] = FALSE /\ unsaved[t] = {}
  BY DEF Live!Init
<1> QED
  BY <1>1 DEF GivenInv, GivenTypes, GivenSafe, RowGiven, TabGiven

LEMMA GivenOpen == ASSUME LiveInv, GivenInv, NEW t \in Tabs, Live!Open(t) PROVE GivenInv'
<1>1. /\ opened' = [opened EXCEPT ![t] = opens'] /\ initial' = [initial EXCEPT ![t] = content]
      /\ content' = content /\ yjs' = yjs /\ versions' = versions /\ live' = live
      /\ doc' = doc /\ synced' = synced /\ unsaved' = unsaved
      /\ lost' = lost /\ given' = given /\ overtyped' = overtyped
  BY DEF Live!Open, Live!row, Live!server, Live!hist
<1>2. RowGiven <=> RowGiven'
  BY <1>1 DEF RowGiven, Blank
<1>3. ASSUME RowGiven, NEW u \in Tabs, TabGiven(u) PROVE TabGiven(u)'
  <2>1. CASE u = t
    <3>1. initial'[u] = content
      BY <1>1, <2>1 DEF LiveInv, TabTypes
    <3> QED
      BY <1>1, <1>3, <3>1 DEF RowGiven, TabGiven, Blank
  <2>2. CASE u # t
    <3>1. opened'[u] = opened[u] /\ initial'[u] = initial[u]
      BY <1>1, <2>2 DEF LiveInv, TabTypes
    <3> QED
      BY <1>1, <1>3, <3>1 DEF TabGiven, Blank
  <2> QED
    BY <2>1, <2>2
<1> QED
  BY <1>1, <1>2, <1>3, GivenGrows DEF GivenInv, GivenTypes

LEMMA GivenType == ASSUME LiveInv, GivenInv, NEW t \in Tabs, Live!Type(t) PROVE GivenInv'
<1>1. /\ content' = content /\ yjs' = yjs /\ versions' = versions /\ live' = live
      /\ opened' = opened /\ initial' = initial /\ synced' = synced
      /\ lost' = lost /\ given' = given /\ overtyped' = overtyped
      /\ unsaved' = [unsaved EXCEPT ![t] = Live!ToSave(t, doc'[t])]
  BY DEF Live!Type, Live!row, Live!server
<1>2. PICK e : doc' = [doc EXCEPT ![t] = @ \cup {<<e, opened[t]>>}]
  BY DEF Live!Type
<1>3. RowGiven <=> RowGiven'
  BY <1>1 DEF RowGiven, Blank
<1>4. ASSUME NEW u \in Tabs, TabGiven(u) PROVE TabGiven(u)'
  <2>1. CASE u = t
    <3>1. doc'[u] = doc[u] \cup {<<e, opened[t]>>} /\ unsaved'[u] = Live!ToSave(t, doc'[t])
      BY <1>1, <1>2, <2>1 DEF LiveInv, TabTypes
    <3>2. synced[u] => 0 \in Live!EditsOf(doc'[u])
      BY <1>4, <3>1 DEF TabGiven, Live!EditsOf
    <3>3. unsaved'[u] # {} => unsaved'[u] = Live!EditsOf(doc'[u])
      BY <2>1, <3>1 DEF Live!ToSave
    <3> QED
      BY <1>1, <1>4, <3>1, <3>2, <3>3 DEF TabGiven, Blank
  <2>2. CASE u # t
    <3>1. doc'[u] = doc[u] /\ unsaved'[u] = unsaved[u]
      BY <1>1, <1>2, <2>2 DEF LiveInv, TabTypes
    <3> QED
      BY <1>1, <1>4, <3>1 DEF TabGiven, Blank
  <2> QED
    BY <2>1, <2>2
<1> QED
  BY <1>1, <1>3, <1>4, GivenGrows DEF GivenInv, GivenTypes

LEMMA GivenConnect == ASSUME LiveInv, GivenInv, NEW t \in Tabs, Live!Connect(t) PROVE GivenInv'
<1> DEFINE stored   == IF loaded THEN live ELSE yjs
           merged   == stored \cup doc[t]
           inserted == Live!Fallback(t, merged)
<1>1. /\ opened[t] # 0 /\ content' = content /\ yjs' = yjs /\ versions' = versions
      /\ opened' = opened /\ initial' = [initial EXCEPT ![t] = {}]
      /\ synced' = [synced EXCEPT ![t] = TRUE] /\ lost' = lost /\ given' = given
  BY DEF Live!Connect, Live!row
<1>2. /\ live' = stored \/ live' = merged
      /\ doc' = [doc EXCEPT ![t] = merged \cup inserted]
      /\ unsaved' = [unsaved EXCEPT ![t] = IF inserted = {} THEN @ ELSE Live!ToSave(t, doc'[t])]
      /\ overtyped' = (overtyped \/ (stored = {} /\ doc[t] # {} /\ ~synced[t]))
  BY DEF Live!Connect
<1>3. stored = live \cup yjs
  BY DEF LiveInv, ServerTypes, ServerInv
<1>4. merged = stored \cup doc[t]
  OBVIOUS
<1>5. inserted = IF merged = {} THEN {<<e, opened[t]>> : e \in initial[t]} ELSE {}
  BY DEF Live!Fallback
<1> HIDE DEF stored, merged, inserted
<1>6. /\ doc'[t] = merged \cup inserted /\ synced'[t] = TRUE
      /\ unsaved'[t] = IF inserted = {} THEN unsaved[t] ELSE Live!ToSave(t, doc'[t])
      /\ \A u \in Tabs : u # t => /\ doc'[u] = doc[u] /\ unsaved'[u] = unsaved[u]
                                  /\ synced'[u] = synced[u] /\ initial'[u] = initial[u]
  <2>1. TabTypes
    BY DEF LiveInv
  <2> QED
    BY <1>1, <1>2, <2>1 DEF TabTypes
<1>7. ASSUME GivenSafe', RowGiven, \A u \in Tabs : TabGiven(u)
      PROVE  RowGiven' /\ \A u \in Tabs : TabGiven(u)'
  <2>1. ~(stored = {} /\ doc[t] # {} /\ ~synced[t]) /\ TabGiven(t)
    BY <1>2, <1>7 DEF GivenSafe
  <2>2. stored # {} => 0 \in Live!EditsOf(stored)
    BY <1>3, <1>7 DEF RowGiven, Live!EditsOf
  <2>3. stored = {} /\ doc[t] # {} => 0 \in Live!EditsOf(doc[t])
    BY <2>1 DEF TabGiven
  <2>4. merged # {} => 0 \in Live!EditsOf(merged)
    BY <1>4, <2>2, <2>3 DEF Live!EditsOf
  <2>5. merged = {} => 0 \in Live!EditsOf(inserted)
    <3>1. SUFFICES ASSUME merged = {} PROVE 0 \in Live!EditsOf(inserted)
      OBVIOUS
    <3>2. doc[t] = {} /\ Blank
      BY <1>3, <1>4, <3>1 DEF Blank
    <3>3. 0 \in initial[t]
      BY <1>1, <2>1, <3>2 DEF TabGiven, Live!EditsOf
    <3>4. <<0, opened[t]>> \in inserted /\ <<0, opened[t]>>[1] = 0
      BY <1>5, <3>1, <3>3
    <3> QED
      BY <3>4 DEF Live!EditsOf
  <2>6. 0 \in Live!EditsOf(doc'[t])
    BY <1>6, <2>4, <2>5 DEF Live!EditsOf
  <2>7. live' # {} => 0 \in Live!EditsOf(live')
    BY <1>2, <1>4, <2>2, <2>4
  <2>8. Blank' => Blank
    BY <1>1, <1>2, <1>3, <1>4 DEF Blank
  <2>9. RowGiven'
    BY <1>1, <1>7, <2>7, <2>8 DEF RowGiven
  <2>10. TabGiven(t)'
    <3>1. ASSUME unsaved'[t] # {}, Blank' PROVE 0 \in unsaved'[t]
      <4>1. CASE inserted = {}
        <5>1. synced[t]
          BY <1>3, <1>6, <2>1, <2>8, <3>1, <4>1 DEF TabGiven, Blank
        <5> QED
          BY <1>6, <2>1, <2>8, <3>1, <4>1, <5>1 DEF TabGiven
      <4>2. CASE inserted # {}
        BY <1>6, <2>6, <3>1, <4>2 DEF Live!ToSave
      <4> QED
        BY <4>1, <4>2
    <3> QED
      BY <1>6, <2>6, <3>1 DEF TabGiven
  <2>11. ASSUME NEW u \in Tabs, u # t PROVE TabGiven(u)'
    <3>1. TabGiven(u)
      BY <1>7
    <3> QED
      BY <1>1, <1>6, <2>8, <2>11, <3>1 DEF TabGiven
  <2> QED
    BY <2>9, <2>10, <2>11
<1>8. overtyped' \in BOOLEAN /\ (overtyped => overtyped')
  BY <1>2 DEF GivenInv, GivenTypes
<1> QED
  BY <1>1, <1>7, <1>8, GivenGrows

\* The tabs and the row keep what they have; an empty document stays empty, or
\* is filled from a tab that has it.
LEMMA GivenSend == ASSUME LiveInv, GivenInv, NEW t \in Tabs, Live!Send(t) PROVE GivenInv'
<1>1. /\ conn[t] = "edit" /\ live' = live \cup doc[t]
      /\ content' = content /\ yjs' = yjs /\ versions' = versions
      /\ opened' = opened /\ initial' = initial /\ doc' = doc
      /\ synced' = synced /\ unsaved' = unsaved
      /\ lost' = lost /\ given' = given /\ overtyped' = overtyped
  BY DEF Live!Send, Live!row, Live!tab, Live!hist
<1>2. synced[t] /\ (Blank' => Blank)
  BY <1>1 DEF LiveInv, TabOf, Blank
<1>3. ASSUME RowGiven, \A u \in Tabs : TabGiven(u)
      PROVE  RowGiven' /\ \A u \in Tabs : TabGiven(u)'
  <2>1. 0 \in Live!EditsOf(live')
    BY <1>1, <1>2, <1>3 DEF TabGiven, Live!EditsOf
  <2>2. RowGiven'
    BY <1>1, <1>2, <1>3, <2>1 DEF RowGiven
  <2> QED
    BY <1>1, <1>2, <1>3, <2>2 DEF TabGiven
<1> QED
  BY <1>1, <1>3, GivenGrows DEF GivenInv, GivenTypes

LEMMA GivenReceive == ASSUME LiveInv, GivenInv, NEW t \in Tabs, Live!Receive(t) PROVE GivenInv'
<1>1. /\ doc' = [doc EXCEPT ![t] = @ \cup live]
      /\ content' = content /\ yjs' = yjs /\ versions' = versions /\ live' = live
      /\ opened' = opened /\ initial' = initial /\ synced' = synced /\ unsaved' = unsaved
      /\ lost' = lost /\ given' = given /\ overtyped' = overtyped
  BY DEF Live!Receive, Live!row, Live!server, Live!hist
<1>2. \A u \in Tabs : doc[u] \subseteq doc'[u]
  BY <1>1 DEF LiveInv, TabTypes
<1>3. ASSUME RowGiven, \A u \in Tabs : TabGiven(u)
      PROVE  RowGiven' /\ \A u \in Tabs : TabGiven(u)'
  <2>1. \A u \in Tabs : synced[u] => 0 \in Live!EditsOf(doc'[u])
    BY <1>2, <1>3 DEF TabGiven, Live!EditsOf
  <2>2. RowGiven'
    BY <1>1, <1>3 DEF RowGiven, Blank
  <2> QED
    BY <1>1, <1>2, <1>3, <2>1, <2>2 DEF TabGiven, Blank
<1> QED
  BY <1>1, <1>3, GivenGrows DEF GivenInv, GivenTypes

\* What a tab that has been synchronised saves has what was given; what one that
\* has not saves over content is told.
LEMMA GivenSave ==
  ASSUME LiveInv, GivenInv, NEW t \in Tabs, Live!Save(t) \/ Live!SaveFails(t) PROVE GivenInv'
<1>1. /\ unsaved' = [unsaved EXCEPT ![t] = {}] /\ unsaved[t] # {}
      /\ yjs' = yjs /\ live' = live /\ opened' = opened /\ initial' = initial /\ doc' = doc
      /\ synced' = synced /\ lost' = lost /\ given' = given
  BY DEF Live!Save, Live!SaveFails, Live!row, Live!server, Live!hist
<1>2. /\ content' = content \/ content' = unsaved[t]
      /\ \A v \in versions' : v \in versions \/ v = content
  BY DEF Live!Save, Live!SaveFails, Live!row, Live!Snapshot
<1>3. /\ overtyped' \in BOOLEAN /\ (overtyped => overtyped')
      /\ ~synced[t] /\ live \cup yjs = {} /\ content' # content => overtyped'
  BY DEF Live!Save, Live!SaveFails, Live!row, Live!hist, GivenInv, GivenTypes
<1>4. \A u \in Tabs : unsaved'[u] = IF u = t THEN {} ELSE unsaved[u]
  BY <1>1 DEF LiveInv, TabTypes
<1>5. ASSUME GivenSafe', RowGiven, \A u \in Tabs : TabGiven(u)
      PROVE  RowGiven' /\ \A u \in Tabs : TabGiven(u)'
  <2>1. Blank => 0 \in content'
    BY <1>1, <1>2, <1>3, <1>5 DEF GivenSafe, RowGiven, TabGiven, Blank
  <2>2. RowGiven'
    BY <1>1, <1>2, <1>5, <2>1 DEF RowGiven, Blank
  <2> QED
    BY <1>1, <1>4, <1>5, <2>2 DEF TabGiven, Blank
<1> QED
  BY <1>1, <1>3, <1>5, GivenGrows

LEMMA GivenClose == ASSUME LiveInv, GivenInv, NEW t \in Tabs, Live!Close(t) PROVE GivenInv'
<1>1. /\ opened' = [opened EXCEPT ![t] = 0] /\ initial' = [initial EXCEPT ![t] = {}]
      /\ doc' = [doc EXCEPT ![t] = {}] /\ unsaved' = [unsaved EXCEPT ![t] = {}]
      /\ synced' = [synced EXCEPT ![t] = FALSE]
      /\ content' = content /\ yjs' = yjs /\ versions' = versions /\ live' = live
      /\ given' = given /\ overtyped' = overtyped /\ lost \subseteq lost'
  BY DEF Live!Close, Live!row, Live!server
<1>2. ASSUME RowGiven, \A u \in Tabs : TabGiven(u)
      PROVE  RowGiven' /\ \A u \in Tabs : TabGiven(u)'
  <2>1. RowGiven'
    BY <1>1, <1>2 DEF RowGiven, Blank
  <2>2. ASSUME NEW u \in Tabs PROVE TabGiven(u)'
    <3>1. TabGiven(u) /\ TabTypes
      BY <1>2 DEF LiveInv
    <3>2. CASE u = t
      <4>1. opened'[u] = 0 /\ unsaved'[u] = {} /\ synced'[u] = FALSE
        BY <1>1, <3>1, <3>2 DEF TabTypes
      <4> QED
        BY <4>1 DEF TabGiven
    <3>3. CASE u # t
      <4>1. /\ opened'[u] = opened[u] /\ initial'[u] = initial[u] /\ doc'[u] = doc[u]
            /\ unsaved'[u] = unsaved[u] /\ synced'[u] = synced[u]
        BY <1>1, <3>1, <3>3 DEF TabTypes
      <4> QED
        BY <1>1, <3>1, <4>1 DEF TabGiven, Blank
    <3> QED
      BY <3>2, <3>3
  <2> QED
    BY <2>1, <2>2
<1> QED
  BY <1>1, <1>2, GivenGrows DEF GivenInv, GivenTypes

\* What was given leaves the server and yjsState only when it is told as lost.
LEMMA GivenServer ==
  ASSUME LiveInv, GivenInv, Live!Store \/ Live!Unload \/ Live!Crash PROVE GivenInv'
<1>1. /\ content' = content /\ versions' = versions /\ opened' = opened /\ initial' = initial
      /\ doc' = doc /\ synced' = synced /\ unsaved' = unsaved
      /\ given' = given /\ overtyped' = overtyped /\ lost \subseteq lost'
  BY DEF Live!Store, Live!Unload, Live!Crash, Live!row, Live!tab, Live!hist
<1>2. /\ live' = live \/ live' = {}
      /\ yjs' = live \/ (yjs' = yjs /\ live' = {})
  BY DEF Live!Store, Live!Unload, Live!Crash, Live!row
<1>3. \A op \in live \cup yjs : op \in live' \cup yjs' \/ op[1] \in lost'
  <2>1. loaded /\ yjs \subseteq live /\ \A op \in live : op \in yjs \/ op[1] \in lost \/ dirty
    BY DEF LiveInv, ServerTypes, ServerInv, Live!Store, Live!Unload, Live!Alone, Live!Crash
  <2>2. CASE Live!Store \/ Live!Unload
    BY <1>1, <2>1, <2>2 DEF Live!Store, Live!Unload
  <2>3. CASE Live!Crash
    <3>1. yjs' = yjs /\ (dirty => Live!EditsOf(live \ yjs) \subseteq lost')
      BY <2>3 DEF Live!Crash, Live!row
    <3> QED
      BY <1>1, <2>1, <3>1 DEF Live!EditsOf
  <2> QED
    BY <2>2, <2>3
<1>4. ASSUME GivenSafe', RowGiven, \A u \in Tabs : TabGiven(u)
      PROVE  RowGiven' /\ \A u \in Tabs : TabGiven(u)'
  <2>1. Blank' => Blank
    BY <1>3, <1>4 DEF GivenSafe, RowGiven, Blank, Live!EditsOf
  <2>2. RowGiven'
    BY <1>1, <1>2, <1>4, <2>1 DEF RowGiven
  <2> QED
    BY <1>1, <1>4, <2>1, <2>2 DEF TabGiven
<1> QED
  BY <1>1, <1>4, GivenGrows DEF GivenInv, GivenTypes

LEMMA GivenRestore == ASSUME LiveInv, GivenInv, NEW t \in Tabs, Live!Restore(t) PROVE GivenInv'
<1>1. /\ yjs' = {} /\ lost' = lost \cup Live!EditsOf(yjs) /\ live' = live
      /\ opened' = opened /\ initial' = initial /\ doc' = doc /\ synced' = synced
      /\ unsaved' = unsaved /\ given' = given /\ overtyped' = overtyped
  BY DEF Live!Restore, Live!server, Live!tab
<1>2. content' \in versions /\ \A v \in versions' : v \in versions \/ v = content
  BY DEF Live!Restore, Live!Snapshot
<1>3. ASSUME GivenSafe', RowGiven, \A u \in Tabs : TabGiven(u)
      PROVE  RowGiven' /\ \A u \in Tabs : TabGiven(u)'
  <2>1. yjs = {}
    BY <1>1, <1>3 DEF GivenSafe, RowGiven
  <2>2. Blank' <=> Blank
    BY <1>1, <2>1 DEF Blank
  <2>3. RowGiven'
    BY <1>1, <1>2, <1>3, <2>2 DEF RowGiven
  <2> QED
    BY <1>1, <1>3, <2>2, <2>3 DEF TabGiven
<1> QED
  BY <1>1, <1>3, GivenGrows DEF GivenInv, GivenTypes

LEMMA GivenNext == ASSUME LiveInv, GivenInv, [Live!Next]_(Live!vars) PROVE GivenInv'
<1>1. CASE \E t \in Tabs : \/ Live!Open(t) \/ Live!Connect(t) \/ Live!Type(t) \/ Live!Send(t)
                           \/ Live!Receive(t) \/ Live!Save(t) \/ Live!SaveFails(t) \/ Live!Close(t)
                           \/ Live!Restore(t)
  BY <1>1, GivenOpen, GivenConnect, GivenType, GivenSend, GivenReceive, GivenSave, GivenClose,
     GivenRestore
<1>2. CASE Live!Store \/ Live!Unload \/ Live!Crash
  BY <1>2, GivenServer
<1>3. CASE UNCHANGED Live!vars \/ \E t \in Tabs : Live!Drop(t) \/ Live!SetRight(t)
  <2>1. /\ content' = content /\ yjs' = yjs /\ versions' = versions /\ live' = live
        /\ opened' = opened /\ initial' = initial /\ doc' = doc /\ synced' = synced
        /\ unsaved' = unsaved /\ lost' = lost /\ given' = given /\ overtyped' = overtyped
    BY <1>3 DEF Live!vars, Live!row, Live!server, Live!tab, Live!hist, Live!Drop, Live!SetRight
  <2> QED
    BY <2>1 DEF GivenInv, GivenTypes, GivenSafe, RowGiven, TabGiven, Blank
<1> QED
  BY <1>1, <1>2, <1>3 DEF Live!Next

(* In every document with any number of tabs, guests, edits, failures and  *)
(* restores: what was typed is in a tab, in the server or in the row, or   *)
(* lost for a cause the code accepts; what it came with is in content or   *)
(* in the Yjs document, unless lost for such a cause or typed over before  *)
(* the first synchronisation; what others see comes from those who might   *)
(* write; no text is twice where none was inserted in a race               *)
(* (DocsEditor.tsx, collab.server.ts).                                     *)
THEOREM DocumentsAlwaysHold == LiveLimits => (Spec => []DocumentsHold)
<1> SUFFICES ASSUME LiveLimits PROVE Spec => []DocumentsHold
  OBVIOUS
<1> DEFINE Kept == focus = "document" => LiveInv /\ GivenInv
<1>1. Init => Kept
  BY LiveInit, GivenInit, FirstOfFocus
<1>2. Kept /\ [Next]_vars => Kept'
  BY LiveNext, GivenNext, StepOfFocus
<1>3. Kept => DocumentsHold
  BY LiveInvHolds DEF DocumentsHold
<1> QED
  BY <1>1, <1>2, <1>3, PTL DEF Spec
=============================================================================
