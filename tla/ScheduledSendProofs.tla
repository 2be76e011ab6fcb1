------------------------ MODULE ScheduledSendProofs ------------------------
(***************************************************************************)
(* Scheduled send is safe for any number of messages, processes and        *)
(* crashes.  The invariant of ScheduledSend is inductive (Safe and         *)
(* DueFirst), and the properties the runs check follow from it.            *)
(***************************************************************************)
EXTENDS ScheduledSend, TLAPS

LEMMA InitIInv == Init => IInv
  BY ConstantsAssumption
     DEF Init, IInv, TypeOK, Safe, DueFirst, AtMostOnce, NoFalseReport,
         Status, Unclaimed, InHand, PC

\* The user's and the provider's steps, and time, disturb no worker.
LEMMA EnvironmentKeepsIInv ==
  ASSUME IInv, User \/ Provider \/ Tick
  PROVE  IInv'
<1> USE ConstantsAssumption DEF IInv, TypeOK, Safe, DueFirst, AtMostOnce,
        NoFalseReport, Status, Unclaimed, InHand, PC, rowVars, mailVars
<1>1. CASE SignInOrOut
  BY <1>1 DEF SignInOrOut
<1>2. ASSUME NEW m \in Msgs, Cancel(m) PROVE IInv'
  BY <1>2 DEF Cancel
<1>3. ASSUME NEW m \in Msgs, NEW d \in 0 .. MaxDelay, Schedule(m, d) PROVE IInv'
  BY <1>3 DEF Schedule
<1>4. ASSUME NEW m \in Msgs, Accept(m) PROVE IInv'
  BY <1>4 DEF Accept
<1>5. ASSUME NEW m \in Msgs, Refuse(m) PROVE IInv'
  BY <1>5 DEF Refuse
<1>6. CASE Tick
  BY <1>6 DEF Tick
<1> QED
  BY <1>1, <1>2, <1>3, <1>4, <1>5, <1>6 DEF User, Provider

\* No step of the cron job, and no crash, disturbs it either.
LEMMA WorkerKeepsIInv ==
  ASSUME IInv, NEW w \in Workers, LocalStep(w) \/ Answer(w) \/ Fault(w)
  PROVE  IInv'
<1> USE ConstantsAssumption DEF IInv, TypeOK, Safe, DueFirst, AtMostOnce,
        NoFalseReport, Status, Unclaimed, InHand, PC, rowVars, mailVars
<1>1. CASE Sweep(w)
  BY <1>1 DEF Sweep, Stuck
<1>2. CASE Query(w)
  BY <1>2 DEF Query
<1>3. ASSUME NEW m \in Msgs, Claim(w, m) PROVE IInv'
  BY <1>3 DEF Claim
<1>4. ASSUME NEW m \in Msgs, LoseClaim(w, m) PROVE IInv'
  BY <1>4 DEF LoseClaim
<1>5. CASE EndTick(w)
  BY <1>5 DEF EndTick
<1>6. CASE Call(w)
  BY <1>6 DEF Call
<1>7. CASE AnswerOk(w)
  BY <1>7 DEF AnswerOk
<1>8. CASE AnswerError(w)
  BY <1>8 DEF AnswerError
<1>9. CASE RecordSent(w)
  BY <1>9 DEF RecordSent, SetIfSending
<1>10. CASE RecordSentFails(w)
  BY <1>10 DEF RecordSentFails
<1>11. CASE Notify(w)
  <2>1. /\ pc[w] = "notify" /\ cur[w] \in Msgs
        /\ delivered[cur[w]] = 1 /\ notified[cur[w]] = 0
    BY <1>11 DEF Notify
  <2>2. \/ notified' = notified
        \/ notified' = [notified EXCEPT ![cur[w]] = 1]
    BY <1>11, <2>1 DEF Notify
  <2>3. /\ pc' = [pc EXCEPT ![w] = "loop"]
        /\ cur' = [cur EXCEPT ![w] = NoMsg]
        /\ UNCHANGED <<status, dueIn, age, token, batch, wire, delivered, crashes>>
    BY <1>11 DEF Notify
  <2>4. notified' \in [Msgs -> Nat]
    BY <2>1, <2>2
  <2>5. \A m \in Msgs : /\ notified'[m] <= delivered[m]
                        /\ m # cur[w] => notified'[m] = notified[m]
                        /\ status[m] \in Unclaimed => notified'[m] = 0
    BY <2>1, <2>2
  <2>6. \A v \in Workers : pc'[v] \in InHand => notified'[cur'[v]] = 0
    BY <2>1, <2>3, <2>5
  <2>7. TypeOK'
    BY <2>3, <2>4
  <2>8. DueFirst'
    BY <2>3
  <2>9. Safe'
    BY <2>1, <2>3, <2>5, <2>6
  <2> QED
    BY <2>7, <2>8, <2>9
<1>12. CASE RecordFailed(w)
  BY <1>12 DEF RecordFailed, SetIfSending
<1>13. CASE TickThrows(w) \/ Crash(w)
  <2>1. /\ pc' = [pc EXCEPT ![w] = "idle"]
        /\ batch' = [batch EXCEPT ![w] = {}]
        /\ cur' = [cur EXCEPT ![w] = NoMsg]
        /\ UNCHANGED <<status, dueIn, age, token, wire, delivered, notified>>
    BY <1>13 DEF TickThrows, Crash, Abandon
  <2>2. TypeOK'
    BY <1>13, <2>1 DEF TickThrows, Crash
  <2>3. Safe'
    BY <2>1
  <2>4. DueFirst'
    BY <2>1
  <2> QED
    BY <2>2, <2>3, <2>4
<1> QED
  BY <1>1, <1>2, <1>3, <1>4, <1>5, <1>6, <1>7, <1>8, <1>9, <1>10, <1>11,
     <1>12, <1>13 DEF LocalStep, Answer, Fault

LEMMA NextKeepsIInv == IInv /\ [Next]_vars => IInv'
<1>1. CASE UNCHANGED vars
  BY <1>1 DEF vars, rowVars, mailVars, IInv, TypeOK, Safe, DueFirst,
              AtMostOnce, NoFalseReport
<1>2. CASE Next
  BY <1>2, EnvironmentKeepsIInv, WorkerKeepsIInv DEF Next
<1> QED
  BY <1>1, <1>2

\* In every reachable state the variables have their types, what a worker
\* holds is claimed for good, and only due rows are in hand.
THEOREM InductiveInvariant == Spec => []IInv
<1> QED
  BY InitIInv, NextKeepsIInv, PTL DEF Spec

\* The provider never accepts a scheduled message twice, whatever the number
\* of processes and crashes.
THEOREM DeliveredAtMostOnce == Spec => []AtMostOnce
<1>1. IInv => AtMostOnce
  BY DEF IInv, Safe
<1> QED
  BY <1>1, InductiveInvariant, PTL

\* A cancelled message is in nobody's hands, on no wire and in no mailbox.
THEOREM CancelIsBinding == Spec => []CancelledNeverDelivered
<1>1. IInv => CancelledNeverDelivered
  BY ConstantsAssumption
     DEF IInv, TypeOK, Safe, CancelledNeverDelivered, Unclaimed, InHand, PC
<1> QED
  BY <1>1, InductiveInvariant, PTL

\* "Sent" is only ever reported of accepted mail, and at most once.
THEOREM ReportsAreTrue == Spec => []NoFalseReport
<1>1. IInv => NoFalseReport
  BY DEF IInv, Safe
<1> QED
  BY <1>1, InductiveInvariant, PTL

\* Nothing leaves before its time.
THEOREM NeverEarly == Spec => []NotEarly
<1>1. IInv => NotEarly
  BY DEF IInv, TypeOK, Safe, DueFirst, NotEarly, Unclaimed
<1> QED
  BY <1>1, InductiveInvariant, PTL

\* All of it together: what the run of the model checks, for any number of
\* messages, processes, delays and crashes.
THEOREM DeliveryAlwaysHolds == Spec => []DeliveryHolds
  BY InductiveInvariant, DeliveredAtMostOnce, CancelIsBinding, ReportsAreTrue, NeverEarly,
     PTL DEF DeliveryHolds

-----------------------------------------------------------------------------
\* What writing one row, or several, does to the phases.
LEMMA PhaseTable ==
  /\ Phase("NONE") = "new" /\ Phase("PENDING") = "waiting"
  /\ Phase("CANCELLED") = "withdrawn" /\ Phase("SENDING") = "started"
  /\ Phase("SENT") = "sent" /\ Phase("FAILED") = "failed"
  BY DEF Phase

LEMMA WriteOne ==
  ASSUME TypeOK, NEW m \in Msgs, NEW new,
         status' = [status EXCEPT ![m] = new]
  PROVE  jobPhase' = [jobPhase EXCEPT ![m] = Phase(new)]
  BY DEF jobPhase, TypeOK

\* Every step of the rows is a step of the one-shot jobs, or none.
LEMMA StepRefines ==
  ASSUME IInv, Next
  PROVE  OneShot!Next \/ UNCHANGED OneShot!vars
<1> DEFINE Same == UNCHANGED OneShot!vars
<1> USE PhaseTable
<1>t. TypeOK
  BY DEF IInv
<1>p. \A m \in Msgs : jobPhase[m] = Phase(status[m])
  BY DEF jobPhase
<1>a. UNCHANGED <<status, delivered>> => Same
  BY DEF OneShot!vars, jobPhase
<1>1. ASSUME NEW m \in Msgs, NEW d \in 0 .. MaxDelay, Schedule(m, d)
      PROVE  OneShot!Submit(m)
  <2>1. jobPhase' = [jobPhase EXCEPT ![m] = Phase("PENDING")]
    BY <1>1, <1>t, WriteOne DEF Schedule
  <2> QED
    BY <1>1, <1>p, <2>1 DEF Schedule, OneShot!Submit, mailVars
<1>2. ASSUME NEW m \in Msgs, Cancel(m) PROVE OneShot!Withdraw(m)
  <2>1. jobPhase' = [jobPhase EXCEPT ![m] = Phase("CANCELLED")]
    BY <1>2, <1>t, WriteOne DEF Cancel
  <2> QED
    BY <1>2, <1>p, <2>1 DEF Cancel, OneShot!Withdraw, mailVars
<1>3. ASSUME NEW m \in Msgs, Accept(m) PROVE OneShot!Effect(m)
  <2>1. status[m] \in {"SENDING", "FAILED"} /\ delivered[m] = 0
    BY <1>3 DEF Accept, IInv, TypeOK, Safe, AtMostOnce, NoFalseReport,
                Unclaimed, Status
  <2>2. UNCHANGED jobPhase
    BY <1>3 DEF Accept, rowVars, jobPhase
  <2> QED
    BY <1>3, <1>p, <2>1, <2>2 DEF Accept, OneShot!Effect, IInv, TypeOK
<1>4. ASSUME NEW w \in Workers, Sweep(w) PROVE OneShot!CloseFailed
  <2> DEFINE S == {m \in Msgs : Stuck(m)}
  <2>1. S \in SUBSET {m \in Msgs : jobPhase[m] = "started"}
    BY <1>p DEF Stuck
  <2>2. jobPhase' = [m \in Msgs |-> IF m \in S THEN "failed" ELSE jobPhase[m]]
    <3>1. \A m \in Msgs : status'[m] = IF m \in S THEN "FAILED" ELSE status[m]
      BY <1>4 DEF Sweep
    <3>2. jobPhase' = [m \in Msgs |-> Phase(status'[m])]
      BY DEF jobPhase
    <3> QED
      BY <1>p, <3>1, <3>2
  <2> QED
    BY <1>4, <2>1, <2>2 DEF Sweep, OneShot!CloseFailed, mailVars
<1>5. ASSUME NEW w \in Workers, NEW m \in Msgs, Claim(w, m)
      PROVE  OneShot!Start(m)
  <2>1. jobPhase' = [jobPhase EXCEPT ![m] = Phase("SENDING")]
    BY <1>5, <1>t, WriteOne DEF Claim
  <2> QED
    BY <1>5, <1>p, <2>1 DEF Claim, OneShot!Start, mailVars
<1>6. ASSUME NEW w \in Workers, RecordSent(w)
      PROVE  (OneShot!CloseSent(cur[w]) /\ cur[w] \in Msgs) \/ Same
  <2>1. cur[w] \in Msgs /\ delivered[cur[w]] = 1
    BY <1>6 DEF RecordSent, IInv, Safe, InHand
  <2>2. CASE status[cur[w]] = "SENDING"
    <3>1. jobPhase' = [jobPhase EXCEPT ![cur[w]] = Phase("SENT")]
      BY <1>6, <1>t, <2>1, <2>2, WriteOne DEF RecordSent, SetIfSending
    <3> QED
      BY <1>6, <1>p, <2>1, <2>2, <3>1 DEF RecordSent, OneShot!CloseSent, mailVars
  <2>3. CASE status[cur[w]] # "SENDING"
    BY <1>6, <1>a, <2>3 DEF RecordSent, SetIfSending, mailVars
  <2> QED
    BY <2>2, <2>3
<1>7. ASSUME NEW w \in Workers, RecordFailed(w)
      PROVE  OneShot!CloseFailed \/ Same
  <2>1. CASE status[cur[w]] = "SENDING"
    <3>1. cur[w] \in Msgs
      BY <1>7 DEF RecordFailed, IInv, Safe, InHand
    <3>2. {cur[w]} \in SUBSET {m \in Msgs : jobPhase[m] = "started"}
      BY <1>p, <2>1, <3>1
    <3>3. jobPhase' = [m \in Msgs |->
                         IF m \in {cur[w]} THEN "failed" ELSE jobPhase[m]]
      <4>1. jobPhase' = [jobPhase EXCEPT ![cur[w]] = Phase("FAILED")]
        BY <1>7, <1>t, <2>1, <3>1, WriteOne DEF RecordFailed, SetIfSending
      <4> QED
        BY <4>1 DEF jobPhase
    <3> QED
      BY <1>7, <3>2, <3>3 DEF RecordFailed, OneShot!CloseFailed, mailVars
  <2>2. CASE status[cur[w]] # "SENDING"
    BY <1>7, <1>a, <2>2 DEF RecordFailed, SetIfSending, mailVars
  <2> QED
    BY <2>1, <2>2
<1>8. ASSUME NEW w \in Workers, NEW m \in Msgs, LoseClaim(w, m) PROVE Same
  BY <1>8, <1>a DEF LoseClaim, rowVars, mailVars
<1>9. ASSUME NEW w \in Workers,
             \/ Query(w) \/ EndTick(w) \/ Call(w) \/ Notify(w)
             \/ Answer(w) \/ Fault(w)
      PROVE  Same
  BY <1>9, <1>a DEF Query, EndTick, Call, Notify, Answer, AnswerOk, AnswerError,
     Fault, RecordSentFails, TickThrows, Crash, Abandon, rowVars, mailVars
<1>10. ASSUME NEW m \in Msgs, Refuse(m) PROVE Same
  BY <1>10, <1>a DEF Refuse, rowVars
<1>11. CASE SignInOrOut \/ Tick
  BY <1>11, <1>a DEF SignInOrOut, Tick, rowVars, mailVars
<1> HIDE DEF Same
<1> QED
  BY <1>1, <1>2, <1>3, <1>4, <1>5, <1>6, <1>7, <1>8, <1>9, <1>10, <1>11
     DEF Next, User, Provider, LocalStep, OneShot!Next, Same

\* processDueScheduled, with any number of processes and crashes, implements
\* the one-shot job: started once, effect once, withdrawn only before.
THEOREM RefinesOneShot == Spec => ImplementsOneShot
<1>1. Init => OneShot!Init
  BY PhaseTable DEF Init, OneShot!Init, jobPhase
<1>2. IInv /\ [Next]_vars => [OneShot!Next]_(OneShot!vars)
  <2>1. UNCHANGED vars => UNCHANGED OneShot!vars
    BY DEF vars, rowVars, mailVars, OneShot!vars, jobPhase
  <2> QED
    BY <2>1, StepRefines
<1> QED
  BY <1>1, <1>2, InductiveInvariant, PTL DEF Spec, ImplementsOneShot, OneShot!Spec

\* No step, of any process, rewrites an outcome.
THEOREM OutcomesAreFinal == Spec => SettledIsFinal
<1>1. IInv /\ [Next]_vars =>
        [\A m \in Msgs : status[m] \in Settled => status'[m] = status[m]]_vars
  <2> SUFFICES ASSUME IInv, Next, NEW m \in Msgs, status[m] \in Settled
               PROVE  status'[m] = status[m]
    OBVIOUS
  <2> USE DEF Settled, IInv, TypeOK
  <2>1. CASE User \/ Provider \/ Tick
    BY <2>1 DEF User, SignInOrOut, Cancel, Schedule, Provider, Accept, Refuse,
                Tick, rowVars
  <2>2. ASSUME NEW w \in Workers, LocalStep(w) PROVE status'[m] = status[m]
    BY <2>2 DEF LocalStep, Sweep, Stuck, Query, EndTick, Call, RecordSent, Notify,
                RecordFailed, SetIfSending, Claim, LoseClaim, rowVars
  <2>3. ASSUME NEW w \in Workers, Answer(w) \/ Fault(w)
        PROVE  status'[m] = status[m]
    BY <2>3 DEF Answer, AnswerOk, AnswerError, Fault, RecordSentFails,
                TickThrows, Crash, Abandon, rowVars
  <2> QED
    BY <2>1, <2>2, <2>3 DEF Next
<1> QED
  BY <1>1, InductiveInvariant, PTL DEF Spec, SettledIsFinal
=============================================================================
