------------------------ MODULE OfflineOutboxProofs ------------------------
(***************************************************************************)
(* The outbox for any number of tabs, rows and attempts.  IInv is          *)
(* inductive; its parts are proved one after the other, each over the      *)
(* steps that can disturb it.                                              *)
(***************************************************************************)
EXTENDS OfflineOutbox, WellFoundedInduction, TLAPS

-----------------------------------------------------------------------------
(* Numbers and sequences.                                                  *)

LEMMA LeastOf ==
  ASSUME NEW T, T \subseteq Nat, T # {}
  PROVE  \E x \in T : \A y \in T : x <= y
<1>1. \E x \in T : \A y \in T : ~(<<y, x>> \in OpToRel(<, Nat))
  BY NatLessThanWellFounded, WFMin
<1>2. PICK x \in T : \A y \in T : ~(<<y, x>> \in OpToRel(<, Nat))
  BY <1>1
<1>3. ASSUME NEW y \in T PROVE x <= y
  <2>1. <<y, x>> \in Nat \X Nat
    OBVIOUS
  <2>2. ~(y < x)
    BY <1>2, <2>1 DEF OpToRel
  <2> QED
    BY <2>2
<1> QED
  BY <1>3

LEMMA GreatestOf ==
  ASSUME NEW n \in Nat, NEW T, T \subseteq 1 .. n, T # {}
  PROVE  \E x \in T : \A y \in T : y <= x
<1> DEFINE U == {n - x : x \in T}
<1>1. PICK u \in U : \A v \in U : u <= v
  <2>1. \A x \in T : n - x \in Nat /\ n - x \in U
    OBVIOUS
  <2>2. U \subseteq Nat /\ U # {}
    BY <2>1
  <2> HIDE DEF U
  <2> QED
    BY <2>2, LeastOf
<1>2. PICK x \in T : u = n - x
  BY <1>1
<1>3. ASSUME NEW y \in T PROVE y <= x
  <2>1. u <= n - y
    BY <1>1
  <2> QED
    BY <1>2, <2>1
<1> QED
  BY <1>3

LEMMA HeadFacts ==
  ASSUME NEW S, NEW s \in Seq(S), s # <<>>
  PROVE  /\ Head(s) = s[1] /\ Head(s) \in S /\ 1 \in DOMAIN s
         /\ Tail(s) \in Seq(S)
         /\ \A k \in DOMAIN Tail(s) : k + 1 \in DOMAIN s /\ Tail(s)[k] = s[k + 1]
         /\ DOMAIN s \subseteq Nat /\ \A k \in DOMAIN s : k >= 1 /\ s[k] \in S
         /\ \A k \in DOMAIN s : k > 1 => k - 1 \in DOMAIN Tail(s) /\ Tail(s)[k - 1] = s[k]
  OBVIOUS

LEMMA AppendFacts ==
  ASSUME NEW S, NEW s \in Seq(S), NEW x \in S
  PROVE  /\ Append(s, x) \in Seq(S)
         /\ Range(Append(s, x)) = Range(s) \cup {x}
         /\ \A k \in DOMAIN Append(s, x) :
               \/ k \in DOMAIN s /\ Append(s, x)[k] = s[k]
               \/ k = Len(s) + 1 /\ Append(s, x)[k] = x
<1>1. /\ Append(s, x) \in Seq(S)
      /\ \A k \in DOMAIN Append(s, x) :
            \/ k \in DOMAIN s /\ Append(s, x)[k] = s[k]
            \/ k = Len(s) + 1 /\ Append(s, x)[k] = x
  OBVIOUS
<1>2. /\ \A k \in DOMAIN s : k \in DOMAIN Append(s, x) /\ Append(s, x)[k] = s[k]
      /\ Len(s) + 1 \in DOMAIN Append(s, x) /\ Append(s, x)[Len(s) + 1] = x
  OBVIOUS
<1>3. Range(Append(s, x)) = Range(s) \cup {x}
  BY <1>1, <1>2 DEF Range
<1> QED
  BY <1>1, <1>3

-----------------------------------------------------------------------------
LEMMA OpsFacts == Ops \subseteq Nat \ {0} /\ MaxAttempts \in Nat \ {0} /\ MaxWait \in Nat \ {0}
  BY ConstantsAssumption DEF Ops

LEMMA InitIInv == Init => IInv
<1> SUFFICES ASSUME Init PROVE IInv
  OBVIOUS
<1> USE DEF Init
<1>1. Range(applied) = {} /\ Stored = {}
  BY DEF Range, Stored
<1>2. TypeOK
  <2>1. /\ ahead \in [Ops -> SUBSET Ops] /\ status \in [Ops -> Statuses]
        /\ attempts \in [Ops -> Nat] /\ wait \in [Ops -> 0 .. MaxWait]
        /\ dest \in [Ops -> Folders \cup {None}] /\ calls \in [Ops -> Nat]
    BY OpsFacts DEF Statuses
  <2>2. /\ pc \in [Tabs -> PC] /\ batch \in [Tabs -> Seq(Ops)]
        /\ call \in [Tabs -> {"none", "sent", "applied", "refused"}]
        /\ seen \in [Tabs -> Nat] /\ timer \in [Tabs -> Off .. MaxWait]
        /\ adding \in [Tabs -> Folders \cup {None}]
        /\ callbacks \in [Tabs -> SUBSET Ops]
    BY OpsFacts DEF PC, Off
  <2>3. applied \in Seq(Ops)
    OBVIOUS
  <2> QED
    BY <2>1, <2>2, <2>3 DEF TypeOK
<1>3. OrderInv /\ RowsInv /\ RunnerInv
  BY <1>1 DEF OrderInv, RowsInv, RunnerInv, Stands, Busy, Trying
<1>4. HandInv /\ TriesInv /\ WordInv
  BY <1>1, OpsFacts DEF HandInv, Hand, TriesInv, WordInv, Busy
<1>5. FifoInv /\ SmoothInv /\ WishInv
  BY <1>1 DEF FifoInv, FifoUnlessRetried, Overtakes, SmoothInv, WishInv, Smooth
<1> QED
  BY <1>2, <1>3, <1>4, <1>5 DEF IInv, OneTabInv

-----------------------------------------------------------------------------
(* What the helpers return.                                                *)

LEMMA HandFacts ==
  ASSUME TypeOK, RunnerInv, NEW t \in Tabs, batch[t] # <<>>
  PROVE  /\ Head1(t) \in Ops /\ Head1(t) = batch[t][1] /\ 1 \in DOMAIN batch[t]
         /\ status[Head1(t)] # "none" /\ Tail(batch[t]) \in Seq(Ops)
<1>1. batch[t] \in Seq(Ops)
  BY DEF TypeOK
<1> QED
  BY <1>1, HeadFacts DEF RunnerInv, Stands, Head1

LEMMA BusyFacts ==
  ASSUME TypeOK, RunnerInv, NEW t \in Tabs,
         pc[t] \in {"call", "await", "done", "failRead", "failWrite"}
            \/ call[t] # "none"
  PROVE  /\ batch[t] # <<>> /\ Busy(t)
         /\ Head1(t) \in Ops /\ Head1(t) = batch[t][1] /\ 1 \in DOMAIN batch[t]
         /\ status[Head1(t)] # "none" /\ Tail(batch[t]) \in Seq(Ops)
<1>1. Busy(t) /\ batch[t] # <<>>
  BY DEF RunnerInv, Stands, Busy
<1> QED
  BY <1>1, HandFacts

LEMMA HelperTypes ==
  ASSUME TypeOK, NEW o \in Ops, NEW first \in SUBSET Ops
  PROVE  /\ Placed(o, first) \in [Ops -> SUBSET Ops]
         /\ Without(o) \in [Ops -> SUBSET Ops]
         /\ \A d \in Int : DueBy(d) \subseteq Stored /\ \A s \in Places(o, d) : s \subseteq Stored \ {o}
         /\ Stored \subseteq Ops
  BY DEF TypeOK, Placed, Without, DueBy, Places, Stored

LEMMA NextScheduledType ==
  ASSUME TypeOK PROVE NextScheduledIn \in Off .. MaxWait
<1>1. PendingWaits \subseteq 0 .. MaxWait
  BY DEF TypeOK, PendingWaits
<1>2. CASE PendingWaits = {}
  BY <1>2, OpsFacts DEF NextScheduledIn, Off
<1>3. CASE PendingWaits # {}
  <2>1. 0 .. MaxWait \subseteq Off .. MaxWait
    BY OpsFacts DEF Off
  <2>2. \E d \in PendingWaits : \A e \in PendingWaits : d <= e
    <3>1. PendingWaits \subseteq Nat
      BY <1>1, OpsFacts
    <3> QED
      BY <1>3, <3>1, LeastOf
  <2> QED
    BY <1>1, <1>3, <2>1, <2>2 DEF NextScheduledIn
<1> QED
  BY <1>2, <1>3

LEMMA EffectFacts ==
  ASSUME TypeOK, RowsInv, NEW o \in Ops, TakesEffect(o), status[o] # "none"
  PROVE  /\ folder' \in Folders /\ applied' \in Seq(Ops)
         /\ Range(applied') = Range(applied) \cup {o}
<1>1. folder' \in Folders
  BY DEF TakesEffect, RowsInv
<1>2. applied \in Seq(Ops)
  BY DEF TypeOK
<1>3. CASE o \in Range(applied)
  BY <1>1, <1>2, <1>3 DEF TakesEffect
<1>4. CASE o \notin Range(applied)
  BY <1>1, <1>2, <1>4, AppendFacts DEF TakesEffect
<1> QED
  BY <1>1, <1>3, <1>4

-----------------------------------------------------------------------------
(* Types.                                                                  *)

RowTypes ==
    /\ ahead \in [Ops -> SUBSET Ops] /\ status \in [Ops -> Statuses]
    /\ attempts \in [Ops -> Nat] /\ wait \in [Ops -> 0 .. MaxWait]
    /\ dest \in [Ops -> Folders \cup {None}]
RunTypes ==
    /\ pc \in [Tabs -> PC] /\ batch \in [Tabs -> Seq(Ops)]
    /\ call \in [Tabs -> {"none", "sent", "applied", "refused"}] /\ seen \in [Tabs -> Nat]
TimerTypes == timer \in [Tabs -> Off .. MaxWait]
TabTypes ==
    /\ adding \in [Tabs -> Folders \cup {None}] /\ callbacks \in [Tabs -> SUBSET Ops]
    /\ online \in BOOLEAN /\ reloads \in Nat /\ failures \in Nat
MailTypes ==
    /\ folder \in Folders /\ orphans \subseteq Ops /\ applied \in Seq(Ops)
    /\ calls \in [Ops -> Nat]
HistTypes ==
    /\ intent \in Folders /\ merged \in BOOLEAN /\ muted \subseteq Ops /\ reported \subseteq Ops

LEMMA TypeParts ==
  TypeOK <=> RowTypes /\ RunTypes /\ TimerTypes /\ TabTypes /\ MailTypes /\ HistTypes
  BY DEF TypeOK, RowTypes, RunTypes, TimerTypes, TabTypes, MailTypes, HistTypes

LEMMA FlushTypes ==
  ASSUME NEW t \in Tabs, pc \in [Tabs -> PC], TimerTypes, Flush(t)
  PROVE  pc' \in [Tabs -> PC] /\ TimerTypes'
<1>1. "drain" \in PC /\ Off \in Off .. MaxWait
  BY OpsFacts DEF PC, Off
<1>2. CASE pc[t] = "idle"
  BY <1>1, <1>2 DEF Flush, TimerTypes
<1>3. CASE pc[t] # "idle"
  BY <1>3 DEF Flush, TimerTypes
<1> QED
  BY <1>2, <1>3

LEMMA PCFacts ==
  /\ {"closed", "idle", "drain", "op", "call", "await", "done", "failRead", "failWrite"} \subseteq PC
  /\ {"none", "pending", "running", "failed", "gone"} \subseteq Statuses
  /\ Off \in Off .. MaxWait
  BY OpsFacts DEF PC, Statuses, Off

LEMMA NextKeepsTypeOK ==
  TypeOK /\ RowsInv /\ RunnerInv /\ [Next]_vars => TypeOK'
<1> SUFFICES ASSUME TypeOK, RowsInv, RunnerInv, [Next]_vars PROVE TypeOK'
  OBVIOUS
<1>a. RowTypes /\ RunTypes /\ TimerTypes /\ TabTypes /\ MailTypes /\ HistTypes
  BY TypeParts
<1>b. RowTypes' /\ RunTypes' /\ TimerTypes' /\ TabTypes' /\ MailTypes' /\ HistTypes' => TypeOK'
  BY TypeParts, PTL
<1> USE DEF world, work, rows, mail, hist
<1>R. UNCHANGED rows => RowTypes'
  BY <1>a DEF RowTypes
<1>W. UNCHANGED work => RunTypes'
  BY <1>a DEF RunTypes
<1>T. UNCHANGED timer => TimerTypes'
  BY <1>a DEF TimerTypes
<1>B. UNCHANGED <<adding, callbacks, online, reloads, failures>> => TabTypes'
  BY <1>a DEF TabTypes
<1>M. UNCHANGED <<mail, calls>> => MailTypes'
  BY <1>a DEF MailTypes
<1>H. UNCHANGED hist => HistTypes'
  BY <1>a DEF HistTypes
<1>0. CASE UNCHANGED vars
  BY <1>0, <1>b, <1>R, <1>W, <1>T, <1>B, <1>M, <1>H DEF vars
<1>1. CASE GoOnline
  <2>1. RunTypes' /\ TimerTypes' /\ TabTypes'
    BY <1>1, <1>a, PCFacts DEF GoOnline, RunTypes, TimerTypes, TabTypes
  <2> QED
    BY <1>1, <2>1, <1>b, <1>R, <1>M, <1>H DEF GoOnline
<1>1a. CASE GoOffline
  <2>1. TabTypes'
    BY <1>1a, <1>a DEF GoOffline, TabTypes
  <2> QED
    BY <1>1a, <2>1, <1>b, <1>R, <1>W, <1>T, <1>M, <1>H DEF GoOffline
<1>2. CASE Tick
  <2>1. wait' \in [Ops -> 0 .. MaxWait]
    <3>1. \A o \in Ops : wait[o] \in 0 .. MaxWait /\ (wait[o] > 0 => wait[o] - 1 \in 0 .. MaxWait)
      BY <1>a, OpsFacts DEF RowTypes
    <3> QED
      BY <1>2, <3>1, OpsFacts DEF Tick
  <2>2. timer' \in [Tabs -> Off .. MaxWait]
    <3>1. \A t \in Tabs : timer[t] \in Off .. MaxWait /\ (timer[t] > 0 => timer[t] - 1 \in Off .. MaxWait)
      BY <1>a, OpsFacts DEF TimerTypes, Off
    <3> QED
      BY <1>2, <3>1 DEF Tick
  <2>3. RowTypes' /\ TimerTypes'
    BY <1>2, <2>1, <2>2, <1>a DEF Tick, RowTypes, TimerTypes
  <2> QED
    BY <1>2, <2>3, <1>b, <1>W, <1>B, <1>M, <1>H DEF Tick
<1>3. ASSUME NEW o \in Ops, ServerMeetsOrphan(o) PROVE TypeOK'
  <2>1. o \in orphans /\ status[o] # "none"
    BY <1>3 DEF ServerMeetsOrphan, RowsInv
  <2>2. folder' \in Folders /\ applied' \in Seq(Ops)
    BY <1>3, <2>1, <1>a, EffectFacts DEF ServerMeetsOrphan, MailTypes
  <2>3. MailTypes'
    BY <1>3, <2>2, <1>a DEF ServerMeetsOrphan, MailTypes
  <2> QED
    BY <1>3, <2>3, <1>b, <1>R, <1>W, <1>T, <1>B, <1>H DEF ServerMeetsOrphan
<1>4. ASSUME NEW t \in Tabs, NEW f \in Folders, EnqueueLooks(t, f) PROVE TypeOK'
  <2>1. TabTypes' /\ HistTypes'
    BY <1>4, <1>a DEF EnqueueLooks, TabTypes, HistTypes
  <2> QED
    BY <1>4, <2>1, <1>b, <1>R, <1>W, <1>T, <1>M DEF EnqueueLooks
<1>4a. ASSUME NEW t \in Tabs, NEW f \in Folders, EnqueueMerges(t, f) PROVE TypeOK'
  <2>1. pc' \in [Tabs -> PC] /\ TimerTypes'
    BY <1>4a, <1>a, FlushTypes DEF EnqueueMerges, RunTypes
  <2>2. RunTypes'
    BY <1>4a, <2>1, <1>a DEF EnqueueMerges, RunTypes
  <2>3. TabTypes' /\ HistTypes'
    BY <1>4a, <1>a DEF EnqueueMerges, TabTypes, HistTypes, Live
  <2> QED
    BY <1>4a, <2>1, <2>2, <2>3, <1>b, <1>R, <1>M DEF EnqueueMerges
<1>5. ASSUME NEW t \in Tabs, EnqueueAdds(t) PROVE TypeOK'
  <2>1. pc' \in [Tabs -> PC] /\ TimerTypes'
    BY <1>5, <1>a, FlushTypes DEF EnqueueAdds, RunTypes
  <2>2. RunTypes'
    BY <1>5, <2>1, <1>a DEF EnqueueAdds, RunTypes
  <2>3. PICK o \in Ops :
           /\ status' = [status EXCEPT ![o] = "pending"]
           /\ dest' = [dest EXCEPT ![o] = adding[t]]
           /\ ahead' = Placed(o, DueBy(0))
           /\ callbacks' = [callbacks EXCEPT ![t] = @ \cup {o}]
    BY <1>5 DEF EnqueueAdds
  <2>4. ahead' \in [Ops -> SUBSET Ops]
    <3>1. DueBy(0) \in SUBSET Ops
      BY DEF DueBy, Stored
    <3> QED
      BY <2>3, <3>1, HelperTypes
  <2>5. RowTypes'
    BY <1>5, <2>3, <2>4, <1>a, PCFacts DEF EnqueueAdds, RowTypes, TabTypes
  <2>6. TabTypes'
    BY <1>5, <2>3, <1>a DEF EnqueueAdds, TabTypes
  <2> QED
    BY <1>5, <2>1, <2>2, <2>5, <2>6, <1>b, <1>M, <1>H DEF EnqueueAdds
<1>6. ASSUME NEW t \in Tabs, RunnerStep(t) PROVE TypeOK'
  <2>1. CASE Start(t)
    <3>1. RowTypes' /\ RunTypes'
      BY <2>1, <1>a, PCFacts DEF Start, RowTypes, RunTypes
    <3> QED
      BY <2>1, <3>1, <1>b, <1>T, <1>B, <1>M, <1>H DEF Start
  <2>2. CASE Peek(t)
    <3>1. PICK n \in 1 .. BatchSize : \E b \in [1 .. n -> Ready] : batch' = [batch EXCEPT ![t] = b]
      BY <2>2 DEF Peek
    <3>2. PICK b \in [1 .. n -> Ready] : batch' = [batch EXCEPT ![t] = b]
      BY <3>1
    <3>3. n \in Nat /\ Ready \subseteq Ops
      BY ConstantsAssumption DEF Ready
    <3>4. b \in Seq(Ops)
      BY <3>3
    <3>5. RunTypes'
      BY <2>2, <3>2, <3>4, <1>a, PCFacts DEF Peek, RunTypes
    <3> QED
      BY <2>2, <3>5, <1>b, <1>R, <1>T, <1>B, <1>M, <1>H DEF Peek
  <2>3. CASE EndDrain(t)
    <3>1. TimerTypes' /\ RunTypes'
      BY <2>3, <1>a, NextScheduledType, PCFacts DEF EndDrain, TimerTypes, RunTypes
    <3> QED
      BY <2>3, <3>1, <1>b, <1>R, <1>B, <1>M, <1>H DEF EndDrain
  <2>4. CASE EndBatch(t) \/ AnswerOk(t)
    <3>1. RunTypes'
      BY <2>4, <1>a, PCFacts DEF EndBatch, AnswerOk, RunTypes
    <3> QED
      BY <2>4, <3>1, <1>b, <1>R, <1>T, <1>B, <1>M, <1>H DEF EndBatch, AnswerOk
  <2>5. CASE MarkRunning(t)
    <3>1. RowTypes' /\ RunTypes'
      BY <2>5, <1>a, PCFacts DEF MarkRunning, RunTypes, RowTypes
    <3> QED
      BY <2>5, <3>1, <1>b, <1>T, <1>B, <1>M, <1>H DEF MarkRunning
  <2>6. CASE Call(t)
    <3>1. RunTypes'
      BY <2>6, <1>a, PCFacts DEF Call, RunTypes
    <3>2. MailTypes'
      BY <2>6, <1>a, BusyFacts DEF Call, MailTypes
    <3> QED
      BY <2>6, <3>1, <3>2, <1>b, <1>R, <1>T, <1>B, <1>H DEF Call
  <2>8. CASE AnswerError(t)
    <3>1. Head1(t) \in Ops
      BY <2>8, BusyFacts DEF AnswerError
    <3>2. RunTypes'
      BY <2>8, <1>a, PCFacts DEF AnswerError, RunTypes
    <3>3. MailTypes' /\ TabTypes'
      BY <2>8, <3>1, <1>a DEF AnswerError, MailTypes, TabTypes
    <3> QED
      BY <2>8, <3>2, <3>3, <1>b, <1>R, <1>T, <1>H DEF AnswerError
  <2>9. CASE MarkDone(t)
    <3>1. Head1(t) \in Ops /\ Tail(batch[t]) \in Seq(Ops)
      BY <2>9, BusyFacts DEF MarkDone
    <3>2. RunTypes'
      BY <2>9, <3>1, <1>a, PCFacts DEF MarkDone, Done, RunTypes
    <3>3. ahead' \in [Ops -> SUBSET Ops]
      BY <2>9, <3>1, HelperTypes DEF MarkDone, Delete
    <3>4. RowTypes'
      BY <2>9, <3>1, <3>3, <1>a, PCFacts DEF MarkDone, Delete, RowTypes
    <3> QED
      BY <2>9, <3>2, <3>4, <1>b, <1>T, <1>B, <1>M, <1>H DEF MarkDone
  <2>10. CASE FailRead(t)
    <3>1. Head1(t) \in Ops /\ Tail(batch[t]) \in Seq(Ops)
      BY <2>10, BusyFacts DEF FailRead
    <3>2. attempts[Head1(t)] \in Nat
      BY <3>1, <1>a DEF RowTypes
    <3>3. RunTypes'
      BY <2>10, <3>1, <3>2, <1>a, PCFacts DEF FailRead, Done, RunTypes
    <3> QED
      BY <2>10, <3>3, <1>b, <1>R, <1>T, <1>B, <1>M, <1>H DEF FailRead
  <2>11. CASE FailWrite(t)
    <3> DEFINE o == Head1(t)
    <3>1. o \in Ops /\ Tail(batch[t]) \in Seq(Ops)
      BY <2>11, BusyFacts DEF FailWrite
    <3>2. seen[t] + 1 \in Nat
      BY <1>a DEF RunTypes
    <3>3. RowTypes'
      <4>1. CASE UNCHANGED rows
        BY <4>1, <1>R
      <4>2. CASE GiveUp(o, seen[t] + 1)
        BY <4>2, <3>1, <3>2, <1>a, PCFacts DEF GiveUp, RowTypes
      <4>3. ASSUME NEW d \in Backoff, Retry(o, seen[t] + 1, d)
            PROVE  RowTypes'
        <5>1. PICK first \in Places(o, d) : ahead' = Placed(o, first)
          BY <4>3 DEF Retry
        <5>2. first \in SUBSET Ops
          BY <5>1 DEF Places, DueBy, Stored
        <5>3. ahead' \in [Ops -> SUBSET Ops]
          BY <3>1, <5>1, <5>2, HelperTypes
        <5>4. d \in 0 .. MaxWait
          BY OpsFacts DEF Backoff
        <5> QED
          BY <4>3, <3>1, <3>2, <5>3, <5>4, <1>a, PCFacts DEF Retry, RowTypes
      <4> QED
        BY <2>11, <4>1, <4>2, <4>3 DEF FailWrite
    <3>4. RunTypes'
      BY <2>11, <3>1, <1>a, PCFacts DEF FailWrite, Done, RunTypes
    <3> QED
      BY <2>11, <3>3, <3>4, <1>b, <1>T, <1>B, <1>M, <1>H DEF FailWrite
  <2>12. CASE Wake(t)
    <3>1. pc' \in [Tabs -> PC] /\ TimerTypes'
      BY <2>12, <1>a, FlushTypes DEF Wake, RunTypes
    <3>2. RunTypes'
      BY <2>12, <3>1, <1>a DEF Wake, RunTypes
    <3> QED
      BY <2>12, <3>1, <3>2, <1>b, <1>R, <1>B, <1>M, <1>H DEF Wake
  <2> QED
    BY <1>6, <2>1, <2>2, <2>3, <2>4, <2>5, <2>6, <2>8, <2>9, <2>10, <2>11, <2>12
       DEF RunnerStep
<1>7. ASSUME NEW t \in Tabs, NEW o \in Ops, Report(t, o) PROVE TypeOK'
  <2>1. TabTypes' /\ HistTypes'
    BY <1>7, <1>a DEF Report, TabTypes, HistTypes
  <2> QED
    BY <1>7, <2>1, <1>b, <1>R, <1>W, <1>T, <1>M DEF Report
<1>7a. ASSUME NEW t \in Tabs, NEW o \in Ops, DropFailed(t, o) PROVE TypeOK'
  <2>1. ahead' \in [Ops -> SUBSET Ops]
    BY <1>7a, HelperTypes DEF DropFailed, Delete
  <2>2. RowTypes'
    BY <1>7a, <2>1, <1>a, PCFacts DEF DropFailed, Delete, RowTypes
  <2> QED
    BY <1>7a, <2>2, <1>b, <1>W, <1>T, <1>B, <1>M, <1>H DEF DropFailed
<1>8. ASSUME NEW t \in Tabs, Reload(t) PROVE TypeOK'
  <2>1. call[t] = "sent" => Head1(t) \in Ops
    BY BusyFacts
  <2>2. MailTypes' /\ HistTypes'
    BY <1>8, <2>1, <1>a DEF Reload, MailTypes, HistTypes, TabTypes
  <2>3. RunTypes'
    <3>1. <<>> \in Seq(Ops)
      OBVIOUS
    <3> QED
      BY <1>8, <3>1, <1>a, PCFacts DEF Reload, RunTypes
  <2>4. TimerTypes' /\ TabTypes'
    BY <1>8, <1>a, PCFacts DEF Reload, TimerTypes, TabTypes
  <2> QED
    BY <1>8, <2>2, <2>3, <2>4, <1>b, <1>R DEF Reload
<1>9. ASSUME NEW t \in Tabs, ServerAnswers(t) PROVE TypeOK'
  <2>1. Head1(t) \in Ops /\ status[Head1(t)] # "none"
    BY <1>9, BusyFacts DEF ServerAnswers
  <2>2. folder' \in Folders /\ applied' \in Seq(Ops)
    BY <1>9, <2>1, <1>a, EffectFacts DEF ServerAnswers, MailTypes
  <2>3. MailTypes'
    BY <1>9, <2>2, <1>a DEF ServerAnswers, MailTypes
  <2>4. RunTypes'
    BY <1>9, <1>a DEF ServerAnswers, RunTypes
  <2>5. TabTypes'
    BY <1>9, <1>a DEF ServerAnswers, TabTypes
  <2> QED
    BY <1>9, <2>3, <2>4, <2>5, <1>b, <1>R, <1>T, <1>H DEF ServerAnswers
<1> QED
  BY <1>0, <1>1, <1>1a, <1>2, <1>3, <1>4, <1>4a, <1>5, <1>6, <1>7, <1>7a, <1>8, <1>9
     DEF Next, User, Reconcile

-----------------------------------------------------------------------------
(* The order of the rows.                                                  *)

LEMMA PlacedKeepsOrder ==
  ASSUME TypeOK, OrderInv, NEW o \in Ops, NEW d \in Nat,
         NEW first \in SUBSET (Stored \ {o}),
         \A p \in first : wait[p] <= d /\ \A q \in ahead[p] : q = o \/ q \in first,
         \A p \in Stored \ first : p # o => wait[p] >= d,
         ahead' = Placed(o, first), Stored' = Stored \cup {o},
         wait'[o] = d, \A p \in Ops \ {o} : wait'[p] = wait[p]
  PROVE  OrderInv'
<1>1. /\ Stored \subseteq Ops
      /\ \A p \in Ops : ahead[p] \subseteq Ops /\ wait[p] \in Nat
  BY DEF TypeOK, Stored
<1>2. /\ ahead'[o] = first
      /\ \A p \in Stored \ first : p # o => ahead'[p] = ahead[p] \cup {o}
      /\ \A p \in Ops : p # o /\ p \notin Stored \ first => ahead'[p] = ahead[p] \ {o}
  <2>1. ahead'[o] = first
    BY DEF Placed
  <2>2. \A p \in Ops : p # o /\ p \in Stored \ first => ahead'[p] = ahead[p] \cup {o}
    BY DEF Placed
  <2>3. \A p \in Ops : p # o /\ p \notin Stored \ first => ahead'[p] = ahead[p] \ {o}
    BY DEF Placed
  <2> QED
    BY <1>1, <2>1, <2>2, <2>3
<1>3. ASSUME NEW x \in Ops, NEW y \in ahead'[x]
      PROVE  /\ x \in Stored' /\ y \in Stored' /\ wait'[y] <= wait'[x]
             /\ x \notin ahead'[y]
  <2>1. CASE x = o
    <3>1. y \in first /\ y # o /\ ahead'[y] = ahead[y] \ {o}
      BY <1>1, <1>2, <1>3, <2>1
    <3> QED
      BY <1>1, <2>1, <3>1
  <2>2. CASE x # o /\ y = o
    <3>1. x \in Stored \ first
      BY <1>2, <1>3, <2>2
    <3> QED
      BY <1>1, <1>2, <2>2, <3>1
  <2>3. CASE x # o /\ y # o
    <3>1. y \in ahead[x] /\ y \in Ops
      BY <1>1, <1>2, <1>3, <2>3
    <3>2. x \in Stored /\ y \in Stored /\ wait[y] <= wait[x] /\ x \notin ahead[y]
      BY <3>1 DEF OrderInv
    <3>3. x \notin ahead'[y]
      BY <1>2, <2>3, <3>1, <3>2
    <3> QED
      BY <1>1, <2>3, <3>1, <3>2, <3>3
  <2> QED
    BY <2>1, <2>2, <2>3
<1>4. ASSUME NEW x \in Ops, NEW y \in ahead'[x], NEW z \in ahead'[y]
      PROVE  z \in ahead'[x]
  <2>0. y \in Ops /\ z \in Ops /\ \A u \in ahead[y] : u \in Ops
    BY <1>1, <1>3 DEF Stored
  <2>1. CASE x = o
    BY <1>1, <1>2, <1>3, <1>4, <2>1
  <2>2. CASE x # o /\ y = o
    <3>1. x \in Stored \ first /\ z \in first /\ x \in Ops
      BY <1>2, <1>4, <2>2
    <3>2. z \in Stored /\ z # x /\ x \notin ahead[z]
      BY <3>1, <2>2
    <3>3. z \in ahead[x]
      BY <3>1, <3>2 DEF OrderInv
    <3> QED
      BY <1>2, <2>2, <3>1, <3>3
  <2>3. CASE x # o /\ y # o /\ z = o
    <3>1. y \in ahead[x] /\ y \in Stored \ first /\ y \in Ops
      BY <1>2, <1>4, <2>0, <2>3
    <3>2. x \in Stored
      BY <3>1 DEF OrderInv
    <3>3. x \notin first
      BY <3>1, <2>3
    <3> QED
      BY <1>2, <2>3, <3>2, <3>3
  <2>4. CASE x # o /\ y # o /\ z # o
    <3>1. y \in ahead[x] /\ z \in ahead[y] /\ y \in Ops
      BY <1>2, <1>4, <2>0, <2>4
    <3>2. z \in ahead[x]
      BY <3>1 DEF OrderInv
    <3> QED
      BY <1>2, <2>4, <3>2
  <2> QED
    BY <2>1, <2>2, <2>3, <2>4
<1>5. ASSUME NEW x \in Stored', NEW y \in Stored'
      PROVE  x = y \/ x \in ahead'[y] \/ y \in ahead'[x]
  <2>1. CASE x = o \/ y = o
    BY <1>1, <1>2, <1>5, <2>1
  <2>2. CASE x # o /\ y # o
    <3>1. x \in Stored /\ y \in Stored /\ x \in Ops /\ y \in Ops
      BY <1>1, <1>5, <2>2
    <3>2. x = y \/ x \in ahead[y] \/ y \in ahead[x]
      BY <3>1 DEF OrderInv
    <3> QED
      BY <1>2, <2>2, <3>1, <3>2
  <2> QED
    BY <2>1, <2>2
<1> QED
  BY <1>3, <1>4, <1>5 DEF OrderInv

LEMMA WithoutKeepsOrder ==
  ASSUME TypeOK, OrderInv, NEW o \in Ops,
         ahead' = Without(o), Stored' = Stored \ {o}, wait' = wait
  PROVE  OrderInv'
<1>1. /\ ahead'[o] = {}
      /\ \A p \in Ops : p # o => ahead'[p] = ahead[p] \ {o}
      /\ Stored \subseteq Ops
  BY DEF Without, Stored
<1>2. \A x \in Ops : \A y \in ahead'[x] : x # o /\ y # o /\ y \in ahead[x]
  BY <1>1
<1>3. \A x \in Ops : \A y \in ahead'[x] :
         /\ x \in Stored' /\ y \in Stored' /\ wait'[y] <= wait'[x]
         /\ x \notin ahead'[y]
  <2> TAKE x \in Ops
  <2> TAKE y \in ahead'[x]
  <2>1. x # o /\ y # o /\ y \in ahead[x] /\ y \in Ops
    BY <1>2 DEF TypeOK
  <2>2. x \in Stored /\ y \in Stored /\ wait[y] <= wait[x] /\ x \notin ahead[y] /\ y \in Ops
    BY <2>1, <1>1 DEF OrderInv
  <2> QED
    BY <1>1, <2>1, <2>2
<1>4. \A x \in Ops : \A y \in ahead'[x] : \A z \in ahead'[y] : z \in ahead'[x]
  <2> TAKE x \in Ops
  <2> TAKE y \in ahead'[x]
  <2> TAKE z \in ahead'[y]
  <2>1. x # o /\ y # o /\ y \in ahead[x] /\ y \in Ops
    BY <1>1, <1>2, <1>3
  <2>2. z # o /\ z \in ahead[y]
    BY <1>2, <2>1
  <2>3. z \in ahead[x]
    BY <2>1, <2>2 DEF OrderInv
  <2> QED
    BY <1>1, <2>1, <2>2, <2>3
<1>5. \A x, y \in Stored' : x = y \/ x \in ahead'[y] \/ y \in ahead'[x]
  <2> TAKE x, y \in Stored'
  <2>1. x \in Stored /\ y \in Stored /\ x # o /\ y # o /\ x \in Ops /\ y \in Ops
    BY <1>1
  <2>2. x = y \/ x \in ahead[y] \/ y \in ahead[x]
    BY <2>1 DEF OrderInv
  <2> QED
    BY <1>1, <2>1, <2>2
<1> QED
  BY <1>3, <1>4, <1>5 DEF OrderInv

\* The steps that leave the rows as they are.
Unrowed(t) ==
    \/ Peek(t) \/ EndDrain(t) \/ EndBatch(t) \/ Call(t) \/ AnswerOk(t) \/ AnswerError(t)
    \/ FailRead(t) \/ Wake(t) \/ Reload(t) \/ ServerAnswers(t)
    \/ \E f \in Folders : EnqueueLooks(t, f) \/ EnqueueMerges(t, f)
    \/ \E o \in Ops : Report(t, o)

LEMMA UnrowedKeepsRows ==
  /\ \A t \in Tabs : Unrowed(t) => UNCHANGED rows
  /\ GoOnline \/ GoOffline \/ UNCHANGED vars => UNCHANGED rows
  /\ \A o \in Ops : ServerMeetsOrphan(o) => UNCHANGED rows
  BY DEF Unrowed, rows, Peek, EndDrain, EndBatch, Call, AnswerOk, AnswerError, FailRead,
         Wake, Reload, ServerAnswers, EnqueueLooks, EnqueueMerges, Report, GoOnline,
         GoOffline, ServerMeetsOrphan, vars

LEMMA StepKinds ==
  ASSUME [Next]_vars
  PROVE  \/ UNCHANGED rows
         \/ Tick
         \/ \E t \in Tabs : \/ EnqueueAdds(t) \/ Start(t) \/ MarkRunning(t) \/ MarkDone(t)
                            \/ FailWrite(t) \/ \E o \in Ops : DropFailed(t, o)
<1>1. Next => \/ GoOnline \/ GoOffline \/ Tick
              \/ \E o \in Ops : ServerMeetsOrphan(o)
              \/ \E t \in Tabs :
                    \/ Unrowed(t) \/ EnqueueAdds(t) \/ Start(t) \/ MarkRunning(t)
                    \/ MarkDone(t) \/ FailWrite(t) \/ \E o \in Ops : DropFailed(t, o)
  BY DEF Next, User, RunnerStep, Reconcile, Unrowed
<1> QED
  BY <1>1, UnrowedKeepsRows

LEMMA NextKeepsOrder ==
  TypeOK /\ OrderInv /\ RowsInv /\ RunnerInv /\ [Next]_vars => OrderInv'
<1> SUFFICES ASSUME TypeOK, OrderInv, RowsInv, RunnerInv, [Next]_vars PROVE OrderInv'
  OBVIOUS
<1>0. status \in [Ops -> Statuses] /\ wait \in [Ops -> 0 .. MaxWait] /\ MaxWait \in Nat
  BY OpsFacts DEF TypeOK
<1>1. ASSUME UNCHANGED <<ahead, wait>>, Stored' = Stored PROVE OrderInv'
  BY <1>1 DEF OrderInv
<1>2. CASE UNCHANGED rows
  BY <1>1, <1>2 DEF rows, Stored
<1>3. CASE Tick
  <2>1. UNCHANGED <<ahead, status>> /\ Stored' = Stored
    BY <1>3 DEF Tick, Stored
  <2>2. \A x, y \in Ops : wait[y] <= wait[x] => wait'[y] <= wait'[x]
    BY <1>0, <1>3 DEF Tick
  <2>3. \A x \in Ops : ahead[x] \subseteq Ops
    BY DEF TypeOK
  <2> QED
    BY <2>1, <2>2, <2>3 DEF OrderInv
<1>4. ASSUME NEW t \in Tabs, EnqueueAdds(t) PROVE OrderInv'
  <2>1. PICK o \in Ops :
           /\ status[o] = "none" /\ status' = [status EXCEPT ![o] = "pending"]
           /\ ahead' = Placed(o, DueBy(0))
    BY <1>4 DEF EnqueueAdds
  <2>2. wait' = wait /\ wait[o] = 0
    BY <1>4, <2>1 DEF EnqueueAdds, RowsInv
  <2>3. Stored' = Stored \cup {o} /\ o \notin Stored
    BY <1>0, <2>1 DEF Stored
  <2>4. DueBy(0) \in SUBSET (Stored \ {o}) /\ \A p \in Stored : p \in DueBy(0) <=> wait[p] = 0
    BY <1>0, <2>3 DEF DueBy, Stored
  <2>5. \A p \in DueBy(0) : wait[p] <= 0 /\ \A q \in ahead[p] : q = o \/ q \in DueBy(0)
    <3> TAKE p \in DueBy(0)
    <3>1. p \in Stored /\ p \in Ops /\ wait[p] = 0
      BY <2>4 DEF Stored
    <3>0. ahead[p] \subseteq Ops
      BY <3>1 DEF TypeOK
    <3>2. \A q \in ahead[p] : q \in Stored /\ q \in Ops /\ wait[q] <= wait[p]
      BY <3>0, <3>1 DEF OrderInv
    <3>3. \A q \in ahead[p] : wait[q] = 0
      BY <1>0, <3>1, <3>2
    <3> QED
      BY <2>4, <3>1, <3>2, <3>3
  <2>6. \A p \in Stored \ DueBy(0) : p # o => wait[p] >= 0
    BY <1>0 DEF Stored
  <2> QED
    BY <2>1, <2>2, <2>3, <2>4, <2>5, <2>6, PlacedKeepsOrder
<1>5. ASSUME NEW t \in Tabs, Start(t) \/ MarkRunning(t) PROVE OrderInv'
  <2>1. UNCHANGED <<ahead, wait>>
    BY <1>5 DEF Start, MarkRunning
  <2>2. Stored' = Stored
    <3>1. CASE Start(t)
      BY <1>0, <3>1 DEF Start, Stored
    <3>2. CASE MarkRunning(t)
      <4>1. Head1(t) \in Ops /\ status[Head1(t)] # "none"
        BY <3>2, HandFacts DEF MarkRunning
      <4> QED
        BY <1>0, <3>2, <4>1 DEF MarkRunning, Stored
    <3> QED
      BY <1>5, <3>1, <3>2
  <2> QED
    BY <1>1, <2>1, <2>2
<1>6. ASSUME NEW o \in Ops, Delete(o) PROVE OrderInv'
  <2>1. Stored' = Stored \ {o}
    BY <1>0, <1>6 DEF Delete, Stored
  <2> QED
    BY <1>6, <2>1, WithoutKeepsOrder DEF Delete
<1>7. ASSUME NEW t \in Tabs, MarkDone(t) PROVE OrderInv'
  <2>1. Head1(t) \in Ops
    BY <1>7, BusyFacts DEF MarkDone
  <2> QED
    BY <1>6, <1>7, <2>1 DEF MarkDone
<1>8. ASSUME NEW t \in Tabs, FailWrite(t) PROVE OrderInv'
  <2> DEFINE o == Head1(t)
  <2>1. o \in Ops /\ status[o] # "none"
    BY <1>8, BusyFacts DEF FailWrite
  <2>2. CASE status[o] = "gone"
    BY <1>2, <1>8, <2>2 DEF FailWrite
  <2>3. CASE status[o] # "gone" /\ GiveUp(o, seen[t] + 1)
    <3>1. Stored' = Stored
      BY <1>0, <2>1, <2>3 DEF GiveUp, Stored
    <3> QED
      BY <1>1, <2>3, <3>1 DEF GiveUp
  <2>4. ASSUME status[o] # "gone", NEW d \in Backoff, Retry(o, seen[t] + 1, d)
        PROVE  OrderInv'
    <3>1. PICK first \in Places(o, d) : ahead' = Placed(o, first)
      BY <2>4 DEF Retry
    <3>2. d \in Nat /\ d - 1 \in Nat
      BY OpsFacts DEF Backoff
    <3>3. first \in SUBSET (Stored \ {o}) /\ \A p \in first : wait[p] <= d
      BY <3>1 DEF Places, DueBy
    <3>4. \A p \in first : \A q \in ahead[p] : q = o \/ q \in first
      BY <3>1 DEF Places
    <3>5. \A p \in Stored \ first : p # o => wait[p] >= d
      <4> TAKE p \in Stored \ first
      <4>1. p # o => ~(wait[p] <= d - 1)
        BY <3>1 DEF Places, DueBy
      <4> QED
        BY <1>0, <3>2, <4>1 DEF Stored
    <3>6. Stored' = Stored \cup {o}
      BY <1>0, <2>1, <2>4 DEF Retry, Stored
    <3>7. wait'[o] = d /\ \A p \in Ops \ {o} : wait'[p] = wait[p]
      BY <1>0, <2>1, <2>4 DEF Retry
    <3> HIDE DEF o
    <3> QED
      BY <2>1, <3>1, <3>2, <3>3, <3>4, <3>5, <3>6, <3>7, PlacedKeepsOrder
  <2> QED
    BY <1>8, <2>2, <2>3, <2>4 DEF FailWrite
<1> QED
  BY <1>2, <1>3, <1>4, <1>5, <1>6, <1>7, <1>8, StepKinds DEF DropFailed

-----------------------------------------------------------------------------
(* What only grows.                                                        *)

LEMMA CallsChange == ASSUME [Next]_vars PROVE calls' = calls \/ \E t \in Tabs : Call(t)
  BY DEF Next, vars, GoOnline, GoOffline, Tick, ServerMeetsOrphan, User, EnqueueLooks, EnqueueMerges,
         EnqueueAdds, RunnerStep, Start, Peek, EndDrain, EndBatch, MarkRunning, AnswerOk, AnswerError,
         MarkDone, FailRead, FailWrite, Wake, Reconcile, Report, DropFailed, Reload, ServerAnswers,
         rows, work, world, mail, hist

LEMMA AppliedChange ==
  ASSUME [Next]_vars
  PROVE  \/ UNCHANGED <<applied, folder>>
         \/ \E t \in Tabs : ServerAnswers(t) /\ TakesEffect(Head1(t))
         \/ \E o \in Ops : ServerMeetsOrphan(o) /\ TakesEffect(o)
  BY DEF Next, vars, GoOnline, GoOffline, Tick, ServerMeetsOrphan, User, EnqueueLooks, EnqueueMerges,
         EnqueueAdds, RunnerStep, Start, Peek, EndDrain, EndBatch, MarkRunning, Call, AnswerOk, AnswerError,
         MarkDone, FailRead, FailWrite, Wake, Reconcile, Report, DropFailed, Reload, ServerAnswers,
         rows, work, world, mail, hist

LEMMA OrphansChange ==
  ASSUME [Next]_vars
  PROVE  \/ orphans' \subseteq orphans
         \/ \E t \in Tabs : /\ AnswerError(t) \/ Reload(t)
                            /\ call[t] = "sent" /\ orphans' = orphans \cup {Head1(t)}
  BY DEF Next, vars, GoOnline, GoOffline, Tick, ServerMeetsOrphan, User, EnqueueLooks, EnqueueMerges,
         EnqueueAdds, RunnerStep, Start, Peek, EndDrain, EndBatch, MarkRunning, Call, AnswerOk, AnswerError,
         MarkDone, FailRead, FailWrite, Wake, Reconcile, Report, DropFailed, Reload, ServerAnswers,
         rows, work, world, mail, hist

\* Whose effect is new, or whose request is left alone, is being tried.
LEMMA SentChange ==
  ASSUME TypeOK, RowsInv, RunnerInv, [Next]_vars, NEW o \in Ops,
         o \in Range(applied') \cup orphans', o \notin Range(applied) \cup orphans
  PROVE  \E t \in Tabs : o = Head1(t) /\ Trying(t)
<1>1. ASSUME NEW t \in Tabs, call[t] = "sent" PROVE Trying(t)
  BY <1>1 DEF RunnerInv, Stands, Trying
<1>2. CASE o \in orphans'
  <2>1. PICK t \in Tabs : call[t] = "sent" /\ o = Head1(t)
    BY <1>2, OrphansChange
  <2> QED
    BY <1>1, <2>1
<1>3. CASE o \in Range(applied')
  <2>1. ASSUME NEW t \in Tabs, ServerAnswers(t), TakesEffect(Head1(t))
        PROVE  o = Head1(t) /\ Trying(t)
    <3>1. call[t] = "sent" /\ Head1(t) \in Ops /\ status[Head1(t)] # "none"
      BY <2>1, BusyFacts DEF ServerAnswers
    <3>2. Range(applied') = Range(applied) \cup {Head1(t)}
      BY <2>1, <3>1, EffectFacts
    <3> QED
      BY <1>1, <1>3, <3>1, <3>2
  <2>2. ASSUME NEW p \in Ops, ServerMeetsOrphan(p), TakesEffect(p)
        PROVE  FALSE
    <3>1. p \in orphans /\ status[p] # "none"
      BY <2>2 DEF ServerMeetsOrphan, RowsInv
    <3>2. Range(applied') = Range(applied) \cup {p}
      BY <2>2, <3>1, EffectFacts
    <3> QED
      BY <1>3, <3>1, <3>2
  <2> QED
    BY <1>3, <2>1, <2>2, AppliedChange
<1> QED
  BY <1>2, <1>3

LEMMA OnlyGrows ==
  ASSUME TypeOK, RowsInv, RunnerInv, [Next]_vars
  PROVE  /\ \A o \in Ops : status[o] # "none" => status'[o] # "none"
         /\ \A o \in Ops : calls'[o] >= calls[o]
         /\ Range(applied) \subseteq Range(applied')
<1>0. status \in [Ops -> Statuses] /\ calls \in [Ops -> Nat]
  BY DEF TypeOK
<1> USE DEF rows, work, world, mail, hist
<1>1. \A o \in Ops : status[o] # "none" => status'[o] # "none"
  <2>1. CASE UNCHANGED rows
    BY <2>1
  <2>2. CASE Tick
    BY <2>2 DEF Tick
  <2>3. ASSUME NEW t \in Tabs, EnqueueAdds(t) \/ Start(t) \/ MarkRunning(t)
        PROVE  \A o \in Ops : status[o] # "none" => status'[o] # "none"
    BY <1>0, <2>3 DEF EnqueueAdds, Start, MarkRunning
  <2>4. ASSUME NEW o \in Ops, Delete(o)
        PROVE  \A p \in Ops : status[p] # "none" => status'[p] # "none"
    BY <1>0, <2>4 DEF Delete
  <2>5. ASSUME NEW t \in Tabs, MarkDone(t)
        PROVE  \A p \in Ops : status[p] # "none" => status'[p] # "none"
    BY <2>4, <2>5, BusyFacts DEF MarkDone
  <2>6. ASSUME NEW t \in Tabs, FailWrite(t)
        PROVE  \A p \in Ops : status[p] # "none" => status'[p] # "none"
    BY <1>0, <2>6 DEF FailWrite, GiveUp, Retry
  <2> QED
    BY <2>1, <2>2, <2>3, <2>4, <2>5, <2>6, StepKinds DEF DropFailed
<1>3. ASSUME NEW t \in Tabs, Call(t) PROVE \A o \in Ops : calls'[o] >= calls[o]
  BY <1>0, <1>3, BusyFacts DEF Call
<1>5. Range(applied) \subseteq Range(applied')
  <2>1. CASE UNCHANGED applied
    BY <2>1
  <2>2. ASSUME NEW t \in Tabs, ServerAnswers(t), TakesEffect(Head1(t))
        PROVE  Range(applied) \subseteq Range(applied')
    BY <2>2, BusyFacts, EffectFacts DEF ServerAnswers
  <2>3. ASSUME NEW o \in Ops, ServerMeetsOrphan(o), TakesEffect(o)
        PROVE  Range(applied) \subseteq Range(applied')
    BY <2>3, EffectFacts DEF ServerMeetsOrphan, RowsInv
  <2> QED
    BY <2>1, <2>2, <2>3, AppliedChange
<1> QED
  BY <1>0, <1>1, <1>3, <1>5, CallsChange

-----------------------------------------------------------------------------
(* Where the runners stand.                                                *)

LEMMA OthersStand ==
  ASSUME TypeOK, RowsInv, RunnerInv, [Next]_vars, NEW s \in Tabs,
         pc'[s] = pc[s], batch'[s] = batch[s], call'[s] = call[s],
         adding'[s] = adding[s] \/ pc[s] # "closed"
  PROVE  Stands(s)'
<1>1. Stands(s)
  BY DEF RunnerInv
<1>2. Head1(s)' = Head1(s)
  BY DEF Head1
<1>3. Busy(s)' = Busy(s) /\ Trying(s)' = Trying(s)
  BY DEF Busy, Trying
<1>4. Trying(s) => calls'[Head1(s)] > 0
  <2> SUFFICES ASSUME Trying(s) PROVE calls'[Head1(s)] > 0
    OBVIOUS
  <2> DEFINE o == Head1(s)
  <2>1. o \in Ops
    BY BusyFacts DEF Trying
  <2>2. calls \in [Ops -> Nat] /\ calls' \in [Ops -> Nat]
    BY NextKeepsTypeOK DEF TypeOK
  <2>3. calls[o] > 0 /\ calls'[o] >= calls[o]
    BY <1>1, <2>1, OnlyGrows DEF Stands
  <2>4. calls'[o] > 0
    <3> HIDE DEF o
    <3> QED
      BY <2>1, <2>2, <2>3
  <2> QED
    BY <2>4
<1>5. \A k \in DOMAIN batch[s] : status'[batch[s][k]] # "none"
  <2>1. batch[s] \in Seq(Ops)
    BY DEF TypeOK
  <2>2. \A k \in DOMAIN batch[s] : batch[s][k] \in Ops
    BY <2>1
  <2> QED
    BY <1>1, <2>2, OnlyGrows DEF Stands
<1>6. call[s] = "applied" \/ pc[s] = "done" => Head1(s) \in Range(applied')
  BY <1>1, OnlyGrows DEF Stands
<1> QED
  BY <1>1, <1>2, <1>3, <1>4, <1>5, <1>6 DEF Stands

LEMMA StepsOnAhead ==
  ASSUME TypeOK, RowsInv, RunnerInv, [Next]_vars, NEW t \in Tabs,
         batch'[t] = batch[t] \/ (batch[t] # <<>> /\ batch'[t] = Tail(batch[t])) \/ batch'[t] = <<>>
  PROVE  \A k \in DOMAIN batch'[t] : status'[batch'[t][k]] # "none"
<1>1. batch[t] \in Seq(Ops) /\ \A k \in DOMAIN batch[t] : status[batch[t][k]] # "none"
  BY DEF TypeOK, RunnerInv, Stands
<1>2. \A k \in DOMAIN batch[t] : batch[t][k] \in Ops /\ status'[batch[t][k]] # "none"
  BY <1>1, OnlyGrows
<1>3. CASE batch[t] # <<>> /\ batch'[t] = Tail(batch[t])
  BY <1>1, <1>2, <1>3, HeadFacts
<1>4. CASE batch'[t] = <<>>
  BY <1>4
<1> QED
  BY <1>2, <1>3, <1>4

LEMMA NextKeepsRunner ==
  TypeOK /\ RowsInv /\ RunnerInv /\ [Next]_vars => RunnerInv'
<1> SUFFICES ASSUME TypeOK, RowsInv, RunnerInv, [Next]_vars, NEW s \in Tabs PROVE Stands(s)'
  BY DEF RunnerInv
<1> USE DEF rows, work, world, mail, hist
<1>0. Stands(s) /\ batch \in [Tabs -> Seq(Ops)] /\ pc \in [Tabs -> PC] /\ adding \in [Tabs -> Folders \cup {None}]
      /\ call \in [Tabs -> {"none", "sent", "applied", "refused"}] /\ calls \in [Ops -> Nat]
      /\ status \in [Ops -> Statuses]
  BY DEF RunnerInv, TypeOK
<1>1. CASE UNCHANGED <<pc, batch, call, adding>>
  BY <1>1, OthersStand
<1>2. CASE GoOnline
  <2>1. CASE pc[s] = "idle"
    BY <1>0, <1>2, <2>1 DEF GoOnline, Stands, Busy, Trying
  <2>2. CASE pc[s] # "idle"
    BY <1>0, <1>2, <2>2, OthersStand DEF GoOnline
  <2> QED
    BY <2>1, <2>2
<1>3. CASE GoOffline \/ Tick \/ \E o \in Ops : ServerMeetsOrphan(o)
  BY <1>1, <1>3 DEF GoOffline, Tick, ServerMeetsOrphan
<1> DEFINE Others(t) == \A u \in Tabs \ {t} : pc'[u] = pc[u] /\ batch'[u] = batch[u] /\ call'[u] = call[u]
                                             /\ adding'[u] = adding[u]
<1>4. ASSUME NEW t \in Tabs, NEW f \in Folders, EnqueueLooks(t, f) PROVE Stands(s)'
  <2>1. pc[t] # "closed" /\ Others(t) /\ pc' = pc /\ batch' = batch /\ call' = call
    BY <1>0, <1>4 DEF EnqueueLooks
  <2> QED
    BY <2>1, OthersStand
<1>5. ASSUME NEW t \in Tabs, Flush(t), batch' = batch, call' = call, Others(t), pc[t] # "closed"
      PROVE  Stands(s)'
  <2>1. CASE s = t /\ pc[t] = "idle"
    <3>1. pc'[t] = "drain" /\ batch[t] = <<>>
      BY <1>0, <1>5, <2>1 DEF Flush, Stands
    <3> QED
      BY <1>0, <1>5, <2>1, <3>1 DEF Stands, Busy, Trying
  <2>2. CASE s # t \/ pc[t] # "idle"
    <3>1. pc'[s] = pc[s]
      BY <1>5, <2>2 DEF Flush
    <3> QED
      BY <1>5, <3>1, OthersStand
  <2> QED
    BY <2>1, <2>2
<1>6. ASSUME NEW t \in Tabs, NEW f \in Folders, EnqueueMerges(t, f) PROVE Stands(s)'
  BY <1>0, <1>5, <1>6 DEF EnqueueMerges, Flush
<1>7. ASSUME NEW t \in Tabs, EnqueueAdds(t) PROVE Stands(s)'
  <2>1. pc[t] # "closed"
    BY <1>7 DEF EnqueueAdds, RunnerInv, Stands
  <2> QED
    BY <1>0, <1>5, <1>7, <2>1 DEF EnqueueAdds, Flush
<1>8. ASSUME NEW t \in Tabs, Wake(t) PROVE Stands(s)'
  BY <1>0, <1>5, <1>8 DEF Wake, Flush
<1>9. ASSUME NEW t \in Tabs, Reconcile(t) PROVE Stands(s)'
  BY <1>1, <1>9 DEF Reconcile, Report, DropFailed
<1>10. ASSUME NEW t \in Tabs, Others(t), Stands(t)' PROVE Stands(s)'
  BY <1>10, OthersStand
<1>11. ASSUME NEW t \in Tabs, Reload(t) PROVE Stands(s)'
  <2>1. Others(t) /\ pc'[t] = "closed" /\ batch'[t] = <<>> /\ call'[t] = "none" /\ adding'[t] = None
    BY <1>0, <1>11 DEF Reload
  <2>2. Stands(t)'
    BY <2>1 DEF Stands, Busy, Trying
  <2> QED
    BY <1>10, <2>1, <2>2
<1>12. ASSUME NEW t \in Tabs, ServerAnswers(t) PROVE Stands(s)'
  <2>1. Others(t) /\ UNCHANGED <<pc, batch, adding, calls, status>>
        /\ call'[t] \in {"applied", "refused"} /\ call[t] = "sent"
    BY <1>0, <1>12 DEF ServerAnswers
  <2>2. call'[t] = "applied" => Head1(t) \in Range(applied')
    <3>1. Head1(t) \in Ops /\ status[Head1(t)] # "none"
      BY <2>1, BusyFacts
    <3> QED
      BY <1>0, <1>12, <3>1, EffectFacts DEF ServerAnswers
  <2>3. Stands(t)'
    BY <2>1, <2>2 DEF RunnerInv, Stands, Busy, Trying, Head1
  <2> QED
    BY <1>10, <2>1, <2>3
<1>13. ASSUME NEW t \in Tabs, Start(t) PROVE Stands(s)'
  <2>1. Others(t) /\ pc'[t] = "drain" /\ UNCHANGED <<batch, call, adding>> /\ batch[t] = <<>>
        /\ call[t] = "none"
    BY <1>0, <1>13 DEF Start, RunnerInv, Stands
  <2>2. Stands(t)'
    BY <2>1 DEF Stands, Busy, Trying
  <2> QED
    BY <1>10, <2>1, <2>2
<1>14. ASSUME NEW t \in Tabs, Peek(t) PROVE Stands(s)'
  <2>1. /\ Others(t) /\ pc'[t] = "op" /\ call'[t] = "none"
        /\ \A k \in DOMAIN batch'[t] : batch'[t][k] \in Ready
    BY <1>0, <1>14 DEF Peek, RunnerInv, Stands
  <2>2. status' = status
    BY <1>14 DEF Peek
  <2>3. Stands(t)'
    BY <2>1, <2>2 DEF Stands, Busy, Trying, Ready
  <2> QED
    BY <1>10, <2>1, <2>3
<1>15. ASSUME NEW t \in Tabs, EndDrain(t) \/ EndBatch(t) PROVE Stands(s)'
  <2>1. Others(t) /\ pc'[t] \in {"idle", "drain"} /\ batch'[t] = <<>> /\ call'[t] = "none"
    BY <1>0, <1>15 DEF EndDrain, EndBatch, RunnerInv, Stands
  <2>2. Stands(t)'
    BY <2>1 DEF Stands, Busy, Trying
  <2> QED
    BY <1>10, <2>1, <2>2
<1>16. ASSUME NEW t \in Tabs, MarkRunning(t) PROVE Stands(s)'
  <2>1. Others(t) /\ pc'[t] = "call" /\ batch' = batch /\ batch[t] # <<>> /\ call'[t] = "none"
    BY <1>0, <1>16 DEF MarkRunning, RunnerInv, Stands
  <2>2. Stands(t)'
    BY <2>1, StepsOnAhead DEF Stands, Busy, Trying
  <2> QED
    BY <1>10, <2>1, <2>2
<1>17. ASSUME NEW t \in Tabs, Call(t) PROVE Stands(s)'
  <2>1. Others(t) /\ pc'[t] = "await" /\ batch' = batch /\ batch[t] # <<>> /\ call'[t] = "sent"
    BY <1>0, <1>17, BusyFacts DEF Call
  <2>2. calls'[Head1(t)] > 0
    BY <1>0, <1>17, BusyFacts DEF Call
  <2>3. Stands(t)'
    BY <2>1, <2>2, StepsOnAhead DEF Stands, Busy, Trying, Head1
  <2> QED
    BY <1>10, <2>1, <2>3
<1>18. ASSUME NEW t \in Tabs, AnswerOk(t) \/ AnswerError(t) PROVE Stands(s)'
  <2>1. /\ Others(t) /\ pc'[t] \in {"done", "failRead"} /\ batch' = batch /\ call'[t] = "none"
        /\ UNCHANGED <<calls, applied>> /\ pc[t] = "await"
        /\ pc'[t] = "done" => call[t] = "applied"
    BY <1>0, <1>18 DEF AnswerOk, AnswerError
  <2>2. /\ batch[t] # <<>> /\ calls[Head1(t)] > 0
        /\ pc'[t] = "done" => Head1(t) \in Range(applied)
    BY <2>1 DEF RunnerInv, Stands, Busy, Trying
  <2>3. Stands(t)'
    BY <2>1, <2>2, StepsOnAhead DEF Stands, Busy, Trying, Head1
  <2> QED
    BY <1>10, <2>1, <2>3
<1>19. ASSUME NEW t \in Tabs, MarkDone(t) \/ FailWrite(t) PROVE Stands(s)'
  <2>1. /\ Others(t) /\ pc'[t] = "op" /\ batch'[t] = Tail(batch[t]) /\ call'[t] = "none"
        /\ batch[t] # <<>>
    BY <1>0, <1>19, BusyFacts DEF MarkDone, FailWrite, Done, RunnerInv, Stands
  <2>2. Stands(t)'
    BY <2>1, StepsOnAhead DEF Stands, Busy, Trying
  <2> QED
    BY <1>10, <2>1, <2>2
<1>20. ASSUME NEW t \in Tabs, FailRead(t) PROVE Stands(s)'
  <2>1. /\ Others(t) /\ call'[t] = "none" /\ batch[t] # <<>> /\ UNCHANGED <<calls, applied>>
        /\ pc[t] = "failRead" /\ calls[Head1(t)] > 0
    BY <1>0, <1>20, BusyFacts DEF FailRead, Done, RunnerInv, Stands, Trying
  <2>2. CASE pc'[t] = "op" /\ batch'[t] = Tail(batch[t])
    BY <1>10, <2>1, <2>2, StepsOnAhead DEF Stands, Busy, Trying
  <2>3. CASE pc'[t] = "failWrite" /\ batch' = batch
    BY <1>10, <2>1, <2>3, StepsOnAhead DEF Stands, Busy, Trying, Head1
  <2> QED
    BY <1>0, <1>20, <2>2, <2>3 DEF FailRead, Done
<1>21. CASE UNCHANGED vars
  BY <1>1, <1>21 DEF vars
<1> QED
  BY <1>2, <1>3, <1>4, <1>6, <1>7, <1>8, <1>9, <1>11, <1>12, <1>13, <1>14, <1>15, <1>16,
     <1>17, <1>18, <1>19, <1>20, <1>21 DEF Next, User, RunnerStep

-----------------------------------------------------------------------------
(* What the rows say of their past.                                        *)

LEMMA NextKeepsRows ==
  TypeOK /\ RowsInv /\ RunnerInv /\ [Next]_vars => RowsInv'
<1> SUFFICES ASSUME TypeOK, RowsInv, RunnerInv, [Next]_vars PROVE RowsInv'
  OBVIOUS
<1> USE DEF rows, work, world, mail, hist
<1>0. /\ status \in [Ops -> Statuses] /\ attempts \in [Ops -> Nat] /\ wait \in [Ops -> 0 .. MaxWait]
      /\ dest \in [Ops -> Folders \cup {None}] /\ adding \in [Tabs -> Folders \cup {None}]
      /\ calls \in [Ops -> Nat] /\ Ops \subseteq Nat \ {0} /\ MaxAttempts \in Nat \ {0}
      /\ seen \in [Tabs -> Nat] /\ calls' \in [Ops -> Nat]
  BY OpsFacts, NextKeepsTypeOK DEF TypeOK
<1> DEFINE Ids     == \A p, q \in Ops : p < q /\ status[p] = "none" => status[q] = "none"
           Fresh   == \A o \in Ops : status[o] = "none" => attempts[o] = 0
           Dests   == \A o \in Ops : status[o] # "none" => dest[o] \in Folders
           Waits   == \A o \in Ops : attempts[o] = 0 => wait[o] = 0
           Failed  == \A o \in Ops : status[o] = "failed" => attempts[o] >= MaxAttempts
           GoneBy  == \A o \in Ops : status[o] = "gone" =>
                                       o \in Range(applied) \/ attempts[o] >= MaxAttempts
           Columns == Ids /\ Fresh /\ Dests /\ Waits /\ Failed /\ GoneBy
           Unsent  == \A o \in Ops : status[o] = "none" => calls[o] = 0
           Sent    == \A o \in Range(applied) \cup orphans : o \in Ops => calls[o] > 0
<1>a. RowsInv <=> Columns /\ Unsent /\ Sent
  BY DEF RowsInv
<1>b. RowsInv' <=> (Columns /\ Unsent /\ Sent)'
  BY DEF RowsInv
<1>1. Columns'
  <2>0. Ids /\ Fresh /\ Dests /\ Waits /\ Failed /\ GoneBy /\ Range(applied) \subseteq Range(applied')
    BY <1>a, OnlyGrows
  <2>1. CASE UNCHANGED rows
    BY <2>0, <2>1
  <2>2. CASE Tick
    BY <1>0, <2>0, <2>2 DEF Tick
  <2>3. ASSUME NEW t \in Tabs, EnqueueAdds(t) PROVE Columns'
    <3>1. PICK o \in Ops :
             /\ status[o] = "none" /\ \A p \in Ops : p < o => status[p] # "none"
             /\ status' = [status EXCEPT ![o] = "pending"]
             /\ dest' = [dest EXCEPT ![o] = adding[t]]
      BY <2>3 DEF EnqueueAdds
    <3>2. adding[t] \in Folders /\ UNCHANGED <<attempts, wait, applied>>
      BY <1>0, <2>3 DEF EnqueueAdds
    <3>3. Ids'
      BY <1>0, <2>0, <3>1
    <3>4. Fresh' /\ Dests' /\ Waits' /\ Failed' /\ GoneBy'
      BY <1>0, <2>0, <3>1, <3>2
    <3> QED
      BY <3>3, <3>4
  <2>4. ASSUME NEW t \in Tabs, Start(t) PROVE Columns'
    BY <1>0, <2>0, <2>4 DEF Start
  <2>5. ASSUME NEW t \in Tabs, MarkRunning(t) PROVE Columns'
    <3>1. Head1(t) \in Ops /\ status[Head1(t)] # "none"
      BY <2>5, HandFacts DEF MarkRunning
    <3>2. UNCHANGED <<attempts, wait, dest, applied>> /\ \A o \in Ops :
             status'[o] = status[o] \/ (status[o] # "none" /\ status'[o] = "running")
      BY <1>0, <2>5, <3>1 DEF MarkRunning
    <3> QED
      BY <1>0, <2>0, <3>2
  <2>6. ASSUME NEW o \in Ops, Delete(o), UNCHANGED applied,
               o \in Range(applied) \/ status[o] = "failed"
        PROVE  Columns'
    <3>1. UNCHANGED <<attempts, wait, dest, applied>> /\ \A p \in Ops :
             status'[p] = status[p] \/ (p = o /\ status[p] # "none" /\ status'[p] = "gone")
      BY <1>0, <2>6 DEF Delete
    <3> QED
      BY <1>0, <2>0, <2>6, <3>1
  <2>7. ASSUME NEW t \in Tabs, MarkDone(t) PROVE Columns'
    <3>1. Head1(t) \in Range(applied)
      BY <2>7 DEF MarkDone, RunnerInv, Stands
    <3> QED
      BY <2>6, <2>7, <3>1, BusyFacts DEF MarkDone
  <2>8. ASSUME NEW t \in Tabs, NEW o \in Ops, DropFailed(t, o) PROVE Columns'
    BY <2>6, <2>8 DEF DropFailed
  <2>9. ASSUME NEW t \in Tabs, FailWrite(t) PROVE Columns'
    <3> DEFINE h == Head1(t)
    <3>1. h \in Ops /\ status[h] # "none" /\ seen[t] + 1 \in Nat \ {0}
      BY <1>0, <2>9, BusyFacts DEF FailWrite
    <3>2. UNCHANGED <<dest, applied>> /\ \A o \in Ops \ {h} :
             status'[o] = status[o] /\ attempts'[o] = attempts[o] /\ wait'[o] = wait[o]
      BY <1>0, <2>9 DEF FailWrite, GiveUp, Retry
    <3>3. \/ status'[h] = status[h] /\ attempts'[h] = attempts[h] /\ wait'[h] = wait[h]
          \/ status'[h] = "failed" /\ attempts'[h] >= MaxAttempts /\ wait'[h] = wait[h]
          \/ status'[h] = "pending" /\ attempts'[h] > 0
      BY <1>0, <2>9, <3>1 DEF FailWrite, GiveUp, Retry
    <3>4. attempts' \in [Ops -> Nat]
      BY NextKeepsTypeOK DEF TypeOK
    <3> HIDE DEF h
    <3> QED
      BY <1>0, <2>0, <3>1, <3>2, <3>3, <3>4
  <2> QED
    BY <2>1, <2>2, <2>3, <2>4, <2>5, <2>7, <2>8, <2>9, StepKinds
<1>2. Unsent'
  <2>1. \A o \in Ops : status'[o] = "none" => status[o] = "none"
    BY OnlyGrows
  <2>2. CASE calls' = calls
    BY <1>a, <2>1, <2>2
  <2>3. ASSUME NEW t \in Tabs, Call(t) PROVE Unsent'
    <3>1. Head1(t) \in Ops /\ status[Head1(t)] # "none"
      BY <2>3, BusyFacts DEF Call
    <3> QED
      BY <1>0, <1>a, <2>1, <2>3, <3>1 DEF Call
  <2> QED
    BY <2>2, <2>3, CallsChange
<1>3. Sent'
  <2>1. \A o \in Ops : calls'[o] >= calls[o]
    BY OnlyGrows
  <2>2. ASSUME NEW o \in Ops, o \in Range(applied') \cup orphans', o \notin Range(applied) \cup orphans
        PROVE  calls[o] > 0
    <3>1. PICK t \in Tabs : o = Head1(t) /\ Trying(t)
      BY <2>2, SentChange
    <3> QED
      BY <3>1 DEF RunnerInv, Stands
  <2> QED
    BY <1>0, <1>a, <2>1, <2>2
<1> QED
  BY <1>b, <1>1, <1>2, <1>3

-----------------------------------------------------------------------------
(* One tab: what it has in hand.                                           *)

LEMMA Alone == ASSUME OneTab, NEW s \in Tabs, NEW t \in Tabs PROVE s = t
  BY DEF OneTab

LEMMA HandUnmoved ==
  ASSUME NEW t \in Tabs, Hand(t), UNCHANGED <<status, attempts>>,
         batch'[t] = batch[t], seen'[t] = seen[t], Busy(t)' = Busy(t),
         pc[t] = "closed" => pc'[t] = "closed", pc'[t] = "op" => pc[t] = "op",
         pc'[t] = "failWrite" => pc[t] = "failWrite"
  PROVE  Hand(t)'
<1>1. Head1(t)' = Head1(t) /\ Stored' = Stored
  BY DEF Head1, Stored
<1> QED
  BY <1>1 DEF Hand

LEMMA HandEmpty ==
  ASSUME NEW t \in Tabs, batch'[t] = <<>>, ~Busy(t)',
         pc'[t] = "closed" \/ \A o \in Ops : status'[o] # "running"
  PROVE  Hand(t)'
<1>1. pc'[t] # "failWrite"
  BY DEF Busy
<1> QED
  BY <1>1 DEF Hand

\* The first of the batch is dealt with.
LEMMA HandTail ==
  ASSUME TypeOK, RunnerInv, NEW t \in Tabs, Hand(t), Busy(t),
         pc'[t] = "op", batch'[t] = Tail(batch[t]),
         \A o \in Ops \ {Head1(t)} : status'[o] = status[o] /\ attempts'[o] = attempts[o],
         status'[Head1(t)] # "running",
         status'[Head1(t)] = "gone" \/ attempts'[Head1(t)] # 0
  PROVE  Hand(t)'
<1> DEFINE h == Head1(t)  b == batch[t]
<1>1. /\ b \in Seq(Ops) /\ b # <<>> /\ h \in Ops /\ h = b[1] /\ status[h] = "running"
      /\ batch'[t] = Tail(b) /\ ~Busy(t)'
  BY BusyFacts DEF TypeOK, Busy, Hand
<1>2. /\ DOMAIN b \subseteq Nat /\ 1 \in DOMAIN b
      /\ \A k \in DOMAIN b : k >= 1 /\ b[k] \in Ops
      /\ \A k \in DOMAIN Tail(b) : k + 1 \in DOMAIN b /\ Tail(b)[k] = b[k + 1]
      /\ \A k \in DOMAIN b : k > 1 => k - 1 \in DOMAIN Tail(b) /\ Tail(b)[k - 1] = b[k]
      /\ DOMAIN Tail(b) \subseteq Nat /\ \A k \in DOMAIN Tail(b) : k >= 1
  <2>1. Tail(b) \in Seq(Ops)
    BY <1>1
  <2> QED
    BY <1>1, <2>1, HeadFacts
<1>3. \A k, l \in DOMAIN b : b[k] = b[l] => k = l
  BY DEF Hand
<1>4. \A k \in DOMAIN Tail(b) : Tail(b)[k] # h /\ Tail(b)[k] \in Ops
  BY <1>1, <1>2, <1>3
<1>5. \A o \in Ops : status'[o] # "running"
  BY <1>1 DEF Hand, Busy
<1>6. \A k, l \in DOMAIN Tail(b) : Tail(b)[k] = Tail(b)[l] => k = l
  <2> TAKE k, l \in DOMAIN Tail(b)
  <2>1. k \in Nat /\ l \in Nat /\ k + 1 \in DOMAIN b /\ l + 1 \in DOMAIN b
    BY <1>2
  <2>2. b[k + 1] = b[l + 1] => k + 1 = l + 1
    BY <1>3, <2>1
  <2> QED
    BY <1>2, <2>1, <2>2
<1>7. \A k \in DOMAIN Tail(b) : status'[Tail(b)[k]] = "pending"
  <2> TAKE k \in DOMAIN Tail(b)
  <2>1. k + 1 \in DOMAIN b /\ k + 1 > 1 /\ Tail(b)[k] = b[k + 1]
    BY <1>2
  <2>2. status[b[k + 1]] = "pending"
    BY <2>1 DEF Hand
  <2> QED
    BY <1>4, <2>1, <2>2
<1>8. \A k \in DOMAIN Tail(b) : \A i \in Stored' : i < Tail(b)[k] /\ attempts'[i] = 0 =>
         \E l \in DOMAIN Tail(b) : l < k /\ Tail(b)[l] = i
  <2> TAKE k \in DOMAIN Tail(b)
  <2> SUFFICES ASSUME NEW i \in Stored', i < Tail(b)[k], attempts'[i] = 0
               PROVE  \E l \in DOMAIN Tail(b) : l < k /\ Tail(b)[l] = i
    OBVIOUS
  <2>1. i \in Ops /\ i # h /\ i \in Stored
    BY DEF Stored
  <2>2. attempts[i] = 0 /\ k + 1 \in DOMAIN b /\ i < b[k + 1]
    BY <1>2, <2>1
  <2>3. PICK l \in DOMAIN b : l < k + 1 /\ b[l] = i
    BY <2>1, <2>2 DEF Hand
  <2>4. l # 1
    BY <1>1, <2>1, <2>3
  <2>5. l > 1 /\ l - 1 < k
    BY <1>2, <2>3, <2>4
  <2> QED
    BY <1>2, <2>3, <2>5
<1> QED
  BY <1>1, <1>5, <1>6, <1>7, <1>8 DEF Hand, Busy

LEMMA HandPeek ==
  ASSUME IInv, OneTab, NEW t \in Tabs, Peek(t), Hand(t)
  PROVE  Hand(t)'
<1>0. TypeOK /\ OrderInv /\ RowsInv /\ FifoInv
  BY DEF IInv, OneTabInv
<1>1. PICK n \in 1 .. BatchSize : \E b \in [1 .. n -> Ready] :
         IsPeeked(b) /\ batch' = [batch EXCEPT ![t] = b]
  BY DEF Peek
<1>2. PICK b \in [1 .. n -> Ready] : IsPeeked(b) /\ batch' = [batch EXCEPT ![t] = b]
  BY <1>1
<1>3. /\ batch \in [Tabs -> Seq(Ops)] /\ pc \in [Tabs -> PC] /\ status \in [Ops -> Statuses]
      /\ attempts \in [Ops -> Nat] /\ wait \in [Ops -> 0 .. MaxWait]
      /\ MaxAttempts \in Nat \ {0} /\ Ops \subseteq Nat
  BY <1>0, OpsFacts DEF TypeOK
<1>4. /\ batch'[t] = b /\ pc'[t] = "op" /\ pc[t] = "drain" /\ ~Busy(t) /\ ~Busy(t)'
      /\ UNCHANGED <<status, attempts>>
  BY <1>2, <1>3 DEF Peek, Busy, rows
<1>5. \A o \in Ops : status[o] # "running"
  BY <1>4 DEF Hand
<1>6. n \in Nat /\ DOMAIN b = 1 .. n /\ \A k \in 1 .. n : b[k] \in Ready /\ b[k] \in Ops
  BY ConstantsAssumption DEF Ready
<1>7. \A i, j \in 1 .. n : i < j => b[i] \in ahead[b[j]] /\ b[j] \notin ahead[b[i]] /\ b[i] # b[j]
  <2> TAKE i, j \in 1 .. n
  <2> SUFFICES ASSUME i < j
               PROVE  b[i] \in ahead[b[j]] /\ b[j] \notin ahead[b[i]] /\ b[i] # b[j]
    OBVIOUS
  <2>1. b[i] \in ahead[b[j]] /\ b[i] \in Ops /\ b[j] \in Ops
    BY <1>2, <1>6 DEF IsPeeked
  <2>2. b[j] \notin ahead[b[i]]
    BY <1>0, <2>1 DEF OrderInv
  <2> QED
    BY <2>1, <2>2
<1>8. \A k, l \in 1 .. n : b[k] = b[l] => k = l
  BY <1>6, <1>7
<1>9. \A k \in 1 .. n : status[b[k]] = "pending"
  BY <1>6 DEF Ready
<1>10. \A k \in 1 .. n : \A i \in Stored : i < b[k] /\ attempts[i] = 0 =>
          \E l \in 1 .. n : l < k /\ b[l] = i
  <2> TAKE k \in 1 .. n
  <2> SUFFICES ASSUME NEW i \in Stored, i < b[k], attempts[i] = 0
               PROVE  \E l \in 1 .. n : l < k /\ b[l] = i
    OBVIOUS
  <2>1. i \in Ops /\ b[k] \in Ops /\ b[k] \in Stored
    BY <1>6, <1>9 DEF Stored
  <2>2. i \in ahead[b[k]] /\ b[k] \notin ahead[i]
    <3>1. i \in ahead[b[k]]
      BY <1>0, <2>1 DEF FifoInv
    <3> QED
      BY <1>0, <2>1, <3>1 DEF OrderInv
  <2>3. i \in Ready
    <3>1. wait[i] = 0
      BY <1>0, <2>1 DEF RowsInv
    <3>2. status[i] # "failed"
      BY <1>0, <1>3, <2>1 DEF RowsInv
    <3> QED
      BY <1>3, <1>5, <2>1, <3>1, <3>2 DEF Stored, Ready, Statuses
  <2>4. i \in Range(b)
    BY <1>2, <1>6, <2>2, <2>3 DEF IsPeeked
  <2>5. PICK l \in 1 .. n : b[l] = i
    BY <1>6, <2>4 DEF Range
  <2>6. l # k /\ ~(k < l)
    BY <1>3, <1>7, <2>1, <2>2, <2>5
  <2> QED
    BY <1>6, <2>5, <2>6
<1>11. Stored' = Stored
  BY <1>4 DEF Stored
<1> HIDE DEF Stored
<1> QED
  BY <1>4, <1>5, <1>6, <1>8, <1>9, <1>10, <1>11 DEF Hand

LEMMA NextKeepsHand ==
  IInv /\ OneTab /\ [Next]_vars => HandInv'
<1> SUFFICES ASSUME IInv, OneTab, [Next]_vars, NEW s \in Tabs PROVE Hand(s)'
  BY DEF HandInv
<1> USE DEF rows, work, world, mail, hist
<1>0. TypeOK /\ OrderInv /\ RowsInv /\ RunnerInv /\ HandInv /\ Hand(s) /\ Stands(s)
  BY DEF IInv, OneTabInv, HandInv, RunnerInv
<1>a. /\ batch \in [Tabs -> Seq(Ops)] /\ pc \in [Tabs -> PC] /\ status \in [Ops -> Statuses]
      /\ attempts \in [Ops -> Nat] /\ seen \in [Tabs -> Nat]
      /\ MaxAttempts \in Nat \ {0} /\ Ops \subseteq Nat
  BY <1>0, OpsFacts DEF TypeOK
<1>b. \A k \in DOMAIN batch[s] : batch[s][k] \in Ops
  <2>1. batch[s] \in Seq(Ops)
    BY <1>a
  <2> QED
    BY <2>1
<1>1. CASE UNCHANGED <<status, attempts, batch, seen, pc>>
  BY <1>0, <1>1, HandUnmoved DEF Busy
<1>2. ASSUME UNCHANGED <<status, attempts, batch, seen>>,
             pc' = pc \/ (pc[s] = "idle" /\ pc'[s] = "drain")
      PROVE  Hand(s)'
  BY <1>0, <1>1, <1>2, HandUnmoved DEF Busy
<1>3. CASE GoOnline
  BY <1>2, <1>3, <1>0, <1>a, HandUnmoved DEF GoOnline, Busy
<1>4. CASE \/ GoOffline \/ Tick \/ UNCHANGED vars
           \/ \E o \in Ops : ServerMeetsOrphan(o) \/ Report(s, o)
           \/ \E f \in Folders : EnqueueLooks(s, f)
           \/ ServerAnswers(s)
  BY <1>1, <1>4 DEF GoOffline, Tick, vars, ServerMeetsOrphan, Report, EnqueueLooks, ServerAnswers
<1>5. CASE Wake(s) \/ \E f \in Folders : EnqueueMerges(s, f)
  BY <1>a, <1>2, <1>5 DEF Wake, EnqueueMerges, Flush
<1>6. CASE EnqueueAdds(s)
  <2>1. PICK o \in Ops :
           /\ status[o] = "none" /\ \A p \in Ops : p < o => status[p] # "none"
           /\ status' = [status EXCEPT ![o] = "pending"]
    BY <1>6 DEF EnqueueAdds
  <2>2. /\ UNCHANGED <<attempts, batch, seen>> /\ Head1(s)' = Head1(s)
        /\ pc' = pc \/ (pc[s] = "idle" /\ pc'[s] = "drain")
    BY <1>6, <1>a DEF EnqueueAdds, Flush, Head1
  <2>3. \A k \in DOMAIN batch[s] : /\ status[batch[s][k]] # "none" /\ batch[s][k] # o
                                   /\ ~(o < batch[s][k])
    BY <1>0, <1>b, <2>1 DEF Stands, RowsInv
  <2>4. \A p \in Ops : p # o => status'[p] = status[p]
    BY <1>a, <2>1
  <2>5. status'[o] = "pending" /\ \A i \in Stored' : i = o \/ i \in Stored
    BY <1>a, <2>1 DEF Stored
  <2>6. Busy(s)' = Busy(s) /\ (pc'[s] = "op" <=> pc[s] = "op")
        /\ (pc'[s] = "closed" <=> pc[s] = "closed") /\ (pc'[s] = "failWrite" <=> pc[s] = "failWrite")
    BY <2>2 DEF Busy
  <2>7. Busy(s) => status'[Head1(s)] = "running"
    BY <1>0, <1>a, <2>1, <2>4, BusyFacts DEF Hand, Busy
  <2>8. \A p \in Ops : status'[p] = "running" => status[p] = "running"
    BY <2>4, <2>5
  <2>9. \A k \in DOMAIN batch[s] : status'[batch[s][k]] = status[batch[s][k]]
    BY <1>b, <2>3, <2>4
  <2>10. \A k \in DOMAIN batch[s] : \A i \in Stored' : i < batch[s][k] => i \in Stored
    BY <2>3, <2>5
  <2> QED
    BY <1>0, <2>2, <2>6, <2>7, <2>8, <2>9, <2>10 DEF Hand
<1>7. CASE Start(s)
  <2>1. /\ pc'[s] = "drain" /\ batch'[s] = <<>> /\ ~Busy(s)'
        /\ \A o \in Ops : status'[o] # "running"
    BY <1>0, <1>7, <1>a DEF Start, Stands, Busy
  <2> QED
    BY <2>1, HandEmpty
<1>8. CASE Peek(s)
  BY <1>0, <1>8, HandPeek
<1>9. CASE EndDrain(s) \/ EndBatch(s)
  <2>1. /\ pc'[s] \in {"idle", "drain"} /\ batch'[s] = <<>> /\ UNCHANGED status
        /\ pc[s] \in {"drain", "op"}
    BY <1>9, <1>a DEF EndDrain, EndBatch
  <2>2. \A o \in Ops : status'[o] # "running"
    BY <1>0, <2>1 DEF Hand, Busy
  <2>3. ~Busy(s)'
    BY <2>1 DEF Busy
  <2> QED
    BY <2>1, <2>2, <2>3, HandEmpty
<1>10. CASE MarkRunning(s)
  <2> DEFINE h == Head1(s)
  <2>1. /\ h \in Ops /\ h = batch[s][1] /\ 1 \in DOMAIN batch[s] /\ pc[s] = "op" /\ pc'[s] = "call"
        /\ UNCHANGED <<batch, attempts, seen>> /\ Head1(s)' = h
    BY <1>0, <1>10, <1>a, HandFacts DEF MarkRunning, Head1
  <2>2. status[h] = "pending"
    BY <1>0, <2>1 DEF Hand
  <2>3. status' = [status EXCEPT ![h] = "running"]
    BY <1>10, <2>2 DEF MarkRunning
  <2>4. status'[h] = "running" /\ \A o \in Ops : o # h => status'[o] = status[o]
    BY <1>a, <2>1, <2>3
  <2>5. Stored' = Stored
    BY <2>1, <2>2, <2>4 DEF Stored
  <2>6. \A k \in DOMAIN batch[s] : k > 1 => batch[s][k] # h
    BY <1>0, <2>1 DEF Hand
  <2>7. \A k \in DOMAIN batch[s] : k > 1 => status'[batch[s][k]] = "pending"
    BY <1>0, <1>b, <2>4, <2>6 DEF Hand
  <2>8. Busy(s)' /\ ~Busy(s)
    BY <2>1 DEF Busy
  <2>9. \A o \in Ops : status'[o] = "running" => o = h
    BY <1>0, <2>1, <2>4, <2>8 DEF Hand
  <2> HIDE DEF h
  <2> QED
    BY <1>0, <2>1, <2>4, <2>5, <2>7, <2>8, <2>9 DEF Hand
<1>11. CASE Call(s) \/ AnswerOk(s) \/ AnswerError(s)
  <2>1. /\ pc[s] \in {"call", "await"} /\ pc'[s] \in {"await", "done", "failRead"}
        /\ UNCHANGED <<batch, attempts, seen, status>>
    BY <1>11, <1>a DEF Call, AnswerOk, AnswerError
  <2> QED
    BY <1>0, <2>1, HandUnmoved DEF Busy
<1>12. CASE MarkDone(s)
  <2>1. Head1(s) \in Ops /\ status[Head1(s)] # "none" /\ Busy(s)
    BY <1>0, <1>12, BusyFacts DEF MarkDone
  <2>2. /\ pc'[s] = "op" /\ batch'[s] = Tail(batch[s]) /\ status'[Head1(s)] = "gone"
        /\ \A o \in Ops \ {Head1(s)} : status'[o] = status[o] /\ attempts'[o] = attempts[o]
    BY <1>12, <1>a, <2>1 DEF MarkDone, Delete, Done
  <2> QED
    BY <1>0, <2>1, <2>2, HandTail
<1>13. CASE FailRead(s)
  <2>1. Head1(s) \in Ops /\ status[Head1(s)] = "running" /\ Busy(s)
    BY <1>0, <1>13, BusyFacts DEF FailRead, Hand
  <2>2. /\ pc'[s] = "failWrite" /\ seen'[s] = attempts[Head1(s)] /\ pc[s] = "failRead"
        /\ UNCHANGED <<batch, attempts, status>>
    BY <1>13, <1>a, <2>1 DEF FailRead
  <2>3. Busy(s)' /\ Head1(s)' = Head1(s) /\ Stored' = Stored
    BY <2>2 DEF Busy, Head1, Stored
  <2> QED
    BY <1>0, <2>1, <2>2, <2>3 DEF Hand
<1>14. CASE FailWrite(s)
  <2> DEFINE h == Head1(s)
  <2>1. h \in Ops /\ status[h] = "running" /\ Busy(s) /\ seen[s] + 1 \in Nat \ {0}
    BY <1>0, <1>14, <1>a, BusyFacts DEF FailWrite, Hand
  <2>2. pc'[s] = "op" /\ batch'[s] = Tail(batch[s])
    BY <1>14, <1>a DEF FailWrite, Done
  <2>3. /\ status'[h] \in {"pending", "failed"} /\ attempts'[h] = seen[s] + 1
        /\ \A o \in Ops \ {h} : status'[o] = status[o] /\ attempts'[o] = attempts[o]
    BY <1>14, <1>a, <2>1 DEF FailWrite, GiveUp, Retry
  <2> QED
    BY <1>0, <2>1, <2>2, <2>3, HandTail
<1>15. ASSUME NEW o \in Ops, DropFailed(s, o) PROVE Hand(s)'
  <2>1. /\ status[o] = "failed" /\ status'[o] = "gone" /\ UNCHANGED <<batch, attempts, seen, pc>>
        /\ \A p \in Ops \ {o} : status'[p] = status[p]
    BY <1>15, <1>a DEF DropFailed, Delete
  <2>2. Head1(s)' = Head1(s) /\ Busy(s)' = Busy(s) /\ \A i \in Stored' : i \in Stored
    BY <2>1 DEF Head1, Busy, Stored
  <2>3. Busy(s) => status'[Head1(s)] = "running"
    BY <1>0, <2>1, BusyFacts DEF Hand, Busy
  <2>4. \A k \in DOMAIN batch[s] : status[batch[s][k]] = "pending" => status'[batch[s][k]] = "pending"
    BY <1>b, <2>1
  <2>5. \A p \in Ops : status'[p] = "running" => status[p] = "running"
    BY <2>1
  <2> QED
    BY <1>0, <2>1, <2>2, <2>3, <2>4, <2>5 DEF Hand
<1>16. CASE Reload(s)
  <2>1. pc'[s] = "closed" /\ batch'[s] = <<>>
    BY <1>16, <1>a DEF Reload
  <2> QED
    BY <2>1, HandEmpty DEF Busy
<1>17. \A t \in Tabs : t = s
  BY Alone
<1> QED
  BY <1>3, <1>4, <1>5, <1>6, <1>7, <1>8, <1>9, <1>10, <1>11, <1>12, <1>13, <1>14, <1>15, <1>16, <1>17
     DEF Next, User, RunnerStep, Reconcile

-----------------------------------------------------------------------------
(* One tab: its tries are counted.                                         *)

LEMMA TryingKept ==
  ASSUME IInv, OneTab, [Next]_vars, NEW s \in Tabs, Trying(s)
  PROVE  (Trying(s)' /\ Head1(s)' = Head1(s)) \/ MarkDone(s) \/ FailWrite(s) \/ Reload(s)
<1>0. TypeOK /\ RunnerInv /\ Hand(s) /\ Stands(s)
  BY DEF IInv, OneTabInv, HandInv, RunnerInv
<1>a. pc \in [Tabs -> PC] /\ batch \in [Tabs -> Seq(Ops)] /\ pc[s] \in {"await", "done", "failRead", "failWrite"}
  BY <1>0 DEF TypeOK, Trying
<1> SUFFICES ASSUME ~MarkDone(s), ~FailWrite(s), ~Reload(s)
             PROVE  pc'[s] \in {"await", "done", "failRead", "failWrite"} /\ batch'[s] = batch[s]
  BY DEF Trying, Head1
<1> USE DEF rows, work, world, mail, hist
<1>1. CASE GoOnline
  BY <1>1, <1>a DEF GoOnline
<1>2. CASE GoOffline \/ Tick \/ UNCHANGED vars \/ \E o \in Ops : ServerMeetsOrphan(o)
  BY <1>2, <1>a DEF GoOffline, Tick, ServerMeetsOrphan, vars
<1>3. CASE Reconcile(s) \/ ServerAnswers(s) \/ \E f \in Folders : EnqueueLooks(s, f)
  BY <1>3, <1>a DEF Reconcile, Report, DropFailed, ServerAnswers, EnqueueLooks
<1>4. CASE EnqueueAdds(s) \/ Wake(s) \/ \E f \in Folders : EnqueueMerges(s, f)
  BY <1>4, <1>a DEF EnqueueAdds, Wake, EnqueueMerges, Flush
<1>5. CASE AnswerOk(s) \/ AnswerError(s)
  BY <1>5, <1>a DEF AnswerOk, AnswerError
<1>6. CASE FailRead(s)
  <2>1. status[Head1(s)] = "running"
    BY <1>0, <1>6 DEF FailRead, Hand, Busy
  <2> QED
    BY <1>6, <1>a, <2>1 DEF FailRead
<1>7. ~(Start(s) \/ Peek(s) \/ EndDrain(s) \/ EndBatch(s) \/ MarkRunning(s) \/ Call(s))
  BY <1>a DEF Start, Peek, EndDrain, EndBatch, MarkRunning, Call
<1>8. \A t \in Tabs : t = s
  BY Alone
<1> QED
  BY <1>1, <1>2, <1>3, <1>4, <1>5, <1>6, <1>7, <1>8 DEF Next, User, RunnerStep

LEMMA ReloadsChange ==
  ASSUME [Next]_vars PROVE reloads' = reloads \/ \E t \in Tabs : Reload(t)
  BY DEF Next, vars, GoOnline, GoOffline, Tick, ServerMeetsOrphan, User, EnqueueLooks, EnqueueMerges,
         EnqueueAdds, RunnerStep, Start, Peek, EndDrain, EndBatch, MarkRunning, Call, AnswerOk, AnswerError,
         MarkDone, FailRead, FailWrite, Wake, Reconcile, Report, DropFailed, ServerAnswers,
         rows, work, world, mail, hist

LEMMA AttemptsChange ==
  ASSUME [Next]_vars PROVE attempts' = attempts \/ \E t \in Tabs : FailWrite(t)
  BY StepKinds DEF rows, Tick, EnqueueAdds, Start, MarkRunning, MarkDone, Delete, DropFailed

\* How many requests an op may have caused, given where the runner stands.
Tries(o) ==
    status[o] \in {"pending", "running"} =>
        /\ attempts[o] < MaxAttempts
        /\ \/ calls[o] <= attempts[o] + reloads
           \/ /\ calls[o] <= attempts[o] + reloads + 1
              /\ \E t \in Tabs : Trying(t) /\ o = Head1(t)

LEMMA NextKeepsTries ==
  IInv /\ OneTab /\ [Next]_vars => TriesInv'
<1> SUFFICES ASSUME IInv, OneTab, [Next]_vars, NEW o \in Ops
             PROVE  calls'[o] <= MaxAttempts + reloads' /\ Tries(o)'
  BY DEF TriesInv, Tries
<1> USE DEF rows, work, world, mail, hist
<1>0. TypeOK /\ RowsInv /\ RunnerInv /\ HandInv /\ TriesInv
  BY DEF IInv, OneTabInv
<1>a. /\ status \in [Ops -> Statuses] /\ attempts \in [Ops -> Nat] /\ calls \in [Ops -> Nat]
      /\ reloads \in Nat /\ seen \in [Tabs -> Nat] /\ pc \in [Tabs -> PC]
      /\ MaxAttempts \in Nat \ {0}
  BY <1>0, OpsFacts DEF TypeOK
<1>b. calls[o] <= MaxAttempts + reloads /\ Tries(o)
  BY <1>0 DEF TriesInv, Tries
<1>c. PICK s \in Tabs : \A t \in Tabs : t = s
  BY DEF OneTab
<1>d. Hand(s)
  BY <1>0 DEF HandInv
<1>1. ASSUME UNCHANGED <<calls, attempts, reloads>>,
             status'[o] \in {"pending", "running"} => status[o] \in {"pending", "running"},
             Trying(s) /\ o = Head1(s) =>
                \/ Trying(s)' /\ Head1(s)' = Head1(s)
                \/ status'[o] \notin {"pending", "running"}
      PROVE  calls'[o] <= MaxAttempts + reloads' /\ Tries(o)'
  BY <1>b, <1>c, <1>1 DEF Tries
<1>2. CASE Call(s)
  <2> DEFINE h == Head1(s)
  <2>1. h \in Ops /\ status[h] = "running" /\ ~Trying(s) /\ Trying(s)' /\ Head1(s)' = h
    BY <1>0, <1>2, <1>a, <1>d, BusyFacts DEF Call, Hand, Busy, Trying, Head1
  <2>2. /\ UNCHANGED <<status, attempts, reloads>> /\ calls'[h] = calls[h] + 1
        /\ \A p \in Ops : p # h => calls'[p] = calls[p]
    BY <1>2, <1>a, <2>1 DEF Call
  <2>3. status[o] \in {"pending", "running"} => calls[o] <= attempts[o] + reloads
    BY <1>b, <1>c, <2>1 DEF Tries
  <2>4. CASE o = h
    <3>1. /\ calls[o] <= attempts[o] + reloads /\ attempts[o] < MaxAttempts
          /\ calls'[o] = calls[o] + 1
      BY <1>b, <2>1, <2>2, <2>3, <2>4 DEF Tries
    <3>2. attempts[o] \in Nat /\ calls[o] \in Nat
      BY <1>a
    <3>3. calls'[o] <= MaxAttempts + reloads /\ calls'[o] <= attempts[o] + reloads + 1
      BY <1>a, <3>1, <3>2
    <3> QED
      BY <1>b, <2>1, <2>2, <2>4, <3>3 DEF Tries
  <2>5. CASE o # h
    BY <1>b, <2>2, <2>3, <2>5 DEF Tries
  <2> QED
    BY <2>4, <2>5
<1>3. CASE FailWrite(s)
  <2> DEFINE h == Head1(s)
  <2>1. /\ h \in Ops /\ status[h] = "running" /\ seen[s] = attempts[h]
        /\ UNCHANGED <<calls, reloads>>
    BY <1>0, <1>3, <1>a, <1>d, BusyFacts DEF FailWrite, Hand, Busy
  <2>2. /\ \A p \in Ops : p # h => status'[p] = status[p] /\ attempts'[p] = attempts[p]
        /\ attempts'[h] = attempts[h] + 1
        /\ status'[h] = "failed" \/ (status'[h] = "pending" /\ ~(attempts[h] + 1 >= MaxAttempts))
    BY <1>3, <1>a, <2>1 DEF FailWrite, GiveUp, Retry
  <2>3. CASE o = h
    <3>1. calls[o] <= attempts[o] + reloads \/ calls[o] <= attempts[o] + reloads + 1
      BY <1>b, <2>1, <2>3 DEF Tries
    <3>2. attempts[o] \in Nat /\ calls[o] \in Nat
      BY <1>a
    <3>3. calls[o] <= attempts[o] + 1 + reloads
      BY <1>a, <3>1, <3>2
    <3>4. CASE status'[h] = "failed"
      BY <1>b, <2>1, <2>3, <3>4 DEF Tries
    <3>5. CASE ~(attempts[h] + 1 >= MaxAttempts)
      <4>1. attempts'[o] < MaxAttempts
        BY <1>a, <2>2, <2>3, <3>2, <3>5
      <4>2. calls'[o] <= attempts'[o] + reloads'
        BY <2>1, <2>2, <2>3, <3>3
      <4>3. calls'[o] <= MaxAttempts + reloads'
        BY <1>b, <2>1
      <4> QED
        BY <4>1, <4>2, <4>3 DEF Tries
    <3> QED
      BY <2>2, <3>4, <3>5
  <2>4. CASE o # h
    BY <1>b, <1>c, <2>1, <2>2, <2>4 DEF Tries
  <2> QED
    BY <2>3, <2>4
<1>4. CASE Reload(s)
  <2>1. reloads' = reloads + 1 /\ UNCHANGED <<calls, attempts, status>>
    BY <1>4 DEF Reload
  <2>2. attempts[o] \in Nat /\ calls[o] \in Nat
    BY <1>a
  <2>3. calls[o] <= MaxAttempts + reloads'
    BY <1>a, <1>b, <2>1, <2>2
  <2>4. status[o] \in {"pending", "running"} =>
           attempts[o] < MaxAttempts /\ calls[o] <= attempts[o] + reloads'
    BY <1>a, <1>b, <2>1, <2>2 DEF Tries
  <2> QED
    BY <2>1, <2>3, <2>4 DEF Tries
<1>5. CASE EnqueueAdds(s)
  <2>1. PICK p \in Ops : status[p] = "none" /\ status' = [status EXCEPT ![p] = "pending"]
    BY <1>5 DEF EnqueueAdds
  <2>2. UNCHANGED <<calls, attempts, reloads>>
    BY <1>5 DEF EnqueueAdds
  <2>3. CASE o = p
    <3>1. attempts[o] = 0 /\ calls[o] = 0
      BY <1>0, <2>1, <2>3 DEF RowsInv
    <3> QED
      BY <1>a, <1>b, <2>2, <3>1 DEF Tries
  <2>4. CASE o # p
    <3>1. status'[o] = status[o]
      BY <1>a, <2>1, <2>4
    <3>2. Trying(s) => Trying(s)' /\ Head1(s)' = Head1(s)
      BY <1>5 DEF EnqueueAdds, Flush, Trying, Head1
    <3> QED
      BY <1>1, <2>2, <3>1, <3>2
  <2> QED
    BY <2>3, <2>4
<1>6. CASE ~(Call(s) \/ FailWrite(s) \/ Reload(s) \/ EnqueueAdds(s))
  <2>1. UNCHANGED <<calls, attempts, reloads>>
    BY <1>c, <1>6, CallsChange, AttemptsChange, ReloadsChange
  <2>2. status'[o] \in {"pending", "running"} => status[o] \in {"pending", "running"}
    <3>1. CASE UNCHANGED rows \/ Tick
      BY <3>1 DEF Tick
    <3>2. CASE Start(s)
      BY <1>a, <3>2 DEF Start
    <3>3. CASE MarkRunning(s)
      <4>1. Head1(s) \in Ops /\ 1 \in DOMAIN batch[s] /\ Head1(s) = batch[s][1] /\ pc[s] = "op"
        BY <1>0, <3>3, HandFacts DEF MarkRunning
      <4>2. status[Head1(s)] = "pending"
        BY <1>d, <4>1 DEF Hand
      <4> QED
        BY <1>a, <3>3, <4>1, <4>2 DEF MarkRunning
    <3>4. CASE MarkDone(s)
      <4>1. Head1(s) \in Ops
        BY <1>0, <3>4, BusyFacts DEF MarkDone
      <4> QED
        BY <1>a, <3>4, <4>1 DEF MarkDone, Delete
    <3>5. ASSUME NEW p \in Ops, DropFailed(s, p)
          PROVE  status'[o] \in {"pending", "running"} => status[o] \in {"pending", "running"}
      BY <1>a, <3>5 DEF DropFailed, Delete
    <3> QED
      BY <1>c, <1>6, <3>1, <3>2, <3>3, <3>4, <3>5, StepKinds
  <2>3. Trying(s) /\ o = Head1(s) =>
                \/ Trying(s)' /\ Head1(s)' = Head1(s)
                \/ status'[o] \notin {"pending", "running"}
    <3>1. MarkDone(s) /\ o = Head1(s) => status'[o] \notin {"pending", "running"}
      <4>1. MarkDone(s) => status[Head1(s)] # "none"
        BY <1>0, BusyFacts DEF MarkDone
      <4> QED
        BY <1>a, <4>1 DEF MarkDone, Delete
    <3> QED
      BY <1>6, <3>1, TryingKept
  <2> QED
    BY <1>1, <2>1, <2>2, <2>3
<1> QED
  BY <1>2, <1>3, <1>4, <1>5, <1>6

-----------------------------------------------------------------------------
(* One tab: whoever asked is told.                                         *)

LEMMA StoredShrinks ==
  ASSUME TypeOK, RowsInv, RunnerInv, [Next]_vars, NEW o \in Stored', o \notin Stored
  PROVE  \E t \in Tabs : EnqueueAdds(t) /\ o \in callbacks'[t] /\ o \in Ops
<1>0. /\ status \in [Ops -> Statuses] /\ o \in Ops /\ callbacks \in [Tabs -> SUBSET Ops]
      /\ status'[o] \notin {"none", "gone"} /\ status[o] \in {"none", "gone"}
  BY DEF TypeOK, Stored
<1>1. ASSUME UNCHANGED status PROVE FALSE
  BY <1>0, <1>1
<1>2. ASSUME NEW t \in Tabs, EnqueueAdds(t) PROVE o \in callbacks'[t]
  BY <1>0, <1>2 DEF EnqueueAdds
<1>3. ASSUME NEW t \in Tabs, Start(t) \/ MarkRunning(t) PROVE FALSE
  <2>1. CASE Start(t)
    BY <1>0, <2>1 DEF Start
  <2>2. CASE MarkRunning(t)
    <3>1. Head1(t) \in Ops /\ status[Head1(t)] # "none"
      BY <2>2, HandFacts DEF MarkRunning
    <3> QED
      BY <1>0, <2>2, <3>1 DEF MarkRunning
  <2> QED
    BY <1>3, <2>1, <2>2
<1>4. ASSUME NEW p \in Ops, Delete(p) PROVE FALSE
  BY <1>0, <1>4 DEF Delete
<1>5. ASSUME NEW t \in Tabs, FailWrite(t) PROVE FALSE
  <2>1. Head1(t) \in Ops /\ status[Head1(t)] # "none"
    BY <1>5, BusyFacts DEF FailWrite
  <2> QED
    BY <1>0, <1>5, <2>1 DEF FailWrite, GiveUp, Retry, rows
<1> QED
  BY <1>0, <1>1, <1>2, <1>3, <1>4, <1>5, StepKinds, BusyFacts
     DEF rows, Tick, MarkDone, DropFailed

LEMMA WordChange ==
  ASSUME [Next]_vars
  PROVE  \/ UNCHANGED <<callbacks, reported, muted>>
         \/ \E t \in Tabs : \/ EnqueueAdds(t) \/ Reload(t)
                            \/ \E f \in Folders : EnqueueMerges(t, f)
                            \/ \E o \in Ops : Report(t, o)
  BY DEF Next, vars, GoOnline, GoOffline, Tick, ServerMeetsOrphan, User, EnqueueLooks,
         RunnerStep, Start, Peek, EndDrain, EndBatch, MarkRunning, Call, AnswerOk, AnswerError,
         MarkDone, FailRead, FailWrite, Wake, Reconcile, DropFailed, ServerAnswers,
         rows, work, world, mail, hist

LEMMA NextKeepsWord ==
  IInv /\ OneTab /\ [Next]_vars => WordInv'
<1> SUFFICES ASSUME IInv, OneTab, [Next]_vars, NEW o \in Stored', NEW s \in Tabs
             PROVE  o \in callbacks'[s] \cup reported' \cup muted'
  BY DEF WordInv
<1>0. TypeOK /\ RowsInv /\ RunnerInv /\ WordInv /\ callbacks \in [Tabs -> SUBSET Ops]
  BY DEF IInv, OneTabInv, TypeOK
<1>1. \A t \in Tabs : t = s
  BY Alone
<1>2. CASE o \notin Stored
  BY <1>0, <1>1, <1>2, StoredShrinks
<1>3. CASE o \in Stored
  <2>1. o \in callbacks[s] \cup reported \cup muted
    BY <1>0, <1>3 DEF WordInv
  <2>2. CASE EnqueueAdds(s)
    BY <1>0, <2>1, <2>2 DEF EnqueueAdds, hist
  <2>3. CASE Reload(s)
    BY <1>0, <2>1, <2>3 DEF Reload
  <2>4. ASSUME NEW f \in Folders, EnqueueMerges(s, f)
        PROVE  o \in callbacks'[s] \cup reported' \cup muted'
    BY <1>0, <2>1, <2>4 DEF EnqueueMerges
  <2>5. ASSUME NEW p \in Ops, Report(s, p)
        PROVE  o \in callbacks'[s] \cup reported' \cup muted'
    BY <1>0, <2>1, <2>5 DEF Report
  <2> QED
    BY <1>1, <2>1, <2>2, <2>3, <2>4, <2>5, WordChange
<1> QED
  BY <1>2, <1>3

-----------------------------------------------------------------------------
(* One tab: an op that has not failed keeps its place.                     *)

\* A row that was tried stays tried.
LEMMA TriedStays ==
  ASSUME TypeOK, RowsInv, RunnerInv, [Next]_vars, NEW i \in Ops, attempts'[i] = 0
  PROVE  attempts[i] = 0
<1>0. attempts \in [Ops -> Nat] /\ seen \in [Tabs -> Nat]
  BY DEF TypeOK
<1>1. ASSUME NEW t \in Tabs, FailWrite(t) PROVE attempts[i] = 0
  <2>1. seen[t] + 1 # 0
    BY <1>0
  <2>2. attempts' = attempts \/ attempts' = [attempts EXCEPT ![Head1(t)] = seen[t] + 1]
    BY <1>1 DEF FailWrite, GiveUp, Retry, rows
  <2> QED
    BY <1>0, <2>1, <2>2
<1> QED
  BY <1>1, AttemptsChange

LEMMA NextKeepsPlaces ==
  ASSUME TypeOK, OrderInv, RowsInv, RunnerInv, [Next]_vars,
         \A i, j \in Stored : i < j /\ attempts[i] = 0 => i \in ahead[j],
         NEW i \in Stored', NEW j \in Stored', i < j, attempts'[i] = 0
  PROVE  i \in ahead'[j]
<1>0. /\ i \in Ops /\ j \in Ops /\ attempts[i] = 0 /\ wait[i] = 0 /\ Ops \subseteq Nat
      /\ status \in [Ops -> Statuses] /\ wait \in [Ops -> 0 .. MaxWait] /\ Stored \subseteq Ops
  <2>1. i \in Ops /\ j \in Ops
    BY DEF Stored
  <2>2. attempts[i] = 0
    BY <2>1, TriedStays
  <2> QED
    BY <2>1, <2>2, OpsFacts DEF RowsInv, TypeOK, Stored
<1>1. i \in Stored /\ j \in Stored => i \in ahead[j]
  BY <1>0
<1>2. CASE i \notin Stored \/ j \notin Stored
  <2>1. PICK t \in Tabs : EnqueueAdds(t)
    BY <1>2, StoredShrinks
  <2>2. PICK o \in Ops :
           /\ status[o] = "none" /\ status' = [status EXCEPT ![o] = "pending"]
           /\ ahead' = Placed(o, DueBy(0))
    BY <2>1 DEF EnqueueAdds
  <2>3. \A p \in Stored' : p = o \/ p \in Stored
    BY <1>0, <2>2 DEF Stored
  <2>4. i # o
    <3>1. i = o => status[j] = "none" /\ j # o
      BY <1>0, <2>2 DEF RowsInv
    <3> QED
      BY <2>3, <3>1 DEF Stored
  <2>5. j = o /\ i \in Stored
    BY <1>2, <2>3, <2>4
  <2>6. i \in DueBy(0)
    BY <1>0, <2>5 DEF DueBy
  <2> QED
    BY <1>0, <2>2, <2>5, <2>6 DEF Placed
<1>3. CASE i \in Stored /\ j \in Stored
  <2>1. i \in ahead[j] /\ i # j
    BY <1>0, <1>1, <1>3
  <2>2. CASE UNCHANGED ahead
    BY <2>1, <2>2
  <2>3. ASSUME NEW o \in Ops, ahead' = Without(o), status'[o] \in {"none", "gone"} PROVE i \in ahead'[j]
    <3>1. i # o /\ j # o
      BY <2>3 DEF Stored
    <3> QED
      BY <1>0, <2>1, <2>3, <3>1 DEF Without
  <2>4. ASSUME NEW o \in Ops, NEW first \in SUBSET Ops, ahead' = Placed(o, first), i # o,
               j = o => i \in first
        PROVE  i \in ahead'[j]
    BY <1>0, <2>1, <2>4 DEF Placed
  <2>5. ASSUME NEW t \in Tabs, EnqueueAdds(t) PROVE i \in ahead'[j]
    <3>1. PICK o \in Ops : status[o] = "none" /\ ahead' = Placed(o, DueBy(0))
      BY <2>5 DEF EnqueueAdds
    <3>2. i # o /\ j # o /\ DueBy(0) \in SUBSET Ops
      BY <1>3, <3>1 DEF Stored, DueBy
    <3> QED
      BY <2>4, <3>1, <3>2
  <2>6. ASSUME NEW o \in Ops, Delete(o) PROVE i \in ahead'[j]
    BY <1>0, <2>3, <2>6 DEF Delete
  <2>7. ASSUME NEW t \in Tabs, FailWrite(t) PROVE i \in ahead'[j]
    <3> DEFINE h == Head1(t)
    <3>1. h \in Ops /\ seen[t] + 1 # 0
      BY <2>7, BusyFacts DEF FailWrite, TypeOK
    <3>2. ASSUME NEW d \in Backoff, Retry(h, seen[t] + 1, d) PROVE i \in ahead'[j]
      <4>1. PICK first \in Places(h, d) : ahead' = Placed(h, first)
        BY <3>2 DEF Retry
      <4>2. attempts'[h] = seen[t] + 1 /\ first \in SUBSET Ops
        BY <3>1, <3>2, <4>1 DEF Retry, TypeOK, Places, DueBy, Stored
      <4>3. i # h
        BY <3>1, <4>2
      <4>4. i \in DueBy(d - 1) \ {h}
        <5>1. 0 <= d - 1
          BY OpsFacts DEF Backoff
        <5> QED
          BY <1>0, <1>3, <4>3, <5>1 DEF DueBy
      <4>5. i \in first
        BY <4>1, <4>4 DEF Places
      <4> HIDE DEF h
      <4> QED
        BY <2>4, <3>1, <4>1, <4>2, <4>3, <4>5
    <3>3. UNCHANGED ahead \/ \E d \in Backoff : Retry(h, seen[t] + 1, d)
      BY <2>7 DEF FailWrite, GiveUp, rows
    <3> QED
      BY <2>2, <3>2, <3>3
  <2>8. ASSUME NEW t \in Tabs, MarkDone(t) PROVE i \in ahead'[j]
    BY <2>6, <2>8, BusyFacts DEF MarkDone
  <2> QED
    BY <2>2, <2>5, <2>6, <2>7, <2>8, StepKinds DEF rows, Tick, Start, MarkRunning, DropFailed
<1> QED
  BY <1>2, <1>3

\* Only an op with no untried one before it is run.
LEMMA TurnFacts ==
  ASSUME IInv, OneTab, NEW t \in Tabs, Busy(t), NEW i \in Ops, i < Head1(t), attempts[i] = 0
  PROVE  i \in Range(applied)
<1>0. TypeOK /\ RowsInv /\ RunnerInv /\ Hand(t)
  BY DEF IInv, OneTabInv, HandInv
<1>1. Head1(t) \in Ops /\ Head1(t) = batch[t][1] /\ 1 \in DOMAIN batch[t] /\ status[Head1(t)] # "none"
  BY <1>0, BusyFacts DEF Busy
<1>2. status[i] # "none"
  BY <1>0, <1>1 DEF RowsInv
<1>3. i \notin Stored
  <2>1. SUFFICES ASSUME i \in Stored PROVE FALSE
    OBVIOUS
  <2>2. PICK l \in DOMAIN batch[t] : l < 1 /\ batch[t][l] = i
    BY <1>0, <1>1, <2>1 DEF Hand
  <2>3. batch[t] \in Seq(Ops)
    BY <1>0 DEF TypeOK
  <2> QED
    BY <2>2, <2>3
<1>4. status[i] = "gone"
  BY <1>2, <1>3 DEF Stored
<1>5. ~(attempts[i] >= MaxAttempts)
  BY OpsFacts
<1> QED
  BY <1>0, <1>4, <1>5 DEF RowsInv

LEMMA NextKeepsTurns ==
  ASSUME IInv, OneTab, [Next]_vars, NEW i \in Ops, NEW j \in Ops, i < j, calls'[j] > 0,
         attempts'[i] = 0
  PROVE  i \in Range(applied')
<1>0. TypeOK /\ RowsInv /\ RunnerInv /\ FifoInv /\ calls \in [Ops -> Nat] /\ attempts \in [Ops -> Nat]
  BY DEF IInv, OneTabInv, TypeOK
<1>1. attempts[i] = 0 /\ Range(applied) \subseteq Range(applied')
  BY <1>0, TriedStays, OnlyGrows
<1>2. CASE calls[j] > 0
  BY <1>0, <1>1, <1>2 DEF FifoInv
<1>3. CASE ~(calls[j] > 0)
  <2>1. PICK t \in Tabs : Call(t)
    BY <1>3, CallsChange
  <2>2. Busy(t) /\ Head1(t) \in Ops
    BY <1>0, <2>1, BusyFacts DEF Call
  <2>3. j = Head1(t)
    BY <1>0, <1>3, <2>1, <2>2 DEF Call
  <2> QED
    BY <1>1, <2>2, <2>3, TurnFacts
<1> QED
  BY <1>2, <1>3

LEMMA NextKeepsFifo ==
  IInv /\ OneTab /\ [Next]_vars => FifoInv'
<1> SUFFICES ASSUME IInv, OneTab, [Next]_vars PROVE FifoInv'
  OBVIOUS
<1>0. TypeOK /\ OrderInv /\ RowsInv /\ RunnerInv /\ FifoInv /\ Ops \subseteq Nat /\ applied \in Seq(Ops)
      /\ attempts \in [Ops -> Nat] /\ calls \in [Ops -> Nat] /\ attempts' \in [Ops -> Nat]
  BY OpsFacts, NextKeepsTypeOK DEF IInv, OneTabInv, TypeOK
<1>1. \A i, j \in Stored' : i < j /\ attempts'[i] = 0 => i \in ahead'[j]
  <2>1. \A i, j \in Stored : i < j /\ attempts[i] = 0 => i \in ahead[j]
    BY <1>0 DEF FifoInv
  <2> QED
    BY <1>0, <2>1, NextKeepsPlaces
<1>2. \A i, j \in Ops : i < j /\ calls'[j] > 0 => attempts'[i] > 0 \/ i \in Range(applied')
  <2> TAKE i, j \in Ops
  <2>1. attempts'[i] = 0 \/ attempts'[i] > 0
    BY <1>0
  <2> QED
    BY <2>1, NextKeepsTurns
<1>3. ASSUME NEW i \in Ops, NEW j \in Ops, Overtakes(j, i)' PROVE attempts'[i] > 0
  <2>0. SUFFICES ASSUME attempts'[i] = 0 PROVE FALSE
    BY <1>0
  <2>1. attempts[i] = 0
    BY <1>0, <2>0, TriedStays
  <2>2. ~Overtakes(j, i)
    BY <1>0, <2>1 DEF FifoInv, FifoUnlessRetried
  <2>3. PICK m, n \in DOMAIN applied' : m < n /\ applied'[m] = j /\ applied'[n] = i /\ i < j
    BY <1>3 DEF Overtakes
  <2>4. PICK o \in Ops : TakesEffect(o) /\ applied' = Append(applied, o) /\ o \notin Range(applied)
    <3>1. applied' # applied
      BY <2>2, <2>3 DEF Overtakes
    <3>2. ASSUME NEW t \in Tabs, ServerAnswers(t) PROVE Head1(t) \in Ops
      BY <1>0, <3>2, BusyFacts DEF ServerAnswers
    <3>3. \E o \in Ops : TakesEffect(o)
      BY <3>1, <3>2, AppliedChange
    <3> QED
      BY <3>1, <3>3 DEF TakesEffect
  <2>5. /\ \A k \in DOMAIN applied' : \/ k \in DOMAIN applied /\ applied'[k] = applied[k]
                                      \/ k = Len(applied) + 1 /\ applied'[k] = o
        /\ DOMAIN applied = 1 .. Len(applied) /\ DOMAIN applied' = 1 .. Len(applied) + 1
        /\ Len(applied) \in Nat
    BY <1>0, <2>4, AppendFacts
  <2>6. m \in DOMAIN applied /\ applied[m] = j
    BY <2>3, <2>5
  <2>7. n \notin DOMAIN applied /\ i = o
    BY <2>2, <2>3, <2>5, <2>6 DEF Overtakes
  <2>8. calls[j] > 0
    BY <1>0, <2>6 DEF Range, RowsInv
  <2>9. i \in Range(applied)
    BY <1>0, <2>1, <2>3, <2>8 DEF FifoInv
  <2> QED
    BY <2>4, <2>7, <2>9
<1> QED
  BY <1>1, <1>2, <1>3 DEF FifoInv, FifoUnlessRetried

-----------------------------------------------------------------------------
(* One tab, and nothing failed so far.                                     *)

LEMMA SmoothBefore ==
  ASSUME TypeOK, [Next]_vars, Smooth'
  PROVE  Smooth /\ \A t \in Tabs : ~Reload(t) /\ (ServerAnswers(t) => call'[t] = "applied")
                                   /\ (AnswerError(t) => call[t] = "refused")
<1>0. failures \in Nat /\ reloads \in Nat /\ call \in [Tabs -> {"none", "sent", "applied", "refused"}]
  BY DEF TypeOK
<1>1. failures' = failures \/ failures' = failures + 1
  BY DEF Next, vars, GoOnline, GoOffline, Tick, ServerMeetsOrphan, User, EnqueueLooks, EnqueueMerges,
         EnqueueAdds, RunnerStep, Start, Peek, EndDrain, EndBatch, MarkRunning, Call, AnswerOk, AnswerError,
         MarkDone, FailRead, FailWrite, Wake, Reconcile, Report, DropFailed, Reload, ServerAnswers,
         rows, work, world, mail, hist
<1>2. reloads' = reloads \/ reloads' = reloads + 1
  BY ReloadsChange DEF Reload
<1>3. Smooth
  BY <1>0, <1>1, <1>2 DEF Smooth
<1>4. ASSUME NEW t \in Tabs
      PROVE  ~Reload(t) /\ (ServerAnswers(t) => call'[t] = "applied")
                        /\ (AnswerError(t) => call[t] = "refused")
  BY <1>0, <1>3 DEF Smooth, Reload, ServerAnswers, AnswerError
<1> QED
  BY <1>3, <1>4

LEMMA NewRow ==
  ASSUME TypeOK, RowsInv, RunnerInv, [Next]_vars, NEW o \in Ops, status[o] = "none", status'[o] # "none"
  PROVE  \E t \in Tabs : EnqueueAdds(t)
<1>0. status \in [Ops -> Statuses]
  BY DEF TypeOK
<1>1. ~UNCHANGED status
  OBVIOUS
<1>2. ASSUME NEW t \in Tabs, Start(t) PROVE FALSE
  BY <1>0, <1>2 DEF Start
<1>3. ASSUME NEW t \in Tabs, MarkRunning(t) PROVE FALSE
  <2>1. Head1(t) \in Ops /\ status[Head1(t)] # "none"
    BY <1>3, HandFacts DEF MarkRunning
  <2> QED
    BY <1>0, <1>3, <2>1 DEF MarkRunning
<1>4. ASSUME NEW p \in Ops, Delete(p) PROVE FALSE
  BY <1>0, <1>4 DEF Delete
<1>5. ASSUME NEW t \in Tabs, FailWrite(t) PROVE FALSE
  <2>1. Head1(t) \in Ops /\ status[Head1(t)] # "none"
    BY <1>5, BusyFacts DEF FailWrite
  <2> QED
    BY <1>0, <1>5, <2>1 DEF FailWrite, GiveUp, Retry, rows
<1> QED
  BY <1>1, <1>2, <1>3, <1>4, <1>5, StepKinds, BusyFacts DEF rows, Tick, MarkDone, DropFailed

LEMMA DestChange ==
  ASSUME TypeOK, [Next]_vars, NEW o \in Ops, status[o] # "none" PROVE dest'[o] = dest[o]
<1>1. ASSUME NEW t \in Tabs, EnqueueAdds(t) PROVE dest'[o] = dest[o]
  <2>1. PICK p \in Ops : status[p] = "none" /\ dest' = [dest EXCEPT ![p] = adding[t]]
    BY <1>1 DEF EnqueueAdds
  <2>2. dest \in [Ops -> Folders \cup {None}]
    BY DEF TypeOK
  <2> QED
    BY <2>1, <2>2
<1>2. UNCHANGED dest \/ \E t \in Tabs : EnqueueAdds(t)
  BY StepKinds DEF rows, Tick, Start, MarkRunning, MarkDone, Delete, FailWrite, GiveUp, Retry, DropFailed
<1> QED
  BY <1>1, <1>2

LEMMA SmoothEffects ==
  ASSUME IInv, OneTab, [Next]_vars, Smooth, NEW o \in Range(applied'),
         \A p \in Range(applied') : p <= o
  PROVE  folder' = dest'[o]
<1>0. TypeOK /\ RowsInv /\ RunnerInv /\ FifoInv /\ SmoothInv /\ applied \in Seq(Ops) /\ Ops \subseteq Nat
      /\ calls \in [Ops -> Nat]
  BY OpsFacts DEF IInv, OneTabInv, TypeOK
<1>1. \A p \in Range(applied) : p \in Ops /\ calls[p] > 0 /\ status[p] # "none"
  <2>1. \A p \in Range(applied) : p \in Ops
    BY <1>0 DEF Range
  <2>2. \A p \in Range(applied) : calls[p] > 0
    BY <1>0, <2>1 DEF RowsInv
  <2>3. \A p \in Ops : status[p] = "none" => calls[p] = 0
    BY <1>0 DEF RowsInv
  <2> QED
    BY <2>1, <2>2, <2>3
<1>2. CASE UNCHANGED <<applied, folder>>
  <2>1. folder = dest[o]
    BY <1>0, <1>2 DEF SmoothInv
  <2> QED
    BY <1>0, <1>1, <1>2, <2>1, DestChange
<1>3. ASSUME NEW t \in Tabs, ServerAnswers(t), TakesEffect(Head1(t))
      PROVE  folder' = dest'[o]
  <2> DEFINE h == Head1(t)
  <2>1. h \in Ops /\ status[h] # "none" /\ Busy(t) /\ call[t] = "sent"
    BY <1>0, <1>3, BusyFacts DEF ServerAnswers
  <2>2. h \notin Range(applied) /\ attempts[h] = 0
    BY <1>0, <2>1 DEF SmoothInv
  <2>3. Range(applied') = Range(applied) \cup {h} /\ folder' = dest[h] /\ dest' = dest
    BY <1>0, <1>3, <2>1, EffectFacts DEF ServerAnswers, TakesEffect, rows
  <2>4. \A p \in Range(applied) : ~(h < p)
    <3> TAKE p \in Range(applied)
    <3>1. p \in Ops /\ calls[p] > 0
      BY <1>1
    <3>2. h < p => attempts[h] > 0 \/ h \in Range(applied)
      BY <1>0, <2>1, <3>1 DEF FifoInv
    <3>3. ~(attempts[h] > 0)
      BY <2>2
    <3> QED
      BY <2>2, <3>2, <3>3
  <2>5. o = h
    <3>1. o \in Range(applied) => o \in Nat /\ h \in Nat /\ h <= o /\ ~(h < o)
      BY <1>0, <1>1, <2>1, <2>3, <2>4
    <3>2. o \in Range(applied) => o = h
      <4> HIDE DEF h
      <4> QED
        BY <3>1
    <3> QED
      BY <2>3, <3>2
  <2> QED
    BY <2>3, <2>5
<1>4. ASSUME NEW p \in Ops, ServerMeetsOrphan(p) PROVE FALSE
  BY <1>0, <1>4 DEF ServerMeetsOrphan, SmoothInv
<1> QED
  BY <1>2, <1>3, <1>4, AppliedChange

SmoothTab(t) ==
    /\ call[t] # "refused" /\ pc[t] \notin {"failRead", "failWrite"}
    /\ pc[t] = "call" => calls[Head1(t)] = 0
    /\ call[t] = "sent" => Head1(t) \notin Range(applied)
    /\ pc[t] = "closed" => \A o \in Ops : status[o] = "none"

LEMMA NextKeepsSmoothTab ==
  ASSUME IInv, OneTab, [Next]_vars, Smooth', NEW s \in Tabs
  PROVE  SmoothTab(s)'
<1>0. /\ TypeOK /\ RowsInv /\ RunnerInv /\ Hand(s) /\ Stands(s) /\ SmoothInv /\ Smooth
      /\ \A t \in Tabs : ~Reload(t) /\ (ServerAnswers(t) => call'[t] = "applied")
                                   /\ (AnswerError(t) => call[t] = "refused")
  BY SmoothBefore DEF IInv, OneTabInv, HandInv, RunnerInv
<1>a. SmoothTab(s) /\ orphans = {}
  BY <1>0 DEF SmoothInv, SmoothTab
<1>b. /\ pc \in [Tabs -> PC] /\ batch \in [Tabs -> Seq(Ops)]
      /\ call \in [Tabs -> {"none", "sent", "applied", "refused"}] /\ calls \in [Ops -> Nat]
  BY <1>0 DEF TypeOK
<1> USE DEF rows, work, world, mail, hist
<1>c. \A t \in Tabs : t = s
  BY Alone
<1>d. pc[s] = "closed" => ~EnqueueAdds(s)
  BY <1>0 DEF Stands, EnqueueAdds
<1>e. pc[s] = "closed" => \A o \in Ops : status'[o] = "none"
  BY <1>0, <1>a, <1>c, <1>d, NewRow DEF SmoothTab
<1>1. ASSUME UNCHANGED <<pc, batch, call, calls, applied>> PROVE SmoothTab(s)'
  BY <1>1, <1>a, <1>e DEF SmoothTab, Head1
<1>2. ASSUME UNCHANGED <<batch, call, calls, applied>>, pc' = pc \/ (pc[s] = "idle" /\ pc'[s] = "drain")
      PROVE  SmoothTab(s)'
  BY <1>1, <1>2, <1>a DEF SmoothTab, Head1
<1>3. CASE GoOnline
  <2>1. pc'[s] = pc[s] \/ pc'[s] = "drain"
    BY <1>3, <1>b DEF GoOnline
  <2>2. UNCHANGED <<batch, call, calls, applied>>
    BY <1>3 DEF GoOnline
  <2> QED
    BY <1>a, <1>e, <2>1, <2>2 DEF SmoothTab, Head1
<1>4. CASE GoOffline \/ Tick \/ UNCHANGED vars \/ Reconcile(s) \/ \E f \in Folders : EnqueueLooks(s, f)
  BY <1>1, <1>4 DEF GoOffline, Tick, Reconcile, Report, DropFailed, EnqueueLooks, vars
<1>5. CASE EnqueueAdds(s) \/ Wake(s) \/ \E f \in Folders : EnqueueMerges(s, f)
  BY <1>b, <1>2, <1>5 DEF EnqueueAdds, Wake, EnqueueMerges, Flush
<1>6. ASSUME NEW o \in Ops, ServerMeetsOrphan(o) PROVE SmoothTab(s)'
  BY <1>6, <1>a DEF ServerMeetsOrphan
<1>7. CASE Start(s) \/ Peek(s) \/ EndDrain(s) \/ EndBatch(s)
  <2>1. pc'[s] \in {"drain", "op", "idle"} /\ call' = call /\ pc[s] \in {"closed", "drain", "op"}
    BY <1>7, <1>b DEF Start, Peek, EndDrain, EndBatch
  <2>2. call[s] = "none"
    BY <1>0, <1>b, <2>1 DEF Stands
  <2> QED
    BY <2>1, <2>2 DEF SmoothTab
<1>8. CASE MarkRunning(s)
  <2>1. /\ Head1(s) \in Ops /\ Head1(s) = batch[s][1] /\ 1 \in DOMAIN batch[s] /\ pc[s] = "op"
        /\ call[s] = "none"
    BY <1>0, <1>8, HandFacts DEF MarkRunning, Stands
  <2>2. status[Head1(s)] = "pending"
    BY <1>0, <2>1 DEF Hand
  <2>3. calls[Head1(s)] = 0
    BY <1>0, <2>1, <2>2 DEF SmoothInv
  <2> QED
    BY <1>8, <1>b, <2>1, <2>3 DEF MarkRunning, SmoothTab, Head1
<1>9. CASE Call(s)
  <2>1. Head1(s) \in Ops /\ calls[Head1(s)] = 0
    BY <1>0, <1>9, <1>a, BusyFacts DEF Call, SmoothTab
  <2>2. Head1(s) \notin Range(applied)
    BY <1>0, <2>1 DEF RowsInv
  <2> QED
    BY <1>9, <1>b, <2>2 DEF Call, SmoothTab, Head1
<1>10. CASE AnswerOk(s)
  BY <1>10, <1>b DEF AnswerOk, SmoothTab
<1>11. ~AnswerError(s) /\ ~FailRead(s) /\ ~FailWrite(s)
  BY <1>0, <1>a DEF FailRead, FailWrite, SmoothTab
<1>12. CASE MarkDone(s)
  <2>1. call[s] = "none"
    BY <1>0, <1>12 DEF Stands, MarkDone
  <2> QED
    BY <1>12, <1>b, <2>1 DEF MarkDone, Done, SmoothTab
<1>13. CASE ServerAnswers(s)
  <2>1. pc[s] = "await" /\ pc' = pc /\ call'[s] = "applied"
    BY <1>0, <1>13 DEF ServerAnswers, Stands
  <2> QED
    BY <2>1 DEF SmoothTab
<1> QED
  BY <1>0, <1>c, <1>3, <1>4, <1>5, <1>6, <1>7, <1>8, <1>9, <1>10, <1>11, <1>12, <1>13 DEF Next, User, RunnerStep

LEMMA NextKeepsSmooth ==
  IInv /\ OneTab /\ [Next]_vars => SmoothInv'
<1> SUFFICES ASSUME IInv, OneTab, [Next]_vars, Smooth' PROVE SmoothInv'
  BY DEF SmoothInv
<1>0. /\ TypeOK /\ RowsInv /\ RunnerInv /\ HandInv /\ SmoothInv /\ Smooth
      /\ \A t \in Tabs : ~Reload(t) /\ (AnswerError(t) => call[t] = "refused")
  BY SmoothBefore DEF IInv, OneTabInv
<1>1. orphans' = {}
  BY <1>0, OrphansChange DEF SmoothInv
<1>2. \A o \in Ops : attempts'[o] = 0 /\ (status'[o] = "pending" => calls'[o] = 0)
  <2> TAKE o \in Ops
  <2>0. /\ status \in [Ops -> Statuses] /\ calls \in [Ops -> Nat]
        /\ attempts[o] = 0 /\ (status[o] = "pending" => calls[o] = 0)
    BY <1>0 DEF TypeOK, SmoothInv
  <2>1. \A t \in Tabs : ~FailWrite(t)
    BY <1>0 DEF FailWrite, SmoothInv
  <2>2. attempts' = attempts
    BY <2>1, AttemptsChange
  <2>3. ASSUME status'[o] = "pending" PROVE calls[o] = 0
    <3>1. CASE status[o] = "pending"
      BY <2>0, <3>1
    <3>2. CASE status[o] # "pending"
      <4>1. ASSUME NEW t \in Tabs, EnqueueAdds(t) PROVE calls[o] = 0
        BY <1>0, <2>0, <2>3, <3>2, <4>1 DEF EnqueueAdds, RowsInv
      <4>2. ASSUME NEW t \in Tabs, Start(t) PROVE FALSE
        <5>1. status[o] = "none"
          BY <1>0, <4>2 DEF Start, SmoothInv
        <5> QED
          BY <2>0, <2>3, <4>2, <5>1 DEF Start
      <4>3. ASSUME NEW t \in Tabs, MarkRunning(t) PROVE FALSE
        <5>1. Head1(t) \in Ops
          BY <1>0, <4>3, HandFacts DEF MarkRunning
        <5> QED
          BY <2>0, <2>3, <3>2, <4>3, <5>1 DEF MarkRunning
      <4>4. ASSUME NEW p \in Ops, Delete(p) PROVE FALSE
        BY <2>0, <2>3, <3>2, <4>4 DEF Delete
      <4>5. ~UNCHANGED status
        BY <2>3, <3>2
      <4> QED
        BY <1>0, <2>1, <4>1, <4>2, <4>3, <4>4, <4>5, StepKinds, BusyFacts DEF rows, Tick, MarkDone, DropFailed
    <3> QED
      BY <3>1, <3>2
  <2>4. ASSUME status'[o] = "pending", NEW t \in Tabs, Call(t) PROVE calls'[o] = 0
    <3>1. Head1(t) \in Ops /\ status[Head1(t)] = "running" /\ status' = status
      BY <1>0, <2>4, BusyFacts DEF Call, HandInv, Hand, rows, Busy
    <3> QED
      BY <2>0, <2>3, <2>4, <3>1 DEF Call
  <2> QED
    BY <2>0, <2>2, <2>3, <2>4, CallsChange
<1>3. \A o \in Range(applied') : (\A p \in Range(applied') : p <= o) => folder' = dest'[o]
  BY <1>0, SmoothEffects
<1>4. \A t \in Tabs : SmoothTab(t)'
  BY NextKeepsSmoothTab
<1> QED
  BY <1>1, <1>2, <1>3, <1>4 DEF SmoothInv, SmoothTab

-----------------------------------------------------------------------------
(* One tab: the last wish.                                                 *)

LEMMA WishChange ==
  ASSUME [Next]_vars
  PROVE  \/ UNCHANGED <<adding, intent, merged>>
         \/ \E t \in Tabs : \/ EnqueueAdds(t) \/ Reload(t)
                            \/ \E f \in Folders : EnqueueLooks(t, f) \/ EnqueueMerges(t, f)
  BY DEF Next, vars, GoOnline, GoOffline, Tick, ServerMeetsOrphan, User,
         RunnerStep, Start, Peek, EndDrain, EndBatch, MarkRunning, Call, AnswerOk, AnswerError,
         MarkDone, FailRead, FailWrite, Wake, Reconcile, Report, DropFailed, ServerAnswers,
         rows, work, world, mail, hist

Newest(o) == status[o] # "none" /\ \A p \in Ops : o < p => status[p] = "none"

Wish(t) ==
    /\ adding[t] # None => intent = adding[t]
    /\ adding[t] = None =>
          /\ \A o \in Ops : Newest(o) => intent = dest[o]
          /\ (\A o \in Ops : status[o] = "none") => intent = folder

LEMMA NextKeepsWish ==
  IInv /\ OneTab /\ [Next]_vars => WishInv'
<1> SUFFICES ASSUME IInv, OneTab, [Next]_vars PROVE WishInv'
  OBVIOUS
<1>a. merged' \in BOOLEAN
  <2>1. TypeOK'
    BY NextKeepsTypeOK DEF IInv
  <2> QED
    BY <2>1 DEF TypeOK
<1> SUFFICES ASSUME Smooth', merged' = FALSE, NEW s \in Tabs PROVE Wish(s)'
  BY <1>a DEF WishInv, Wish, Newest
<1>0. /\ TypeOK /\ RowsInv /\ RunnerInv /\ SmoothInv /\ WishInv /\ Smooth /\ merged \in BOOLEAN
      /\ \A t \in Tabs : ~Reload(t)
      /\ status \in [Ops -> Statuses] /\ dest \in [Ops -> Folders \cup {None}]
      /\ adding \in [Tabs -> Folders \cup {None}] /\ None \notin Folders
  BY SmoothBefore, ConstantsAssumption DEF IInv, OneTabInv, TypeOK, None
<1> USE DEF rows, work, world, mail, hist
<1>1. \A t \in Tabs : t = s
  BY Alone
<1>2. \A f \in Folders : ~EnqueueMerges(s, f)
  BY DEF EnqueueMerges
<1>3. merged = FALSE
  <2>1. UNCHANGED merged
    BY <1>0, <1>1, <1>2, WishChange DEF EnqueueAdds, EnqueueLooks
  <2> QED
    BY <2>1
<1>4. Wish(s)
  BY <1>0, <1>3 DEF WishInv, Wish, Newest
<1>5. CASE EnqueueAdds(s)
  <2>1. PICK o \in Ops :
           /\ status[o] = "none" /\ \A p \in Ops : p < o => status[p] # "none"
           /\ status' = [status EXCEPT ![o] = "pending"]
           /\ dest' = [dest EXCEPT ![o] = adding[s]]
    BY <1>5 DEF EnqueueAdds
  <2>2. /\ adding[s] # None /\ adding'[s] = None /\ intent' = intent
        /\ status'[o] = "pending" /\ dest'[o] = adding[s]
        /\ \A p \in Ops : p # o => status'[p] = status[p]
    BY <1>0, <1>5, <2>1 DEF EnqueueAdds
  <2>3. intent = adding[s]
    BY <1>4, <2>2 DEF Wish
  <2>4. \A x \in Ops : Newest(x)' => x = o
    <3> TAKE x \in Ops
    <3>1. CASE x < o
      BY <2>2, <3>1 DEF Newest
    <3>2. CASE o < x
      <4>1. status[x] = "none" /\ x # o
        BY <1>0, <2>1, <3>2, OpsFacts DEF RowsInv
      <4> QED
        BY <2>2, <4>1 DEF Newest
    <3>3. x = o \/ x < o \/ o < x
      BY OpsFacts
    <3> QED
      BY <3>1, <3>2, <3>3
  <2> QED
    BY <2>2, <2>3, <2>4 DEF Wish
<1>6. ASSUME NEW f \in Folders, EnqueueLooks(s, f) PROVE Wish(s)'
  <2>1. adding'[s] = f /\ intent' = f /\ f # None
    BY <1>0, <1>6 DEF EnqueueLooks
  <2> QED
    BY <2>1 DEF Wish
<1>7. CASE UNCHANGED <<adding, intent, merged>> /\ ~EnqueueAdds(s)
  <2>1. \A o \in Ops : status'[o] = "none" <=> status[o] = "none"
    BY <1>0, <1>1, <1>7, OnlyGrows, NewRow
  <2>2. \A o \in Ops : status[o] # "none" => dest'[o] = dest[o]
    BY <1>0, DestChange
  <2>3. (\A o \in Ops : status[o] = "none") => folder' = folder
    <3>1. ASSUME NEW t \in Tabs, ServerAnswers(t) PROVE Head1(t) \in Ops /\ status[Head1(t)] # "none"
      BY <1>0, <3>1, BusyFacts DEF ServerAnswers
    <3>2. ASSUME NEW o \in Ops, ServerMeetsOrphan(o) PROVE FALSE
      BY <1>0, <3>2 DEF ServerMeetsOrphan, SmoothInv
    <3> QED
      BY <3>1, <3>2, AppliedChange
  <2>4. \A o \in Ops : Newest(o)' => Newest(o) /\ status[o] # "none"
    BY <2>1 DEF Newest
  <2> QED
    BY <1>4, <1>7, <2>1, <2>2, <2>3, <2>4 DEF Wish
<1> QED
  BY <1>0, <1>1, <1>2, <1>5, <1>6, <1>7, WishChange

-----------------------------------------------------------------------------
(* The theorems.                                                           *)

LEMMA NextKeepsIInv == IInv /\ [Next]_vars => IInv'
<1> SUFFICES ASSUME IInv, [Next]_vars PROVE IInv'
  OBVIOUS
<1>1. TypeOK' /\ OrderInv' /\ RowsInv' /\ RunnerInv'
  BY NextKeepsTypeOK, NextKeepsOrder, NextKeepsRows, NextKeepsRunner DEF IInv
<1>2. OneTab => OneTabInv'
  BY NextKeepsHand, NextKeepsTries, NextKeepsWord, NextKeepsFifo, NextKeepsSmooth, NextKeepsWish
     DEF OneTabInv
<1>3. OneTab' <=> OneTab
  BY DEF OneTab
<1> QED
  BY <1>1, <1>2, <1>3 DEF IInv

\* When all is drained and nothing went wrong, the newest row was the last to
\* take effect.
LEMMA WishGranted == IInv /\ OneTab => LastMoveWins
<1> SUFFICES ASSUME IInv, OneTab, Quiet, Smooth, ~merged PROVE folder = intent
  BY DEF LastMoveWins
<1>0. /\ TypeOK /\ RowsInv /\ SmoothInv /\ WishInv /\ applied \in Seq(Ops)
      /\ status \in [Ops -> Statuses] /\ MaxAttempts \in Nat \ {0} /\ MaxOps \in Nat
  BY OpsFacts, ConstantsAssumption DEF IInv, OneTabInv, TypeOK
<1>1. PICK t \in Tabs : adding[t] = None
  BY DEF Quiet, OneTab
<1>2. /\ \A o \in Ops : Newest(o) => intent = dest[o]
      /\ (\A o \in Ops : status[o] = "none") => intent = folder
  BY <1>0, <1>1 DEF WishInv, Newest
<1>3. CASE \A o \in Ops : status[o] = "none"
  BY <1>2, <1>3
<1>4. CASE \E o \in Ops : status[o] # "none"
  <2> DEFINE T == {o \in Ops : status[o] # "none"}
  <2>1. T \subseteq 1 .. MaxOps /\ T # {}
    BY <1>4 DEF Ops
  <2>2. PICK x \in T : \A y \in T : y <= x
    <3> HIDE DEF T
    <3> QED
      BY <1>0, <2>1, GreatestOf
  <2>3. x \in Ops /\ Newest(x)
    <3>1. \A p \in Ops : x < p => ~(p <= x)
      BY OpsFacts
    <3> QED
      BY <2>2, <3>1 DEF Newest
  <2>4. status[x] = "gone" /\ attempts[x] = 0
    BY <1>0, <2>3 DEF Quiet, Stored, Newest, SmoothInv
  <2>5. x \in Range(applied)
    BY <1>0, <2>3, <2>4 DEF RowsInv
  <2>6. \A p \in Range(applied) : p <= x
    <3> TAKE p \in Range(applied)
    <3>1. p \in Ops
      BY <1>0 DEF Range
    <3>2. calls[p] > 0
      BY <1>0, <3>1 DEF RowsInv
    <3>3. status[p] # "none"
      BY <1>0, <3>1, <3>2 DEF RowsInv
    <3> QED
      BY <2>2, <3>1, <3>3
  <2>7. folder = dest[x]
    BY <1>0, <2>5, <2>6 DEF SmoothInv
  <2> QED
    BY <1>2, <2>3, <2>7
<1> QED
  BY <1>3, <1>4

LEMMA StepAccounts ==
  IInv /\ [Next]_vars => NotLost /\ (OneTab => Told)
<1> SUFFICES ASSUME IInv, [Next]_vars, NEW o \in Ops,
                    status[o] \in {"pending", "running", "failed"}, status'[o] = "gone"
             PROVE  /\ o \in Range(applied) \/ (status[o] = "failed" /\ attempts[o] >= MaxAttempts)
                    /\ OneTab /\ status[o] = "failed" => o \in reported \cup muted
  BY DEF NotLost, Told
<1>0. TypeOK /\ RowsInv /\ RunnerInv /\ status \in [Ops -> Statuses] /\ (OneTab => HandInv /\ WordInv)
  BY DEF IInv, OneTabInv, TypeOK
<1>1. ~UNCHANGED status
  OBVIOUS
<1>2. ASSUME NEW t \in Tabs, EnqueueAdds(t) \/ Start(t) PROVE FALSE
  BY <1>0, <1>2 DEF EnqueueAdds, Start
<1>3. ASSUME NEW t \in Tabs, MarkRunning(t) \/ FailWrite(t) PROVE FALSE
  <2>1. Head1(t) \in Ops
    BY <1>0, <1>3, HandFacts, BusyFacts DEF MarkRunning, FailWrite
  <2> QED
    BY <1>0, <1>1, <1>3, <2>1 DEF MarkRunning, FailWrite, GiveUp, Retry, rows
<1>4. ASSUME NEW t \in Tabs, MarkDone(t)
      PROVE  o \in Range(applied) /\ (OneTab => status[o] # "failed")
  <2>1. Head1(t) \in Ops /\ Head1(t) \in Range(applied) /\ (OneTab => status[Head1(t)] = "running")
    BY <1>0, <1>4, BusyFacts DEF MarkDone, RunnerInv, Stands, HandInv, Hand, Busy
  <2>2. o = Head1(t)
    BY <1>0, <1>4, <2>1 DEF MarkDone, Delete
  <2> QED
    BY <2>1, <2>2
<1>5. ASSUME NEW t \in Tabs, NEW p \in Ops, DropFailed(t, p)
      PROVE  status[o] = "failed" /\ attempts[o] >= MaxAttempts /\ o \notin callbacks[t]
  <2>1. o = p
    BY <1>0, <1>5 DEF DropFailed, Delete
  <2> QED
    BY <1>0, <1>5, <2>1 DEF DropFailed, RowsInv
<1>6. ASSUME OneTab, NEW t \in Tabs PROVE o \in callbacks[t] \cup reported \cup muted
  BY <1>0, <1>6 DEF WordInv, Stored
<1> QED
  BY <1>1, <1>2, <1>3, <1>4, <1>5, <1>6, StepKinds DEF rows, Tick

\* For any number of tabs, rows, attempts and reloads: the rows stay in one
\* order of their due times, and what each runner holds fits the rows.  With
\* one tab open no op is tried more often than the limit allows, only one that
\* failed is overtaken, and an untroubled outbox leaves the message where the
\* user put it last.
THEOREM OrderAlwaysHolds == Spec => []OrderHolds
<1>1. Init => IInv
  BY InitIInv
<1>2. IInv /\ [Next]_vars => IInv'
  BY NextKeepsIInv
<1>3. IInv => OrderHolds
  BY WishGranted DEF OrderHolds, OneTabInv, IInv, TriesInv, TriesBounded, FifoInv
<1> QED
  BY <1>1, <1>2, <1>3, PTL DEF Spec

\* Whatever tabs do, no op leaves the outbox without its effect or its
\* attempts spent, and with one tab open none that failed leaves it unsaid.
THEOREM OpsAlwaysAccounted == Spec => OpsAccounted
<1>1. Init => IInv
  BY InitIInv
<1>2. IInv /\ [Next]_vars => IInv' /\ NotLost /\ (OneTab => Told)
  BY NextKeepsIInv, StepAccounts
<1> QED
  BY <1>1, <1>2, PTL DEF Spec, OpsAccounted, NothingLost, FailureReported
=============================================================================
