--------------------------- MODULE PagePartsProofs --------------------------
(***************************************************************************)
(* The safety of snoozes, for any number of messages, processes, snoozes   *)
(* and faults, and of the pages of PageParts, for any values of their      *)
(* constants.  Each invariant is inductive; there is one lemma per kind of *)
(* step.                                                                   *)
(***************************************************************************)
EXTENDS Snooze, PageParts, FiniteSetTheorems, SequenceTheorems, WellFoundedInduction, TLAPS

-----------------------------------------------------------------------------
(* Snoozes (Snooze).                                                       *)

LEMMA SnoozesAreTuples ==
  /\ \A p \in Snoozes : p = <<p[1], p[2]>> /\ p[1] \in Messages /\ p[2] \in 1 .. MaxSnoozes
  /\ \A m \in Messages, g \in 1 .. MaxSnoozes : <<m, g>> \in Snoozes
  BY DEF Snoozes

LEMMA InitIInv == Init => IInv
  BY ConstantsAssumption, SnoozesAreTuples
     DEF Init, IInv, TypeOK, HandInv, DeleteInv, NotifyInv, NotLost, ToldOnce,
         Hand, Holding, Notifying, CrossedAfter, Snoozes, Nil

\* Set is the step that can leave a worker with an outdated snooze.
LEMMA SetKeepsIInv ==
  ASSUME IInv, NEW m \in Messages, NEW when \in {"later", "due"}, Set(m, when)
  PROVE  IInv'
<1> USE ConstantsAssumption, SnoozesAreTuples DEF IInv
<1>1. TypeOK'
  BY DEF TypeOK, Set, workers, Snoozes
<1>a. /\ gen[m] \in Nat /\ gen[m] < MaxSnoozes /\ UNCHANGED <<workers, moved, told, excused>>
      /\ gen' = [gen EXCEPT ![m] = gen[m] + 1] /\ until' = [until EXCEPT ![m] = when]
      /\ crossed \subseteq crossed'
      /\ \A w \in Workers, p \in Snoozes :
            p \in Hand(w) /\ p[1] = m => <<m, gen[m] + 1>> \in crossed'
  BY DEF TypeOK, Set
<1>b. \A w \in Workers : Hand(w)' = Hand(w)
  BY <1>a DEF workers, Hand, Holding
<1>2. HandInv'
  <2>1. \A n \in Messages : until'[n] # "none" => gen'[n] > 0
    BY <1>a DEF TypeOK, HandInv
  <2>2. \A w \in Workers : pc'[w] \in Holding \cup {"notify"} => cur'[w] \in Snoozes
    BY <1>a DEF HandInv, workers, Holding
  <2>3. ASSUME NEW w \in Workers, NEW p \in Hand(w)'
        PROVE  /\ p[2] <= gen'[p[1]]
               /\ p[2] # gen'[p[1]] => <<p[1], gen'[p[1]]>> \in crossed'
               /\ p[2] = gen'[p[1]] => until'[p[1]] # "later"
    <3>1. p \in Hand(w) /\ p \in Snoozes
      BY <1>b, <2>3 DEF TypeOK, HandInv, Hand, Holding
    <3>2. p[2] <= gen[p[1]]
      BY <3>1 DEF HandInv
    <3>3. CASE p[1] = m
      <4>1. gen'[m] = gen[m] + 1 /\ until'[m] = when /\ p[2] \in Nat /\ p[2] <= gen[m]
        BY <1>a, <3>1, <3>2, <3>3 DEF TypeOK
      <4>2. p[2] <= gen'[m] /\ p[2] # gen'[m]
        BY <1>a, <4>1
      <4>3. <<m, gen[m] + 1>> \in crossed'
        BY <1>a, <3>1, <3>3
      <4> QED
        BY <3>3, <4>1, <4>2, <4>3
    <3>4. CASE p[1] # m
      BY <1>a, <3>1, <3>4 DEF TypeOK, HandInv
    <3> QED
      BY <3>3, <3>4
  <2> QED
    BY <2>1, <2>2, <2>3 DEF HandInv
<1>3. DeleteInv'
  BY DEF TypeOK, DeleteInv, Set, workers
<1>4. NotifyInv' /\ ToldOnce'
  <2>1. \A p \in Snoozes : CrossedAfter(p) => CrossedAfter(p)'
    BY <1>a DEF CrossedAfter
  <2>2. \A p \in Snoozes : p[2] <= gen[p[1]] /\ (p[2] = gen[p[1]] => until[p[1]] = "none")
            => p[2] <= gen'[p[1]] /\ (p[2] = gen'[p[1]] => until'[p[1]] = "none")
    BY <1>a DEF TypeOK
  <2>3. \A w \in Workers, p \in Snoozes : Notifying(w, p)' <=> Notifying(w, p)
    BY <1>a DEF Notifying, workers
  <2> QED
    BY <1>a, <2>1, <2>2, <2>3 DEF NotifyInv, ToldOnce
<1>5. NotLost'
  BY DEF TypeOK, NotLost, Set
<1> QED
  BY <1>1, <1>2, <1>3, <1>4, <1>5

\* What the user and time do besides leaves every worker's snoozes as they are.
LEMMA EnvironmentKeepsIInv ==
  ASSUME IInv,
         \/ \E m \in Messages : Withdraw(m) \/ DeleteMessage(m) \/ TimePasses(m)
         \/ DeleteFolder \/ SignInOrOut
  PROVE  IInv'
<1> USE ConstantsAssumption, SnoozesAreTuples DEF IInv
<1>1. ASSUME NEW m \in Messages, Withdraw(m) PROVE IInv'
  <2>1. TypeOK'
    BY <1>1 DEF TypeOK, HandInv, Withdraw, workers
  <2>2. HandInv' /\ DeleteInv'
    BY <1>1 DEF TypeOK, HandInv, DeleteInv, Withdraw, workers, Hand, Holding
  <2>3. NotifyInv' /\ ToldOnce'
    BY <1>1 DEF TypeOK, NotifyInv, ToldOnce, Withdraw, workers, Notifying, CrossedAfter
  <2>4. NotLost'
    BY <1>1 DEF TypeOK, NotLost, Withdraw
  <2> QED
    BY <2>1, <2>2, <2>3, <2>4
<1>2. ASSUME NEW m \in Messages, TimePasses(m) PROVE IInv'
  <2>1. TypeOK'
    BY <1>2 DEF TypeOK, TimePasses, workers, hist
  <2>2. HandInv' /\ DeleteInv'
    BY <1>2 DEF TypeOK, HandInv, DeleteInv, TimePasses, workers, hist, Hand, Holding
  <2>3. NotifyInv' /\ ToldOnce'
    <3>1. /\ until[m] = "later" /\ until' = [until EXCEPT ![m] = "due"]
          /\ UNCHANGED <<gen, pc, cur, told, crossed>>
      BY <1>2 DEF TimePasses, workers, hist
    <3>2. \A p \in Snoozes : (until[p[1]] = "none" => until'[p[1]] = "none")
      BY <3>1 DEF TypeOK
    <3>3. \A p \in Snoozes : CrossedAfter(p)' <=> CrossedAfter(p)
      BY <3>1 DEF CrossedAfter
    <3>4. \A w \in Workers, p \in Snoozes : Notifying(w, p)' <=> Notifying(w, p)
      BY <3>1 DEF Notifying
    <3> QED
      BY <3>1, <3>2, <3>3, <3>4 DEF NotifyInv, ToldOnce
  <2>4. NotLost'
    BY <1>2 DEF TypeOK, NotLost, TimePasses, hist
  <2> QED
    BY <2>1, <2>2, <2>3, <2>4
<1>3. ASSUME \/ \E m \in Messages : DeleteMessage(m)
             \/ DeleteFolder \/ SignInOrOut
      PROVE IInv'
  <2>1. UNCHANGED <<until, gen, workers, faults, hist>>
    BY <1>3 DEF DeleteMessage, DeleteFolder, SignInOrOut
  <2>2. known' \in [Messages -> BOOLEAN] /\ folder' \in BOOLEAN /\ token' \in BOOLEAN
    BY <1>3 DEF TypeOK, DeleteMessage, DeleteFolder, SignInOrOut
  <2>3. TypeOK'
    BY <2>1, <2>2 DEF TypeOK, workers, hist
  <2>4. HandInv' /\ DeleteInv'
    BY <2>1 DEF TypeOK, HandInv, DeleteInv, workers, hist, Hand, Holding
  <2>5. NotifyInv' /\ ToldOnce'
    BY <2>1 DEF TypeOK, NotifyInv, ToldOnce, workers, hist, Notifying, CrossedAfter
  <2>6. NotLost'
    BY <2>1 DEF TypeOK, NotLost, hist
  <2> QED
    BY <2>3, <2>4, <2>5, <2>6
<1> QED
  BY <1>1, <1>2, <1>3

\* Listing, looking up and giving up write no row and tell nobody.
LEMMA ReadingKeepsIInv ==
  ASSUME IInv, NEW w \in Workers,
         \/ Query(w) \/ Lookup(w) \/ ServerMoves(w) \/ WriteFolder(w)
         \/ EndTick(w) \/ StepFails(w) \/ Dies(w) \/ \E p \in Snoozes : Take(w, p)
  PROVE  IInv'
<1> USE ConstantsAssumption, SnoozesAreTuples DEF IInv
<1>0. UNCHANGED <<columns, told, crossed>> /\ moved \subseteq moved' /\ excused \subseteq excused'
  BY DEF Query, Lookup, ServerMoves, WriteFolder, EndTick, StepFails, Dies, Take, columns, hist
<1>1. TypeOK'
  <2>1. CASE Query(w)
    <3>1. batch'[w] \subseteq Snoozes
      BY <2>1 DEF TypeOK, HandInv, Query, Snoozes
    <3> QED
      BY <2>1, <3>1 DEF TypeOK, Query, Goto, columns, hist
  <2>2. ASSUME NEW p \in Snoozes, Take(w, p) PROVE TypeOK'
    BY <2>2 DEF TypeOK, Take, Goto, columns, hist, Holding
  <2>3. CASE Lookup(w) \/ ServerMoves(w) \/ WriteFolder(w)
    BY <2>3 DEF TypeOK, HandInv, Lookup, ServerMoves, WriteFolder, Goto, columns, hist, Holding
  <2>4. CASE StepFails(w)
    BY <2>4 DEF TypeOK, StepFails, Fault, Goto, columns, hist
  <2>5. CASE EndTick(w) \/ Dies(w)
    <3>1. faults' \in 0 .. MaxFaults
      BY <2>5 DEF TypeOK, EndTick, Dies, Fault
    <3> QED
      BY <2>5, <3>1 DEF TypeOK, EndTick, Dies, Forgets, Goto, columns, hist
  <2> QED
    BY <2>1, <2>2, <2>3, <2>4, <2>5
<1>2. \A v \in Workers : pc'[v] = "notify" => pc[v] = "notify" /\ cur'[v] = cur[v]
  BY DEF TypeOK, Query, Lookup, ServerMoves, WriteFolder, EndTick, StepFails, Dies, Take,
         Forgets, Goto
<1>3. HandInv'
  <2>1. CASE Query(w)
    BY <2>1, <1>0 DEF TypeOK, HandInv, Query, Goto, columns, Hand, Holding
  <2>2. ASSUME NEW p \in Snoozes, Take(w, p) PROVE HandInv'
    BY <2>2, <1>0 DEF TypeOK, HandInv, Take, Goto, columns, Hand, Holding
  <2>3. CASE Lookup(w) \/ ServerMoves(w) \/ WriteFolder(w)
    BY <2>3, <1>0 DEF TypeOK, HandInv, Lookup, ServerMoves, WriteFolder, Goto, columns, Hand, Holding
  <2>4. CASE StepFails(w) \/ EndTick(w) \/ Dies(w)
    BY <2>4, <1>0 DEF TypeOK, HandInv, StepFails, EndTick, Dies, Forgets, Goto, columns, Hand, Holding
  <2> QED
    BY <2>1, <2>2, <2>3, <2>4
<1>4. DeleteInv'
  <2>1. CASE Query(w) \/ EndTick(w) \/ StepFails(w) \/ Dies(w) \/ \E p \in Snoozes : Take(w, p)
    BY <2>1, <1>0 DEF TypeOK, DeleteInv, Query, EndTick, StepFails, Dies, Take, Forgets, Goto
  <2>2. CASE Lookup(w) \/ ServerMoves(w) \/ WriteFolder(w)
    BY <2>2, <1>0 DEF TypeOK, DeleteInv, Lookup, ServerMoves, WriteFolder, Goto
  <2> QED
    BY <2>1, <2>2 DEF Query
<1>5. NotifyInv' /\ ToldOnce'
  BY <1>0, <1>2 DEF NotifyInv, ToldOnce, Notifying, CrossedAfter, columns
<1>6. NotLost'
  BY <1>0 DEF NotLost, columns
<1> QED
  BY <1>1, <1>3, <1>4, <1>5, <1>6

\* Who deletes the row of a snooze has moved the message, or an excuse, and
\* finds the row only when no other worker has deleted it.
LEMMA DeletingKeepsIInv ==
  ASSUME IInv, NEW w \in Workers, Drop(w) \/ Delete(w)
  PROVE  IInv'
<1> USE ConstantsAssumption, SnoozesAreTuples DEF IInv
<1>1. PICK p \in Snoozes : p = cur[w]
  BY DEF HandInv, Drop, Delete, Holding
<1>2. PICK next \in {"loop", "notify"} :
          /\ DeleteRow(w, next)
          /\ Drop(w) => next = "loop" /\ excused' = excused \cup {p}
          /\ Delete(w) => excused' = excused
  BY <1>1 DEF Drop, Delete, hist
<1>3. /\ pc[w] \in Holding \ {"write"} /\ p \in Hand(w)
      /\ UNCHANGED <<gen, known, folder, token, batch, cur, auth, faults, moved, told, crossed>>
      /\ excused' \in {excused, excused \cup {p}}
      /\ p \in moved \cup excused'
  BY <1>1, <1>2 DEF Drop, Delete, hist, Holding, Hand, DeleteInv
<1>4. \/ UNCHANGED until /\ pc' = [pc EXCEPT ![w] = "loop"]
      \/ until[p[1]] # "none" /\ until' = [until EXCEPT ![p[1]] = "none"] /\ pc' = [pc EXCEPT ![w] = next]
  BY <1>1, <1>2 DEF DeleteRow, Goto
<1>5. /\ p[2] <= gen[p[1]]
      /\ p[2] # gen[p[1]] => <<p[1], gen[p[1]]>> \in crossed
  BY <1>3 DEF HandInv
<1>6. TypeOK'
  BY <1>3, <1>4 DEF TypeOK
<1>7. HandInv'
  BY <1>3, <1>4 DEF TypeOK, HandInv, Hand, Holding
<1>8. DeleteInv'
  BY <1>3, <1>4 DEF TypeOK, DeleteInv
<1>9. NotifyInv'
  <2>1. ASSUME NEW q \in Snoozes, told'[q] > 0 \/ (\E v \in Workers : Notifying(v, q)')
        PROVE  q[2] <= gen'[q[1]] /\ (q[2] = gen'[q[1]] => until'[q[1]] = "none")
    BY <1>1, <1>3, <1>4, <1>5, <2>1 DEF TypeOK, NotifyInv, Notifying
  <2>2. ASSUME NEW q \in Snoozes, NEW v \in Workers, NEW u \in Workers,
               Notifying(v, q)', told'[q] > 0 \/ (v # u /\ Notifying(u, q)')
        PROVE  CrossedAfter(q)'
    <3>1. CASE v # w /\ u # w
      BY <1>3, <1>4, <2>2, <3>1 DEF TypeOK, NotifyInv, Notifying, CrossedAfter
    <3>2. CASE v = w \/ (u = w /\ told[q] = 0)
      <4>1. q = p /\ until[p[1]] # "none"
        BY <1>1, <1>3, <1>4, <2>2, <3>2 DEF TypeOK, Notifying
      <4>2. told[p] > 0 \/ \E x \in Workers : Notifying(x, p)
        BY <1>1, <1>3, <1>4, <2>2, <3>2, <4>1 DEF TypeOK, Notifying
      <4>3. p[2] # gen[p[1]]
        BY <4>1, <4>2 DEF NotifyInv
      <4>4. gen[p[1]] \in 1 .. MaxSnoozes /\ gen[p[1]] > p[2]
        <5>1. p[1] \in Messages /\ p[2] \in 1 .. MaxSnoozes /\ gen[p[1]] \in 0 .. MaxSnoozes
          BY <1>1 DEF TypeOK
        <5> QED
          BY <1>5, <4>3, <5>1
      <4> QED
        BY <1>1, <1>3, <1>5, <4>1, <4>3, <4>4 DEF CrossedAfter
    <3>3. CASE v # w /\ u = w /\ told[q] > 0
      BY <1>3, <1>4, <2>2, <3>3 DEF TypeOK, NotifyInv, Notifying, CrossedAfter
    <3> QED
      BY <3>1, <3>2, <3>3, <1>3 DEF TypeOK
  <2> QED
    BY <2>1, <2>2 DEF NotifyInv
<1>10. NotLost'
  BY <1>3, <1>4, <1>5 DEF TypeOK, NotLost
<1>11. ToldOnce'
  BY <1>3 DEF ToldOnce, CrossedAfter
<1> QED
  BY <1>6, <1>7, <1>8, <1>9, <1>10, <1>11

\* Telling a second time takes a second deletion of the row.
LEMMA NotifyKeepsIInv ==
  ASSUME IInv, NEW w \in Workers, Notify(w)
  PROVE  IInv'
<1> USE ConstantsAssumption, SnoozesAreTuples DEF IInv
<1>1. /\ cur[w] \in Snoozes /\ Notifying(w, cur[w])
      /\ pc' = [pc EXCEPT ![w] = "loop"]
      /\ told' = [told EXCEPT ![cur[w]] = @ + 1] \/ told' = told
      /\ UNCHANGED <<columns, batch, cur, auth, faults, moved, excused, crossed>>
  BY DEF Notify, Goto, Notifying, HandInv
<1>2. TypeOK'
  <2>1. told' \in [Snoozes -> Nat]
    BY <1>1 DEF TypeOK
  <2> QED
    BY <1>1, <2>1 DEF TypeOK, columns
<1>3. HandInv' /\ DeleteInv'
  BY <1>1 DEF TypeOK, HandInv, DeleteInv, columns, Hand, Holding
<1>4. \A q \in Snoozes : q # cur[w] => told'[q] = told[q]
  BY <1>1 DEF TypeOK
<1>5. \A q \in Snoozes, v \in Workers : Notifying(v, q)' => Notifying(v, q) /\ v # w
  BY <1>1 DEF TypeOK, Notifying
<1>6. NotifyInv'
  <2>1. UNCHANGED <<gen, until, crossed>>
    BY <1>1 DEF columns
  <2>2. ASSUME NEW q \in Snoozes, told'[q] > 0 \/ \E v \in Workers : Notifying(v, q)'
        PROVE  q[2] <= gen[q[1]] /\ (q[2] = gen[q[1]] => until[q[1]] = "none")
    <3>1. told[q] > 0 \/ \E v \in Workers : Notifying(v, q)
      BY <1>1, <1>4, <1>5, <2>2
    <3> QED
      BY <3>1 DEF NotifyInv
  <2>3. ASSUME NEW q \in Snoozes, NEW v \in Workers, NEW u \in Workers,
               Notifying(v, q)', told'[q] > 0 \/ (v # u /\ Notifying(u, q)')
        PROVE  CrossedAfter(q)
    <3>1. Notifying(v, q) /\ v # w
      BY <1>5, <2>3
    <3>2. told[q] > 0 \/ Notifying(w, q) \/ (v # u /\ Notifying(u, q))
      BY <1>1, <1>4, <1>5, <2>3
    <3> QED
      BY <3>1, <3>2 DEF NotifyInv
  <2> QED
    BY <2>1, <2>2, <2>3 DEF NotifyInv, CrossedAfter
<1>7. ToldOnce'
  <2>1. told[cur[w]] > 0 => CrossedAfter(cur[w])
    BY <1>1 DEF NotifyInv
  <2>2. told'[cur[w]] > 1 => told[cur[w]] > 0
    BY <1>1 DEF TypeOK
  <2> QED
    BY <1>1, <1>4, <2>1, <2>2 DEF ToldOnce, CrossedAfter
<1>8. NotLost'
  BY <1>1 DEF NotLost, columns
<1> QED
  BY <1>2, <1>3, <1>6, <1>7, <1>8

LEMMA NextKeepsIInv == IInv /\ [Next]_vars => IInv'
<1>1. ASSUME IInv, UNCHANGED vars PROVE IInv'
  <2>1. UNCHANGED <<until, gen, known, folder, token, pc, batch, cur, auth, faults,
                    moved, told, excused, crossed>>
    BY <1>1 DEF vars, columns, workers, hist
  <2>2. TypeOK' /\ HandInv' /\ DeleteInv'
    BY <1>1, <2>1 DEF IInv, TypeOK, HandInv, DeleteInv, Hand, Holding
  <2>3. NotifyInv' /\ NotLost' /\ ToldOnce'
    BY <1>1, <2>1 DEF IInv, NotifyInv, NotLost, ToldOnce, Notifying, CrossedAfter
  <2> QED
    BY <2>2, <2>3 DEF IInv
<1>2. ASSUME IInv, Next PROVE IInv'
  BY <1>2, SetKeepsIInv, EnvironmentKeepsIInv, ReadingKeepsIInv, DeletingKeepsIInv, NotifyKeepsIInv
     DEF Next, WorkerStep, UserStep
<1> QED
  BY <1>1, <1>2

\* Workers hold snoozes that were set, delete after the move or with an
\* excuse, and only who deleted the row notifies.
THEOREM InductiveInvariant == Spec => []IInv
<1> QED
  BY InitIInv, NextKeepsIInv, PTL DEF Spec

\* No snooze is lost, whatever the crashes and however many processes.
THEOREM SnoozesAreKept == Spec => []NotLost
<1>1. IInv => NotLost
  BY DEF IInv
<1> QED
  BY <1>1, InductiveInvariant, PTL

\* The user hears once of a message that came back.
THEOREM ToldAtMostOnce == Spec => []ToldOnce
<1>1. IInv => ToldOnce
  BY DEF IInv
<1> QED
  BY <1>1, InductiveInvariant, PTL

\* A message whose snooze was put off is not moved by a job that did not hold it then.
THEOREM NeverEarly == Spec => NotEarly
<1>1. ASSUME IInv, [Next]_vars, NEW p \in moved' \ moved, until[p[1]] = "later"
      PROVE  <<p[1], gen[p[1]]>> \in crossed
  <2>1. \E w \in Workers : ServerMoves(w)
    BY <1>1 DEF Next, WorkerStep, UserStep, Set, Withdraw, DeleteMessage, TimePasses, DeleteFolder,
       SignInOrOut, Query, Take, Drop, Lookup, WriteFolder, Delete, Notify, StepFails, EndTick,
       Dies, vars, hist
  <2>2. PICK w \in Workers : pc[w] = "await" /\ p = cur[w]
    BY <1>1, <2>1 DEF ServerMoves
  <2> QED
    BY <1>1, <2>2 DEF IInv, HandInv, Hand, Holding
<1>2. IInv /\ [Next]_vars =>
        [\A p \in moved' \ moved : until[p[1]] = "later" => <<p[1], gen[p[1]]>> \in crossed]_vars
  BY <1>1
<1> QED
  BY <1>2, InductiveInvariant, PTL DEF Spec, NotEarly

\* Snoozes are kept and announced once, wherever the processes die.
THEOREM SnoozesAlwaysHold == Spec => []SnoozesHold
  BY InductiveInvariant, SnoozesAreKept, ToldAtMostOnce, PTL DEF SnoozesHold
-----------------------------------------------------------------------------
(* A behaviour of PageParts is one of its page.                            *)

LEMMA PageFirst ==
  ASSUME FirstPage
  PROVE  /\ onPage = "listing" => Listing!Init
         /\ onPage = "search" => Find!Init
         /\ onPage = "pages" => Pg!Init
BY DEF FirstPage, InitList, InitFind, InitTree

LEMMA PageStep ==
  ASSUME [StepPage]_pageVars
  PROVE  /\ onPage' = onPage
         /\ onPage = "listing" => [Listing!Next]_(Listing!vars)
         /\ onPage = "search" => [Find!Next]_(Find!vars)
         /\ onPage = "pages" => [Pg!Next]_(Pg!vars)
<1>1. CASE StepPage
  BY <1>1 DEF StepPage, InList, InFind, InTree
<1>2. CASE UNCHANGED pageVars
  <2>1. UNCHANGED <<onPage, listVars, findVars, treeVars, sharedVars>>
    BY <1>2 DEF pageVars
  <2>2. UNCHANGED Listing!vars
    BY <2>1 DEF listVars, Listing!vars, Listing!server, Listing!page, Listing!cache
  <2>3. UNCHANGED Find!vars
    BY <2>1 DEF findVars, sharedVars, Find!vars, Find!mailbox, Find!modes, Find!list, Find!busy, Find!calls,
                Find!hist
  <2>4. UNCHANGED Pg!vars
    BY <2>1 DEF treeVars, sharedVars, Pg!vars, Pg!table, Pg!page, Pg!picker, Pg!hist
  <2> QED
    BY <2>1, <2>2, <2>3, <2>4
<1> QED
  BY <1>1, <1>2
-----------------------------------------------------------------------------
(* The folder lists (MailListing).  There are finitely many messages.      *)
ListLimits ==
    /\ IsFiniteSet(Mails) /\ Home \in Folders /\ Listing!Gone \notin Folders
    /\ MaxOps \in Nat /\ MaxFetches \in Nat \ {0}

\* An op is of one message, or it is a bulk action.
OpRight(op) ==
    /\ op \in Listing!Ops
    /\ ~op.bulk => \E m \in Mails : op.ids = {m}
    /\ op.kind = "move" => op.to # op.source

\* An answer was lost of the first op only.
OfFirst == \A m \in unheard : 1 \in DOMAIN queue /\ m \in queue[1].ids

ListTyped ==
    /\ where \in [Mails -> Folders \cup {Listing!Gone}] /\ seen \in [Mails -> BOOLEAN]
    /\ activeFolderId \in Folders /\ pickable \subseteq Mails
    /\ lists \in [Folders -> Listing!Lists] /\ copies \in [Folders -> Listing!Lists]
    /\ have \subseteq kept /\ outdated \subseteq Folders /\ kept \subseteq Folders
    /\ fetch \in [Folders -> [at : {"idle", "sent", "answered", "failed"}, got : Listing!Lists,
                              dirty : SUBSET Mails]]
    /\ counts \in [Folders -> [unread : Nat, total : Nat]]
    /\ queue \in Seq(Listing!Ops) /\ \A i \in DOMAIN queue : OpRight(queue[i])
    /\ queued \in 0 .. MaxOps /\ fetched \in 0 .. MaxFetches
    /\ dirty \subseteq Folders \X Mails /\ unseen \subseteq Folders \X Mails
    /\ flipped \subseteq Mails /\ drifted \subseteq Folders
    /\ unheard \subseteq Mails /\ OfFirst

\* The folder that is open is never left with a list known to be old.
ActiveFresh ==
    /\ activeFolderId \in outdated \cap have => fetch[activeFolderId].at # "idle"
    /\ \A f \in Folders \ have : DOMAIN lists[f] = {}

\* A fetch knows of every op under way, and what it brings is else as it is.
FetchRight(f) ==
    fetch[f].at # "idle" =>
        /\ \A i \in DOMAIN queue : queue[i].ids \subseteq fetch[f].dirty
        /\ fetch[f].at = "answered" => \A m \in Mails \ fetch[f].dirty :
              /\ m \in DOMAIN fetch[f].got <=> where[m] = f
              /\ m \in DOMAIN fetch[f].got => fetch[f].got[m] = seen[m]

\* An op on m that is not the first is not a mark.
OneMark(m) ==
    m \notin flipped => \A i, j \in DOMAIN queue :
        i < j /\ m \in queue[i].ids /\ m \in queue[j].ids => queue[j].kind # "mark"

\* Nothing excuses the list of f in what it shows of m.
Vouched(f, m) ==
    /\ f \in have \ outdated /\ fetch[f].at = "idle"
    /\ <<f, m>> \notin dirty \cup unseen /\ m \notin flipped

\* The list shows m as the op on m will leave it; without one, as it is.
Listed(f, m) ==
    /\ where[m] = f
    /\ \A i \in DOMAIN queue : m \in queue[i].ids =>
          /\ queue[i].kind = "mark" /\ queue[i].source = f /\ lists[f][m] = queue[i].read
          /\ ~queue[i].bulk /\ m \notin unheard => seen[m] = ~queue[i].read
    /\ (\A i \in DOMAIN queue : m \notin queue[i].ids) => lists[f][m] = seen[m]

\* If m is not shown but there, an op will take it away.
Unlisted(f, m) ==
    where[m] = f => \E i \in DOMAIN queue :
        m \in queue[i].ids /\ queue[i].kind # "mark" /\ queue[i].source = f

RowRight(f, m) ==
    Vouched(f, m) => IF m \in DOMAIN lists[f] THEN Listed(f, m) ELSE Unlisted(f, m)

\* The first op has taken m from f, and its answer was lost.
Ahead(f, i, m) == i = 1 /\ m \in unheard /\ queue[i].kind # "mark" /\ where[m] # f

\* Of a message in a folder whose counts are kept at most one op is under way,
\* and it knows what it changed in them; it may be done, and not heard of.
OpsCounted(f) ==
    \A i \in DOMAIN queue : \A m \in queue[i].ids : (queue[i].source = f \/ where[m] = f) =>
        /\ ~queue[i].bulk /\ queue[i].source = f
        /\ \/ where[m] = f /\ \A j \in DOMAIN queue : m \in queue[j].ids => j = i
           \/ Ahead(f, i, m)
        /\ queue[i].kind = "mark" =>
              (queue[i].wasUnread <=> queue[i].read)
              /\ (m \notin unheard => (seen[m] <=> ~queue[i].read))
        /\ queue[i].kind # "mark" => (queue[i].wasUnread <=> ~seen[m])

\* What the folder will hold, of that unread, when the ops are done.
Staying(f) ==
    {m \in Mails : where[m] = f /\ \A i \in DOMAIN queue : m \in queue[i].ids => queue[i].kind = "mark"}
StayingUnread(f) ==
    {m \in Staying(f) : /\ \A i \in DOMAIN queue : m \in queue[i].ids => ~queue[i].read
                        /\ (\A i \in DOMAIN queue : m \notin queue[i].ids) => ~seen[m]}

CountRight(f) ==
    f \notin drifted =>
        /\ OpsCounted(f)
        /\ counts[f].unread = Cardinality(StayingUnread(f)) /\ counts[f].total = Cardinality(Staying(f))

ListInv ==
    /\ ListTyped /\ ActiveFresh
    /\ \A f \in Folders : FetchRight(f) /\ CountRight(f) /\ \A m \in Mails : RowRight(f, m)
    /\ \A m \in Mails : OneMark(m)
-----------------------------------------------------------------------------
LEMMA ListsAre ==
  ASSUME NEW S \in SUBSET Mails, NEW l \in [S -> BOOLEAN]
  PROVE  l \in Listing!Lists
BY DEF Listing!Lists

LEMMA ListParts ==
  ASSUME NEW l \in Listing!Lists
  PROVE  DOMAIN l \subseteq Mails /\ l \in [DOMAIN l -> BOOLEAN]
BY DEF Listing!Lists

LEMMA NoneListed == << >> \in Listing!Lists /\ DOMAIN << >> = {}
<1>1. << >> \in [{} -> BOOLEAN]
  OBVIOUS
<1> QED
  BY <1>1, ListsAre

\* What is true of the list of each folder and of what is read for it.
LEMMA ListRows ==
  ASSUME ListTyped, NEW f \in Folders
  PROVE  /\ DOMAIN lists[f] \subseteq Mails /\ lists[f] \in [DOMAIN lists[f] -> BOOLEAN]
         /\ DOMAIN copies[f] \subseteq Mails /\ copies[f] \in [DOMAIN copies[f] -> BOOLEAN]
         /\ DOMAIN fetch[f].got \subseteq Mails
         /\ fetch[f].got \in [DOMAIN fetch[f].got -> BOOLEAN]
<1>1. lists[f] \in Listing!Lists /\ copies[f] \in Listing!Lists /\ fetch[f].got \in Listing!Lists
  BY DEF ListTyped
<1> QED
  BY <1>1, ListParts

LEMMA ListServer ==
  ASSUME ListTyped, NEW f \in Folders
  PROVE  /\ Listing!OnServer(f) \in Listing!Lists
         /\ DOMAIN Listing!OnServer(f) = {m \in Mails : where[m] = f}
         /\ \A m \in Mails : where[m] = f => Listing!OnServer(f)[m] = seen[m]
<1>1. Listing!OnServer(f) \in [{m \in Mails : where[m] = f} -> BOOLEAN]
  BY DEF Listing!OnServer, Listing!In, ListTyped
<1>2. Listing!OnServer(f) \in Listing!Lists
  BY <1>1, ListsAre
<1> QED
  BY <1>1, <1>2 DEF Listing!OnServer, Listing!In

LEMMA SameCount == \A S : Listing!Cardinality(S) = Cardinality(S)
BY DEF Listing!Cardinality, Cardinality

\* A message more or less, in numbers.
LEMMA OneLess ==
  ASSUME NEW S, IsFiniteSet(S), NEW x \in S
  PROVE  /\ Cardinality(S) \in Nat /\ Cardinality(S) >= 1
         /\ Cardinality(S \ {x}) = Cardinality(S) - 1
         /\ Listing!Minus(Cardinality(S), 1) = Cardinality(S \ {x})
<1>1. Cardinality(S) \in Nat /\ Cardinality(S \ {x}) = Cardinality(S) - 1
  BY FS_CardinalityType, FS_RemoveElement
<1>2. Cardinality(S \ {x}) \in Nat
  BY FS_CardinalityType, FS_RemoveElement
<1> QED
  BY <1>1, <1>2 DEF Listing!Minus

LEMMA OneMore ==
  ASSUME NEW S, IsFiniteSet(S), NEW x, x \notin S
  PROVE  Cardinality(S \cup {x}) = Cardinality(S) + 1
BY FS_AddElement

LEMMA FoldersFinite ==
  ASSUME ListLimits, NEW f
  PROVE  /\ IsFiniteSet(Staying(f)) /\ IsFiniteSet(StayingUnread(f))
         /\ Cardinality(Staying(f)) \in Nat /\ Cardinality(StayingUnread(f)) \in Nat
<1>1. Staying(f) \subseteq Mails /\ StayingUnread(f) \subseteq Mails
  BY DEF Staying, StayingUnread
<1> QED
  BY <1>1, FS_Subset, FS_CardinalityType DEF ListLimits

LEMMA LongerBy ==
  ASSUME NEW S, NEW q \in Seq(S), NEW x \in S
  PROVE  /\ Append(q, x) \in Seq(S) /\ DOMAIN q = 1 .. Len(q) /\ Len(q) \in Nat
         /\ DOMAIN Append(q, x) = 1 .. Len(q) + 1
         /\ \A i \in DOMAIN q : i \in DOMAIN Append(q, x) /\ Append(q, x)[i] = q[i]
         /\ Len(q) + 1 \in DOMAIN Append(q, x) /\ Append(q, x)[Len(q) + 1] = x
         /\ \A i \in DOMAIN Append(q, x) : i \in DOMAIN q \/ i = Len(q) + 1
OBVIOUS

LEMMA ShorterBy ==
  ASSUME NEW S, NEW q \in Seq(S), q # << >>
  PROVE  /\ Tail(q) \in Seq(S) /\ Head(q) = q[1] /\ 1 \in DOMAIN q /\ q[1] \in S
         /\ DOMAIN q = 1 .. Len(q) /\ Len(q) \in Nat
         /\ DOMAIN Tail(q) = 1 .. Len(q) - 1
         /\ \A i \in DOMAIN Tail(q) : i + 1 \in DOMAIN q /\ Tail(q)[i] = q[i + 1] /\ i + 1 # 1
         /\ \A i \in DOMAIN q : i # 1 => i - 1 \in DOMAIN Tail(q) /\ Tail(q)[i - 1] = q[i]
<1>1. Len(q) \in Nat /\ Len(q) >= 1 /\ DOMAIN q = 1 .. Len(q)
  OBVIOUS
<1>2. Tail(q) \in Seq(S) /\ Len(Tail(q)) = Len(q) - 1
  BY <1>1
<1>3. \A i \in 1 .. Len(q) - 1 : Tail(q)[i] = q[i + 1]
  BY <1>1
<1>4. DOMAIN Tail(q) = 1 .. Len(q) - 1
  BY <1>1, <1>2
<1>5. ASSUME NEW i \in DOMAIN q, i # 1
      PROVE  i - 1 \in DOMAIN Tail(q) /\ Tail(q)[i - 1] = q[i]
  <2>1. i - 1 \in 1 .. Len(q) - 1 /\ (i - 1) + 1 = i
    BY <1>1, <1>5
  <2> QED
    BY <2>1, <1>3, <1>4
<1> QED
  BY <1>1, <1>2, <1>3, <1>4, <1>5

\* What the ops that wait are about.
LEMMA PendingIs ==
  ASSUME NEW q \in Seq(Listing!Ops)
  PROVE  /\ Listing!Pending(q) \subseteq Mails
         /\ \A m : m \in Listing!Pending(q) <=> \E i \in DOMAIN q : m \in q[i].ids
         /\ \A i \in DOMAIN q : q[i] \in Listing!Ops /\ q[i].ids \subseteq Listing!Pending(q)
<1>1. ASSUME NEW i \in DOMAIN q PROVE q[i] \in Listing!Ops /\ q[i].ids \subseteq Mails
  <2>1. q[i] \in Listing!Ops
    OBVIOUS
  <2> QED
    BY <2>1 DEF Listing!Ops
<1> QED
  BY <1>1 DEF Listing!Pending

LEMMA ListInit == ASSUME ListLimits, Listing!Init PROVE ListInv
<1>1. /\ where = [m \in Mails |-> Home] /\ seen = [m \in Mails |-> FALSE] /\ activeFolderId = Home
      /\ lists = [f \in Folders |-> << >>] /\ have = {} /\ outdated = {}
      /\ copies = [f \in Folders |-> << >>] /\ kept = {} /\ pickable = {}
      /\ queue = << >> /\ queued = 0 /\ fetched = 1 /\ dirty = {} /\ unseen = {}
      /\ flipped = {} /\ drifted = {} /\ unheard = {} /\ counts = Listing!TrueCounts
      /\ \A f \in Folders : fetch[f] \in {Listing!Idle, [Listing!Idle EXCEPT !.at = "sent"]}
      /\ fetch = [f \in Folders |-> fetch[f]]
  BY DEF Listing!Init
<1>2. Listing!Idle \in [at : {"idle"}, got : {<< >>}, dirty : {{}}]
  BY DEF Listing!Idle
<1>3. \A f \in Folders : /\ fetch[f] \in [at : {"idle", "sent", "answered", "failed"},
                                          got : Listing!Lists, dirty : SUBSET Mails]
                         /\ fetch[f].at \in {"idle", "sent"}
  BY <1>1, <1>2, NoneListed DEF Listing!Idle
<1>4. DOMAIN queue = {} /\ queue \in Seq(Listing!Ops)
  BY <1>1
<1>5. \A f \in Folders : /\ Staying(f) = Listing!In(f)
                         /\ StayingUnread(f) = {m \in Listing!In(f) : ~seen[m]}
  BY <1>4 DEF Staying, StayingUnread, Listing!In
<1>6. \A f \in Folders : counts[f] = [unread |-> Cardinality(StayingUnread(f)),
                                       total |-> Cardinality(Staying(f))]
  <2>1. \A f \in Folders :
           counts[f] = [unread |-> Cardinality({m \in Listing!In(f) : ~seen[m]}),
                        total |-> Cardinality(Listing!In(f))]
    <3>1. Listing!TrueCounts =
            [f \in Folders |-> [unread |-> Cardinality({m \in Listing!In(f) : ~seen[m]}),
                                total  |-> Cardinality(Listing!In(f))]]
      BY DEF Listing!TrueCounts, Listing!Cardinality, Cardinality
    <3> QED
      BY <1>1, <3>1
  <2> QED
    BY <2>1, <1>5
<1>7. \A f \in Folders : Cardinality(StayingUnread(f)) \in Nat /\ Cardinality(Staying(f)) \in Nat
  BY FoldersFinite
<1>8. counts \in [Folders -> [unread : Nat, total : Nat]]
  BY <1>1, <1>6, <1>7 DEF Listing!TrueCounts
<1>9. ListTyped
  <2>1. lists \in [Folders -> Listing!Lists] /\ copies \in [Folders -> Listing!Lists]
    BY <1>1, NoneListed
  <2>2. fetch \in [Folders -> [at : {"idle", "sent", "answered", "failed"}, got : Listing!Lists,
                               dirty : SUBSET Mails]]
    BY <1>1, <1>3
  <2>3. where \in [Mails -> Folders \cup {Listing!Gone}] /\ seen \in [Mails -> BOOLEAN]
        /\ activeFolderId \in Folders /\ fetched \in 0 .. MaxFetches /\ queued \in 0 .. MaxOps
    BY <1>1 DEF ListLimits
  <2> QED
    BY <1>1, <1>4, <1>8, <2>1, <2>2, <2>3 DEF ListTyped, OfFirst
<1>10. ActiveFresh
  BY <1>1, NoneListed DEF ActiveFresh
<1>11. \A f \in Folders : FetchRight(f)
  BY <1>3, <1>4 DEF FetchRight
<1>12. \A f \in Folders : CountRight(f)
  <2>1. \A f \in Folders : OpsCounted(f)
    BY <1>4 DEF OpsCounted
  <2>2. ASSUME NEW f \in Folders
        PROVE  /\ counts[f].unread = Cardinality(StayingUnread(f))
               /\ counts[f].total = Cardinality(Staying(f))
    <3> DEFINE u == Cardinality(StayingUnread(f))
               t == Cardinality(Staying(f))
    <3>1. counts[f] = [unread |-> u, total |-> t]
      BY <1>6
    <3> HIDE DEF u, t
    <3>2. counts[f].unread = u /\ counts[f].total = t
      BY <3>1
    <3> QED
      BY <3>2 DEF u, t
  <2> QED
    BY <2>1, <2>2 DEF CountRight
<1>13. \A f \in Folders, m \in Mails : RowRight(f, m)
  BY <1>1 DEF RowRight, Vouched
<1>14. \A m \in Mails : OneMark(m)
  BY <1>4 DEF OneMark
<1> QED
  BY <1>9, <1>10, <1>11, <1>12, <1>13, <1>14 DEF ListInv

\* A step that leaves the ops and the server alone leaves the counts right.
LEMMA SameOps ==
  ASSUME ListInv, UNCHANGED <<where, seen, queue, counts, drifted, flipped, unheard>>
  PROVE  (\A f \in Folders : CountRight(f)') /\ \A m \in Mails : OneMark(m)'
<1>1. \A f \in Folders : CountRight(f)'
  <2>1. \A f : Staying(f)' = Staying(f) /\ StayingUnread(f)' = StayingUnread(f)
    BY DEF Staying, StayingUnread
  <2>2. \A f : OpsCounted(f)' <=> OpsCounted(f)
    BY DEF OpsCounted, Ahead
  <2> QED
    BY <2>1, <2>2 DEF ListInv, CountRight
<1> QED
  BY <1>1 DEF ListInv, OneMark

LEMMA FetchNew ==
  ASSUME ListLimits, ListTyped, NEW f \in Folders, NEW q \in Seq(Listing!Ops),
         Listing!Fetches(f, q)
  PROVE  /\ fetch' \in [Folders -> [at : {"idle", "sent", "answered", "failed"},
                                    got : Listing!Lists, dirty : SUBSET Mails]]
         /\ fetch'[f].at = "sent" /\ \A i \in DOMAIN q : q[i].ids \subseteq fetch'[f].dirty
         /\ \A g \in Folders \ {f} : fetch'[g] = fetch[g]
<1>1. [at |-> "sent", got |-> << >>, dirty |-> Listing!Pending(q)]
        \in [at : {"idle", "sent", "answered", "failed"}, got : Listing!Lists, dirty : SUBSET Mails]
  BY NoneListed, PendingIs
<1>2. fetch' = [fetch EXCEPT ![f] = [at |-> "sent", got |-> << >>, dirty |-> Listing!Pending(q)]]
  BY DEF Listing!Fetches
<1> QED
  BY <1>1, <1>2, PendingIs DEF ListTyped

\* The count of those the user asked for.
LEMMA FetchCounted ==
  ASSUME ListLimits, ListTyped, NEW f, NEW q, Listing!FetchBegins(f, q)
  PROVE  fetched' \in 0 .. MaxFetches /\ Listing!Fetches(f, q)
BY DEF ListLimits, ListTyped, Listing!FetchBegins

LEMMA ListSelect ==
  ASSUME ListLimits, ListInv, NEW f \in Folders, Listing!SelectFolder(f)
  PROVE  ListInv'
<1> USE DEF Listing!server, Listing!cache
<1>1. /\ activeFolderId' = f
      /\ UNCHANGED <<where, seen, lists, have, outdated, copies, kept, counts, queue, queued, dirty,
                     unseen, flipped, drifted, unheard>>
      /\ pickable' = pickable \cup IF f \in have THEN DOMAIN lists[f] ELSE {}
  BY DEF Listing!SelectFolder
<1>t. ListTyped /\ ActiveFresh /\ queue \in Seq(Listing!Ops)
  BY DEF ListInv, ListTyped
<1>2. /\ fetch' \in [Folders -> [at : {"idle", "sent", "answered", "failed"},
                                 got : Listing!Lists, dirty : SUBSET Mails]]
      /\ fetched' \in 0 .. MaxFetches
      /\ f \in outdated \cap have => fetch'[f].at # "idle"
      /\ \A g \in Folders : fetch'[g] = fetch[g] \/ (fetch'[g].at = "sent"
            /\ \A i \in DOMAIN queue : queue[i].ids \subseteq fetch'[g].dirty)
  <2>1. CASE fetch[f].at = "idle" /\ Listing!FetchBegins(f, queue)
    BY <1>t, <2>1, FetchCounted, FetchNew
  <2>2. CASE (fetch[f].at # "idle" \/ f \in have \ outdated) /\ UNCHANGED <<fetch, fetched>>
    BY <1>t, <2>2 DEF ListTyped
  <2> QED
    BY <2>1, <2>2 DEF Listing!SelectFolder
<1>3. ListTyped'
  BY <1>1, <1>2, <1>t, ListRows DEF ListTyped, OpRight, OfFirst
<1>4. ActiveFresh'
  BY <1>1, <1>2, <1>t DEF ActiveFresh
<1>5. \A g \in Folders : FetchRight(g)'
  BY <1>1, <1>2 DEF ListInv, FetchRight
<1>6. \A g \in Folders, m \in Mails : RowRight(g, m)'
  BY <1>1, <1>2 DEF ListInv, RowRight, Vouched, Listed, Unlisted
<1> QED
  BY <1>1, <1>3, <1>4, <1>5, <1>6, SameOps DEF ListInv

LEMMA ListRefetch ==
  ASSUME ListLimits, ListInv, Listing!Refetch
  PROVE  ListInv'
<1> USE DEF Listing!server, Listing!cache, Listing!page
<1>1. UNCHANGED <<where, seen, activeFolderId, pickable, lists, have, outdated, copies, kept, counts,
                  queue, queued, dirty, unseen, flipped, drifted, unheard>>
  BY DEF Listing!Refetch
<1>t. ListTyped /\ ActiveFresh /\ queue \in Seq(Listing!Ops) /\ activeFolderId \in Folders
  BY DEF ListInv, ListTyped
<1>2. /\ fetch' \in [Folders -> [at : {"idle", "sent", "answered", "failed"},
                                 got : Listing!Lists, dirty : SUBSET Mails]]
      /\ fetched' \in 0 .. MaxFetches
      /\ fetch'[activeFolderId].at # "idle"
      /\ \A g \in Folders : fetch'[g] = fetch[g] \/ (fetch'[g].at = "sent"
            /\ \A i \in DOMAIN queue : queue[i].ids \subseteq fetch'[g].dirty)
  BY <1>t, FetchCounted, FetchNew DEF Listing!Refetch
<1>3. ListTyped'
  BY <1>1, <1>2, <1>t DEF ListTyped, OpRight, OfFirst
<1>4. ActiveFresh'
  BY <1>1, <1>2, <1>t DEF ActiveFresh
<1>5. \A g \in Folders : FetchRight(g)'
  BY <1>1, <1>2 DEF ListInv, FetchRight
<1>6. \A g \in Folders, m \in Mails : RowRight(g, m)'
  BY <1>1, <1>2 DEF ListInv, RowRight, Vouched, Listed, Unlisted
<1> QED
  BY <1>1, <1>3, <1>4, <1>5, <1>6, SameOps DEF ListInv

LEMMA ListServe ==
  ASSUME ListLimits, ListInv, NEW f \in Folders, Listing!ServeList(f) \/ Listing!ListFails(f)
  PROVE  ListInv'
<1> USE DEF Listing!server, Listing!cache, Listing!page
<1>1. UNCHANGED <<where, seen, activeFolderId, pickable, lists, have, outdated, copies, kept, counts,
                  queue, queued, fetched, dirty, unseen, flipped, drifted, unheard>>
      /\ fetch[f].at = "sent"
  BY DEF Listing!ServeList, Listing!ListFails
<1>t. ListTyped /\ ActiveFresh
  BY DEF ListInv
<1>2. /\ fetch' \in [Folders -> [at : {"idle", "sent", "answered", "failed"},
                                 got : Listing!Lists, dirty : SUBSET Mails]]
      /\ fetch'[f].dirty = fetch[f].dirty
      /\ \/ fetch'[f].at = "answered" /\ fetch'[f].got = Listing!OnServer(f)
         \/ fetch'[f].at = "failed"
      /\ \A g \in Folders \ {f} : fetch'[g] = fetch[g]
  <2>1. CASE Listing!ServeList(f)
    BY <2>1, <1>t, ListServer DEF ListTyped, Listing!ServeList
  <2>2. CASE Listing!ListFails(f)
    BY <2>2, <1>t DEF ListTyped, Listing!ListFails
  <2> QED
    BY <2>1, <2>2
<1>3. ListTyped'
  BY <1>1, <1>2, <1>t DEF ListTyped, OpRight, OfFirst
<1>4. ActiveFresh'
  <2>1. activeFolderId = f \/ fetch'[activeFolderId] = fetch[activeFolderId]
    BY <1>2, <1>t DEF ListTyped
  <2> QED
    BY <1>1, <1>2, <1>t, <2>1 DEF ActiveFresh
<1>5. \A g \in Folders : FetchRight(g)'
  <2>1. FetchRight(f)'
    <3>1. \A i \in DOMAIN queue : queue[i].ids \subseteq fetch[f].dirty
      BY <1>1 DEF ListInv, FetchRight
    <3>2. fetch'[f].at = "answered" =>
             /\ DOMAIN fetch'[f].got = {m \in Mails : where[m] = f}
             /\ \A m \in Mails : where[m] = f => fetch'[f].got[m] = seen[m]
      <4>1. fetch'[f].at = "answered" => fetch'[f].got = Listing!OnServer(f)
        BY <1>2
      <4>2. /\ DOMAIN Listing!OnServer(f) = {m \in Mails : where[m] = f}
            /\ \A m \in Mails : where[m] = f => Listing!OnServer(f)[m] = seen[m]
        BY <1>t, ListServer
      <4> QED
        BY <4>1, <4>2
    <3> QED
      BY <1>1, <1>2, <3>1, <3>2 DEF FetchRight
  <2>2. \A g \in Folders \ {f} : FetchRight(g)'
    BY <1>1, <1>2 DEF ListInv, FetchRight
  <2> QED
    BY <2>1, <2>2
<1>6. \A g \in Folders, m \in Mails : RowRight(g, m)'
  BY <1>1, <1>2 DEF ListInv, RowRight, Vouched, Listed, Unlisted
<1> QED
  BY <1>1, <1>3, <1>4, <1>5, <1>6, SameOps DEF ListInv

\* But for what X excuses, l is what folder f holds, with no op under way.
ReadRight(f, l, X) ==
    \A m \in Mails : <<f, m>> \notin X =>
       /\ \A i \in DOMAIN queue : m \notin queue[i].ids
       /\ m \in DOMAIN l <=> where[m] = f
       /\ m \in DOMAIN l => l[m] = seen[m]

\* What is read becomes the list: the rows that nothing excuses are right.
LEMMA ListBecomes ==
  ASSUME ListLimits, ListInv, NEW f \in Folders, NEW l \in Listing!Lists, NEW X,
         X \subseteq {f} \X Mails, Listing!Becomes(f, l, X),
         fetch' = [fetch EXCEPT ![f] = Listing!Idle],
         UNCHANGED <<where, seen, activeFolderId, counts, queue, queued, fetched, flipped, drifted,
                     unheard>>,
         copies' \in [Folders -> Listing!Lists], kept \subseteq kept', kept' \subseteq Folders,
         f \in kept', ReadRight(f, l, X)
  PROVE  ListInv'
<1>t. ListTyped /\ ActiveFresh
  BY DEF ListInv
<1>1. /\ lists' = [lists EXCEPT ![f] = l] /\ have' = have \cup {f} /\ outdated' = outdated \ {f}
      /\ pickable' = pickable \cup IF f = activeFolderId THEN DOMAIN l ELSE {}
      /\ dirty' = (dirty \ Listing!Of(f)) \cup X /\ unseen' = unseen \ Listing!Of(f)
  BY DEF Listing!Becomes
<1>2. fetch' \in [Folders -> [at : {"idle", "sent", "answered", "failed"}, got : Listing!Lists,
                              dirty : SUBSET Mails]] /\ fetch'[f].at = "idle"
  <2>1. Listing!Idle \in [at : {"idle", "sent", "answered", "failed"}, got : Listing!Lists,
                          dirty : SUBSET Mails] /\ Listing!Idle.at = "idle"
    BY NoneListed DEF Listing!Idle
  <2> QED
    BY <2>1, <1>t DEF ListTyped
<1>3. \A g \in Folders \ {f} : fetch'[g] = fetch[g] /\ lists'[g] = lists[g]
  BY <1>1, <1>t DEF ListTyped
<1>4. lists'[f] = l /\ lists' \in [Folders -> Listing!Lists]
  BY <1>1, <1>t DEF ListTyped
<1>5. ListTyped'
  <2>1. pickable' \subseteq Mails
    BY <1>1, <1>t, ListParts DEF ListTyped
  <2>2. dirty' \subseteq Folders \X Mails /\ unseen' \subseteq Folders \X Mails
    BY <1>1, <1>t DEF ListTyped
  <2>3. have' \subseteq kept' /\ outdated' \subseteq Folders
    BY <1>1, <1>t DEF ListTyped
  <2> QED
    BY <1>2, <1>4, <1>t, <2>1, <2>2, <2>3 DEF ListTyped, OpRight, OfFirst
<1>6. ActiveFresh'
  <2>1. activeFolderId \in outdated' \cap have' => fetch'[activeFolderId].at # "idle"
    BY <1>1, <1>3, <1>t DEF ActiveFresh, ListTyped
  <2>2. \A g \in Folders \ have' : DOMAIN lists'[g] = {}
    BY <1>1, <1>3, <1>t DEF ActiveFresh
  <2> QED
    BY <2>1, <2>2 DEF ActiveFresh
<1>7. \A g \in Folders : FetchRight(g)'
  <2>1. FetchRight(f)'
    BY <1>2 DEF FetchRight
  <2>2. \A g \in Folders \ {f} : FetchRight(g)'
    BY <1>3 DEF ListInv, FetchRight
  <2> QED
    BY <2>1, <2>2
<1>8. ASSUME NEW m \in Mails PROVE RowRight(f, m)'
  <2>1. Vouched(f, m)' => <<f, m>> \notin X
    BY <1>1 DEF Vouched
  <2> QED
    BY <2>1, <1>4 DEF ReadRight, RowRight, Listed, Unlisted
<1>9. ASSUME NEW g \in Folders \ {f}, NEW m \in Mails PROVE RowRight(g, m)'
  <2>1. <<g, m>> \notin Listing!Of(f)
    BY DEF Listing!Of
  <2>2. Vouched(g, m)' => Vouched(g, m)
    BY <1>1, <1>3, <2>1 DEF Vouched
  <2> QED
    BY <2>2, <1>3 DEF ListInv, RowRight, Listed, Unlisted
<1> QED
  BY <1>5, <1>6, <1>7, <1>8, <1>9, SameOps DEF ListInv

LEMMA ListTake ==
  ASSUME ListLimits, ListInv, NEW f \in Folders, Listing!TakeList(f)
  PROVE  ListInv'
<1> USE DEF Listing!server
<1> DEFINE X == {f} \X fetch[f].dirty
<1>t. ListTyped
  BY DEF ListInv
<1>1. /\ fetch[f].at = "answered" /\ fetch' = [fetch EXCEPT ![f] = Listing!Idle]
      /\ Listing!Becomes(f, fetch[f].got, X)
      /\ copies' = [copies EXCEPT ![f] = fetch[f].got] /\ kept' = kept \cup {f}
      /\ UNCHANGED <<where, seen, activeFolderId, counts, queue, queued, fetched, flipped, drifted,
                     unheard>>
  BY DEF Listing!TakeList
<1>2. fetch[f].got \in Listing!Lists /\ fetch[f].dirty \subseteq Mails
  BY <1>t DEF ListTyped
<1>3. X \subseteq {f} \X Mails /\ copies' \in [Folders -> Listing!Lists]
      /\ kept \subseteq kept' /\ f \in kept' /\ kept' \subseteq Folders
  BY <1>1, <1>2, <1>t DEF ListTyped
<1>4. ASSUME NEW m \in Mails, <<f, m>> \notin X
      PROVE  /\ \A i \in DOMAIN queue : m \notin queue[i].ids
             /\ m \in DOMAIN fetch[f].got <=> where[m] = f
             /\ m \in DOMAIN fetch[f].got => fetch[f].got[m] = seen[m]
  <2>1. m \notin fetch[f].dirty
    BY <1>4
  <2> QED
    BY <2>1, <1>1 DEF ListInv, FetchRight
<1>5. PICK x : x = X
  OBVIOUS
<1>6. PICK l : l = fetch[f].got
  OBVIOUS
<1>7. Listing!Becomes(f, l, x) /\ l \in Listing!Lists /\ x \subseteq {f} \X Mails
  BY <1>1, <1>2, <1>3, <1>5, <1>6
<1>8. ReadRight(f, l, x)
  BY <1>4, <1>5, <1>6 DEF ReadRight
<1>9. /\ fetch' = [fetch EXCEPT ![f] = Listing!Idle]
      /\ UNCHANGED <<where, seen, activeFolderId, counts, queue, queued, fetched, flipped, drifted,
                     unheard>>
      /\ copies' \in [Folders -> Listing!Lists]
      /\ kept \subseteq kept' /\ f \in kept' /\ kept' \subseteq Folders
  BY <1>1, <1>3
<1> HIDE DEF X
<1> QED
  BY <1>7, <1>8, <1>9, ListBecomes

LEMMA ListTakeFailure ==
  ASSUME ListLimits, ListInv, NEW f \in Folders, Listing!TakeFailure(f)
  PROVE  ListInv'
<1> USE DEF Listing!server
<1>t. ListTyped /\ ActiveFresh
  BY DEF ListInv
<1>1. /\ fetch[f].at = "failed" /\ fetch' = [fetch EXCEPT ![f] = Listing!Idle]
      /\ UNCHANGED <<where, seen, activeFolderId, copies, kept, counts, queue, queued, fetched,
                     flipped, drifted, unheard>>
  BY DEF Listing!TakeFailure
<1>2. CASE f \in kept /\ Listing!Becomes(f, copies[f], Listing!Of(f))
  <2>1. Listing!Of(f) = {f} \X Mails /\ copies[f] \in Listing!Lists /\ kept \subseteq Folders
        /\ copies \in [Folders -> Listing!Lists]
    BY <1>t DEF Listing!Of, ListTyped
  <2>2. \A m \in Mails : <<f, m>> \in Listing!Of(f)
    BY DEF Listing!Of
  <2> QED
    BY <1>1, <1>2, <2>1, <2>2, ListBecomes DEF ReadRight
<1>3. CASE f \notin kept /\ UNCHANGED <<lists, have, outdated, pickable, dirty, unseen>>
  <2>1. f \notin have
    BY <1>3, <1>t DEF ListTyped
  <2>2. fetch' \in [Folders -> [at : {"idle", "sent", "answered", "failed"}, got : Listing!Lists,
                                dirty : SUBSET Mails]] /\ fetch'[f].at = "idle"
        /\ \A g \in Folders \ {f} : fetch'[g] = fetch[g]
    <3>1. Listing!Idle \in [at : {"idle", "sent", "answered", "failed"}, got : Listing!Lists,
                            dirty : SUBSET Mails] /\ Listing!Idle.at = "idle"
      BY NoneListed DEF Listing!Idle
    <3> QED
      BY <3>1, <1>1, <1>t DEF ListTyped
  <2>3. ListTyped'
    BY <1>1, <1>3, <2>2, <1>t DEF ListTyped, OpRight, OfFirst
  <2>4. ActiveFresh'
    <3>1. activeFolderId \in outdated \cap have => fetch'[activeFolderId].at # "idle"
      BY <1>t, <2>1, <2>2 DEF ActiveFresh, ListTyped
    <3> QED
      BY <3>1, <1>1, <1>3, <1>t DEF ActiveFresh
  <2>5. ASSUME NEW g \in Folders PROVE FetchRight(g)' /\ \A m \in Mails : RowRight(g, m)'
    <3>1. CASE g = f
      BY <1>1, <1>3, <2>1, <2>2, <3>1 DEF FetchRight, RowRight, Vouched
    <3>2. CASE g # f
      BY <1>1, <1>3, <2>2, <3>2
         DEF ListInv, FetchRight, RowRight, Vouched, Listed, Unlisted
    <3> QED
      BY <3>1, <3>2
  <2> QED
    BY <1>1, <2>3, <2>4, <2>5, SameOps DEF ListInv
<1> QED
  BY <1>2, <1>3 DEF Listing!TakeFailure

LEMMA ListPoll == ASSUME ListLimits, ListInv, Listing!PollFolders PROVE ListInv'
<1> USE DEF Listing!server, Listing!page, Listing!cache
<1>t. ListTyped /\ ActiveFresh /\ queue \in Seq(Listing!Ops)
  BY DEF ListInv, ListTyped
<1>1. /\ counts' = Listing!TrueCounts
      /\ drifted' = {queue[i].source : i \in DOMAIN queue}
                       \cup Listing!Whence(Listing!Pending(queue))
      /\ UNCHANGED <<where, seen, activeFolderId, pickable, lists, have, outdated, copies, kept,
                     fetch, queue, queued, fetched, dirty, unseen, flipped, unheard>>
  BY DEF Listing!PollFolders
<1>2. ASSUME NEW f \in Folders \ drifted'
      PROVE  \A i \in DOMAIN queue : queue[i].source # f /\ \A m \in queue[i].ids : where[m] # f
  <2>1. \A i \in DOMAIN queue : queue[i].source # f /\ queue[i].ids \subseteq Mails
    BY <1>1, <1>t, PendingIs
  <2>2. ASSUME NEW i \in DOMAIN queue, NEW m \in queue[i].ids, where[m] = f PROVE FALSE
    <3>1. f # Listing!Gone /\ m \in Listing!Pending(queue)
      BY <1>t, PendingIs DEF ListLimits
    <3> QED
      BY <3>1, <2>2, <1>1 DEF Listing!Whence
  <2> QED
    BY <2>1, <2>2
<1>3. \A f : Cardinality(Staying(f)) \in Nat /\ Cardinality(StayingUnread(f)) \in Nat
  BY FoldersFinite
<1>4. /\ counts' \in [Folders -> [unread : Nat, total : Nat]]
      /\ \A f \in Folders : /\ counts'[f].unread = Cardinality({m \in Listing!In(f) : ~seen[m]})
                            /\ counts'[f].total = Cardinality(Listing!In(f))
  <2>1. Listing!TrueCounts =
          [f \in Folders |-> [unread |-> Cardinality({m \in Listing!In(f) : ~seen[m]}),
                              total  |-> Cardinality(Listing!In(f))]]
    BY DEF Listing!TrueCounts, Listing!Cardinality, Cardinality
  <2>2. \A f : /\ Cardinality({m \in Listing!In(f) : ~seen[m]}) \in Nat
               /\ Cardinality(Listing!In(f)) \in Nat
    <3>1. \A f : {m \in Listing!In(f) : ~seen[m]} \subseteq Mails /\ Listing!In(f) \subseteq Mails
      BY DEF Listing!In
    <3> QED
      BY <3>1, FS_Subset, FS_CardinalityType DEF ListLimits
  <2> QED
    BY <1>1, <2>1, <2>2
<1>5. ASSUME NEW f \in Folders \ drifted' PROVE CountRight(f)'
  <2>1. OpsCounted(f)'
    BY <1>1, <1>2 DEF OpsCounted
  <2>2. Staying(f)' = Listing!In(f) /\ StayingUnread(f)' = {m \in Listing!In(f) : ~seen[m]}
    BY <1>1, <1>2 DEF Staying, StayingUnread, Listing!In
  <2> QED
    BY <2>1, <2>2, <1>4 DEF CountRight
<1>6. \A f \in Folders : CountRight(f)'
  BY <1>5 DEF CountRight
<1>7. drifted' \subseteq Folders
  <2>1. \A i \in DOMAIN queue : queue[i] \in Listing!Ops
    BY <1>t
  <2>2. \A i \in DOMAIN queue : queue[i].source \in Folders
    BY <2>1 DEF Listing!Ops
  <2>3. Listing!Whence(Listing!Pending(queue)) \subseteq Folders
    BY <1>t, PendingIs DEF Listing!Whence, ListTyped
  <2> QED
    BY <1>1, <2>2, <2>3
<1>8. ListTyped'
  BY <1>1, <1>4, <1>7, <1>t DEF ListTyped, OpRight, OfFirst
<1>9. ActiveFresh' /\ (\A m \in Mails : OneMark(m)') /\ \A f \in Folders : FetchRight(f)'
  BY <1>1 DEF ListInv, ActiveFresh, OneMark, FetchRight
<1>10. \A f \in Folders, m \in Mails : RowRight(f, m)'
  BY <1>1 DEF ListInv, RowRight, Vouched, Listed, Unlisted
<1> QED
  BY <1>6, <1>8, <1>9, <1>10 DEF ListInv
-----------------------------------------------------------------------------
(* An op is queued.                                                        *)

\* What is known of every op, when the list of the open folder becomes l.
OpMade(op, l) ==
    /\ OpRight(op) /\ op.source = activeFolderId /\ l \in Listing!Lists
    /\ activeFolderId \notin have => DOMAIN l = {}
    /\ \A m \in Mails \ op.ids : /\ m \in DOMAIN l <=> m \in DOMAIN lists[activeFolderId]
                                 /\ m \in DOMAIN l => l[m] = lists[activeFolderId][m]

LEMMA OpQueued ==
  ASSUME ListLimits, ListInv, NEW op, NEW l, OpMade(op, l),
         Listing!Queues(op), Listing!Writes(activeFolderId, l),
         UNCHANGED <<where, seen, activeFolderId, have, copies, kept, fetched, dirty, unheard>>,
         flipped \subseteq flipped', flipped' \subseteq Mails,
         drifted' \subseteq Folders, pickable' \subseteq Mails,
         counts' \in [Folders -> [unread : Nat, total : Nat]],
         unseen' = unseen \cup Listing!Left(op.ids),
         op.kind = "mark" => \A m \in op.ids : m \in Listing!Pending(queue) => m \in flipped'
  PROVE  /\ ListTyped' /\ ActiveFresh' /\ \A f \in Folders : FetchRight(f)'
         /\ \A m \in Mails : OneMark(m)'
         /\ \A f \in Folders, m \in Mails :
               f # activeFolderId \/ m \notin op.ids => RowRight(f, m)'
<1>t. ListTyped /\ ActiveFresh /\ queue \in Seq(Listing!Ops) /\ activeFolderId \in Folders
  BY DEF ListInv, ListTyped
<1>o. /\ OpRight(op) /\ op \in Listing!Ops /\ op.ids \subseteq Mails /\ op.source = activeFolderId
      /\ l \in Listing!Lists
  BY DEF OpMade, OpRight, Listing!Ops
<1>q. /\ queue' = Append(queue, op) /\ queue' \in Seq(Listing!Ops) /\ Len(queue) \in Nat
      /\ DOMAIN queue = 1 .. Len(queue) /\ DOMAIN queue' = 1 .. Len(queue) + 1
      /\ \A i \in DOMAIN queue : i \in DOMAIN queue' /\ queue'[i] = queue[i]
      /\ Len(queue) + 1 \in DOMAIN queue' /\ queue'[Len(queue) + 1] = op
      /\ \A i \in DOMAIN queue' : i \in DOMAIN queue \/ i = Len(queue) + 1
  BY <1>t, <1>o, LongerBy DEF Listing!Queues
<1>f. /\ fetch' \in [Folders -> [at : {"idle", "sent", "answered", "failed"}, got : Listing!Lists,
                                 dirty : SUBSET Mails]]
      /\ \A f \in Folders : /\ fetch'[f].at = fetch[f].at /\ fetch'[f].got = fetch[f].got
                            /\ fetch[f].at # "idle" => fetch'[f].dirty = fetch[f].dirty \cup op.ids
  <2>1. fetch' = [f \in Folders |-> IF fetch[f].at = "idle" THEN fetch[f]
                                    ELSE [fetch[f] EXCEPT !.dirty = @ \cup op.ids]]
    BY DEF Listing!Queues
  <2>2. fetch \in [Folders -> [at : {"idle", "sent", "answered", "failed"}, got : Listing!Lists,
                               dirty : SUBSET Mails]]
    BY <1>t DEF ListTyped
  <2> QED
    BY <2>1, <2>2, <1>o
<1>w. /\ lists' = [lists EXCEPT ![activeFolderId] = l]
      /\ lists' \in [Folders -> Listing!Lists] /\ lists'[activeFolderId] = l
      /\ \A f \in Folders \ {activeFolderId} :
            lists'[f] = lists[f] /\ (f \in outdated' <=> f \in outdated)
      /\ outdated' \subseteq outdated
  BY <1>t, <1>o DEF Listing!Writes, ListTyped
<1>1. ListTyped'
  <2>1. queued' \in 0 .. MaxOps
    BY <1>t DEF Listing!Queues, ListTyped, ListLimits
  <2>2. \A i \in DOMAIN queue' : OpRight(queue'[i])
    BY <1>q, <1>o, <1>t DEF ListTyped
  <2>3. unseen' \subseteq Folders \X Mails
    BY <1>t, <1>o DEF Listing!Left, ListTyped
  <2>4. outdated' \subseteq Folders /\ have' \subseteq kept'
    BY <1>w, <1>t DEF ListTyped
  <2>5. pickable' \subseteq Mails /\ dirty' \subseteq Folders \X Mails /\ kept' \subseteq Folders
        /\ fetched' \in 0 .. MaxFetches /\ copies' \in [Folders -> Listing!Lists]
        /\ where' \in [Mails -> Folders \cup {Listing!Gone}] /\ seen' \in [Mails -> BOOLEAN]
        /\ activeFolderId' \in Folders /\ flipped' \subseteq Mails /\ drifted' \subseteq Folders
        /\ counts' \in [Folders -> [unread : Nat, total : Nat]]
    BY <1>t DEF ListTyped
  <2>6. unheard' \subseteq Mails /\ OfFirst'
    BY <1>q, <1>t DEF ListTyped, OfFirst
  <2> QED
    BY <1>q, <1>f, <1>w, <2>1, <2>2, <2>3, <2>4, <2>5, <2>6 DEF ListTyped
<1>2. ActiveFresh'
  <2>1. activeFolderId \in outdated' \cap have => fetch'[activeFolderId].at # "idle"
    BY <1>t, <1>w, <1>f DEF ActiveFresh
  <2>2. \A f \in Folders \ have : DOMAIN lists'[f] = {}
    BY <1>t, <1>w DEF ActiveFresh, OpMade
  <2> QED
    BY <2>1, <2>2 DEF ActiveFresh
<1>3. ASSUME NEW f \in Folders PROVE FetchRight(f)'
  <2>1. SUFFICES ASSUME fetch'[f].at # "idle" PROVE FetchRight(f)'
    BY DEF FetchRight
  <2>2. fetch[f].at # "idle" /\ fetch'[f].dirty = fetch[f].dirty \cup op.ids
        /\ fetch'[f].got = fetch[f].got /\ fetch'[f].at = fetch[f].at
    BY <2>1, <1>f
  <2>3. \A i \in DOMAIN queue : queue[i].ids \subseteq fetch[f].dirty
    BY <2>2 DEF ListInv, FetchRight
  <2>4. \A i \in DOMAIN queue' : queue'[i].ids \subseteq fetch'[f].dirty
    BY <2>2, <2>3, <1>q
  <2>5. fetch'[f].at = "answered" => \A m \in Mails \ fetch'[f].dirty :
              /\ m \in DOMAIN fetch'[f].got <=> where'[m] = f
              /\ m \in DOMAIN fetch'[f].got => fetch'[f].got[m] = seen'[m]
    <3>1. fetch[f].at = "answered" => \A m \in Mails \ fetch[f].dirty :
                /\ m \in DOMAIN fetch[f].got <=> where[m] = f
                /\ m \in DOMAIN fetch[f].got => fetch[f].got[m] = seen[m]
      BY <2>2 DEF ListInv, FetchRight
    <3> QED
      BY <3>1, <2>2
  <2> QED
    BY <2>1, <2>4, <2>5 DEF FetchRight
<1>4. ASSUME NEW m \in Mails PROVE OneMark(m)'
  <2>1. SUFFICES ASSUME m \notin flipped', NEW i \in DOMAIN queue', NEW j \in DOMAIN queue', i < j,
                        m \in queue'[i].ids, m \in queue'[j].ids
                 PROVE  queue'[j].kind # "mark"
    BY DEF OneMark
  <2>2. i \in DOMAIN queue /\ queue'[i] = queue[i]
    BY <1>q, <2>1
  <2>3. CASE j \in DOMAIN queue
    BY <2>1, <2>2, <2>3, <1>q DEF ListInv, OneMark
  <2>4. CASE j = Len(queue) + 1
    <3>1. m \in Listing!Pending(queue) /\ queue'[j] = op
      BY <1>t, <1>q, <2>1, <2>2, <2>4, PendingIs
    <3> QED
      BY <3>1, <2>1
  <2> QED
    BY <2>3, <2>4, <1>q
<1>5. ASSUME NEW f \in Folders, NEW m \in Mails, f # activeFolderId \/ m \notin op.ids
      PROVE  RowRight(f, m)'
  <2>1. SUFFICES ASSUME Vouched(f, m)'
                 PROVE  IF m \in DOMAIN lists'[f] THEN Listed(f, m)' ELSE Unlisted(f, m)'
    BY DEF RowRight
  <2>2. /\ f \in have \ outdated' /\ fetch[f].at = "idle" /\ <<f, m>> \notin dirty \cup unseen
        /\ <<f, m>> \notin Listing!Left(op.ids) /\ m \notin flipped
    BY <2>1, <1>f DEF Vouched
  <2>3. f \notin outdated
    BY <2>2, <1>w, <1>t DEF ActiveFresh
  <2>4. Vouched(f, m)
    BY <2>2, <2>3 DEF Vouched
  <2>5. (m \in DOMAIN lists'[f] <=> m \in DOMAIN lists[f])
        /\ (m \in DOMAIN lists[f] => lists'[f][m] = lists[f][m])
    BY <1>5, <1>w DEF OpMade
  <2>6. CASE m \in DOMAIN lists[f]
    <3>1. m \notin op.ids
      BY <1>5, <2>2, <2>6 DEF Listing!Left
    <3>2. Listed(f, m)
      BY <2>4, <2>6 DEF ListInv, RowRight
    <3>3. \A i \in DOMAIN queue' : m \in queue'[i].ids => i \in DOMAIN queue /\ queue'[i] = queue[i]
      BY <1>q, <3>1
    <3> QED
      BY <2>5, <2>6, <3>2, <3>3, <1>q DEF Listed
  <2>7. CASE m \notin DOMAIN lists[f]
    <3>1. Unlisted(f, m)
      BY <2>4, <2>7 DEF ListInv, RowRight
    <3> QED
      BY <2>5, <2>7, <3>1, <1>q DEF Unlisted
  <2> QED
    BY <2>6, <2>7
<1> QED
  BY <1>1, <1>2, <1>3, <1>4, <1>5

\* The counts of a folder that the op is not about stay right.
LEMMA OpElsewhere ==
  ASSUME ListInv, NEW op, op \in Listing!Ops, queue' = Append(queue, op), UNCHANGED <<where, seen, unheard>>,
         drifted \subseteq drifted', NEW f \in Folders, counts'[f] = counts[f],
         f \notin drifted' => op.source # f /\ \A m \in op.ids : where[m] # f
  PROVE  CountRight(f)'
<1>t. queue \in Seq(Listing!Ops)
  BY DEF ListInv, ListTyped
<1>q. /\ DOMAIN queue = 1 .. Len(queue) /\ Len(queue) \in Nat
      /\ \A i \in DOMAIN queue : i \in DOMAIN queue' /\ queue'[i] = queue[i]
      /\ Len(queue) + 1 \in DOMAIN queue' /\ queue'[Len(queue) + 1] = op
      /\ \A i \in DOMAIN queue' : i \in DOMAIN queue \/ i = Len(queue) + 1
  BY <1>t, LongerBy
<1>1. SUFFICES ASSUME f \notin drifted' PROVE CountRight(f)'
  BY DEF CountRight
<1>2. f \notin drifted /\ op.source # f /\ \A m \in op.ids : where[m] # f
  BY <1>1
<1>3. /\ OpsCounted(f) /\ counts[f].unread = Cardinality(StayingUnread(f))
      /\ counts[f].total = Cardinality(Staying(f))
  BY <1>2 DEF ListInv, CountRight
<1>4. OpsCounted(f)'
  <2>1. SUFFICES ASSUME NEW i \in DOMAIN queue', NEW m \in queue'[i].ids,
                        queue'[i].source = f \/ where[m] = f
                 PROVE  /\ ~queue'[i].bulk /\ queue'[i].source = f
                        /\ \/ where[m] = f /\ \A j \in DOMAIN queue' : m \in queue'[j].ids => j = i
                           \/ Ahead(f, i, m)'
                        /\ queue'[i].kind = "mark" =>
                              (queue'[i].wasUnread <=> queue'[i].read)
                              /\ (m \notin unheard => (seen[m] <=> ~queue'[i].read))
                        /\ queue'[i].kind # "mark" => (queue'[i].wasUnread <=> ~seen[m])
    BY DEF OpsCounted
  <2>2. i \in DOMAIN queue /\ queue'[i] = queue[i]
    BY <1>2, <1>q, <2>1
  <2>3. /\ ~queue[i].bulk /\ queue[i].source = f
        /\ \/ where[m] = f /\ \A j \in DOMAIN queue : m \in queue[j].ids => j = i
           \/ Ahead(f, i, m)
        /\ queue[i].kind = "mark" =>
              (queue[i].wasUnread <=> queue[i].read)
              /\ (m \notin unheard => (seen[m] <=> ~queue[i].read))
        /\ queue[i].kind # "mark" => (queue[i].wasUnread <=> ~seen[m])
    BY <1>3, <2>1, <2>2 DEF OpsCounted
  <2> QED
    BY <1>2, <1>q, <2>2, <2>3 DEF Ahead
<1>5. ASSUME NEW m \in Mails, where[m] = f
      PROVE  \A i \in DOMAIN queue' : m \in queue'[i].ids => i \in DOMAIN queue /\ queue'[i] = queue[i]
  BY <1>2, <1>5, <1>q
<1>6. Staying(f)' = Staying(f)
  BY <1>5, <1>q DEF Staying
<1>7. StayingUnread(f)' = StayingUnread(f)
  BY <1>5, <1>6, <1>q DEF StayingUnread, Staying
<1> QED
  BY <1>3, <1>4, <1>6, <1>7 DEF CountRight

\* A list without the rows of S.
LEMMA LessIs ==
  ASSUME ListTyped, NEW f \in Folders, NEW S
  PROVE  /\ Listing!Less(f, S) \in Listing!Lists
         /\ DOMAIN Listing!Less(f, S) = DOMAIN lists[f] \ S
         /\ \A m \in DOMAIN lists[f] \ S : Listing!Less(f, S)[m] = lists[f][m]
<1>1. DOMAIN lists[f] \subseteq Mails /\ lists[f] \in [DOMAIN lists[f] -> BOOLEAN]
  BY ListRows
<1>2. Listing!Less(f, S) \in [DOMAIN lists[f] \ S -> BOOLEAN]
  BY <1>1 DEF Listing!Less
<1> QED
  BY <1>1, <1>2, ListsAre DEF Listing!Less

\* A message of which the list tells the truth, with no op under way.
LEMMA SureRow ==
  ASSUME ListInv, NEW m \in DOMAIN lists[activeFolderId], m \in Mails,
         Listing!Sure(activeFolderId, m)
  PROVE  /\ where[m] = activeFolderId /\ seen[m] = lists[activeFolderId][m]
         /\ \A i \in DOMAIN queue : m \notin queue[i].ids
<1> DEFINE f == activeFolderId
<1>t. ListTyped /\ ActiveFresh /\ queue \in Seq(Listing!Ops) /\ f \in Folders
  BY DEF ListInv, ListTyped
<1>1. f \in have
  BY <1>t DEF ActiveFresh
<1>2. Vouched(f, m) /\ m \notin Listing!Pending(queue)
  BY <1>1 DEF Listing!Sure, Vouched
<1>3. Listed(f, m)
  BY <1>2, <1>t DEF ListInv, RowRight
<1>4. \A i \in DOMAIN queue : m \notin queue[i].ids
  BY <1>2, <1>t, PendingIs
<1> QED
  BY <1>3, <1>4 DEF Listed

LEMMA FewerCounts ==
  ASSUME ListTyped, NEW f \in Folders, NEW u \in Nat, NEW t \in Nat
  PROVE  /\ Listing!Charged(f, u, t) \in [Folders -> [unread : Nat, total : Nat]]
         /\ Listing!Charged(f, u, t)[f].unread = Listing!Minus(counts[f].unread, u)
         /\ Listing!Charged(f, u, t)[f].total = Listing!Minus(counts[f].total, t)
         /\ \A g \in Folders \ {f} : Listing!Charged(f, u, t)[g] = counts[g]
<1>1. counts \in [Folders -> [unread : Nat, total : Nat]]
  BY DEF ListTyped
<1>2. Listing!Minus(counts[f].unread, u) \in Nat /\ Listing!Minus(counts[f].total, t) \in Nat
  BY <1>1 DEF Listing!Minus
<1> QED
  BY <1>1, <1>2 DEF Listing!Charged

\* The new op, if it is the only one on m, is counted.
LEMMA OpHere ==
  ASSUME ListInv, NEW op, op \in Listing!Ops, NEW m \in Mails, op.ids = {m},
         queue' = Append(queue, op), UNCHANGED <<where, seen, unheard>>, ~op.bulk,
         NEW f \in Folders, op.source = f, where[m] = f, f \notin drifted,
         \A i \in DOMAIN queue : m \notin queue[i].ids,
         op.kind = "mark" => (op.wasUnread <=> op.read) /\ (seen[m] <=> ~op.read),
         op.kind # "mark" => (op.wasUnread <=> ~seen[m])
  PROVE  /\ OpsCounted(f)' /\ m \in Staying(f) /\ (m \in StayingUnread(f) <=> ~seen[m])
         /\ Staying(f)' = IF op.kind = "mark" THEN Staying(f) ELSE Staying(f) \ {m}
         /\ StayingUnread(f)' = IF op.kind = "mark" /\ ~op.read THEN StayingUnread(f) \cup {m}
                                ELSE StayingUnread(f) \ {m}
<1>t. queue \in Seq(Listing!Ops)
  BY DEF ListInv, ListTyped
<1>q. /\ DOMAIN queue = 1 .. Len(queue) /\ Len(queue) \in Nat
      /\ \A i \in DOMAIN queue : i \in DOMAIN queue' /\ queue'[i] = queue[i]
      /\ Len(queue) + 1 \in DOMAIN queue' /\ queue'[Len(queue) + 1] = op
      /\ \A i \in DOMAIN queue' : i \in DOMAIN queue \/ i = Len(queue) + 1
  BY <1>t, LongerBy
<1>1. OpsCounted(f)
  BY DEF ListInv, CountRight
<1>2. OpsCounted(f)'
  <2>1. SUFFICES ASSUME NEW i \in DOMAIN queue', NEW x \in queue'[i].ids,
                        queue'[i].source = f \/ where[x] = f
                 PROVE  /\ ~queue'[i].bulk /\ queue'[i].source = f
                        /\ \/ where[x] = f /\ \A j \in DOMAIN queue' : x \in queue'[j].ids => j = i
                           \/ Ahead(f, i, x)'
                        /\ queue'[i].kind = "mark" =>
                              (queue'[i].wasUnread <=> queue'[i].read)
                              /\ (x \notin unheard => (seen[x] <=> ~queue'[i].read))
                        /\ queue'[i].kind # "mark" => (queue'[i].wasUnread <=> ~seen[x])
    BY DEF OpsCounted
  <2>2. CASE i = Len(queue) + 1
    <3>1. queue'[i] = op /\ x = m
      BY <2>1, <2>2, <1>q
    <3>2. \A j \in DOMAIN queue' : x \in queue'[j].ids => j = i
      BY <3>1, <1>q, <2>2
    <3> QED
      BY <3>1, <3>2
  <2>3. CASE i \in DOMAIN queue
    <3>1. queue'[i] = queue[i] /\ x # m
      BY <2>1, <2>3, <1>q
    <3>2. /\ ~queue[i].bulk /\ queue[i].source = f
          /\ \/ where[x] = f /\ \A j \in DOMAIN queue : x \in queue[j].ids => j = i
             \/ Ahead(f, i, x)
          /\ queue[i].kind = "mark" =>
                (queue[i].wasUnread <=> queue[i].read)
                /\ (x \notin unheard => (seen[x] <=> ~queue[i].read))
          /\ queue[i].kind # "mark" => (queue[i].wasUnread <=> ~seen[x])
      BY <1>1, <2>1, <2>3, <3>1 DEF OpsCounted
    <3>3. (\A j \in DOMAIN queue : x \in queue[j].ids => j = i)
            => \A j \in DOMAIN queue' : x \in queue'[j].ids => j = i
      BY <3>1, <1>q
    <3> QED
      BY <3>1, <3>2, <3>3 DEF Ahead
  <2> QED
    BY <2>2, <2>3, <1>q
<1>3. m \in Staying(f) /\ (m \in StayingUnread(f) <=> ~seen[m])
  BY DEF Staying, StayingUnread
<1>4. ASSUME NEW x \in Mails, x # m
      PROVE  \A i \in DOMAIN queue' : x \in queue'[i].ids => i \in DOMAIN queue /\ queue'[i] = queue[i]
  BY <1>4, <1>q
<1>5. \A x \in Mails : x # m => /\ (x \in Staying(f)' <=> x \in Staying(f))
                                /\ (x \in StayingUnread(f)' <=> x \in StayingUnread(f))
  <2>1. \A x \in Mails : x # m => (x \in Staying(f)' <=> x \in Staying(f))
    BY <1>4, <1>q DEF Staying
  <2> QED
    BY <2>1, <1>4, <1>q DEF StayingUnread
<1>6. \A i \in DOMAIN queue' : m \in queue'[i].ids => queue'[i] = op
  BY <1>q
<1>7. m \in Staying(f)' <=> op.kind = "mark"
  BY <1>6, <1>q DEF Staying
<1>8. m \in StayingUnread(f)' <=> op.kind = "mark" /\ ~op.read
  BY <1>6, <1>7, <1>q DEF StayingUnread
<1>9. /\ Staying(f) \subseteq Mails /\ Staying(f)' \subseteq Mails
      /\ StayingUnread(f) \subseteq Mails /\ StayingUnread(f)' \subseteq Mails
  BY DEF Staying, StayingUnread
<1>10. Staying(f)' = IF op.kind = "mark" THEN Staying(f) ELSE Staying(f) \ {m}
  <2>1. CASE op.kind = "mark"
    <3>1. \A x \in Mails : x \in Staying(f)' <=> x \in Staying(f)
      BY <1>3, <1>5, <1>7, <2>1
    <3> QED
      BY <3>1, <1>9, <2>1
  <2>2. CASE op.kind # "mark"
    BY <1>5, <1>7, <1>9, <2>2
  <2> QED
    BY <2>1, <2>2
<1>11. StayingUnread(f)' = IF op.kind = "mark" /\ ~op.read THEN StayingUnread(f) \cup {m}
                           ELSE StayingUnread(f) \ {m}
  BY <1>5, <1>8, <1>9
<1> QED
  BY <1>2, <1>3, <1>10, <1>11

LEMMA ListTakeAway ==
  ASSUME ListLimits, ListInv, NEW m \in Mails, NEW kind \in {"move", "delete"}, NEW to \in Folders,
         kind = "move" => to # activeFolderId, Listing!TakeAway(m, kind, to)
  PROVE  ListInv'
<1> USE DEF Listing!server, Listing!page
<1>t. ListTyped /\ ActiveFresh /\ queue \in Seq(Listing!Ops) /\ activeFolderId \in Folders
  BY DEF ListInv, ListTyped
<1>r. DOMAIN lists[activeFolderId] \subseteq Mails
      /\ lists[activeFolderId] \in [DOMAIN lists[activeFolderId] -> BOOLEAN]
  BY <1>t, ListRows
<1>n. PICK f \in Folders : f = activeFolderId
  BY <1>t
<1>u. PICK unread \in BOOLEAN : unread = (m \in DOMAIN lists[f] /\ ~lists[f][m])
  OBVIOUS
<1>o. PICK op : op = [Listing!Op(kind, {m}) EXCEPT !.to = to, !.wasUnread = unread]
  OBVIOUS
<1>l. PICK l : l = Listing!Less(f, {m})
  OBVIOUS
<1>x. /\ l \in Listing!Lists /\ DOMAIN l = DOMAIN lists[f] \ {m}
      /\ \A x \in DOMAIN lists[f] \ {m} : l[x] = lists[f][x]
  <2>1. \A S : /\ Listing!Less(f, S) \in Listing!Lists
               /\ DOMAIN Listing!Less(f, S) = DOMAIN lists[f] \ S
               /\ \A x \in DOMAIN lists[f] \ S : Listing!Less(f, S)[x] = lists[f][x]
    BY <1>t, LessIs
  <2> QED
    BY <2>1, <1>l
<1>1. /\ Listing!Queues(op) /\ Listing!Writes(activeFolderId, l)
      /\ counts' = Listing!Charged(f, IF unread THEN 1 ELSE 0, 1)
      /\ drifted' = drifted \cup IF m \in DOMAIN lists[f] /\ Listing!Sure(f, m) THEN {}
                                 ELSE {f} \cup Listing!Whence({m})
      /\ unseen' = unseen \cup Listing!Left({m})
      /\ UNCHANGED <<where, seen, activeFolderId, pickable, have, copies, kept, fetched, dirty, flipped,
                     unheard>>
  BY <1>n, <1>u, <1>l, <1>o DEF Listing!TakeAway
<1>2. op \in Listing!Ops /\ OpRight(op) /\ op.ids = {m} /\ op.source = f /\ ~op.bulk
      /\ op.kind # "mark" /\ op.wasUnread = unread
  <2>1. PICK o : o = Listing!Op(kind, {m})
    OBVIOUS
  <2>2. op = [o EXCEPT !.to = to, !.wasUnread = unread]
    BY <2>1, <1>o
  <2>3. op = [kind |-> kind, ids |-> {m}, to |-> to, read |-> FALSE, source |-> f,
              wasUnread |-> unread, bulk |-> FALSE]
    BY <2>1, <2>2, <1>n DEF Listing!Op
  <2>4. {m} \in SUBSET Mails /\ unread \in BOOLEAN /\ f \in Folders
    BY <1>n, <1>u
  <2> QED
    BY <2>3, <2>4, <1>n DEF Listing!Ops, OpRight
<1>3. OpMade(op, l)
  BY <1>2, <1>x, <1>n, <1>t DEF OpMade, ActiveFresh
<1>4. /\ counts' \in [Folders -> [unread : Nat, total : Nat]]
      /\ counts'[f].unread = Listing!Minus(counts[f].unread, IF unread THEN 1 ELSE 0)
      /\ counts'[f].total = Listing!Minus(counts[f].total, 1)
      /\ \A g \in Folders \ {f} : counts'[g] = counts[g]
  <2>1. PICK u \in Nat : u = IF unread THEN 1 ELSE 0
    OBVIOUS
  <2>v. PICK t \in Nat : t = 1
    OBVIOUS
  <2>2. counts' = Listing!Charged(f, u, t)
    BY <2>1, <2>v, <1>1
  <2>3. f \in Folders /\ ListTyped
    BY <1>n, <1>t
  <2>4. /\ Listing!Charged(f, u, t) \in [Folders -> [unread : Nat, total : Nat]]
        /\ Listing!Charged(f, u, t)[f].unread = Listing!Minus(counts[f].unread, u)
        /\ Listing!Charged(f, u, t)[f].total = Listing!Minus(counts[f].total, t)
        /\ \A g \in Folders \ {f} : Listing!Charged(f, u, t)[g] = counts[g]
    BY <2>3, FewerCounts
  <2> QED
    BY <2>1, <2>v, <2>2, <2>4
<1>5. Listing!Whence({m}) = {where[m]} \ {Listing!Gone}
  BY DEF Listing!Whence
<1>6. drifted' \subseteq Folders /\ flipped' \subseteq Mails /\ pickable' \subseteq Mails
  BY <1>1, <1>5, <1>t DEF ListTyped
<1>7. unseen' = unseen \cup Listing!Left(op.ids)
  BY <1>1, <1>2
<1>8. /\ ListTyped' /\ ActiveFresh' /\ \A g \in Folders : FetchRight(g)'
      /\ \A x \in Mails : OneMark(x)'
      /\ \A g \in Folders, x \in Mails : g # activeFolderId \/ x \notin op.ids => RowRight(g, x)'
  BY <1>1, <1>2, <1>3, <1>4, <1>6, <1>7, OpQueued
<1>q. queue' = Append(queue, op) /\ Len(queue) + 1 \in DOMAIN queue' /\ queue'[Len(queue) + 1] = op
  BY <1>1, <1>2, <1>t, LongerBy DEF Listing!Queues
<1>9. RowRight(f, m)'
  <2>1. m \notin DOMAIN lists'[f]
    <3>1. lists'[f] = l
      BY <1>1, <1>n, <1>t DEF Listing!Writes, ListTyped
    <3> QED
      BY <3>1, <1>x
  <2>2. Unlisted(f, m)'
    BY <1>q, <1>2 DEF Unlisted
  <2> QED
    BY <2>1, <2>2 DEF RowRight
<1>10. ASSUME NEW g \in Folders, g # f PROVE CountRight(g)'
  <2>1. g \notin drifted' => op.source # g /\ \A x \in op.ids : where[x] # g
    <3>1. SUFFICES ASSUME g \notin drifted', where[m] = g PROVE FALSE
      BY <1>2, <1>10
    <3>2. where[m] # Listing!Gone
      BY <3>1 DEF ListLimits
    <3>3. m \in DOMAIN lists[f] /\ Listing!Sure(f, m)
      BY <3>1, <3>2, <1>1, <1>5
    <3>4. where[m] = f
      BY <3>3, <1>n, SureRow
    <3> QED
      BY <3>1, <3>4, <1>10
  <2>2. drifted \subseteq drifted' /\ counts'[g] = counts[g]
    BY <1>1, <1>4, <1>10
  <2> QED
    BY <1>1, <1>2, <1>q, <2>1, <2>2, OpElsewhere
<1>11. CountRight(f)'
  <2>1. SUFFICES ASSUME f \notin drifted' PROVE CountRight(f)'
    BY DEF CountRight
  <2>2. f \notin drifted /\ m \in DOMAIN lists[f] /\ Listing!Sure(f, m)
    BY <1>1, <2>1
  <2>3. /\ where[m] = f /\ seen[m] = lists[f][m] /\ \A i \in DOMAIN queue : m \notin queue[i].ids
    BY <2>2, <1>n, SureRow
  <2>4. unread = ~seen[m]
    BY <2>2, <2>3, <1>u
  <2>5. /\ OpsCounted(f)' /\ m \in Staying(f) /\ (m \in StayingUnread(f) <=> ~seen[m])
        /\ Staying(f)' = Staying(f) \ {m} /\ StayingUnread(f)' = StayingUnread(f) \ {m}
    <3>1. queue' = Append(queue, op) /\ UNCHANGED <<where, seen, unheard>>
      BY <1>1, <1>q
    <3>2. op.wasUnread <=> ~seen[m]
      BY <1>2, <2>4
    <3>3. /\ OpsCounted(f)' /\ m \in Staying(f) /\ (m \in StayingUnread(f) <=> ~seen[m])
          /\ Staying(f)' = IF op.kind = "mark" THEN Staying(f) ELSE Staying(f) \ {m}
          /\ StayingUnread(f)' = IF op.kind = "mark" /\ ~op.read THEN StayingUnread(f) \cup {m}
                                 ELSE StayingUnread(f) \ {m}
      BY <1>2, <2>2, <2>3, <3>1, <3>2, OpHere
    <3> QED
      BY <3>3, <1>2
  <2>6. counts[f].unread = Cardinality(StayingUnread(f)) /\ counts[f].total = Cardinality(Staying(f))
    BY <2>2 DEF ListInv, CountRight
  <2>7. counts'[f].total = Cardinality(Staying(f) \ {m})
    BY <1>4, <2>5, <2>6, FoldersFinite, OneLess
  <2>8. counts'[f].unread = Cardinality(StayingUnread(f) \ {m})
    <3>1. CASE unread
      BY <3>1, <1>4, <2>4, <2>5, <2>6, FoldersFinite, OneLess
    <3>2. CASE ~unread
      <4>1. StayingUnread(f) \ {m} = StayingUnread(f)
        BY <3>2, <2>4, <2>5
      <4>2. counts'[f].unread = counts[f].unread
        BY <3>2, <1>4, <1>t DEF Listing!Minus, ListTyped
      <4> QED
        BY <4>1, <4>2, <2>6
    <3> QED
      BY <3>1, <3>2
  <2> QED
    BY <2>5, <2>7, <2>8 DEF CountRight
<1>12. \A g \in Folders : CountRight(g)'
  BY <1>10, <1>11
<1>13. \A g \in Folders, x \in Mails : RowRight(g, x)'
  BY <1>2, <1>8, <1>9, <1>n
<1> QED
  BY <1>8, <1>12, <1>13 DEF ListInv

LEMMA ListMark ==
  ASSUME ListLimits, ListInv, NEW m \in Mails, NEW read \in BOOLEAN, Listing!Mark(m, read)
  PROVE  ListInv'
<1> USE DEF Listing!server, Listing!page
<1>t. ListTyped /\ ActiveFresh /\ queue \in Seq(Listing!Ops) /\ activeFolderId \in Folders
  BY DEF ListInv, ListTyped
<1>n. PICK f \in Folders : f = activeFolderId
  BY <1>t
<1>r. DOMAIN lists[f] \subseteq Mails /\ lists[f] \in [DOMAIN lists[f] -> BOOLEAN]
  BY <1>n, <1>t, ListRows
<1>o. PICK op : op = [Listing!Op("mark", {m}) EXCEPT !.read = read, !.wasUnread = read]
  OBVIOUS
<1>l. PICK l : l = [lists[f] EXCEPT ![m] = read]
  OBVIOUS
<1>1. /\ m \in DOMAIN lists[f] /\ lists[f][m] # read
      /\ Listing!Queues(op) /\ Listing!Writes(activeFolderId, l)
      /\ counts' = [counts EXCEPT ![f].unread = IF read THEN Listing!Minus(@, 1) ELSE @ + 1]
      /\ drifted' = drifted \cup IF Listing!Sure(f, m) THEN {} ELSE {f} \cup Listing!Whence({m})
      /\ flipped' = flipped \cup {x \in {m} : x \in Listing!Pending(queue)}
      /\ unseen' = unseen \cup Listing!Left({m})
      /\ UNCHANGED <<where, seen, activeFolderId, pickable, have, copies, kept, fetched, dirty, unheard>>
  BY <1>n, <1>o, <1>l DEF Listing!Mark
<1>2. op \in Listing!Ops /\ OpRight(op) /\ op.ids = {m} /\ op.source = f /\ ~op.bulk
      /\ op.kind = "mark" /\ (op.wasUnread <=> read) /\ (op.read <=> read) /\ op.read = read
  <2>1. PICK o : o = Listing!Op("mark", {m})
    OBVIOUS
  <2>2. op = [o EXCEPT !.read = read, !.wasUnread = read]
    BY <2>1, <1>o
  <2>3. op = [kind |-> "mark", ids |-> {m}, to |-> f, read |-> read, source |-> f,
              wasUnread |-> read, bulk |-> FALSE]
    BY <2>1, <2>2, <1>n DEF Listing!Op
  <2>4. {m} \in SUBSET Mails /\ read \in BOOLEAN /\ f \in Folders
    BY <1>n
  <2> QED
    BY <2>3, <2>4, <1>n DEF Listing!Ops, OpRight
<1>x. /\ l \in Listing!Lists /\ DOMAIN l = DOMAIN lists[f] /\ l[m] = read
      /\ \A x \in DOMAIN lists[f] \ {m} : l[x] = lists[f][x]
  <2>1. l \in [DOMAIN lists[f] -> BOOLEAN]
    BY <1>l, <1>r
  <2> QED
    BY <2>1, <1>1, <1>l, <1>r, ListsAre
<1>3. OpMade(op, l)
  BY <1>2, <1>x, <1>n, <1>t DEF OpMade, ActiveFresh
<1>4. /\ counts' \in [Folders -> [unread : Nat, total : Nat]]
      /\ counts'[f].unread = IF read THEN Listing!Minus(counts[f].unread, 1) ELSE counts[f].unread + 1
      /\ counts'[f].total = counts[f].total
      /\ \A g \in Folders \ {f} : counts'[g] = counts[g]
  <2>1. counts \in [Folders -> [unread : Nat, total : Nat]] /\ f \in Folders
    BY <1>t, <1>n DEF ListTyped
  <2>2. PICK u \in Nat : u = IF read THEN Listing!Minus(counts[f].unread, 1) ELSE counts[f].unread + 1
    BY <2>1 DEF Listing!Minus
  <2>3. counts' = [counts EXCEPT ![f].unread = u]
    BY <1>1, <2>2
  <2> QED
    BY <2>1, <2>2, <2>3
<1>5. Listing!Whence({m}) = {where[m]} \ {Listing!Gone}
  BY DEF Listing!Whence
<1>6. drifted' \subseteq Folders /\ flipped' \subseteq Mails /\ pickable' \subseteq Mails
  BY <1>1, <1>5, <1>t DEF ListTyped
<1>7. /\ unseen' = unseen \cup Listing!Left(op.ids)
      /\ \A x \in op.ids : x \in Listing!Pending(queue) => x \in flipped'
  BY <1>1, <1>2
<1>8. /\ ListTyped' /\ ActiveFresh' /\ \A g \in Folders : FetchRight(g)'
      /\ \A x \in Mails : OneMark(x)'
      /\ \A g \in Folders, x \in Mails : g # activeFolderId \/ x \notin op.ids => RowRight(g, x)'
  BY <1>1, <1>3, <1>4, <1>6, <1>7, OpQueued
<1>q. /\ queue' = Append(queue, op) /\ Len(queue) + 1 \in DOMAIN queue' /\ queue'[Len(queue) + 1] = op
      /\ \A i \in DOMAIN queue' : i \in DOMAIN queue \/ i = Len(queue) + 1
      /\ \A i \in DOMAIN queue : i \in DOMAIN queue' /\ queue'[i] = queue[i]
  BY <1>1, <1>2, <1>t, LongerBy DEF Listing!Queues
<1>9. RowRight(f, m)'
  <2>1. SUFFICES ASSUME Vouched(f, m)' PROVE Listed(f, m)'
    <3>1. m \in DOMAIN lists'[f]
      BY <1>1, <1>n, <1>t, <1>x DEF Listing!Writes, ListTyped
    <3> QED
      BY <3>1 DEF RowRight
  <2>2. lists'[f][m] = read
    BY <1>1, <1>n, <1>t, <1>x DEF Listing!Writes, ListTyped
  <2>3. /\ f \in have \ outdated' /\ fetch'[f].at = "idle" /\ <<f, m>> \notin dirty \cup unseen
        /\ m \notin flipped /\ m \notin Listing!Pending(queue)
    BY <2>1, <1>1 DEF Vouched
  <2>4. fetch[f].at = "idle"
    <3>1. fetch' = [g \in Folders |-> IF fetch[g].at = "idle" THEN fetch[g]
                                      ELSE [fetch[g] EXCEPT !.dirty = @ \cup op.ids]]
      BY <1>1 DEF Listing!Queues
    <3>2. fetch[f] \in [at : {"idle", "sent", "answered", "failed"}, got : Listing!Lists,
                        dirty : SUBSET Mails] /\ f \in Folders
      BY <1>n, <1>t DEF ListTyped
    <3> QED
      BY <3>1, <3>2, <2>3
  <2>5. Listing!Sure(f, m)
    <3>1. f \notin outdated
      BY <1>n, <1>t, <2>3, <2>4 DEF ActiveFresh
    <3> QED
      BY <3>1, <2>3, <2>4 DEF Listing!Sure
  <2>6. where[m] = f /\ seen[m] = lists[f][m] /\ \A i \in DOMAIN queue : m \notin queue[i].ids
    BY <1>1, <1>n, <2>5, SureRow
  <2>7. seen[m] <=> ~read
    BY <2>6, <1>1, <1>r
  <2>8. \A i \in DOMAIN queue' : m \in queue'[i].ids => queue'[i] = op
    BY <1>q, <2>6
  <2> QED
    BY <1>1, <1>2, <1>q, <1>t, <2>2, <2>6, <2>7, <2>8 DEF Listed, ListTyped
<1>10. ASSUME NEW g \in Folders, g # f PROVE CountRight(g)'
  <2>1. g \notin drifted' => op.source # g /\ \A x \in op.ids : where[x] # g
    <3>1. SUFFICES ASSUME g \notin drifted', where[m] = g PROVE FALSE
      BY <1>2, <1>10
    <3>2. where[m] # Listing!Gone
      BY <3>1 DEF ListLimits
    <3>3. Listing!Sure(f, m)
      BY <3>1, <3>2, <1>1, <1>5
    <3>4. where[m] = f
      BY <3>3, <1>1, <1>n, SureRow
    <3> QED
      BY <3>1, <3>4, <1>10
  <2>2. drifted \subseteq drifted' /\ counts'[g] = counts[g]
    BY <1>1, <1>4, <1>10
  <2> QED
    BY <1>1, <1>2, <1>q, <2>1, <2>2, OpElsewhere
<1>11. CountRight(f)'
  <2>1. SUFFICES ASSUME f \notin drifted' PROVE CountRight(f)'
    BY DEF CountRight
  <2>2. f \notin drifted /\ Listing!Sure(f, m)
    BY <1>1, <2>1
  <2>3. /\ where[m] = f /\ seen[m] = lists[f][m] /\ \A i \in DOMAIN queue : m \notin queue[i].ids
    BY <2>2, <1>1, <1>n, SureRow
  <2>4. seen[m] <=> ~read
    BY <1>1, <1>r, <2>3
  <2>5. /\ OpsCounted(f)' /\ m \in Staying(f) /\ (m \in StayingUnread(f) <=> ~seen[m])
        /\ Staying(f)' = Staying(f)
        /\ StayingUnread(f)' = IF ~read THEN StayingUnread(f) \cup {m} ELSE StayingUnread(f) \ {m}
    <3>1. queue' = Append(queue, op) /\ UNCHANGED <<where, seen, unheard>>
      BY <1>1, <1>q
    <3>2. (op.wasUnread <=> op.read) /\ (seen[m] <=> ~op.read)
      BY <1>2, <2>4
    <3>3. /\ OpsCounted(f)' /\ m \in Staying(f) /\ (m \in StayingUnread(f) <=> ~seen[m])
          /\ Staying(f)' = IF op.kind = "mark" THEN Staying(f) ELSE Staying(f) \ {m}
          /\ StayingUnread(f)' = IF op.kind = "mark" /\ ~op.read THEN StayingUnread(f) \cup {m}
                                 ELSE StayingUnread(f) \ {m}
      BY <1>2, <2>2, <2>3, <3>1, <3>2, OpHere
    <3> QED
      BY <3>3, <1>2
  <2>6. counts[f].unread = Cardinality(StayingUnread(f)) /\ counts[f].total = Cardinality(Staying(f))
    BY <2>2 DEF ListInv, CountRight
  <2>7. counts'[f].unread = Cardinality(StayingUnread(f)')
    <3>1. CASE read
      <4>1. m \in StayingUnread(f) /\ StayingUnread(f)' = StayingUnread(f) \ {m}
        BY <3>1, <2>4, <2>5
      <4>2. counts'[f].unread = Listing!Minus(counts[f].unread, 1)
        BY <3>1, <1>4
      <4> QED
        BY <4>1, <4>2, <2>6, FoldersFinite, OneLess
    <3>2. CASE ~read
      <4>1. m \notin StayingUnread(f) /\ StayingUnread(f)' = StayingUnread(f) \cup {m}
        BY <3>2, <2>4, <2>5
      <4>2. counts'[f].unread = counts[f].unread + 1
        BY <3>2, <1>4
      <4> QED
        BY <4>1, <4>2, <2>6, FoldersFinite, OneMore
    <3> QED
      BY <3>1, <3>2
  <2> QED
    BY <1>4, <2>5, <2>6, <2>7 DEF CountRight
<1>12. \A g \in Folders : CountRight(g)'
  BY <1>10, <1>11
<1>13. \A g \in Folders, x \in Mails : RowRight(g, x)'
  BY <1>2, <1>8, <1>9, <1>n
<1> QED
  BY <1>8, <1>12, <1>13 DEF ListInv

LEMMA ListBulk ==
  ASSUME ListLimits, ListInv, NEW kind \in {"mark", "delete"}, NEW read \in BOOLEAN,
         Listing!Bulk(kind, read)
  PROVE  ListInv'
<1> USE DEF Listing!server, Listing!page
<1>t. ListTyped /\ ActiveFresh /\ queue \in Seq(Listing!Ops) /\ activeFolderId \in Folders
  BY DEF ListInv, ListTyped
<1>n. PICK f \in Folders : f = activeFolderId
  BY <1>t
<1>r. DOMAIN lists[f] \subseteq Mails /\ lists[f] \in [DOMAIN lists[f] -> BOOLEAN]
  BY <1>n, <1>t, ListRows
<1>m. PICK marked, ids :
         /\ ids \subseteq pickable
         /\ marked = [m \in DOMAIN lists[f] |-> IF m \in ids THEN read ELSE lists[f][m]]
         /\ Listing!Queues([Listing!Op(kind, ids) EXCEPT !.read = read, !.bulk = TRUE])
         /\ Listing!Writes(f, IF kind = "mark" THEN marked ELSE Listing!Less(f, ids))
         /\ unseen' = unseen \cup Listing!Left(ids)
         /\ flipped' = flipped \cup {m \in ids : kind = "mark" /\ m \in Listing!Pending(queue)}
         /\ drifted' = drifted \cup {f} \cup Listing!Whence(ids)
  BY <1>n DEF Listing!Bulk
<1>o. PICK op : op = [Listing!Op(kind, ids) EXCEPT !.read = read, !.bulk = TRUE]
  OBVIOUS
<1>l. PICK l : l = IF kind = "mark" THEN marked ELSE Listing!Less(f, ids)
  OBVIOUS
<1>1. /\ Listing!Queues(op) /\ Listing!Writes(activeFolderId, l)
      /\ pickable' = IF f \in have THEN DOMAIN lists'[f] ELSE {}
      /\ UNCHANGED <<where, seen, activeFolderId, have, copies, kept, counts, fetched, dirty, unheard>>
  BY <1>n, <1>m, <1>o, <1>l DEF Listing!Bulk
<1>i. ids \subseteq Mails
  BY <1>m, <1>t DEF ListTyped
<1>2. op \in Listing!Ops /\ OpRight(op) /\ op.ids = ids /\ op.source = f /\ op.bulk
      /\ op.kind = kind /\ op.read = read
  <2>1. PICK o : o = Listing!Op(kind, ids)
    OBVIOUS
  <2>2. op = [o EXCEPT !.read = read, !.bulk = TRUE]
    BY <2>1, <1>o
  <2>3. op = [kind |-> kind, ids |-> ids, to |-> f, read |-> read, source |-> f,
              wasUnread |-> FALSE, bulk |-> TRUE]
    BY <2>1, <2>2, <1>n DEF Listing!Op
  <2>4. ids \in SUBSET Mails /\ read \in BOOLEAN /\ f \in Folders
    BY <1>n, <1>i
  <2> QED
    BY <2>3, <2>4, <1>n DEF Listing!Ops, OpRight
<1>x. /\ l \in Listing!Lists
      /\ DOMAIN l = IF kind = "mark" THEN DOMAIN lists[f] ELSE DOMAIN lists[f] \ ids
      /\ \A x \in DOMAIN l : l[x] = IF x \in ids THEN read ELSE lists[f][x]
  <2>1. CASE kind = "mark"
    <3>1. l \in [DOMAIN lists[f] -> BOOLEAN]
          /\ \A x \in DOMAIN lists[f] : l[x] = IF x \in ids THEN read ELSE lists[f][x]
      BY <2>1, <1>l, <1>m, <1>r
    <3> QED
      BY <2>1, <3>1, <1>r, ListsAre
  <2>2. CASE kind = "delete"
    <3>1. \A S : /\ Listing!Less(f, S) \in Listing!Lists
                 /\ DOMAIN Listing!Less(f, S) = DOMAIN lists[f] \ S
                 /\ \A x \in DOMAIN lists[f] \ S : Listing!Less(f, S)[x] = lists[f][x]
      BY <1>t, <1>n, LessIs
    <3>2. l = Listing!Less(f, ids)
      BY <2>2, <1>l
    <3> QED
      BY <2>2, <3>1, <3>2
  <2> QED
    BY <2>1, <2>2
<1>3. OpMade(op, l)
  BY <1>2, <1>x, <1>n, <1>t DEF OpMade, ActiveFresh
<1>w. lists'[f] = l
  BY <1>1, <1>n, <1>t DEF Listing!Writes, ListTyped
<1>5. Listing!Whence(ids) = {where[m] : m \in ids} \ {Listing!Gone}
  BY DEF Listing!Whence
<1>6. drifted' \subseteq Folders /\ flipped' \subseteq Mails /\ pickable' \subseteq Mails
      /\ flipped \subseteq flipped' /\ counts' \in [Folders -> [unread : Nat, total : Nat]]
  <2>1. DOMAIN l \subseteq Mails
    BY <1>x, ListParts
  <2>2. {where[m] : m \in ids} \ {Listing!Gone} \subseteq Folders
    BY <1>i, <1>t DEF ListTyped
  <2> QED
    BY <1>1, <1>m, <1>i, <1>5, <1>w, <1>t, <2>1, <2>2 DEF ListTyped
<1>7. /\ unseen' = unseen \cup Listing!Left(op.ids)
      /\ op.kind = "mark" => \A x \in op.ids : x \in Listing!Pending(queue) => x \in flipped'
  BY <1>m, <1>2
<1>8. /\ ListTyped' /\ ActiveFresh' /\ \A g \in Folders : FetchRight(g)'
      /\ \A x \in Mails : OneMark(x)'
      /\ \A g \in Folders, x \in Mails : g # activeFolderId \/ x \notin op.ids => RowRight(g, x)'
  BY <1>1, <1>3, <1>6, <1>7, OpQueued
<1>q. /\ queue' = Append(queue, op) /\ Len(queue) + 1 \in DOMAIN queue' /\ queue'[Len(queue) + 1] = op
      /\ \A i \in DOMAIN queue' : i \in DOMAIN queue \/ i = Len(queue) + 1
      /\ \A i \in DOMAIN queue : i \in DOMAIN queue' /\ queue'[i] = queue[i]
  BY <1>1, <1>2, <1>t, LongerBy DEF Listing!Queues
<1>9. ASSUME NEW m \in ids PROVE RowRight(f, m)'
  <2>1. SUFFICES ASSUME Vouched(f, m)'
                 PROVE  IF m \in DOMAIN l THEN Listed(f, m)' ELSE Unlisted(f, m)'
    BY <1>w DEF RowRight
  <2>2. CASE kind = "delete"
    <3>1. m \notin DOMAIN l
      BY <2>2, <1>x
    <3>2. Unlisted(f, m)'
      BY <2>2, <1>q, <1>2 DEF Unlisted
    <3> QED
      BY <3>1, <3>2
  <2>3. CASE kind = "mark"
    <3>1. /\ f \in have \ outdated' /\ fetch'[f].at = "idle" /\ <<f, m>> \notin dirty \cup unseen
          /\ m \notin flipped /\ m \notin Listing!Pending(queue)
      BY <2>1, <2>3, <1>1, <1>m DEF Vouched
    <3>2. fetch[f].at = "idle"
      <4>1. fetch' = [g \in Folders |-> IF fetch[g].at = "idle" THEN fetch[g]
                                        ELSE [fetch[g] EXCEPT !.dirty = @ \cup op.ids]]
        BY <1>1 DEF Listing!Queues
      <4>2. fetch[f] \in [at : {"idle", "sent", "answered", "failed"}, got : Listing!Lists,
                          dirty : SUBSET Mails] /\ f \in Folders
        BY <1>n, <1>t DEF ListTyped
      <4> QED
        BY <4>1, <4>2, <3>1
    <3>3. f \notin outdated
      BY <1>n, <1>t, <3>1, <3>2 DEF ActiveFresh
    <3>4. Vouched(f, m) /\ m \in Mails /\ \A i \in DOMAIN queue : m \notin queue[i].ids
      BY <1>i, <1>t, <3>1, <3>2, <3>3, PendingIs DEF Vouched
    <3>5. RowRight(f, m)
      BY <1>n, <3>4 DEF ListInv
    <3>6. \A i \in DOMAIN queue' : m \in queue'[i].ids => queue'[i] = op
      BY <1>q, <3>4
    <3>7. CASE m \in DOMAIN l
      <4>1. where[m] = f
        BY <2>3, <3>4, <3>5, <3>7, <1>x DEF RowRight, Listed
      <4>2. lists'[f][m] = read
        BY <3>7, <1>w, <1>x
      <4>3. Listed(f, m)'
        BY <1>1, <1>2, <1>q, <2>3, <3>6, <4>1, <4>2 DEF Listed
      <4> QED
        BY <3>7, <4>3
    <3>8. CASE m \notin DOMAIN l
      <4>1. where[m] # f
        BY <2>3, <3>4, <3>5, <3>8, <1>x DEF RowRight, Unlisted
      <4> QED
        BY <3>8, <4>1, <1>1 DEF Unlisted
    <3> QED
      BY <3>7, <3>8
  <2> QED
    BY <2>2, <2>3
<1>10. ASSUME NEW g \in Folders PROVE CountRight(g)'
  <2>1. g \notin drifted' => op.source # g /\ \A x \in op.ids : where[x] # g
    <3>1. SUFFICES ASSUME g \notin drifted', NEW x \in ids, where[x] = g PROVE FALSE
      BY <1>2, <1>m
    <3>2. where[x] # Listing!Gone
      BY <3>1 DEF ListLimits
    <3> QED
      BY <3>1, <3>2, <1>m, <1>5
  <2>2. drifted \subseteq drifted' /\ counts'[g] = counts[g]
    BY <1>1, <1>m
  <2> QED
    BY <1>1, <1>2, <1>q, <2>1, <2>2, OpElsewhere
<1>11. \A g \in Folders, x \in Mails : RowRight(g, x)'
  BY <1>2, <1>8, <1>9, <1>n
<1> QED
  BY <1>8, <1>10, <1>11 DEF ListInv
-----------------------------------------------------------------------------
(* The first op runs, or is given up.                                      *)

\* What the first op leaves of the queue.
LEMMA OpLeaves ==
  ASSUME ListInv, queue # << >>, queue' = Tail(queue)
  PROVE  /\ Head(queue) = queue[1] /\ 1 \in DOMAIN queue /\ queue[1] \in Listing!Ops
         /\ OpRight(queue[1]) /\ queue' \in Seq(Listing!Ops)
         /\ \A i \in DOMAIN queue' : i + 1 \in DOMAIN queue /\ queue'[i] = queue[i + 1] /\ i + 1 # 1
                                     /\ i \in Nat /\ 1 < i + 1
         /\ \A i \in DOMAIN queue : i # 1 => i - 1 \in DOMAIN queue' /\ queue'[i - 1] = queue[i]
         /\ \A i \in DOMAIN queue' : OpRight(queue'[i])
         /\ \A i, j \in DOMAIN queue' : i < j => i + 1 < j + 1
         /\ \A i, j \in DOMAIN queue' : i + 1 = j + 1 => i = j
<1>1. queue \in Seq(Listing!Ops) /\ \A i \in DOMAIN queue : OpRight(queue[i])
  BY DEF ListInv, ListTyped
<1>2. /\ Tail(queue) \in Seq(Listing!Ops) /\ Head(queue) = queue[1] /\ 1 \in DOMAIN queue
      /\ queue[1] \in Listing!Ops /\ Len(queue) \in Nat /\ DOMAIN queue = 1 .. Len(queue)
      /\ DOMAIN Tail(queue) = 1 .. Len(queue) - 1
      /\ \A i \in DOMAIN Tail(queue) :
            i + 1 \in DOMAIN queue /\ Tail(queue)[i] = queue[i + 1] /\ i + 1 # 1
      /\ \A i \in DOMAIN queue :
            i # 1 => i - 1 \in DOMAIN Tail(queue) /\ Tail(queue)[i - 1] = queue[i]
  BY <1>1, ShorterBy
<1>3. \A i \in DOMAIN queue' : i \in Nat /\ 1 <= i
  BY <1>2
<1>4. \A i, j \in DOMAIN queue' : (i < j => i + 1 < j + 1) /\ (i + 1 = j + 1 => i = j)
  BY <1>3
<1>5. \A i \in DOMAIN queue' : OpRight(queue'[i])
  BY <1>1, <1>2
<1>6. \A i \in DOMAIN queue' : 1 < i + 1
  BY <1>3
<1> QED
  BY <1>1, <1>2, <1>3, <1>4, <1>5, <1>6

LEMMA OpsLeft ==
  ASSUME ListInv, queue # << >>, queue' = Tail(queue), flipped' = flipped
  PROVE  \A m \in Mails : OneMark(m)'
<1>1. ASSUME NEW m \in Mails, m \notin flipped, NEW i \in DOMAIN queue', NEW j \in DOMAIN queue',
             i < j, m \in queue'[i].ids, m \in queue'[j].ids
      PROVE  queue'[j].kind # "mark"
  <2>1. /\ i + 1 \in DOMAIN queue /\ queue'[i] = queue[i + 1]
        /\ j + 1 \in DOMAIN queue /\ queue'[j] = queue[j + 1] /\ i + 1 < j + 1
    BY <1>1, OpLeaves
  <2> QED
    BY <1>1, <2>1 DEF ListInv, OneMark
<1> QED
  BY <1>1 DEF OneMark

\* A row that the first op is not about stays right when that op is gone.
LEMMA RowKept ==
  ASSUME ListInv, queue # << >>, queue' = Tail(queue), NEW f \in Folders, NEW m \in Mails,
         m \notin queue[1].ids, Vouched(f, m), where'[m] = where[m], seen'[m] = seen[m], unheard' = {},
         m \in DOMAIN lists'[f] <=> m \in DOMAIN lists[f],
         m \in DOMAIN lists[f] => lists'[f][m] = lists[f][m]
  PROVE  RowRight(f, m)'
<1>q. /\ \A i \in DOMAIN queue' : i + 1 \in DOMAIN queue /\ queue'[i] = queue[i + 1]
      /\ \A i \in DOMAIN queue : i # 1 => i - 1 \in DOMAIN queue' /\ queue'[i - 1] = queue[i]
  BY OpLeaves
<1>1. CASE m \in DOMAIN lists[f]
  <2>1. Listed(f, m)
    BY <1>1 DEF ListInv, RowRight
  <2>2. \A i \in DOMAIN queue' : m \in queue'[i].ids =>
           /\ queue'[i].kind = "mark" /\ queue'[i].source = f /\ lists'[f][m] = queue'[i].read
           /\ ~queue'[i].bulk => seen'[m] = ~queue'[i].read
    <3>1. m \notin unheard
      BY DEF ListInv, ListTyped, OfFirst
    <3> QED
      BY <1>q, <1>1, <2>1, <3>1 DEF Listed
  <2>3. (\A i \in DOMAIN queue' : m \notin queue'[i].ids) => lists'[f][m] = seen'[m]
    <3>1. SUFFICES ASSUME \A i \in DOMAIN queue' : m \notin queue'[i].ids
                   PROVE  lists'[f][m] = seen'[m]
      OBVIOUS
    <3>2. \A i \in DOMAIN queue : m \notin queue[i].ids
      BY <1>q, <3>1
    <3> QED
      BY <1>1, <2>1, <3>2 DEF Listed
  <2>4. Listed(f, m)'
    BY <2>1, <2>2, <2>3 DEF Listed
  <2> QED
    BY <1>1, <2>4 DEF RowRight
<1>2. CASE m \notin DOMAIN lists[f]
  <2>1. Unlisted(f, m)
    BY <1>2 DEF ListInv, RowRight
  <2>2. Unlisted(f, m)'
    BY <1>q, <2>1 DEF Unlisted
  <2> QED
    BY <1>2, <2>2 DEF RowRight
<1> QED
  BY <1>1, <1>2

\* The marks of a row that is vouched for: the first op is the only one.
LEMMA RowMarked ==
  ASSUME ListInv, queue # << >>, queue' = Tail(queue), NEW f \in Folders, NEW m \in Mails,
         m \in queue[1].ids, Vouched(f, m), m \in DOMAIN lists[f]
  PROVE  /\ where[m] = f /\ queue[1].kind = "mark" /\ queue[1].source = f
         /\ lists[f][m] = queue[1].read /\ (~queue[1].bulk /\ m \notin unheard => seen[m] = ~queue[1].read)
         /\ \A i \in DOMAIN queue' : m \notin queue'[i].ids
<1>q. /\ \A i \in DOMAIN queue' : i + 1 \in DOMAIN queue /\ queue'[i] = queue[i + 1] /\ 1 < i + 1
      /\ 1 \in DOMAIN queue
  BY OpLeaves
<1>1. Listed(f, m) /\ OneMark(m) /\ m \notin flipped
  BY DEF ListInv, RowRight, Vouched
<1>2. ASSUME NEW i \in DOMAIN queue', m \in queue'[i].ids PROVE FALSE
  <2>1. m \in queue[i + 1].ids /\ i + 1 \in DOMAIN queue /\ 1 < i + 1
    BY <1>q, <1>2
  <2>2. queue[i + 1].kind # "mark"
    BY <1>1, <1>q, <2>1 DEF OneMark
  <2> QED
    BY <1>1, <2>1, <2>2 DEF Listed
<1> QED
  BY <1>1, <1>2, <1>q DEF Listed

\* With the first op gone the others are counted as they were.
LEMMA OpsCountedStill ==
  ASSUME ListInv, queue # << >>, queue' = Tail(queue), unheard' = {}, NEW f \in Folders, OpsCounted(f),
         \A m \in Mails \ queue[1].ids : where'[m] = where[m] /\ seen'[m] = seen[m],
         \A m \in queue[1].ids : where'[m] = f => where[m] = f
  PROVE  OpsCounted(f)'
<1>q. /\ \A i \in DOMAIN queue' : i + 1 \in DOMAIN queue /\ queue'[i] = queue[i + 1] /\ i + 1 # 1
      /\ 1 \in DOMAIN queue /\ \A i, j \in DOMAIN queue' : i + 1 = j + 1 => i = j
  BY OpLeaves
<1>1. SUFFICES ASSUME NEW i \in DOMAIN queue', NEW m \in queue'[i].ids,
                      queue'[i].source = f \/ where'[m] = f
               PROVE  /\ ~queue'[i].bulk /\ queue'[i].source = f /\ where'[m] = f
                      /\ \A j \in DOMAIN queue' : m \in queue'[j].ids => j = i
                      /\ queue'[i].kind = "mark" =>
                            (queue'[i].wasUnread <=> queue'[i].read) /\ (seen'[m] <=> ~queue'[i].read)
                      /\ queue'[i].kind # "mark" => (queue'[i].wasUnread <=> ~seen'[m])
  BY DEF OpsCounted
<1>2. i + 1 \in DOMAIN queue /\ queue'[i] = queue[i + 1] /\ m \in queue[i + 1].ids /\ m \in Mails
  <2>1. i + 1 \in DOMAIN queue /\ queue'[i] = queue[i + 1] /\ m \in queue[i + 1].ids
    BY <1>q, <1>1
  <2>2. queue \in Seq(Listing!Ops)
    BY DEF ListInv, ListTyped
  <2>3. queue[i + 1] \in Listing!Ops
    BY <2>1, <2>2
  <2> QED
    BY <2>1, <2>3 DEF Listing!Ops
<1>3. queue[i + 1].source = f \/ where[m] = f
  BY <1>1, <1>2
<1>4. /\ ~queue[i + 1].bulk /\ queue[i + 1].source = f
      /\ where[m] = f /\ \A j \in DOMAIN queue : m \in queue[j].ids => j = i + 1
      /\ queue[i + 1].kind = "mark" =>
            (queue[i + 1].wasUnread <=> queue[i + 1].read)
            /\ (m \notin unheard => (seen[m] <=> ~queue[i + 1].read))
      /\ queue[i + 1].kind # "mark" => (queue[i + 1].wasUnread <=> ~seen[m])
  BY <1>2, <1>3, <1>q DEF OpsCounted, Ahead
<1>5. m \notin queue[1].ids /\ m \notin unheard
  BY <1>1, <1>4, <1>q DEF ListInv, ListTyped, OfFirst
<1>6. \A j \in DOMAIN queue' : m \in queue'[j].ids => j = i
  BY <1>q, <1>4, <1>1
<1> QED
  BY <1>2, <1>4, <1>5, <1>6

\* Of the messages the first op is not about, as many stay, and stay unread.
LEMMA StayingStill ==
  ASSUME ListInv, queue # << >>, queue' = Tail(queue), NEW f, NEW m \in Mails, m \notin queue[1].ids,
         where'[m] = where[m], seen'[m] = seen[m]
  PROVE  /\ m \in Staying(f)' <=> m \in Staying(f)
         /\ m \in StayingUnread(f)' <=> m \in StayingUnread(f)
<1>q. /\ \A i \in DOMAIN queue' : i + 1 \in DOMAIN queue /\ queue'[i] = queue[i + 1]
      /\ \A i \in DOMAIN queue : i # 1 => i - 1 \in DOMAIN queue' /\ queue'[i - 1] = queue[i]
  BY OpLeaves
<1>1. (\A i \in DOMAIN queue' : m \in queue'[i].ids => queue'[i].kind = "mark")
         <=> \A i \in DOMAIN queue : m \in queue[i].ids => queue[i].kind = "mark"
  BY <1>q
<1>2. (\A i \in DOMAIN queue' : m \in queue'[i].ids => ~queue'[i].read)
         <=> \A i \in DOMAIN queue : m \in queue[i].ids => ~queue[i].read
  BY <1>q
<1>3. (\A i \in DOMAIN queue' : m \notin queue'[i].ids)
         <=> \A i \in DOMAIN queue : m \notin queue[i].ids
  BY <1>q
<1> QED
  BY <1>1, <1>2, <1>3 DEF Staying, StayingUnread

\* The first op, if it is on a message of f, of which it is the only one.
LEMMA StayingFirst ==
  ASSUME ListInv, queue # << >>, queue' = Tail(queue), NEW f \in Folders, OpsCounted(f),
         NEW m \in queue[1].ids, where[m] = f \/ (queue[1].source = f /\ m \notin unheard)
            \/ (queue[1].source = f /\ queue[1].kind = "mark")
  PROVE  /\ where[m] = f /\ queue[1].source = f /\ ~queue[1].bulk /\ queue[1].ids = {m} /\ m \in Mails
         /\ \A i \in DOMAIN queue' : m \notin queue'[i].ids
         /\ queue[1].kind = "mark" =>
               (queue[1].wasUnread <=> queue[1].read) /\ (m \notin unheard => (seen[m] <=> ~queue[1].read))
         /\ queue[1].kind # "mark" => (queue[1].wasUnread <=> ~seen[m])
         /\ m \in Staying(f) <=> queue[1].kind = "mark"
         /\ m \in StayingUnread(f) <=> queue[1].kind = "mark" /\ ~queue[1].read
         /\ m \in Staying(f)' <=> where'[m] = f
         /\ m \in StayingUnread(f)' <=> where'[m] = f /\ ~seen'[m]
<1>q. /\ \A i \in DOMAIN queue' : i + 1 \in DOMAIN queue /\ queue'[i] = queue[i + 1] /\ i + 1 # 1
      /\ 1 \in DOMAIN queue /\ OpRight(queue[1])
  BY OpLeaves
<1>1. /\ where[m] = f /\ queue[1].source = f /\ ~queue[1].bulk
      /\ \A j \in DOMAIN queue : m \in queue[j].ids => j = 1
      /\ queue[1].kind = "mark" =>
            (queue[1].wasUnread <=> queue[1].read) /\ (m \notin unheard => (seen[m] <=> ~queue[1].read))
      /\ queue[1].kind # "mark" => (queue[1].wasUnread <=> ~seen[m])
  BY <1>q DEF OpsCounted, Ahead
<1>2. queue[1].ids = {m} /\ m \in Mails
  BY <1>1, <1>q DEF OpRight
<1>3. \A i \in DOMAIN queue' : m \notin queue'[i].ids
  BY <1>q, <1>1
<1>4. /\ m \in Staying(f) <=> queue[1].kind = "mark"
      /\ m \in StayingUnread(f) <=> queue[1].kind = "mark" /\ ~queue[1].read
  BY <1>1, <1>2, <1>q DEF Staying, StayingUnread
<1>5. /\ m \in Staying(f)' <=> where'[m] = f
      /\ m \in StayingUnread(f)' <=> where'[m] = f /\ ~seen'[m]
  BY <1>2, <1>3 DEF Staying, StayingUnread
<1> QED
  BY <1>1, <1>2, <1>3, <1>4, <1>5

LEMMA ListRuns == ASSUME ListLimits, ListInv, Listing!Runs PROVE ListInv'
<1> USE DEF Listing!server, Listing!page, Listing!cache
<1>t. ListTyped /\ ActiveFresh
  BY DEF ListInv
<1>o. PICK op : op = queue[1]
  OBVIOUS
<1>0. queue # << >> /\ queue' = Tail(queue)
  BY DEF Listing!Runs
<1>q. /\ Head(queue) = op /\ 1 \in DOMAIN queue /\ op \in Listing!Ops /\ OpRight(op)
      /\ queue' \in Seq(Listing!Ops) /\ \A i \in DOMAIN queue' : OpRight(queue'[i])
      /\ \A i \in DOMAIN queue' : i + 1 \in DOMAIN queue /\ queue'[i] = queue[i + 1]
      /\ \A i \in DOMAIN queue : i # 1 => i - 1 \in DOMAIN queue' /\ queue'[i - 1] = queue[i]
  BY <1>0, <1>o, OpLeaves
<1>d. PICK done : /\ done \subseteq Listing!There(op) /\ (op.bulk \/ done = op.ids)
                  /\ Listing!Applied(op, done)
                  /\ unseen' = unseen \cup ({op.source} \X (op.ids \ done))
                                      \cup (IF op.kind = "move" THEN {op.to} \X done ELSE {})
  BY <1>q DEF Listing!Runs, Listing!CanBe, Listing!Brought
<1>1. /\ drifted' = drifted \cup IF op.kind = "move" THEN {op.to} ELSE {}
      /\ unheard' = {}
      /\ UNCHANGED <<activeFolderId, pickable, lists, have, outdated, copies, kept, fetch, counts,
                     queued, fetched, dirty, flipped>>
  BY <1>q DEF Listing!Runs, Listing!BroughtTo
<1>i. /\ op.ids \subseteq Mails /\ op.to \in Folders /\ op.source \in Folders /\ op.read \in BOOLEAN
      /\ done \subseteq op.ids /\ op.kind \in {"move", "delete", "mark"}
      /\ op.kind = "move" => op.to # op.source
  BY <1>q, <1>d DEF Listing!Ops, Listing!There, OpRight
<1>2. /\ where' \in [Mails -> Folders \cup {Listing!Gone}] /\ seen' \in [Mails -> BOOLEAN]
      /\ \A m \in Mails \ done : where'[m] = where[m] /\ seen'[m] = seen[m]
      /\ \A m \in done : /\ op.kind = "mark" => where'[m] = where[m] /\ seen'[m] = op.read
                         /\ op.kind = "move" => where'[m] = op.to
                         /\ op.kind = "delete" => where'[m] = Listing!Gone
  BY <1>d, <1>i, <1>t DEF Listing!Applied, ListTyped
<1>3. ListTyped'
  <2>1. drifted' \subseteq Folders
    BY <1>1, <1>i, <1>t DEF ListTyped
  <2>2. unseen' \subseteq Folders \X Mails
    BY <1>d, <1>i, <1>t DEF ListTyped
  <2> QED
    BY <1>1, <1>2, <1>q, <1>t, <2>1, <2>2 DEF ListTyped, OpRight, OfFirst
<1>4. ActiveFresh'
  BY <1>1, <1>t DEF ActiveFresh
<1>5. ASSUME NEW f \in Folders PROVE FetchRight(f)'
  <2>1. SUFFICES ASSUME fetch[f].at # "idle" PROVE FetchRight(f)'
    BY <1>1 DEF FetchRight
  <2>2. /\ \A i \in DOMAIN queue : queue[i].ids \subseteq fetch[f].dirty
        /\ fetch[f].at = "answered" => \A m \in Mails \ fetch[f].dirty :
              /\ m \in DOMAIN fetch[f].got <=> where[m] = f
              /\ m \in DOMAIN fetch[f].got => fetch[f].got[m] = seen[m]
    BY <2>1 DEF ListInv, FetchRight
  <2>3. \A m \in Mails \ fetch[f].dirty : where'[m] = where[m] /\ seen'[m] = seen[m]
    BY <2>2, <1>2, <1>i, <1>q, <1>o
  <2>4. \A i \in DOMAIN queue' : queue'[i].ids \subseteq fetch[f].dirty
    BY <2>2, <1>q
  <2> QED
    BY <1>1, <2>2, <2>3, <2>4 DEF FetchRight
<1>6. ASSUME NEW f \in Folders, NEW m \in Mails PROVE RowRight(f, m)'
  <2>1. SUFFICES ASSUME Vouched(f, m)' PROVE RowRight(f, m)'
    BY DEF RowRight
  <2>2. Vouched(f, m) /\ <<f, m>> \notin unseen'
    BY <2>1, <1>1, <1>d DEF Vouched
  <2>3. CASE m \notin op.ids
    <3>1. where'[m] = where[m] /\ seen'[m] = seen[m]
      BY <2>3, <1>2, <1>i
    <3> QED
      BY <1>0, <1>1, <1>o, <2>2, <2>3, <3>1, RowKept
  <2>4. CASE m \in op.ids /\ m \in DOMAIN lists[f]
    <3>1. /\ where[m] = f /\ op.kind = "mark" /\ op.source = f /\ lists[f][m] = op.read
          /\ \A i \in DOMAIN queue' : m \notin queue'[i].ids
      BY <1>0, <1>o, <2>2, <2>4, RowMarked
    <3>2. m \in done
      BY <1>d, <2>2, <2>4, <3>1
    <3>3. where'[m] = f /\ seen'[m] = op.read
      BY <1>2, <3>1, <3>2
    <3>4. Listed(f, m)'
      BY <1>1, <3>1, <3>3 DEF Listed
    <3> QED
      BY <1>1, <2>4, <3>4 DEF RowRight
  <2>5. CASE m \in op.ids /\ m \notin DOMAIN lists[f]
    <3>1. SUFFICES ASSUME where'[m] = f
                   PROVE  \E i \in DOMAIN queue' : m \in queue'[i].ids /\ queue'[i].kind # "mark"
                                                   /\ queue'[i].source = f
      BY <1>1, <2>5 DEF RowRight, Unlisted
    <3>2. where[m] = f /\ (op.kind = "mark" \/ op.source # f)
      <4>1. CASE m \in done
        <5>1. op.kind # "delete"
          BY <1>2, <3>1, <4>1 DEF ListLimits
        <5>2. op.kind # "move"
          BY <1>2, <1>d, <2>2, <3>1, <4>1
        <5> QED
          BY <1>2, <1>i, <3>1, <4>1, <5>1, <5>2
      <4>2. CASE m \notin done
        BY <1>2, <1>d, <2>2, <2>5, <3>1, <4>2
      <4> QED
        BY <4>1, <4>2
    <3>3. PICK i \in DOMAIN queue : m \in queue[i].ids /\ queue[i].kind # "mark" /\ queue[i].source = f
      BY <2>2, <2>5, <3>2 DEF ListInv, RowRight, Unlisted
    <3>4. i # 1
      BY <1>o, <3>2, <3>3
    <3> QED
      BY <1>q, <3>3, <3>4
  <2> QED
    BY <2>3, <2>4, <2>5
<1>7. ASSUME NEW f \in Folders PROVE CountRight(f)'
  <2>1. SUFFICES ASSUME f \notin drifted' PROVE CountRight(f)'
    BY DEF CountRight
  <2>2. f \notin drifted /\ (op.kind = "move" => op.to # f) /\ f # Listing!Gone
    BY <2>1, <1>1 DEF ListLimits
  <2>3. /\ OpsCounted(f) /\ counts[f].unread = Cardinality(StayingUnread(f))
        /\ counts[f].total = Cardinality(Staying(f))
    BY <2>2 DEF ListInv, CountRight
  <2>4. \A m \in op.ids : where'[m] = f => where[m] = f
    BY <1>2, <1>i, <2>2
  <2>5. OpsCounted(f)'
    BY <1>0, <1>1, <1>2, <1>i, <1>o, <2>3, <2>4, OpsCountedStill
  <2>6. ASSUME NEW m \in Mails
        PROVE  /\ m \in Staying(f)' <=> m \in Staying(f)
               /\ m \in StayingUnread(f)' <=> m \in StayingUnread(f)
    <3>1. CASE m \notin op.ids
      BY <1>0, <1>2, <1>i, <1>o, <3>1, StayingStill
    <3>2. CASE m \in op.ids /\ where[m] = f
      <4>1. /\ op.source = f /\ ~op.bulk
            /\ m \in Staying(f) <=> op.kind = "mark"
            /\ m \in StayingUnread(f) <=> op.kind = "mark" /\ ~op.read
            /\ m \in Staying(f)' <=> where'[m] = f
            /\ m \in StayingUnread(f)' <=> where'[m] = f /\ ~seen'[m]
        BY <1>0, <1>o, <2>3, <3>2, StayingFirst
      <4>2. m \in done
        BY <1>d, <3>2, <4>1
      <4>3. where'[m] = f <=> op.kind = "mark"
        BY <1>2, <1>i, <2>2, <3>2, <4>2
      <4>4. op.kind = "mark" => (seen'[m] <=> op.read)
        BY <1>2, <4>2
      <4> QED
        BY <4>1, <4>3, <4>4
    <3>3. CASE m \in op.ids /\ where[m] # f
      <4>1. where'[m] # f
        BY <3>3, <2>4
      <4> QED
        BY <3>3, <4>1 DEF Staying, StayingUnread
    <3> QED
      BY <3>1, <3>2, <3>3
  <2>7. /\ Staying(f) \subseteq Mails /\ Staying(f)' \subseteq Mails
        /\ StayingUnread(f) \subseteq Mails /\ StayingUnread(f)' \subseteq Mails
    BY DEF Staying, StayingUnread
  <2>8. Staying(f)' = Staying(f) /\ StayingUnread(f)' = StayingUnread(f)
    BY <2>6, <2>7
  <2> QED
    BY <1>1, <2>3, <2>5, <2>8 DEF CountRight
<1>8. \A m \in Mails : OneMark(m)'
  BY <1>0, <1>1, OpsLeft
<1> QED
  BY <1>3, <1>4, <1>5, <1>6, <1>7, <1>8 DEF ListInv

\* The op stays first: a message it has changed is one it is about.
LEMMA ListRunsUnheard == ASSUME ListLimits, ListInv, Listing!RunsUnheard PROVE ListInv'
<1> USE DEF Listing!server, Listing!page, Listing!cache
<1>t. ListTyped /\ ActiveFresh
  BY DEF ListInv
<1>o. PICK op : op = queue[1]
  OBVIOUS
<1>0. queue # << >> /\ queue \in Seq(Listing!Ops)
  BY <1>t DEF Listing!RunsUnheard, ListTyped
<1>q. Head(queue) = op /\ 1 \in DOMAIN queue /\ op \in Listing!Ops /\ OpRight(op)
  BY <1>0, <1>o, <1>t, ShorterBy DEF ListTyped
<1>d. PICK done : /\ done \subseteq Listing!There(op) /\ (op.bulk \/ done = op.ids)
                  /\ Listing!Applied(op, done) /\ unheard' = unheard \cup done
                  /\ unseen' = unseen \cup (IF op.kind = "move" THEN {op.to} \X done ELSE {})
  BY <1>q DEF Listing!RunsUnheard, Listing!CanBe, Listing!Brought
<1>1. /\ drifted' = drifted \cup IF op.kind = "move" THEN {op.to} ELSE {}
      /\ UNCHANGED <<activeFolderId, pickable, lists, have, outdated, copies, kept, fetch, counts,
                     queue, queued, fetched, dirty, flipped>>
  BY <1>q DEF Listing!RunsUnheard, Listing!BroughtTo
<1>i. /\ op.ids \subseteq Mails /\ op.to \in Folders /\ op.source \in Folders /\ op.read \in BOOLEAN
      /\ done \subseteq op.ids /\ op.kind \in {"move", "delete", "mark"}
      /\ op.kind = "move" => op.to # op.source
  BY <1>q, <1>d DEF Listing!Ops, Listing!There, OpRight
<1>2. /\ where' \in [Mails -> Folders \cup {Listing!Gone}] /\ seen' \in [Mails -> BOOLEAN]
      /\ \A m \in Mails \ done : where'[m] = where[m] /\ seen'[m] = seen[m]
      /\ \A m \in done : /\ op.kind = "mark" => where'[m] = where[m] /\ seen'[m] = op.read
                         /\ op.kind = "move" => where'[m] = op.to /\ seen'[m] = seen[m]
                         /\ op.kind = "delete" => where'[m] = Listing!Gone /\ seen'[m] = seen[m]
  BY <1>d, <1>i, <1>t DEF Listing!Applied, ListTyped
<1>3. ListTyped'
  <2>1. drifted' \subseteq Folders
    BY <1>1, <1>i, <1>t DEF ListTyped
  <2>2. unseen' \subseteq Folders \X Mails
    BY <1>d, <1>i, <1>t DEF ListTyped
  <2>3. unheard' \subseteq Mails /\ OfFirst'
    BY <1>1, <1>d, <1>i, <1>o, <1>q, <1>t DEF ListTyped, OfFirst
  <2> QED
    BY <1>1, <1>2, <1>t, <2>1, <2>2, <2>3 DEF ListTyped, OpRight
<1>4. ActiveFresh'
  BY <1>1, <1>t DEF ActiveFresh
<1>5. ASSUME NEW f \in Folders PROVE FetchRight(f)'
  <2>1. SUFFICES ASSUME fetch[f].at # "idle" PROVE FetchRight(f)'
    BY <1>1 DEF FetchRight
  <2>2. /\ \A i \in DOMAIN queue : queue[i].ids \subseteq fetch[f].dirty
        /\ fetch[f].at = "answered" => \A m \in Mails \ fetch[f].dirty :
              /\ m \in DOMAIN fetch[f].got <=> where[m] = f
              /\ m \in DOMAIN fetch[f].got => fetch[f].got[m] = seen[m]
    BY <2>1 DEF ListInv, FetchRight
  <2>3. \A m \in Mails \ fetch[f].dirty : where'[m] = where[m] /\ seen'[m] = seen[m]
    BY <2>2, <1>2, <1>i, <1>q, <1>o
  <2> QED
    BY <1>1, <2>2, <2>3 DEF FetchRight
<1>6. ASSUME NEW f \in Folders, NEW m \in Mails PROVE RowRight(f, m)'
  <2>1. SUFFICES ASSUME Vouched(f, m)' PROVE RowRight(f, m)'
    BY DEF RowRight
  <2>2. Vouched(f, m) /\ <<f, m>> \notin unseen'
    BY <2>1, <1>1, <1>d DEF Vouched
  <2>3. CASE m \notin done
    <3>1. where'[m] = where[m] /\ seen'[m] = seen[m] /\ (m \in unheard' <=> m \in unheard)
      BY <2>3, <1>2, <1>d
    <3>2. RowRight(f, m)
      BY DEF ListInv
    <3> QED
      BY <1>1, <2>2, <3>1, <3>2 DEF RowRight, Listed, Unlisted
  <2>4. CASE m \in done /\ m \in DOMAIN lists[f]
    <3>1. Listed(f, m)
      BY <2>2, <2>4 DEF ListInv, RowRight
    <3>2. op.kind = "mark"
      BY <1>i, <1>o, <1>q, <2>4, <3>1 DEF Listed
    <3>3. Listed(f, m)'
      BY <1>1, <1>2, <1>d, <1>i, <1>o, <1>q, <2>4, <3>1, <3>2 DEF Listed
    <3> QED
      BY <1>1, <2>4, <3>3 DEF RowRight
  <2>5. CASE m \in done /\ m \notin DOMAIN lists[f]
    <3>1. where'[m] = f => where[m] = f
      <4>1. CASE op.kind = "move"
        BY <1>2, <1>d, <2>2, <2>5, <4>1
      <4>2. CASE op.kind # "move"
        BY <1>2, <1>i, <2>5, <4>2 DEF ListLimits
      <4> QED
        BY <4>1, <4>2
    <3>2. Unlisted(f, m)
      BY <2>2, <2>5 DEF ListInv, RowRight
    <3> QED
      BY <1>1, <2>5, <3>1, <3>2 DEF RowRight, Unlisted
  <2> QED
    BY <2>3, <2>4, <2>5
<1>7. ASSUME NEW f \in Folders PROVE CountRight(f)'
  <2>1. SUFFICES ASSUME f \notin drifted' PROVE CountRight(f)'
    BY DEF CountRight
  <2>2. f \notin drifted /\ (op.kind = "move" => op.to # f) /\ f # Listing!Gone
    BY <2>1, <1>1 DEF ListLimits
  <2>3. /\ OpsCounted(f) /\ counts[f].unread = Cardinality(StayingUnread(f))
        /\ counts[f].total = Cardinality(Staying(f))
    BY <2>2 DEF ListInv, CountRight
  <2>4. \A m \in Mails : where'[m] = f => where[m] = f
    BY <1>2, <1>i, <2>2
  <2>5. OpsCounted(f)'
    <3>1. SUFFICES ASSUME NEW i \in DOMAIN queue, NEW m \in queue[i].ids,
                          queue[i].source = f \/ where'[m] = f
                   PROVE  /\ ~queue[i].bulk /\ queue[i].source = f
                          /\ \/ where'[m] = f /\ \A j \in DOMAIN queue : m \in queue[j].ids => j = i
                             \/ Ahead(f, i, m)'
                          /\ queue[i].kind = "mark" =>
                                (queue[i].wasUnread <=> queue[i].read)
                                /\ (m \notin unheard' => (seen'[m] <=> ~queue[i].read))
                          /\ queue[i].kind # "mark" => (queue[i].wasUnread <=> ~seen'[m])
      BY <1>1 DEF OpsCounted
    <3>2. m \in Mails
      <4>1. queue[i] \in Listing!Ops
        BY <1>0
      <4> QED
        BY <4>1 DEF Listing!Ops
    <3>3. /\ ~queue[i].bulk /\ queue[i].source = f
          /\ \/ where[m] = f /\ \A j \in DOMAIN queue : m \in queue[j].ids => j = i
             \/ Ahead(f, i, m)
          /\ queue[i].kind = "mark" =>
                (queue[i].wasUnread <=> queue[i].read)
                /\ (m \notin unheard => (seen[m] <=> ~queue[i].read))
          /\ queue[i].kind # "mark" => (queue[i].wasUnread <=> ~seen[m])
      BY <2>3, <2>4, <3>1, <3>2 DEF OpsCounted
    <3>4. CASE m \notin done
      <4>1. where'[m] = where[m] /\ seen'[m] = seen[m] /\ (m \in unheard' <=> m \in unheard)
        BY <1>2, <1>d, <3>2, <3>4
      <4> QED
        BY <1>1, <3>3, <4>1 DEF Ahead
    <3>5. CASE m \in done
      <4>1. i = 1 /\ queue[i] = op /\ m \in unheard'
        BY <1>d, <1>i, <1>o, <1>q, <3>3, <3>5 DEF Ahead
      <4>2. op.kind = "mark" => where'[m] = where[m]
        BY <1>2, <3>5
      <4>3. op.kind # "mark" => seen'[m] = seen[m]
        BY <1>2, <1>i, <3>5
      <4>4. op.kind # "mark" => where'[m] # f
        BY <1>2, <1>i, <2>2, <3>5
      <4>5. where[m] # f => where'[m] # f
        BY <2>4, <3>2
      <4> QED
        BY <1>1, <3>3, <4>1, <4>2, <4>3, <4>4, <4>5 DEF Ahead
    <3> QED
      BY <3>4, <3>5
  <2>6. ASSUME NEW m \in Mails
        PROVE  /\ m \in Staying(f)' <=> m \in Staying(f)
               /\ m \in StayingUnread(f)' <=> m \in StayingUnread(f)
    <3>1. CASE m \notin done
      BY <1>1, <1>2, <3>1 DEF Staying, StayingUnread
    <3>2. CASE m \in done /\ op.kind = "mark"
      <4>1. where'[m] = where[m] /\ m \in queue[1].ids
        BY <1>2, <1>i, <1>o, <3>2
      <4> QED
        BY <1>1, <1>q, <4>1 DEF Staying, StayingUnread
    <3>3. CASE m \in done /\ op.kind # "mark"
      <4>1. m \in queue[1].ids /\ queue[1].kind # "mark"
        BY <1>i, <1>o, <3>3
      <4> QED
        BY <1>1, <1>q, <4>1 DEF Staying, StayingUnread
    <3> QED
      BY <3>1, <3>2, <3>3
  <2>7. Staying(f)' = Staying(f) /\ StayingUnread(f)' = StayingUnread(f)
    <3>1. /\ Staying(f) \subseteq Mails /\ Staying(f)' \subseteq Mails
          /\ StayingUnread(f) \subseteq Mails /\ StayingUnread(f)' \subseteq Mails
      BY DEF Staying, StayingUnread
    <3> QED
      BY <2>6, <3>1
  <2> QED
    BY <1>1, <2>3, <2>5, <2>7 DEF CountRight
<1>8. \A m \in Mails : OneMark(m)'
  BY <1>1 DEF ListInv, OneMark
<1> QED
  BY <1>3, <1>4, <1>5, <1>6, <1>7, <1>8 DEF ListInv

\* The flag is put back.
LEMMA ListUnmarks ==
  ASSUME ListLimits, ListInv, Listing!GivesUp, queue[1].kind = "mark", ~queue[1].bulk
  PROVE  ListInv'
<1> USE DEF Listing!server, Listing!page
<1>t. ListTyped /\ ActiveFresh
  BY DEF ListInv
<1>o. PICK op : op = queue[1]
  OBVIOUS
<1>0. queue # << >> /\ queue' = Tail(queue)
  BY DEF Listing!GivesUp
<1>q. /\ Head(queue) = op /\ 1 \in DOMAIN queue /\ op \in Listing!Ops /\ OpRight(op)
      /\ queue' \in Seq(Listing!Ops) /\ \A i \in DOMAIN queue' : OpRight(queue'[i])
      /\ \A i \in DOMAIN queue' : i + 1 \in DOMAIN queue /\ queue'[i] = queue[i + 1]
  BY <1>0, <1>o, OpLeaves
<1>m. PICK x \in Mails : op.ids = {x}
  BY <1>q, <1>o DEF OpRight
<1>i. op.source \in Folders /\ op.read \in BOOLEAN /\ op.kind = "mark" /\ ~op.bulk
  BY <1>q, <1>o DEF Listing!Ops
<1>l. PICK l : l = [m \in DOMAIN lists[op.source] |->
                       IF m \in op.ids THEN ~op.read ELSE lists[op.source][m]]
  OBVIOUS
<1>1. /\ Listing!Writes(op.source, l)
      /\ counts' = [counts EXCEPT ![op.source].unread =
                       IF op.read THEN @ + 1 ELSE Listing!Minus(@, 1)]
      /\ dirty' = dirty \cup ({op.source} \X unheard)
                        \cup IF op.source \in outdated THEN Listing!Of(op.source) ELSE {}
      /\ unheard' = {} /\ drifted' = drifted \cup {op.source : m \in unheard}
      /\ UNCHANGED <<where, seen, activeFolderId, pickable, have, copies, kept, fetch, fetched,
                     queued, unseen, flipped>>
  BY <1>q, <1>i, <1>l DEF Listing!GivesUp, Listing!Rollback
<1>x. /\ l \in Listing!Lists /\ DOMAIN l = DOMAIN lists[op.source]
      /\ \A m \in DOMAIN l : l[m] = IF m = x THEN ~op.read ELSE lists[op.source][m]
  <2>1. DOMAIN lists[op.source] \subseteq Mails
        /\ lists[op.source] \in [DOMAIN lists[op.source] -> BOOLEAN]
    BY <1>t, <1>i, ListRows
  <2>2. l \in [DOMAIN lists[op.source] -> BOOLEAN]
    BY <2>1, <1>l, <1>i
  <2> QED
    BY <2>1, <2>2, <1>l, <1>m, ListsAre
<1>w. /\ lists' \in [Folders -> Listing!Lists] /\ lists'[op.source] = l
      /\ \A f \in Folders \ {op.source} : lists'[f] = lists[f]
      /\ \A f \in Folders : f \in outdated' => f \in outdated
      /\ \A f \in Folders : f # op.source => (f \in outdated' <=> f \in outdated)
      /\ outdated' \subseteq outdated
  BY <1>1, <1>i, <1>x, <1>t DEF Listing!Writes, ListTyped
<1>4. /\ counts' \in [Folders -> [unread : Nat, total : Nat]]
      /\ counts'[op.source].unread = (IF op.read THEN counts[op.source].unread + 1
                                      ELSE Listing!Minus(counts[op.source].unread, 1))
      /\ counts'[op.source].total = counts[op.source].total
      /\ \A f \in Folders \ {op.source} : counts'[f] = counts[f]
  <2>1. counts \in [Folders -> [unread : Nat, total : Nat]]
    BY <1>t DEF ListTyped
  <2>2. PICK u \in Nat : u = (IF op.read THEN counts[op.source].unread + 1
                              ELSE Listing!Minus(counts[op.source].unread, 1))
    BY <2>1, <1>i DEF Listing!Minus
  <2>3. counts' = [counts EXCEPT ![op.source].unread = u]
    BY <1>1, <2>2
  <2> QED
    BY <2>1, <2>2, <2>3, <1>i
<1>3. ListTyped'
  <2>1. dirty' \subseteq Folders \X Mails /\ drifted' \subseteq Folders
    BY <1>1, <1>i, <1>t DEF ListTyped, Listing!Of
  <2> QED
    BY <1>1, <1>4, <1>q, <1>t, <1>w, <2>1 DEF ListTyped, OpRight, OfFirst
<1>5. ActiveFresh'
  <2>1. \A f \in Folders \ have : DOMAIN lists'[f] = {}
    BY <1>t, <1>w, <1>x DEF ActiveFresh
  <2> QED
    BY <2>1, <1>1, <1>w, <1>t DEF ActiveFresh
<1>6. ASSUME NEW f \in Folders PROVE FetchRight(f)'
  <2>1. SUFFICES ASSUME fetch[f].at # "idle" PROVE FetchRight(f)'
    BY <1>1 DEF FetchRight
  <2>2. \A i \in DOMAIN queue' : queue'[i].ids \subseteq fetch[f].dirty
    BY <1>q, <2>1 DEF ListInv, FetchRight
  <2> QED
    BY <1>1, <2>1, <2>2 DEF ListInv, FetchRight
<1>7. ASSUME NEW f \in Folders, NEW m \in Mails PROVE RowRight(f, m)'
  <2>1. SUFFICES ASSUME Vouched(f, m)' PROVE RowRight(f, m)'
    BY DEF RowRight
  <2>2. Vouched(f, m)
    <3>1. /\ f \in have \ outdated' /\ fetch[f].at = "idle" /\ m \notin flipped
          /\ <<f, m>> \notin dirty' \cup unseen
      BY <2>1, <1>1 DEF Vouched
    <3>2. f \notin outdated
      <4>1. CASE f = op.source
        BY <3>1, <4>1, <1>1 DEF Listing!Of
      <4>2. CASE f # op.source
        BY <3>1, <4>2, <1>w
      <4> QED
        BY <4>1, <4>2
    <3> QED
      BY <3>1, <3>2, <1>1 DEF Vouched
  <2>3. CASE m # x
    <3>1. (m \in DOMAIN lists'[f] <=> m \in DOMAIN lists[f])
          /\ (m \in DOMAIN lists[f] => lists'[f][m] = lists[f][m])
      BY <1>w, <1>x, <2>3
    <3> QED
      BY <1>0, <1>1, <1>m, <1>o, <2>2, <2>3, <3>1, RowKept
  <2>4. CASE m = x /\ m \in DOMAIN lists[f]
    <3>0. /\ where[m] = f /\ op.source = f /\ (m \notin unheard => seen[m] = ~op.read)
          /\ \A i \in DOMAIN queue' : m \notin queue'[i].ids
      BY <1>0, <1>i, <1>m, <1>o, <2>2, <2>4, RowMarked
    <3>1. /\ where[m] = f /\ op.source = f /\ seen[m] = ~op.read
          /\ \A i \in DOMAIN queue' : m \notin queue'[i].ids
      BY <1>1, <2>1, <3>0 DEF Vouched
    <3>2. m \in DOMAIN lists'[f] /\ lists'[f][m] = ~op.read
      BY <1>w, <1>x, <2>4, <3>1
    <3>3. Listed(f, m)'
      BY <1>1, <3>1, <3>2 DEF Listed
    <3> QED
      BY <3>2, <3>3 DEF RowRight
  <2>5. CASE m = x /\ m \notin DOMAIN lists[f]
    <3>1. m \notin DOMAIN lists'[f]
      BY <1>w, <1>x, <2>5
    <3>2. Unlisted(f, m)
      BY <2>2, <2>5 DEF ListInv, RowRight
    <3>3. Unlisted(f, m)'
      <4>1. \A i \in DOMAIN queue : i # 1 => i - 1 \in DOMAIN queue' /\ queue'[i - 1] = queue[i]
        BY <1>0, OpLeaves
      <4> QED
        BY <1>1, <1>i, <1>o, <3>2, <4>1 DEF Unlisted
    <3> QED
      BY <3>1, <3>3 DEF RowRight
  <2> QED
    BY <2>3, <2>4, <2>5
<1>8. ASSUME NEW f \in Folders PROVE CountRight(f)'
  <2>1. SUFFICES ASSUME f \notin drifted' PROVE CountRight(f)'
    BY DEF CountRight
  <2>2. f \notin drifted /\ (op.source = f => unheard = {})
    BY <2>1, <1>1
  <2>3. /\ OpsCounted(f) /\ counts[f].unread = Cardinality(StayingUnread(f))
        /\ counts[f].total = Cardinality(Staying(f))
    BY <2>2 DEF ListInv, CountRight
  <2>5. OpsCounted(f)'
    BY <1>0, <1>1, <2>3, OpsCountedStill
  <2>6. ASSUME NEW m \in Mails, m # x
        PROVE  /\ m \in Staying(f)' <=> m \in Staying(f)
               /\ m \in StayingUnread(f)' <=> m \in StayingUnread(f)
    BY <1>0, <1>1, <1>m, <1>o, <2>6, StayingStill
  <2>7. /\ Staying(f) \subseteq Mails /\ Staying(f)' \subseteq Mails
        /\ StayingUnread(f) \subseteq Mails /\ StayingUnread(f)' \subseteq Mails
    BY DEF Staying, StayingUnread
  <2>8. CASE op.source = f
    <3>1. /\ where[x] = f /\ (seen[x] <=> ~op.read)
          /\ x \in Staying(f) /\ (x \in StayingUnread(f) <=> ~op.read)
          /\ x \in Staying(f)' /\ (x \in StayingUnread(f)' <=> op.read)
      <4>1. x \in queue[1].ids /\ queue[1].source = f /\ x \notin unheard
        BY <1>m, <1>o, <2>2, <2>8
      <4> QED
        BY <1>0, <1>1, <1>i, <1>o, <2>3, <4>1, StayingFirst
    <3>2. Staying(f)' = Staying(f)
      BY <2>6, <2>7, <3>1
    <3>3. CASE op.read
      <4>1. x \notin StayingUnread(f) /\ StayingUnread(f)' = StayingUnread(f) \cup {x}
        BY <2>6, <2>7, <3>1, <3>3
      <4>2. counts'[f].unread = counts[f].unread + 1
        BY <1>4, <2>8, <3>3
      <4>3. counts'[f].unread = Cardinality(StayingUnread(f)')
        BY <4>1, <4>2, <2>3, FoldersFinite, OneMore
      <4> QED
        BY <1>4, <2>3, <2>5, <2>8, <3>2, <4>3 DEF CountRight
    <3>4. CASE ~op.read
      <4>1. x \in StayingUnread(f) /\ StayingUnread(f)' = StayingUnread(f) \ {x}
        BY <2>6, <2>7, <3>1, <3>4
      <4>2. counts'[f].unread = Listing!Minus(counts[f].unread, 1)
        BY <1>4, <2>8, <3>4
      <4>3. counts'[f].unread = Cardinality(StayingUnread(f)')
        BY <4>1, <4>2, <2>3, FoldersFinite, OneLess
      <4> QED
        BY <1>4, <2>3, <2>5, <2>8, <3>2, <4>3 DEF CountRight
    <3> QED
      BY <3>3, <3>4
  <2>9. CASE op.source # f
    <3>1. where[x] # f
      <4>1. x \in queue[1].ids
        BY <1>m, <1>o
      <4> QED
        BY <1>0, <1>o, <2>3, <2>9, <4>1, StayingFirst
    <3>2. x \notin Staying(f) /\ x \notin Staying(f)'
      BY <1>1, <3>1 DEF Staying
    <3>3. Staying(f)' = Staying(f) /\ StayingUnread(f)' = StayingUnread(f)
      <4>1. \A m \in Mails : (m \in Staying(f)' <=> m \in Staying(f))
                             /\ (m \in StayingUnread(f)' <=> m \in StayingUnread(f))
        BY <2>6, <3>2 DEF StayingUnread
      <4> QED
        BY <2>7, <4>1
    <3> QED
      BY <1>4, <2>3, <2>5, <2>9, <3>3 DEF CountRight
  <2> QED
    BY <2>8, <2>9
<1>9. \A m \in Mails : OneMark(m)'
  BY <1>0, <1>1, OpsLeft
<1> QED
  BY <1>3, <1>5, <1>6, <1>7, <1>8, <1>9 DEF ListInv

\* The list is asked for again.
LEMMA ListInvalidates ==
  ASSUME ListLimits, ListInv, Listing!GivesUp, ~(queue[1].kind = "mark" /\ ~queue[1].bulk)
  PROVE  ListInv'
<1> USE DEF Listing!server, Listing!page
<1>t. ListTyped /\ ActiveFresh
  BY DEF ListInv
<1>o. PICK op : op = queue[1]
  OBVIOUS
<1>0. queue # << >> /\ queue' = Tail(queue)
  BY DEF Listing!GivesUp
<1>q. /\ Head(queue) = op /\ 1 \in DOMAIN queue /\ op \in Listing!Ops /\ OpRight(op)
      /\ queue' \in Seq(Listing!Ops) /\ \A i \in DOMAIN queue' : OpRight(queue'[i])
      /\ \A i \in DOMAIN queue' : i + 1 \in DOMAIN queue /\ queue'[i] = queue[i + 1]
  BY <1>0, <1>o, OpLeaves
<1>i. op.source \in Folders /\ op.ids \subseteq Mails
  BY <1>q DEF Listing!Ops
<1>1. /\ counts' = IF op.bulk THEN counts ELSE Listing!Recharged(op)
      /\ Listing!Invalidates(op.source, Tail(queue))
      /\ UNCHANGED <<where, seen, activeFolderId, pickable, lists, have, copies, kept, dirty,
                     queued, unseen, flipped>>
      /\ unheard' = {} /\ drifted' = drifted \cup {op.source : m \in unheard}
  BY <1>q, <1>o DEF Listing!GivesUp, Listing!Rollback
<1>2. /\ fetch' \in [Folders -> [at : {"idle", "sent", "answered", "failed"},
                                 got : Listing!Lists, dirty : SUBSET Mails]]
      /\ fetched' \in 0 .. MaxFetches
      /\ outdated' \subseteq Folders /\ outdated \subseteq outdated'
      /\ activeFolderId \in outdated' => activeFolderId \in outdated
      /\ op.source \in outdated' \/ fetch'[op.source].at # "idle"
      /\ \A f \in Folders : fetch'[f] = fetch[f] \/ (fetch'[f].at = "sent"
            /\ \A i \in DOMAIN queue' : queue'[i].ids \subseteq fetch'[f].dirty)
  <2>1. CASE op.source = activeFolderId
    <3>1. Listing!Fetches(op.source, Tail(queue)) /\ outdated' = outdated /\ fetched' = fetched
      BY <1>1, <2>1 DEF Listing!Invalidates
    <3>2. Tail(queue) \in Seq(Listing!Ops)
      BY <1>0, <1>q
    <3>3. /\ fetch' \in [Folders -> [at : {"idle", "sent", "answered", "failed"},
                                     got : Listing!Lists, dirty : SUBSET Mails]]
          /\ fetch'[op.source].at = "sent"
          /\ \A i \in DOMAIN Tail(queue) : Tail(queue)[i].ids \subseteq fetch'[op.source].dirty
          /\ \A g \in Folders \ {op.source} : fetch'[g] = fetch[g]
      <4>1. PICK q \in Seq(Listing!Ops), f \in Folders : q = Tail(queue) /\ f = op.source
        BY <3>2, <1>i
      <4>2. Listing!Fetches(f, q)
        BY <3>1, <4>1
      <4>3. /\ fetch' \in [Folders -> [at : {"idle", "sent", "answered", "failed"},
                                       got : Listing!Lists, dirty : SUBSET Mails]]
            /\ fetch'[f].at = "sent" /\ \A i \in DOMAIN q : q[i].ids \subseteq fetch'[f].dirty
            /\ \A g \in Folders \ {f} : fetch'[g] = fetch[g]
        BY <1>t, <4>1, <4>2, FetchNew
      <4> QED
        BY <4>1, <4>3
    <3>4. outdated \subseteq Folders /\ fetched \in 0 .. MaxFetches
      BY <1>t DEF ListTyped
    <3> QED
      BY <1>0, <3>1, <3>3, <3>4
  <2>2. CASE op.source # activeFolderId
    <3>1. outdated' = outdated \cup {op.source} /\ UNCHANGED <<fetch, fetched>>
      BY <1>1, <2>2 DEF Listing!Invalidates
    <3> QED
      BY <3>1, <2>2, <1>i, <1>t DEF ListTyped
  <2> QED
    BY <2>1, <2>2
<1>4. /\ counts' \in [Folders -> [unread : Nat, total : Nat]]
      /\ ~op.bulk => /\ counts'[op.source].unread = counts[op.source].unread
                                                       + (IF op.wasUnread THEN 1 ELSE 0)
                     /\ counts'[op.source].total = counts[op.source].total + 1
      /\ \A f \in Folders \ {op.source} : counts'[f] = counts[f]
      /\ op.bulk => counts' = counts
  <2>1. counts \in [Folders -> [unread : Nat, total : Nat]]
    BY <1>t DEF ListTyped
  <2>2. CASE op.bulk
    BY <2>1, <2>2, <1>1
  <2>3. CASE ~op.bulk
    <3>1. PICK u \in Nat, n \in Nat :
             /\ u = counts[op.source].unread + (IF op.wasUnread THEN 1 ELSE 0)
             /\ n = counts[op.source].total + 1
      BY <2>1, <1>i
    <3>2. counts' = [counts EXCEPT ![op.source] = [unread |-> u, total |-> n]]
      BY <2>3, <3>1, <1>1 DEF Listing!Recharged
    <3> QED
      BY <2>1, <2>3, <3>1, <3>2, <1>i
  <2> QED
    BY <2>2, <2>3
<1>3. ListTyped'
  <2>1. drifted' \subseteq Folders
    BY <1>1, <1>i, <1>t DEF ListTyped
  <2> QED
    BY <1>1, <1>2, <1>4, <1>q, <1>t, <2>1 DEF ListTyped, OpRight, OfFirst
<1>5. ActiveFresh'
  <2>1. activeFolderId \in outdated' \cap have => fetch'[activeFolderId].at # "idle"
    BY <1>2, <1>t DEF ActiveFresh, ListTyped
  <2> QED
    BY <2>1, <1>1, <1>t DEF ActiveFresh
<1>6. ASSUME NEW f \in Folders PROVE FetchRight(f)'
  <2>1. CASE fetch'[f] = fetch[f]
    <3>1. fetch[f].at # "idle" => \A i \in DOMAIN queue' : queue'[i].ids \subseteq fetch[f].dirty
      BY <1>q DEF ListInv, FetchRight
    <3> QED
      BY <1>1, <2>1, <3>1 DEF ListInv, FetchRight
  <2>2. CASE fetch'[f].at = "sent" /\ \A i \in DOMAIN queue' : queue'[i].ids \subseteq fetch'[f].dirty
    BY <2>2 DEF FetchRight
  <2> QED
    BY <1>2, <2>1, <2>2
<1>7. ASSUME NEW f \in Folders, NEW m \in Mails PROVE RowRight(f, m)'
  <2>1. SUFFICES ASSUME Vouched(f, m)' PROVE RowRight(f, m)'
    BY DEF RowRight
  <2>2. Vouched(f, m) /\ f # op.source
    BY <2>1, <1>1, <1>2 DEF Vouched
  <2>3. CASE m \notin op.ids
    BY <1>0, <1>1, <1>o, <2>2, <2>3, RowKept
  <2>4. CASE m \in op.ids
    <3>1. m \notin DOMAIN lists[f]
      BY <1>0, <1>o, <2>2, <2>4, RowMarked
    <3>2. Unlisted(f, m)
      BY <2>2, <3>1 DEF ListInv, RowRight
    <3>3. Unlisted(f, m)'
      <4>1. \A i \in DOMAIN queue : i # 1 => i - 1 \in DOMAIN queue' /\ queue'[i - 1] = queue[i]
        BY <1>0, OpLeaves
      <4> QED
        BY <1>1, <1>o, <2>2, <3>2, <4>1 DEF Unlisted
    <3> QED
      BY <1>1, <3>1, <3>3 DEF RowRight
  <2> QED
    BY <2>3, <2>4
<1>8. ASSUME NEW f \in Folders PROVE CountRight(f)'
  <2>1. SUFFICES ASSUME f \notin drifted' PROVE CountRight(f)'
    BY DEF CountRight
  <2>2. f \notin drifted /\ (op.source = f => unheard = {})
    BY <2>1, <1>1
  <2>3. /\ OpsCounted(f) /\ counts[f].unread = Cardinality(StayingUnread(f))
        /\ counts[f].total = Cardinality(Staying(f))
    BY <2>2 DEF ListInv, CountRight
  <2>5. OpsCounted(f)'
    BY <1>0, <1>1, <2>3, OpsCountedStill
  <2>6. ASSUME NEW m \in Mails, m \notin op.ids
        PROVE  /\ m \in Staying(f)' <=> m \in Staying(f)
               /\ m \in StayingUnread(f)' <=> m \in StayingUnread(f)
    BY <1>0, <1>1, <1>o, <2>6, StayingStill
  <2>7. /\ Staying(f) \subseteq Mails /\ Staying(f)' \subseteq Mails
        /\ StayingUnread(f) \subseteq Mails /\ StayingUnread(f)' \subseteq Mails
        /\ StayingUnread(f) \subseteq Staying(f) /\ StayingUnread(f)' \subseteq Staying(f)'
    BY DEF Staying, StayingUnread
  <2>8. CASE op.source = f /\ op.ids # {}
    <3>m. PICK x \in op.ids : TRUE
      BY <2>8
    <3>0. unheard = {}
      BY <2>2, <2>8
    <3>1. /\ where[x] = f /\ ~op.bulk /\ op.ids = {x} /\ op.kind # "mark"
          /\ (op.wasUnread <=> ~seen[x])
          /\ x \notin Staying(f) /\ x \notin StayingUnread(f)
          /\ x \in Staying(f)' /\ (x \in StayingUnread(f)' <=> op.wasUnread)
      <4>1. x \in queue[1].ids /\ queue[1].source = f /\ x \notin unheard
        BY <3>m, <3>0, <1>o, <2>8
      <4>2. ~queue[1].bulk
        BY <1>0, <2>3, <4>1, StayingFirst
      <4> QED
        BY <1>0, <1>1, <1>o, <2>3, <4>1, <4>2, StayingFirst
    <3>2. Staying(f)' = Staying(f) \cup {x}
      BY <2>6, <2>7, <3>1
    <3>3. counts'[f].total = Cardinality(Staying(f)')
      BY <1>4, <2>3, <2>8, <3>1, <3>2, FoldersFinite, OneMore
    <3>4. CASE op.wasUnread
      <4>1. x \notin StayingUnread(f) /\ StayingUnread(f)' = StayingUnread(f) \cup {x}
        BY <2>6, <2>7, <3>1, <3>4
      <4>2. counts'[f].unread = counts[f].unread + 1
        BY <1>4, <2>8, <3>1, <3>4
      <4>3. counts'[f].unread = Cardinality(StayingUnread(f)')
        BY <4>1, <4>2, <2>3, FoldersFinite, OneMore
      <4> QED
        BY <2>5, <3>3, <4>3 DEF CountRight
    <3>5. CASE ~op.wasUnread
      <4>1. StayingUnread(f)' = StayingUnread(f)
        BY <2>6, <2>7, <3>1, <3>5
      <4>2. counts'[f].unread = counts[f].unread
        BY <1>4, <1>t, <2>8, <3>1, <3>5 DEF ListTyped
      <4> QED
        BY <2>3, <2>5, <3>3, <4>1, <4>2 DEF CountRight
    <3> QED
      BY <3>4, <3>5
  <2>9. CASE op.source # f \/ op.ids = {}
    <3>1. counts'[f] = counts[f]
      <4>1. CASE op.source # f
        BY <1>4, <4>1
      <4>2. CASE op.ids = {}
        BY <1>4, <1>q, <4>2 DEF OpRight
      <4> QED
        BY <2>9, <4>1, <4>2
    <3>2. \A x \in op.ids : x \notin Staying(f) /\ x \notin Staying(f)'
      <4>1. ASSUME NEW x \in op.ids PROVE where[x] # f
        <5>1. x \in queue[1].ids /\ op.source # f
          BY <1>o, <2>9
        <5> QED
          BY <1>0, <1>o, <2>3, <5>1, StayingFirst
      <4> QED
        BY <4>1, <1>1 DEF Staying
    <3>3. Staying(f)' = Staying(f) /\ StayingUnread(f)' = StayingUnread(f)
      BY <2>6, <2>7, <3>2
    <3> QED
      BY <2>3, <2>5, <3>1, <3>3 DEF CountRight
  <2> QED
    BY <2>8, <2>9
<1>9. \A m \in Mails : OneMark(m)'
  BY <1>0, <1>1, OpsLeft
<1> QED
  BY <1>3, <1>5, <1>6, <1>7, <1>8, <1>9 DEF ListInv

LEMMA ListNext ==
  ASSUME ListLimits, ListInv, [Listing!Next]_(Listing!vars)
  PROVE  ListInv'
<1>1. CASE UNCHANGED Listing!vars
  <2>1. UNCHANGED <<where, seen, activeFolderId, pickable, lists, have, outdated, copies, kept, fetch,
                    counts, queue, queued, fetched, dirty, unseen, flipped, drifted, unheard>>
    BY <1>1 DEF Listing!vars, Listing!server, Listing!page, Listing!cache
  <2>2. ListTyped' /\ ActiveFresh'
    BY <2>1 DEF ListInv, ListTyped, ActiveFresh, OpRight, OfFirst
  <2>3. \A f \in Folders : FetchRight(f)' /\ \A m \in Mails : RowRight(f, m)'
    BY <2>1 DEF ListInv, FetchRight, RowRight, Vouched, Listed, Unlisted
  <2> QED
    BY <2>1, <2>2, <2>3, SameOps DEF ListInv
<1>2. CASE Listing!Next
  <2>1. ASSUME NEW m \in Mails, Listing!TakeAway(m, "delete", activeFolderId) PROVE ListInv'
    <3>1. PICK to \in Folders : to = activeFolderId
      BY DEF ListInv, ListTyped
    <3>2. Listing!TakeAway(m, "delete", to)
      BY <2>1, <3>1
    <3> QED
      BY <3>2, ListTakeAway
  <2>2. ASSUME NEW m \in Mails, NEW f \in Folders \ {activeFolderId}, Listing!TakeAway(m, "move", f)
        PROVE  ListInv'
    BY <2>2, ListTakeAway
  <2>3. ASSUME Listing!GivesUp PROVE ListInv'
    BY <2>3, ListUnmarks, ListInvalidates
  <2>4. ASSUME Listing!Bulk("delete", FALSE) PROVE ListInv'
    BY <2>4, ListBulk
  <2> QED
    BY <1>2, <2>1, <2>2, <2>3, <2>4, ListSelect, ListRefetch, ListServe, ListTake, ListTakeFailure,
       ListPoll, ListRuns, ListRunsUnheard, ListMark, ListBulk DEF Listing!Next
<1> QED
  BY <1>1, <1>2

\* At rest nothing is pending: the rows are what is, and all stays.
LEMMA ListSafe == ASSUME ListLimits, ListInv PROVE Listing!ListingHolds
<1>t. ListTyped
  BY DEF ListInv
<1>1. Listing!TypeOK
  BY <1>t DEF ListTyped, Listing!TypeOK, OpRight
<1>2. Listing!ListAgrees
  <2>1. SUFFICES ASSUME NEW f \in Folders, Listing!AtRest(f), NEW m \in Mails,
                        <<f, m>> \notin dirty \cup unseen, m \notin flipped
                 PROVE  /\ m \in DOMAIN lists[f] <=> where[m] = f
                        /\ m \in DOMAIN lists[f] => lists[f][m] = seen[m]
    BY DEF Listing!ListAgrees
  <2>2. Vouched(f, m) /\ DOMAIN queue = {}
    BY <2>1 DEF Listing!AtRest, Vouched
  <2>3. IF m \in DOMAIN lists[f] THEN Listed(f, m) ELSE Unlisted(f, m)
    BY <2>2 DEF ListInv, RowRight
  <2> QED
    BY <2>2, <2>3 DEF Listed, Unlisted
<1>3. Listing!CountsAgree
  <2>1. SUFFICES ASSUME queue = << >>, NEW f \in Folders \ drifted
                 PROVE  counts[f] = Listing!TrueCounts[f]
    BY DEF Listing!CountsAgree
  <2>2. DOMAIN queue = {}
    BY <2>1
  <2>3. Staying(f) = Listing!In(f) /\ StayingUnread(f) = {m \in Listing!In(f) : ~seen[m]}
    BY <2>2 DEF Staying, StayingUnread, Listing!In
  <2>4. /\ counts[f].unread = Cardinality({m \in Listing!In(f) : ~seen[m]})
        /\ counts[f].total = Cardinality(Listing!In(f))
    BY <2>1, <2>3 DEF ListInv, CountRight
  <2>5. counts[f] \in [unread : Nat, total : Nat]
    BY <1>t DEF ListTyped
  <2>6. Listing!TrueCounts =
          [g \in Folders |-> [unread |-> Cardinality({m \in Listing!In(g) : ~seen[m]}),
                              total  |-> Cardinality(Listing!In(g))]]
    BY DEF Listing!TrueCounts, Listing!Cardinality, Cardinality
  <2> DEFINE u == Cardinality({m \in Listing!In(f) : ~seen[m]})
             n == Cardinality(Listing!In(f))
  <2>7. Listing!TrueCounts[f] = [unread |-> u, total |-> n]
    BY <2>6
  <2>8. counts[f].unread = u /\ counts[f].total = n
    BY <2>4
  <2> HIDE DEF u, n
  <2> QED
    BY <2>5, <2>7, <2>8
<1> QED
  BY <1>1, <1>2, <1>3 DEF Listing!ListingHolds

(* What was done ahead of the server is undone when it fails: for any      *)
(* number of messages, folders, ops and fetches, a list and the counts of  *)
(* a folder at rest are right but for what ListingHolds lists as excused   *)
(* (mail/page.tsx).                                                        *)
THEOREM ListingAlwaysHolds == ListLimits => (PageSpec => []ListingHolds)
<1> SUFFICES ASSUME ListLimits PROVE PageSpec => []ListingHolds
  OBVIOUS
<1> DEFINE Kept == onPage = "listing" => ListInv
<1>1. FirstPage => Kept
  BY ListInit, PageFirst
<1>2. Kept /\ [StepPage]_pageVars => Kept'
  BY ListNext, PageStep
<1>3. Kept => ListingHolds
  BY ListSafe DEF ListingHolds
<1> QED
  BY <1>1, <1>2, <1>3, PTL DEF PageSpec
-----------------------------------------------------------------------------
(* The search (MailSearch).  A text that is searched is not empty.         *)
FindLimits ==
    /\ Find!NoText \notin Queries /\ PageSize \in Nat
    /\ MaxMail \in Nat /\ StartMail \in 0 .. MaxMail /\ MaxSearches \in Nat /\ SearchEvents \in Nat

\* What was found is of the search, the newest first.
AskRight(r) ==
    /\ r \in [n : 1 .. issued, search : Find!Search, reset : BOOLEAN, offset : Nat,
              at : {"sent", "answered", "refused"}, got : Seq(Find!Result), more : BOOLEAN]
    /\ \A i \in DOMAIN r.got : r.got[i].search = r.search
    /\ \A i, j \in DOMAIN r.got : i < j => r.got[i].mail > r.got[j].mail

FindTyped ==
    /\ arrived \in 0 .. MaxMail /\ live \subseteq 1 .. arrived
    /\ input \in Find!Texts /\ timer \in Find!Texts /\ query \in Find!Texts
    /\ fields \subseteq Find!Fields
    /\ results \in Seq(Find!Result) /\ offset \in Nat /\ hasMore \in BOOLEAN
    /\ inFlight \in BOOLEAN /\ searching \in BOOLEAN /\ loadingMore \in BOOLEAN
    /\ issued \in 0 .. MaxSearches /\ trouble \in 0 .. SearchEvents
    /\ crossing \in BOOLEAN /\ mixture \in BOOLEAN /\ late \in BOOLEAN /\ gone \in BOOLEAN
    /\ begun \in 0 .. arrived
    /\ \A r \in asking : AskRight(r)

\* Searches that do not cross are one at a time, and the spinners know.
OneAsked ==
    /\ ~crossing => \A r, s \in asking : r = s /\ inFlight
    /\ asking = {} => ~inFlight /\ ~searching /\ ~loadingMore

\* A text waits as it was typed; a filter that joins it, or is joined, is noted.
ModesRight ==
    /\ Find!Both(query, fields) => mixture
    /\ timer # Find!NoText => timer = input \/ late
    /\ timer = Find!NoText => query = input \/ late

\* Rows and requests are of the search shown.
OfSearch ==
    Find!Orderly =>
        /\ \A i \in DOMAIN results : results[i].search = Find!Current
        /\ \A i, j \in DOMAIN results : i # j => results[i] # results[j]
        /\ \A r \in asking : /\ r.search = Find!Current /\ r.offset = offset
                             /\ r.reset => results = << >>

Steady  == Find!Orderly /\ ~gone
Rank(m) == Cardinality({k \in live : k >= m})

\* What was loaded reaches down to the offset at least, and none is missing in it.
RowsSteady ==
    Steady =>
        /\ \A i \in DOMAIN results : results[i].mail \in live
        /\ \A i, j \in DOMAIN results : i < j =>
              \/ results[i].mail > results[j].mail
              \/ Find!Again(j) \/ results[j].mail > results[1].mail
        /\ \A i \in DOMAIN results, m \in live :
              m > results[i].mail /\ (m <= begun \/ m < results[1].mail) =>
                 \E k \in DOMAIN results : results[k].mail = m
        /\ results # << >> => /\ \E i \in DOMAIN results : offset <= Rank(results[i].mail)
                              /\ \A m \in live : m <= begun => m <= results[1].mail
        /\ results = << >> => offset = 0

\* A page that was found is without a gap, and none is between it and the rows.
PageSteady(r) ==
    Steady /\ r.at = "answered" /\ r.got # << >> =>
        /\ \A i \in DOMAIN r.got : r.got[i].mail \in live
        /\ \A m \in live : m >= r.got[Len(r.got)].mail /\ m <= r.got[1].mail =>
              \E k \in DOMAIN r.got : r.got[k].mail = m
        /\ offset + Len(r.got) <= Rank(r.got[Len(r.got)].mail)
        /\ results = << >> => \A m \in live : m <= begun => m <= r.got[1].mail
        /\ results # << >> => \A m \in live : m > r.got[1].mail =>
              \E i \in DOMAIN results : results[i].mail <= m

FindInv ==
    /\ FindTyped /\ OneAsked /\ ModesRight /\ OfSearch /\ RowsSteady
    /\ \A r \in asking : PageSteady(r)
-----------------------------------------------------------------------------
(* The places of a finite set in an order.                                 *)

LEMMA FindCount == ASSUME NEW S PROVE Find!Cardinality(S) = Cardinality(S)
  BY DEF Find!Cardinality, Cardinality, Find!IsFiniteSet, IsFiniteSet

Ordered(R, S) ==
    \A a, b, c \in S :
        /\ <<a, a>> \notin R
        /\ <<a, b>> \in R /\ <<b, c>> \in R => <<a, c>> \in R
        /\ a = b \/ <<a, b>> \in R \/ <<b, a>> \in R
UpTo(S, R, m)  == {k \in S : k = m \/ <<k, m>> \in R}
PlaceOf(S, R, m) == Cardinality(UpTo(S, R, m))

\* The place of an element is one of the set, and grows.
LEMMA PlaceGrows ==
  ASSUME NEW S, IsFiniteSet(S), NEW R, Ordered(R, S), NEW a \in S
  PROVE  /\ PlaceOf(S, R, a) \in 1 .. Cardinality(S)
         /\ \A b \in S : <<a, b>> \in R => PlaceOf(S, R, a) < PlaceOf(S, R, b)
<1>1. ASSUME NEW b \in S
      PROVE  /\ IsFiniteSet(UpTo(S, R, b)) /\ UpTo(S, R, b) \subseteq S
             /\ Cardinality(UpTo(S, R, b)) <= Cardinality(S)
             /\ Cardinality(UpTo(S, R, b)) \in Nat
  <2>1. UpTo(S, R, b) \in SUBSET S
    BY DEF UpTo
  <2> QED
    BY <2>1, FS_Subset, FS_CardinalityType
<1>2. Cardinality(S) \in Nat
  BY FS_CardinalityType
<1>3. Cardinality(UpTo(S, R, a)) # 0
  <2>1. a \in UpTo(S, R, a)
    BY DEF UpTo
  <2> QED
    BY <1>1, <2>1, FS_EmptySet
<1>4. ASSUME NEW b \in S, <<a, b>> \in R
      PROVE  Cardinality(UpTo(S, R, a)) < Cardinality(UpTo(S, R, b))
  <2>1. UpTo(S, R, a) \in SUBSET UpTo(S, R, b)
    BY <1>4 DEF UpTo, Ordered
  <2>2. b \in UpTo(S, R, b) /\ b \notin UpTo(S, R, a)
    BY <1>4 DEF UpTo, Ordered
  <2>3. Cardinality(UpTo(S, R, a)) <= Cardinality(UpTo(S, R, b))
        /\ Cardinality(UpTo(S, R, a)) # Cardinality(UpTo(S, R, b))
    BY <1>1, <2>1, <2>2, FS_Subset
  <2> QED
    BY <1>1, <2>3
<1> QED
  BY <1>1, <1>2, <1>3, <1>4 DEF PlaceOf

\* Every place is taken, and once.
LEMMA PlaceTaken ==
  ASSUME NEW S, IsFiniteSet(S), NEW R, Ordered(R, S), NEW i \in 1 .. Cardinality(S)
  PROVE  \E m \in S : PlaceOf(S, R, m) = i
<1> DEFINE f == [m \in S |-> PlaceOf(S, R, m)]
<1>1. Cardinality(S) \in Nat
  BY FS_CardinalityType
<1>2. PICK n \in Nat : n = Cardinality(S)
  BY <1>1
<1>3. IsFiniteSet(1 .. n) /\ Cardinality(1 .. n) = n
  BY FS_Interval
<1>4. f \in Injection(S, 1 .. n)
  <2>1. f \in [S -> 1 .. n]
    BY <1>2, PlaceGrows
  <2>2. ASSUME NEW a \in S, NEW b \in S, PlaceOf(S, R, a) = PlaceOf(S, R, b) PROVE a = b
    <3>1. a = b \/ <<a, b>> \in R \/ <<b, a>> \in R
      BY DEF Ordered
    <3>2. PlaceOf(S, R, a) \in 1 .. n /\ PlaceOf(S, R, b) \in 1 .. n
      BY <1>2, PlaceGrows
    <3>3. /\ <<a, b>> \in R => PlaceOf(S, R, a) < PlaceOf(S, R, b)
          /\ <<b, a>> \in R => PlaceOf(S, R, b) < PlaceOf(S, R, a)
      BY PlaceGrows
    <3> QED
      BY <2>2, <3>1, <3>2, <3>3
  <2> QED
    BY <2>1, <2>2 DEF Injection, IsInjective
<1>5. f \in Surjection(S, 1 .. n)
  BY <1>2, <1>3, <1>4, FS_Injection
<1>6. PICK m \in S : f[m] = i
  BY <1>2, <1>5 DEF Surjection
<1> QED
  BY <1>6

Rising(S)  == {p \in S \X S : p[1] < p[2]}
Falling(S) == {p \in S \X S : p[1] > p[2]}

LEMMA NumbersOrdered ==
  ASSUME NEW S \in SUBSET Nat
  PROVE  /\ Ordered(Rising(S), S) /\ Ordered(Falling(S), S)
         /\ \A m \in S : /\ UpTo(S, Rising(S), m) = {k \in S : k <= m}
                         /\ UpTo(S, Falling(S), m) = {k \in S : k >= m}
<1>1. \A a, b \in S : /\ <<a, b>> \in Rising(S) <=> a < b
                      /\ <<a, b>> \in Falling(S) <=> a > b
  BY DEF Rising, Falling
<1>2. \A a \in S : a \in Nat
  OBVIOUS
<1>3. ASSUME NEW a \in S, NEW b \in S, NEW c \in S
      PROVE  /\ ~(a < a) /\ (a < b /\ b < c => a < c) /\ (a = b \/ a < b \/ b < a)
             /\ ~(a > a) /\ (a > b /\ b > c => a > c) /\ (a = b \/ a > b \/ b > a)
  BY <1>2
<1>4. Ordered(Rising(S), S) /\ Ordered(Falling(S), S)
  BY <1>1, <1>3 DEF Ordered
<1>5. ASSUME NEW m \in S
      PROVE  /\ UpTo(S, Rising(S), m) = {k \in S : k <= m}
             /\ UpTo(S, Falling(S), m) = {k \in S : k >= m}
  <2>1. \A k \in S : (k <= m <=> k = m \/ k < m) /\ (k >= m <=> k = m \/ k > m)
    BY <1>2
  <2> QED
    BY <1>1, <2>1 DEF UpTo
<1> QED
  BY <1>4, <1>5

\* The entries that are kept, in order.
LEMMA KeptIs ==
  ASSUME NEW X, NEW s \in Seq(X), NEW J \in SUBSET DOMAIN s
  PROVE  /\ Find!Kept(s, J) \in Seq(X)
         /\ \E f \in [DOMAIN Find!Kept(s, J) -> J] :
               /\ \A k \in DOMAIN Find!Kept(s, J) : Find!Kept(s, J)[k] = s[f[k]]
               /\ \A k, n \in DOMAIN Find!Kept(s, J) : k < n => f[k] < f[n]
               /\ \A j \in J : \E k \in DOMAIN Find!Kept(s, J) : f[k] = j
<1> DEFINE n == Cardinality(J)
           P(j) == PlaceOf(J, Rising(J), j)
<1>1. J \in SUBSET Nat /\ IsFiniteSet(J)
  <2>1. DOMAIN s = 1 .. Len(s) /\ Len(s) \in Nat
    OBVIOUS
  <2>2. IsFiniteSet(1 .. Len(s))
    BY <2>1, FS_Interval
  <2> QED
    BY <2>1, <2>2, FS_Subset
<1>2. n \in Nat
  BY <1>1, FS_CardinalityType
<1>3. Ordered(Rising(J), J) /\ \A j \in J : P(j) = Cardinality({i \in J : i <= j})
  BY <1>1, NumbersOrdered DEF PlaceOf
<1>4. \A j \in J : P(j) \in 1 .. n
  BY <1>1, <1>3, PlaceGrows
<1>5. \A i, j \in J : i < j => P(i) < P(j)
  <2> SUFFICES ASSUME NEW i \in J, NEW j \in J, i < j PROVE P(i) < P(j)
    OBVIOUS
  <2>1. <<i, j>> \in Rising(J)
    BY DEF Rising
  <2> QED
    BY <1>1, <1>3, <2>1, PlaceGrows
<1>6. \A k \in 1 .. n : \E j \in J : P(j) = k
  BY <1>1, <1>3, PlaceTaken
<1> DEFINE f == [k \in 1 .. n |-> Find!Place(J, k)]
<1>7. \A k \in 1 .. n : f[k] \in J /\ P(f[k]) = k
  <2> SUFFICES ASSUME NEW k \in 1 .. n PROVE Find!Place(J, k) \in J /\ P(Find!Place(J, k)) = k
    OBVIOUS
  <2>1. Find!Place(J, k) = CHOOSE j \in J : P(j) = k
    BY <1>3, FindCount DEF Find!Place
  <2> QED
    BY <1>6, <2>1
<1> HIDE DEF P
<1>8. /\ DOMAIN Find!Kept(s, J) = 1 .. n /\ Find!Kept(s, J) \in Seq(X)
      /\ \A k \in 1 .. n : Find!Kept(s, J)[k] = s[f[k]]
  <2>1. Find!Kept(s, J) = [k \in 1 .. n |-> s[Find!Place(J, k)]]
    BY FindCount DEF Find!Kept
  <2>2. \A k \in 1 .. n : s[Find!Place(J, k)] \in X
    BY <1>7
  <2>3. \A k \in 1 .. n : Find!Kept(s, J)[k] = s[Find!Place(J, k)]
    BY <2>1
  <2>4. DOMAIN Find!Kept(s, J) = 1 .. n
    BY <2>1
  <2> HIDE DEF n
  <2>5. Find!Kept(s, J) \in Seq(X)
    BY <1>2, <2>1, <2>2
  <2> QED
    BY <2>3, <2>4, <2>5
<1>9. f \in [1 .. n -> J]
  BY <1>7
<1> HIDE DEF f
<1>10. \A j \in J : P(j) \in 1 .. n /\ f[P(j)] = j
  <2> SUFFICES ASSUME NEW j \in J PROVE P(j) \in 1 .. n /\ f[P(j)] = j
    OBVIOUS
  <2>1. P(j) \in 1 .. n /\ f[P(j)] \in J /\ P(f[P(j)]) = P(j)
    BY <1>4, <1>7
  <2>2. j \in Nat /\ f[P(j)] \in Nat
    BY <1>1, <2>1
  <2>3. ~(j < f[P(j)]) /\ ~(f[P(j)] < j)
    <3>1. ~(P(j) < P(j))
      BY <2>1, <1>2
    <3> QED
      BY <1>5, <2>1, <3>1
  <2> QED
    BY <2>1, <2>2, <2>3
<1>11. \A k, m \in 1 .. n : k < m => f[k] < f[m]
  <2> SUFFICES ASSUME NEW k \in 1 .. n, NEW m \in 1 .. n, k < m PROVE f[k] < f[m]
    OBVIOUS
  <2>1. /\ f[k] \in J /\ f[m] \in J /\ P(f[k]) = k /\ P(f[m]) = m
        /\ f[k] \in Nat /\ f[m] \in Nat /\ k \in Nat /\ m \in Nat
    BY <1>1, <1>2, <1>7
  <2>2. f[k] # f[m] /\ ~(f[m] < f[k])
    BY <1>5, <2>1
  <2> QED
    BY <2>1, <2>2
<1>12. PICK q : q = Find!Kept(s, J)
  OBVIOUS
<1>13. /\ DOMAIN q = 1 .. n /\ q \in Seq(X) /\ f \in [DOMAIN q -> J]
       /\ \A k \in DOMAIN q : q[k] = s[f[k]]
       /\ \A k, m \in DOMAIN q : k < m => f[k] < f[m]
       /\ \A j \in J : P(j) \in DOMAIN q /\ f[P(j)] = j
  BY <1>8, <1>9, <1>10, <1>11, <1>12
<1> HIDE DEF n
<1> QED
  BY <1>12, <1>13
-----------------------------------------------------------------------------
(* The messages by their rank, the newest first.                           *)

LEMMA RankIs ==
  ASSUME live \in SUBSET Nat, IsFiniteSet(live)
  PROVE  /\ \A m \in live : Rank(m) \in 1 .. Cardinality(live)
         /\ \A m, k \in live : m > k <=> Rank(m) < Rank(k)
         /\ \A i \in 1 .. Cardinality(live) : \E m \in live : Rank(m) = i
<1>1. Ordered(Falling(live), live) /\ \A m \in live : Rank(m) = PlaceOf(live, Falling(live), m)
  BY NumbersOrdered DEF PlaceOf, Rank
<1>2. \A m \in live : Rank(m) \in 1 .. Cardinality(live)
  BY <1>1, PlaceGrows
<1>3. \A i \in 1 .. Cardinality(live) : \E m \in live : Rank(m) = i
  <2> SUFFICES ASSUME NEW i \in 1 .. Cardinality(live) PROVE \E m \in live : Rank(m) = i
    OBVIOUS
  <2>1. PICK S : S = live
    OBVIOUS
  <2>2. PICK R : R = Falling(live)
    OBVIOUS
  <2>3. IsFiniteSet(S) /\ Ordered(R, S) /\ i \in 1 .. Cardinality(S)
    BY <1>1, <2>1, <2>2
  <2>4. \E m \in S : PlaceOf(S, R, m) = i
    BY <2>3, PlaceTaken
  <2> QED
    BY <1>1, <2>1, <2>2, <2>4
<1>4. \A m, k \in live : m > k => Rank(m) < Rank(k)
  <2> SUFFICES ASSUME NEW m \in live, NEW k \in live, m > k PROVE Rank(m) < Rank(k)
    OBVIOUS
  <2>1. <<m, k>> \in Falling(live)
    BY DEF Falling
  <2> QED
    BY <1>1, <2>1, PlaceGrows
<1>5. \A m, k \in live : m > k <=> Rank(m) < Rank(k)
  <2> SUFFICES ASSUME NEW m \in live, NEW k \in live, Rank(m) < Rank(k) PROVE m > k
    BY <1>4
  <2>1. Cardinality(live) \in Nat
    BY FS_CardinalityType
  <2>2. Rank(m) \in Nat /\ Rank(k) \in Nat
    BY <1>2, <2>1
  <2>3. m # k /\ ~(k > m)
    BY <1>4, <2>2
  <2>4. m \in Nat /\ k \in Nat
    OBVIOUS
  <2> QED
    BY <2>3, <2>4
<1> QED
  BY <1>2, <1>3, <1>5

LEMMA LiveIs ==
  ASSUME FindLimits, FindTyped
  PROVE  /\ live \in SUBSET Nat /\ IsFiniteSet(live) /\ Cardinality(live) \in Nat
         /\ arrived \in Nat /\ arrived <= MaxMail /\ \A m \in live : m \in 1 .. MaxMail /\ m <= arrived
         /\ begun \in Nat /\ begun <= arrived
<1>1. /\ MaxMail \in Nat /\ arrived \in 0 .. MaxMail /\ live \subseteq 1 .. arrived
      /\ begun \in 0 .. arrived
  BY DEF FindLimits, FindTyped
<1>2. live \in SUBSET (1 .. arrived) /\ 1 \in Int /\ arrived \in Int
  BY <1>1
<1>3. IsFiniteSet(live)
  BY <1>2, FS_Interval, FS_Subset
<1>4. Cardinality(live) \in Nat
  BY <1>3, FS_CardinalityType
<1>5. arrived \in Nat /\ arrived <= MaxMail /\ \A m \in live : m \in 1 .. MaxMail /\ m <= arrived
  BY <1>1
<1>6. begun \in Nat /\ begun <= arrived /\ live \in SUBSET Nat
  BY <1>1
<1> QED
  BY <1>3, <1>4, <1>5, <1>6

\* A page holds the messages of the places behind its offset.
LEMMA FoundIs ==
  ASSUME FindLimits, FindTyped, NEW r, AskRight(r)
  PROVE  /\ Find!Page(r) \in Seq(Find!Result)
         /\ \A i \in DOMAIN Find!Page(r) :
               /\ Find!Page(r)[i].search = r.search
               /\ Find!Page(r)[i].mail \in live /\ Rank(Find!Page(r)[i].mail) = r.offset + i
<1>1. r.offset \in Nat /\ r.search \in Find!Search /\ PageSize \in Nat
  BY DEF AskRight, FindLimits
<1>2. PICK c \in Nat : c = Cardinality(live)
  BY LiveIs
<1>3. PICK n \in Nat : /\ n = (IF c - r.offset < 0 THEN 0
                              ELSE IF c - r.offset < PageSize THEN c - r.offset ELSE PageSize)
                       /\ n = 0 \/ r.offset + n <= c
  BY <1>1
<1>4. Find!Page(r) = [i \in 1 .. n |-> [search |-> r.search, mail |-> Find!Nth(r.offset + i), saved |-> TRUE]]
  BY <1>2, <1>3, FindCount DEF Find!Page
<1>5. ASSUME NEW i \in 1 .. n
      PROVE  Find!Nth(r.offset + i) \in live /\ Rank(Find!Nth(r.offset + i)) = r.offset + i
  <2>1. PICK k \in Nat : k = r.offset + i /\ k \in 1 .. c
    BY <1>1, <1>3
  <2>2. \E m \in live : Rank(m) = k
    BY <1>2, <2>1, LiveIs, RankIs
  <2>3. Find!Nth(k) = CHOOSE m \in live : Rank(m) = k
    BY FindCount DEF Find!Nth, Rank
  <2> QED
    BY <2>1, <2>2, <2>3
<1>6. \A i \in 1 .. n : Find!Nth(r.offset + i) \in 1 .. MaxMail
  BY <1>5, LiveIs
<1>7. PICK p : p = Find!Page(r)
  OBVIOUS
<1>8. /\ DOMAIN p = 1 .. n
      /\ \A i \in 1 .. n : p[i] = [search |-> r.search, mail |-> Find!Nth(r.offset + i), saved |-> TRUE]
  BY <1>4, <1>7
<1>9. ASSUME NEW i \in 1 .. n PROVE p[i] \in Find!Result
  <2>1. PICK m \in 1 .. MaxMail : m = Find!Nth(r.offset + i)
    BY <1>6
  <2>2. p[i] = [search |-> r.search, mail |-> m, saved |-> TRUE]
    BY <1>8, <2>1
  <2> QED
    BY <1>1, <2>2 DEF Find!Result
<1>10. p \in [1 .. n -> Find!Result]
  BY <1>4, <1>7, <1>8, <1>9
<1>11. p \in Seq(Find!Result)
  BY <1>10
<1> QED
  BY <1>5, <1>7, <1>8, <1>11

\* Such a page is the newest first and without a gap.
LEMMA FoundSteady ==
  ASSUME FindLimits, FindTyped, NEW g \in Seq(Find!Result), NEW o \in Nat,
         \A i \in DOMAIN g : g[i].mail \in live /\ Rank(g[i].mail) = o + i
  PROVE  /\ \A i, j \in DOMAIN g : i < j => g[i].mail > g[j].mail
         /\ \A m \in live : g # << >> /\ m >= g[Len(g)].mail /\ m <= g[1].mail =>
               \E k \in DOMAIN g : g[k].mail = m
         /\ g # << >> => o + Len(g) <= Rank(g[Len(g)].mail)
         /\ \A m \in live : g # << >> /\ m > g[1].mail => Rank(m) <= o
<1>1. /\ \A m, k \in live : m > k <=> Rank(m) < Rank(k)
      /\ \A m \in live : m \in Nat /\ Rank(m) \in Nat
  BY LiveIs, RankIs
<1>2. DOMAIN g = 1 .. Len(g) /\ Len(g) \in Nat /\ (g # << >> => Len(g) >= 1)
  OBVIOUS
<1>3. ASSUME NEW i \in DOMAIN g, NEW j \in DOMAIN g, i < j PROVE g[i].mail > g[j].mail
  <2>1. PICK a \in live : a = g[i].mail /\ Rank(a) = o + i
    OBVIOUS
  <2>2. PICK b \in live : b = g[j].mail /\ Rank(b) = o + j
    OBVIOUS
  <2>3. o + i < o + j
    BY <1>2, <1>3
  <2> QED
    BY <1>1, <2>1, <2>2, <2>3
<1>4. CASE g = << >>
  BY <1>3, <1>4
<1>5. CASE g # << >>
  <2>1. 1 \in DOMAIN g /\ Len(g) \in DOMAIN g
    BY <1>2, <1>5
  <2>2. PICK a \in live : a = g[1].mail /\ Rank(a) = o + 1
    BY <2>1
  <2>3. PICK b \in live : b = g[Len(g)].mail /\ Rank(b) = o + Len(g)
    BY <2>1
  <2>4. ASSUME NEW m \in live, m >= b, m <= a PROVE \E k \in DOMAIN g : g[k].mail = m
    <3>1. PICK x \in Nat : x = Rank(m) /\ ~(m > a) /\ ~(b > m)
      BY <1>1, <2>4
    <3>2. x >= o + 1 /\ x <= o + Len(g)
      BY <1>1, <1>2, <2>2, <2>3, <3>1
    <3>3. PICK k \in DOMAIN g : x = o + k
      <4>1. x - o \in 1 .. Len(g) /\ x = o + (x - o)
        BY <1>2, <3>1, <3>2
      <4> QED
        BY <1>2, <4>1
    <3>4. PICK y \in live : y = g[k].mail /\ Rank(y) = x
      BY <3>3
    <3>5. ~(y > m) /\ ~(m > y)
      BY <1>1, <3>1, <3>4
    <3>6. y \in Nat /\ m \in Nat
      BY <1>1
    <3>7. y = m
      BY <3>5, <3>6
    <3> QED
      BY <3>4, <3>7
  <2>5. ASSUME NEW m \in live, m > a PROVE Rank(m) <= o
    <3>1. Rank(m) < o + 1 /\ Rank(m) \in Nat
      BY <1>1, <2>2, <2>5
    <3> QED
      BY <3>1
  <2>6. o + Len(g) <= Rank(b)
    BY <1>2, <2>3
  <2> QED
    BY <1>3, <2>2, <2>3, <2>4, <2>5, <2>6
<1> QED
  BY <1>4, <1>5
-----------------------------------------------------------------------------
(* The searches begin, end and change.                                     *)

LEMMA AskKept ==
  ASSUME NEW r, AskRight(r), issued \in Nat, issued' \in Nat, issued <= issued'
  PROVE  AskRight(r)'
<1>1. \A n \in 1 .. issued : n \in 1 .. issued'
  OBVIOUS
<1> QED
  BY <1>1 DEF AskRight

\* The lists are not shown, or a message was gone.
LEMMA NotSteady ==
  ASSUME ~Steady'
  PROVE  RowsSteady' /\ \A r : PageSteady(r)'
BY DEF RowsSteady, PageSteady

LEMMA FindInit == ASSUME FindLimits, Find!Init PROVE FindInv
<1> USE DEF Find!Init
<1>1. Find!NoText \in Find!Texts
  BY DEF Find!Texts
<1>2. results \in Seq(Find!Result) /\ 1 .. StartMail \subseteq 1 .. arrived /\ 0 \in 0 .. StartMail
      /\ 0 \in 0 .. MaxSearches /\ 0 \in 0 .. SearchEvents /\ 0 \in Nat
  BY DEF FindLimits
<1>3. FindTyped
  BY <1>1, <1>2 DEF FindTyped, FindLimits
<1>4. ~Find!Searching
  BY DEF Find!Searching
<1> QED
  BY <1>3, <1>4 DEF FindInv, OneAsked, ModesRight, OfSearch, RowsSteady, PageSteady, Steady, Find!Orderly,
                    Find!Both

LEMMA FindStays == ASSUME FindInv, UNCHANGED Find!vars PROVE FindInv'
<1> USE DEF Find!vars, Find!mailbox, Find!modes, Find!list, Find!busy, Find!calls, Find!hist
<1>1. FindTyped' /\ OneAsked' /\ ModesRight'
  BY DEF FindInv, FindTyped, OneAsked, ModesRight, AskRight, Find!Both
<1>2. Find!Orderly' = Find!Orderly /\ Steady' = Steady /\ Find!Current' = Find!Current
  BY DEF Steady, Find!Orderly, Find!Searching, Find!Current
<1>3. OfSearch'
  BY <1>2 DEF FindInv, OfSearch
<1>4. RowsSteady'
  BY <1>2 DEF FindInv, RowsSteady, Find!Again, Rank
<1>5. \A r \in asking' : PageSteady(r)'
  BY <1>2 DEF FindInv, PageSteady, Rank
<1> QED
  BY <1>1, <1>3, <1>4, <1>5 DEF FindInv

\* A request is sent.
LEMMA FindRuns ==
  ASSUME FindLimits, FindTyped, NEW s \in Find!Search, NEW reset \in BOOLEAN, Find!Run(s, reset)
  PROVE  /\ results' \in Seq(Find!Result) /\ offset' \in Nat
         /\ inFlight' /\ searching' \in BOOLEAN /\ loadingMore' \in BOOLEAN
         /\ hasMore' = hasMore /\ trouble' = trouble
         /\ issued' \in 0 .. MaxSearches /\ \A r \in asking' : AskRight(r)'
         /\ \E q : /\ asking' = asking \cup {q} /\ q.search = s /\ q.reset = reset
                   /\ q.offset = offset' /\ q.at = "sent"
         /\ results' = (IF reset THEN << >> ELSE results) /\ offset' = (IF reset THEN 0 ELSE offset)
<1>1. /\ issued < MaxSearches /\ issued' = issued + 1 /\ inFlight' = TRUE
      /\ searching' = (searching \/ reset) /\ loadingMore' = (loadingMore \/ ~reset)
      /\ offset' = (IF reset THEN 0 ELSE offset) /\ results' = (IF reset THEN << >> ELSE results)
      /\ hasMore' = hasMore /\ trouble' = trouble
  BY DEF Find!Run, Find!Reset
<1>2. /\ issued \in Nat /\ issued <= MaxSearches /\ MaxSearches \in Nat /\ offset \in Nat
      /\ results \in Seq(Find!Result) /\ searching \in BOOLEAN /\ loadingMore \in BOOLEAN
  BY DEF FindTyped, FindLimits
<1>3. /\ issued' \in 0 .. MaxSearches /\ issued' \in Nat /\ issued <= issued' /\ issued' \in 1 .. issued'
      /\ offset' \in Nat
  BY <1>1, <1>2
<1>4. results' \in Seq(Find!Result) /\ << >> \in Seq(Find!Result)
  BY <1>1, <1>2
<1>5. PICK q : q = [n |-> issued + 1, search |-> s, reset |-> reset, offset |-> offset', at |-> "sent",
                    got |-> << >>, more |-> FALSE]
  OBVIOUS
<1>6. asking' = asking \cup {q}
  BY <1>5 DEF Find!Run
<1>7. AskRight(q)'
  <2>1. q \in [n : 1 .. issued', search : Find!Search, reset : BOOLEAN, offset : Nat,
               at : {"sent", "answered", "refused"}, got : Seq(Find!Result), more : BOOLEAN]
    BY <1>1, <1>3, <1>4, <1>5
  <2>2. q.got = << >>
    BY <1>5
  <2> QED
    BY <2>1, <2>2 DEF AskRight
<1>8. \A r \in asking : AskRight(r)'
  BY <1>2, <1>3, AskKept DEF FindTyped
<1>9. q.search = s /\ q.reset = reset /\ q.offset = offset' /\ q.at = "sent"
  BY <1>5
<1>10. searching' \in BOOLEAN /\ loadingMore' \in BOOLEAN
  BY <1>1
<1> QED
  BY <1>1, <1>3, <1>4, <1>6, <1>7, <1>8, <1>9, <1>10

\* A search that begins is the one shown, and has found nothing yet.
LEMMA FindBegins ==
  ASSUME FindLimits, FindInv, NEW s \in Find!Search, Find!Begins(s), UNCHANGED Find!mailbox,
         input' \in Find!Texts, timer' \in Find!Texts, query' \in Find!Texts, fields' \subseteq Find!Fields,
         mixture' \in BOOLEAN, late' \in BOOLEAN,
         Find!Orderly' => s = Find!Current', ModesRight'
  PROVE  FindInv'
<1>1. /\ Find!Run(s, TRUE) /\ crossing' = (asking # {}) /\ gone' = FALSE /\ begun' = arrived
      /\ live' = live /\ arrived' = arrived
  BY DEF Find!Begins, Find!mailbox
<1>2. FindTyped
  BY DEF FindInv
<1>3. /\ results' = << >> /\ offset' = 0 /\ inFlight' /\ \A r \in asking' : AskRight(r)'
      /\ results' \in Seq(Find!Result) /\ offset' \in Nat
      /\ searching' \in BOOLEAN /\ loadingMore' \in BOOLEAN
      /\ hasMore' = hasMore /\ trouble' = trouble /\ issued' \in 0 .. MaxSearches
  BY <1>1, <1>2, FindRuns
<1>4. PICK q : asking' = asking \cup {q} /\ q.search = s /\ q.offset = offset' /\ q.at = "sent"
  BY <1>1, <1>2, FindRuns
<1>5. FindTyped'
  <2>1. arrived \in 0 .. MaxMail /\ live \subseteq 1 .. arrived /\ hasMore \in BOOLEAN
        /\ trouble \in 0 .. SearchEvents /\ begun' \in 0 .. arrived'
    BY <1>1, <1>2, LiveIs DEF FindTyped
  <2>2. inFlight' \in BOOLEAN /\ crossing' \in BOOLEAN /\ gone' \in BOOLEAN
    BY <1>1, FindRuns DEF Find!Run
  <2> QED
    BY <1>1, <1>3, <2>1, <2>2 DEF FindTyped
<1>6. OneAsked'
  BY <1>1, <1>3, <1>4 DEF OneAsked
<1>7. ~crossing' => asking' = {q}
  BY <1>1, <1>4
<1>8. OfSearch'
  BY <1>3, <1>4, <1>7 DEF OfSearch, Find!Orderly
<1>9. RowsSteady'
  BY <1>3 DEF RowsSteady
<1>10. \A r \in asking' : PageSteady(r)'
  BY <1>4, <1>7 DEF PageSteady, Steady, Find!Orderly
<1> QED
  BY <1>5, <1>6, <1>8, <1>9, <1>10 DEF FindInv

\* A search is given up: none is shown, or a text and a filter met.
LEMMA FindStops ==
  ASSUME FindLimits, FindInv, Find!Stops, UNCHANGED Find!mailbox, results' = << >>, begun' = begun,
         input' \in Find!Texts, timer' \in Find!Texts, query' \in Find!Texts, fields' \subseteq Find!Fields,
         mixture' \in BOOLEAN, late' \in BOOLEAN, gone' = gone,
         ~Find!Orderly', ModesRight'
  PROVE  FindInv'
<1>1. /\ UNCHANGED <<offset, hasMore, inFlight, searching, loadingMore, asking, issued, trouble>>
      /\ crossing' = (crossing \/ asking # {}) /\ live' = live /\ arrived' = arrived
  BY DEF Find!Stops, Find!mailbox, Find!busy, Find!calls
<1>2. FindTyped'
  <2>1. results' \in Seq(Find!Result) /\ crossing' \in BOOLEAN
    BY <1>1
  <2> QED
    BY <1>1, <2>1 DEF FindInv, FindTyped, AskRight
<1>3. OneAsked'
  BY <1>1 DEF FindInv, OneAsked
<1>4. OfSearch' /\ ~Steady'
  BY DEF OfSearch, Steady
<1> QED
  BY <1>2, <1>3, <1>4, NotSteady DEF FindInv

LEMMA TextIs ==
  ASSUME FindLimits
  PROVE  Find!NoText \in Find!Texts /\ \A q \in Queries : q \in Find!Texts /\ q # Find!NoText
BY DEF FindLimits, Find!Texts

LEMMA FindTypes == ASSUME FindLimits, FindInv, NEW text \in Queries, Find!Type(text) PROVE FindInv'
<1>1. /\ input' = text /\ timer' = text /\ late' = FALSE /\ live' = live /\ arrived' = arrived
      /\ UNCHANGED <<query, fields, results, offset, hasMore, inFlight, searching, loadingMore,
                     asking, issued, trouble, crossing, mixture, gone, begun>>
  BY DEF Find!Type, Find!mailbox, Find!list, Find!busy, Find!calls
<1>2. FindTyped' /\ OneAsked'
  BY <1>1, TextIs DEF FindInv, FindTyped, OneAsked, AskRight
<1>3. ModesRight'
  BY <1>1, TextIs DEF FindInv, ModesRight, Find!Both
<1>4. Find!Orderly' = Find!Orderly /\ Steady' = Steady /\ Find!Current' = Find!Current
  BY <1>1 DEF Steady, Find!Orderly, Find!Searching, Find!Current
<1>5. OfSearch'
  BY <1>1, <1>4 DEF FindInv, OfSearch
<1>6. RowsSteady'
  BY <1>1, <1>4 DEF FindInv, RowsSteady, Find!Again, Rank
<1>7. \A r \in asking' : PageSteady(r)'
  BY <1>1, <1>4 DEF FindInv, PageSteady, Rank
<1> QED
  BY <1>2, <1>3, <1>5, <1>6, <1>7 DEF FindInv

LEMMA FindErases == ASSUME FindLimits, FindInv, Find!Erase PROVE FindInv'
<1>1. /\ input' = Find!NoText /\ timer' = Find!NoText /\ query' = Find!NoText /\ results' = << >>
      /\ Find!Stops /\ mixture' = (mixture \/ fields # {}) /\ late' = FALSE
      /\ UNCHANGED <<Find!mailbox, fields, gone, begun>>
  BY DEF Find!Erase
<1>2. ~Find!Orderly'
  BY <1>1 DEF Find!Orderly, Find!Searching
<1>3. ModesRight'
  BY <1>1 DEF ModesRight, Find!Both
<1>4. fields \subseteq Find!Fields
  BY DEF FindInv, FindTyped
<1>5. mixture' \in BOOLEAN /\ late' \in BOOLEAN
  BY <1>1
<1> QED
  BY <1>1, <1>2, <1>3, <1>4, <1>5, TextIs, FindStops

LEMMA SearchIs ==
  ASSUME FindLimits
  PROVE  /\ \A q \in Find!Texts : Find!Plain(q) \in Find!Search
         /\ \A f \in SUBSET Find!Fields : Find!Structured(f) \in Find!Search
BY TextIs DEF Find!Plain, Find!Structured, Find!Search

LEMMA FindRests == ASSUME FindLimits, FindInv, Find!Rests PROVE FindInv'
<1>1. /\ timer # Find!NoText /\ timer' = Find!NoText /\ query' = timer
      /\ UNCHANGED <<Find!mailbox, input, fields, late>>
  BY DEF Find!Rests
<1>2. /\ input \in Find!Texts /\ timer \in Find!Texts /\ fields \subseteq Find!Fields /\ late \in BOOLEAN
  BY DEF FindInv, FindTyped
<1>3. CASE timer # query
  <2>1. Find!Begins(Find!Plain(timer)) /\ mixture' = Find!Both(timer, fields)
    BY <1>3 DEF Find!Rests
  <2>2. ModesRight'
    BY <1>1, <2>1 DEF FindInv, ModesRight, Find!Both
  <2>3. Find!Orderly' => Find!Plain(timer) = Find!Current'
    BY <1>1, <2>1 DEF Find!Orderly, Find!Current, Find!Both
  <2>4. mixture' \in BOOLEAN
    BY <2>1 DEF Find!Both
  <2> QED
    BY <1>1, <1>2, <2>1, <2>2, <2>3, <2>4, TextIs, SearchIs, FindBegins
<1>4. CASE timer = query
  <2>1. /\ UNCHANGED <<query, live, arrived, input, fields, late, results, offset, hasMore, inFlight, searching,
                       loadingMore, asking, issued, trouble, crossing, mixture, gone, begun>>
    BY <1>1, <1>4 DEF Find!Rests, Find!mailbox, Find!list, Find!busy, Find!calls
  <2>2. FindTyped' /\ OneAsked'
    BY <1>1, <2>1, TextIs DEF FindInv, FindTyped, OneAsked, AskRight
  <2>3. ModesRight'
    BY <1>1, <1>4, <2>1 DEF FindInv, ModesRight, Find!Both
  <2>4. Find!Orderly' = Find!Orderly /\ Steady' = Steady /\ Find!Current' = Find!Current
    BY <2>1 DEF Steady, Find!Orderly, Find!Searching, Find!Current
  <2>5. OfSearch'
    BY <2>1, <2>4 DEF FindInv, OfSearch
  <2>6. RowsSteady'
    BY <2>1, <2>4 DEF FindInv, RowsSteady, Find!Again, Rank
  <2>7. \A r \in asking' : PageSteady(r)'
    BY <2>1, <2>4 DEF FindInv, PageSteady, Rank
  <2> QED
    BY <2>2, <2>3, <2>5, <2>6, <2>7 DEF FindInv
<1> QED
  BY <1>3, <1>4

LEMMA FindFilters == ASSUME FindLimits, FindInv, NEW f \in FieldSets, Find!AdvancedSearch(f) PROVE FindInv'
<1>1. /\ input' = Find!NoText /\ query' = Find!NoText /\ fields' = f
      /\ Find!Begins(Find!Structured(f)) /\ mixture' = FALSE
      /\ late' = (late \/ timer # Find!NoText) /\ UNCHANGED <<Find!mailbox, timer>>
  BY DEF Find!AdvancedSearch
<1>2. f \subseteq Find!Fields /\ timer \in Find!Texts
  BY DEF Find!Fields, FindInv, FindTyped
<1>3. ModesRight'
  BY <1>1 DEF ModesRight, Find!Both
<1>4. Find!Orderly' => Find!Structured(f) = Find!Current'
  BY <1>1 DEF Find!Orderly, Find!Searching, Find!Current
<1>5. mixture' \in BOOLEAN /\ late' \in BOOLEAN
  BY <1>1
<1>6. Find!Structured(f) \in Find!Search
  BY <1>2, SearchIs
<1> QED
  BY <1>1, <1>2, <1>3, <1>4, <1>5, <1>6, TextIs, FindBegins

LEMMA FindNarrows == ASSUME FindLimits, FindInv, NEW key \in Find!Fields, Find!RemoveField(key) PROVE FindInv'
<1>1. /\ fields' = fields \ {key} /\ mixture' = (Find!Both(query, fields') \/ (fields' = {} /\ mixture))
      /\ UNCHANGED <<Find!mailbox, input, timer, query, late>> /\ key \in fields
  BY DEF Find!RemoveField
<1>2. /\ input \in Find!Texts /\ timer \in Find!Texts /\ query \in Find!Texts /\ fields' \subseteq Find!Fields
      /\ late \in BOOLEAN
  BY <1>1 DEF FindInv, FindTyped
<1>3. ModesRight'
  BY <1>1 DEF FindInv, ModesRight, Find!Both
<1>4. mixture' \in BOOLEAN
  BY <1>1 DEF FindInv, FindTyped, Find!Both
<1>5. CASE fields' # {}
  <2>1. Find!Begins(Find!Structured(fields'))
    BY <1>5 DEF Find!RemoveField
  <2>2. Find!Orderly' => Find!Structured(fields') = Find!Current'
    BY <1>5 DEF Find!Current
  <2>3. PICK s \in Find!Search : s = Find!Structured(fields')
    BY <1>2, SearchIs
  <2> QED
    BY <1>1, <1>2, <1>3, <1>4, <2>1, <2>2, <2>3, FindBegins
<1>6. CASE fields' = {}
  <2>1. results' = << >> /\ Find!Stops /\ UNCHANGED <<gone, begun>>
    BY <1>6 DEF Find!RemoveField
  <2>2. ~Find!Orderly'
    BY <1>1, <1>6 DEF Find!Orderly, Find!Searching, FindInv, ModesRight, Find!Both
  <2> QED
    BY <1>1, <1>2, <1>3, <1>4, <2>1, <2>2, FindStops
<1> QED
  BY <1>5, <1>6

LEMMA FindClears == ASSUME FindLimits, FindInv, Find!ClearSearch PROVE FindInv'
<1>1. /\ input' = Find!NoText /\ query' = Find!NoText /\ fields' = {} /\ results' = << >> /\ Find!Stops
      /\ late' = (late \/ timer # Find!NoText) /\ UNCHANGED <<Find!mailbox, timer, mixture, gone, begun>>
  BY DEF Find!ClearSearch
<1>2. ~Find!Orderly'
  BY <1>1 DEF Find!Orderly, Find!Searching
<1>3. ModesRight'
  BY <1>1 DEF ModesRight, Find!Both
<1>4. timer \in Find!Texts /\ mixture \in BOOLEAN
  BY DEF FindInv, FindTyped
<1>5. late' \in BOOLEAN
  BY <1>1
<1> QED
  BY <1>1, <1>2, <1>3, <1>4, <1>5, TextIs, FindStops

LEMMA FindLoadsMore == ASSUME FindLimits, FindInv, Find!LoadMore PROVE FindInv'
<1>1. /\ Find!Run(Find!Current, FALSE) /\ ~inFlight
      /\ UNCHANGED <<live, arrived, input, timer, query, fields, crossing, mixture, late, gone, begun>>
  BY DEF Find!LoadMore, Find!MayLoad, Find!mailbox, Find!modes, Find!hist
<1>2. FindTyped
  BY DEF FindInv
<1>3. PICK s \in Find!Search : s = Find!Current
  BY <1>2, SearchIs DEF Find!Current, FindTyped
<1>4. /\ results' = results /\ offset' = offset /\ inFlight' /\ \A r \in asking' : AskRight(r)'
      /\ searching' \in BOOLEAN /\ loadingMore' \in BOOLEAN
      /\ hasMore' = hasMore /\ trouble' = trouble /\ issued' \in 0 .. MaxSearches
  BY <1>1, <1>2, <1>3, FindRuns
<1>5. PICK q : asking' = asking \cup {q} /\ q.search = s /\ q.reset = FALSE /\ q.offset = offset' /\ q.at = "sent"
  BY <1>1, <1>2, <1>3, FindRuns
<1>6. FindTyped'
  <2>1. inFlight' \in BOOLEAN
    BY <1>1 DEF Find!Run
  <2> QED
    BY <1>1, <1>2, <1>4, <2>1 DEF FindTyped
<1>7. ~crossing => asking = {}
  BY <1>1 DEF FindInv, OneAsked
<1>8. OneAsked'
  BY <1>1, <1>4, <1>5, <1>7 DEF OneAsked
<1>9. ModesRight'
  BY <1>1 DEF FindInv, ModesRight, Find!Both
<1>10. Find!Orderly' = Find!Orderly /\ Steady' = Steady /\ Find!Current' = Find!Current
  BY <1>1 DEF Steady, Find!Orderly, Find!Searching, Find!Current
<1>11. OfSearch'
  BY <1>1, <1>3, <1>4, <1>5, <1>7, <1>10 DEF FindInv, OfSearch, Find!Orderly
<1>12. RowsSteady'
  BY <1>1, <1>4, <1>10 DEF FindInv, RowsSteady, Find!Again, Rank
<1>13. \A r \in asking' : PageSteady(r)'
  <2>1. \A r \in asking : PageSteady(r)'
    BY <1>1, <1>4, <1>10 DEF FindInv, PageSteady, Rank
  <2> QED
    BY <1>5, <2>1 DEF PageSteady
<1> QED
  BY <1>6, <1>8, <1>9, <1>11, <1>12, <1>13 DEF FindInv
-----------------------------------------------------------------------------
(* The server answers or refuses.                                          *)

LEMMA RowsStill ==
  ASSUME RowsSteady, Steady' = Steady, UNCHANGED <<live, results, offset, begun>>
  PROVE  RowsSteady'
BY DEF RowsSteady, Find!Again, Rank

LEMMA FindReplaces ==
  ASSUME FindLimits, FindInv, NEW r \in asking, NEW q, AskRight(q), PageSteady(q),
         q.search = r.search, q.offset = r.offset, q.reset = r.reset,
         asking' = (asking \ {r}) \cup {q}, trouble' \in 0 .. SearchEvents,
         UNCHANGED <<Find!mailbox, Find!modes, Find!list, Find!busy, issued, Find!hist>>
  PROVE  FindInv'
<1>1. UNCHANGED <<live, arrived, input, timer, query, fields, results, offset, hasMore, inFlight, searching,
                  loadingMore, issued, crossing, mixture, late, gone, begun>>
  BY DEF Find!mailbox, Find!modes, Find!list, Find!busy, Find!hist
<1>2. FindTyped'
  BY <1>1 DEF FindInv, FindTyped, AskRight
<1>3. OneAsked'
  BY <1>1 DEF FindInv, OneAsked
<1>4. ModesRight'
  BY <1>1 DEF FindInv, ModesRight, Find!Both
<1>5. Find!Orderly' = Find!Orderly /\ Steady' = Steady /\ Find!Current' = Find!Current
  BY <1>1 DEF Steady, Find!Orderly, Find!Searching, Find!Current
<1>6. OfSearch'
  BY <1>1, <1>5 DEF FindInv, OfSearch
<1>7. RowsSteady'
  <2>1. RowsSteady /\ Steady' = Steady /\ UNCHANGED <<live, results, offset, begun>>
    BY <1>1, <1>5 DEF FindInv
  <2> QED
    BY <2>1, RowsStill
<1>8. \A x \in asking' : PageSteady(x)'
  <2>1. \A x \in asking \cup {q} : PageSteady(x)'
    BY <1>1, <1>5 DEF FindInv, PageSteady, Rank
  <2> QED
    BY <2>1
<1> QED
  BY <1>2, <1>3, <1>4, <1>6, <1>7, <1>8 DEF FindInv

\* What the server finds, with or without the rows of its messages.
LEMMA FindAnswers ==
  ASSUME FindLimits, FindInv, NEW r \in asking, NEW g \in Seq(Find!Result), NEW more \in BOOLEAN,
         \A i \in DOMAIN g : /\ g[i].search = r.search /\ g[i].mail \in live
                             /\ Rank(g[i].mail) = r.offset + i,
         Find!Replaces(r, [r EXCEPT !.at = "answered", !.got = g, !.more = more]),
         trouble' \in 0 .. SearchEvents,
         UNCHANGED <<Find!mailbox, Find!modes, Find!list, Find!busy, issued, Find!hist>>
  PROVE  FindInv'
<1>1. FindTyped /\ AskRight(r)
  BY DEF FindInv, FindTyped
<1>2. PICK q : q = [r EXCEPT !.at = "answered", !.got = g, !.more = more]
  OBVIOUS
<1>3. asking' = (asking \ {r}) \cup {q}
  BY <1>2 DEF Find!Replaces
<1>4. /\ q.search = r.search /\ q.offset = r.offset /\ q.reset = r.reset /\ q.got = g
      /\ q \in [n : 1 .. issued, search : Find!Search, reset : BOOLEAN, offset : Nat,
                at : {"sent", "answered", "refused"}, got : Seq(Find!Result), more : BOOLEAN]
  BY <1>1, <1>2 DEF AskRight
<1>5. r.offset \in Nat
  BY <1>1 DEF AskRight
<1>6. /\ \A i, j \in DOMAIN g : i < j => g[i].mail > g[j].mail
      /\ \A m \in live : g # << >> /\ m >= g[Len(g)].mail /\ m <= g[1].mail =>
            \E k \in DOMAIN g : g[k].mail = m
      /\ g # << >> => r.offset + Len(g) <= Rank(g[Len(g)].mail)
      /\ \A m \in live : g # << >> /\ m > g[1].mail => Rank(m) <= r.offset
  <2>1. \A i \in DOMAIN g : g[i].mail \in live /\ Rank(g[i].mail) = r.offset + i
    OBVIOUS
  <2> QED
    BY <1>1, <1>5, <2>1, FoundSteady
<1>7. AskRight(q)
  BY <1>4, <1>6 DEF AskRight
<1>8. PageSteady(q)
  <2>1. SUFFICES ASSUME Steady, g # << >> PROVE PageSteady(q)
    BY <1>4 DEF PageSteady
  <2>2. /\ r.offset = offset /\ offset \in Nat /\ 1 \in DOMAIN g /\ Len(g) \in Nat
        /\ (results = << >> => offset = 0)
        /\ (results # << >> => \E i \in DOMAIN results : /\ results[i].mail \in live
                                                          /\ offset <= Rank(results[i].mail))
    BY <2>1, <1>1 DEF FindInv, OfSearch, RowsSteady, Steady, FindTyped
  <2>3. /\ \A m, k \in live : m > k <=> Rank(m) < Rank(k)
        /\ \A m \in live : m \in Nat /\ Rank(m) \in Nat /\ Rank(m) # 0
    BY <1>1, LiveIs, RankIs
  <2>4. g[1].mail \in live
    BY <2>2
  <2>5. ASSUME results = << >>, NEW m \in live PROVE m <= g[1].mail
    <3>1. ~(m > g[1].mail)
      <4>1. SUFFICES ASSUME m > g[1].mail PROVE FALSE
        OBVIOUS
      <4>2. Rank(m) <= 0
        BY <1>6, <2>1, <2>2, <2>5, <4>1
      <4> QED
        BY <2>3, <4>2
    <3> QED
      BY <2>3, <2>4, <3>1
  <2>6. ASSUME results # << >>, NEW m \in live, m > g[1].mail PROVE \E i \in DOMAIN results : results[i].mail <= m
    <3>1. PICK i \in DOMAIN results : results[i].mail \in live /\ offset <= Rank(results[i].mail)
      BY <2>2, <2>6
    <3>2. Rank(m) <= offset
      BY <1>6, <2>1, <2>2, <2>6
    <3>3. ~(results[i].mail > m)
      BY <2>2, <2>3, <3>1, <3>2
    <3>4. results[i].mail \in Nat /\ m \in Nat
      BY <2>3, <3>1
    <3>5. results[i].mail <= m
      BY <3>3, <3>4
    <3> QED
      BY <3>5
  <2>7. /\ q.got = g
        /\ \A i \in DOMAIN g : g[i].mail \in live
        /\ \A m \in live : m >= g[Len(g)].mail /\ m <= g[1].mail => \E k \in DOMAIN g : g[k].mail = m
        /\ offset + Len(g) <= Rank(g[Len(g)].mail)
    BY <1>4, <1>6, <2>1, <2>2
  <2> QED
    BY <2>5, <2>6, <2>7 DEF PageSteady
<1> QED
  BY <1>3, <1>4, <1>7, <1>8, FindReplaces

LEMMA FindServes == ASSUME FindLimits, FindInv, NEW r \in asking, Find!Serve(r) PROVE FindInv'
<1>1. FindTyped /\ AskRight(r) /\ trouble \in 0 .. SearchEvents /\ SearchEvents \in Nat
  BY DEF FindInv, FindTyped, FindLimits
<1>2. PICK more \in BOOLEAN : more = (Find!Cardinality(live) > r.offset + PageSize)
  <2>1. PICK more : more = (Find!Cardinality(live) > r.offset + PageSize)
    OBVIOUS
  <2>2. more = TRUE \/ more = FALSE
    BY <2>1
  <2> QED
    BY <2>1, <2>2
<1>3. PICK p : p = Find!Page(r)
  OBVIOUS
<1>4. /\ p \in Seq(Find!Result)
      /\ \A i \in DOMAIN p : /\ p[i].search = r.search /\ p[i].mail \in live
                             /\ Rank(p[i].mail) = r.offset + i
  BY <1>1, <1>3, FoundIs
<1>5. /\ UNCHANGED <<Find!mailbox, Find!modes, Find!list, Find!busy, issued, Find!hist>>
      /\ \/ Find!Replaces(r, [r EXCEPT !.at = "answered", !.got = p, !.more = more]) /\ UNCHANGED trouble
         \/ /\ Find!Event
            /\ \E i \in DOMAIN p :
                  Find!Replaces(r, [r EXCEPT !.at = "answered", !.got = [p EXCEPT ![i].saved = FALSE],
                                             !.more = more])
  BY <1>2, <1>3 DEF Find!Serve
<1>6. CASE Find!Replaces(r, [r EXCEPT !.at = "answered", !.got = p, !.more = more]) /\ UNCHANGED trouble
  BY <1>1, <1>4, <1>5, <1>6, FindAnswers
<1>7. ASSUME Find!Event, NEW i \in DOMAIN p,
             Find!Replaces(r, [r EXCEPT !.at = "answered", !.got = [p EXCEPT ![i].saved = FALSE],
                                        !.more = more])
      PROVE  FindInv'
  <2>1. trouble' \in 0 .. SearchEvents
    BY <1>1, <1>7 DEF Find!Event
  <2>2. PICK g : g = [p EXCEPT ![i].saved = FALSE]
    OBVIOUS
  <2>3. PICK x : x = [p[i] EXCEPT !.saved = FALSE]
    OBVIOUS
  <2>4. p[i] \in Find!Result
    BY <1>4
  <2>5. x \in Find!Result /\ x.search = p[i].search /\ x.mail = p[i].mail
    BY <2>3, <2>4 DEF Find!Result
  <2>6. g = [p EXCEPT ![i] = x]
    BY <2>2, <2>3
  <2>7. g \in Seq(Find!Result) /\ DOMAIN g = DOMAIN p
        /\ \A k \in DOMAIN g : g[k] = IF k = i THEN x ELSE p[k]
    BY <1>4, <2>5, <2>6
  <2>8. \A k \in DOMAIN g : /\ g[k].search = r.search /\ g[k].mail \in live
                            /\ Rank(g[k].mail) = r.offset + k
    BY <1>4, <2>5, <2>7
  <2>9. Find!Replaces(r, [r EXCEPT !.at = "answered", !.got = g, !.more = more])
    BY <1>7, <2>2
  <2> QED
    BY <1>5, <2>1, <2>7, <2>8, <2>9, FindAnswers
<1> QED
  BY <1>5, <1>6, <1>7

LEMMA FindRefuses == ASSUME FindLimits, FindInv, NEW r \in asking, Find!Refuse(r) PROVE FindInv'
<1>1. /\ Find!Event /\ Find!Replaces(r, [r EXCEPT !.at = "refused"])
      /\ UNCHANGED <<Find!mailbox, Find!modes, Find!list, Find!busy, issued, Find!hist>>
  BY DEF Find!Refuse
<1>2. AskRight(r) /\ trouble \in 0 .. SearchEvents /\ SearchEvents \in Nat
  BY DEF FindInv, FindTyped, FindLimits
<1>3. PICK q : q = [r EXCEPT !.at = "refused"]
  OBVIOUS
<1>4. /\ q.search = r.search /\ q.offset = r.offset /\ q.reset = r.reset /\ q.got = r.got /\ q.at = "refused"
      /\ q \in [n : 1 .. issued, search : Find!Search, reset : BOOLEAN, offset : Nat,
                at : {"sent", "answered", "refused"}, got : Seq(Find!Result), more : BOOLEAN]
  BY <1>2, <1>3 DEF AskRight
<1>5. AskRight(q)
  BY <1>2, <1>4 DEF AskRight
<1>6. PageSteady(q)
  BY <1>4 DEF PageSteady
<1>7. asking' = (asking \ {r}) \cup {q} /\ trouble' \in 0 .. SearchEvents
  BY <1>1, <1>2, <1>3 DEF Find!Event, Find!Replaces
<1> QED
  BY <1>1, <1>4, <1>5, <1>6, <1>7, FindReplaces
-----------------------------------------------------------------------------
(* The mailbox changes; a row is taken off.                                *)

LEMMA FindFails == ASSUME FindLimits, FindInv, NEW r \in asking, Find!Fail(r) PROVE FindInv'
<1>1. /\ asking' = asking \ {r} /\ inFlight' = FALSE /\ searching' = FALSE /\ loadingMore' = FALSE
      /\ UNCHANGED <<live, arrived, input, timer, query, fields, results, offset, hasMore, issued, trouble,
                     crossing, mixture, late, gone, begun>>
  BY DEF Find!Fail, Find!Ends, Find!mailbox, Find!modes, Find!list, Find!hist
<1>2. FindTyped'
  BY <1>1 DEF FindInv, FindTyped, AskRight
<1>3. OneAsked'
  BY <1>1 DEF FindInv, OneAsked
<1>4. ModesRight'
  BY <1>1 DEF FindInv, ModesRight, Find!Both
<1>5. Find!Orderly' = Find!Orderly /\ Steady' = Steady /\ Find!Current' = Find!Current
  BY <1>1 DEF Steady, Find!Orderly, Find!Searching, Find!Current
<1>6. OfSearch'
  BY <1>1, <1>5 DEF FindInv, OfSearch
<1>7. RowsSteady'
  BY <1>1, <1>5, RowsStill DEF FindInv
<1>8. \A x \in asking : PageSteady(x)'
  BY <1>1, <1>5 DEF FindInv, PageSteady, Rank
<1> QED
  BY <1>1, <1>2, <1>3, <1>4, <1>6, <1>7, <1>8 DEF FindInv

LEMMA FindArrives == ASSUME FindLimits, FindInv, Find!Arrives PROVE FindInv'
<1>1. /\ trouble < SearchEvents /\ trouble' = trouble + 1
      /\ arrived < MaxMail /\ arrived' = arrived + 1 /\ live' = live \cup {arrived + 1}
      /\ UNCHANGED <<input, timer, query, fields, results, offset, hasMore, inFlight, searching,
                     loadingMore, asking, issued, crossing, mixture, late, gone, begun>>
  BY DEF Find!Arrives, Find!Event, Find!modes, Find!list, Find!busy, Find!hist
<1>t. FindTyped
  BY DEF FindInv
<1>2. FindTyped'
  <2>1. arrived \in 0 .. MaxMail /\ live \subseteq 1 .. arrived /\ begun \in 0 .. arrived /\ MaxMail \in Nat
        /\ trouble \in 0 .. SearchEvents /\ SearchEvents \in Nat
    BY <1>t DEF FindTyped, FindLimits
  <2>2. /\ arrived' \in 0 .. MaxMail /\ live' \subseteq 1 .. arrived' /\ begun' \in 0 .. arrived'
        /\ trouble' \in 0 .. SearchEvents
    BY <1>1, <2>1
  <2> QED
    BY <1>1, <1>t, <2>2 DEF FindTyped, AskRight
<1>3. OneAsked'
  BY <1>1 DEF FindInv, OneAsked
<1>4. ModesRight'
  BY <1>1 DEF FindInv, ModesRight, Find!Both
<1>5. Find!Orderly' = Find!Orderly /\ Steady' = Steady /\ Find!Current' = Find!Current
  BY <1>1 DEF Steady, Find!Orderly, Find!Searching, Find!Current
<1>6. OfSearch'
  BY <1>1, <1>5 DEF FindInv, OfSearch
<1>7. PICK n \in Nat : /\ n = arrived + 1 /\ live' = live \cup {n} /\ n > begun
                       /\ \A m \in live : m \in Nat /\ n > m
  <2>1. arrived \in Nat /\ begun \in Nat /\ begun <= arrived /\ \A m \in live : m \in Nat /\ m <= arrived
    BY <1>t, LiveIs
  <2> QED
    BY <1>1, <2>1
<1>8. \A m \in live : Rank(m) \in Nat /\ Rank(m)' \in Nat /\ Rank(m) <= Rank(m)'
  <2> SUFFICES ASSUME NEW m \in live PROVE Rank(m) \in Nat /\ Rank(m)' \in Nat /\ Rank(m) <= Rank(m)'
    OBVIOUS
  <2>1. PICK S : S = {k \in live' : k >= m}
    OBVIOUS
  <2>2. PICK T : T = {k \in live : k >= m}
    OBVIOUS
  <2>3. T \in SUBSET S
    BY <1>7, <2>1, <2>2
  <2>4. IsFiniteSet(live')
    BY <1>t, <1>7, LiveIs, FS_AddElement
  <2>5. IsFiniteSet(S)
    <3>1. S \in SUBSET live'
      BY <2>1
    <3> QED
      BY <2>4, <3>1, FS_Subset
  <2>6. IsFiniteSet(T) /\ Cardinality(T) <= Cardinality(S) /\ Cardinality(T) \in Nat /\ Cardinality(S) \in Nat
    BY <2>3, <2>5, FS_Subset, FS_CardinalityType
  <2>7. Rank(m)' = Cardinality(S) /\ Rank(m) = Cardinality(T)
    BY <2>1, <2>2 DEF Rank
  <2> QED
    BY <2>6, <2>7
<1>9. RowsSteady'
  <2>1. SUFFICES ASSUME Steady PROVE RowsSteady'
    BY <1>5 DEF RowsSteady
  <2>2. /\ \A i \in DOMAIN results : results[i].mail \in live
        /\ \A i, j \in DOMAIN results : i < j =>
              \/ results[i].mail > results[j].mail
              \/ Find!Again(j) \/ results[j].mail > results[1].mail
        /\ \A i \in DOMAIN results, m \in live :
              m > results[i].mail /\ (m <= begun \/ m < results[1].mail) =>
                 \E k \in DOMAIN results : results[k].mail = m
        /\ results # << >> => /\ \E i \in DOMAIN results : offset <= Rank(results[i].mail)
                              /\ \A m \in live : m <= begun => m <= results[1].mail
        /\ results = << >> => offset = 0
    BY <2>1 DEF FindInv, RowsSteady
  <2>3. /\ results \in Seq(Find!Result) /\ offset \in Nat /\ begun \in Nat
        /\ results # << >> => 1 \in DOMAIN results
    BY <1>t, LiveIs DEF FindTyped
  <2>4. \A j : Find!Again(j)' <=> Find!Again(j)
    BY <1>1 DEF Find!Again
  <2>5. \A i \in DOMAIN results : results[i].mail \in live'
    BY <1>7, <2>2
  <2>6. ASSUME NEW i \in DOMAIN results, NEW m \in live', m > results[i].mail, m <= begun \/ m < results[1].mail
        PROVE  \E k \in DOMAIN results : results[k].mail = m
    <3>1. 1 \in DOMAIN results
      BY <2>3
    <3>2. results[1].mail \in live
      BY <2>2, <3>1
    <3>3. PICK a \in Nat : a = results[1].mail /\ n > a
      BY <1>7, <3>2
    <3>4. m # n
      BY <1>7, <2>3, <2>6, <3>3
    <3> QED
      BY <1>7, <2>2, <2>6, <3>4
  <2>7. ASSUME results # << >>
        PROVE  /\ \E i \in DOMAIN results : offset <= Rank(results[i].mail)'
               /\ \A m \in live' : m <= begun => m <= results[1].mail
    <3>1. PICK i \in DOMAIN results : offset <= Rank(results[i].mail) /\ results[i].mail \in live
      BY <2>2, <2>7
    <3>2. PICK a \in live : a = results[i].mail /\ offset <= Rank(a)
      BY <3>1
    <3>3. offset <= Rank(a)'
      BY <1>8, <2>3, <3>2
    <3>4. Rank(results[i].mail)' = Rank(a)'
      BY <1>1, <3>2 DEF Rank
    <3>5. \A m \in live' : m <= begun => m \in live
      BY <1>7, <2>3
    <3> QED
      BY <2>2, <2>7, <3>3, <3>4, <3>5
  <2>8. results' = results /\ offset' = offset /\ begun' = begun
    BY <1>1
  <2> QED
    BY <2>2, <2>4, <2>5, <2>6, <2>7, <2>8 DEF RowsSteady
<1>10. ASSUME NEW r \in asking' PROVE PageSteady(r)'
  <2>1. SUFFICES ASSUME Steady, r.at = "answered", r.got # << >> PROVE PageSteady(r)'
    BY <1>5 DEF PageSteady
  <2>2. PICK g \in Seq(Find!Result) : g = r.got
    BY <1>1, <1>t DEF FindTyped, AskRight
  <2>3. /\ \A i \in DOMAIN g : g[i].mail \in live
        /\ \A m \in live : m >= g[Len(g)].mail /\ m <= g[1].mail => \E k \in DOMAIN g : g[k].mail = m
        /\ offset + Len(g) <= Rank(g[Len(g)].mail)
        /\ results = << >> => \A m \in live : m <= begun => m <= g[1].mail
        /\ results # << >> => \A m \in live : m > g[1].mail => \E i \in DOMAIN results : results[i].mail <= m
    BY <1>1, <2>1, <2>2 DEF FindInv, PageSteady
  <2>4. 1 \in DOMAIN g /\ Len(g) \in DOMAIN g /\ Len(g) \in Nat /\ offset \in Nat /\ begun \in Nat
    BY <1>t, <2>1, <2>2, LiveIs DEF FindTyped
  <2>5. PICK a \in live : a = g[1].mail
    BY <2>3, <2>4
  <2>6. PICK b \in live : b = g[Len(g)].mail /\ offset + Len(g) <= Rank(b)
    BY <2>3, <2>4
  <2>7. offset + Len(g) <= Rank(b)'
    BY <1>8, <2>4, <2>6
  <2>8. \A m \in live' : (m <= a \/ m <= begun) => m \in live
    BY <1>7, <2>4
  <2>9. ASSUME results # << >>, NEW m \in live', m > a PROVE \E i \in DOMAIN results : results[i].mail <= m
    <3>1. CASE m \in live
      BY <2>3, <2>5, <2>9, <3>1
    <3>2. CASE m = n
      <4>1. 1 \in DOMAIN results /\ results[1].mail \in live
        <5>1. results \in Seq(Find!Result)
          BY <1>t DEF FindTyped
        <5>2. 1 \in DOMAIN results
          BY <2>9, <5>1
        <5> QED
          BY <2>1, <5>2 DEF FindInv, RowsSteady
      <4>2. results[1].mail \in Nat /\ n > results[1].mail
        BY <1>7, <4>1
      <4>3. results[1].mail <= m
        BY <3>2, <4>2
      <4> QED
        BY <4>1, <4>3
    <3> QED
      BY <1>7, <3>1, <3>2
  <2>10. Rank(g[Len(g)].mail)' = Rank(b)'
    BY <2>6 DEF Rank
  <2>11. /\ \A i \in DOMAIN g : g[i].mail \in live'
         /\ \A m \in live' : m >= g[Len(g)].mail /\ m <= g[1].mail => \E k \in DOMAIN g : g[k].mail = m
         /\ offset + Len(g) <= Rank(g[Len(g)].mail)'
         /\ results = << >> => \A m \in live' : m <= begun => m <= g[1].mail
         /\ results # << >> => \A m \in live' : m > g[1].mail => \E i \in DOMAIN results : results[i].mail <= m
    BY <1>7, <2>3, <2>5, <2>7, <2>8, <2>9, <2>10
  <2> QED
    BY <1>1, <2>2, <2>11 DEF PageSteady, Rank
<1> QED
  BY <1>2, <1>3, <1>4, <1>6, <1>9, <1>10 DEF FindInv

LEMMA FindLeaves == ASSUME FindLimits, FindInv, NEW m, Find!Leaves(m) PROVE FindInv'
<1>1. /\ trouble < SearchEvents /\ trouble' = trouble + 1 /\ live' = live \ {m} /\ gone' = TRUE
      /\ UNCHANGED <<arrived, input, timer, query, fields, results, offset, hasMore, inFlight, searching,
                     loadingMore, asking, issued, crossing, mixture, late, begun>>
  BY DEF Find!Leaves, Find!Event, Find!modes, Find!list, Find!busy
<1>2. FindTyped'
  <2>1. trouble' \in 0 .. SearchEvents
    BY <1>1 DEF FindInv, FindTyped, FindLimits
  <2> QED
    BY <1>1, <2>1 DEF FindInv, FindTyped, AskRight
<1>3. OneAsked'
  BY <1>1 DEF FindInv, OneAsked
<1>4. ModesRight'
  BY <1>1 DEF FindInv, ModesRight, Find!Both
<1>5. Find!Orderly' = Find!Orderly /\ ~Steady' /\ Find!Current' = Find!Current
  BY <1>1 DEF Steady, Find!Orderly, Find!Searching, Find!Current
<1>6. OfSearch'
  BY <1>1, <1>5 DEF FindInv, OfSearch
<1> QED
  BY <1>2, <1>3, <1>4, <1>5, <1>6, NotSteady DEF FindInv

LEMMA FindRemoves == ASSUME FindLimits, FindInv, NEW m, Find!RemoveRow(m) PROVE FindInv'
<1>1. /\ trouble < SearchEvents /\ trouble' = trouble + 1 /\ gone' = TRUE
      /\ \E i \in DOMAIN results : results[i].mail = m
      /\ UNCHANGED <<live, arrived, input, timer, query, fields, offset, hasMore, inFlight, searching,
                     loadingMore, asking, issued, crossing, mixture, late, begun>>
  BY DEF Find!RemoveRow, Find!Event, Find!mailbox, Find!modes, Find!busy
<1>2. PICK J \in SUBSET DOMAIN results : results' = Find!Kept(results, J)
  BY DEF Find!RemoveRow
<1>3. results \in Seq(Find!Result)
  BY DEF FindInv, FindTyped
<1>4. results' \in Seq(Find!Result)
  BY <1>2, <1>3, KeptIs
<1>5. PICK f \in [DOMAIN results' -> J] :
               /\ \A k \in DOMAIN results' : results'[k] = results[f[k]]
               /\ \A k, n \in DOMAIN results' : k < n => f[k] < f[n]
  BY <1>2, <1>3, KeptIs
<1>6. FindTyped'
  <2>1. trouble' \in 0 .. SearchEvents
    BY <1>1 DEF FindInv, FindTyped, FindLimits
  <2> QED
    BY <1>1, <1>4, <2>1 DEF FindInv, FindTyped, AskRight
<1>7. OneAsked'
  BY <1>1 DEF FindInv, OneAsked
<1>8. ModesRight'
  BY <1>1 DEF FindInv, ModesRight, Find!Both
<1>9. Find!Orderly' = Find!Orderly /\ ~Steady' /\ Find!Current' = Find!Current
  BY <1>1 DEF Steady, Find!Orderly, Find!Searching, Find!Current
<1>10. OfSearch'
  <2>1. SUFFICES ASSUME Find!Orderly PROVE OfSearch'
    BY <1>9 DEF OfSearch
  <2>2. /\ \A i \in DOMAIN results : results[i].search = Find!Current
        /\ \A i, j \in DOMAIN results : i # j => results[i] # results[j]
        /\ \A r \in asking : /\ r.search = Find!Current /\ r.offset = offset
                             /\ r.reset => results = << >>
    BY <2>1 DEF FindInv, OfSearch
  <2>3. \A r \in asking : ~r.reset
    BY <1>1, <1>3, <2>2
  <2>4. ASSUME NEW i \in DOMAIN results', NEW j \in DOMAIN results', i # j PROVE results'[i] # results'[j]
    <3>1. i \in Nat /\ j \in Nat
      BY <1>4
    <3>2. f[i] \in DOMAIN results /\ f[j] \in DOMAIN results /\ f[i] \in Nat /\ f[j] \in Nat
      BY <1>3, <1>5
    <3>3. f[i] < f[j] \/ f[j] < f[i]
      BY <1>5, <2>4, <3>1
    <3>4. f[i] # f[j]
      BY <3>2, <3>3
    <3> QED
      BY <1>5, <2>2, <3>2, <3>4
  <2>5. \A i \in DOMAIN results' : results'[i].search = Find!Current
    BY <1>5, <2>2
  <2> QED
    BY <1>1, <1>9, <2>2, <2>3, <2>4, <2>5 DEF OfSearch
<1> QED
  BY <1>6, <1>7, <1>8, <1>9, <1>10, NotSteady DEF FindInv
-----------------------------------------------------------------------------
(* The page takes what was found.                                          *)

\* It adds the entries that are not listed, in order.
LEMMA FindAdds ==
  ASSUME FindLimits, FindInv, NEW r \in asking, Find!Take(r), Find!Orderly
  PROVE  \E K \in Seq(Find!Result) :
            /\ results' = results \o K
            /\ \A k, n \in DOMAIN K : k < n => K[k].mail > K[n].mail
            /\ \A k \in DOMAIN K : /\ \E j \in DOMAIN r.got : K[k] = r.got[j]
                                   /\ \A i \in DOMAIN results : results[i] # K[k]
            /\ \A j \in DOMAIN r.got : \/ \E k \in DOMAIN K : K[k] = r.got[j]
                                       \/ \E i \in DOMAIN results : results[i] = r.got[j]
<1>1. PICK g \in Seq(Find!Result) : g = r.got /\ \A i, j \in DOMAIN g : i < j => g[i].mail > g[j].mail
  BY DEF FindInv, FindTyped, AskRight
<1>2. results \in Seq(Find!Result) /\ results' = IF r.reset THEN g ELSE Find!Added(g)
  BY <1>1 DEF FindInv, FindTyped, Find!Take
<1>3. CASE r.reset
  <2>1. results = << >>
    BY <1>3 DEF FindInv, OfSearch
  <2>2. results' = results \o g
    BY <1>1, <1>2, <1>3, <2>1, ConcatEmptySeq
  <2>3. \A i \in DOMAIN results : FALSE
    BY <2>1
  <2> QED
    BY <1>1, <2>2, <2>3
<1>4. CASE ~r.reset
  <2>1. PICK J : J = {j \in DOMAIN g : \A i \in DOMAIN results : results[i] # g[j]}
    OBVIOUS
  <2>2. J \in SUBSET DOMAIN g
    BY <2>1
  <2>3. PICK K : K = Find!Kept(g, J)
    OBVIOUS
  <2>4. results' = results \o K
    BY <1>2, <1>4, <2>1, <2>3 DEF Find!Added
  <2>5. K \in Seq(Find!Result)
    BY <1>1, <2>2, <2>3, KeptIs
  <2>6. PICK f \in [DOMAIN K -> J] :
               /\ \A k \in DOMAIN K : K[k] = g[f[k]]
               /\ \A k, n \in DOMAIN K : k < n => f[k] < f[n]
               /\ \A j \in J : \E k \in DOMAIN K : f[k] = j
    <3>1. \E f \in [DOMAIN Find!Kept(g, J) -> J] :
               /\ \A k \in DOMAIN Find!Kept(g, J) : Find!Kept(g, J)[k] = g[f[k]]
               /\ \A k, n \in DOMAIN Find!Kept(g, J) : k < n => f[k] < f[n]
               /\ \A j \in J : \E k \in DOMAIN Find!Kept(g, J) : f[k] = j
      <4>1. g \in Seq(Find!Result)
        BY <1>1
      <4>2. J \in SUBSET DOMAIN g
        BY <2>2
      <4> QED
        BY <4>1, <4>2, KeptIs
    <3> QED
      BY <2>3, <3>1
  <2>7. ASSUME NEW k \in DOMAIN K, NEW n \in DOMAIN K, k < n PROVE K[k].mail > K[n].mail
    <3>1. f[k] \in DOMAIN g /\ f[n] \in DOMAIN g /\ f[k] < f[n]
      BY <2>2, <2>6, <2>7
    <3> QED
      BY <1>1, <2>6, <3>1
  <2>8. ASSUME NEW k \in DOMAIN K
        PROVE  /\ \E j \in DOMAIN g : K[k] = g[j]
               /\ \A i \in DOMAIN results : results[i] # K[k]
    <3>1. f[k] \in J
      BY <2>6
    <3> QED
      BY <2>1, <2>6, <3>1
  <2>9. ASSUME NEW j \in DOMAIN g
        PROVE  \/ \E k \in DOMAIN K : K[k] = g[j]
               \/ \E i \in DOMAIN results : results[i] = g[j]
    <3>1. CASE j \in J
      BY <2>6, <3>1
    <3>2. CASE j \notin J
      BY <2>1, <3>2
    <3> QED
      BY <3>1, <3>2
  <2> QED
    BY <1>1, <2>4, <2>5, <2>7, <2>8, <2>9
<1> QED
  BY <1>3, <1>4

\* What is behind is without a gap.
LEMMA FindGrows ==
  ASSUME FindLimits, FindInv, NEW r \in asking, Find!Take(r), Steady
  PROVE  RowsSteady'
<1> DEFINE R == results
           N == results'
<1>1. FindTyped /\ Find!Orderly
  BY DEF FindInv, Steady
<1>2. PICK g \in Seq(Find!Result) : g = r.got /\ \A i, j \in DOMAIN g : i < j => g[i].mail > g[j].mail
  BY DEF FindInv, FindTyped, AskRight
<1>3. PICK K \in Seq(Find!Result) :
            /\ results' = results \o K
            /\ \A k, n \in DOMAIN K : k < n => K[k].mail > K[n].mail
            /\ \A k \in DOMAIN K : /\ \E j \in DOMAIN g : K[k] = g[j]
                                   /\ \A i \in DOMAIN results : results[i] # K[k]
            /\ \A j \in DOMAIN g : \/ \E k \in DOMAIN K : K[k] = g[j]
                                   \/ \E i \in DOMAIN results : results[i] = g[j]
  <2>1. PICK K \in Seq(Find!Result) :
            /\ results' = results \o K
            /\ \A k, n \in DOMAIN K : k < n => K[k].mail > K[n].mail
            /\ \A k \in DOMAIN K : /\ \E j \in DOMAIN r.got : K[k] = r.got[j]
                                   /\ \A i \in DOMAIN results : results[i] # K[k]
            /\ \A j \in DOMAIN r.got : \/ \E k \in DOMAIN K : K[k] = r.got[j]
                                       \/ \E i \in DOMAIN results : results[i] = r.got[j]
    BY <1>1, FindAdds
  <2>2. g = r.got
    BY <1>2
  <2> QED
    BY <2>1, <2>2
<1>4. PICK o \in Nat : o = offset /\ offset' = o + Len(g)
  <2>1. offset \in Nat /\ r.offset = offset
    BY <1>1 DEF FindInv, FindTyped, OfSearch
  <2> QED
    BY <1>2, <2>1 DEF Find!Take
<1>5. live' = live /\ begun' = begun /\ r.at = "answered"
  BY DEF Find!Take, Find!mailbox, Find!hist
<1>6. /\ \A i \in DOMAIN R : R[i].mail \in live
      /\ \A i, j \in DOMAIN R : i < j =>
            \/ R[i].mail > R[j].mail
            \/ Find!Again(j) \/ R[j].mail > R[1].mail
      /\ \A i \in DOMAIN R, m \in live :
            m > R[i].mail /\ (m <= begun \/ m < R[1].mail) => \E k \in DOMAIN R : R[k].mail = m
      /\ R # << >> => /\ \E i \in DOMAIN R : o <= Rank(R[i].mail)
                      /\ \A m \in live : m <= begun => m <= R[1].mail
      /\ R = << >> => o = 0
  BY <1>4 DEF FindInv, RowsSteady
<1>7. g # << >> =>
        /\ \A i \in DOMAIN g : g[i].mail \in live
        /\ \A m \in live : m >= g[Len(g)].mail /\ m <= g[1].mail => \E k \in DOMAIN g : g[k].mail = m
        /\ o + Len(g) <= Rank(g[Len(g)].mail)
        /\ R = << >> => \A m \in live : m <= begun => m <= g[1].mail
        /\ R # << >> => \A m \in live : m > g[1].mail => \E i \in DOMAIN R : R[i].mail <= m
  BY <1>2, <1>4, <1>5 DEF FindInv, PageSteady
<1>8. \A m \in live : m \in Nat
  BY <1>1, LiveIs
<1>9. PICK a \in Nat : /\ a = Len(R) /\ DOMAIN R = 1 .. a /\ DOMAIN K = 1 .. Len(K) /\ Len(K) \in Nat
                       /\ DOMAIN N = 1 .. a + Len(K)
                       /\ \A i \in 1 .. a : N[i] = R[i]
                       /\ \A k \in DOMAIN K : N[a + k] = K[k] /\ a + k \in DOMAIN N
                       /\ R = << >> <=> a = 0
  <2>1. R \in Seq(Find!Result)
    BY <1>1 DEF FindTyped
  <2>2. PICK q \in Seq(Find!Result) : q = R
    BY <2>1
  <2>3. PICK p : p = q \o K /\ p = N
    BY <1>3, <2>2
  <2>4. /\ Len(p) = Len(q) + Len(K) /\ DOMAIN p = 1 .. Len(q) + Len(K)
        /\ DOMAIN q = 1 .. Len(q) /\ DOMAIN K = 1 .. Len(K) /\ Len(q) \in Nat /\ Len(K) \in Nat
        /\ \A i \in 1 .. Len(q) + Len(K) : p[i] = IF i <= Len(q) THEN q[i] ELSE K[i - Len(q)]
    <3>1. /\ q \o K \in Seq(Find!Result) /\ Len(q \o K) = Len(q) + Len(K)
          /\ \A i \in 1 .. Len(q) + Len(K) : (q \o K)[i] = IF i <= Len(q) THEN q[i] ELSE K[i - Len(q)]
      BY <2>2, ConcatProperties
    <3>2. p \in Seq(Find!Result) /\ Len(p) = Len(q) + Len(K)
      BY <2>3, <3>1
    <3>3. \A i \in 1 .. Len(q) + Len(K) : p[i] = IF i <= Len(q) THEN q[i] ELSE K[i - Len(q)]
      BY <2>3, <3>1
    <3>4. DOMAIN p = 1 .. Len(p)
      BY <3>2
    <3>5. DOMAIN q = 1 .. Len(q) /\ DOMAIN K = 1 .. Len(K) /\ Len(q) \in Nat /\ Len(K) \in Nat
      BY <2>2
    <3> QED
      BY <3>2, <3>3, <3>4, <3>5
  <2>5. \A i \in 1 .. Len(q) : p[i] = q[i]
    BY <2>4
  <2>6. \A k \in DOMAIN K : p[Len(q) + k] = K[k] /\ Len(q) + k \in DOMAIN p
    <3> SUFFICES ASSUME NEW k \in DOMAIN K PROVE p[Len(q) + k] = K[k] /\ Len(q) + k \in DOMAIN p
      OBVIOUS
    <3>1. PICK c \in Nat : c = Len(q) + k /\ c \in 1 .. Len(q) + Len(K) /\ ~(c <= Len(q)) /\ c - Len(q) = k
      BY <2>4
    <3> QED
      BY <2>4, <3>1
  <2>7. q = << >> <=> Len(q) = 0
    OBVIOUS
  <2> QED
    BY <2>2, <2>3, <2>4, <2>5, <2>6, <2>7
<1>10. \A i \in DOMAIN N : i \in 1 .. a \/ \E k \in DOMAIN K : i = a + k
  <2> SUFFICES ASSUME NEW i \in DOMAIN N, i \notin 1 .. a PROVE \E k \in DOMAIN K : i = a + k
    OBVIOUS
  <2>1. i - a \in 1 .. Len(K) /\ i = a + (i - a)
    BY <1>9
  <2> QED
    BY <1>9, <2>1
<1> HIDE DEF N, R
\* Every entry of the page is listed.
<1>11. \A j \in DOMAIN g : \E i \in DOMAIN N : N[i] = g[j]
  <2> SUFFICES ASSUME NEW j \in DOMAIN g PROVE \E i \in DOMAIN N : N[i] = g[j]
    OBVIOUS
  <2>1. CASE \E k \in DOMAIN K : K[k] = g[j]
    BY <1>9, <2>1
  <2>2. CASE \E i \in DOMAIN R : R[i] = g[j]
    <3>1. \A i \in 1 .. a : i \in DOMAIN N
      BY <1>9
    <3> QED
      BY <1>9, <2>2, <3>1
  <2> QED
    BY <1>3, <2>1, <2>2 DEF R
<1>12. /\ g # << >> => 1 \in DOMAIN g /\ Len(g) \in DOMAIN g
       /\ g = << >> => Len(g) = 0 /\ K = << >> /\ DOMAIN N = DOMAIN R
  <2>1. g = << >> => DOMAIN g = {}
    OBVIOUS
  <2>2. g = << >> => DOMAIN K = {}
    BY <1>3, <2>1
  <2>3. g = << >> => Len(K) = 0 /\ K = << >>
    BY <1>9, <2>2
  <2>4. g # << >> => 1 \in DOMAIN g /\ Len(g) \in DOMAIN g
    OBVIOUS
  <2> QED
    BY <1>9, <2>3, <2>4
<1>13. \A k \in DOMAIN K : /\ K[k].mail \in live /\ g # << >>
                           /\ K[k].mail >= g[Len(g)].mail /\ K[k].mail <= g[1].mail
  <2> SUFFICES ASSUME NEW k \in DOMAIN K
               PROVE  /\ K[k].mail \in live /\ g # << >>
                      /\ K[k].mail >= g[Len(g)].mail /\ K[k].mail <= g[1].mail
    OBVIOUS
  <2>1. PICK j \in DOMAIN g : K[k] = g[j]
    BY <1>3
  <2>2. g # << >>
    <3>1. DOMAIN g = 1 .. Len(g)
      BY <1>2
    <3> QED
      BY <1>12, <1>9
  <2>3. j = 1 \/ 1 < j
    BY <1>2
  <2>4. j = Len(g) \/ j < Len(g)
    BY <1>2
  <2>5. g[j].mail = g[1].mail \/ g[1].mail > g[j].mail
    BY <1>2, <1>12, <2>2, <2>3
  <2>6. g[j].mail = g[Len(g)].mail \/ g[j].mail > g[Len(g)].mail
    BY <1>2, <1>12, <2>2, <2>4
  <2>7. g[j].mail \in Nat /\ g[1].mail \in Nat /\ g[Len(g)].mail \in Nat /\ g[j].mail \in live
    BY <1>7, <1>8, <1>12, <2>2
  <2> QED
    BY <2>1, <2>2, <2>5, <2>6, <2>7
<1>14. R # << >> => N[1] = R[1] /\ 1 \in DOMAIN R /\ 1 \in DOMAIN N
  <2>1. a # 0 => 1 \in 1 .. a /\ 1 \in 1 .. a + Len(K)
    BY <1>9
  <2> QED
    BY <1>9, <2>1
<1>15. R = << >> /\ N # << >> => g # << >> /\ N[1].mail \in live /\ N[1].mail = g[1].mail
  <2> SUFFICES ASSUME R = << >>, N # << >> PROVE g # << >> /\ N[1].mail \in live /\ N[1].mail = g[1].mail
    OBVIOUS
  <2>1. a = 0 /\ N = K
    <3>1. N = K
      BY ConcatEmptySeq, <1>3 DEF N, R
    <3> QED
      BY <1>9, <3>1
  <2>2. 1 \in DOMAIN K
    BY <2>1
  <2>3. K[1].mail \in live /\ g # << >> /\ K[1].mail <= g[1].mail
    BY <1>13, <2>2
  <2>4. PICK k \in DOMAIN K : K[k] = g[1]
    <3>1. DOMAIN R = {}
      BY <1>9, <2>1
    <3> QED
      BY <1>3, <1>12, <2>3, <3>1 DEF R
  <2>5. k = 1 \/ K[1].mail > K[k].mail
    <3>1. k = 1 \/ 1 < k
      BY <1>9
    <3> QED
      BY <1>3, <2>2, <3>1
  <2>6. K[1].mail \in Nat /\ g[1].mail \in Nat
    BY <1>7, <1>8, <1>12, <2>3
  <2> QED
    BY <2>1, <2>3, <2>4, <2>5, <2>6
<1>20. \A i \in DOMAIN N : N[i].mail \in live
  BY <1>6, <1>9, <1>10, <1>13
\* A row behind is older, or there already, or newer than the first.
<1>21. ASSUME NEW i \in DOMAIN N, NEW j \in DOMAIN N, i < j
       PROVE  N[i].mail > N[j].mail \/ Find!Again(j)' \/ N[j].mail > N[1].mail
  <2>0. Find!Again(j)' <=> \E k \in 1 .. j - 1 : N[k].mail = N[j].mail
    BY DEF Find!Again, N
  <2>1. i \in Nat /\ j \in Nat /\ i \in 1 .. j - 1
    BY <1>9, <1>21
  <2>2. CASE j \in 1 .. a
    <3>1. i \in 1 .. a /\ 1 \in 1 .. a
      BY <1>21, <2>1, <2>2
    <3>2. N[i] = R[i] /\ N[j] = R[j] /\ N[1] = R[1]
      BY <1>9, <2>2, <3>1
    <3>3. Find!Again(j) => \E k \in 1 .. j - 1 : N[k].mail = N[j].mail
      <4>1. \A k \in 1 .. j - 1 : k \in 1 .. a
        BY <2>2
      <4>2. \A k \in 1 .. j - 1 : N[k] = R[k]
        BY <1>9, <4>1
      <4> QED
        BY <3>2, <4>2 DEF Find!Again, R
    <3>4. R[i].mail > R[j].mail \/ Find!Again(j) \/ R[j].mail > R[1].mail
      BY <1>6, <1>9, <1>21, <2>2, <3>1
    <3> QED
      BY <2>0, <3>2, <3>3, <3>4
  <2>3. CASE \E k \in DOMAIN K : j = a + k
    <3>1. PICK k \in DOMAIN K : j = a + k
      BY <2>3
    <3>2. N[j] = K[k] /\ K[k].mail \in live
      BY <1>9, <1>13, <3>1
    <3>3. CASE i \in 1 .. a
      <4>1. 1 \in 1 .. a /\ N[i] = R[i] /\ N[1] = R[1] /\ R[i].mail \in live /\ R[1].mail \in live
        BY <1>6, <1>9, <3>3
      <4>2. PICK b \in live : b = K[k].mail
        BY <3>2
      <4>3. CASE \E n \in DOMAIN R : R[n].mail = b
        <5>1. PICK n \in 1 .. a : R[n].mail = b
          BY <1>9, <4>3
        <5>2. n \in 1 .. j - 1 /\ N[n] = R[n]
          BY <1>9, <3>1, <5>1
        <5> QED
          BY <2>0, <3>2, <4>2, <5>1, <5>2
      <4>4. CASE \A n \in DOMAIN R : R[n].mail # b
        <5>1. /\ b # R[i].mail /\ b # R[1].mail
              /\ ~(b > R[i].mail /\ b < R[1].mail)
          BY <1>6, <1>9, <3>3, <4>1, <4>4
        <5>2. b \in Nat /\ R[i].mail \in Nat /\ R[1].mail \in Nat
          BY <1>8, <4>1
        <5>3. R[i].mail > b \/ b > R[1].mail
          BY <5>1, <5>2
        <5> QED
          BY <3>2, <4>1, <4>2, <5>3
      <4> QED
        BY <4>3, <4>4
    <3>4. CASE \E n \in DOMAIN K : i = a + n
      <4>1. PICK n \in DOMAIN K : i = a + n
        BY <3>4
      <4>2. n < k /\ N[i] = K[n]
        BY <1>9, <1>21, <3>1, <4>1
      <4> QED
        BY <1>3, <3>2, <4>2
    <3> QED
      BY <1>10, <3>3, <3>4
  <2> QED
    BY <1>10, <2>2, <2>3
\* None is missing.
<1>22. ASSUME NEW i \in DOMAIN N, NEW m \in live, m > N[i].mail, m <= begun \/ m < N[1].mail
       PROVE  \E k \in DOMAIN N : N[k].mail = m
  <2>0. \A k \in DOMAIN R : k \in DOMAIN N /\ N[k] = R[k]
    BY <1>9
  <2>1. CASE i \in 1 .. a
    <3>1. N[i] = R[i] /\ R # << >> /\ i \in DOMAIN R
      BY <1>9, <2>1
    <3>2. m > R[i].mail /\ (m <= begun \/ m < R[1].mail)
      BY <1>14, <1>22, <3>1
    <3>3. PICK k \in DOMAIN R : R[k].mail = m
      BY <1>6, <3>1, <3>2
    <3> QED
      BY <2>0, <3>3
  <2>2. CASE \E k \in DOMAIN K : i = a + k
    <3>1. PICK k \in DOMAIN K : i = a + k
      BY <2>2
    <3>2. N[i] = K[k] /\ K[k].mail \in live /\ g # << >> /\ K[k].mail >= g[Len(g)].mail
      BY <1>9, <1>13, <3>1
    <3>3. g[1].mail \in live /\ g[Len(g)].mail \in live
      BY <1>7, <1>12, <3>2
    <3>4. m \in Nat /\ g[1].mail \in Nat /\ g[Len(g)].mail \in Nat /\ K[k].mail \in Nat
      BY <1>8, <3>2, <3>3
    <3>5. CASE m <= g[1].mail
      <4>1. m >= g[Len(g)].mail
        BY <1>22, <3>2, <3>4
      <4>2. PICK x \in DOMAIN g : g[x].mail = m
        BY <1>7, <3>2, <3>5, <4>1
      <4>3. PICK y \in DOMAIN N : N[y] = g[x]
        BY <1>11
      <4> QED
        BY <4>2, <4>3
    <3>6. CASE m > g[1].mail
      <4>1. CASE R = << >>
        <5>1. N # << >>
          <6>1. N = << >> => DOMAIN N = {}
            OBVIOUS
          <6> QED
            BY <6>1
        <5>2. N[1].mail = g[1].mail
          BY <1>15, <4>1, <5>1
        <5>3. m <= begun => m <= g[1].mail
          BY <1>7, <3>2, <4>1
        <5>4. ~(m <= g[1].mail) /\ ~(m < g[1].mail)
          BY <3>4, <3>6
        <5> QED
          BY <1>22, <5>2, <5>3, <5>4
      <4>2. CASE R # << >>
        <5>1. PICK x \in DOMAIN R : R[x].mail <= m
          BY <1>7, <3>2, <3>6, <4>2
        <5>2. R[x].mail \in Nat
          BY <1>6, <1>8
        <5>3. R[x].mail = m \/ m > R[x].mail
          BY <3>4, <5>1, <5>2
        <5>4. m <= begun \/ m < R[1].mail
          BY <1>14, <1>22, <4>2
        <5>5. \E k2 \in DOMAIN R : R[k2].mail = m
          BY <1>6, <5>3, <5>4
        <5> QED
          BY <2>0, <5>5
      <4> QED
        BY <4>1, <4>2
    <3> QED
      BY <3>4, <3>5, <3>6
  <2> QED
    BY <1>10, <2>1, <2>2
<1>23. N # << >> => /\ \E i \in DOMAIN N : offset' <= Rank(N[i].mail)
                    /\ \A m \in live : m <= begun => m <= N[1].mail
  <2> SUFFICES ASSUME N # << >>
               PROVE  /\ \E i \in DOMAIN N : offset' <= Rank(N[i].mail)
                      /\ \A m \in live : m <= begun => m <= N[1].mail
    OBVIOUS
  <2>1. \E i \in DOMAIN N : offset' <= Rank(N[i].mail)
    <3>1. CASE g # << >>
      <4>1. PICK i \in DOMAIN N : N[i] = g[Len(g)]
        BY <1>11, <1>12, <3>1
      <4> QED
        BY <1>4, <1>7, <3>1, <4>1
    <3>2. CASE g = << >>
      <4>1. R # << >>
        <5>1. SUFFICES ASSUME R = << >> PROVE FALSE
          OBVIOUS
        <5> QED
          BY <1>15, <3>2, <5>1
      <4>2. offset' = o /\ DOMAIN N = DOMAIN R
        BY <1>4, <1>12, <3>2
      <4>3. PICK i \in DOMAIN R : o <= Rank(R[i].mail)
        BY <1>6, <4>1
      <4>4. i \in DOMAIN N /\ N[i] = R[i]
        BY <1>9, <4>2
      <4> QED
        BY <4>2, <4>3, <4>4
    <3> QED
      BY <3>1, <3>2
  <2>2. CASE R # << >>
    BY <1>6, <1>14, <2>1, <2>2
  <2>3. CASE R = << >>
    BY <1>7, <1>15, <2>1, <2>3
  <2> QED
    BY <2>2, <2>3
<1>24. N = << >> => offset' = 0
  <2> SUFFICES ASSUME N = << >> PROVE offset' = 0
    OBVIOUS
  <2>1. DOMAIN N = {}
    OBVIOUS
  <2>2. g = << >>
    BY <1>11, <1>12, <2>1
  <2>3. R = << >>
    BY <1>14, <2>1
  <2> QED
    BY <1>4, <1>6, <1>12, <2>2, <2>3
<1>25. N # << >> => \E i \in DOMAIN results' : offset' <= Rank(results[i].mail)'
  <2> SUFFICES ASSUME N # << >> PROVE \E i \in DOMAIN results' : offset' <= Rank(results[i].mail)'
    OBVIOUS
  <2>1. PICK i \in DOMAIN results' : offset' <= Rank(results'[i].mail)
    BY <1>23 DEF N
  <2>2. Rank(results[i].mail)' = Rank(results'[i].mail)
    BY <1>5 DEF Rank
  <2> QED
    BY <2>1, <2>2
<1> QED
  BY <1>5, <1>20, <1>21, <1>22, <1>23, <1>24, <1>25 DEF RowsSteady, N

LEMMA FindTakes == ASSUME FindLimits, FindInv, NEW r \in asking, Find!Take(r) PROVE FindInv'
<1>1. /\ r.at = "answered" /\ asking' = asking \ {r}
      /\ inFlight' = FALSE /\ searching' = FALSE /\ loadingMore' = FALSE
      /\ hasMore' = r.more /\ offset' = r.offset + Len(r.got)
      /\ results' = (IF r.reset THEN r.got ELSE Find!Added(r.got))
      /\ UNCHANGED <<live, arrived, input, timer, query, fields, issued, trouble,
                     crossing, mixture, late, gone, begun>>
  BY DEF Find!Take, Find!Ends, Find!mailbox, Find!modes, Find!hist
<1>2. PICK g \in Seq(Find!Result) : g = r.got /\ \A i \in DOMAIN g : g[i].search = r.search
  BY DEF FindInv, FindTyped, AskRight
<1>3. FindTyped'
  <2>1. results \in Seq(Find!Result) /\ r.offset \in Nat /\ r.more \in BOOLEAN
    BY DEF FindInv, FindTyped, AskRight
  <2>2. PICK K \in Seq(Find!Result) :
           K = Find!Kept(g, {j \in DOMAIN g : \A i \in DOMAIN results : results[i] # g[j]})
    <3>1. PICK J \in SUBSET DOMAIN g : J = {j \in DOMAIN g : \A i \in DOMAIN results : results[i] # g[j]}
      OBVIOUS
    <3>2. Find!Kept(g, J) \in Seq(Find!Result)
      BY KeptIs
    <3> QED
      BY <3>1, <3>2
  <2>3. Find!Added(g) = results \o K
    BY <2>2 DEF Find!Added
  <2>4. results \o K \in Seq(Find!Result)
    BY <2>1, <2>2
  <2>5. results' \in Seq(Find!Result)
    BY <1>1, <1>2, <2>3, <2>4
  <2>6. offset' \in Nat
    BY <1>1, <1>2, <2>1
  <2> QED
    BY <1>1, <2>1, <2>5, <2>6 DEF FindInv, FindTyped, AskRight
<1>4. OneAsked'
  BY <1>1 DEF FindInv, OneAsked
<1>5. ModesRight'
  BY <1>1 DEF FindInv, ModesRight, Find!Both
<1>6. Find!Orderly' = Find!Orderly /\ Steady' = Steady /\ Find!Current' = Find!Current
  BY <1>1 DEF Steady, Find!Orderly, Find!Searching, Find!Current
<1>7. ASSUME Find!Orderly PROVE asking' = {}
  BY <1>1, <1>7 DEF FindInv, OneAsked, Find!Orderly
<1>8. OfSearch'
  <2>1. SUFFICES ASSUME Find!Orderly PROVE OfSearch'
    BY <1>6 DEF OfSearch
  <2>2. /\ \A i \in DOMAIN results : results[i].search = Find!Current
        /\ \A i, j \in DOMAIN results : i # j => results[i] # results[j]
        /\ r.search = Find!Current
    BY <2>1 DEF FindInv, OfSearch
  <2>3. PICK K \in Seq(Find!Result) :
            /\ results' = results \o K
            /\ \A k, n \in DOMAIN K : k < n => K[k].mail > K[n].mail
            /\ \A k \in DOMAIN K : /\ \E j \in DOMAIN r.got : K[k] = r.got[j]
                                   /\ \A i \in DOMAIN results : results[i] # K[k]
    BY <2>1, FindAdds
  <2>4. \A k \in DOMAIN K : K[k].search = Find!Current /\ K[k].mail \in Nat
    <3>1. \A k \in DOMAIN K : K[k] \in Find!Result
      BY <2>3
    <3>2. MaxMail \in Nat
      BY DEF FindLimits
    <3>3. \A k \in DOMAIN K : K[k].mail \in Nat
      BY <3>1, <3>2 DEF Find!Result
    <3> QED
      BY <1>2, <2>2, <2>3, <3>3
  <2>5. ASSUME NEW k \in DOMAIN K, NEW n \in DOMAIN K, k # n PROVE K[k] # K[n]
    <3>1. k < n \/ n < k
      BY <2>3, <2>5
    <3>2. K[k].mail # K[n].mail
      BY <2>3, <2>4, <3>1
    <3> QED
      BY <3>2
  <2>6. PICK a \in Nat : /\ DOMAIN results = 1 .. a /\ DOMAIN K = 1 .. Len(K) /\ Len(K) \in Nat
                         /\ DOMAIN results' = 1 .. a + Len(K)
                         /\ \A i \in 1 .. a : results'[i] = results[i]
                         /\ \A i \in a + 1 .. a + Len(K) : results'[i] = K[i - a] /\ i - a \in DOMAIN K
    <3>1. PICK q \in Seq(Find!Result) : q = results
      BY DEF FindInv, FindTyped
    <3>2. PICK p : p = q \o K /\ p = results'
      BY <2>3, <3>1
    <3>3. /\ q \o K \in Seq(Find!Result) /\ Len(q \o K) = Len(q) + Len(K)
          /\ \A i \in 1 .. Len(q) + Len(K) : (q \o K)[i] = IF i <= Len(q) THEN q[i] ELSE K[i - Len(q)]
      BY <3>1, ConcatProperties
    <3>4. /\ DOMAIN p = 1 .. Len(q) + Len(K) /\ DOMAIN q = 1 .. Len(q) /\ DOMAIN K = 1 .. Len(K)
          /\ Len(q) \in Nat /\ Len(K) \in Nat
      BY <3>2, <3>3
    <3>5. \A i \in 1 .. Len(q) : p[i] = q[i]
      BY <3>2, <3>3, <3>4
    <3>6. \A i \in Len(q) + 1 .. Len(q) + Len(K) : p[i] = K[i - Len(q)] /\ i - Len(q) \in DOMAIN K
      BY <3>2, <3>3, <3>4
    <3> QED
      BY <3>1, <3>2, <3>4, <3>5, <3>6
  <2>7. \A i \in DOMAIN results' : i \in 1 .. a \/ i \in a + 1 .. a + Len(K)
    BY <2>6
  <2>8. \A i \in DOMAIN results' : results'[i].search = Find!Current
    <3> SUFFICES ASSUME NEW i \in DOMAIN results' PROVE results'[i].search = Find!Current
      OBVIOUS
    <3>1. CASE i \in 1 .. a
      BY <2>2, <2>6, <3>1
    <3>2. CASE i \in a + 1 .. a + Len(K)
      BY <2>4, <2>6, <3>2
    <3> QED
      BY <2>7, <3>1, <3>2
  <2>9. ASSUME NEW i \in DOMAIN results', NEW j \in DOMAIN results', i # j PROVE results'[i] # results'[j]
    <3>1. CASE i \in 1 .. a /\ j \in 1 .. a
      BY <2>2, <2>6, <2>9, <3>1
    <3>2. CASE i \in 1 .. a /\ j \in a + 1 .. a + Len(K)
      BY <2>3, <2>6, <3>2
    <3>3. CASE i \in a + 1 .. a + Len(K) /\ j \in 1 .. a
      BY <2>3, <2>6, <3>3
    <3>4. CASE i \in a + 1 .. a + Len(K) /\ j \in a + 1 .. a + Len(K)
      <4>1. i - a # j - a
        BY <2>6, <2>9, <3>4
      <4> QED
        BY <2>5, <2>6, <3>4, <4>1
    <3> QED
      BY <2>7, <3>1, <3>2, <3>3, <3>4
  <2> QED
    BY <1>6, <1>7, <2>1, <2>8, <2>9 DEF OfSearch
<1>9. RowsSteady'
  <2>1. SUFFICES ASSUME Steady PROVE RowsSteady'
    BY <1>6 DEF RowsSteady
  <2> QED
    BY <2>1, FindGrows
<1>10. \A x \in asking' : PageSteady(x)'
  <2>1. ~Steady => \A x : PageSteady(x)'
    BY <1>6, NotSteady
  <2>2. Steady => asking' = {}
    BY <1>7 DEF Steady
  <2> QED
    BY <2>1, <2>2
<1> QED
  BY <1>3, <1>4, <1>5, <1>8, <1>9, <1>10 DEF FindInv

LEMMA FindNext == ASSUME FindLimits, FindInv, [Find!Next]_(Find!vars) PROVE FindInv'
<1>1. CASE UNCHANGED Find!vars
  BY <1>1, FindStays
<1>2. CASE \E text \in Queries : Find!Type(text)
  BY <1>2, FindTypes
<1>3. CASE Find!Erase \/ Find!Rests \/ Find!ClearSearch \/ Find!LoadMore \/ Find!Arrives
  BY <1>3, FindErases, FindRests, FindClears, FindLoadsMore, FindArrives
<1>4. CASE (\E f \in FieldSets : Find!AdvancedSearch(f)) \/ (\E key \in Find!Fields : Find!RemoveField(key))
  BY <1>4, FindFilters, FindNarrows
<1>5. CASE \E r \in asking : Find!Serve(r) \/ Find!Refuse(r) \/ Find!Take(r) \/ Find!Fail(r)
  BY <1>5, FindServes, FindRefuses, FindTakes, FindFails
<1>6. CASE \E m \in 1 .. MaxMail : Find!Leaves(m) \/ Find!RemoveRow(m)
  BY <1>6, FindLeaves, FindRemoves
<1> QED
  BY <1>1, <1>2, <1>3, <1>4, <1>5, <1>6 DEF Find!Next

LEMMA FindInvHolds == ASSUME FindLimits, FindInv PROVE Find!SearchHolds
<1>1. FindTyped
  BY DEF FindInv
<1>2. Find!TypeOK
  <2>1. \A i \in DOMAIN results : results[i] \in Find!Result
    BY <1>1 DEF FindTyped
  <2>2. \A r \in asking : r.search \in Find!Search /\ r.n \in 1 .. issued
    BY <1>1 DEF FindTyped, AskRight
  <2> QED
    BY <1>1, <2>1, <2>2 DEF FindTyped, Find!TypeOK
<1>3. Find!ResultsAreOfSearch
  <2>1. Find!Orderly /\ ~gone => Steady
    BY DEF Steady
  <2> QED
    BY <2>1 DEF FindInv, OfSearch, RowsSteady, Find!ResultsAreOfSearch
<1>4. Find!NoneSkipped
  BY DEF FindInv, RowsSteady, Steady, Find!NoneSkipped
<1>5. Find!OneRequestAtATime
  <2>1. SUFFICES ASSUME ~crossing PROVE Cardinality(asking) <= 1
    BY FindCount DEF Find!OneRequestAtATime
  <2>2. asking = {} \/ \E r : asking = {r}
    BY <2>1 DEF FindInv, OneAsked
  <2>3. CASE asking = {}
    <3>1. Cardinality(asking) = 0
      BY <2>3, FS_EmptySet
    <3> QED
      BY <3>1
  <2>4. CASE \E r : asking = {r}
    <3>1. PICK r : asking = {r}
      BY <2>4
    <3>2. Cardinality(asking) = 1
      BY <3>1, FS_Singleton
    <3> QED
      BY <3>2
  <2> QED
    BY <2>2, <2>3, <2>4
<1>6. Find!QueryIsInput /\ Find!SpinnersEnd
  BY DEF FindInv, ModesRight, OneAsked, Find!QueryIsInput, Find!SpinnersEnd
<1> QED
  BY <1>2, <1>3, <1>4, <1>5, <1>6 DEF Find!SearchHolds

(* For any number of messages, texts and filters, and pages of any size:   *)
(* the results shown are of the search shown, none twice and, while no     *)
(* message leaves, none skipped and in order; a page is loaded by one      *)
(* request at a time; what is searched is what is in the box               *)
(* (mail/page.tsx).                                                        *)
THEOREM SearchAlwaysHolds == FindLimits => (PageSpec => []SearchHolds)
<1> SUFFICES ASSUME FindLimits PROVE PageSpec => []SearchHolds
  OBVIOUS
<1> DEFINE Kept == onPage = "search" => FindInv
<1>1. FirstPage => Kept
  BY PageFirst, FindInit
<1>2. Kept /\ [StepPage]_pageVars => Kept'
  BY PageStep, FindNext
<1>3. Kept => SearchHolds
  BY FindInvHolds DEF SearchHolds
<1> QED
  BY <1>1, <1>2, <1>3, PTL DEF PageSpec
-----------------------------------------------------------------------------
(* The pages of the docs page (DocPages).                                  *)
TreeLimits ==
    /\ MaxPages \in Nat /\ MaxPages >= 2 /\ PageRequests \in Nat \ {0} /\ PageFaults \in Nat

\* No list has, and no request is about, a page that was not made yet.
Made(p) == p \in Pg!Pages => p <= pagesMade
MadeSoFar ==
    /\ \A p \in DOMAIN pageRows \cup DOMAIN docs \cup named \cup {selectedId, active.id} : Made(p)
    /\ \A p \in Pg!Pages : p > pagesMade => tagged[p] = {}

\* What a request is about, and what its answer brings, by its kind.
GotRight(r) ==
    /\ r.kind \in {"load", "create"} <=> r.page = Pg!None
    /\ r.at # "answered" => DOMAIN r.got = {}
    /\ r.at = "answered" =>
         /\ r.kind = "open" => DOMAIN r.got = {r.page}
         /\ Pg!Adds(r) => \E p \in Pg!Pages : DOMAIN r.got = {p}
GotMade(r) == GotRight(r) /\ \A p \in DOMAIN r.got \cup {r.page} : Made(p)
AllMade    == \A r \in asking : GotMade(r)

\* A request that is not blind is alone in changing the tree, and what it
\* is about is shown.
InReach(r) ==
    /\ r.kind = "create" => r.parent \in Pg!Shown(pageRows) \cup {Pg!None}
    /\ r.kind = "duplicate" => r.page \in Pg!Shown(pageRows)
    /\ r.kind = "move" => /\ {r.page, r.parent} \subseteq Pg!Shown(pageRows)
                          /\ r.parent \notin Pg!Subtree(pageRows, r.page)
SeenRight(r) ==
    Pg!Reshapes(r) /\ ~r.blind =>
        /\ \A s \in asking : Pg!Reshapes(s) => s = r
        /\ r.at = "sent" => InReach(r)
AllSeen == \A r \in asking : SeenRight(r)

\* p is the same in d and e.
SameAt(d, e, p) == (p \in DOMAIN d <=> p \in DOMAIN e) /\ (p \in DOMAIN d => d[p] = e[p])
Agree(p) == SameAt(docs, pageRows, p)

\* How the list and the table differ in p while r is under way.
Settled(r) ==
    \/ r.kind = "duplicate"
    \/ r.kind = "rename" /\ r.at = "answered"
    \/ r.kind \in {"remove", "move", "tags"} /\ r.at = "sent"
Between(r, p) ==
    /\ r.at = "refused" => r.kind = "duplicate"
    /\ Settled(r) => Agree(p)
    /\ r.kind = "load" => p \notin DOMAIN docs /\ (r.at = "answered" => SameAt(r.got, pageRows, p))
    /\ r.kind = "rename" /\ r.at = "sent" =>
         /\ p \in DOMAIN docs <=> p \in DOMAIN pageRows
         /\ p \in DOMAIN docs => docs[p] = [pageRows[p] EXCEPT !.title = "renamed"]
    /\ r.kind = "remove" /\ r.at = "answered" => p \notin DOMAIN pageRows
    /\ r.kind = "move" /\ r.at = "answered" =>
         p \in DOMAIN docs \cap DOMAIN pageRows /\ pageRows[p] = [docs[p] EXCEPT !.parent = r.parent]
    /\ r.kind = "tags" /\ r.at = "answered" =>
         p \in DOMAIN docs \cap DOMAIN pageRows /\ pageRows[p] = [docs[p] EXCEPT !.tags = r.tags]

\* The page that r has made is not known to the tab.
Brings(r, p) == Pg!Adds(r) /\ r.at = "answered" /\ p \in DOMAIN r.got
NewRight(r, p) ==
    /\ p \in DOMAIN pageRows /\ pageRows[p] = r.got[p]
    /\ p \notin DOMAIN docs \cup {selectedId, active.id}
    /\ \A s \in asking : s.page # p /\ s.kind # "load" /\ (Brings(s, p) => s = r)

\* What holds of a page about which requests did not cross.
ListRightOf(p) ==
    /\ \A r, s \in Pg!Pending(p) : r = s
    /\ \A r \in Pg!Pending(p) : Between(r, p)
    /\ \A r \in asking : Brings(r, p) => NewRight(r, p)
    /\ Pg!Pending(p) = {} /\ (\A r \in asking : ~Brings(r, p)) => Agree(p)

AllListed == \A p \in Pg!Pages \ crossing : ListRightOf(p)

\* The title that an editor gives is the one the list has already, and
\* nothing under way brings another.
NoOlder(p)    == \A r \in asking : r.kind # "load" /\ ~Brings(r, p)
NamedRight(p) == (p \in DOMAIN docs => docs[p].title = "renamed") /\ NoOlder(p)
AllNamed      == \A p \in named \ crossing : NamedRight(p)

\* One page is loaded, the selected one, or none and it is shown.
OpenRight ==
    /\ \A r, s \in Pg!Opens : r = s
    /\ \A r \in Pg!Opens : r.page = selectedId
    /\ Pg!Opens = {} => active.id = selectedId /\ ~loadingDoc

\* The selected page is there, or the answer that closes it has come.
SelectedRight(p) ==
    /\ p \in DOMAIN pageRows \/ \E r \in Pg!Of("remove", p) : r.at = "answered"
    /\ \A r \in Pg!Of("remove", p) : r.shown
ShownRight ==
    ~mixture => OpenRight /\ (selectedId \notin crossing \cup {Pg!None} => SelectedRight(selectedId))

\* The tags of a page that the user was not misled about.
TagsRight(p) ==
    /\ \A r, s \in Pg!Of("tags", p) : r = s
    /\ \A r \in Pg!Of("tags", p) : r.tags = tagged[p] /\ r.at # "refused"
    /\ p \in DOMAIN pageRows /\ (\A r \in Pg!Of("tags", p) : r.at # "sent") => pageRows[p].tags = tagged[p]
    /\ active.id = p /\ Pg!Of("tags", p) = {} => active.tags = tagged[p]
    /\ \A r \in Pg!Of("open", p) : /\ Pg!Of("tags", p) = {}
                                   /\ r.at = "answered" => r.got[p].tags = tagged[p]

AllTagged == \A p \in Pg!Pages \ muddled : TagsRight(p)

TreeInv ==
    /\ Pg!TypeOK /\ MadeSoFar /\ AllMade /\ AllSeen /\ Pg!PagesReachable
    /\ AllListed
    /\ AllNamed
    /\ ShownRight
    /\ AllTagged
-----------------------------------------------------------------------------
(* What is below a set of pages, level by level.                           *)

\* A set of numbers that is not empty has a least one.
LEMMA LeastNat ==
  ASSUME NEW T \in SUBSET Nat, T # {}
  PROVE  \E n \in T : \A m \in T : n <= m
<1> DEFINE F == {0 .. n : n \in T}
<1>1. F \subseteq FiniteSubsetsOf(Nat)
  <2> SUFFICES ASSUME NEW n \in T PROVE IsFiniteSet(0 .. n) /\ 0 .. n \subseteq Nat
    BY DEF FiniteSubsetsOf
  <2> QED
    BY FS_Interval
<1>2. F # {}
  OBVIOUS
<1>3. IsWellFoundedOn(StrictSubsetOrdering(Nat), FiniteSubsetsOf(Nat))
  BY FS_StrictSubsetOrderingWellFounded
<1> HIDE DEF F
<1>4. PICK x \in F : \A y \in F : ~ (<<y, x>> \in StrictSubsetOrdering(Nat))
  BY <1>1, <1>2, <1>3, WFMin
<1>5. PICK n \in T : x = 0 .. n
  BY DEF F
<1>6. ASSUME NEW m \in T, m < n PROVE FALSE
  <2>1. 0 .. m \in F
    BY DEF F
  <2>2. <<0 .. m, 0 .. n>> \notin StrictSubsetOrdering(Nat)
    BY <1>4, <1>5, <2>1
  <2>3. 0 .. m \in SUBSET Nat /\ 0 .. n \in SUBSET Nat
    OBVIOUS
  <2>4. 0 .. m \subseteq 0 .. n /\ n \in 0 .. n /\ n \notin 0 .. m
    BY <1>6
  <2> QED
    BY <2>2, <2>3, <2>4 DEF StrictSubsetOrdering
<1> QED
  BY <1>6

\* S and the children of its pages; the levels of Below, up to n.
Under(d, S) == S \cup {p \in DOMAIN d : d[p].parent \in S}
Leveled(g, n, d, S) == g = [k \in 0 .. n |-> IF k = 0 THEN S ELSE Under(d, g[k - 1])]

LEMMA LevelsExist ==
  ASSUME NEW d, NEW S, NEW n \in Nat
  PROVE  \E g : Leveled(g, n, d, S)
<1> DEFINE T == {m \in Nat : ~ \E g : Leveled(g, m, d, S)}
<1> SUFFICES ASSUME T # {} PROVE FALSE
  OBVIOUS
<1>1. PICK m \in T : \A k \in T : m <= k
  BY LeastNat
<1>2. m # 0
  <2> DEFINE g == [k \in 0 .. 0 |-> S]
  <2>1. Leveled(g, 0, d, S)
    BY DEF Leveled
  <2> QED
    BY <2>1
<1>3. m - 1 \in Nat /\ m - 1 \notin T
  BY <1>1, <1>2
<1>4. PICK h : Leveled(h, m - 1, d, S)
  BY <1>3
<1> DEFINE g == [k \in 0 .. m |-> IF k = 0 THEN S ELSE Under(d, h[k - 1])]
<1>5. Leveled(g, m, d, S)
  <2>1. ASSUME NEW k \in 0 .. m, k # 0 PROVE h[k - 1] = g[k - 1]
    BY <1>3, <1>4, <2>1 DEF Leveled
  <2> QED
    BY <2>1 DEF Leveled
<1> QED
  BY <1>5

LEMMA BelowIs ==
  ASSUME NEW d, NEW S, MaxPages \in Nat
  PROVE  \E g : Leveled(g, MaxPages, d, S) /\ Pg!Below(d, S) = g[MaxPages]
<1> DEFINE level == CHOOSE g : Leveled(g, MaxPages, d, S)
<1>1. Leveled(level, MaxPages, d, S)
  BY LevelsExist
<1>2. Pg!Below(d, S) = level[MaxPages]
  BY DEF Pg!Below, Leveled, Under
<1> QED
  BY <1>1, <1>2

\* What holds of the first level and of each next one holds of the last:
\* S is below itself, and any set that has S and the children of its pages
\* has all that is below S.
LEMMA BelowHas ==
  ASSUME NEW d, NEW S, MaxPages \in Nat
  PROVE  S \subseteq Pg!Below(d, S)
<1>1. PICK g : Leveled(g, MaxPages, d, S) /\ Pg!Below(d, S) = g[MaxPages]
  BY BelowIs
<1> DEFINE T == {m \in 0 .. MaxPages : ~ (S \subseteq g[m])}
<1>2. T = {}
  <2> SUFFICES ASSUME T # {} PROVE FALSE
    OBVIOUS
  <2>0. T \in SUBSET Nat
    OBVIOUS
  <2>1. PICK m \in T : \A k \in T : m <= k
    <3> HIDE DEF T
    <3> QED
      BY <2>0, LeastNat
  <2>2. m # 0
    BY <1>1 DEF Leveled
  <2>3. m - 1 \in 0 .. MaxPages /\ m - 1 \notin T
    BY <2>1, <2>2
  <2>4. g[m] = Under(d, g[m - 1])
    BY <1>1, <2>2 DEF Leveled
  <2> QED
    BY <2>3, <2>4 DEF Under
<1> QED
  BY <1>1, <1>2

LEMMA BelowLeast ==
  ASSUME NEW d, NEW S, NEW A, MaxPages \in Nat, S \subseteq A,
         \A p \in DOMAIN d : d[p].parent \in A => p \in A
  PROVE  Pg!Below(d, S) \subseteq A
<1>1. PICK g : Leveled(g, MaxPages, d, S) /\ Pg!Below(d, S) = g[MaxPages]
  BY BelowIs
<1> DEFINE T == {m \in 0 .. MaxPages : ~ (g[m] \subseteq A)}
<1>2. T = {}
  <2> SUFFICES ASSUME T # {} PROVE FALSE
    OBVIOUS
  <2>0. T \in SUBSET Nat
    OBVIOUS
  <2>1. PICK m \in T : \A k \in T : m <= k
    <3> HIDE DEF T
    <3> QED
      BY <2>0, LeastNat
  <2>2. m # 0
    BY <1>1 DEF Leveled
  <2>3. m - 1 \in 0 .. MaxPages /\ m - 1 \notin T
    BY <2>1, <2>2
  <2>4. g[m] = Under(d, g[m - 1])
    BY <1>1, <2>2 DEF Leveled
  <2> QED
    BY <2>3, <2>4 DEF Under
<1> QED
  BY <1>1, <1>2

\* The children of what is below are below: a level has as many pages as its
\* number, or the next one adds none.
LEMMA BelowClosed ==
  ASSUME NEW d, NEW S, MaxPages \in Nat, DOMAIN d \subseteq Pg!Pages
  PROVE  \A p \in DOMAIN d : d[p].parent \in Pg!Below(d, S) => p \in Pg!Below(d, S)
<1>1. PICK g : Leveled(g, MaxPages, d, S) /\ Pg!Below(d, S) = g[MaxPages]
  BY BelowIs
<1> DEFINE In(k) == g[k] \cap DOMAIN d
           Full(k) == \A p \in DOMAIN d : d[p].parent \in g[k] => p \in g[k]
<1>2. IsFiniteSet(1 .. MaxPages) /\ Cardinality(1 .. MaxPages) = MaxPages
  BY FS_Interval
<1>3. IsFiniteSet(DOMAIN d) /\ Cardinality(DOMAIN d) \in Nat /\ Cardinality(DOMAIN d) <= MaxPages
  BY <1>2, FS_Subset, FS_CardinalityType DEF Pg!Pages
<1>4. \A k \in 0 .. MaxPages : IsFiniteSet(In(k)) /\ Cardinality(In(k)) \in Nat
  BY <1>3, FS_Subset, FS_CardinalityType
<1> DEFINE T == {m \in 0 .. MaxPages : ~ (Full(m) \/ Cardinality(In(m)) >= m)}
<1>5. T = {}
  <2> SUFFICES ASSUME T # {} PROVE FALSE
    OBVIOUS
  <2>0. T \in SUBSET Nat
    OBVIOUS
  <2>1. PICK m \in T : \A k \in T : m <= k
    <3> HIDE DEF T
    <3> QED
      BY <2>0, LeastNat
  <2>2. m # 0
    BY <1>4
  <2>3. m - 1 \in 0 .. MaxPages /\ m - 1 \notin T
    BY <2>1, <2>2
  <2>4. g[m] = Under(d, g[m - 1])
    BY <1>1, <2>2 DEF Leveled
  <2>5. CASE Full(m - 1)
    <3>1. g[m] = g[m - 1]
      BY <2>4, <2>5 DEF Under
    <3> QED
      BY <2>1, <2>5, <3>1
  <2>6. CASE ~Full(m - 1)
    <3>1. PICK p \in DOMAIN d : d[p].parent \in g[m - 1] /\ p \notin g[m - 1]
      BY <2>6
    <3>2. In(m - 1) \cup {p} \subseteq In(m) /\ p \notin In(m - 1)
      BY <2>4, <3>1 DEF Under
    <3>3. Cardinality(In(m - 1)) >= m - 1
      BY <2>3, <2>6
    <3> HIDE DEF In, T, Full
    <3>4. Cardinality(In(m - 1) \cup {p}) = Cardinality(In(m - 1)) + 1
      BY <1>4, <2>3, <3>2, FS_AddElement
    <3>5. Cardinality(In(m - 1) \cup {p}) <= Cardinality(In(m))
      <4>1. IsFiniteSet(In(m))
        <5>1. m \in 0 .. MaxPages
          BY DEF T
        <5> QED
          BY <5>1, <1>4
      <4> QED
        BY <4>1, <3>2, FS_Subset
    <3>6. Cardinality(In(m)) >= m
      <4>1. m \in 0 .. MaxPages
        BY DEF T
      <4>2. Cardinality(In(m)) \in Nat /\ Cardinality(In(m - 1)) \in Nat
        BY <1>4, <2>3, <4>1
      <4> QED
        BY <4>1, <4>2, <3>3, <3>4, <3>5
    <3> QED
      BY <2>1, <3>6 DEF T
  <2> QED
    BY <2>5, <2>6
<1>6. CASE Full(MaxPages)
  BY <1>1, <1>6
<1>7. CASE Cardinality(In(MaxPages)) >= MaxPages
  <2>1. In(MaxPages) \subseteq DOMAIN d /\ Cardinality(In(MaxPages)) <= Cardinality(DOMAIN d)
    BY <1>3, FS_Subset
  <2>2. Cardinality(In(MaxPages)) = Cardinality(DOMAIN d)
    BY <1>3, <1>4, <1>7, <2>1
  <2>3. In(MaxPages) = DOMAIN d
    BY <1>3, <2>1, <2>2, FS_Subset
  <2> QED
    BY <1>1, <2>3
<1> QED
  BY <1>5, <1>6, <1>7
-----------------------------------------------------------------------------
(* What is shown of a table.                                               *)

LEMMA TopIsNone == Pg!None = 0 /\ Pg!None \notin Pg!Pages
BY DEF Pg!None, Pg!Pages

LEMMA ShownIn ==
  ASSUME NEW d, MaxPages \in Nat, DOMAIN d \subseteq Pg!Pages
  PROVE  /\ Pg!Shown(d) \subseteq DOMAIN d
         /\ \A p \in DOMAIN d : d[p].parent \in Pg!Shown(d) \cup {Pg!None} => p \in Pg!Shown(d)
<1> DEFINE S == {p \in DOMAIN d : d[p].parent = Pg!None}
<1>1. Pg!Shown(d) = Pg!Below(d, S)
  BY DEF Pg!Shown
<1>2. S \subseteq Pg!Below(d, S)
  BY BelowHas
<1>3. Pg!Below(d, S) \subseteq DOMAIN d
  <2>1. S \subseteq DOMAIN d /\ \A p \in DOMAIN d : d[p].parent \in DOMAIN d => p \in DOMAIN d
    OBVIOUS
  <2> HIDE DEF S
  <2> QED
    BY <2>1, BelowLeast
<1>4. \A p \in DOMAIN d : d[p].parent \in Pg!Below(d, S) => p \in Pg!Below(d, S)
  BY BelowClosed
<1> QED
  BY <1>1, <1>2, <1>3, <1>4

\* Any set with the pages at the top and the children of its pages.
LEMMA ShownLeast ==
  ASSUME NEW d, NEW A, MaxPages \in Nat,
         \A p \in DOMAIN d : d[p].parent \in A \cup {Pg!None} => p \in A
  PROVE  Pg!Shown(d) \subseteq A
<1> DEFINE S == {p \in DOMAIN d : d[p].parent = Pg!None}
<1>1. Pg!Shown(d) = Pg!Below(d, S)
  BY DEF Pg!Shown
<1>2. S \subseteq A
  OBVIOUS
<1> HIDE DEF S
<1>3. \A p \in DOMAIN d : d[p].parent \in A => p \in A
  OBVIOUS
<1> QED
  BY <1>1, <1>2, <1>3, BelowLeast

LEMMA SubtreeIn ==
  ASSUME NEW d, NEW x, MaxPages \in Nat, DOMAIN d \subseteq Pg!Pages
  PROVE  /\ x \in Pg!Subtree(d, x)
         /\ \A p \in DOMAIN d : d[p].parent \in Pg!Subtree(d, x) => p \in Pg!Subtree(d, x)
<1>1. {x} \subseteq Pg!Below(d, {x})
  BY BelowHas
<1>2. \A p \in DOMAIN d : d[p].parent \in Pg!Below(d, {x}) => p \in Pg!Below(d, {x})
  BY BelowClosed
<1> QED
  BY <1>1, <1>2 DEF Pg!Subtree

LEMMA SubtreeLeast ==
  ASSUME NEW d, NEW x, NEW A, MaxPages \in Nat, x \in A,
         \A p \in DOMAIN d : d[p].parent \in A => p \in A
  PROVE  Pg!Subtree(d, x) \subseteq A
<1>1. {x} \subseteq A
  OBVIOUS
<1>2. Pg!Below(d, {x}) \subseteq A
  BY <1>1, BelowLeast
<1> QED
  BY <1>2 DEF Pg!Subtree

\* The parent of what is shown is shown, or it is at the top.
LEMMA ShownParent ==
  ASSUME NEW d, MaxPages \in Nat, DOMAIN d \subseteq Pg!Pages, NEW p \in Pg!Shown(d)
  PROVE  d[p].parent \in Pg!Shown(d) \cup {Pg!None}
<1> DEFINE A == {q \in DOMAIN d : d[q].parent \in Pg!Shown(d) \cup {Pg!None}}
<1>1. \A q \in DOMAIN d : d[q].parent \in A \cup {Pg!None} => q \in A
  <2> SUFFICES ASSUME NEW q \in DOMAIN d, d[q].parent \in A PROVE d[q].parent \in Pg!Shown(d)
    OBVIOUS
  <2> QED
    BY ShownIn
<1>2. Pg!Shown(d) \subseteq A
  <2> HIDE DEF A
  <2> QED
    BY <1>1, ShownLeast
<1> QED
  BY <1>2

\* What is shown, and what is below a page, is a matter of the parents.
LEMMA SameTree ==
  ASSUME NEW d, NEW e, MaxPages \in Nat, DOMAIN d \subseteq Pg!Pages, Pg!Tree(d) = Pg!Tree(e)
  PROVE  /\ DOMAIN d = DOMAIN e /\ \A p \in DOMAIN d : d[p].parent = e[p].parent
         /\ Pg!Shown(d) = Pg!Shown(e) /\ Pg!Hidden(d) = Pg!Hidden(e)
         /\ \A x : Pg!Subtree(d, x) = Pg!Subtree(e, x)
<1>1. DOMAIN d = DOMAIN e
  <2>1. DOMAIN Pg!Tree(d) = DOMAIN d /\ DOMAIN Pg!Tree(e) = DOMAIN e
    BY DEF Pg!Tree
  <2> QED
    BY <2>1
<1>2. \A p \in DOMAIN d : d[p].parent = e[p].parent
  <2> SUFFICES ASSUME NEW p \in DOMAIN d PROVE d[p].parent = e[p].parent
    OBVIOUS
  <2>1. Pg!Tree(d)[p] = d[p].parent /\ Pg!Tree(e)[p] = e[p].parent
    BY <1>1 DEF Pg!Tree
  <2> QED
    BY <2>1
<1>3. Pg!Shown(d) \subseteq Pg!Shown(e)
  <2>1. \A p \in DOMAIN d : d[p].parent \in Pg!Shown(e) \cup {Pg!None} => p \in Pg!Shown(e)
    BY <1>1, <1>2, ShownIn
  <2> QED
    BY <2>1, ShownLeast
<1>4. Pg!Shown(e) \subseteq Pg!Shown(d)
  <2>1. \A p \in DOMAIN e : e[p].parent \in Pg!Shown(d) \cup {Pg!None} => p \in Pg!Shown(d)
    BY <1>1, <1>2, ShownIn
  <2> QED
    BY <2>1, ShownLeast
<1>5. ASSUME NEW x PROVE Pg!Subtree(d, x) = Pg!Subtree(e, x)
  <2>1. Pg!Subtree(d, x) \subseteq Pg!Subtree(e, x)
    <3>1. \A p \in DOMAIN d : d[p].parent \in Pg!Subtree(e, x) => p \in Pg!Subtree(e, x)
      BY <1>1, <1>2, SubtreeIn
    <3>2. x \in Pg!Subtree(e, x)
      BY <1>1, SubtreeIn
    <3> QED
      BY <3>1, <3>2, SubtreeLeast
  <2>2. Pg!Subtree(e, x) \subseteq Pg!Subtree(d, x)
    <3>1. \A p \in DOMAIN e : e[p].parent \in Pg!Subtree(d, x) => p \in Pg!Subtree(d, x)
      BY <1>1, <1>2, SubtreeIn
    <3>2. x \in Pg!Subtree(d, x)
      BY SubtreeIn
    <3> QED
      BY <3>1, <3>2, SubtreeLeast
  <2> QED
    BY <2>1, <2>2
<1>6. Pg!Hidden(d) = Pg!Hidden(e)
  BY <1>1, <1>3, <1>4 DEF Pg!Hidden
<1> QED
  BY <1>1, <1>2, <1>3, <1>4, <1>5, <1>6

\* A new page whose parent is shown hides nothing.
LEMMA AddShown ==
  ASSUME NEW d, NEW e, NEW p, MaxPages \in Nat, DOMAIN e \subseteq Pg!Pages,
         DOMAIN e = DOMAIN d \cup {p}, p \notin DOMAIN d, \A q \in DOMAIN d : e[q] = d[q],
         e[p].parent \in Pg!Shown(d) \cup {Pg!None}
  PROVE  Pg!Hidden(e) \subseteq Pg!Hidden(d)
<1>1. Pg!Shown(d) \subseteq Pg!Shown(e)
  <2>1. \A q \in DOMAIN d : d[q].parent \in Pg!Shown(e) \cup {Pg!None} => q \in Pg!Shown(e)
    BY ShownIn
  <2> QED
    BY <2>1, ShownLeast
<1>2. p \in Pg!Shown(e)
  BY <1>1, ShownIn
<1> QED
  BY <1>1, <1>2 DEF Pg!Hidden

\* Nor does moving a page to one that is shown and not below it.
LEMMA MoveShown ==
  ASSUME NEW d, NEW e, NEW x, NEW p, MaxPages \in Nat, DOMAIN d \subseteq Pg!Pages,
         DOMAIN e = DOMAIN d, x \in DOMAIN d, \A q \in DOMAIN d \ {x} : e[q] = d[q],
         e[x].parent = p, p \in Pg!Shown(d), p \notin Pg!Subtree(d, x)
  PROVE  Pg!Hidden(e) \subseteq Pg!Hidden(d)
<1>1. Pg!Shown(d) \subseteq Pg!Shown(e) \cup Pg!Subtree(d, x)
  <2> DEFINE A == Pg!Shown(e) \cup Pg!Subtree(d, x)
  <2>1. ASSUME NEW q \in DOMAIN d, d[q].parent \in A \cup {Pg!None} PROVE q \in A
    <3>1. CASE q = x
      BY <3>1, SubtreeIn
    <3>2. CASE q # x
      BY <2>1, <3>2, SubtreeIn, ShownIn
    <3> QED
      BY <3>1, <3>2
  <2> HIDE DEF A
  <2>2. Pg!Shown(d) \subseteq A
    BY <2>1, ShownLeast
  <2> QED
    BY <2>2 DEF A
<1>2. x \in Pg!Shown(e)
  BY <1>1, ShownIn
<1>3. Pg!Subtree(d, x) \subseteq Pg!Shown(e)
  <2>1. \A q \in DOMAIN d : d[q].parent \in Pg!Shown(e) => q \in Pg!Shown(e)
    BY <1>2, ShownIn
  <2> QED
    BY <1>2, <2>1, SubtreeLeast
<1> QED
  BY <1>1, <1>3 DEF Pg!Hidden
-----------------------------------------------------------------------------
(* Requests: sending one may only blind those that are under way.          *)

Alike(s, r) == s \in {r, [r EXCEPT !.blind = TRUE]}

LEMMA AlikeIs ==
  ASSUME NEW r, NEW s, r \in Pg!Request(r.got), Alike(s, r)
  PROVE  /\ s \in Pg!Request(s.got) /\ s.got = r.got
         /\ s.kind = r.kind /\ s.page = r.page /\ s.parent = r.parent /\ s.tags = r.tags
         /\ s.shown = r.shown /\ s.at = r.at /\ (r.blind => s.blind)
BY DEF Alike, Pg!Request

SentAs(q, f, new) ==
    /\ asking' = {f[r] : r \in asking} \cup {new}
    /\ \A r \in asking : Alike(f[r], r) /\ (Pg!Reshapes(r) /\ Pg!Reshapes(q) => f[r].blind)
    /\ Alike(new, q)
    /\ ~new.blind => /\ ~q.blind /\ Pg!Tree(docs) = Pg!Tree(pageRows)
                     /\ Pg!Reshapes(q) => \A r \in asking : ~Pg!Reshapes(r)

LEMMA SendIs ==
  ASSUME NEW q, NEW doubted, Pg!TypeOK, q \in Pg!Request(q.got), Pg!SendsDoubting(q, doubted)
  PROVE  \E f, new : SentAs(q, f, new)
<1> DEFINE others == {r \in asking : Pg!Reshapes(r)}
           alone  == ~Pg!Reshapes(q) \/ others = {}
           same   == Pg!Tree(docs) = Pg!Tree(pageRows)
           f == [r \in asking |-> IF Pg!Reshapes(r) THEN [r EXCEPT !.blind = @ \/ ~alone] ELSE r]
           new == [q EXCEPT !.blind = @ \/ ~alone \/ ~same]
<1>1. asking' = {f[r] : r \in asking} \cup {new}
  <2>1. asking' = {IF Pg!Reshapes(r) THEN [r EXCEPT !.blind = @ \/ ~alone] ELSE r : r \in asking} \cup {new}
    BY DEF Pg!SendsDoubting
  <2> QED
    BY <2>1
<1>2. ASSUME NEW r \in asking PROVE Alike(f[r], r) /\ (Pg!Reshapes(r) /\ Pg!Reshapes(q) => f[r].blind)
  <2>1. r \in Pg!Request(r.got)
    BY DEF Pg!TypeOK
  <2>2. r.blind \in BOOLEAN /\ r = [r EXCEPT !.blind = r.blind]
    BY <2>1 DEF Pg!Request
  <2>3. CASE ~Pg!Reshapes(r)
    BY <2>3 DEF Alike
  <2>4. CASE Pg!Reshapes(r)
    <3>1. r \in others
      BY <2>4
    <3>2. CASE alone
      <4>1. ~Pg!Reshapes(q)
        BY <3>1, <3>2
      <4>2. f[r] = r
        BY <2>2, <2>4, <3>2
      <4> QED
        BY <4>1, <4>2 DEF Alike
    <3>3. CASE ~alone
      <4>1. f[r] = [r EXCEPT !.blind = TRUE]
        BY <2>2, <2>4, <3>3
      <4>2. f[r].blind
        BY <2>1, <4>1 DEF Pg!Request
      <4> QED
        BY <4>1, <4>2 DEF Alike
    <3> QED
      BY <3>2, <3>3
  <2> QED
    BY <2>3, <2>4
<1>3. q.blind \in BOOLEAN /\ q = [q EXCEPT !.blind = q.blind]
  BY DEF Pg!Request
<1>4. Alike(new, q) /\ (~new.blind => ~q.blind /\ alone /\ same)
  <2>1. CASE q.blind \/ ~alone \/ ~same
    <3>1. new = [q EXCEPT !.blind = TRUE]
      BY <1>3, <2>1
    <3>2. new.blind
      BY <3>1 DEF Pg!Request
    <3> QED
      BY <3>1, <3>2 DEF Alike
  <2>2. CASE ~(q.blind \/ ~alone \/ ~same)
    <3>1. new = q
      BY <1>3, <2>2
    <3> QED
      BY <2>2, <3>1 DEF Alike
  <2> QED
    BY <2>1, <2>2
<1>5. alone /\ Pg!Reshapes(q) => \A r \in asking : ~Pg!Reshapes(r)
  OBVIOUS
<1> HIDE DEF f, new, alone, same
<1>6. ~new.blind => /\ ~q.blind /\ Pg!Tree(docs) = Pg!Tree(pageRows)
                    /\ Pg!Reshapes(q) => \A r \in asking : ~Pg!Reshapes(r)
  BY <1>4, <1>5 DEF same
<1>7. SentAs(q, f, new)
  BY <1>1, <1>2, <1>4, <1>6 DEF SentAs
<1> QED
  BY <1>7

LEMMA NothingIsTable == Pg!IsTable(<< >>) /\ DOMAIN << >> = {}
<1>1. DOMAIN << >> = {}
  OBVIOUS
<1>2. << >> = [x \in {} |-> 0]
  OBVIOUS
<1>3. << >> \in [{} -> Pg!Row]
  BY <1>2
<1> QED
  BY <1>1, <1>3 DEF Pg!IsTable

\* A request that was not sent yet.
Unsent(q, kind, p) ==
    /\ q \in Pg!Request(q.got) /\ Pg!IsTable(q.got) /\ DOMAIN q.got = {}
    /\ q.at = "sent" /\ q.kind = kind /\ q.page = p

LEMMA AskIs ==
  ASSUME TreeLimits, Pg!TypeOK, issued < PageRequests, NEW kind \in Pg!Kinds,
         NEW p \in Pg!Pages \cup {Pg!None}
  PROVE  /\ Unsent(Pg!Ask(kind, p), kind, p)
         /\ Pg!Ask(kind, p).shown <=> p \in Pg!Pages \cap {selectedId}
<1>1. issued + 1 \in 1 .. PageRequests
  BY DEF TreeLimits, Pg!TypeOK
<1>2. PICK b \in BOOLEAN : b <=> p \in Pg!Pages \cap {selectedId}
  OBVIOUS
<1>3. PICK q : q = Pg!Ask(kind, p)
  OBVIOUS
<1>4. q = [n |-> issued + 1, kind |-> kind, page |-> p, parent |-> Pg!None, tags |-> {},
           shown |-> b, at |-> "sent", got |-> << >>, blind |-> FALSE]
  <2>1. (p \in Pg!Pages \cap {selectedId}) = b
    BY <1>2
  <2> QED
    BY <1>3, <2>1 DEF Pg!Ask
<1>5. q.got = << >> /\ q \in Pg!Request(<< >>)
  BY <1>1, <1>2, <1>4 DEF Pg!Request
<1>6. Pg!IsTable(q.got) /\ DOMAIN q.got = {} /\ q \in Pg!Request(q.got)
  BY <1>5, NothingIsTable
<1>7. q.at = "sent" /\ q.kind = kind /\ q.page = p /\ q.shown = b
  BY <1>4
<1> QED
  BY <1>2, <1>3, <1>6, <1>7 DEF Unsent

RequestsTyped == \A r \in asking : Pg!IsTable(r.got) /\ r \in Pg!Request(r.got)

\* What sending q leaves typed.
LEMMA SendTyped ==
  ASSUME TreeLimits, Pg!TypeOK, NEW q, q \in Pg!Request(q.got), Pg!IsTable(q.got),
         NEW doubted, Pg!SendsDoubting(q, doubted)
  PROVE  issued' \in 0 .. PageRequests /\ RequestsTyped' /\ crossing' \subseteq Pg!Pages
<1>1. issued' \in 0 .. PageRequests
  BY DEF Pg!SendsDoubting, Pg!TypeOK, TreeLimits
<1>2. crossing' \subseteq Pg!Pages
  BY DEF Pg!SendsDoubting, Pg!TypeOK
<1>3. PICK f, new : SentAs(q, f, new)
  BY SendIs
<1>4. ASSUME NEW s \in asking' PROVE Pg!IsTable(s.got) /\ s \in Pg!Request(s.got)
  <2>1. CASE s = new
    BY <1>3, <2>1, AlikeIs DEF SentAs
  <2>2. CASE s # new
    <3>1. PICK r \in asking : s = f[r]
      BY <1>3, <2>2 DEF SentAs
    <3>2. Alike(s, r)
      BY <1>3, <3>1 DEF SentAs
    <3>3. Pg!IsTable(r.got) /\ r \in Pg!Request(r.got)
      BY DEF Pg!TypeOK
    <3> QED
      BY <3>2, <3>3, AlikeIs
  <2> QED
    BY <2>1, <2>2
<1> QED
  BY <1>1, <1>2, <1>4 DEF RequestsTyped

\* What replacing a request, or ending it, leaves typed.
LEMMA ReplaceTyped ==
  ASSUME Pg!TypeOK, NEW r \in asking, NEW q, Pg!Replaces(r, q),
         Pg!IsTable(q.got), q \in Pg!Request(q.got)
  PROVE  RequestsTyped'
BY DEF Pg!TypeOK, Pg!Replaces, RequestsTyped

LEMMA EndTyped ==
  ASSUME Pg!TypeOK, NEW r, Pg!Ends(r)
  PROVE  RequestsTyped'
BY DEF Pg!TypeOK, Pg!Ends, RequestsTyped

\* What is written and answered.
LEMMA WriteTyped ==
  ASSUME TreeLimits, Pg!TypeOK, NEW r \in asking, Pg!Adds(r) => pagesMade < MaxPages,
         r.kind \in {"load", "create"} \/ r.page \in DOMAIN pageRows
  PROVE  Pg!IsTable(Pg!Written(r)) /\ Pg!IsTable(Pg!Answer(r))
<1>1. /\ r.kind \in Pg!Kinds /\ r.page \in Pg!Pages \cup {Pg!None} /\ r.parent \in Pg!Pages \cup {Pg!None}
      /\ r.tags \in SUBSET Tags
  BY DEF Pg!TypeOK, Pg!Request
<1>2. pageRows \in [DOMAIN pageRows -> Pg!Row] /\ DOMAIN pageRows \subseteq Pg!Pages
  BY DEF Pg!TypeOK, Pg!IsTable
<1>3. CASE Pg!Adds(r)
  <2>1. pagesMade + 1 \in Pg!Pages
    BY <1>3 DEF TreeLimits, Pg!TypeOK, Pg!Pages
  <2>2. Pg!NewRow(r) \in Pg!Row
    BY <1>1, <1>2, <1>3 DEF Pg!NewRow, Pg!Adds, Pg!Row
  <2> DEFINE w == [p \in DOMAIN pageRows \cup {pagesMade + 1} |->
                     IF p = pagesMade + 1 THEN Pg!NewRow(r) ELSE pageRows[p]]
             a == [p \in {pagesMade + 1} |-> Pg!NewRow(r)]
  <2>3. Pg!Written(r) = w /\ Pg!Answer(r) = a
    BY <1>3 DEF Pg!Adds, Pg!Written, Pg!Answer
  <2>4. Pg!IsTable(w) /\ Pg!IsTable(a)
    BY <1>2, <2>1, <2>2 DEF Pg!IsTable
  <2> QED
    BY <2>3, <2>4
<1>4. CASE r.kind = "remove"
  <2> DEFINE w == [p \in DOMAIN pageRows \ {r.page} |-> pageRows[p]]
  <2>1. Pg!Written(r) = w /\ Pg!Answer(r) = << >>
    BY <1>4 DEF Pg!Adds, Pg!Written, Pg!Answer
  <2>2. Pg!IsTable(w)
    BY <1>2 DEF Pg!IsTable
  <2> QED
    BY <2>1, <2>2, NothingIsTable
<1>5. CASE r.kind = "move"
  <2> DEFINE w == [pageRows EXCEPT ![r.page].parent = r.parent]
  <2>1. Pg!Written(r) = w /\ Pg!Answer(r) = << >>
    BY <1>5 DEF Pg!Adds, Pg!Written, Pg!Answer
  <2>2. Pg!IsTable(w)
    BY <1>1, <1>2 DEF Pg!IsTable, Pg!Row
  <2> QED
    BY <2>1, <2>2, NothingIsTable
<1>6. CASE r.kind = "rename"
  <2> DEFINE w == [pageRows EXCEPT ![r.page].title = "renamed"]
  <2>1. Pg!Written(r) = w /\ Pg!Answer(r) = << >>
    BY <1>6 DEF Pg!Adds, Pg!Written, Pg!Answer
  <2>2. Pg!IsTable(w)
    BY <1>1, <1>2 DEF Pg!IsTable, Pg!Row
  <2> QED
    BY <2>1, <2>2, NothingIsTable
<1>7. CASE r.kind = "tags"
  <2> DEFINE w == [pageRows EXCEPT ![r.page].tags = r.tags]
  <2>1. Pg!Written(r) = w /\ Pg!Answer(r) = << >>
    BY <1>7 DEF Pg!Adds, Pg!Written, Pg!Answer
  <2>2. Pg!IsTable(w)
    BY <1>1, <1>2 DEF Pg!IsTable, Pg!Row
  <2> QED
    BY <2>1, <2>2, NothingIsTable
<1>8. CASE r.kind = "open"
  <2> DEFINE a == [p \in {r.page} |-> pageRows[p]]
  <2>1. Pg!Written(r) = pageRows /\ Pg!Answer(r) = a
    BY <1>8 DEF Pg!Adds, Pg!Written, Pg!Answer
  <2>2. Pg!IsTable(a)
    BY <1>2, <1>8 DEF Pg!IsTable
  <2> QED
    BY <2>1, <2>2 DEF Pg!TypeOK
<1>9. CASE r.kind = "load"
  BY <1>9 DEF Pg!Adds, Pg!Written, Pg!Answer, Pg!TypeOK
<1> QED
  BY <1>1, <1>3, <1>4, <1>5, <1>6, <1>7, <1>8, <1>9 DEF Pg!Kinds, Pg!Adds

\* The requests of the user, by action.
LEMMA Asked ==
  ASSUME TreeLimits, Pg!TypeOK
  PROVE  /\ \A p \in Pg!Pages : Pg!Select(p) =>
              \E q : /\ Unsent(q, "open", p) /\ Pg!SendsDoubting(q, {})
         /\ Pg!CreateFromTemplate =>
              \E q : /\ Unsent(q, "create", Pg!None)
                     /\ ~q.blind => q.parent \in Pg!Shown(docs) \cup {Pg!None}
                     /\ Pg!SendsDoubting(q, {})
         /\ \A p \in Pg!Pages : Pg!Duplicate(p) =>
              \E q : /\ Unsent(q, "duplicate", p) /\ Pg!SendsDoubting(q, {})
         /\ \A p \in Pg!Pages : Pg!Remove(p) =>
              \E q : /\ Unsent(q, "remove", p) /\ (q.shown <=> p = selectedId)
                     /\ Pg!SendsDoubting(q, {})
         /\ \A x, p \in Pg!Pages : Pg!Drop(x, p) =>
              \E q : /\ Unsent(q, "move", x) /\ q.parent = p
                     /\ ~q.blind => p \notin Pg!Subtree(docs, x)
                     /\ Pg!SendsDoubting(q, {})
         /\ Pg!Rename =>
              \E q : /\ Unsent(q, "rename", active.id)
                     /\ Pg!SendsDoubting(q, IF selectedId = active.id THEN {} ELSE {selectedId, active.id})
         /\ \A t \in Tags : Pg!ToggleTag(t) =>
              \E q : /\ Unsent(q, "tags", active.id)
                     /\ q.tags = Pg!Toggled(active.tags, t) /\ Pg!SendsDoubting(q, {})
<1>1. ASSUME NEW p \in Pg!Pages, Pg!Select(p)
      PROVE  \E q : /\ Unsent(q, "open", p) /\ Pg!SendsDoubting(q, {})
  <2>0. issued < PageRequests
    BY <1>1 DEF Pg!Select, Pg!Sends, Pg!SendsDoubting
  <2>1. Pg!SendsDoubting(Pg!Ask("open", p), {})
    BY <1>1 DEF Pg!Select, Pg!Sends, Pg!SendsDoubting
  <2>2. PICK q : q = Pg!Ask("open", p)
    OBVIOUS
  <2>3. "open" \in Pg!Kinds /\ p \in Pg!Pages \cup {Pg!None}
    BY DEF Pg!Kinds
  <2>4. Unsent(q, "open", p)
    BY <2>0, <2>2, <2>3, AskIs
  <2> QED
    BY <2>1, <2>2, <2>4
<1>2. ASSUME Pg!CreateFromTemplate
      PROVE  \E q : /\ Unsent(q, "create", Pg!None)
                    /\ ~q.blind => q.parent \in Pg!Shown(docs) \cup {Pg!None}
                    /\ Pg!SendsDoubting(q, {})
  <2>0. issued < PageRequests
    BY <1>2 DEF Pg!CreateFromTemplate, Pg!Sends, Pg!SendsDoubting
  <2>1. PICK a : a = Pg!Ask("create", Pg!None)
    OBVIOUS
  <2>2. PICK b \in BOOLEAN : b <=> pendingParentId \notin Pg!Shown(docs) \cup {Pg!None}
    OBVIOUS
  <2>3. PICK q : q = [a EXCEPT !.parent = pendingParentId, !.blind = b]
    OBVIOUS
  <2>4. (pendingParentId \notin Pg!Shown(docs) \cup {Pg!None}) = b
    BY <2>2
  <2>5. Pg!SendsDoubting(q, {})
    BY <1>2, <2>1, <2>3, <2>4 DEF Pg!CreateFromTemplate, Pg!Sends, Pg!SendsDoubting
  <2>6. "create" \in Pg!Kinds /\ Pg!None \in Pg!Pages \cup {Pg!None}
    BY DEF Pg!Kinds
  <2>7. Unsent(a, "create", Pg!None)
    BY <2>0, <2>1, <2>6, AskIs
  <2>8. pendingParentId \in Pg!Pages \cup {Pg!None}
    BY DEF Pg!TypeOK
  <2>9. Unsent(q, "create", Pg!None) /\ q.parent = pendingParentId /\ q.blind = b
    BY <2>3, <2>7, <2>8 DEF Pg!Request, Unsent
  <2>10. ~q.blind => q.parent \in Pg!Shown(docs) \cup {Pg!None}
    BY <2>2, <2>9
  <2> QED
    BY <2>5, <2>9, <2>10
<1>3. ASSUME NEW p \in Pg!Pages, Pg!Duplicate(p)
      PROVE  \E q : /\ Unsent(q, "duplicate", p) /\ Pg!SendsDoubting(q, {})
  <2>0. issued < PageRequests
    BY <1>3 DEF Pg!Duplicate, Pg!Sends, Pg!SendsDoubting
  <2>1. Pg!SendsDoubting(Pg!Ask("duplicate", p), {})
    BY <1>3 DEF Pg!Duplicate, Pg!Sends, Pg!SendsDoubting
  <2>2. PICK q : q = Pg!Ask("duplicate", p)
    OBVIOUS
  <2>3. "duplicate" \in Pg!Kinds /\ p \in Pg!Pages \cup {Pg!None}
    BY DEF Pg!Kinds
  <2>4. Unsent(q, "duplicate", p)
    BY <2>0, <2>2, <2>3, AskIs
  <2> QED
    BY <2>1, <2>2, <2>4
<1>4. ASSUME NEW p \in Pg!Pages, Pg!Remove(p)
      PROVE  \E q : /\ Unsent(q, "remove", p) /\ (q.shown <=> p = selectedId)
                    /\ Pg!SendsDoubting(q, {})
  <2>0. issued < PageRequests
    BY <1>4 DEF Pg!Remove, Pg!Sends, Pg!SendsDoubting
  <2>1. Pg!SendsDoubting(Pg!Ask("remove", p), {})
    BY <1>4 DEF Pg!Remove, Pg!Sends, Pg!SendsDoubting
  <2>2. PICK q : q = Pg!Ask("remove", p)
    OBVIOUS
  <2>3. "remove" \in Pg!Kinds /\ p \in Pg!Pages \cup {Pg!None}
    BY DEF Pg!Kinds
  <2>4. Unsent(q, "remove", p) /\ (q.shown <=> p = selectedId)
    BY <2>0, <2>2, <2>3, AskIs
  <2> QED
    BY <2>1, <2>2, <2>4
<1>5. ASSUME NEW x \in Pg!Pages, NEW p \in Pg!Pages, Pg!Drop(x, p)
      PROVE  \E q : /\ Unsent(q, "move", x) /\ q.parent = p
                    /\ ~q.blind => p \notin Pg!Subtree(docs, x)
                    /\ Pg!SendsDoubting(q, {})
  <2>0. issued < PageRequests
    BY <1>5 DEF Pg!Drop, Pg!Sends, Pg!SendsDoubting
  <2>1. PICK a : a = Pg!Ask("move", x)
    OBVIOUS
  <2>2. PICK b \in BOOLEAN : b <=> p \in Pg!Subtree(docs, x)
    OBVIOUS
  <2>3. PICK q : q = [a EXCEPT !.parent = p, !.blind = b]
    OBVIOUS
  <2>4. (p \in Pg!Subtree(docs, x)) = b
    BY <2>2
  <2>5. Pg!SendsDoubting(q, {})
    BY <1>5, <2>1, <2>3, <2>4 DEF Pg!Drop, Pg!Sends, Pg!SendsDoubting
  <2>6. "move" \in Pg!Kinds /\ x \in Pg!Pages \cup {Pg!None}
    BY DEF Pg!Kinds
  <2>7. Unsent(a, "move", x)
    BY <2>0, <2>1, <2>6, AskIs
  <2>8. Unsent(q, "move", x) /\ q.parent = p /\ q.blind = b
    BY <2>3, <2>7 DEF Pg!Request, Unsent
  <2> QED
    BY <2>2, <2>5, <2>8
<1>6. ASSUME Pg!Rename
      PROVE  \E q : /\ Unsent(q, "rename", active.id)
                    /\ Pg!SendsDoubting(q, IF selectedId = active.id THEN {} ELSE {selectedId, active.id})
  <2>0. issued < PageRequests
    BY <1>6 DEF Pg!Rename, Pg!Sends, Pg!SendsDoubting
  <2>1. Pg!SendsDoubting(Pg!Ask("rename", active.id),
                         IF selectedId = active.id THEN {} ELSE {selectedId, active.id})
    BY <1>6 DEF Pg!Rename, Pg!SendsDoubting
  <2>2. PICK q : q = Pg!Ask("rename", active.id)
    OBVIOUS
  <2>3. "rename" \in Pg!Kinds /\ active.id \in Pg!Pages \cup {Pg!None}
    BY DEF Pg!Kinds, Pg!TypeOK
  <2>4. Unsent(q, "rename", active.id)
    BY <2>0, <2>2, <2>3, AskIs
  <2> QED
    BY <2>1, <2>2, <2>4
<1>7. ASSUME NEW t \in Tags, Pg!ToggleTag(t)
      PROVE  \E q : /\ Unsent(q, "tags", active.id)
                    /\ q.tags = Pg!Toggled(active.tags, t) /\ Pg!SendsDoubting(q, {})
  <2>0. issued < PageRequests
    BY <1>7 DEF Pg!ToggleTag, Pg!Sends, Pg!SendsDoubting
  <2>1. PICK a : a = Pg!Ask("tags", active.id)
    OBVIOUS
  <2>3. PICK q : q = [a EXCEPT !.tags = Pg!Toggled(active.tags, t)]
    OBVIOUS
  <2>5. Pg!SendsDoubting(q, {})
    BY <1>7, <2>1, <2>3 DEF Pg!ToggleTag, Pg!Sends, Pg!SendsDoubting
  <2>6. "tags" \in Pg!Kinds /\ active.id \in Pg!Pages \cup {Pg!None} /\ active.tags \in SUBSET Tags
    BY DEF Pg!Kinds, Pg!TypeOK
  <2>7. Unsent(a, "tags", active.id)
    BY <2>0, <2>1, <2>6, AskIs
  <2>8. Pg!Toggled(active.tags, t) \in SUBSET Tags
    BY <2>6 DEF Pg!Toggled
  <2>9. Unsent(q, "tags", active.id) /\ q.tags = Pg!Toggled(active.tags, t)
    BY <2>3, <2>7, <2>8 DEF Pg!Request, Unsent
  <2> QED
    BY <2>5, <2>9
<1> QED
  BY <1>1, <1>2, <1>3, <1>4, <1>5, <1>6, <1>7

\* The page that was made is put on the list and asked for.
LEMMA TakeNewIs ==
  ASSUME TreeLimits, Pg!TypeOK, NEW r \in asking, GotRight(r), Pg!TakeNew(r), r.at = "answered"
  PROVE  \E n \in Pg!Pages, q \in asking' :
           /\ DOMAIN r.got = {n} /\ Brings(r, n) /\ asking' = (asking \ {r}) \cup {q}
           /\ Unsent(q, "open", n) /\ q.kind = "open" /\ q.page = n /\ q.at = "sent"
           /\ DOMAIN docs' = DOMAIN docs \cup {n} /\ docs'[n] = r.got[n]
           /\ docs' = [p \in DOMAIN docs' |-> docs'[p]]
           /\ \A p \in DOMAIN docs \ {n} : docs'[p] = docs[p]
           /\ selectedId' = n /\ UNCHANGED <<pageRows, active, crossing, tagged>>
           /\ mixture' = (Pg!Opens # {})
           /\ muddled' = IF Pg!Of("tags", n) # {} THEN muddled \cup {n} ELSE muddled
<1>1. PICK n \in Pg!Pages : DOMAIN r.got = {n}
  BY DEF GotRight, Pg!TakeNew
<1>2. (CHOOSE p \in DOMAIN r.got : TRUE) = n
  BY <1>1
<1>3. PICK a : a = Pg!Ask("open", n)
  OBVIOUS
<1>4. Unsent(a, "open", n)
  <2>1. issued < PageRequests /\ "open" \in Pg!Kinds /\ n \in Pg!Pages \cup {Pg!None}
    BY DEF Pg!TakeNew, Pg!Kinds
  <2> QED
    BY <1>3, <2>1, AskIs
<1>5. PICK q : q = [a EXCEPT !.shown = TRUE]
  OBVIOUS
<1>6. Unsent(q, "open", n) /\ q.kind = "open" /\ q.page = n /\ q.at = "sent"
  BY <1>4, <1>5 DEF Unsent, Pg!Request
<1>7. asking' = (asking \ {r}) \cup {q}
  BY <1>2, <1>3, <1>5 DEF Pg!TakeNew
<1>8. Brings(r, n)
  BY <1>1 DEF Brings, Pg!TakeNew
<1>9. selectedId' = n /\ UNCHANGED <<pageRows, active, crossing, tagged>> /\ mixture' = (Pg!Opens # {})
  BY <1>2 DEF Pg!TakeNew, Pg!table
<1>10. muddled' = IF Pg!Of("tags", n) # {} THEN muddled \cup {n} ELSE muddled
  BY <1>2 DEF Pg!TakeNew
<1>11. /\ DOMAIN docs' = DOMAIN docs \cup {n} /\ docs'[n] = r.got[n]
       /\ \A p \in DOMAIN docs \ {n} : docs'[p] = docs[p]
  BY <1>2 DEF Pg!TakeNew
<1>12. docs' = [p \in DOMAIN docs' |-> docs'[p]]
  BY DEF Pg!TakeNew
<1> QED
  BY <1>1, <1>6, <1>7, <1>8, <1>9, <1>10, <1>11, <1>12

ByUser ==
    \/ Pg!CreateFromTemplate \/ Pg!Rename
    \/ \E p \in Pg!Pages : Pg!Select(p) \/ Pg!Duplicate(p) \/ Pg!Remove(p)
                           \/ \E x \in Pg!Pages : Pg!Drop(x, p)
    \/ \E t \in Tags : Pg!ToggleTag(t)

NoRequest ==
    \/ Pg!Back \/ Pg!CloseTemplatePicker
    \/ \E p \in Pg!Pages \cup {Pg!None} : Pg!OpenTemplatePicker(p)

LEMMA TitleTyped ==
  ASSUME Pg!TypeOK, Pg!TitleChange
  PROVE  Pg!IsTable(docs') /\ DOMAIN docs' = DOMAIN docs
BY DEF Pg!TitleChange, Pg!TypeOK, Pg!IsTable, Pg!Row

\* Every step leaves the types right.
LEMMA UserTyped ==
  ASSUME TreeLimits, Pg!TypeOK, ByUser
  PROVE  Pg!TypeOK'
<1>1. ASSUME NEW q, NEW doubted, NEW kind, NEW p, Unsent(q, kind, p), Pg!SendsDoubting(q, doubted)
      PROVE  issued' \in 0 .. PageRequests /\ RequestsTyped' /\ crossing' \subseteq Pg!Pages
  <2>1. q \in Pg!Request(q.got) /\ Pg!IsTable(q.got)
    BY <1>1 DEF Unsent
  <2> QED
    BY <1>1, <2>1, SendTyped
<1>2. CASE Pg!CreateFromTemplate
  <2>1. issued' \in 0 .. PageRequests /\ RequestsTyped' /\ crossing' \subseteq Pg!Pages
    BY <1>1, <1>2, Asked
  <2> QED
    BY <1>2, <2>1 DEF Pg!CreateFromTemplate, Pg!TypeOK, RequestsTyped, Pg!table, Pg!page
<1>3. CASE Pg!Rename
  <2>1. issued' \in 0 .. PageRequests /\ RequestsTyped' /\ crossing' \subseteq Pg!Pages
    BY <1>1, <1>3, Asked
  <2>2. Pg!IsTable(docs')
    BY <1>3, TitleTyped DEF Pg!Rename
  <2> QED
    BY <1>3, <2>1, <2>2 DEF Pg!Rename, Pg!TypeOK, RequestsTyped, Pg!table, Pg!page, Pg!picker
<1>4. ASSUME NEW p \in Pg!Pages, Pg!Select(p) PROVE Pg!TypeOK'
  <2>1. issued' \in 0 .. PageRequests /\ RequestsTyped' /\ crossing' \subseteq Pg!Pages
    BY <1>1, <1>4, Asked
  <2> QED
    BY <1>4, <2>1 DEF Pg!Select, Pg!TypeOK, RequestsTyped, Pg!table, Pg!picker
<1>5. ASSUME NEW p \in Pg!Pages, Pg!Duplicate(p) PROVE Pg!TypeOK'
  <2>1. issued' \in 0 .. PageRequests /\ RequestsTyped' /\ crossing' \subseteq Pg!Pages
    BY <1>1, <1>5, Asked
  <2> QED
    BY <1>5, <2>1 DEF Pg!Duplicate, Pg!TypeOK, RequestsTyped, Pg!table, Pg!page, Pg!picker
<1>6. ASSUME NEW p \in Pg!Pages, Pg!Remove(p) PROVE Pg!TypeOK'
  <2>1. issued' \in 0 .. PageRequests /\ RequestsTyped' /\ crossing' \subseteq Pg!Pages
    BY <1>1, <1>6, Asked
  <2> QED
    BY <1>6, <2>1 DEF Pg!Remove, Pg!TypeOK, RequestsTyped, Pg!table, Pg!page, Pg!picker
<1>7. ASSUME NEW x \in Pg!Pages, NEW p \in Pg!Pages, Pg!Drop(x, p) PROVE Pg!TypeOK'
  <2>1. issued' \in 0 .. PageRequests /\ RequestsTyped' /\ crossing' \subseteq Pg!Pages
    BY <1>1, <1>7, Asked
  <2> QED
    BY <1>7, <2>1 DEF Pg!Drop, Pg!TypeOK, RequestsTyped, Pg!table, Pg!page, Pg!picker
<1>8. ASSUME NEW t \in Tags, Pg!ToggleTag(t) PROVE Pg!TypeOK'
  <2>1. issued' \in 0 .. PageRequests /\ RequestsTyped' /\ crossing' \subseteq Pg!Pages
    BY <1>1, <1>8, Asked
  <2>2. active.id \in Pg!Pages
    BY <1>8 DEF Pg!ToggleTag, Pg!TypeOK
  <2>3. tagged' \in [Pg!Pages -> SUBSET Tags]
    BY <1>8, <2>2 DEF Pg!ToggleTag, Pg!TypeOK, Pg!Toggled
  <2>4. muddled' \subseteq Pg!Pages
    BY <1>8, <2>2 DEF Pg!ToggleTag, Pg!TypeOK
  <2> QED
    BY <1>8, <2>1, <2>3, <2>4 DEF Pg!ToggleTag, Pg!TypeOK, RequestsTyped, Pg!table, Pg!page, Pg!picker
<1> QED
  BY <1>2, <1>3, <1>4, <1>5, <1>6, <1>7, <1>8 DEF ByUser

LEMMA ServerTyped ==
  ASSUME TreeLimits, Pg!TypeOK, NEW r \in asking, GotRight(r), Pg!Serve(r) \/ Pg!Refuse(r)
  PROVE  Pg!TypeOK'
<1>1. /\ r \in Pg!Request(r.got) /\ Pg!IsTable(r.got)
      /\ r.kind \in Pg!Kinds /\ r.page \in Pg!Pages \cup {Pg!None} /\ r.tags \in SUBSET Tags
  BY DEF Pg!TypeOK, Pg!Request
<1>2. Pg!Doubts(r) \subseteq Pg!Pages /\ (r.kind = "tags" => r.page \in Pg!Pages)
  BY <1>1 DEF Pg!Doubts, GotRight
<1>3. [r EXCEPT !.at = "refused"] \in Pg!Request([r EXCEPT !.at = "refused"].got)
      /\ Pg!IsTable([r EXCEPT !.at = "refused"].got)
  BY <1>1 DEF Pg!Request
<1>4. CASE Pg!Serve(r)
  <2>1. Pg!IsTable(Pg!Written(r)) /\ Pg!IsTable(Pg!Answer(r))
    BY <1>4, WriteTyped DEF Pg!Serve
  <2>2. PICK q : q = [r EXCEPT !.at = "answered", !.got = Pg!Answer(r)]
    OBVIOUS
  <2>3. q \in Pg!Request(q.got) /\ Pg!IsTable(q.got)
    BY <1>1, <2>1, <2>2 DEF Pg!Request
  <2>4. RequestsTyped'
    BY <1>3, <1>4, <2>2, <2>3, ReplaceTyped DEF Pg!Serve
  <2>6. pagesMade' \in 0 .. MaxPages /\ (Pg!Adds(r) => pagesMade' \in Pg!Pages)
    BY <1>4 DEF Pg!Serve, Pg!TypeOK, TreeLimits, Pg!Pages
  <2>7. crossing' \subseteq Pg!Pages
    BY <1>2, <1>4, <2>6 DEF Pg!Serve, Pg!TypeOK
  <2>8. muddled' \subseteq Pg!Pages
    BY <1>2, <1>4 DEF Pg!Serve, Pg!TypeOK
  <2>9. trouble' \in 0 .. PageFaults
    BY <1>4 DEF Pg!Serve, Pg!Fault, Pg!TypeOK, TreeLimits
  <2>10. exempt' \subseteq Pg!Pages
    <3>1. Pg!Hidden(pageRows') \subseteq Pg!Pages
      BY <1>4, <2>1 DEF Pg!Serve, Pg!Hidden, Pg!IsTable
    <3> QED
      BY <1>4, <3>1 DEF Pg!Serve
  <2>11. tagged' \in [Pg!Pages -> SUBSET Tags]
    <3>1. CASE r.kind = "duplicate"
      <4>1. pageRows[r.page].tags \in SUBSET Tags
        BY <1>4, <3>1 DEF Pg!Serve, Pg!TypeOK, Pg!IsTable, Pg!Row
      <4> QED
        BY <1>4, <3>1, <4>1 DEF Pg!Serve, Pg!TypeOK
    <3> QED
      BY <1>4, <3>1 DEF Pg!Serve, Pg!TypeOK
  <2> QED
    BY <1>4, <2>1, <2>4, <2>6, <2>7, <2>8, <2>9, <2>10, <2>11
       DEF Pg!Serve, Pg!TypeOK, RequestsTyped, Pg!page, Pg!picker
<1>5. CASE Pg!Refuse(r)
  <2>1. RequestsTyped'
    BY <1>3, <1>5, ReplaceTyped DEF Pg!Refuse
  <2>2. crossing' \subseteq Pg!Pages /\ muddled' \subseteq Pg!Pages
    BY <1>2, <1>5 DEF Pg!Refuse, Pg!TypeOK
  <2>3. trouble' \in 0 .. PageFaults
    BY <1>5 DEF Pg!Refuse, Pg!Fault, Pg!TypeOK, TreeLimits
  <2> QED
    BY <1>5, <2>1, <2>2, <2>3 DEF Pg!Refuse, Pg!TypeOK, RequestsTyped, Pg!table, Pg!page, Pg!picker
<1> QED
  BY <1>4, <1>5

LEMMA TabTyped ==
  ASSUME TreeLimits, Pg!TypeOK, NEW r \in asking, GotRight(r), Pg!Take(r) \/ Pg!Fail(r)
  PROVE  Pg!TypeOK'
<1>1. /\ r \in Pg!Request(r.got) /\ Pg!IsTable(r.got) /\ r.kind \in Pg!Kinds
      /\ r.page \in Pg!Pages \cup {Pg!None} /\ r.parent \in Pg!Pages \cup {Pg!None}
      /\ r.tags \in SUBSET Tags
  BY DEF Pg!TypeOK, Pg!Request
<1>2. CASE Pg!TakeLoad(r)
  <2>1. RequestsTyped'
    BY <1>2, EndTyped DEF Pg!TakeLoad
  <2> QED
    BY <1>1, <1>2, <2>1 DEF Pg!TakeLoad, Pg!TypeOK, RequestsTyped, Pg!table, Pg!page, Pg!picker, Pg!hist
<1>3. CASE Pg!TakeOpen(r) /\ r.at = "answered"
  <2>1. RequestsTyped'
    BY <1>3, EndTyped DEF Pg!TakeOpen
  <2>2. r.got[r.page].tags \in SUBSET Tags
    BY <1>1, <1>3 DEF GotRight, Pg!TakeOpen, Pg!IsTable, Pg!Row
  <2> QED
    BY <1>1, <1>3, <2>1, <2>2 DEF Pg!TakeOpen, Pg!TypeOK, RequestsTyped, Pg!table, Pg!picker, Pg!hist
<1>4. CASE Pg!TakeNew(r) /\ r.at = "answered"
  <2>1. PICK n \in Pg!Pages, q \in asking' :
           /\ DOMAIN r.got = {n} /\ asking' = (asking \ {r}) \cup {q} /\ Unsent(q, "open", n)
           /\ DOMAIN docs' = DOMAIN docs \cup {n} /\ docs'[n] = r.got[n]
           /\ docs' = [p \in DOMAIN docs' |-> docs'[p]] /\ \A p \in DOMAIN docs \ {n} : docs'[p] = docs[p]
           /\ selectedId' = n /\ mixture' = (Pg!Opens # {})
           /\ muddled' = IF Pg!Of("tags", n) # {} THEN muddled \cup {n} ELSE muddled
    BY <1>4, TakeNewIs
  <2>2. RequestsTyped'
    BY <2>1, ReplaceTyped DEF Pg!Replaces, Unsent
  <2>3. Pg!IsTable(docs')
    <3>1. r.got[n] \in Pg!Row /\ \A p \in DOMAIN docs : docs[p] \in Pg!Row
      BY <1>1, <2>1 DEF Pg!TypeOK, Pg!IsTable
    <3>2. \A p \in DOMAIN docs' : docs'[p] \in Pg!Row
      BY <2>1, <3>1
    <3> QED
      BY <2>1, <3>2 DEF Pg!TypeOK, Pg!IsTable
  <2>4. issued' \in 0 .. PageRequests
    BY <1>4 DEF Pg!TakeNew, Pg!TypeOK, TreeLimits
  <2>5. selectedId' \in Pg!Pages /\ muddled' \subseteq Pg!Pages /\ mixture' \in BOOLEAN
    BY <2>1 DEF Pg!TypeOK
  <2>6. pendingParentId' \in Pg!Pages \cup {Pg!None}
    BY <1>4 DEF Pg!TakeNew, Pg!TypeOK
  <2> QED
    BY <1>4, <2>2, <2>3, <2>4, <2>5, <2>6 DEF Pg!TakeNew, Pg!TypeOK, RequestsTyped, Pg!table
<1>5. CASE Pg!TakeRemoved(r)
  <2>1. RequestsTyped'
    BY <1>5, EndTyped DEF Pg!TakeRemoved
  <2>2. Pg!IsTable(docs')
    BY <1>5 DEF Pg!TakeRemoved, Pg!TypeOK, Pg!IsTable
  <2>3. /\ selectedId' \in Pg!Pages \cup {Pg!None} /\ mixture' \in BOOLEAN
        /\ active' \in [id : Pg!Pages \cup {Pg!None}, tags : SUBSET Tags]
    <3>1. CASE r.shown
      BY <1>5, <3>1 DEF Pg!TakeRemoved, Pg!TypeOK, Pg!NoDoc
    <3>2. CASE ~r.shown
      BY <1>5, <3>2 DEF Pg!TakeRemoved, Pg!TypeOK
    <3> QED
      BY <3>1, <3>2
  <2> QED
    BY <1>5, <2>1, <2>2, <2>3
       DEF Pg!TakeRemoved, Pg!TypeOK, RequestsTyped, Pg!table, Pg!picker
<1>6. CASE Pg!TakeMoved(r)
  <2>1. RequestsTyped'
    BY <1>6, EndTyped DEF Pg!TakeMoved
  <2>2. Pg!IsTable(docs')
    BY <1>1, <1>6 DEF Pg!TakeMoved, Pg!TypeOK, Pg!IsTable, Pg!Row
  <2> QED
    BY <1>6, <2>1, <2>2 DEF Pg!TakeMoved, Pg!TypeOK, RequestsTyped, Pg!table, Pg!page, Pg!picker, Pg!hist
<1>7. CASE Pg!TakeTags(r)
  <2>1. RequestsTyped'
    BY <1>7, EndTyped DEF Pg!TakeTags
  <2>2. Pg!IsTable(docs')
    BY <1>1, <1>7 DEF Pg!TakeTags, Pg!TypeOK, Pg!IsTable, Pg!Row
  <2>3. active' \in [id : Pg!Pages \cup {Pg!None}, tags : SUBSET Tags] /\ muddled' \subseteq Pg!Pages
    BY <1>1, <1>7 DEF Pg!TakeTags, Pg!TypeOK
  <2> QED
    BY <1>7, <2>1, <2>2, <2>3 DEF Pg!TakeTags, Pg!TypeOK, RequestsTyped, Pg!table, Pg!page, Pg!picker
<1>8. CASE Pg!Ends(r) /\ UNCHANGED <<Pg!table, docs, Pg!page, Pg!picker, issued, trouble, Pg!hist>>
  <2>1. RequestsTyped'
    BY <1>8, EndTyped
  <2> QED
    BY <1>8, <2>1 DEF Pg!TypeOK, RequestsTyped, Pg!table, Pg!page, Pg!picker, Pg!hist
<1>9. CASE Pg!Fail(r)
  <2>1. RequestsTyped'
    BY <1>9, EndTyped DEF Pg!Fail
  <2> QED
    BY <1>9, <2>1 DEF Pg!Fail, Pg!TypeOK, RequestsTyped, Pg!table, Pg!page, Pg!picker
<1> QED
  BY <1>2, <1>3, <1>4, <1>5, <1>6, <1>7, <1>8, <1>9 DEF Pg!Take

LEMMA LocalTyped ==
  ASSUME Pg!TypeOK, NoRequest
  PROVE  Pg!TypeOK'
<1>1. CASE Pg!Back
  <2>1. mixture' \in BOOLEAN /\ active' \in [id : Pg!Pages \cup {Pg!None}, tags : SUBSET Tags]
    BY <1>1 DEF Pg!Back, Pg!TypeOK, Pg!NoDoc
  <2> QED
    BY <1>1, <2>1 DEF Pg!Back, Pg!TypeOK, Pg!table, Pg!picker
<1>2. CASE Pg!CloseTemplatePicker
  BY <1>2 DEF Pg!CloseTemplatePicker, Pg!TypeOK, Pg!table, Pg!page, Pg!hist
<1>3. CASE \E p \in Pg!Pages \cup {Pg!None} : Pg!OpenTemplatePicker(p)
  BY <1>3 DEF Pg!OpenTemplatePicker, Pg!TypeOK, Pg!table, Pg!page, Pg!hist
<1> QED
  BY <1>1, <1>2, <1>3 DEF NoRequest
-----------------------------------------------------------------------------
(* No page is known that was not made.                                     *)

LEMMA MadeGrows ==
  ASSUME Pg!TypeOK, Pg!TypeOK', pagesMade' >= pagesMade, NEW p, Made(p)
  PROVE  Made(p)'
BY DEF Made, Pg!TypeOK, Pg!Pages

\* A new request is for a page that the tab knows.
LEMMA SendMade ==
  ASSUME Pg!TypeOK, AllMade, UNCHANGED pagesMade, NEW q, NEW doubted, NEW kind, NEW p,
         Unsent(q, kind, p), Pg!SendsDoubting(q, doubted), Made(p),
         kind \in {"load", "create"} <=> p = Pg!None
  PROVE  AllMade'
<1>1. GotMade(q)
  BY DEF GotMade, GotRight, Unsent
<1>2. PICK f, new : SentAs(q, f, new)
  BY SendIs DEF Unsent
<1>3. ASSUME NEW r, NEW s, r \in Pg!Request(r.got), Alike(s, r), GotMade(r) PROVE GotMade(s)'
  <2>1. s.kind = r.kind /\ s.page = r.page /\ s.at = r.at /\ s.got = r.got
    BY <1>3, AlikeIs
  <2> QED
    BY <1>3, <2>1 DEF GotMade, GotRight, Made, Pg!Adds
<1>4. q \in Pg!Request(q.got)
  BY DEF Unsent
<1>5. ASSUME NEW s \in asking' PROVE GotMade(s)'
  <2>1. CASE s = new
    BY <1>1, <1>2, <1>3, <1>4, <2>1 DEF SentAs
  <2>2. CASE s # new
    <3>1. PICK r \in asking : s = f[r]
      BY <1>2, <2>2 DEF SentAs
    <3>2. Alike(s, r) /\ GotMade(r) /\ r \in Pg!Request(r.got)
      BY <1>2, <3>1 DEF SentAs, AllMade, Pg!TypeOK
    <3> QED
      BY <1>3, <3>2
  <2> QED
    BY <2>1, <2>2
<1> QED
  BY <1>5 DEF AllMade

LEMMA UserMade ==
  ASSUME TreeLimits, Pg!TypeOK, MadeSoFar, AllMade, ByUser
  PROVE  MadeSoFar' /\ AllMade'
<1>1. Pg!None \notin Pg!Pages /\ Made(Pg!None) /\ Made(active.id) /\ \A p \in DOMAIN docs : Made(p)
  BY TopIsNone DEF Made, MadeSoFar
<1>2. Pg!Shown(docs) \subseteq DOMAIN docs
  BY ShownIn DEF TreeLimits, Pg!TypeOK, Pg!IsTable
<1>3. CASE Pg!CreateFromTemplate
  <2>1. AllMade'
    <3>1. UNCHANGED pagesMade
      BY <1>3 DEF Pg!CreateFromTemplate, Pg!table
    <3> QED
      BY <1>1, <1>3, <3>1, Asked, SendMade
  <2> QED
    BY <1>3, <2>1 DEF Pg!CreateFromTemplate, MadeSoFar, Made, Pg!table, Pg!page
<1>4. CASE Pg!Rename
  <2>1. AllMade'
    <3>1. UNCHANGED pagesMade /\ active.id # Pg!None
      BY <1>4 DEF Pg!Rename
    <3> QED
      BY <1>1, <1>4, <3>1, Asked, SendMade
  <2>2. DOMAIN docs' = DOMAIN docs
    BY <1>4, TitleTyped DEF Pg!Rename
  <2> QED
    BY <1>4, <2>1, <2>2 DEF Pg!Rename, MadeSoFar, Made, Pg!table, Pg!page
<1>5. ASSUME NEW p \in Pg!Pages, Pg!Select(p) PROVE MadeSoFar' /\ AllMade'
  <2>1. AllMade'
    <3>1. UNCHANGED pagesMade /\ p # Pg!None /\ Made(p)
      BY <1>1, <1>5 DEF Pg!Select, Pg!table
    <3> QED
      BY <1>5, <3>1, Asked, SendMade
  <2> QED
    BY <1>5, <2>1 DEF Pg!Select, MadeSoFar, Made, Pg!table
<1>6. ASSUME NEW p \in Pg!Pages, Pg!Duplicate(p) PROVE MadeSoFar' /\ AllMade'
  <2>1. AllMade'
    <3>1. UNCHANGED pagesMade /\ p # Pg!None /\ Made(p)
      BY <1>1, <1>2, <1>6 DEF Pg!Duplicate, Pg!table
    <3> QED
      BY <1>6, <3>1, Asked, SendMade
  <2> QED
    BY <1>6, <2>1 DEF Pg!Duplicate, MadeSoFar, Made, Pg!table, Pg!page
<1>7. ASSUME NEW p \in Pg!Pages, Pg!Remove(p) PROVE MadeSoFar' /\ AllMade'
  <2>1. AllMade'
    <3>1. UNCHANGED pagesMade /\ p # Pg!None /\ Made(p)
      BY <1>1, <1>2, <1>7 DEF Pg!Remove, Pg!table
    <3> QED
      BY <1>7, <3>1, Asked, SendMade
  <2> QED
    BY <1>7, <2>1 DEF Pg!Remove, MadeSoFar, Made, Pg!table, Pg!page
<1>8. ASSUME NEW x \in Pg!Pages, NEW p \in Pg!Pages, Pg!Drop(x, p) PROVE MadeSoFar' /\ AllMade'
  <2>1. AllMade'
    <3>1. UNCHANGED pagesMade /\ x # Pg!None /\ Made(x)
      BY <1>1, <1>2, <1>8 DEF Pg!Drop, Pg!table
    <3> QED
      BY <1>8, <3>1, Asked, SendMade
  <2> QED
    BY <1>8, <2>1 DEF Pg!Drop, MadeSoFar, Made, Pg!table, Pg!page
<1>9. ASSUME NEW t \in Tags, Pg!ToggleTag(t) PROVE MadeSoFar' /\ AllMade'
  <2>1. UNCHANGED pagesMade /\ active.id # Pg!None /\ active.id \in Pg!Pages
    BY <1>9 DEF Pg!ToggleTag, Pg!table, Pg!TypeOK
  <2>2. AllMade'
    BY <1>1, <1>9, <2>1, Asked, SendMade
  <2>3. \A p \in Pg!Pages : p > pagesMade => tagged'[p] = {}
    <3>1. ~(active.id > pagesMade)
      BY <1>1, <2>1 DEF Made, Pg!Pages, Pg!TypeOK
    <3>2. \A p \in Pg!Pages \ {active.id} : tagged'[p] = tagged[p]
      BY <1>9 DEF Pg!ToggleTag, Pg!TypeOK
    <3> QED
      BY <3>1, <3>2 DEF MadeSoFar
  <2> QED
    BY <1>9, <2>1, <2>2, <2>3 DEF Pg!ToggleTag, MadeSoFar, Made, Pg!table, Pg!page
<1> QED
  BY <1>3, <1>4, <1>5, <1>6, <1>7, <1>8, <1>9 DEF ByUser

LEMMA ServerMade ==
  ASSUME TreeLimits, Pg!TypeOK, Pg!TypeOK', MadeSoFar, AllMade, NEW r \in asking,
         Pg!Serve(r) \/ Pg!Refuse(r)
  PROVE  MadeSoFar' /\ AllMade'
<1>1. GotMade(r) /\ r \in Pg!Request(r.got)
  BY DEF AllMade, Pg!TypeOK
<1>2. pagesMade' >= pagesMade
  BY DEF Pg!Serve, Pg!Refuse, Pg!table, Pg!TypeOK, TreeLimits
<1>3. \A s \in asking : GotMade(s)'
  BY <1>2, MadeGrows DEF AllMade, GotMade, GotRight, Pg!Adds
<1>4. PICK d : d = [r EXCEPT !.at = "refused"]
  OBVIOUS
<1>5. d.kind = r.kind /\ d.page = r.page /\ d.at = "refused" /\ d.got = r.got
  BY <1>1, <1>4 DEF Pg!Request
<1>6. ASSUME r.at = "sent" PROVE GotMade(d)'
  BY <1>3, <1>5, <1>6, <1>1 DEF GotMade, GotRight, Pg!Adds
<1>7. CASE Pg!Serve(r)
  <2>1. PICK q : q = [r EXCEPT !.at = "answered", !.got = Pg!Answer(r)]
    OBVIOUS
  <2>2. q.kind = r.kind /\ q.page = r.page /\ q.at = "answered" /\ q.got = Pg!Answer(r)
    BY <1>1, <2>1 DEF Pg!Request
  <2>3. Pg!Adds(r) => Pg!Answer(r) = [p \in {pagesMade + 1} |-> Pg!NewRow(r)] /\ pagesMade' = pagesMade + 1
    BY <1>7 DEF Pg!Serve, Pg!Answer, Pg!Adds
  <2>4. r.kind = "open" => DOMAIN Pg!Answer(r) = {r.page}
    BY DEF Pg!Answer, Pg!Adds
  <2>5. DOMAIN Pg!Answer(r) \subseteq DOMAIN pageRows \cup {r.page, pagesMade'}
    <3>1. r.kind = "load" => Pg!Answer(r) = pageRows
      BY DEF Pg!Answer, Pg!Adds
    <3>2. r.kind \notin {"load", "open", "create", "duplicate"} => Pg!Answer(r) = << >>
      BY DEF Pg!Answer, Pg!Adds
    <3> QED
      BY <2>3, <2>4, <3>1, <3>2, NothingIsTable DEF Pg!Adds
  <2>6. Pg!Adds(r) => pagesMade' \in Pg!Pages
    BY <1>7 DEF Pg!Serve, Pg!TypeOK, TreeLimits, Pg!Pages
  <2>7. GotMade(q)'
    <3>1. \A p \in DOMAIN Pg!Answer(r) : Made(p)'
      <4>1. \A p \in DOMAIN pageRows \cup {r.page} : Made(p)'
        BY <1>1, <1>2, MadeGrows DEF MadeSoFar, GotMade
      <4>2. Made(pagesMade)'
        BY DEF Made, Pg!TypeOK
      <4> QED
        BY <2>5, <4>1, <4>2
    <3>2. Made(r.page)'
      BY <1>1, <1>2, MadeGrows DEF GotMade
    <3> QED
      BY <1>1, <2>2, <2>3, <2>4, <2>6, <3>1, <3>2 DEF GotMade, GotRight, Pg!Adds
  <2>8. AllMade'
    BY <1>3, <1>4, <1>6, <1>7, <2>1, <2>7 DEF AllMade, Pg!Serve, Pg!Replaces
  <2>9. \A p \in DOMAIN pageRows' : Made(p)'
    <3>1. DOMAIN pageRows' \subseteq DOMAIN pageRows \cup {pagesMade'}
      BY <1>7 DEF Pg!Serve, Pg!Written, Pg!Adds
    <3>2. Made(pagesMade)'
      BY DEF Made, Pg!TypeOK
    <3> QED
      BY <1>2, <3>1, <3>2, MadeGrows DEF MadeSoFar
  <2>10. \A p \in Pg!Pages : p > pagesMade' => tagged'[p] = {}
    <3>1. CASE r.kind = "duplicate"
      <4>1. \A p \in Pg!Pages : p > pagesMade' => tagged'[p] = tagged[p]
        BY <1>7, <3>1 DEF Pg!Serve, Pg!TypeOK, Pg!Pages
      <4> QED
        BY <1>2, <4>1 DEF MadeSoFar, Pg!Pages, Pg!TypeOK
    <3>2. CASE r.kind # "duplicate"
      BY <1>2, <1>7, <3>2 DEF Pg!Serve, MadeSoFar, Pg!Pages, Pg!TypeOK
    <3> QED
      BY <3>1, <3>2
  <2>11. UNCHANGED <<docs, named, selectedId, active>>
    BY <1>7 DEF Pg!Serve, Pg!page
  <2> QED
    BY <1>2, <2>8, <2>9, <2>10, <2>11, MadeGrows DEF MadeSoFar
<1>8. CASE Pg!Refuse(r)
  <2>1. AllMade'
    BY <1>3, <1>4, <1>6, <1>8 DEF AllMade, Pg!Refuse, Pg!Replaces
  <2> QED
    BY <1>8, <2>1 DEF Pg!Refuse, MadeSoFar, Made, Pg!table, Pg!page
<1> QED
  BY <1>7, <1>8

LEMMA TabMade ==
  ASSUME TreeLimits, Pg!TypeOK, MadeSoFar, AllMade, NEW r \in asking, Pg!Take(r) \/ Pg!Fail(r)
  PROVE  MadeSoFar' /\ AllMade'
<1>1. GotMade(r)
  BY DEF AllMade
<1>2. UNCHANGED <<pageRows, pagesMade, named, tagged>>
  BY DEF Pg!Take, Pg!Fail, Pg!TakeLoad, Pg!TakeOpen, Pg!TakeNew, Pg!TakeRemoved, Pg!TakeMoved, Pg!TakeTags,
         Pg!table, Pg!hist
<1>3. \A p : Made(p)' <=> Made(p)
  BY <1>2 DEF Made
<1>4. Made(Pg!None)
  BY TopIsNone DEF Made
<1>5. \A p \in DOMAIN docs' \cup {selectedId', active'.id} : Made(p)
  <2>1. CASE Pg!TakeLoad(r)
    BY <1>1, <2>1 DEF Pg!TakeLoad, Pg!page, GotMade, MadeSoFar
  <2>2. CASE Pg!TakeOpen(r)
    BY <1>1, <2>2 DEF Pg!TakeOpen, GotMade, MadeSoFar
  <2>3. CASE Pg!TakeNew(r) /\ r.at = "answered"
    <3>1. PICK n \in Pg!Pages :
            DOMAIN r.got = {n} /\ DOMAIN docs' = DOMAIN docs \cup {n} /\ selectedId' = n /\ active' = active
      BY <1>1, <2>3, TakeNewIs DEF GotMade
    <3> QED
      BY <1>1, <3>1 DEF GotMade, MadeSoFar
  <2>4. CASE Pg!TakeRemoved(r)
    <3>1. DOMAIN docs' \subseteq DOMAIN docs /\ selectedId' \in {selectedId, Pg!None}
          /\ active'.id \in {active.id, Pg!None}
      BY <2>4 DEF Pg!TakeRemoved, Pg!NoDoc
    <3> QED
      BY <1>4, <3>1 DEF MadeSoFar
  <2>5. CASE Pg!TakeMoved(r)
    <3>1. DOMAIN docs' = DOMAIN docs /\ UNCHANGED <<selectedId, active>>
      BY <2>5 DEF Pg!TakeMoved, Pg!page
    <3> QED
      BY <3>1 DEF MadeSoFar
  <2>6. CASE Pg!TakeTags(r)
    <3>1. DOMAIN docs' = DOMAIN docs /\ UNCHANGED selectedId
      BY <2>6 DEF Pg!TakeTags
    <3>2. active'.id = active.id
      BY <2>6 DEF Pg!TakeTags, Pg!TypeOK
    <3> QED
      BY <3>1, <3>2 DEF MadeSoFar
  <2>7. CASE UNCHANGED <<docs, selectedId, active>>
    BY <2>7 DEF MadeSoFar
  <2> QED
    BY <2>1, <2>2, <2>3, <2>4, <2>5, <2>6, <2>7 DEF Pg!Take, Pg!Fail, Pg!page
<1>6. MadeSoFar'
  BY <1>2, <1>3, <1>5 DEF MadeSoFar
<1>7. \A s \in asking : GotMade(s)'
  BY <1>3 DEF AllMade, GotMade, GotRight, Pg!Adds
<1>8. ASSUME NEW s \in asking' \ asking PROVE GotMade(s)'
  <2>1. Pg!TakeNew(r) /\ r.at = "answered"
    BY <1>8 DEF Pg!Take, Pg!Fail, Pg!TakeLoad, Pg!TakeOpen, Pg!TakeRemoved, Pg!TakeMoved, Pg!TakeTags, Pg!Ends
  <2>2. PICK n \in Pg!Pages, q \in asking' :
           DOMAIN r.got = {n} /\ asking' = (asking \ {r}) \cup {q} /\ Unsent(q, "open", n)
    BY <1>1, <2>1, TakeNewIs DEF GotMade
  <2>3. s.kind = "open" /\ s.page = n /\ s.at = "sent" /\ DOMAIN s.got = {}
    BY <1>8, <2>2 DEF Unsent
  <2>4. Made(n)'
    BY <1>1, <1>3, <2>2 DEF GotMade
  <2> QED
    BY <2>3, <2>4, TopIsNone DEF GotMade, GotRight, Pg!Adds
<1> QED
  BY <1>6, <1>7, <1>8 DEF AllMade

LEMMA LocalMade ==
  ASSUME MadeSoFar, AllMade, NoRequest
  PROVE  MadeSoFar' /\ AllMade'
<1>1. UNCHANGED <<pageRows, pagesMade, named, docs, asking, tagged>>
  BY DEF NoRequest, Pg!Back, Pg!CloseTemplatePicker, Pg!OpenTemplatePicker, Pg!table, Pg!page, Pg!hist
<1>2. selectedId' \in {selectedId, Pg!None} /\ active'.id \in {active.id, Pg!None}
  BY DEF NoRequest, Pg!Back, Pg!CloseTemplatePicker, Pg!OpenTemplatePicker, Pg!page, Pg!NoDoc
<1>3. Made(Pg!None)
  BY TopIsNone DEF Made
<1>4. MadeSoFar'
  BY <1>1, <1>2, <1>3 DEF MadeSoFar, Made
<1> QED
  BY <1>1, <1>4 DEF AllMade, GotMade, GotRight, Made, Pg!Adds
-----------------------------------------------------------------------------
(* No page gets out of reach unseen.                                       *)

LEMMA SendSeen ==
  ASSUME Pg!TypeOK, AllSeen, UNCHANGED pageRows, NEW q, NEW doubted, NEW kind, NEW p,
         Unsent(q, kind, p), Pg!SendsDoubting(q, doubted),
         Pg!Reshapes(q) /\ ~q.blind /\ Pg!Tree(docs) = Pg!Tree(pageRows) => InReach(q)
  PROVE  AllSeen'
<1>1. q \in Pg!Request(q.got)
  BY DEF Unsent
<1>2. PICK f, new : SentAs(q, f, new)
  BY <1>1, SendIs
<1>3. ASSUME NEW r, NEW s, r \in Pg!Request(r.got), Alike(s, r)
      PROVE  /\ Pg!Reshapes(s) <=> Pg!Reshapes(r)
             /\ r.blind => s.blind
             /\ s.at = r.at
             /\ InReach(s)' <=> InReach(r)
  <2>1. /\ s.kind = r.kind /\ s.page = r.page /\ s.parent = r.parent /\ s.at = r.at
        /\ r.blind => s.blind
    BY <1>3, AlikeIs
  <2> QED
    BY <2>1 DEF InReach, Pg!Reshapes
<1>4. \A r \in asking : r \in Pg!Request(r.got) /\ Alike(f[r], r) /\ SeenRight(r)
  BY <1>2 DEF SentAs, Pg!TypeOK, AllSeen
<1>5. asking' = {f[r] : r \in asking} \cup {new}
  BY <1>2 DEF SentAs
<1>6. Alike(new, q)
  BY <1>2 DEF SentAs
<1>7. ASSUME NEW s \in asking', Pg!Reshapes(s), ~s.blind
      PROVE  (\A t \in asking' : Pg!Reshapes(t) => t = s) /\ (s.at = "sent" => InReach(s)')
  <2>1. CASE s = new
    <3>1. Pg!Reshapes(q)
      BY <1>1, <1>3, <1>6, <1>7, <2>1
    <3>2. ~q.blind /\ Pg!Tree(docs) = Pg!Tree(pageRows) /\ \A r \in asking : ~Pg!Reshapes(r)
      BY <1>2, <1>7, <2>1, <3>1 DEF SentAs
    <3>3. \A t \in asking' : Pg!Reshapes(t) => t = s
      BY <1>3, <1>4, <1>5, <2>1, <3>2
    <3>4. InReach(s)'
      BY <1>1, <1>3, <1>6, <2>1, <3>1, <3>2
    <3> QED
      BY <3>3, <3>4
  <2>2. CASE s # new
    <3>1. PICK r \in asking : s = f[r]
      BY <1>5, <2>2
    <3>2. Alike(s, r) /\ r \in Pg!Request(r.got)
      BY <1>4, <3>1
    <3>3. Pg!Reshapes(r) /\ ~r.blind
      BY <1>3, <1>7, <3>2
    <3>4. ~Pg!Reshapes(q)
      BY <1>2, <1>7, <3>1, <3>3 DEF SentAs
    <3>5. ~Pg!Reshapes(new)
      BY <1>1, <1>3, <1>6, <3>4
    <3>6. (\A t \in asking : Pg!Reshapes(t) => t = r) /\ (r.at = "sent" => InReach(r))
      BY <1>4, <3>3 DEF SeenRight
    <3>7. ASSUME NEW t \in asking', Pg!Reshapes(t) PROVE t = s
      <4>1. PICK u \in asking : t = f[u]
        BY <1>5, <3>5, <3>7
      <4>2. Alike(t, u) /\ u \in Pg!Request(u.got)
        BY <1>4, <4>1
      <4>3. Pg!Reshapes(u)
        BY <1>3, <3>7, <4>2
      <4> QED
        BY <3>1, <3>6, <4>1, <4>3
    <3>8. s.at = "sent" => InReach(s)'
      BY <1>3, <3>2, <3>6
    <3> QED
      BY <3>7, <3>8
  <2> QED
    BY <2>1, <2>2
<1>8. ASSUME NEW s \in asking' PROVE SeenRight(s)'
  <2>1. Pg!Reshapes(s)' <=> Pg!Reshapes(s)
    BY DEF Pg!Reshapes
  <2>2. \A t \in asking' : Pg!Reshapes(t)' <=> Pg!Reshapes(t)
    BY DEF Pg!Reshapes
  <2> QED
    BY <1>7, <2>1, <2>2 DEF SeenRight
<1> QED
  BY <1>8 DEF AllSeen

LEMMA UserSeen ==
  ASSUME TreeLimits, Pg!TypeOK, AllSeen, Pg!PagesReachable, ByUser
  PROVE  AllSeen' /\ Pg!PagesReachable'
<1>1. UNCHANGED <<pageRows, exempt>>
  BY DEF ByUser, Pg!CreateFromTemplate, Pg!Rename, Pg!Select, Pg!Duplicate, Pg!Remove, Pg!Drop, Pg!ToggleTag,
         Pg!table
<1>2. Pg!PagesReachable'
  BY <1>1 DEF Pg!PagesReachable, Pg!Hidden, Pg!Shown, Pg!Below
<1>3. DOMAIN docs \subseteq Pg!Pages /\ MaxPages \in Nat
  BY DEF TreeLimits, Pg!TypeOK, Pg!IsTable
<1>4. Pg!Tree(docs) = Pg!Tree(pageRows) =>
        /\ Pg!Shown(docs) = Pg!Shown(pageRows)
        /\ \A x : Pg!Subtree(docs, x) = Pg!Subtree(pageRows, x)
  BY <1>3, SameTree
<1>5. ASSUME NEW q, NEW kind, NEW p, Unsent(q, kind, p), kind \in {"open", "rename", "tags", "remove"}
      PROVE  Pg!Reshapes(q) /\ ~q.blind /\ Pg!Tree(docs) = Pg!Tree(pageRows) => InReach(q)
  BY <1>5 DEF Unsent, InReach
<1>6. CASE Pg!CreateFromTemplate
  <2>1. PICK q : /\ Unsent(q, "create", Pg!None)
                 /\ ~q.blind => q.parent \in Pg!Shown(docs) \cup {Pg!None}
                 /\ Pg!SendsDoubting(q, {})
    BY <1>6, Asked
  <2>2. ~q.blind /\ Pg!Tree(docs) = Pg!Tree(pageRows) => InReach(q)
    BY <1>4, <2>1 DEF Unsent, InReach
  <2> QED
    BY <1>1, <1>2, <2>1, <2>2, SendSeen
<1>7. CASE Pg!Rename
  BY <1>1, <1>2, <1>5, <1>7, Asked, SendSeen
<1>8. ASSUME NEW p \in Pg!Pages, Pg!Select(p) PROVE AllSeen'
  BY <1>1, <1>5, <1>8, Asked, SendSeen
<1>9. ASSUME NEW p \in Pg!Pages, Pg!Duplicate(p) PROVE AllSeen'
  <2>1. PICK q : Unsent(q, "duplicate", p) /\ Pg!SendsDoubting(q, {})
    BY <1>9, Asked
  <2>2. p \in Pg!Shown(docs)
    BY <1>9 DEF Pg!Duplicate
  <2>3. ~q.blind /\ Pg!Tree(docs) = Pg!Tree(pageRows) => InReach(q)
    BY <1>4, <2>1, <2>2 DEF Unsent, InReach
  <2> QED
    BY <1>1, <2>1, <2>3, SendSeen
<1>10. ASSUME NEW p \in Pg!Pages, Pg!Remove(p) PROVE AllSeen'
  BY <1>1, <1>5, <1>10, Asked, SendSeen
<1>11. ASSUME NEW x \in Pg!Pages, NEW p \in Pg!Pages, Pg!Drop(x, p) PROVE AllSeen'
  <2>1. PICK q : /\ Unsent(q, "move", x) /\ q.parent = p
                 /\ ~q.blind => p \notin Pg!Subtree(docs, x)
                 /\ Pg!SendsDoubting(q, {})
    BY <1>11, Asked
  <2>2. {x, p} \subseteq Pg!Shown(docs)
    BY <1>11 DEF Pg!Drop
  <2>3. ~q.blind /\ Pg!Tree(docs) = Pg!Tree(pageRows) => InReach(q)
    BY <1>4, <2>1, <2>2 DEF Unsent, InReach
  <2> QED
    BY <1>1, <2>1, <2>3, SendSeen
<1>12. ASSUME NEW t \in Tags, Pg!ToggleTag(t) PROVE AllSeen'
  BY <1>1, <1>5, <1>12, Asked, SendSeen
<1> QED
  BY <1>2, <1>6, <1>7, <1>8, <1>9, <1>10, <1>11, <1>12 DEF ByUser

\* The table after a request is served, by its kind.
LEMMA WrittenIs ==
  ASSUME TreeLimits, Pg!TypeOK, Pg!TypeOK', MadeSoFar, AllMade, NEW r \in asking, Pg!Serve(r)
  PROVE  /\ Pg!Adds(r) =>
              LET p == pagesMade + 1
              IN  /\ p \in Pg!Pages \ DOMAIN pageRows /\ pagesMade' = p
                  /\ DOMAIN pageRows' = DOMAIN pageRows \cup {p}
                  /\ \A q \in DOMAIN pageRows : pageRows'[q] = pageRows[q]
                  /\ pageRows'[p] = Pg!NewRow(r)
                  /\ DOMAIN Pg!Answer(r) = {p} /\ Pg!Answer(r)[p] = Pg!NewRow(r)
         /\ ~Pg!Adds(r) => pagesMade' = pagesMade
         /\ r.kind = "remove" => /\ r.page \in DOMAIN pageRows
                                 /\ DOMAIN pageRows' = DOMAIN pageRows \ {r.page}
                                 /\ \A q \in DOMAIN pageRows' : pageRows'[q] = pageRows[q]
         /\ r.kind \in {"move", "rename", "tags"} =>
              /\ r.page \in DOMAIN pageRows /\ DOMAIN pageRows' = DOMAIN pageRows
              /\ \A q \in DOMAIN pageRows \ {r.page} : pageRows'[q] = pageRows[q]
         /\ r.kind = "move" => pageRows'[r.page] = [pageRows[r.page] EXCEPT !.parent = r.parent]
         /\ r.kind = "rename" => pageRows'[r.page] = [pageRows[r.page] EXCEPT !.title = "renamed"]
         /\ r.kind = "tags" => pageRows'[r.page] = [pageRows[r.page] EXCEPT !.tags = r.tags]
         /\ r.kind \in {"load", "open"} => pageRows' = pageRows
<1>1. pageRows' = Pg!Written(r) /\ pagesMade' = IF Pg!Adds(r) THEN pagesMade + 1 ELSE pagesMade
  BY DEF Pg!Serve
<1>2. r.kind \notin {"load", "create"} => r.page \in DOMAIN pageRows
  BY DEF Pg!Serve
<1>3. ASSUME Pg!Adds(r)
      PROVE  LET p == pagesMade + 1
             IN  /\ p \in Pg!Pages \ DOMAIN pageRows /\ pagesMade' = p
                 /\ DOMAIN pageRows' = DOMAIN pageRows \cup {p}
                 /\ \A q \in DOMAIN pageRows : pageRows'[q] = pageRows[q]
                 /\ pageRows'[p] = Pg!NewRow(r)
                 /\ DOMAIN Pg!Answer(r) = {p} /\ Pg!Answer(r)[p] = Pg!NewRow(r)
  <2>1. PICK p : p = pagesMade + 1
    OBVIOUS
  <2>2. p \in Pg!Pages
    BY <1>3, <2>1 DEF Pg!Serve, Pg!TypeOK, TreeLimits, Pg!Pages
  <2>3. p \notin DOMAIN pageRows
    BY <2>1, <2>2 DEF MadeSoFar, Made, Pg!TypeOK
  <2>4. pageRows' = [q \in DOMAIN pageRows \cup {p} |-> IF q = p THEN Pg!NewRow(r) ELSE pageRows[q]]
    BY <1>1, <1>3, <2>1 DEF Pg!Written, Pg!Adds
  <2>5. Pg!Answer(r) = [q \in {p} |-> Pg!NewRow(r)]
    BY <1>3, <2>1 DEF Pg!Answer, Pg!Adds
  <2> QED
    BY <1>1, <1>3, <2>1, <2>2, <2>3, <2>4, <2>5
<1>4. ASSUME r.kind = "remove"
      PROVE  /\ DOMAIN pageRows' = DOMAIN pageRows \ {r.page}
             /\ \A q \in DOMAIN pageRows' : pageRows'[q] = pageRows[q]
  <2>1. pageRows' = [p \in DOMAIN pageRows \ {r.page} |-> pageRows[p]]
    BY <1>1, <1>4 DEF Pg!Written
  <2> QED
    BY <2>1
<1>5. ASSUME r.kind \in {"move", "rename", "tags"}
      PROVE  /\ DOMAIN pageRows' = DOMAIN pageRows
             /\ \A q \in DOMAIN pageRows \ {r.page} : pageRows'[q] = pageRows[q]
             /\ r.kind = "move" => pageRows'[r.page] = [pageRows[r.page] EXCEPT !.parent = r.parent]
             /\ r.kind = "rename" => pageRows'[r.page] = [pageRows[r.page] EXCEPT !.title = "renamed"]
             /\ r.kind = "tags" => pageRows'[r.page] = [pageRows[r.page] EXCEPT !.tags = r.tags]
  <2>1. pageRows \in [DOMAIN pageRows -> Pg!Row] /\ r.page \in DOMAIN pageRows
    BY <1>2, <1>5 DEF Pg!TypeOK, Pg!IsTable
  <2>2. CASE r.kind = "move"
    <3>1. pageRows' = [pageRows EXCEPT ![r.page].parent = r.parent]
      BY <1>1, <2>2 DEF Pg!Written
    <3> QED
      BY <2>1, <2>2, <3>1
  <2>3. CASE r.kind = "rename"
    <3>1. pageRows' = [pageRows EXCEPT ![r.page].title = "renamed"]
      BY <1>1, <2>3 DEF Pg!Written
    <3> QED
      BY <2>1, <2>3, <3>1
  <2>4. CASE r.kind = "tags"
    <3>1. pageRows' = [pageRows EXCEPT ![r.page].tags = r.tags]
      BY <1>1, <2>4 DEF Pg!Written
    <3> QED
      BY <2>1, <2>4, <3>1
  <2> QED
    BY <1>5, <2>2, <2>3, <2>4
<1>6. ASSUME r.kind \in {"load", "open"} PROVE pageRows' = pageRows
  BY <1>1, <1>6 DEF Pg!Written
<1> QED
  BY <1>1, <1>2, <1>3, <1>4, <1>5, <1>6

\* What is shown of the next table is what is shown next of the table.
LEMMA NextTable ==
  /\ Pg!Shown(pageRows)' = Pg!Shown(pageRows') /\ Pg!Hidden(pageRows)' = Pg!Hidden(pageRows')
  /\ \A x : Pg!Subtree(pageRows, x)' = Pg!Subtree(pageRows', x)
BY DEF Pg!Hidden, Pg!Shown, Pg!Subtree, Pg!Below

\* What a request that is not blind does not hide.
LEMMA ServeReaches ==
  ASSUME TreeLimits, Pg!TypeOK, Pg!TypeOK', MadeSoFar, AllMade, NEW r \in asking, Pg!Serve(r), SeenRight(r),
         Pg!PagesReachable
  PROVE  /\ Pg!PagesReachable'
         /\ r.kind \in {"open", "rename", "tags"} => Pg!Tree(pageRows') = Pg!Tree(pageRows)
<1>1. DOMAIN pageRows \subseteq Pg!Pages /\ DOMAIN pageRows' \subseteq Pg!Pages /\ MaxPages \in Nat
  BY DEF TreeLimits, Pg!TypeOK, Pg!IsTable
<1>2. ASSUME r.kind \in {"open", "rename", "tags"} PROVE Pg!Tree(pageRows') = Pg!Tree(pageRows)
  <2>1. DOMAIN pageRows' = DOMAIN pageRows
    BY <1>2, WrittenIs
  <2>2. ASSUME NEW q \in DOMAIN pageRows PROVE pageRows'[q].parent = pageRows[q].parent
    <3>1. CASE q = r.page
      <4>1. pageRows[q] \in Pg!Row
        BY DEF Pg!TypeOK, Pg!IsTable
      <4>2. PICK row \in Pg!Row : row = pageRows[q]
        BY <4>1
      <4>3. \/ pageRows'[q] = row
            \/ pageRows'[q] = [row EXCEPT !.title = "renamed"]
            \/ pageRows'[q] = [row EXCEPT !.tags = r.tags]
        BY <1>2, <3>1, <4>2, WrittenIs
      <4>4. pageRows'[q].parent = row.parent
        BY <4>3 DEF Pg!Row
      <4> QED
        BY <4>2, <4>4
    <3>2. CASE q # r.page
      BY <1>2, <3>2, WrittenIs
    <3> QED
      BY <3>1, <3>2
  <2> QED
    BY <2>1, <2>2 DEF Pg!Tree
<1>3. ASSUME r.kind = "remove" \/ r.blind PROVE Pg!PagesReachable'
  <2>1. exempt' = (exempt \cup Pg!Hidden(pageRows')) \cap Pg!Hidden(pageRows')
    BY <1>3 DEF Pg!Serve
  <2> QED
    BY <2>1, NextTable DEF Pg!PagesReachable
<1>4. ASSUME r.kind # "remove" /\ ~r.blind PROVE Pg!PagesReachable'
  <2>1. Pg!Hidden(pageRows') \subseteq Pg!Hidden(pageRows)
    <3>1. CASE r.kind \in {"open", "rename", "tags", "load"}
      <4>1. Pg!Tree(pageRows) = Pg!Tree(pageRows')
        BY <1>2, <3>1, WrittenIs
      <4> QED
        BY <1>1, <4>1, SameTree
    <3>2. CASE Pg!Adds(r)
      <4>1. InReach(r)
        BY <1>4, <3>2 DEF SeenRight, Pg!Adds, Pg!Reshapes, Pg!Serve
      <4>2. Pg!NewRow(r).parent \in Pg!Shown(pageRows) \cup {Pg!None}
        <5>1. CASE r.kind = "create"
          BY <4>1, <5>1 DEF Pg!NewRow, InReach
        <5>2. CASE r.kind = "duplicate"
          <6>1. r.page \in Pg!Shown(pageRows) /\ Pg!NewRow(r) = pageRows[r.page]
            BY <4>1, <5>2 DEF Pg!NewRow, InReach
          <6> QED
            BY <1>1, <6>1, ShownParent
        <5> QED
          BY <3>2, <5>1, <5>2 DEF Pg!Adds
      <4>3. PICK p : p = pagesMade + 1
        OBVIOUS
      <4>4. /\ p \notin DOMAIN pageRows /\ DOMAIN pageRows' = DOMAIN pageRows \cup {p}
            /\ \A q \in DOMAIN pageRows : pageRows'[q] = pageRows[q]
            /\ pageRows'[p] = Pg!NewRow(r)
        BY <3>2, <4>3, WrittenIs
      <4> QED
        BY <1>1, <4>2, <4>4, AddShown
    <3>3. CASE r.kind = "move"
      <4>1. InReach(r)
        BY <1>4, <3>3 DEF SeenRight, Pg!Reshapes, Pg!Serve
      <4>2. r.parent \in Pg!Shown(pageRows) /\ r.parent \notin Pg!Subtree(pageRows, r.page)
        BY <3>3, <4>1 DEF InReach
      <4>3. /\ r.page \in DOMAIN pageRows /\ DOMAIN pageRows' = DOMAIN pageRows
            /\ \A q \in DOMAIN pageRows \ {r.page} : pageRows'[q] = pageRows[q]
            /\ pageRows'[r.page] = [pageRows[r.page] EXCEPT !.parent = r.parent]
        BY <3>3, WrittenIs
      <4>4. pageRows[r.page] \in Pg!Row
        BY <4>3 DEF Pg!TypeOK, Pg!IsTable
      <4>5. pageRows'[r.page].parent = r.parent
        BY <4>3, <4>4 DEF Pg!Row
      <4> QED
        BY <1>1, <4>2, <4>3, <4>5, MoveShown
    <3>4. r.kind \in Pg!Kinds
      BY DEF Pg!TypeOK, Pg!Request
    <3> QED
      BY <1>4, <3>1, <3>2, <3>3, <3>4 DEF Pg!Kinds, Pg!Adds
  <2>2. exempt' = (exempt \cup {}) \cap Pg!Hidden(pageRows')
    BY <1>4 DEF Pg!Serve
  <2> QED
    BY <2>1, <2>2, NextTable DEF Pg!PagesReachable
<1> QED
  BY <1>2, <1>3, <1>4

\* A request that is served or refused is what it was.
LEMMA ReplaceSeen ==
  ASSUME TreeLimits, Pg!TypeOK, Pg!TypeOK', AllSeen, NEW r \in asking, NEW q, Pg!Replaces(r, q),
         q.kind = r.kind, q.blind = r.blind, q.at # "sent",
         ~Pg!Reshapes(r) => Pg!Tree(pageRows') = Pg!Tree(pageRows)
  PROVE  AllSeen'
<1>1. \A s : Pg!Reshapes(s)' <=> Pg!Reshapes(s)
  BY DEF Pg!Reshapes
<1>2. Pg!Reshapes(q) <=> Pg!Reshapes(r)
  BY DEF Pg!Reshapes
<1>3. ASSUME NEW s \in asking', Pg!Reshapes(s), ~s.blind
      PROVE  (\A t \in asking' : Pg!Reshapes(t) => t = s) /\ (s.at = "sent" => InReach(s)')
  <2>1. CASE s = q
    <3>1. \A t \in asking : Pg!Reshapes(t) => t = r
      BY <1>2, <1>3, <2>1 DEF AllSeen, SeenRight
    <3> QED
      BY <2>1, <3>1 DEF Pg!Replaces
  <2>2. CASE s # q
    <3>1. s \in asking \ {r}
      BY <2>2 DEF Pg!Replaces
    <3>2. (\A t \in asking : Pg!Reshapes(t) => t = s) /\ (s.at = "sent" => InReach(s))
      BY <1>3, <3>1 DEF AllSeen, SeenRight
    <3>3. ~Pg!Reshapes(r) /\ ~Pg!Reshapes(q)
      BY <1>2, <3>1, <3>2
    <3>4. \A t \in asking' : Pg!Reshapes(t) => t = s
      BY <3>2, <3>3 DEF Pg!Replaces
    <3>5. /\ Pg!Shown(pageRows') = Pg!Shown(pageRows)
          /\ \A x : Pg!Subtree(pageRows', x) = Pg!Subtree(pageRows, x)
      <4>1. DOMAIN pageRows' \subseteq Pg!Pages /\ MaxPages \in Nat
        BY DEF TreeLimits, Pg!TypeOK, Pg!IsTable
      <4> QED
        BY <3>3, <4>1, SameTree
    <3>6. InReach(s) => InReach(s)'
      BY <3>5, NextTable DEF InReach
    <3> QED
      BY <3>2, <3>4, <3>6
  <2> QED
    BY <2>1, <2>2
<1> QED
  BY <1>1, <1>3 DEF AllSeen, SeenRight

LEMMA ServerSeen ==
  ASSUME TreeLimits, Pg!TypeOK, Pg!TypeOK', MadeSoFar, AllMade, AllSeen, Pg!PagesReachable,
         NEW r \in asking, Pg!Serve(r) \/ Pg!Refuse(r)
  PROVE  AllSeen' /\ Pg!PagesReachable'
<1>1. r \in Pg!Request(r.got) /\ SeenRight(r)
  BY DEF Pg!TypeOK, AllSeen
<1>2. PICK a : a = [r EXCEPT !.at = "answered", !.got = Pg!Answer(r)]
  OBVIOUS
<1>3. PICK d : d = [r EXCEPT !.at = "refused"]
  OBVIOUS
<1>4. /\ a.kind = r.kind /\ a.blind = r.blind /\ a.at # "sent"
      /\ d.kind = r.kind /\ d.blind = r.blind /\ d.at # "sent"
  BY <1>1, <1>2, <1>3 DEF Pg!Request
<1>5. CASE Pg!Serve(r)
  <2>1. Pg!PagesReachable'
    BY <1>1, <1>5, ServeReaches
  <2>2. ~Pg!Reshapes(r) => Pg!Tree(pageRows') = Pg!Tree(pageRows)
    <3>1. r.kind \in Pg!Kinds
      BY <1>1 DEF Pg!Request
    <3>2. ~Pg!Reshapes(r) => r.kind \in {"open", "rename", "tags"}
      BY <3>1 DEF Pg!Reshapes, Pg!Kinds
    <3> QED
      BY <1>1, <1>5, <3>2, ServeReaches
  <2>3. Pg!Replaces(r, a) \/ Pg!Replaces(r, d)
    BY <1>2, <1>3, <1>5 DEF Pg!Serve
  <2> QED
    BY <1>4, <2>1, <2>2, <2>3, ReplaceSeen
<1>6. CASE Pg!Refuse(r)
  <2>1. UNCHANGED <<pageRows, exempt>> /\ Pg!Replaces(r, d)
    BY <1>3, <1>6 DEF Pg!Refuse, Pg!table
  <2>2. Pg!PagesReachable'
    BY <2>1 DEF Pg!PagesReachable, Pg!Hidden, Pg!Shown, Pg!Below
  <2> QED
    BY <1>4, <2>1, <2>2, ReplaceSeen
<1> QED
  BY <1>5, <1>6

\* Taking an answer ends the request, and may open a page.
LEMMA TabSeen ==
  ASSUME AllSeen, Pg!PagesReachable, NEW r \in asking, Pg!Take(r) \/ Pg!Fail(r)
  PROVE  AllSeen' /\ Pg!PagesReachable'
<1>1. UNCHANGED <<pageRows, exempt>>
  BY DEF Pg!Take, Pg!Fail, Pg!TakeLoad, Pg!TakeOpen, Pg!TakeNew, Pg!TakeRemoved, Pg!TakeMoved, Pg!TakeTags,
         Pg!table, Pg!hist
<1>2. Pg!PagesReachable'
  BY <1>1 DEF Pg!PagesReachable, Pg!Hidden, Pg!Shown, Pg!Below
<1>3. \A s \in asking' : s \in asking \/ s.kind = "open"
  <2>1. CASE Pg!TakeNew(r)
    BY <2>1 DEF Pg!TakeNew, Pg!Ask
  <2>2. CASE Pg!Ends(r)
    BY <2>2 DEF Pg!Ends
  <2> QED
    BY <2>1, <2>2 DEF Pg!Take, Pg!Fail, Pg!TakeLoad, Pg!TakeOpen, Pg!TakeRemoved, Pg!TakeMoved, Pg!TakeTags
<1>4. \A s : s.kind = "open" => ~Pg!Reshapes(s)
  BY DEF Pg!Reshapes
<1>5. \A s : Pg!Reshapes(s)' <=> Pg!Reshapes(s)
  BY DEF Pg!Reshapes
<1>6. \A s : InReach(s)' <=> InReach(s)
  BY <1>1 DEF InReach, Pg!Shown, Pg!Subtree, Pg!Below
<1> QED
  BY <1>2, <1>3, <1>4, <1>5, <1>6 DEF AllSeen, SeenRight

LEMMA LocalSeen ==
  ASSUME AllSeen, Pg!PagesReachable, NoRequest
  PROVE  AllSeen' /\ Pg!PagesReachable'
<1>1. UNCHANGED <<pageRows, exempt, asking>>
  BY DEF NoRequest, Pg!Back, Pg!CloseTemplatePicker, Pg!OpenTemplatePicker, Pg!table, Pg!page, Pg!hist
<1>2. Pg!PagesReachable'
  BY <1>1 DEF Pg!PagesReachable, Pg!Hidden, Pg!Shown, Pg!Below
<1>3. \A s : InReach(s)' <=> InReach(s)
  BY <1>1 DEF InReach, Pg!Shown, Pg!Subtree, Pg!Below
<1> QED
  BY <1>1, <1>2, <1>3 DEF AllSeen, SeenRight, Pg!Reshapes
-----------------------------------------------------------------------------
(* The list of the tab is the table's, but for what is under way.          *)

\* p is what it was, in the list and in the table.
StillThere(p) == SameAt(docs', docs, p) /\ SameAt(pageRows', pageRows, p)

\* r and s are the same request, as far as the list goes.
SameTask(s, r) ==
    /\ s.kind = r.kind /\ s.page = r.page /\ s.parent = r.parent /\ s.tags = r.tags
    /\ s.at = r.at /\ s.got = r.got

LEMMA AlikeTask ==
  ASSUME NEW r, NEW s, r \in Pg!Request(r.got), Alike(s, r)
  PROVE  SameTask(s, r)
BY AlikeIs DEF SameTask

LEMMA BetweenStill ==
  ASSUME NEW p, NEW r, NEW s, StillThere(p), SameTask(s, r), Between(r, p)
  PROVE  Between(s, p)'
<1>1. /\ s.kind = r.kind /\ s.page = r.page /\ s.parent = r.parent /\ s.tags = r.tags
      /\ s.at = r.at /\ s.got = r.got
  BY DEF SameTask
<1>2. Agree(p) => Agree(p)'
  BY DEF Agree, SameAt, StillThere
<1>3. Settled(s) => Agree(p)'
  BY <1>1, <1>2 DEF Between, Settled
<1>4. s.kind = "load" /\ s.at = "answered" => SameAt(s.got, pageRows', p)
  BY <1>1 DEF Between, SameAt, StillThere
<1>5. p \in DOMAIN docs' <=> p \in DOMAIN docs
  BY DEF StillThere, SameAt
<1>6. p \in DOMAIN pageRows' <=> p \in DOMAIN pageRows
  BY DEF StillThere, SameAt
<1>7. p \in DOMAIN docs => docs'[p] = docs[p]
  BY DEF StillThere, SameAt
<1>8. p \in DOMAIN pageRows => pageRows'[p] = pageRows[p]
  BY DEF StillThere, SameAt
<1>9. s.kind = "rename" /\ s.at = "sent" =>
         /\ p \in DOMAIN docs' <=> p \in DOMAIN pageRows'
         /\ p \in DOMAIN docs' => docs'[p] = [pageRows'[p] EXCEPT !.title = "renamed"]
  BY <1>1, <1>5, <1>6, <1>7, <1>8 DEF Between
<1>10. s.kind = "remove" /\ s.at = "answered" => p \notin DOMAIN pageRows'
  BY <1>1, <1>6 DEF Between
<1>11. s.kind = "move" /\ s.at = "answered" =>
         p \in DOMAIN docs' \cap DOMAIN pageRows' /\ pageRows'[p] = [docs'[p] EXCEPT !.parent = s.parent]
  BY <1>1, <1>5, <1>6, <1>7, <1>8 DEF Between
<1>12. s.kind = "tags" /\ s.at = "answered" =>
         p \in DOMAIN docs' \cap DOMAIN pageRows' /\ pageRows'[p] = [docs'[p] EXCEPT !.tags = s.tags]
  BY <1>1, <1>5, <1>6, <1>7, <1>8 DEF Between
<1>13. s.at = "refused" => s.kind = "duplicate"
  BY <1>1 DEF Between
<1>14. s.kind = "load" => p \notin DOMAIN docs'
  BY <1>1, <1>5 DEF Between
<1>15. Settled(s)' <=> Settled(s)
  BY DEF Settled
<1>16. s.kind = "load" /\ s.at = "answered" => SameAt(s.got, pageRows, p)'
  BY <1>4 DEF SameAt
<1> QED
  BY <1>3, <1>9, <1>10, <1>11, <1>12, <1>13, <1>14, <1>15, <1>16 DEF Between

\* A request that is sent.
LEMMA SendListed ==
  ASSUME Pg!TypeOK, NEW q, NEW doubted, NEW kind, NEW pg, Unsent(q, kind, pg),
         Pg!SendsDoubting(q, doubted), kind # "load",
         NEW p \in Pg!Pages \ crossing, ListRightOf(p), StillThere(p), p # pg \/ kind = "open",
         p \notin DOMAIN docs => p # pg /\ p \notin {selectedId', active'.id} \ {selectedId, active.id}
  PROVE  ListRightOf(p)'
<1>1. q \in Pg!Request(q.got) /\ q.at = "sent" /\ q.kind = kind /\ q.page = pg
  BY DEF Unsent
<1>2. PICK f, new : SentAs(q, f, new)
  BY <1>1, SendIs
<1>3. asking' = {f[r] : r \in asking} \cup {new}
  BY <1>2 DEF SentAs
<1>4. \A r \in asking : SameTask(f[r], r)
  BY <1>2, AlikeTask DEF SentAs, Pg!TypeOK
<1>5. SameTask(new, q)
  BY <1>1, <1>2, AlikeTask DEF SentAs
<1>6. new.at = "sent" /\ new.kind = kind /\ new.page = pg
  BY <1>1, <1>5 DEF SameTask
<1>7. \A s \in Pg!Pending(p)' : \E r \in Pg!Pending(p) : s = f[r]
  <2> SUFFICES ASSUME NEW s \in Pg!Pending(p)' PROVE \E r \in Pg!Pending(p) : s = f[r]
    OBVIOUS
  <2>1. s \in asking' /\ (s.kind = "load" \/ (s.page = p /\ s.kind # "open"))
    BY DEF Pg!Pending
  <2>2. s # new
    BY <1>6, <2>1
  <2>3. PICK r \in asking : s = f[r]
    BY <1>3, <2>1, <2>2
  <2>4. r \in Pg!Pending(p)
    BY <1>4, <2>1, <2>3 DEF SameTask, Pg!Pending
  <2> QED
    BY <2>3, <2>4
<1>8. \A r \in Pg!Pending(p) : f[r] \in Pg!Pending(p)'
  BY <1>3, <1>4 DEF SameTask, Pg!Pending
<1>9. \A s \in asking' : Brings(s, p)' => \E r \in asking : s = f[r] /\ Brings(r, p)
  <2> SUFFICES ASSUME NEW s \in asking', Brings(s, p)' PROVE \E r \in asking : s = f[r] /\ Brings(r, p)
    OBVIOUS
  <2>1. s # new
    BY <1>6 DEF Brings
  <2>2. PICK r \in asking : s = f[r]
    BY <1>3, <2>1
  <2> QED
    BY <1>4, <2>2 DEF SameTask, Brings, Pg!Adds
<1>10. \A r \in asking : Brings(r, p) => f[r] \in asking' /\ Brings(f[r], p)'
  BY <1>3, <1>4 DEF SameTask, Brings, Pg!Adds
<1>11. \A s, t \in Pg!Pending(p)' : s = t
  BY <1>7 DEF ListRightOf
<1>12. \A s \in Pg!Pending(p)' : Between(s, p)'
  <2> SUFFICES ASSUME NEW s \in Pg!Pending(p)' PROVE Between(s, p)'
    OBVIOUS
  <2>1. PICK r \in Pg!Pending(p) : s = f[r]
    BY <1>7
  <2>2. Between(r, p) /\ SameTask(s, r)
    BY <1>4, <2>1 DEF ListRightOf, Pg!Pending
  <2> QED
    BY <2>2, BetweenStill
<1>13. ASSUME NEW s \in asking', Brings(s, p)' PROVE NewRight(s, p)'
  <2>1. PICK r \in asking : s = f[r] /\ Brings(r, p)
    BY <1>9, <1>13
  <2>2. NewRight(r, p)
    BY <2>1 DEF ListRightOf
  <2>3. p \in DOMAIN pageRows' /\ pageRows'[p] = s.got[p]
    BY <1>4, <2>1, <2>2 DEF NewRight, StillThere, SameAt, SameTask
  <2>4. p \notin DOMAIN docs' \cup {selectedId', active'.id}
    BY <2>2 DEF NewRight, StillThere, SameAt
  <2>5. p # pg
    BY <2>2 DEF NewRight
  <2>6. ASSUME NEW t \in asking' PROVE t.page # p /\ t.kind # "load" /\ (Brings(t, p)' => t = s)
    <3>1. CASE t = new
      BY <1>6, <2>5, <3>1 DEF Brings
    <3>2. CASE t # new
      <4>1. PICK u \in asking : t = f[u]
        BY <1>3, <3>2
      <4>2. u.page # p /\ u.kind # "load" /\ (Brings(u, p) => u = r)
        BY <2>2, <4>1 DEF NewRight
      <4>3. t.page = u.page /\ t.kind = u.kind
        BY <1>4, <4>1 DEF SameTask
      <4>4. Brings(t, p)' => Brings(u, p)
        BY <1>4, <4>1 DEF SameTask, Brings, Pg!Adds
      <4> QED
        BY <2>1, <4>1, <4>2, <4>3, <4>4
    <3> QED
      BY <3>1, <3>2
  <2> QED
    BY <2>3, <2>4, <2>6 DEF NewRight
<1>14. Pg!Pending(p)' = {} /\ (\A s \in asking' : ~Brings(s, p)') => Agree(p)'
  <2> SUFFICES ASSUME Pg!Pending(p)' = {}, \A s \in asking' : ~Brings(s, p)' PROVE Agree(p)'
    OBVIOUS
  <2>1. Pg!Pending(p) = {} /\ \A r \in asking : ~Brings(r, p)
    BY <1>8, <1>10
  <2>2. Agree(p)
    BY <2>1 DEF ListRightOf
  <2> QED
    BY <2>2 DEF Agree, SameAt, StillThere
<1> QED
  BY <1>11, <1>12, <1>13, <1>14 DEF ListRightOf

\* The page a request is about, when none was under way for it.
LEMMA SendAbout ==
  ASSUME TreeLimits, Pg!TypeOK, NEW q, NEW doubted, NEW kind, NEW p \in Pg!Pages, Unsent(q, kind, p),
         Pg!SendsDoubting(q, doubted), kind \in {"duplicate", "remove", "move", "tags", "rename"},
         p \notin crossing', ListRightOf(p), p \in DOMAIN docs \cup {active.id}, UNCHANGED pageRows,
         p \in DOMAIN docs' <=> p \in DOMAIN docs,
         p \in DOMAIN docs => docs'[p] = IF kind = "rename" THEN [docs[p] EXCEPT !.title = "renamed"]
                                                            ELSE docs[p]
  PROVE  ListRightOf(p)'
<1>1. q \in Pg!Request(q.got) /\ q.at = "sent" /\ q.kind = kind /\ q.page = p
  BY DEF Unsent
<1>2. Pg!Pending(p) = {}
  BY <1>1 DEF Pg!SendsDoubting
<1>3. \A r \in asking : ~Brings(r, p)
  BY DEF ListRightOf, NewRight
<1>4. Agree(p)
  BY <1>2, <1>3 DEF ListRightOf
<1>5. PICK f, new : SentAs(q, f, new)
  BY <1>1, SendIs
<1>6. asking' = {f[r] : r \in asking} \cup {new}
  BY <1>5 DEF SentAs
<1>7. \A r \in asking : SameTask(f[r], r)
  BY <1>5, AlikeTask DEF SentAs, Pg!TypeOK
<1>8. new.at = "sent" /\ new.kind = kind /\ new.page = p
  BY <1>1, <1>5, AlikeTask DEF SentAs, SameTask
<1>9. \A r \in asking : ~(f[r].kind = "load" \/ (f[r].page = p /\ f[r].kind # "open"))
  BY <1>2, <1>7 DEF SameTask, Pg!Pending
<1>10. Pg!Pending(p)' = {new}
  BY <1>6, <1>8, <1>9 DEF Pg!Pending
<1>11. \A s \in asking' : ~Brings(s, p)'
  <2> SUFFICES ASSUME NEW s \in asking' PROVE ~Brings(s, p)'
    OBVIOUS
  <2>1. CASE s = new
    BY <1>8, <2>1 DEF Brings
  <2>2. CASE s # new
    <3>1. PICK r \in asking : s = f[r]
      BY <1>6, <2>2
    <3> QED
      BY <1>3, <1>7, <3>1 DEF SameTask, Brings, Pg!Adds
  <2> QED
    BY <2>1, <2>2
<1>12. Between(new, p)'
  <2>1. CASE kind = "rename"
    <3>1. /\ p \in DOMAIN docs' <=> p \in DOMAIN pageRows'
          /\ p \in DOMAIN docs' => docs'[p] = [pageRows'[p] EXCEPT !.title = "renamed"]
      BY <1>4, <2>1 DEF Agree, SameAt
    <3> QED
      BY <1>8, <2>1, <3>1 DEF Between, Settled
  <2>2. CASE kind # "rename"
    <3>1. Agree(p)'
      BY <1>4, <2>2 DEF Agree, SameAt
    <3> QED
      BY <1>8, <2>2, <3>1 DEF Between
  <2> QED
    BY <2>1, <2>2
<1> QED
  BY <1>10, <1>11, <1>12 DEF ListRightOf

LEMMA UserListed ==
  ASSUME TreeLimits, Pg!TypeOK, AllListed, ByUser
  PROVE  AllListed'
<1>1. crossing \subseteq crossing' /\ UNCHANGED <<pageRows, active>>
  BY DEF ByUser, Pg!CreateFromTemplate, Pg!Rename, Pg!Select, Pg!Duplicate, Pg!Remove, Pg!Drop, Pg!ToggleTag,
         Pg!Sends, Pg!SendsDoubting, Pg!table, Pg!page
<1>2. \A p \in Pg!Pages \ crossing' : p \in Pg!Pages \ crossing /\ ListRightOf(p)
  BY <1>1 DEF AllListed
<1>3. UNCHANGED docs => \A p : StillThere(p)
  BY <1>1 DEF StillThere, SameAt
<1>4. Pg!Shown(docs) \subseteq DOMAIN docs /\ Pg!None \notin Pg!Pages
  BY ShownIn, TopIsNone DEF TreeLimits, Pg!TypeOK, Pg!IsTable
\* A request about pg, which the tab knows, that changes nothing else yet.
<1>5. ASSUME NEW q, NEW doubted, NEW kind \in {"duplicate", "remove", "move", "tags"}, NEW pg \in Pg!Pages,
             Unsent(q, kind, pg), Pg!SendsDoubting(q, doubted), pg \in DOMAIN docs \cup {active.id},
             UNCHANGED <<docs, selectedId>>
      PROVE  AllListed'
  <2> SUFFICES ASSUME NEW p \in Pg!Pages \ crossing' PROVE ListRightOf(p)'
    BY DEF AllListed
  <2>1. CASE p = pg
    <3>1. /\ p \in DOMAIN docs' <=> p \in DOMAIN docs
          /\ kind # "rename" /\ docs'[p] = docs[p]
      BY <1>5
    <3> QED
      BY <1>1, <1>2, <1>5, <2>1, <3>1, SendAbout
  <2>2. CASE p # pg
    <3>1. StillThere(p) /\ kind # "load" /\ p \notin {selectedId', active'.id} \ {selectedId, active.id}
      BY <1>1, <1>3, <1>5
    <3> QED
      BY <1>2, <1>5, <2>2, <3>1, SendListed
  <2> QED
    BY <2>1, <2>2
<1>6. CASE Pg!CreateFromTemplate
  <2>1. PICK q : Unsent(q, "create", Pg!None) /\ Pg!SendsDoubting(q, {})
    BY <1>6, Asked
  <2>2. UNCHANGED <<docs, selectedId>>
    BY <1>6 DEF Pg!CreateFromTemplate, Pg!page
  <2> SUFFICES ASSUME NEW p \in Pg!Pages \ crossing' PROVE ListRightOf(p)'
    BY DEF AllListed
  <2>3. StillThere(p) /\ p \notin {selectedId', active'.id} \ {selectedId, active.id} /\ p # Pg!None
    BY <1>1, <1>3, <1>4, <2>2
  <2>4. "create" # "load"
    OBVIOUS
  <2> QED
    BY <1>2, <2>1, <2>3, <2>4, SendListed
<1>7. CASE Pg!Rename
  <2>1. PICK q : /\ Unsent(q, "rename", active.id)
                 /\ Pg!SendsDoubting(q, IF selectedId = active.id THEN {} ELSE {selectedId, active.id})
    BY <1>7, Asked
  <2>2. active.id \in Pg!Pages /\ UNCHANGED selectedId
    BY <1>7 DEF Pg!Rename, Pg!page, Pg!TypeOK
  <2>3. docs' = IF selectedId \in DOMAIN docs THEN [docs EXCEPT ![selectedId].title = "renamed"] ELSE docs
    BY <1>7 DEF Pg!Rename, Pg!TitleChange
  <2> SUFFICES ASSUME NEW p \in Pg!Pages \ crossing' PROVE ListRightOf(p)'
    BY DEF AllListed
  <2>4. p = selectedId => p = active.id
    BY <2>1 DEF Pg!SendsDoubting
  <2>5. p = active.id => p = selectedId
    BY <2>1, <2>2 DEF Pg!SendsDoubting
  <2>6. CASE p = active.id
    <3>1. p \in DOMAIN docs' <=> p \in DOMAIN docs
      BY <2>3
    <3>2. p \in DOMAIN docs => docs'[p] = [docs[p] EXCEPT !.title = "renamed"]
      BY <2>3, <2>5, <2>6
    <3> QED
      BY <1>1, <1>2, <2>1, <2>6, <3>1, <3>2, SendAbout
  <2>7. CASE p # active.id
    <3>1. SameAt(docs', docs, p)
      BY <2>3, <2>4, <2>7 DEF SameAt
    <3>2. StillThere(p) /\ p \notin {selectedId', active'.id} \ {selectedId, active.id}
      BY <1>1, <2>2, <3>1 DEF StillThere, SameAt
    <3>3. "rename" # "load"
      OBVIOUS
    <3> QED
      BY <1>2, <2>1, <2>7, <3>2, <3>3, SendListed
  <2> QED
    BY <2>6, <2>7
<1>8. ASSUME NEW pg \in Pg!Pages, Pg!Select(pg) PROVE AllListed'
  <2>1. PICK q : Unsent(q, "open", pg) /\ Pg!SendsDoubting(q, {})
    BY <1>8, Asked
  <2>2. pg \in DOMAIN docs /\ selectedId' = pg /\ UNCHANGED docs
    BY <1>8 DEF Pg!Select
  <2> SUFFICES ASSUME NEW p \in Pg!Pages \ crossing' PROVE ListRightOf(p)'
    BY DEF AllListed
  <2>3. StillThere(p)
    BY <1>3, <2>2
  <2>4. p \notin DOMAIN docs => p # pg /\ p \notin {selectedId', active'.id} \ {selectedId, active.id}
    BY <1>1, <2>2
  <2>5. "open" # "load"
    OBVIOUS
  <2> QED
    BY <1>2, <2>1, <2>3, <2>4, <2>5, SendListed
<1>9. ASSUME NEW pg \in Pg!Pages, Pg!Duplicate(pg) PROVE AllListed'
  <2>1. pg \in DOMAIN docs /\ UNCHANGED <<docs, selectedId>>
    BY <1>4, <1>9 DEF Pg!Duplicate, Pg!page
  <2> QED
    BY <1>5, <1>9, <2>1, Asked
<1>10. ASSUME NEW pg \in Pg!Pages, Pg!Remove(pg) PROVE AllListed'
  <2>1. pg \in DOMAIN docs /\ UNCHANGED <<docs, selectedId>>
    BY <1>4, <1>10 DEF Pg!Remove, Pg!page
  <2> QED
    BY <1>5, <1>10, <2>1, Asked
<1>11. ASSUME NEW x \in Pg!Pages, NEW p \in Pg!Pages, Pg!Drop(x, p) PROVE AllListed'
  <2>1. x \in DOMAIN docs /\ UNCHANGED <<docs, selectedId>>
    BY <1>4, <1>11 DEF Pg!Drop, Pg!page
  <2> QED
    BY <1>5, <1>11, <2>1, Asked
<1>12. ASSUME NEW t \in Tags, Pg!ToggleTag(t) PROVE AllListed'
  <2>1. active.id \in Pg!Pages /\ UNCHANGED <<docs, selectedId>>
    BY <1>12 DEF Pg!ToggleTag, Pg!page, Pg!TypeOK
  <2> QED
    BY <1>5, <1>12, <2>1, Asked
<1> QED
  BY <1>6, <1>7, <1>8, <1>9, <1>10, <1>11, <1>12 DEF ByUser

\* A request about another page is served, or refused.
LEMMA ReplaceOther ==
  ASSUME NEW r \in asking, NEW q, r.at = "sent", q.kind = r.kind, q.page = r.page, Pg!Replaces(r, q),
         NEW p, ListRightOf(p), StillThere(p), UNCHANGED <<selectedId, active>>,
         r \notin Pg!Pending(p), ~Brings(q, p)
  PROVE  ListRightOf(p)'
<1>1. asking' = (asking \ {r}) \cup {q}
  BY DEF Pg!Replaces
<1>2. Pg!Pending(p)' = Pg!Pending(p)
  BY <1>1 DEF Pg!Pending
<1>3. ~Brings(r, p)
  BY DEF Brings
<1>4. \A s : Brings(s, p)' <=> Brings(s, p)
  BY DEF Brings, Pg!Adds
<1>5. \A s \in Pg!Pending(p)' : Between(s, p)'
  BY <1>2, BetweenStill DEF ListRightOf, SameTask
<1>6. ASSUME NEW s \in asking', Brings(s, p) PROVE NewRight(s, p)'
  <2>1. s \in asking /\ NewRight(s, p)
    BY <1>1, <1>6 DEF ListRightOf
  <2>2. p \in DOMAIN pageRows' /\ pageRows'[p] = s.got[p]
    BY <2>1 DEF NewRight, StillThere, SameAt
  <2>3. p \notin DOMAIN docs' \cup {selectedId', active'.id}
    BY <2>1 DEF NewRight, StillThere, SameAt
  <2>4. \A t \in asking' : t.page # p /\ t.kind # "load" /\ (Brings(t, p) => t = s)
    BY <1>1, <2>1 DEF NewRight
  <2> QED
    BY <1>4, <2>2, <2>3, <2>4 DEF NewRight
<1>7. Pg!Pending(p)' = {} /\ (\A s \in asking' : ~Brings(s, p)) => Agree(p)'
  <2> SUFFICES ASSUME Pg!Pending(p)' = {}, \A s \in asking' : ~Brings(s, p) PROVE Agree(p)'
    OBVIOUS
  <2>1. Agree(p)
    BY <1>1, <1>2, <1>3 DEF ListRightOf
  <2> QED
    BY <2>1 DEF Agree, SameAt, StillThere
<1>8. \A s, t \in Pg!Pending(p)' : s = t
  BY <1>2 DEF ListRightOf
<1> QED
  BY <1>4, <1>5, <1>6, <1>7, <1>8 DEF ListRightOf

\* No answer brings a page that a request is about.
LEMMA NotBrought ==
  ASSUME NEW p, ListRightOf(p), NEW r \in Pg!Pending(p)
  PROVE  Pg!Pending(p) = {r} /\ Between(r, p) /\ \A s \in asking : ~Brings(s, p)
BY DEF ListRightOf, NewRight, Pg!Pending

\* The request about p is served, or refused.
LEMMA ReplaceThis ==
  ASSUME NEW r \in asking, NEW q, q.kind = r.kind, q.page = r.page, Pg!Replaces(r, q),
         NEW p, ListRightOf(p), r \in Pg!Pending(p), ~Brings(q, p), Between(q, p)'
  PROVE  ListRightOf(p)'
<1>1. asking' = (asking \ {r}) \cup {q}
  BY DEF Pg!Replaces
<1>2. Pg!Pending(p) = {r} /\ \A s \in asking : ~Brings(s, p)
  BY NotBrought
<1>3. Pg!Pending(p)' = {q}
  BY <1>1, <1>2 DEF Pg!Pending
<1>4. \A s : Brings(s, p)' <=> Brings(s, p)
  BY DEF Brings, Pg!Adds
<1> QED
  BY <1>1, <1>2, <1>3, <1>4 DEF ListRightOf

\* A page is added.
LEMMA ReplaceNew ==
  ASSUME TreeLimits, Pg!TypeOK, Pg!TypeOK', MadeSoFar, AllMade, NEW r \in asking, Pg!Serve(r), Pg!Adds(r),
         NEW q, q.kind = r.kind, q.page = r.page, q.at = "answered", q.got = Pg!Answer(r),
         Pg!Replaces(r, q), Pg!Loads = {}, NEW p, p = pagesMade + 1
  PROVE  ListRightOf(p)'
<1>1. asking' = (asking \ {r}) \cup {q}
  BY DEF Pg!Replaces
<1>2. /\ p \in Pg!Pages /\ p \in DOMAIN pageRows' /\ pageRows'[p] = Pg!NewRow(r)
      /\ DOMAIN q.got = {p} /\ q.got[p] = Pg!NewRow(r)
  BY WrittenIs
<1>3. ~Made(p)
  BY <1>2 DEF Made, Pg!TypeOK
<1>4. \A s \in asking : s.page # p /\ p \notin DOMAIN s.got
  BY <1>3 DEF AllMade, GotMade
<1>5. \A s \in asking : s.kind # "load"
  BY DEF Pg!Loads
<1>6. Pg!Pending(p)' = {}
  BY <1>1, <1>4, <1>5 DEF Pg!Pending
<1>7. UNCHANGED <<docs, selectedId, active>>
  BY DEF Pg!Serve, Pg!page
<1>8. p \notin DOMAIN docs' \cup {selectedId', active'.id}
  BY <1>3, <1>7 DEF MadeSoFar
<1>9. \A s \in asking' : Brings(s, p)' => s = q
  BY <1>1, <1>4 DEF Brings
<1>10. \A s \in asking' : s.page # p /\ s.kind # "load"
  BY <1>1, <1>4, <1>5
<1>11. NewRight(q, p)'
  BY <1>2, <1>8, <1>9, <1>10 DEF NewRight
<1>12. q \in asking' /\ Brings(q, p)'
  BY <1>1, <1>2 DEF Brings, Pg!Adds
<1> QED
  BY <1>6, <1>9, <1>11, <1>12 DEF ListRightOf

\* The list and the table after the request about p is served.
LEMMA ServeBetween ==
  ASSUME TreeLimits, Pg!TypeOK, Pg!TypeOK', MadeSoFar, AllMade, NEW r \in asking, Pg!Serve(r),
         NEW p \in Pg!Pages, r \in Pg!Pending(p), Between(r, p), NEW q, q.kind = r.kind, q.page = r.page,
         q.at = "answered", q.got = Pg!Answer(r), q.parent = r.parent, q.tags = r.tags
  PROVE  Between(q, p)'
<1>1. UNCHANGED docs /\ r.at = "sent"
  BY DEF Pg!Serve
<1>2. r.kind \in {"load", "remove", "move", "rename", "tags", "duplicate", "create"}
  BY DEF Pg!TypeOK, Pg!Request, Pg!Kinds, Pg!Pending
<1>3. r.kind # "load" => r.page = p /\ r.kind # "create"
  BY TopIsNone DEF Pg!Pending, AllMade, GotMade, GotRight
<1>4. CASE r.kind = "load"
  <2>1. pageRows' = pageRows /\ Pg!Answer(r) = pageRows
    BY <1>4, WrittenIs DEF Pg!Answer
  <2>2. p \notin DOMAIN docs
    BY <1>4 DEF Between
  <2>3. SameAt(q.got, pageRows, p)'
    BY <2>1 DEF SameAt
  <2> QED
    BY <1>1, <1>4, <2>2, <2>3 DEF Between, Settled
<1>5. CASE r.kind = "remove"
  <2>1. p \notin DOMAIN pageRows'
    BY <1>3, <1>5, WrittenIs
  <2> QED
    BY <1>5, <2>1 DEF Between, Settled
<1>6. CASE r.kind = "move"
  <2>1. Agree(p)
    BY <1>1, <1>6 DEF Between, Settled
  <2>2. p \in DOMAIN pageRows /\ DOMAIN pageRows' = DOMAIN pageRows
        /\ pageRows'[p] = [pageRows[p] EXCEPT !.parent = r.parent]
    BY <1>3, <1>6, WrittenIs
  <2>3. p \in DOMAIN docs' \cap DOMAIN pageRows' /\ pageRows'[p] = [docs'[p] EXCEPT !.parent = q.parent]
    BY <1>1, <2>1, <2>2 DEF Agree, SameAt
  <2> QED
    BY <1>6, <2>3 DEF Between, Settled
<1>7. CASE r.kind = "tags"
  <2>1. Agree(p)
    BY <1>1, <1>7 DEF Between, Settled
  <2>2. p \in DOMAIN pageRows /\ DOMAIN pageRows' = DOMAIN pageRows
        /\ pageRows'[p] = [pageRows[p] EXCEPT !.tags = r.tags]
    BY <1>3, <1>7, WrittenIs
  <2>3. p \in DOMAIN docs' \cap DOMAIN pageRows' /\ pageRows'[p] = [docs'[p] EXCEPT !.tags = q.tags]
    BY <1>1, <2>1, <2>2 DEF Agree, SameAt
  <2> QED
    BY <1>7, <2>3 DEF Between, Settled
<1>8. CASE r.kind = "rename"
  <2>1. /\ p \in DOMAIN docs <=> p \in DOMAIN pageRows
        /\ p \in DOMAIN docs => docs[p] = [pageRows[p] EXCEPT !.title = "renamed"]
    BY <1>1, <1>8 DEF Between
  <2>2. p \in DOMAIN pageRows /\ DOMAIN pageRows' = DOMAIN pageRows
        /\ pageRows'[p] = [pageRows[p] EXCEPT !.title = "renamed"]
    BY <1>3, <1>8, WrittenIs
  <2>3. Agree(p)'
    BY <1>1, <2>1, <2>2 DEF Agree, SameAt
  <2> QED
    BY <1>8, <2>3 DEF Between, Settled
<1>9. CASE r.kind = "duplicate"
  <2>1. Agree(p)
    BY <1>9 DEF Between, Settled
  <2>2. /\ DOMAIN pageRows' = DOMAIN pageRows \cup {pagesMade + 1} /\ p \in DOMAIN pageRows
        /\ \A s \in DOMAIN pageRows : pageRows'[s] = pageRows[s]
    BY <1>3, <1>9, WrittenIs DEF Pg!Adds, Pg!Serve
  <2>3. Agree(p)'
    BY <1>1, <2>1, <2>2 DEF Agree, SameAt
  <2> QED
    BY <1>9, <2>3 DEF Between, Settled
<1> QED
  BY <1>2, <1>3, <1>4, <1>5, <1>6, <1>7, <1>8, <1>9

LEMMA ServeStill ==
  ASSUME TreeLimits, Pg!TypeOK, Pg!TypeOK', MadeSoFar, AllMade, NEW r \in asking, Pg!Serve(r),
         NEW p \in Pg!Pages, Pg!Adds(r) => p # pagesMade + 1, r \in Pg!Pending(p) => r.kind = "duplicate"
  PROVE  StillThere(p)
<1>1. UNCHANGED docs
  BY DEF Pg!Serve
<1>2. CASE Pg!Adds(r)
  <2>1. /\ DOMAIN pageRows' = DOMAIN pageRows \cup {pagesMade + 1}
        /\ \A s \in DOMAIN pageRows : pageRows'[s] = pageRows[s]
    BY <1>2, WrittenIs
  <2> QED
    BY <1>1, <1>2, <2>1 DEF StillThere, SameAt
<1>3. CASE r.kind \in {"load", "open"}
  <2>1. pageRows' = pageRows
    BY <1>3, WrittenIs
  <2> QED
    BY <1>1, <2>1 DEF StillThere, SameAt
<1>4. CASE r.kind \in {"remove", "move", "rename", "tags"}
  <2>1. p # r.page
    BY <1>4 DEF Pg!Pending
  <2>2. CASE r.kind = "remove"
    <3>1. /\ DOMAIN pageRows' = DOMAIN pageRows \ {r.page}
          /\ \A s \in DOMAIN pageRows' : pageRows'[s] = pageRows[s]
      BY <2>2, WrittenIs
    <3> QED
      BY <1>1, <2>1, <3>1 DEF StillThere, SameAt
  <2>3. CASE r.kind # "remove"
    <3>1. /\ DOMAIN pageRows' = DOMAIN pageRows
          /\ \A s \in DOMAIN pageRows \ {r.page} : pageRows'[s] = pageRows[s]
      BY <1>4, <2>3, WrittenIs
    <3> QED
      BY <1>1, <2>1, <3>1 DEF StillThere, SameAt
  <2> QED
    BY <2>2, <2>3
<1>5. r.kind \in Pg!Kinds
  BY DEF Pg!TypeOK, Pg!Request
<1> QED
  BY <1>2, <1>3, <1>4, <1>5 DEF Pg!Kinds, Pg!Adds

\* A request that failed leaves the pages it does not make doubtful.
LEMMA FailedListed ==
  ASSUME Pg!TypeOK, AllMade, NEW r \in asking, r.at = "sent", NEW q, q.kind = r.kind, q.page = r.page,
         q.at = "refused", Pg!Replaces(r, q), NEW p \in Pg!Pages, p \notin Pg!Doubts(r), ListRightOf(p),
         StillThere(p), UNCHANGED <<selectedId, active>>
  PROVE  ListRightOf(p)'
<1>1. ~Brings(q, p)
  BY DEF Brings
<1>2. CASE r \in Pg!Pending(p)
  <2>1. r.kind = "duplicate"
    <3>1. r.kind \in Pg!Kinds
      BY DEF Pg!TypeOK, Pg!Request
    <3>2. r.kind # "create"
      BY <1>2, TopIsNone DEF Pg!Pending, AllMade, GotMade, GotRight
    <3> QED
      BY <1>2, <3>1, <3>2 DEF Pg!Pending, Pg!Doubts, Pg!Kinds
  <2>2. Agree(p)
    BY <1>2, <2>1, NotBrought DEF Between, Settled
  <2>3. Agree(p)'
    BY <2>2 DEF Agree, SameAt, StillThere
  <2>4. Between(q, p)'
    BY <2>1, <2>3 DEF Between
  <2> QED
    BY <1>1, <1>2, <2>4, ReplaceThis
<1>3. CASE r \notin Pg!Pending(p)
  BY <1>1, <1>3, ReplaceOther
<1> QED
  BY <1>2, <1>3

LEMMA ServerListed ==
  ASSUME TreeLimits, Pg!TypeOK, Pg!TypeOK', MadeSoFar, AllMade, AllListed,
         NEW r \in asking, Pg!Serve(r) \/ Pg!Refuse(r)
  PROVE  AllListed'
<1> SUFFICES ASSUME NEW p \in Pg!Pages \ crossing' PROVE ListRightOf(p)'
  BY DEF AllListed
<1>1. r \in Pg!Request(r.got) /\ r.at = "sent" /\ UNCHANGED <<docs, selectedId, active>>
  BY DEF Pg!TypeOK, Pg!Serve, Pg!Refuse, Pg!page
<1>2. PICK a : a = [r EXCEPT !.at = "answered", !.got = Pg!Answer(r)]
  OBVIOUS
<1>3. PICK d : d = [r EXCEPT !.at = "refused"]
  OBVIOUS
<1>4. /\ a.kind = r.kind /\ a.page = r.page /\ a.at = "answered" /\ a.got = Pg!Answer(r)
      /\ a.parent = r.parent /\ a.tags = r.tags
      /\ d.kind = r.kind /\ d.page = r.page /\ d.at = "refused"
  BY <1>1, <1>2, <1>3 DEF Pg!Request
<1>5. ListRightOf(p)
  <2>1. crossing \subseteq crossing'
    BY DEF Pg!Serve, Pg!Refuse
  <2> QED
    BY <2>1 DEF AllListed
<1>6. CASE Pg!Serve(r) /\ Pg!Replaces(r, a) /\ crossing' = IF Pg!Adds(r) /\ Pg!Loads # {}
                                                          THEN crossing \cup {pagesMade'} ELSE crossing
  <2>1. Pg!Adds(r) => DOMAIN Pg!Answer(r) = {pagesMade + 1} /\ pagesMade' = pagesMade + 1
                      /\ pagesMade + 1 \in Pg!Pages
    BY <1>6, WrittenIs
  <2>2. CASE r \in Pg!Pending(p)
    <3>1. ~Brings(a, p)
      <4>1. Pg!Adds(r) => r.page = p /\ Made(p)
        BY <2>2, TopIsNone DEF Pg!Pending, Pg!Adds, AllMade, GotMade, GotRight
      <4>2. Pg!Adds(r) => p # pagesMade + 1
        BY <4>1 DEF Made, Pg!TypeOK
      <4> QED
        BY <1>4, <2>1, <4>2 DEF Brings, Pg!Adds
    <3>2. Between(r, p)
      BY <1>5, <2>2, NotBrought
    <3>3. Between(a, p)'
      BY <1>4, <1>6, <2>2, <3>2, ServeBetween
    <3> QED
      BY <1>4, <1>5, <1>6, <2>2, <3>1, <3>3, ReplaceThis
  <2>3. CASE r \notin Pg!Pending(p) /\ Pg!Adds(r) /\ p = pagesMade + 1
    <3>1. Pg!Loads = {}
      BY <1>6, <2>1, <2>3
    <3> QED
      BY <1>4, <1>6, <2>3, <3>1, ReplaceNew
  <2>4. CASE r \notin Pg!Pending(p) /\ ~(Pg!Adds(r) /\ p = pagesMade + 1)
    <3>1. StillThere(p)
      BY <1>6, <2>4, ServeStill
    <3>2. ~Brings(a, p)
      BY <1>4, <2>1, <2>4 DEF Brings, Pg!Adds
    <3> QED
      BY <1>1, <1>4, <1>5, <1>6, <2>4, <3>1, <3>2, ReplaceOther
  <2> QED
    BY <2>2, <2>3, <2>4
<1>7. CASE Pg!Serve(r) /\ Pg!Replaces(r, d)
           /\ crossing' = crossing \cup IF Pg!Adds(r) THEN {pagesMade'} ELSE Pg!Doubts(r)
  <2>1. p \notin Pg!Doubts(r)
    BY <1>7 DEF Pg!Doubts, Pg!Adds
  <2>2. r \in Pg!Pending(p) => r.kind = "duplicate"
    <3>1. r.kind \in Pg!Kinds
      BY <1>1 DEF Pg!Request
    <3>2. r \in Pg!Pending(p) => r.kind # "create"
      BY TopIsNone DEF Pg!Pending, AllMade, GotMade, GotRight
    <3> QED
      BY <2>1, <3>1, <3>2 DEF Pg!Pending, Pg!Doubts, Pg!Kinds
  <2>3. Pg!Adds(r) => p # pagesMade + 1
    BY <1>7, WrittenIs
  <2>4. StillThere(p)
    BY <1>7, <2>2, <2>3, ServeStill
  <2> QED
    BY <1>1, <1>4, <1>5, <1>7, <2>1, <2>4, FailedListed
<1>8. CASE Pg!Refuse(r)
  <2>1. StillThere(p)
    BY <1>1, <1>8 DEF Pg!Refuse, Pg!table, StillThere, SameAt
  <2>2. Pg!Replaces(r, d) /\ p \notin Pg!Doubts(r)
    BY <1>3, <1>8 DEF Pg!Refuse
  <2> QED
    BY <1>1, <1>4, <1>5, <2>1, <2>2, FailedListed
<1>9. Pg!Serve(r) =>
        \/ Pg!Replaces(r, a) /\ crossing' = IF Pg!Adds(r) /\ Pg!Loads # {}
                                            THEN crossing \cup {pagesMade'} ELSE crossing
        \/ Pg!Replaces(r, d) /\ crossing' = crossing \cup IF Pg!Adds(r) THEN {pagesMade'} ELSE Pg!Doubts(r)
  BY <1>2, <1>3 DEF Pg!Serve
<1> QED
  BY <1>6, <1>7, <1>8, <1>9

\* The request r ends, and a page may be asked for.
EndsOpening(r) ==
    /\ asking \ {r} \subseteq asking' /\ r \notin asking'
    /\ \A s \in asking' \ asking : s.kind = "open" /\ s.at = "sent"

LEMMA EndOther ==
  ASSUME NEW r \in asking, EndsOpening(r), NEW p, ListRightOf(p), StillThere(p), r \notin Pg!Pending(p),
         ~Brings(r, p), \A s \in asking' \ asking : s.page # p,
         p \notin DOMAIN docs /\ (\A s \in asking : s.page # p) =>
             p \notin {selectedId', active'.id} \ {selectedId, active.id}
  PROVE  ListRightOf(p)'
<1>1. Pg!Pending(p)' = Pg!Pending(p)
  BY DEF EndsOpening, Pg!Pending
<1>2. \A s : Brings(s, p)' <=> Brings(s, p)
  BY DEF Brings, Pg!Adds
<1>3. \A s \in asking' \ asking : ~Brings(s, p)
  BY DEF EndsOpening, Brings
<1>4. \A s \in Pg!Pending(p)' : Between(s, p)'
  BY <1>1, BetweenStill DEF ListRightOf, SameTask
<1>5. ASSUME NEW s \in asking', Brings(s, p) PROVE NewRight(s, p)'
  <2>1. s \in asking /\ NewRight(s, p)
    BY <1>3, <1>5 DEF ListRightOf
  <2>2. p \in DOMAIN pageRows' /\ pageRows'[p] = s.got[p]
    BY <2>1 DEF NewRight, StillThere, SameAt
  <2>3. p \notin DOMAIN docs' \cup {selectedId', active'.id}
    BY <2>1 DEF NewRight, StillThere, SameAt
  <2>4. \A t \in asking' : t.page # p /\ t.kind # "load" /\ (Brings(t, p) => t = s)
    BY <1>3, <2>1 DEF NewRight, EndsOpening
  <2> QED
    BY <1>2, <2>2, <2>3, <2>4 DEF NewRight
<1>6. Pg!Pending(p)' = {} /\ (\A s \in asking' : ~Brings(s, p)) => Agree(p)'
  <2> SUFFICES ASSUME Pg!Pending(p)' = {}, \A s \in asking' : ~Brings(s, p) PROVE Agree(p)'
    OBVIOUS
  <2>1. Agree(p)
    BY <1>1 DEF ListRightOf, EndsOpening
  <2> QED
    BY <2>1 DEF Agree, SameAt, StillThere
<1>7. \A s, t \in Pg!Pending(p)' : s = t
  BY <1>1 DEF ListRightOf
<1> QED
  BY <1>2, <1>4, <1>5, <1>6, <1>7 DEF ListRightOf

LEMMA EndThis ==
  ASSUME NEW r \in asking, EndsOpening(r), NEW p, ListRightOf(p), r \in Pg!Pending(p), Agree(p)'
  PROVE  ListRightOf(p)'
<1>1. Pg!Pending(p) = {r} /\ \A s \in asking : ~Brings(s, p)
  BY NotBrought
<1>2. Pg!Pending(p)' = {}
  BY <1>1 DEF EndsOpening, Pg!Pending
<1>3. \A s \in asking' : ~Brings(s, p)'
  BY <1>1 DEF EndsOpening, Brings, Pg!Adds
<1> QED
  BY <1>2, <1>3 DEF ListRightOf

LEMMA EndBrought ==
  ASSUME NEW r \in asking, EndsOpening(r), NEW p, ListRightOf(p), Brings(r, p), Agree(p)'
  PROVE  ListRightOf(p)'
<1>1. NewRight(r, p)
  BY DEF ListRightOf
<1>2. Pg!Pending(p)' = {}
  BY <1>1 DEF NewRight, EndsOpening, Pg!Pending
<1>3. \A s \in asking' : ~Brings(s, p)'
  BY <1>1 DEF NewRight, EndsOpening, Brings, Pg!Adds
<1> QED
  BY <1>2, <1>3 DEF ListRightOf

LEMMA TabListed ==
  ASSUME TreeLimits, Pg!TypeOK, AllMade, AllListed, NEW r \in asking, Pg!Take(r) \/ Pg!Fail(r)
  PROVE  AllListed'
<1>1. UNCHANGED <<pageRows, crossing>>
  BY DEF Pg!Take, Pg!Fail, Pg!TakeLoad, Pg!TakeOpen, Pg!TakeNew, Pg!TakeRemoved, Pg!TakeMoved, Pg!TakeTags,
         Pg!table, Pg!hist
<1> SUFFICES ASSUME NEW p \in Pg!Pages \ crossing PROVE ListRightOf(p)'
  BY <1>1 DEF AllListed
<1>2. ListRightOf(p) /\ p # Pg!None
  BY TopIsNone DEF AllListed
<1>3. Pg!Ends(r) => EndsOpening(r) /\ \A s \in asking' \ asking : s.page # p
  BY DEF Pg!Ends, EndsOpening
<1>4. r \in Pg!Pending(p) => Between(r, p)
  BY <1>2, NotBrought
<1>5. UNCHANGED docs => StillThere(p)
  BY <1>1 DEF StillThere, SameAt
\* The answer is about another page, or about none.
<1>6. ASSUME Pg!Ends(r), r \notin Pg!Pending(p), ~Brings(r, p), StillThere(p),
             selectedId' \in {selectedId, Pg!None}, active'.id \in {active.id, r.page, Pg!None}
      PROVE  ListRightOf(p)'
  <2>1. p \notin DOMAIN docs /\ (\A s \in asking : s.page # p) =>
             p \notin {selectedId', active'.id} \ {selectedId, active.id}
    BY <1>2, <1>6
  <2> QED
    BY <1>2, <1>3, <1>6, <2>1, EndOther
<1>7. CASE Pg!TakeLoad(r) /\ r.at = "answered"
  <2>1. r \in Pg!Pending(p) /\ Pg!Ends(r) /\ docs' = r.got
    BY <1>7 DEF Pg!Pending, Pg!TakeLoad
  <2>2. SameAt(r.got, pageRows, p)
    BY <1>4, <1>7, <2>1 DEF Between, Pg!TakeLoad
  <2>3. Agree(p)'
    BY <1>1, <2>1, <2>2 DEF Agree, SameAt
  <2> QED
    BY <1>2, <1>3, <2>1, <2>3, EndThis
<1>8. CASE Pg!TakeOpen(r)
  <2>1. r \notin Pg!Pending(p) /\ ~Brings(r, p)
    BY <1>8 DEF Pg!TakeOpen, Pg!Pending, Brings, Pg!Adds
  <2>2. Pg!Ends(r) /\ UNCHANGED <<docs, selectedId>> /\ active'.id = r.page
    BY <1>8 DEF Pg!TakeOpen
  <2> QED
    BY <1>5, <1>6, <2>1, <2>2
<1>9. CASE Pg!TakeNew(r) /\ r.at = "answered"
  <2>1. PICK n \in Pg!Pages, q \in asking' :
           /\ DOMAIN r.got = {n} /\ asking' = (asking \ {r}) \cup {q}
           /\ q.kind = "open" /\ q.page = n /\ q.at = "sent"
           /\ DOMAIN docs' = DOMAIN docs \cup {n} /\ docs'[n] = r.got[n]
           /\ \A s \in DOMAIN docs \ {n} : docs'[s] = docs[s]
           /\ selectedId' = n /\ active' = active
    BY <1>9, TakeNewIs DEF AllMade, GotMade
  <2>2. EndsOpening(r)
    BY <1>9, <2>1 DEF EndsOpening, Pg!TakeNew, Pg!Adds
  <2>3. CASE p = n
    <3>1. Brings(r, p)
      BY <1>9, <2>1, <2>3 DEF Brings, Pg!TakeNew
    <3>2. NewRight(r, p)
      BY <1>2, <3>1 DEF ListRightOf
    <3>3. Agree(p)'
      BY <1>1, <2>1, <2>3, <3>2 DEF NewRight, Agree, SameAt
    <3> QED
      BY <1>2, <2>2, <3>1, <3>3, EndBrought
  <2>4. CASE p # n
    <3>1. StillThere(p)
      BY <1>1, <2>1, <2>4 DEF StillThere, SameAt
    <3>2. CASE r \in Pg!Pending(p)
      <4>1. r.kind = "duplicate"
        BY <1>2, <1>9, <3>2 DEF Pg!TakeNew, Pg!Adds, Pg!Pending, AllMade, GotMade, GotRight
      <4>2. Agree(p)
        BY <1>4, <3>2, <4>1 DEF Between, Settled
      <4>3. Agree(p)'
        BY <3>1, <4>2 DEF Agree, SameAt, StillThere
      <4> QED
        BY <1>2, <2>2, <3>2, <4>3, EndThis
    <3>3. CASE r \notin Pg!Pending(p)
      <4>1. ~Brings(r, p)
        BY <2>1, <2>4 DEF Brings
      <4>2. \A s \in asking' \ asking : s.page # p
        BY <2>1, <2>4
      <4>3. p \notin {selectedId', active'.id} \ {selectedId, active.id}
        BY <2>1, <2>4
      <4> QED
        BY <1>2, <2>2, <3>1, <3>3, <4>1, <4>2, <4>3, EndOther
    <3> QED
      BY <3>2, <3>3
  <2> QED
    BY <2>3, <2>4
<1>10. CASE Pg!TakeRemoved(r) /\ r.at = "answered"
  <2>1. /\ Pg!Ends(r) /\ DOMAIN docs' = DOMAIN docs \ {r.page}
        /\ \A s \in DOMAIN docs' : docs'[s] = docs[s]
        /\ selectedId' \in {selectedId, Pg!None} /\ active'.id \in {active.id, Pg!None}
    BY <1>10 DEF Pg!TakeRemoved, Pg!NoDoc
  <2>2. CASE p = r.page
    <3>1. r \in Pg!Pending(p)
      BY <1>10, <2>2 DEF Pg!Pending, Pg!TakeRemoved
    <3>2. p \notin DOMAIN pageRows
      BY <1>4, <1>10, <3>1 DEF Between, Pg!TakeRemoved
    <3>3. Agree(p)'
      BY <1>1, <2>1, <2>2, <3>2 DEF Agree, SameAt
    <3> QED
      BY <1>2, <1>3, <2>1, <3>1, <3>3, EndThis
  <2>3. CASE p # r.page
    <3>1. r \notin Pg!Pending(p) /\ ~Brings(r, p)
      BY <1>10, <2>3 DEF Pg!Pending, Pg!TakeRemoved, Brings, Pg!Adds
    <3>2. StillThere(p)
      BY <1>1, <2>1, <2>3 DEF StillThere, SameAt
    <3> QED
      BY <1>6, <2>1, <3>1, <3>2
  <2> QED
    BY <2>2, <2>3
<1>11. CASE Pg!TakeMoved(r) /\ r.at = "answered"
  <2>1. /\ Pg!Ends(r) /\ DOMAIN docs' = DOMAIN docs
        /\ \A s \in DOMAIN docs \ {r.page} : docs'[s] = docs[s]
        /\ r.page \in DOMAIN docs => docs'[r.page] = [docs[r.page] EXCEPT !.parent = r.parent]
        /\ UNCHANGED <<selectedId, active>>
    BY <1>11 DEF Pg!TakeMoved, Pg!page
  <2>2. CASE p = r.page
    <3>1. r \in Pg!Pending(p)
      BY <1>11, <2>2 DEF Pg!Pending, Pg!TakeMoved
    <3>2. p \in DOMAIN docs \cap DOMAIN pageRows /\ pageRows[p] = [docs[p] EXCEPT !.parent = r.parent]
      BY <1>4, <1>11, <3>1 DEF Between, Pg!TakeMoved
    <3>3. Agree(p)'
      BY <1>1, <2>1, <2>2, <3>2 DEF Agree, SameAt
    <3> QED
      BY <1>2, <1>3, <2>1, <3>1, <3>3, EndThis
  <2>3. CASE p # r.page
    <3>1. r \notin Pg!Pending(p) /\ ~Brings(r, p)
      BY <1>11, <2>3 DEF Pg!Pending, Pg!TakeMoved, Brings, Pg!Adds
    <3>2. StillThere(p)
      BY <1>1, <2>1, <2>3 DEF StillThere, SameAt
    <3> QED
      BY <1>6, <2>1, <3>1, <3>2
  <2> QED
    BY <2>2, <2>3
<1>12. CASE Pg!TakeTags(r) /\ r.at = "answered"
  <2>1. /\ Pg!Ends(r) /\ DOMAIN docs' = DOMAIN docs
        /\ \A s \in DOMAIN docs \ {r.page} : docs'[s] = docs[s]
        /\ r.page \in DOMAIN docs => docs'[r.page] = [docs[r.page] EXCEPT !.tags = r.tags]
        /\ UNCHANGED selectedId
    BY <1>12 DEF Pg!TakeTags
  <2>2. active'.id = active.id
    BY <1>12 DEF Pg!TakeTags, Pg!TypeOK
  <2>3. CASE p = r.page
    <3>1. r \in Pg!Pending(p)
      BY <1>12, <2>3 DEF Pg!Pending, Pg!TakeTags
    <3>2. p \in DOMAIN docs \cap DOMAIN pageRows /\ pageRows[p] = [docs[p] EXCEPT !.tags = r.tags]
      BY <1>4, <1>12, <3>1 DEF Between, Pg!TakeTags
    <3>3. Agree(p)'
      BY <1>1, <2>1, <2>3, <3>2 DEF Agree, SameAt
    <3> QED
      BY <1>2, <1>3, <2>1, <3>1, <3>3, EndThis
  <2>4. CASE p # r.page
    <3>1. r \notin Pg!Pending(p) /\ ~Brings(r, p)
      BY <1>12, <2>4 DEF Pg!Pending, Pg!TakeTags, Brings, Pg!Adds
    <3>2. StillThere(p)
      BY <1>1, <2>1, <2>4 DEF StillThere, SameAt
    <3> QED
      BY <1>6, <2>1, <2>2, <3>1, <3>2
  <2> QED
    BY <2>3, <2>4
<1>13. CASE ((r.kind = "rename" /\ r.at = "answered") \/ r.at = "refused")
            /\ Pg!Ends(r) /\ UNCHANGED <<docs, selectedId, active>>
  <2>1. StillThere(p)
    BY <1>5, <1>13
  <2>2. CASE r \in Pg!Pending(p)
    <3>1. Settled(r)
      BY <1>4, <1>13, <2>2 DEF Between, Settled
    <3>2. Agree(p)
      BY <1>4, <2>2, <3>1 DEF Between
    <3>3. Agree(p)'
      BY <2>1, <3>2 DEF Agree, SameAt, StillThere
    <3> QED
      BY <1>2, <1>3, <1>13, <2>2, <3>3, EndThis
  <2>3. CASE r \notin Pg!Pending(p)
    <3>1. ~Brings(r, p)
      BY <1>13 DEF Brings, Pg!Adds
    <3> QED
      BY <1>6, <1>13, <2>1, <2>3, <3>1
  <2> QED
    BY <2>2, <2>3
<1>14. Pg!Fail(r) => r.at = "refused" /\ Pg!Ends(r) /\ UNCHANGED <<docs, selectedId, active>>
  BY DEF Pg!Fail
<1>15. Pg!Take(r) =>
         \/ r.at = "answered" /\ (\/ Pg!TakeLoad(r) \/ Pg!TakeOpen(r) \/ Pg!TakeNew(r) \/ Pg!TakeRemoved(r)
                                  \/ Pg!TakeMoved(r) \/ Pg!TakeTags(r))
         \/ r.at = "answered" /\ r.kind = "rename" /\ Pg!Ends(r) /\ UNCHANGED <<docs, selectedId, active>>
  BY DEF Pg!Take, Pg!page
<1> QED
  BY <1>7, <1>8, <1>9, <1>10, <1>11, <1>12, <1>13, <1>14, <1>15

LEMMA LocalListed ==
  ASSUME TreeLimits, AllListed, NoRequest
  PROVE  AllListed'
<1>1. UNCHANGED <<pageRows, docs, asking, crossing>>
  BY DEF NoRequest, Pg!Back, Pg!CloseTemplatePicker, Pg!OpenTemplatePicker, Pg!table, Pg!page, Pg!hist
<1>2. selectedId' \in {selectedId, Pg!None} /\ active'.id \in {active.id, Pg!None}
  BY DEF NoRequest, Pg!Back, Pg!CloseTemplatePicker, Pg!OpenTemplatePicker, Pg!page, Pg!NoDoc
<1> SUFFICES ASSUME NEW p \in Pg!Pages \ crossing PROVE ListRightOf(p)'
  BY <1>1 DEF AllListed
<1>3. ListRightOf(p) /\ p # Pg!None
  BY TopIsNone DEF AllListed
<1>4. \A s : Between(s, p)' <=> Between(s, p)
  BY <1>1 DEF Between, Settled, Agree, SameAt
<1>5. \A s : Brings(s, p)' <=> Brings(s, p)
  BY DEF Brings, Pg!Adds
<1>6. \A s : NewRight(s, p) => NewRight(s, p)'
  BY <1>1, <1>2, <1>3, <1>5 DEF NewRight
<1>7. Pg!Pending(p)' = Pg!Pending(p) /\ (Agree(p)' <=> Agree(p))
  BY <1>1 DEF Pg!Pending, Agree, SameAt
<1> QED
  BY <1>1, <1>3, <1>4, <1>5, <1>6, <1>7 DEF ListRightOf
-----------------------------------------------------------------------------
(* The editor gives a page the title that it has.                          *)

LEMMA SendNamed ==
  ASSUME Pg!TypeOK, NEW q, NEW doubted, NEW kind, NEW pg, Unsent(q, kind, pg), kind # "load",
         Pg!SendsDoubting(q, doubted), NEW p, NoOlder(p)
  PROVE  NoOlder(p)'
<1>1. PICK f, new : SentAs(q, f, new)
  BY SendIs DEF Unsent
<1>2. SameTask(new, q)
  BY <1>1, AlikeTask DEF SentAs, Unsent
<1>3. \A r \in asking : SameTask(f[r], r)
  BY <1>1, AlikeTask DEF SentAs, Pg!TypeOK
<1> QED
  BY <1>1, <1>2, <1>3 DEF SentAs, NoOlder, Brings, SameTask, Unsent, Pg!Adds

LEMMA UserNamed ==
  ASSUME TreeLimits, Pg!TypeOK, AllListed, AllNamed, ByUser
  PROVE  AllNamed'
<1>1. crossing \subseteq crossing'
  BY DEF ByUser, Pg!CreateFromTemplate, Pg!Rename, Pg!Select, Pg!Duplicate, Pg!Remove, Pg!Drop, Pg!ToggleTag,
         Pg!Sends, Pg!SendsDoubting
<1>2. \A p : NoOlder(p) => NoOlder(p)'
  <2>1. "open" # "load" /\ "create" # "load" /\ "duplicate" # "load" /\ "remove" # "load"
        /\ "move" # "load" /\ "rename" # "load" /\ "tags" # "load"
    OBVIOUS
  <2>2. \E q, kind, pg, doubted : kind # "load" /\ Unsent(q, kind, pg) /\ Pg!SendsDoubting(q, doubted)
    BY <2>1, Asked DEF ByUser
  <2> QED
    BY <2>2, SendNamed
<1>3. CASE Pg!Rename
  <2> SUFFICES ASSUME NEW p \in named' \ crossing' PROVE NamedRight(p)'
    BY DEF AllNamed
  <2>1. named' = named \cup {active.id} /\ Pg!TitleChange /\ active.id \in Pg!Pages
    BY <1>3 DEF Pg!Rename, Pg!TypeOK
  <2>2. CASE p = active.id
    <3>1. PICK q : /\ Unsent(q, "rename", active.id)
                   /\ Pg!SendsDoubting(q, IF selectedId = active.id THEN {} ELSE {selectedId, active.id})
      BY <1>3, Asked
    <3>2. selectedId = p
      BY <2>1, <2>2, <3>1 DEF Pg!SendsDoubting
    <3>3. Pg!Pending(p) = {}
      BY <2>1, <2>2, <3>1 DEF Pg!SendsDoubting, Unsent
    <3>4. \A r \in asking : r.kind # "load"
      BY <3>3 DEF Pg!Pending
    <3>5. ListRightOf(p)
      BY <1>1, <2>1, <2>2 DEF AllListed
    <3>6. \A r \in asking : ~Brings(r, p)
      BY <2>2, <3>5 DEF ListRightOf, NewRight
    <3>7. p \in DOMAIN docs' => docs'[p].title = "renamed"
      BY <2>1, <3>2 DEF Pg!TitleChange, Pg!TypeOK, Pg!IsTable, Pg!Row
    <3> QED
      BY <1>2, <3>4, <3>6, <3>7 DEF NamedRight, NoOlder
  <2>3. CASE p # active.id
    <3>1. NamedRight(p)
      BY <1>1, <2>1, <2>3 DEF AllNamed
    <3>2. p \in DOMAIN docs' => docs'[p].title = "renamed"
      BY <2>1, <3>1 DEF NamedRight, Pg!TitleChange, Pg!TypeOK, Pg!IsTable, Pg!Row
    <3> QED
      BY <1>2, <3>1, <3>2 DEF NamedRight
  <2> QED
    BY <2>2, <2>3
<1>4. CASE UNCHANGED <<named, docs>>
  BY <1>1, <1>2, <1>4 DEF AllNamed, NamedRight
<1> QED
  BY <1>3, <1>4 DEF ByUser, Pg!CreateFromTemplate, Pg!Select, Pg!Duplicate, Pg!Remove, Pg!Drop,
                    Pg!ToggleTag, Pg!table

LEMMA ServerNamed ==
  ASSUME TreeLimits, Pg!TypeOK, MadeSoFar, AllMade, AllNamed, NEW r \in asking, Pg!Serve(r) \/ Pg!Refuse(r)
  PROVE  AllNamed'
<1>1. UNCHANGED <<named, docs>> /\ crossing \subseteq crossing'
  BY DEF Pg!Serve, Pg!Refuse, Pg!table
<1> SUFFICES ASSUME NEW p \in named \ crossing PROVE NoOlder(p)'
  BY <1>1 DEF AllNamed, NamedRight
<1>2. NoOlder(p) /\ p \in Pg!Pages /\ Made(p)
  BY DEF AllNamed, NamedRight, MadeSoFar, Pg!TypeOK
<1>3. r \in Pg!Request(r.got)
  BY DEF Pg!TypeOK
<1>4. \A s : Brings(s, p)' <=> Brings(s, p)
  BY DEF Brings, Pg!Adds
<1>5. PICK q : /\ asking' = (asking \ {r}) \cup {q} /\ q.kind = r.kind
               /\ q.at = "answered" => Pg!Serve(r) /\ q.got = Pg!Answer(r)
  <2>1. PICK d : d = [r EXCEPT !.at = "refused"]
    OBVIOUS
  <2>2. PICK a : a = [r EXCEPT !.at = "answered", !.got = Pg!Answer(r)]
    OBVIOUS
  <2>3. d.kind = r.kind /\ d.at = "refused" /\ a.kind = r.kind /\ a.got = Pg!Answer(r)
    BY <1>3, <2>1, <2>2 DEF Pg!Request
  <2>4. CASE Pg!Serve(r) /\ asking' = (asking \ {r}) \cup {a}
    BY <2>3, <2>4
  <2>5. CASE asking' = (asking \ {r}) \cup {d}
    BY <2>3, <2>5
  <2> QED
    BY <2>1, <2>2, <2>4, <2>5 DEF Pg!Serve, Pg!Refuse, Pg!Replaces
<1>6. ~Brings(q, p)
  <2>1. ASSUME Pg!Adds(r), Pg!Serve(r), q.got = Pg!Answer(r) PROVE p \notin DOMAIN q.got
    <3>1. Pg!Answer(r) = [x \in {pagesMade + 1} |-> Pg!NewRow(r)]
      BY <2>1 DEF Pg!Answer, Pg!Adds
    <3>2. p # pagesMade + 1
      BY <1>2 DEF Made, Pg!TypeOK, Pg!Pages
    <3> QED
      BY <2>1, <3>1, <3>2
  <2> QED
    BY <1>5, <2>1 DEF Brings, Pg!Adds
<1> QED
  BY <1>2, <1>4, <1>5, <1>6 DEF NoOlder

LEMMA TabNamed ==
  ASSUME TreeLimits, Pg!TypeOK, AllMade, AllNamed, NEW r \in asking, Pg!Take(r) \/ Pg!Fail(r)
  PROVE  AllNamed'
<1>1. UNCHANGED <<named, crossing>>
  BY DEF Pg!Take, Pg!Fail, Pg!TakeLoad, Pg!TakeOpen, Pg!TakeNew, Pg!TakeRemoved, Pg!TakeMoved, Pg!TakeTags,
         Pg!table, Pg!hist
<1> SUFFICES ASSUME NEW p \in named \ crossing PROVE NamedRight(p)'
  BY <1>1 DEF AllNamed
<1>2. NamedRight(p) /\ GotRight(r)
  BY DEF AllNamed, AllMade, GotMade
<1>3. \A s : Brings(s, p)' <=> Brings(s, p)
  BY DEF Brings, Pg!Adds
<1>4. NoOlder(p)'
  <2>1. \A s \in asking' : s \in asking \/ s.kind = "open"
    <3>1. CASE Pg!TakeNew(r)
      BY <3>1 DEF Pg!TakeNew, Pg!Ask
    <3>2. CASE Pg!Ends(r)
      BY <3>2 DEF Pg!Ends
    <3> QED
      BY <3>1, <3>2 DEF Pg!Take, Pg!Fail, Pg!TakeLoad, Pg!TakeOpen, Pg!TakeRemoved, Pg!TakeMoved, Pg!TakeTags
  <2> QED
    BY <1>2, <1>3, <2>1 DEF NamedRight, NoOlder, Brings, Pg!Adds
<1>5. p \in DOMAIN docs' => docs'[p].title = "renamed"
  <2>1. r.kind # "load" /\ ~Brings(r, p)
    BY <1>2 DEF NamedRight, NoOlder
  <2>2. CASE Pg!TakeNew(r) /\ r.at = "answered"
    <3>1. PICK n \in Pg!Pages :
            /\ Brings(r, n) /\ DOMAIN docs' = DOMAIN docs \cup {n}
            /\ \A x \in DOMAIN docs \ {n} : docs'[x] = docs[x]
      BY <1>2, <2>2, TakeNewIs
    <3> QED
      BY <1>2, <2>1, <3>1 DEF NamedRight
  <2>3. CASE Pg!TakeRemoved(r)
    BY <1>2, <2>3 DEF Pg!TakeRemoved, NamedRight
  <2>4. CASE Pg!TakeMoved(r)
    BY <1>2, <2>4 DEF Pg!TakeMoved, NamedRight, Pg!TypeOK, Pg!IsTable, Pg!Row
  <2>5. CASE Pg!TakeTags(r)
    BY <1>2, <2>5 DEF Pg!TakeTags, NamedRight, Pg!TypeOK, Pg!IsTable, Pg!Row
  <2>6. CASE UNCHANGED docs
    BY <1>2, <2>6 DEF NamedRight
  <2> QED
    BY <2>1, <2>2, <2>3, <2>4, <2>5, <2>6 DEF Pg!Take, Pg!Fail, Pg!TakeLoad, Pg!TakeOpen
<1> QED
  BY <1>4, <1>5 DEF NamedRight

LEMMA LocalNamed ==
  ASSUME AllNamed, NoRequest
  PROVE  AllNamed'
<1>1. UNCHANGED <<named, docs, asking, crossing>>
  BY DEF NoRequest, Pg!Back, Pg!CloseTemplatePicker, Pg!OpenTemplatePicker, Pg!table, Pg!hist
<1> QED
  BY <1>1 DEF AllNamed, NamedRight, NoOlder, Brings, Pg!Adds

LEMMA SyncedTyped ==
  ASSUME Pg!TypeOK, Pg!Synced
  PROVE  Pg!TypeOK'
<1>1. Pg!IsTable(docs')
  BY TitleTyped DEF Pg!Synced
<1>2. crossing' \subseteq Pg!Pages
  BY DEF Pg!Synced, Pg!TypeOK
<1> QED
  BY <1>1, <1>2 DEF Pg!Synced, Pg!TypeOK, Pg!table, Pg!page, Pg!picker

\* Only the selected page changes, and it is doubted but when it is the one
\* that is shown: then it has the title already.
LEMMA SyncedKeeps ==
  ASSUME TreeInv, Pg!Synced
  PROVE  /\ MadeSoFar' /\ AllMade' /\ AllSeen' /\ Pg!PagesReachable' /\ AllListed' /\ AllNamed'
         /\ ShownRight' /\ AllTagged'
<1>1. /\ UNCHANGED <<pageRows, pagesMade, named, selectedId, active, loadingDoc, asking>>
      /\ UNCHANGED <<exempt, mixture, tagged, muddled>> /\ crossing \subseteq crossing'
      /\ Pg!TitleChange
  BY DEF Pg!Synced, Pg!table, Pg!page
<1>2. DOMAIN docs' = DOMAIN docs
  BY <1>1, TitleTyped DEF TreeInv
<1>3. MadeSoFar' /\ AllMade'
  BY <1>1, <1>2 DEF TreeInv, MadeSoFar, AllMade, GotMade, GotRight, Made, Pg!Adds
<1>4. AllSeen' /\ Pg!PagesReachable'
  <2>1. Pg!PagesReachable'
    BY <1>1 DEF TreeInv, Pg!PagesReachable, Pg!Hidden, Pg!Shown, Pg!Below
  <2>2. \A s : InReach(s)' <=> InReach(s)
    BY <1>1 DEF InReach, Pg!Shown, Pg!Subtree, Pg!Below
  <2> QED
    BY <1>1, <2>1, <2>2 DEF TreeInv, AllSeen, SeenRight, Pg!Reshapes
<1>5. ASSUME NEW p \in Pg!Pages \ crossing' PROVE SameAt(docs', docs, p)
  <2>1. CASE p # selectedId
    BY <1>1, <2>1 DEF Pg!TitleChange, SameAt
  <2>2. CASE p = selectedId
    <3>1. p = active.id /\ p \in named \ crossing
      BY <1>5, <1>1, <2>2 DEF Pg!Synced
    <3>2. p \in DOMAIN docs => docs[p].title = "renamed"
      BY <3>1 DEF TreeInv, AllNamed, NamedRight
    <3>3. p \in DOMAIN docs => docs[p] \in Pg!Row
      BY DEF TreeInv, Pg!TypeOK, Pg!IsTable
    <3>4. ASSUME p \in DOMAIN docs PROVE docs'[p] = [docs[p] EXCEPT !.title = "renamed"]
      BY <1>1, <2>2, <3>4 DEF Pg!TitleChange
    <3>5. \A d \in Pg!Row : d.title = "renamed" => [d EXCEPT !.title = "renamed"] = d
      BY DEF Pg!Row
    <3> QED
      BY <1>2, <3>2, <3>3, <3>4, <3>5 DEF SameAt
  <2> QED
    BY <2>1, <2>2
<1>6. AllListed'
  <2> SUFFICES ASSUME NEW p \in Pg!Pages \ crossing' PROVE ListRightOf(p)'
    BY DEF AllListed
  <2>1. ListRightOf(p) /\ SameAt(docs', docs, p)
    BY <1>1, <1>5 DEF TreeInv, AllListed
  <2>2. StillThere(p)
    BY <1>1, <2>1 DEF StillThere, SameAt
  <2>3. \A s : SameTask(s, s)
    BY DEF SameTask
  <2>4. \A s : Between(s, p) => Between(s, p)'
    BY <2>2, <2>3, BetweenStill
  <2>5. \A s : Brings(s, p)' <=> Brings(s, p)
    BY DEF Brings, Pg!Adds
  <2>6. \A s : NewRight(s, p) => NewRight(s, p)'
    BY <1>1, <1>2, <2>5 DEF NewRight
  <2>7. Pg!Pending(p)' = Pg!Pending(p)
    BY <1>1 DEF Pg!Pending
  <2>8. Agree(p) => Agree(p)'
    BY <2>2 DEF Agree, SameAt, StillThere
  <2> QED
    BY <1>1, <2>1, <2>4, <2>5, <2>6, <2>7, <2>8 DEF ListRightOf
<1>7. AllNamed'
  <2> SUFFICES ASSUME NEW p \in named \ crossing' PROVE NamedRight(p)'
    BY <1>1 DEF AllNamed
  <2>1. NamedRight(p) /\ SameAt(docs', docs, p)
    BY <1>1, <1>5 DEF TreeInv, AllNamed, Pg!TypeOK
  <2> QED
    BY <1>1, <2>1 DEF NamedRight, NoOlder, Brings, Pg!Adds, SameAt
<1>8. ShownRight' /\ AllTagged'
  BY <1>1 DEF TreeInv, ShownRight, OpenRight, SelectedRight, Pg!Opens, AllTagged, TagsRight, Pg!Of
<1> QED
  BY <1>3, <1>4, <1>6, <1>7, <1>8
-----------------------------------------------------------------------------
(* The page that is shown is the one that is selected.                     *)

\* The opens and the removals after a request is sent.
LEMMA SendOpens ==
  ASSUME Pg!TypeOK, NEW q, NEW doubted, NEW kind, NEW pg, Unsent(q, kind, pg), Pg!SendsDoubting(q, doubted)
  PROVE  \E f, new :
           /\ asking' = {f[r] : r \in asking} \cup {new}
           /\ new.kind = kind /\ new.page = pg /\ new.at = "sent" /\ (new.shown <=> q.shown) /\ new.tags = q.tags
           /\ \A r \in asking : SameTask(f[r], r) /\ (f[r].shown <=> r.shown)
<1>1. q \in Pg!Request(q.got) /\ q.at = "sent" /\ q.kind = kind /\ q.page = pg
  BY DEF Unsent
<1>2. PICK f, new : SentAs(q, f, new)
  BY <1>1, SendIs
<1>3. new.kind = kind /\ new.page = pg /\ new.at = "sent" /\ new.shown = q.shown /\ new.tags = q.tags
  BY <1>1, <1>2, AlikeIs DEF SentAs
<1>4. \A r \in asking : SameTask(f[r], r) /\ f[r].shown = r.shown
  BY <1>2, AlikeIs, AlikeTask DEF SentAs, Pg!TypeOK
<1> QED
  BY <1>2, <1>3, <1>4 DEF SentAs

\* Sending what opens nothing leaves what is shown right; a removal of the
\* selected page knows that it is.
LEMMA SendShown ==
  ASSUME Pg!TypeOK, NEW q, NEW doubted, NEW kind, NEW pg, Unsent(q, kind, pg), Pg!SendsDoubting(q, doubted),
         kind # "open", kind = "remove" /\ pg = selectedId => q.shown,
         UNCHANGED <<pageRows, selectedId, active, loadingDoc>>, ~mixture, ShownRight
  PROVE  ShownRight'
<1>1. crossing \subseteq crossing'
  BY DEF Pg!SendsDoubting
<1>2. PICK f, new :
        /\ asking' = {f[r] : r \in asking} \cup {new}
        /\ new.kind = kind /\ new.page = pg /\ new.at = "sent" /\ (new.shown <=> q.shown) /\ new.tags = q.tags
        /\ \A r \in asking : SameTask(f[r], r) /\ (f[r].shown <=> r.shown)
  BY SendOpens
<1>3. OpenRight'
  <2>1. OpenRight
    BY DEF ShownRight
  <2>2. \A s \in Pg!Opens' : \E r \in Pg!Opens : s = f[r] /\ s.page = r.page
    BY <1>2 DEF Pg!Opens, SameTask
  <2>3. \A r \in Pg!Opens : f[r] \in Pg!Opens'
    BY <1>2 DEF Pg!Opens, SameTask
  <2> QED
    BY <2>1, <2>2, <2>3 DEF OpenRight
<1>4. ASSUME selectedId' \notin crossing' \cup {Pg!None} PROVE SelectedRight(selectedId)'
  <2>1. SelectedRight(selectedId)
    BY <1>1, <1>4 DEF ShownRight
  <2>2. selectedId \in DOMAIN pageRows' \/ \E r \in Pg!Of("remove", selectedId)' : r.at = "answered"
    BY <1>2, <2>1 DEF SelectedRight, Pg!Of, SameTask
  <2>3. \A r \in Pg!Of("remove", selectedId)' : r.shown
    BY <1>2, <2>1 DEF SelectedRight, Pg!Of, SameTask
  <2> QED
    BY <2>2, <2>3 DEF SelectedRight
<1> QED
  BY <1>3, <1>4 DEF ShownRight

LEMMA UserShown ==
  ASSUME TreeLimits, Pg!TypeOK, AllMade, AllListed, ShownRight, ByUser
  PROVE  ShownRight'
<1> SUFFICES ASSUME ~mixture' PROVE ShownRight'
  BY DEF ShownRight
<1>1. CASE Pg!CreateFromTemplate
  <2>1. UNCHANGED <<pageRows, selectedId, active, loadingDoc>> /\ ~mixture
    BY <1>1 DEF Pg!CreateFromTemplate, Pg!table, Pg!page
  <2>2. PICK q : Unsent(q, "create", Pg!None) /\ Pg!SendsDoubting(q, {})
    BY <1>1, Asked
  <2>3. "create" # "open" /\ "create" # "remove"
    OBVIOUS
  <2> QED
    BY <2>1, <2>2, <2>3, SendShown
<1>2. CASE Pg!Rename
  <2>1. UNCHANGED <<pageRows, selectedId, active, loadingDoc>> /\ ~mixture
    BY <1>2 DEF Pg!Rename, Pg!table, Pg!page
  <2>2. PICK q : /\ Unsent(q, "rename", active.id)
                 /\ Pg!SendsDoubting(q, IF selectedId = active.id THEN {} ELSE {selectedId, active.id})
    BY <1>2, Asked
  <2>3. "rename" # "open" /\ "rename" # "remove"
    OBVIOUS
  <2> QED
    BY <2>1, <2>2, <2>3, SendShown
<1>3. ASSUME NEW p \in Pg!Pages, Pg!Select(p) PROVE ShownRight'
  <2>1. /\ Pg!Opens = {} /\ Pg!Of("remove", p) = {} /\ p \in DOMAIN docs /\ selectedId' = p
        /\ UNCHANGED <<pageRows, docs>>
    BY <1>3 DEF Pg!Select, Pg!table
  <2>2. PICK q : Unsent(q, "open", p) /\ Pg!SendsDoubting(q, {})
    BY <1>3, Asked
  <2>3. PICK f, new :
          /\ asking' = {f[r] : r \in asking} \cup {new}
          /\ new.kind = "open" /\ new.page = p /\ new.at = "sent" /\ (new.shown <=> q.shown) /\ new.tags = q.tags
          /\ \A r \in asking : SameTask(f[r], r) /\ (f[r].shown <=> r.shown)
    BY <2>2, SendOpens
  <2>4. Pg!Opens' = {new}
    BY <2>1, <2>3 DEF Pg!Opens, SameTask
  <2>5. Pg!Of("remove", p)' = {}
    BY <2>1, <2>3 DEF Pg!Of, SameTask
  <2>6. ASSUME p \notin crossing' PROVE p \in DOMAIN pageRows'
    <3>1. ListRightOf(p)
      BY <2>2, <2>6 DEF AllListed, Pg!SendsDoubting
    <3>2. \A r \in asking : ~Brings(r, p)
      BY <2>1, <3>1 DEF ListRightOf, NewRight
    <3>3. CASE Pg!Pending(p) = {}
      <4>1. Agree(p)
        BY <3>1, <3>2, <3>3 DEF ListRightOf
      <4> QED
        BY <2>1, <4>1 DEF Agree, SameAt
    <3>4. CASE Pg!Pending(p) # {}
      <4>1. PICK r \in Pg!Pending(p) : Between(r, p)
        BY <3>1, <3>4 DEF ListRightOf
      <4>2. r.kind # "load"
        BY <2>1, <4>1 DEF Between
      <4>3. r.page = p /\ r.kind # "open" /\ r.kind # "remove" /\ r \in asking
        BY <2>1, <4>2 DEF Pg!Pending, Pg!Of
      <4>4. Agree(p) => p \in DOMAIN pageRows
        BY <2>1 DEF Agree, SameAt
      <4>5. r.kind \in {"move", "tags"} => p \in DOMAIN pageRows
        <5>1. r.at \in {"sent", "answered", "refused"}
          BY <4>3 DEF Pg!TypeOK, Pg!Request
        <5> QED
          BY <4>1, <4>4, <5>1 DEF Between, Settled
      <4>6. r.kind = "rename" => p \in DOMAIN pageRows
        <5>1. r.at \in {"sent", "answered", "refused"}
          BY <4>3 DEF Pg!TypeOK, Pg!Request
        <5> QED
          BY <2>1, <4>1, <4>4, <5>1 DEF Between, Settled
      <4>7. r.kind = "duplicate" => p \in DOMAIN pageRows
        BY <4>1, <4>4 DEF Between, Settled
      <4>8. r.kind \in {"move", "tags", "rename", "duplicate"}
        <5>1. r.kind # "create"
          BY <4>3, TopIsNone DEF AllMade, GotMade, GotRight
        <5> QED
          BY <4>2, <4>3, <5>1 DEF Pg!TypeOK, Pg!Request, Pg!Kinds
      <4> QED
        BY <2>1, <4>5, <4>6, <4>7, <4>8
    <3> QED
      BY <3>3, <3>4
  <2>7. OpenRight'
    BY <2>1, <2>3, <2>4 DEF OpenRight
  <2>8. p \notin crossing' => SelectedRight(selectedId)'
    BY <2>1, <2>5, <2>6 DEF SelectedRight
  <2> QED
    BY <2>1, <2>7, <2>8 DEF ShownRight
<1>4. ASSUME NEW p \in Pg!Pages, Pg!Duplicate(p) PROVE ShownRight'
  <2>1. UNCHANGED <<pageRows, selectedId, active, loadingDoc>> /\ ~mixture
    BY <1>4 DEF Pg!Duplicate, Pg!table, Pg!page
  <2>2. PICK q : Unsent(q, "duplicate", p) /\ Pg!SendsDoubting(q, {})
    BY <1>4, Asked
  <2>3. "duplicate" # "open" /\ "duplicate" # "remove"
    OBVIOUS
  <2> QED
    BY <2>1, <2>2, <2>3, SendShown
<1>5. ASSUME NEW p \in Pg!Pages, Pg!Remove(p) PROVE ShownRight'
  <2>1. UNCHANGED <<pageRows, selectedId, active, loadingDoc>> /\ ~mixture
    BY <1>5 DEF Pg!Remove, Pg!table, Pg!page
  <2>2. PICK q : Unsent(q, "remove", p) /\ (q.shown <=> p = selectedId) /\ Pg!SendsDoubting(q, {})
    BY <1>5, Asked
  <2>3. "remove" # "open"
    OBVIOUS
  <2> QED
    BY <2>1, <2>2, <2>3, SendShown
<1>6. ASSUME NEW x \in Pg!Pages, NEW p \in Pg!Pages, Pg!Drop(x, p) PROVE ShownRight'
  <2>1. UNCHANGED <<pageRows, selectedId, active, loadingDoc>> /\ ~mixture
    BY <1>6 DEF Pg!Drop, Pg!table, Pg!page
  <2>2. PICK q : Unsent(q, "move", x) /\ Pg!SendsDoubting(q, {})
    BY <1>6, Asked
  <2>3. "move" # "open" /\ "move" # "remove"
    OBVIOUS
  <2> QED
    BY <2>1, <2>2, <2>3, SendShown
<1>7. ASSUME NEW t \in Tags, Pg!ToggleTag(t) PROVE ShownRight'
  <2>1. UNCHANGED <<pageRows, selectedId, active, loadingDoc>> /\ ~mixture
    BY <1>7 DEF Pg!ToggleTag, Pg!table, Pg!page
  <2>2. PICK q : Unsent(q, "tags", active.id) /\ Pg!SendsDoubting(q, {})
    BY <1>7, Asked
  <2>3. "tags" # "open" /\ "tags" # "remove"
    OBVIOUS
  <2> QED
    BY <2>1, <2>2, <2>3, SendShown
<1> QED
  BY <1>1, <1>2, <1>3, <1>4, <1>5, <1>6, <1>7 DEF ByUser

LEMMA ServerShown ==
  ASSUME TreeLimits, Pg!TypeOK, ShownRight, NEW r \in asking, Pg!Serve(r) \/ Pg!Refuse(r)
  PROVE  ShownRight'
<1>1. UNCHANGED <<selectedId, active, loadingDoc, mixture>> /\ crossing \subseteq crossing' /\ r.at = "sent"
  BY DEF Pg!Serve, Pg!Refuse, Pg!page
<1> SUFFICES ASSUME ~mixture PROVE ShownRight'
  BY <1>1 DEF ShownRight
<1>2. PICK q : /\ asking' = (asking \ {r}) \cup {q} /\ q.kind = r.kind /\ q.page = r.page
               /\ (q.shown <=> r.shown) /\ (q.at # "answered" => Pg!Doubts(r) \subseteq crossing' \/ Pg!Adds(r))
  <2>1. r \in Pg!Request(r.got)
    BY DEF Pg!TypeOK
  <2>2. PICK a, d : a = [r EXCEPT !.at = "answered", !.got = Pg!Answer(r)] /\ d = [r EXCEPT !.at = "refused"]
    OBVIOUS
  <2>3. /\ a.kind = r.kind /\ a.page = r.page /\ a.shown = r.shown /\ a.at = "answered"
        /\ d.kind = r.kind /\ d.page = r.page /\ d.shown = r.shown
    BY <2>1, <2>2 DEF Pg!Request
  <2>4. \/ Pg!Replaces(r, a)
        \/ Pg!Replaces(r, d) /\ (Pg!Doubts(r) \subseteq crossing' \/ Pg!Adds(r))
    BY <2>2 DEF Pg!Serve, Pg!Refuse
  <2> QED
    BY <2>3, <2>4 DEF Pg!Replaces
<1>3. OpenRight'
  <2>1. OpenRight
    BY DEF ShownRight
  <2>2. CASE r.kind = "open"
    <3>1. Pg!Opens = {r}
      BY <2>1, <2>2 DEF OpenRight, Pg!Opens
    <3>2. Pg!Opens' = {q}
      BY <1>2, <2>2, <3>1 DEF Pg!Opens
    <3> QED
      BY <1>1, <1>2, <2>1, <3>1, <3>2 DEF OpenRight
  <2>3. CASE r.kind # "open"
    <3>1. Pg!Opens' = Pg!Opens
      BY <1>2, <2>3 DEF Pg!Opens
    <3> QED
      BY <1>1, <2>1, <3>1 DEF OpenRight
  <2> QED
    BY <2>2, <2>3
<1>4. ASSUME selectedId' \notin crossing' \cup {Pg!None} PROVE SelectedRight(selectedId)'
  <2>1. PICK p : p = selectedId /\ p = selectedId'
    BY <1>1
  <2>2. SelectedRight(p)
    BY <1>1, <1>4, <2>1 DEF ShownRight
  <2>3. DOMAIN pageRows \ (IF r.kind = "remove" THEN {r.page} ELSE {}) \subseteq DOMAIN pageRows'
    BY DEF Pg!Serve, Pg!Refuse, Pg!table, Pg!Written, Pg!Adds
  <2>4. \A s \in Pg!Of("remove", p)' : s.shown
    BY <1>2, <2>2 DEF SelectedRight, Pg!Of
  <2>5. CASE r \in Pg!Of("remove", p)
    <3>1. r.kind = "remove" /\ r.page = p
      BY <2>5 DEF Pg!Of
    <3>2. Pg!Doubts(r) = {p} /\ ~Pg!Adds(r)
      BY <3>1 DEF Pg!Doubts, Pg!Adds
    <3>3. q.at = "answered"
      BY <1>2, <1>4, <2>1, <3>2
    <3>4. q \in Pg!Of("remove", p)'
      BY <1>2, <3>1 DEF Pg!Of
    <3> QED
      BY <2>1, <2>4, <3>3, <3>4 DEF SelectedRight
  <2>6. CASE r \notin Pg!Of("remove", p)
    <3>1. p \in DOMAIN pageRows => p \in DOMAIN pageRows'
      BY <2>3, <2>6 DEF Pg!Of
    <3>2. \A s \in Pg!Of("remove", p) : s \in Pg!Of("remove", p)'
      BY <1>2, <2>6 DEF Pg!Of
    <3>3. p \in DOMAIN pageRows' \/ \E s \in Pg!Of("remove", p)' : s.at = "answered"
      BY <2>2, <3>1, <3>2 DEF SelectedRight
    <3> QED
      BY <2>1, <2>4, <3>3 DEF SelectedRight
  <2> QED
    BY <2>5, <2>6
<1> QED
  BY <1>3, <1>4 DEF ShownRight

\* What opens nothing ends, and it does not close the selected page.
LEMMA EndShown ==
  ASSUME NEW r \in asking, Pg!Ends(r), r.kind # "open", ShownRight, ~mixture,
         UNCHANGED <<pageRows, selectedId, loadingDoc, crossing>>, active'.id = active.id,
         r \in Pg!Of("remove", selectedId) => r.at # "answered" \/ selectedId \in crossing \cup {Pg!None}
  PROVE  ShownRight'
<1>1. Pg!Opens' = Pg!Opens
  BY DEF Pg!Opens, Pg!Ends
<1>2. OpenRight'
  BY <1>1 DEF OpenRight, ShownRight
<1>3. ASSUME selectedId \notin crossing \cup {Pg!None} PROVE SelectedRight(selectedId)'
  <2>1. SelectedRight(selectedId)
    BY <1>3 DEF ShownRight
  <2>2. \A s \in Pg!Of("remove", selectedId)' : s \in Pg!Of("remove", selectedId)
    BY DEF Pg!Of, Pg!Ends
  <2>3. \A s \in Pg!Of("remove", selectedId) : s.at = "answered" => s \in Pg!Of("remove", selectedId)'
    BY <1>3 DEF Pg!Of, Pg!Ends
  <2> QED
    BY <2>1, <2>2, <2>3 DEF SelectedRight
<1> QED
  BY <1>2, <1>3 DEF ShownRight

LEMMA TabShown ==
  ASSUME TreeLimits, Pg!TypeOK, AllMade, AllListed, ShownRight, NEW r \in asking, Pg!Take(r) \/ Pg!Fail(r)
  PROVE  ShownRight'
<1> SUFFICES ASSUME ~mixture' PROVE ShownRight'
  BY DEF ShownRight
<1>1. CASE Pg!TakeLoad(r)
  BY <1>1, EndShown DEF Pg!TakeLoad, Pg!table, Pg!page, Pg!hist, Pg!Of
<1>2. CASE Pg!TakeOpen(r)
  <2>1. /\ r.kind = "open" /\ Pg!Ends(r) /\ ~mixture /\ ~loadingDoc'
        /\ UNCHANGED <<pageRows, selectedId, crossing>> /\ active'.id = r.page
    BY <1>2 DEF Pg!TakeOpen, Pg!table, Pg!hist
  <2>2. Pg!Opens = {r} /\ r.page = selectedId
    BY <2>1 DEF ShownRight, OpenRight, Pg!Opens
  <2>3. Pg!Opens' = {}
    BY <2>1, <2>2 DEF Pg!Opens, Pg!Ends
  <2>4. Pg!Of("remove", selectedId)' = Pg!Of("remove", selectedId)
    BY <2>1 DEF Pg!Of, Pg!Ends
  <2>5. OpenRight'
    BY <2>1, <2>2, <2>3 DEF OpenRight
  <2> QED
    BY <2>1, <2>4, <2>5 DEF ShownRight, SelectedRight
<1>3. CASE Pg!TakeNew(r) /\ r.at = "answered"
  <2>1. PICK n \in Pg!Pages, q \in asking' :
           /\ Brings(r, n) /\ asking' = (asking \ {r}) \cup {q}
           /\ q.kind = "open" /\ q.page = n /\ q.at = "sent"
           /\ selectedId' = n /\ UNCHANGED <<pageRows, active, crossing, tagged>>
           /\ mixture' = (Pg!Opens # {})
    BY <1>3, TakeNewIs DEF AllMade, GotMade
  <2>2. Pg!Opens' = {q}
    BY <2>1 DEF Pg!Opens
  <2>3. ASSUME n \notin crossing PROVE SelectedRight(n)'
    <3>1. NewRight(r, n)
      BY <2>1, <2>3 DEF AllListed, ListRightOf
    <3>2. Pg!Of("remove", n)' = {}
      BY <2>1, <3>1 DEF NewRight, Pg!Of
    <3> QED
      BY <2>1, <3>1, <3>2 DEF NewRight, SelectedRight
  <2> QED
    BY <2>1, <2>2, <2>3 DEF ShownRight, OpenRight
<1>4. CASE Pg!TakeRemoved(r)
  <2>1. r.kind = "remove" /\ Pg!Ends(r) /\ UNCHANGED <<pageRows, loadingDoc, crossing>>
    BY <1>4 DEF Pg!TakeRemoved, Pg!table
  <2>2. CASE r.shown
    <3>0. selectedId' = Pg!None /\ active' = Pg!NoDoc /\ mixture' = (mixture \/ Pg!Opens # {})
      BY <1>4, <2>2 DEF Pg!TakeRemoved
    <3>1. selectedId' = Pg!None /\ active'.id = Pg!None /\ ~mixture /\ Pg!Opens = {}
      BY <3>0 DEF Pg!NoDoc
    <3>2. Pg!Opens' = {} /\ ~loadingDoc
      BY <2>1, <3>1 DEF Pg!Opens, Pg!Ends, ShownRight, OpenRight
    <3> QED
      BY <2>1, <3>1, <3>2 DEF ShownRight, OpenRight
  <2>3. CASE ~r.shown
    <3>1. UNCHANGED <<selectedId, active, mixture>>
      BY <1>4, <2>3 DEF Pg!TakeRemoved
    <3>2. r \in Pg!Of("remove", selectedId) => selectedId \in crossing \cup {Pg!None}
      BY <2>3, <3>1 DEF ShownRight, SelectedRight
    <3> QED
      BY <2>1, <3>1, <3>2, EndShown
  <2> QED
    BY <2>2, <2>3
<1>5. CASE Pg!TakeMoved(r)
  BY <1>5, EndShown DEF Pg!TakeMoved, Pg!table, Pg!page, Pg!hist, Pg!Of
<1>6. CASE Pg!TakeTags(r)
  <2>1. active'.id = active.id
    BY <1>6 DEF Pg!TakeTags, Pg!TypeOK
  <2> QED
    BY <1>6, <2>1, EndShown DEF Pg!TakeTags, Pg!table, Pg!Of
<1>7. CASE r.kind = "rename" /\ Pg!Ends(r) /\ UNCHANGED <<Pg!table, docs, Pg!page, Pg!hist>>
  BY <1>7, EndShown DEF Pg!table, Pg!page, Pg!hist, Pg!Of
<1>8. CASE Pg!Fail(r)
  <2>1. r.kind # "open" /\ ~mixture
    BY <1>8 DEF Pg!Fail
  <2> QED
    BY <1>8, <2>1, EndShown DEF Pg!Fail, Pg!table
<1> QED
  BY <1>1, <1>2, <1>3, <1>4, <1>5, <1>6, <1>7, <1>8 DEF Pg!Take

LEMMA LocalShown ==
  ASSUME ShownRight, NoRequest
  PROVE  ShownRight'
<1> SUFFICES ASSUME ~mixture' PROVE ShownRight'
  BY DEF ShownRight
<1>1. UNCHANGED <<pageRows, loadingDoc, asking, crossing>> /\ Pg!Opens' = Pg!Opens
  BY DEF NoRequest, Pg!Back, Pg!CloseTemplatePicker, Pg!OpenTemplatePicker, Pg!table, Pg!page, Pg!hist, Pg!Opens
<1>2. CASE Pg!Back
  <2>1. selectedId' = Pg!None /\ active'.id = Pg!None /\ ~mixture /\ Pg!Opens = {}
    BY <1>2 DEF Pg!Back, Pg!NoDoc
  <2> QED
    BY <1>1, <2>1 DEF ShownRight, OpenRight
<1>3. CASE UNCHANGED <<selectedId, active, mixture>>
  BY <1>1, <1>3 DEF ShownRight, OpenRight, SelectedRight, Pg!Of
<1> QED
  BY <1>2, <1>3 DEF NoRequest, Pg!CloseTemplatePicker, Pg!OpenTemplatePicker, Pg!page, Pg!hist
-----------------------------------------------------------------------------
(* The tags of a page are the ones that were chosen.                       *)

\* A request that is sent, but for the tags of p and beside none of them.
LEMMA SendTagged ==
  ASSUME Pg!TypeOK, NEW q, NEW doubted, NEW kind, NEW pg, Unsent(q, kind, pg), Pg!SendsDoubting(q, doubted),
         UNCHANGED <<pageRows, active>>, NEW p, TagsRight(p), tagged'[p] = tagged[p],
         kind = "tags" => pg # p, kind = "open" /\ pg = p => Pg!Of("tags", p) = {}
  PROVE  TagsRight(p)'
<1>1. PICK f, new :
        /\ asking' = {f[r] : r \in asking} \cup {new}
        /\ new.kind = kind /\ new.page = pg /\ new.at = "sent" /\ (new.shown <=> q.shown) /\ new.tags = q.tags
        /\ \A r \in asking : SameTask(f[r], r) /\ (f[r].shown <=> r.shown)
  BY SendOpens
<1>2. \A s \in Pg!Of("tags", p)' : \E r \in Pg!Of("tags", p) : s = f[r] /\ s.at = r.at /\ s.tags = r.tags
  BY <1>1 DEF Pg!Of, SameTask
<1>3. \A r \in Pg!Of("tags", p) : f[r] \in Pg!Of("tags", p)' /\ f[r].at = r.at
  BY <1>1 DEF Pg!Of, SameTask
<1>4. \A s \in Pg!Of("open", p)' :
        \/ s.at = "sent" /\ Pg!Of("tags", p) = {}
        \/ \E r \in Pg!Of("open", p) : s.at = r.at /\ s.got = r.got
  BY <1>1 DEF Pg!Of, SameTask
<1>5. Pg!Of("tags", p)' = {} <=> Pg!Of("tags", p) = {}
  BY <1>2, <1>3
<1>6. \A r, s \in Pg!Of("tags", p)' : r = s
  BY <1>2 DEF TagsRight
<1>7. \A r \in Pg!Of("tags", p)' : r.tags = tagged'[p] /\ r.at # "refused"
  BY <1>2 DEF TagsRight
<1>8. p \in DOMAIN pageRows' /\ (\A r \in Pg!Of("tags", p)' : r.at # "sent") => pageRows'[p].tags = tagged'[p]
  BY <1>3 DEF TagsRight
<1>9. active'.id = p /\ Pg!Of("tags", p)' = {} => active'.tags = tagged'[p]
  BY <1>5 DEF TagsRight
<1>10. \A r \in Pg!Of("open", p)' : /\ Pg!Of("tags", p)' = {}
                                    /\ r.at = "answered" => r.got[p].tags = tagged'[p]
  BY <1>4, <1>5 DEF TagsRight
<1> QED
  BY <1>6, <1>7, <1>8, <1>9, <1>10 DEF TagsRight

LEMMA UserTagged ==
  ASSUME TreeLimits, Pg!TypeOK, AllTagged, ByUser
  PROVE  AllTagged'
<1>1. muddled \subseteq muddled' /\ UNCHANGED <<pageRows, active>>
  BY DEF ByUser, Pg!CreateFromTemplate, Pg!Rename, Pg!Select, Pg!Duplicate, Pg!Remove, Pg!Drop, Pg!ToggleTag,
         Pg!table, Pg!page
<1> SUFFICES ASSUME NEW p \in Pg!Pages \ muddled' PROVE TagsRight(p)'
  BY DEF AllTagged
<1>2. TagsRight(p)
  BY <1>1 DEF AllTagged
<1>3. ASSUME UNCHANGED tagged, NEW kind, NEW pg, NEW q, NEW doubted, Unsent(q, kind, pg),
             Pg!SendsDoubting(q, doubted), kind # "tags", kind # "open"
      PROVE  TagsRight(p)'
  BY <1>1, <1>2, <1>3, SendTagged
<1>4. CASE Pg!CreateFromTemplate
  <2>1. UNCHANGED tagged /\ "create" # "tags" /\ "create" # "open"
    BY <1>4 DEF Pg!CreateFromTemplate
  <2> QED
    BY <1>3, <1>4, <2>1, Asked
<1>5. CASE Pg!Rename
  <2>1. UNCHANGED tagged /\ "rename" # "tags" /\ "rename" # "open"
    BY <1>5 DEF Pg!Rename
  <2> QED
    BY <1>3, <1>5, <2>1, Asked
<1>6. ASSUME NEW x \in Pg!Pages, Pg!Select(x) PROVE TagsRight(p)'
  <2>1. UNCHANGED tagged /\ (x = p => Pg!Of("tags", p) = {}) /\ "open" # "tags"
    BY <1>6 DEF Pg!Select
  <2>2. PICK q : Unsent(q, "open", x) /\ Pg!SendsDoubting(q, {})
    BY <1>6, Asked
  <2> QED
    BY <1>1, <1>2, <2>1, <2>2, SendTagged
<1>7. ASSUME NEW x \in Pg!Pages, Pg!Duplicate(x) PROVE TagsRight(p)'
  <2>1. UNCHANGED tagged /\ "duplicate" # "tags" /\ "duplicate" # "open"
    BY <1>7 DEF Pg!Duplicate
  <2> QED
    BY <1>3, <1>7, <2>1, Asked
<1>8. ASSUME NEW x \in Pg!Pages, Pg!Remove(x) PROVE TagsRight(p)'
  <2>1. UNCHANGED tagged /\ "remove" # "tags" /\ "remove" # "open"
    BY <1>8 DEF Pg!Remove
  <2> QED
    BY <1>3, <1>8, <2>1, Asked
<1>9. ASSUME NEW x \in Pg!Pages, NEW y \in Pg!Pages, Pg!Drop(x, y) PROVE TagsRight(p)'
  <2>1. UNCHANGED tagged /\ "move" # "tags" /\ "move" # "open"
    BY <1>9 DEF Pg!Drop
  <2> QED
    BY <1>3, <1>9, <2>1, Asked
<1>10. ASSUME NEW t \in Tags, Pg!ToggleTag(t) PROVE TagsRight(p)'
  <2>1. PICK q : Unsent(q, "tags", active.id) /\ q.tags = Pg!Toggled(active.tags, t) /\ Pg!SendsDoubting(q, {})
    BY <1>10, Asked
  <2>2. CASE active.id # p
    <3>1. tagged'[p] = tagged[p] /\ "tags" # "open"
      BY <1>10, <2>2 DEF Pg!ToggleTag, Pg!TypeOK
    <3> QED
      BY <1>1, <1>2, <2>1, <2>2, <3>1, SendTagged
  <2>3. CASE active.id = p
    <3>1. Pg!Of("tags", p) = {} /\ Pg!Of("open", p) = {}
      BY <1>10, <2>3 DEF Pg!ToggleTag
    <3>2. tagged'[p] = Pg!Toggled(tagged[p], t)
      BY <1>10, <2>3 DEF Pg!ToggleTag, Pg!TypeOK
    <3>3. q.tags = tagged'[p]
      BY <1>2, <2>1, <2>3, <3>1, <3>2 DEF TagsRight
    <3>4. PICK f, new :
            /\ asking' = {f[r] : r \in asking} \cup {new}
            /\ new.kind = "tags" /\ new.page = active.id /\ new.at = "sent" /\ (new.shown <=> q.shown)
            /\ new.tags = q.tags
            /\ \A r \in asking : SameTask(f[r], r) /\ (f[r].shown <=> r.shown)
      BY <2>1, SendOpens
    <3>5. Pg!Of("tags", p)' = {new}
      BY <2>3, <3>1, <3>4 DEF Pg!Of, SameTask
    <3>6. Pg!Of("open", p)' = {}
      BY <3>1, <3>4 DEF Pg!Of, SameTask
    <3> QED
      BY <3>3, <3>4, <3>5, <3>6 DEF TagsRight
  <2> QED
    BY <2>2, <2>3
<1> QED
  BY <1>4, <1>5, <1>6, <1>7, <1>8, <1>9, <1>10 DEF ByUser

\* The tags that are written are those of the request.
LEMMA ServeTags ==
  ASSUME TreeLimits, Pg!TypeOK, Pg!TypeOK', MadeSoFar, AllMade, NEW r \in asking, Pg!Serve(r),
         NEW p \in Pg!Pages, Pg!Adds(r) => p # pagesMade + 1, p \in DOMAIN pageRows'
  PROVE  /\ p \in DOMAIN pageRows /\ tagged'[p] = tagged[p]
         /\ pageRows'[p].tags = IF r \in Pg!Of("tags", p) THEN r.tags ELSE pageRows[p].tags
<1>1. tagged'[p] = tagged[p]
  BY WrittenIs DEF Pg!Serve, Pg!Adds, Pg!TypeOK
<1>2. pageRows \in [DOMAIN pageRows -> Pg!Row] /\ r.tags \in SUBSET Tags /\ r.kind \in Pg!Kinds
  BY DEF Pg!TypeOK, Pg!IsTable, Pg!Request
<1>3. CASE Pg!Adds(r)
  <2>1. p \in DOMAIN pageRows /\ pageRows'[p] = pageRows[p]
    BY <1>3, WrittenIs
  <2> QED
    BY <1>1, <1>3, <2>1 DEF Pg!Adds, Pg!Of
<1>4. CASE r.kind \in {"load", "open"}
  BY <1>1, <1>4, WrittenIs DEF Pg!Of
<1>5. CASE r.kind = "remove"
  BY <1>1, <1>5, WrittenIs DEF Pg!Of
<1>6. CASE r.kind \in {"move", "rename", "tags"}
  <2>1. p \in DOMAIN pageRows /\ (p # r.page => pageRows'[p] = pageRows[p])
    BY <1>6, WrittenIs
  <2>2. pageRows[p] \in Pg!Row
    BY <1>2, <2>1
  <2>3. ASSUME r.kind = "move", p = r.page PROVE pageRows'[p].tags = pageRows[p].tags
    <3>1. pageRows'[p] = [pageRows[p] EXCEPT !.parent = r.parent]
      BY <2>3, WrittenIs
    <3> QED
      BY <2>2, <3>1 DEF Pg!Row
  <2>4. ASSUME r.kind = "rename", p = r.page PROVE pageRows'[p].tags = pageRows[p].tags
    <3>1. pageRows'[p] = [pageRows[p] EXCEPT !.title = "renamed"]
      BY <2>4, WrittenIs
    <3> QED
      BY <2>2, <3>1 DEF Pg!Row
  <2>5. ASSUME r.kind = "tags", p = r.page PROVE pageRows'[p].tags = r.tags
    <3>1. pageRows'[p] = [pageRows[p] EXCEPT !.tags = r.tags]
      BY <2>5, WrittenIs
    <3> QED
      BY <2>2, <3>1 DEF Pg!Row
  <2> QED
    BY <1>1, <1>6, <2>1, <2>3, <2>4, <2>5 DEF Pg!Of
<1> QED
  BY <1>2, <1>3, <1>4, <1>5, <1>6 DEF Pg!Adds, Pg!Kinds

LEMMA ServerTagged ==
  ASSUME TreeLimits, Pg!TypeOK, Pg!TypeOK', MadeSoFar, AllMade, AllTagged,
         NEW r \in asking, Pg!Serve(r) \/ Pg!Refuse(r)
  PROVE  AllTagged'
<1>1. /\ r \in Pg!Request(r.got) /\ r.at = "sent" /\ UNCHANGED active /\ muddled \subseteq muddled'
  BY DEF Pg!Serve, Pg!Refuse, Pg!page, Pg!TypeOK
<1> SUFFICES ASSUME NEW p \in Pg!Pages \ muddled' PROVE TagsRight(p)'
  BY DEF AllTagged
<1>2. TagsRight(p)
  BY <1>1 DEF AllTagged
<1>3. PICK q : /\ asking' = (asking \ {r}) \cup {q} /\ q.kind = r.kind /\ q.page = r.page /\ q.tags = r.tags
               /\ \/ q.at = "answered" /\ q.got = Pg!Answer(r) /\ Pg!Serve(r)
                  \/ q.at = "refused" /\ (r.kind = "tags" => r.page # p)
  <2>1. PICK a, d : a = [r EXCEPT !.at = "answered", !.got = Pg!Answer(r)] /\ d = [r EXCEPT !.at = "refused"]
    OBVIOUS
  <2>2. /\ a.kind = r.kind /\ a.page = r.page /\ a.tags = r.tags /\ a.at = "answered" /\ a.got = Pg!Answer(r)
        /\ d.kind = r.kind /\ d.page = r.page /\ d.tags = r.tags /\ d.at = "refused"
    BY <1>1, <2>1 DEF Pg!Request
  <2>3. \/ Pg!Replaces(r, a) /\ Pg!Serve(r)
        \/ Pg!Replaces(r, d) /\ (r.kind = "tags" => r.page \in muddled')
    BY <2>1 DEF Pg!Serve, Pg!Refuse
  <2> QED
    BY <2>2, <2>3 DEF Pg!Replaces
<1>4. CASE Pg!Serve(r) /\ Pg!Adds(r) /\ p = pagesMade + 1
  <2>1. ~(p <= pagesMade)
    BY <1>4 DEF Pg!TypeOK
  <2>2. active.id # p /\ tagged[p] = {} /\ \A s \in asking : s.page # p
    BY <2>1 DEF MadeSoFar, AllMade, GotMade, Made, Pg!TypeOK, Pg!Pages
  <2>3. Pg!Of("tags", p)' = {} /\ Pg!Of("open", p)' = {}
    BY <1>3, <2>2 DEF Pg!Of
  <2>4. pageRows'[p] = Pg!NewRow(r) /\ pagesMade' = p
    BY <1>4, WrittenIs
  <2>5. pageRows'[p].tags = tagged'[p]
    <3>1. CASE r.kind = "create"
      BY <1>4, <2>2, <2>4, <3>1 DEF Pg!NewRow, Pg!Serve
    <3>2. CASE r.kind = "duplicate"
      BY <1>4, <2>4, <3>2 DEF Pg!NewRow, Pg!Serve, Pg!TypeOK
    <3> QED
      BY <1>4, <3>1, <3>2 DEF Pg!Adds
  <2> QED
    BY <1>1, <2>2, <2>3, <2>5 DEF TagsRight
<1>5. ASSUME ~(Pg!Serve(r) /\ Pg!Adds(r) /\ p = pagesMade + 1) PROVE TagsRight(p)'
  <2>1. tagged'[p] = tagged[p]
    BY <1>5, WrittenIs DEF Pg!Serve, Pg!Refuse, Pg!Adds, Pg!TypeOK
  <2>2. p \in DOMAIN pageRows' =>
           /\ p \in DOMAIN pageRows
           /\ pageRows'[p].tags = IF Pg!Serve(r) /\ r \in Pg!Of("tags", p) THEN r.tags ELSE pageRows[p].tags
    <3>1. CASE Pg!Serve(r)
      BY <1>5, <3>1, ServeTags
    <3>2. CASE Pg!Refuse(r) /\ ~Pg!Serve(r)
      BY <3>2 DEF Pg!Refuse, Pg!table
    <3> QED
      BY <3>1, <3>2
  <2>3. CASE r \in Pg!Of("tags", p)
    <3>1. Pg!Of("tags", p) = {r} /\ Pg!Of("open", p) = {} /\ r.tags = tagged[p] /\ r.kind = "tags" /\ r.page = p
      BY <1>2, <2>3 DEF TagsRight, Pg!Of
    <3>2. q.at = "answered" /\ Pg!Serve(r)
      BY <1>3, <3>1
    <3>3. Pg!Of("tags", p)' = {q}
      BY <1>3, <3>1 DEF Pg!Of
    <3>4. Pg!Of("open", p)' = {}
      BY <1>3, <3>1 DEF Pg!Of
    <3> QED
      BY <1>3, <2>1, <2>2, <2>3, <3>1, <3>2, <3>3, <3>4 DEF TagsRight
  <2>4. CASE r \notin Pg!Of("tags", p)
    <3>1. Pg!Of("tags", p)' = Pg!Of("tags", p)
      BY <1>3, <2>4 DEF Pg!Of
    <3>2. ASSUME NEW s \in Pg!Of("open", p)'
          PROVE  Pg!Of("tags", p) = {} /\ (s.at = "answered" => s.got[p].tags = tagged[p])
      <4>1. CASE s # q
        BY <1>2, <1>3, <3>2, <4>1 DEF TagsRight, Pg!Of
      <4>2. CASE s = q
        <5>1. r \in Pg!Of("open", p)
          BY <1>3, <3>2, <4>2 DEF Pg!Of
        <5>2. Pg!Of("tags", p) = {}
          BY <1>2, <5>1 DEF TagsRight
        <5>3. ASSUME s.at = "answered" PROVE s.got[p].tags = tagged[p]
          <6>1. q.got = Pg!Answer(r) /\ Pg!Serve(r) /\ r.kind = "open" /\ r.page = p
            BY <1>3, <4>2, <5>1, <5>3 DEF Pg!Of
          <6>2. p \in DOMAIN pageRows
            BY <6>1 DEF Pg!Serve
          <6>3. q.got[p] = pageRows[p]
            BY <6>1 DEF Pg!Answer, Pg!Adds
          <6>4. pageRows[p].tags = tagged[p]
            BY <1>2, <5>2, <6>2 DEF TagsRight
          <6> QED
            BY <4>2, <6>3, <6>4
        <5> QED
          BY <5>2, <5>3
      <4> QED
        BY <4>1, <4>2
    <3>3. p \in DOMAIN pageRows' => p \in DOMAIN pageRows /\ pageRows'[p].tags = pageRows[p].tags
      BY <2>2, <2>4
    <3> QED
      BY <1>1, <1>2, <2>1, <3>1, <3>2, <3>3 DEF TagsRight
  <2> QED
    BY <2>3, <2>4
<1> QED
  BY <1>4, <1>5

\* What is not about the tags of p ends, and a page may be asked for.
LEMMA EndTagged ==
  ASSUME NEW r \in asking, NEW p, TagsRight(p), UNCHANGED <<pageRows, tagged>>, r \notin Pg!Of("tags", p),
         asking \ {r} \subseteq asking',
         \A s \in asking' \ asking : s.kind = "open" /\ s.at = "sent" /\ (s.page = p => Pg!Of("tags", p) = {}),
         active'.id = p /\ Pg!Of("tags", p) = {} => active'.tags = tagged[p]
  PROVE  TagsRight(p)'
<1>1. Pg!Of("tags", p)' = Pg!Of("tags", p)
  BY DEF Pg!Of
<1>2. \A s \in Pg!Of("open", p)' : s \in Pg!Of("open", p) \/ (s.at = "sent" /\ Pg!Of("tags", p) = {})
  BY DEF Pg!Of
<1> QED
  BY <1>1, <1>2 DEF TagsRight

LEMMA TabTagged ==
  ASSUME TreeLimits, Pg!TypeOK, AllMade, AllTagged, NEW r \in asking, Pg!Take(r) \/ Pg!Fail(r)
  PROVE  AllTagged'
<1>1. UNCHANGED <<pageRows, tagged>> /\ muddled \subseteq muddled'
  BY DEF Pg!Take, Pg!Fail, Pg!TakeLoad, Pg!TakeOpen, Pg!TakeNew, Pg!TakeRemoved, Pg!TakeMoved, Pg!TakeTags,
         Pg!table, Pg!hist
<1> SUFFICES ASSUME NEW p \in Pg!Pages \ muddled' PROVE TagsRight(p)'
  BY DEF AllTagged
<1>2. TagsRight(p) /\ p # Pg!None
  BY <1>1, TopIsNone DEF AllTagged
<1>3. Pg!Ends(r) => asking \ {r} \subseteq asking' /\ asking' \ asking = {}
  BY DEF Pg!Ends
<1>4. active.id = p /\ Pg!Of("tags", p) = {} => active.tags = tagged[p]
  BY <1>2 DEF TagsRight
<1>5. ASSUME Pg!Ends(r), r \notin Pg!Of("tags", p), active' = active \/ active'.id # p
      PROVE  TagsRight(p)'
  BY <1>1, <1>2, <1>3, <1>4, <1>5, EndTagged
<1>6. CASE Pg!TakeLoad(r)
  BY <1>5, <1>6 DEF Pg!TakeLoad, Pg!page, Pg!Of
<1>7. CASE Pg!TakeOpen(r) /\ r.at = "answered"
  <2>1. Pg!Ends(r) /\ active'.id = r.page /\ active'.tags = r.got[r.page].tags /\ r \notin Pg!Of("tags", p)
    BY <1>7 DEF Pg!TakeOpen, Pg!Of
  <2>2. r.page = p => r.got[p].tags = tagged[p]
    BY <1>2, <1>7 DEF TagsRight, Pg!Of, Pg!TakeOpen
  <2> QED
    BY <1>1, <1>2, <1>3, <2>1, <2>2, EndTagged
<1>8. CASE Pg!TakeNew(r) /\ r.at = "answered"
  <2>0. GotRight(r) /\ Pg!TakeNew(r) /\ r.at = "answered"
    BY <1>8 DEF AllMade, GotMade
  <2>1. PICK n \in Pg!Pages, q \in asking' :
           /\ asking' = (asking \ {r}) \cup {q} /\ q.kind = "open" /\ q.page = n /\ q.at = "sent"
           /\ UNCHANGED active
           /\ muddled' = IF Pg!Of("tags", n) # {} THEN muddled \cup {n} ELSE muddled
    BY <2>0, TakeNewIs
  <2>2. n = p => Pg!Of("tags", p) = {}
    BY <2>1
  <2>3. r \notin Pg!Of("tags", p)
    BY <1>8 DEF Pg!TakeNew, Pg!Adds, Pg!Of
  <2> QED
    BY <1>1, <1>2, <1>4, <2>1, <2>2, <2>3, EndTagged
<1>9. CASE Pg!TakeRemoved(r)
  <2>1. active' = active \/ active'.id # p
    BY <1>2, <1>9 DEF Pg!TakeRemoved, Pg!NoDoc
  <2> QED
    BY <1>5, <1>9, <2>1 DEF Pg!TakeRemoved, Pg!Of
<1>10. CASE Pg!TakeMoved(r)
  BY <1>5, <1>10 DEF Pg!TakeMoved, Pg!page, Pg!Of
<1>11. CASE Pg!TakeTags(r) /\ r.at = "answered"
  <2>1. active'.id = active.id /\ (active.id # Pg!None => active'.tags = r.tags)
    BY <1>11 DEF Pg!TakeTags, Pg!TypeOK
  <2>2. CASE r.page = p
    <3>1. r \in Pg!Of("tags", p)
      BY <1>11, <2>2 DEF Pg!TakeTags, Pg!Of
    <3>2. Pg!Of("tags", p) = {r} /\ Pg!Of("open", p) = {} /\ r.tags = tagged[p]
      BY <1>2, <3>1 DEF TagsRight
    <3>3. Pg!Of("tags", p)' = {} /\ Pg!Of("open", p)' = {}
      BY <1>11, <3>2 DEF Pg!TakeTags, Pg!Ends, Pg!Of
    <3>4. p \in DOMAIN pageRows => pageRows[p].tags = tagged[p]
      BY <1>2, <1>11, <3>2 DEF TagsRight
    <3> QED
      BY <1>1, <1>2, <2>1, <3>2, <3>3, <3>4 DEF TagsRight
  <2>3. CASE r.page # p
    <3>1. active.id # p
      BY <1>2, <1>11, <2>3 DEF Pg!TakeTags
    <3> QED
      BY <1>5, <1>11, <2>1, <2>3, <3>1 DEF Pg!TakeTags, Pg!Of
  <2> QED
    BY <2>2, <2>3
<1>12. CASE r.kind = "rename" /\ Pg!Ends(r) /\ UNCHANGED active
  BY <1>5, <1>12 DEF Pg!Of
<1>13. CASE Pg!Fail(r)
  <2>1. r \notin Pg!Of("tags", p)
    BY <1>2, <1>13 DEF TagsRight, Pg!Fail
  <2> QED
    BY <1>5, <1>13, <2>1 DEF Pg!Fail
<1> QED
  BY <1>6, <1>7, <1>8, <1>9, <1>10, <1>11, <1>12, <1>13 DEF Pg!Take, Pg!page

LEMMA LocalTagged ==
  ASSUME AllTagged, NoRequest
  PROVE  AllTagged'
<1>1. UNCHANGED <<pageRows, asking, tagged, muddled>>
  BY DEF NoRequest, Pg!Back, Pg!CloseTemplatePicker, Pg!OpenTemplatePicker, Pg!table, Pg!page, Pg!hist
<1>2. active' = active \/ active' = Pg!NoDoc
  BY DEF NoRequest, Pg!Back, Pg!CloseTemplatePicker, Pg!OpenTemplatePicker, Pg!page
<1> SUFFICES ASSUME NEW p \in Pg!Pages \ muddled PROVE TagsRight(p)'
  BY <1>1 DEF AllTagged
<1>3. TagsRight(p) /\ p # Pg!None
  BY TopIsNone DEF AllTagged
<1>4. active'.id = p => active' = active
  BY <1>2, <1>3 DEF Pg!NoDoc
<1> QED
  BY <1>1, <1>3, <1>4 DEF TagsRight, Pg!Of
-----------------------------------------------------------------------------
(* The invariant.                                                          *)

LEMMA TreeInit ==
  ASSUME TreeLimits, Pg!Init
  PROVE  TreeInv
<1>1. 1 \in Pg!Pages /\ 2 \in Pg!Pages /\ 1 # Pg!None /\ 2 # Pg!None /\ Pg!None = 0 /\ MaxPages \in Nat
  BY DEF TreeLimits, Pg!Pages, Pg!None
<1>2. pageRows \in [1 .. 2 -> Pg!Row] /\ pageRows[1].parent = Pg!None /\ pageRows[2].parent = 1
      /\ \A p \in 1 .. 2 : pageRows[p].tags = {}
  <2>1. \A p \in 1 .. 2 : [parent |-> p - 1, title |-> "first", tags |-> {}] \in Pg!Row
    BY <1>1 DEF Pg!Row
  <2> QED
    BY <1>1, <2>1 DEF Pg!Init
<1>3. Pg!IsTable(pageRows) /\ DOMAIN pageRows = 1 .. 2
  BY <1>1, <1>2 DEF Pg!IsTable
<1>4. /\ active.id = Pg!None /\ active.tags = {} /\ selectedId = Pg!None /\ ~loadingDoc /\ pagesMade = 2
      /\ active \in [id : Pg!Pages \cup {Pg!None}, tags : SUBSET Tags]
  BY DEF Pg!Init, Pg!NoDoc
<1>5. \/ issued = 0 /\ docs = pageRows /\ asking = {}
      \/ issued = 1 /\ docs = << >> /\ \E q : asking = {q} /\ Unsent(q, "load", Pg!None)
  <2>1. CASE issued = 1 /\ docs = << >> /\ asking = {[Pg!Ask("load", Pg!None) EXCEPT !.n = 1]}
    <3>1. PICK a, q : a = Pg!Ask("load", Pg!None) /\ q = [a EXCEPT !.n = 1]
      OBVIOUS
    <3>2. PICK b \in BOOLEAN : b <=> Pg!None \in Pg!Pages \cap {selectedId}
      OBVIOUS
    <3>3. (Pg!None \in Pg!Pages \cap {selectedId}) = b
      BY <3>2
    <3>4. a = [n |-> issued + 1, kind |-> "load", page |-> Pg!None, parent |-> Pg!None, tags |-> {},
               shown |-> b, at |-> "sent", got |-> << >>, blind |-> FALSE]
      BY <3>1, <3>3 DEF Pg!Ask
    <3>5. "load" \in Pg!Kinds
      BY DEF Pg!Kinds
    <3>6. a \in [n : {issued + 1}, kind : Pg!Kinds, page : Pg!Pages \cup {Pg!None},
                 parent : Pg!Pages \cup {Pg!None}, tags : SUBSET Tags, shown : BOOLEAN,
                 at : {"sent", "answered", "refused"}, blind : BOOLEAN, got : {<< >>}]
      BY <3>2, <3>4, <3>5
    <3>7. q.got = << >> /\ q \in Pg!Request(<< >>)
      BY <3>1, <3>6 DEF Pg!Request, TreeLimits
    <3>8. Unsent(q, "load", Pg!None)
      <4>1. a.at = "sent" /\ a.kind = "load" /\ a.page = Pg!None
        BY <3>4
      <4>2. q.at = "sent" /\ q.kind = "load" /\ q.page = Pg!None
        BY <3>1, <3>6, <4>1
      <4> QED
        BY <3>7, <4>2, NothingIsTable DEF Unsent
    <3> QED
      BY <2>1, <3>1, <3>8
  <2> QED
    BY <2>1 DEF Pg!Init
<1>6. \A r \in asking : Unsent(r, "load", Pg!None)
  BY <1>5
<1>7. Pg!TypeOK
  <2>1. Pg!IsTable(docs) /\ issued \in 0 .. PageRequests
    BY <1>3, <1>5, NothingIsTable DEF TreeLimits
  <2>2. \A r \in asking : Pg!IsTable(r.got) /\ r \in Pg!Request(r.got)
    BY <1>6 DEF Unsent
  <2>3. tagged \in [Pg!Pages -> SUBSET Tags] /\ trouble \in 0 .. PageFaults /\ pagesMade \in 0 .. MaxPages
    BY <1>4 DEF Pg!Init, TreeLimits
  <2> QED
    BY <1>3, <1>4, <2>1, <2>2, <2>3 DEF Pg!Init, Pg!TypeOK
<1>8. MadeSoFar
  <2>1. DOMAIN docs \subseteq 1 .. 2
    BY <1>3, <1>5, NothingIsTable
  <2>2. \A p \in 0 .. 2 : Made(p)
    BY <1>4 DEF Made
  <2>3. \A p \in Pg!Pages : tagged[p] = {}
    BY DEF Pg!Init
  <2> QED
    BY <1>1, <1>3, <1>4, <2>1, <2>2, <2>3 DEF MadeSoFar, Pg!Init
<1>9. AllMade
  <2>1. Made(Pg!None)
    BY TopIsNone DEF Made
  <2> QED
    BY <1>6, <2>1 DEF AllMade, GotMade, GotRight, Unsent
<1>10. AllSeen
  <2>1. \A r, s \in asking : r = s
    BY <1>5
  <2> QED
    BY <1>6, <2>1 DEF AllSeen, SeenRight, InReach, Unsent
<1>11. Pg!PagesReachable
  <2>1. 1 \in Pg!Shown(pageRows)
    BY <1>1, <1>2, <1>3, ShownIn DEF Pg!IsTable
  <2>2. 2 \in Pg!Shown(pageRows)
    BY <1>1, <1>2, <1>3, <2>1, ShownIn DEF Pg!IsTable
  <2> QED
    BY <1>3, <2>1, <2>2 DEF Pg!PagesReachable, Pg!Hidden
<1>12. AllListed
  <2> SUFFICES ASSUME NEW p \in Pg!Pages PROVE ListRightOf(p)
    BY DEF AllListed
  <2>1. \A r \in asking : ~Brings(r, p)
    BY <1>6 DEF Brings, Unsent
  <2>2. \A r, s \in Pg!Pending(p) : r = s
    BY <1>5 DEF Pg!Pending
  <2>3. \A r \in Pg!Pending(p) : Between(r, p)
    <3>1. ASSUME NEW r \in Pg!Pending(p) PROVE Between(r, p)
      <4>1. r \in asking
        BY DEF Pg!Pending
      <4>2. docs = << >> /\ r.kind = "load" /\ r.at = "sent"
        BY <1>5, <1>6, <4>1 DEF Unsent
      <4> QED
        BY <4>2, NothingIsTable DEF Between, Settled
    <3> QED
      BY <3>1
  <2>4. Pg!Pending(p) = {} => Agree(p)
    <3>1. CASE docs = pageRows
      BY <3>1 DEF Agree, SameAt
    <3>2. CASE \E q : asking = {q} /\ Unsent(q, "load", Pg!None)
      BY <3>2 DEF Pg!Pending, Unsent
    <3> QED
      BY <1>5, <3>1, <3>2
  <2> QED
    BY <2>1, <2>2, <2>3, <2>4 DEF ListRightOf
<1>15. AllNamed
  BY DEF AllNamed, Pg!Init
<1>13. ShownRight
  <2>1. Pg!Opens = {}
    BY <1>6 DEF Pg!Opens, Unsent
  <2> QED
    BY <1>4, <2>1 DEF ShownRight, OpenRight
<1>14. AllTagged
  <2> SUFFICES ASSUME NEW p \in Pg!Pages PROVE TagsRight(p)
    BY DEF AllTagged
  <2>1. Pg!Of("tags", p) = {} /\ Pg!Of("open", p) = {}
    BY <1>6 DEF Pg!Of, Unsent
  <2>2. tagged[p] = {}
    BY DEF Pg!Init
  <2> QED
    BY <1>2, <1>3, <1>4, <2>1, <2>2 DEF TagsRight
<1> QED
  BY <1>7, <1>8, <1>9, <1>10, <1>11, <1>12, <1>13, <1>14, <1>15 DEF TreeInv

LEMMA TreeStutter ==
  ASSUME TreeInv, UNCHANGED Pg!vars
  PROVE  TreeInv'
<1>1. UNCHANGED <<pageRows, pagesMade, named, docs, selectedId, active, loadingDoc, asking>>
  BY DEF Pg!vars, Pg!table, Pg!page
<1>2. UNCHANGED <<templateOpen, pendingParentId, issued, trouble, exempt, crossing, mixture, tagged, muddled>>
  BY DEF Pg!vars, Pg!picker, Pg!hist
<1>3. Pg!TypeOK'
  BY <1>1, <1>2 DEF TreeInv, Pg!TypeOK
<1>4. MadeSoFar' /\ AllMade'
  BY <1>1, <1>2 DEF TreeInv, MadeSoFar, AllMade, GotMade, GotRight, Made, Pg!Adds
<1>5. AllSeen' /\ Pg!PagesReachable'
  <2>1. Pg!PagesReachable'
    BY <1>1, <1>2 DEF TreeInv, Pg!PagesReachable, Pg!Hidden, Pg!Shown, Pg!Below
  <2>2. \A s : InReach(s)' <=> InReach(s)
    BY <1>1 DEF InReach, Pg!Shown, Pg!Subtree, Pg!Below
  <2> QED
    BY <1>1, <2>1, <2>2 DEF TreeInv, AllSeen, SeenRight, Pg!Reshapes
<1>6. AllListed'
  <2>1. \A s, p : Between(s, p)' <=> Between(s, p)
    BY <1>1 DEF Between, Settled, Agree, SameAt
  <2>2. \A s, p : (Brings(s, p)' <=> Brings(s, p)) /\ (Agree(p)' <=> Agree(p))
    BY <1>1 DEF Brings, Pg!Adds, Agree, SameAt
  <2>3. \A s, p : NewRight(s, p)' <=> NewRight(s, p)
    BY <1>1, <2>2 DEF NewRight
  <2> QED
    BY <1>1, <1>2, <2>1, <2>2, <2>3 DEF TreeInv, AllListed, ListRightOf, Pg!Pending
<1>7. ShownRight' /\ AllTagged'
  BY <1>1, <1>2 DEF TreeInv, ShownRight, OpenRight, SelectedRight, Pg!Opens, AllTagged, TagsRight, Pg!Of
<1>8. AllNamed'
  BY <1>1, <1>2 DEF TreeInv, AllNamed, NamedRight, NoOlder, Brings, Pg!Adds
<1> QED
  BY <1>3, <1>4, <1>5, <1>6, <1>7, <1>8 DEF TreeInv

LEMMA TreeNext ==
  ASSUME TreeLimits, TreeInv, Pg!Next
  PROVE  TreeInv'
<1> USE DEF TreeInv
<1>1. CASE ByUser
  BY <1>1, UserTyped, UserMade, UserSeen, UserListed, UserNamed, UserShown, UserTagged
<1>2. CASE NoRequest
  BY <1>2, LocalTyped, LocalMade, LocalSeen, LocalListed, LocalNamed, LocalShown, LocalTagged
<1>3. ASSUME NEW r \in asking, Pg!Serve(r) \/ Pg!Refuse(r) PROVE TreeInv'
  <2>1. GotRight(r)
    BY DEF AllMade, GotMade
  <2>2. Pg!TypeOK'
    BY <1>3, <2>1, ServerTyped
  <2> QED
    BY <1>3, <2>2, ServerMade, ServerSeen, ServerListed, ServerNamed, ServerShown, ServerTagged
<1>4. ASSUME NEW r \in asking, Pg!Take(r) \/ Pg!Fail(r) PROVE TreeInv'
  <2>1. GotRight(r)
    BY DEF AllMade, GotMade
  <2>2. Pg!TypeOK'
    BY <1>4, <2>1, TabTyped
  <2> QED
    BY <1>4, <2>2, TabMade, TabSeen, TabListed, TabNamed, TabShown, TabTagged
<1>5. Pg!Next => ByUser \/ NoRequest \/ Pg!Synced
                 \/ \E r \in asking : Pg!Serve(r) \/ Pg!Refuse(r) \/ Pg!Take(r) \/ Pg!Fail(r)
  BY DEF Pg!Next, ByUser, NoRequest
<1>6. CASE Pg!Synced
  BY <1>6, SyncedTyped, SyncedKeeps
<1> QED
  BY <1>1, <1>2, <1>3, <1>4, <1>5, <1>6

LEMMA TreeGives ==
  ASSUME TreeInv
  PROVE  Pg!PagesHold
<1>1. Pg!Quiet => \A p : Pg!Pending(p) = {} /\ Pg!Opens = {} /\ \A k : Pg!Of(k, p) = {}
  BY DEF Pg!Quiet, Pg!Pending, Pg!Opens, Pg!Of
<1>2. Pg!ListAgrees
  BY <1>1 DEF TreeInv, AllListed, ListRightOf, Agree, SameAt, Pg!ListAgrees, Pg!Quiet
<1>3. Pg!ShownIsSelected
  BY DEF TreeInv, ShownRight, OpenRight, Pg!ShownIsSelected
<1>4. Pg!ShownExists
  <2> SUFFICES ASSUME Pg!Quiet, ~mixture, active.id \notin crossing \cup {Pg!None}
               PROVE  active.id \in DOMAIN pageRows
    BY DEF Pg!ShownExists
  <2>1. active.id = selectedId
    BY <1>1 DEF TreeInv, ShownRight, OpenRight
  <2> QED
    BY <1>1, <2>1 DEF TreeInv, ShownRight, SelectedRight
<1>5. Pg!TagsAreChosen
  <2>1. DOMAIN pageRows \subseteq Pg!Pages
    BY DEF TreeInv, Pg!TypeOK, Pg!IsTable
  <2> QED
    BY <1>1, <2>1 DEF TreeInv, AllTagged, TagsRight, Pg!TagsAreChosen
<1> QED
  BY <1>2, <1>3, <1>4, <1>5 DEF TreeInv, Pg!PagesHold

(* No page gets out of the tree's reach, a list at rest is the table, the  *)
(* page shown is the one selected and it is there, and a page has the tags *)
(* chosen for it, each but for what the property excuses (docs.service.ts, *)
(* docs/page.tsx), for any tags and any number of pages, requests and      *)
(* faults.                                                                 *)
THEOREM PagesAlwaysHold == TreeLimits => (PageSpec => []PagesHold)
<1> SUFFICES ASSUME TreeLimits PROVE PageSpec => []PagesHold
  OBVIOUS
<1> DEFINE Kept == onPage = "pages" => TreeInv
<1>1. FirstPage => Kept
  BY PageFirst, TreeInit
<1>2. Kept /\ [StepPage]_pageVars => Kept'
  BY PageStep, TreeNext, TreeStutter
<1>3. Kept => PagesHold
  BY TreeGives DEF PagesHold
<1> QED
  BY <1>1, <1>2, <1>3, PTL DEF PageSpec
=============================================================================
