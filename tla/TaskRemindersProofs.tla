------------------------ MODULE TaskRemindersProofs ------------------------
(***************************************************************************)
(* For any number of tasks, ticks, requests, edits and faults: a reminder  *)
(* is mailed twice only for a recorded reason, the mark means a mail, and  *)
(* a recurring task goes on, once for each occurrence.  The reminders and  *)
(* the recurrence share the rows and nothing else, so the invariant is     *)
(* proved in two halves.                                                   *)
(***************************************************************************)
EXTENDS TaskReminders, TLAPS

ReminderHalf == CurInv /\ VersionInv /\ SharedInv /\ MailedInv /\ MailedOnce /\ SentMeansMailed
SeriesHalf   == RequestsInv /\ ChainContinues /\ SuccessorInv /\ OneSuccessor

reminderVars == <<status, sentAt, version, ticks, mailed, told, twice, crossed>>
seriesVars   == <<status, nth, req, loose, broken>>

LEMMA Pairs ==
  \A p \in Reminders : /\ p[1] \in Tasks /\ p[2] \in 0 .. MaxEdits
                       /\ p = <<p[1], p[2]>>
  BY DEF Reminders

LEMMA MakesPair ==
  ASSUME NEW i \in Tasks, NEW n \in 0 .. MaxEdits
  PROVE  <<i, n>> \in Reminders /\ <<i, n>>[1] = i /\ <<i, n>>[2] = n
  BY DEF Reminders

-----------------------------------------------------------------------------
(* Types.                                                                  *)

LEMMA InitType == Init => TypeOK
  BY ConstantsAssumption
     DEF Init, TypeOK, Reminders, Nil, Request, NoRequest, Dto, Alive, Remind, Same,
         Sending

LEMMA TicksKeepType ==
  ASSUME TypeOK, CurInv, NEW k \in Ticks, TickStep(k) \/ SendFails(k) \/ TickDies(k)
  PROVE  TypeOK'
<1> USE ConstantsAssumption DEF columns, ticks, hist, Sending, CurInv
<1>1. CASE Query(k)
  <2>1. \A i \in Tasks : <<i, version[i]>> \in Reminders
    BY MakesPair DEF TypeOK
  <2> DEFINE found == {<<i, version[i]>> : i \in {j \in Tasks : Due(j) /\ token}}
  <2>2. found \subseteq Reminders
    BY <2>1
  <2> HIDE DEF found
  <2>3. batch' = [batch EXCEPT ![k] = found] /\ twice' \subseteq twice \cup found
    BY <1>1 DEF Query, found
  <2> QED
    BY <1>1, <2>2, <2>3 DEF Query, TypeOK
<1>2. CASE \E p \in Reminders : Send(k, p)
  BY <1>2 DEF Send, TypeOK
<1>3. CASE ServerAccepts(k)
  BY <1>3 DEF ServerAccepts, TypeOK
<1>4. CASE AnswerOk(k)
  BY <1>4 DEF AnswerOk, TypeOK
<1>5. CASE Mark(k)
  <2>1. cur[k] \in Reminders /\ cur[k][1] \in Tasks
    BY <1>5, Pairs DEF Mark
  <2> QED
    BY <1>5, <2>1 DEF Mark, TypeOK
<1>6. CASE Notify(k)
  BY <1>6 DEF Notify, TypeOK
<1>7. CASE SendFails(k)
  BY <1>7 DEF SendFails, Fault, TypeOK
<1>8. CASE EndTick(k)
  BY <1>8 DEF EndTick, TypeOK
<1>9. CASE TickDies(k)
  BY <1>9 DEF TickDies, Fault, TypeOK
<1> QED
  BY <1>1, <1>2, <1>3, <1>4, <1>5, <1>6, <1>7, <1>8, <1>9 DEF TickStep

LEMMA UserKeepsType ==
  ASSUME TypeOK, RequestsInv, NEW i \in Tasks,
         Remove(i) \/ TimePasses(i) \/ SignInOrOut
         \/ \E s \in Alive, a \in Remind : Create(i, s, a)
  PROVE  TypeOK'
<1> USE ConstantsAssumption DEF columns, ticks, hist
<1>1. CASE Remove(i)
  BY <1>1 DEF Remove, TypeOK
<1>2. CASE TimePasses(i)
  BY <1>2 DEF TimePasses, TypeOK, Remind
<1>3. CASE SignInOrOut
  BY <1>3 DEF SignInOrOut, TypeOK
<1>4. CASE \E s \in Alive, a \in Remind : Create(i, s, a)
  <2>1. token' \in BOOLEAN /\ sentAt' \in [Tasks -> BOOLEAN]
    BY Zenon, <1>4 DEF Create, TypeOK
  <2> QED
    BY <1>4, <2>1 DEF Create, NewRow, TypeOK, Alive
<1> QED
  BY <1>1, <1>2, <1>3, <1>4

LEMMA RequestsKeepType ==
  ASSUME TypeOK, RequestsInv, NEW r \in Requests,
         RequestStep(r) \/ \E i \in Tasks, d \in Dto : UpdateReads(r, i, d)
  PROVE  TypeOK'
<1> USE ConstantsAssumption DEF columns, ticks, hist
<1>e. End(r) => req' \in [Requests -> Request]
  BY DEF End, TypeOK, NoRequest, Request, Dto, Same, Alive, Remind
<1>1. ASSUME NEW i \in Tasks, NEW d \in Dto, UpdateReads(r, i, d) PROVE TypeOK'
  <2>1. req' \in [Requests -> Request]
    BY <1>1 DEF UpdateReads, Exists, TypeOK, Request
  <2>2. loose' \subseteq 0 .. LastNth
    <3>1. loose' = loose \/ loose' = loose \cup {nth[i]}
      BY <1>1, Zenon DEF UpdateReads
    <3>2. loose \subseteq 0 .. LastNth /\ nth[i] \in 0 .. LastNth
      BY DEF TypeOK
    <3> QED
      BY <3>1, <3>2
  <2>3. token' \in BOOLEAN
    BY <1>1, Zenon DEF UpdateReads, TypeOK
  <2> QED
    BY <1>1, <2>1, <2>2, <2>3 DEF UpdateReads, TypeOK
<1>2. CASE UpdateWrites(r)
  <2> DEFINE i == req[r].task
  <2>1. i \in Tasks /\ req[r] \in Request
    BY <1>2 DEF UpdateWrites, RequestsInv, InFlight, TypeOK
  <2>2. req' \in [Requests -> Request]
    <3>1. CASE End(r)
      BY <1>e, <3>1
    <3>2. CASE req' = [req EXCEPT ![r].at = "spawn"]
      BY <2>1, <3>2 DEF TypeOK, Request
    <3> QED
      BY <1>2, <3>1, <3>2 DEF UpdateWrites
  <2>3. status' \in [Tasks -> Alive \cup {"none", "gone"}]
    BY <1>2, <2>1 DEF UpdateWrites, SetStatus, TypeOK, Request, Dto
  <2>4. /\ remind' \in [Tasks -> Remind] /\ sentAt' \in [Tasks -> BOOLEAN]
        /\ version' \in [Tasks -> 0 .. MaxEdits]
    <3>1. req[r].dto.remind \in Remind \cup {Same} /\ SetReminder(i, req[r].dto.remind)
      BY <1>2, <2>1 DEF UpdateWrites, Request, Dto
    <3>2. CASE req[r].dto.remind = Same
      BY <3>1, <3>2 DEF SetReminder, TypeOK
    <3>3. CASE req[r].dto.remind # Same
      <4>1. sentAt' = [sentAt EXCEPT ![i] = FALSE]
        BY <3>1, <3>3, Zenon DEF SetReminder
      <4>2. sentAt' \in [Tasks -> BOOLEAN]
        BY <2>1, <4>1 DEF TypeOK
      <4>3. remind' \in [Tasks -> Remind] /\ version' \in [Tasks -> 0 .. MaxEdits]
        BY <2>1, <3>1, <3>3 DEF SetReminder, TypeOK
      <4> QED
        BY <4>2, <4>3
    <3> QED
      BY <3>2, <3>3
  <2>5. loose' \subseteq 0 .. LastNth
    BY <1>2, <2>1 DEF UpdateWrites, TypeOK
  <2>6. crossed' \subseteq Reminders
    BY <1>2, <2>1, <2>4, MakesPair DEF UpdateWrites, TypeOK
  <2> QED
    BY <1>2, <2>2, <2>3, <2>4, <2>5, <2>6 DEF UpdateWrites, TypeOK
<1>3. CASE UpdateMissesRow(r)
  BY <1>3, <1>e DEF UpdateMissesRow, TypeOK
<1>4. CASE UpdateSpawns(r)
  <2>1. req[r].task \in Tasks /\ nth[req[r].task] + 1 \in 0 .. LastNth
    BY <1>4 DEF UpdateSpawns, RequestsInv, InFlight, TypeOK
  <2> QED
    BY <1>4, <1>e, <2>1 DEF UpdateSpawns, NewRow, TypeOK, Alive
<1>5. CASE RequestFails(r)
  <2>1. req[r].task \in Tasks
    BY <1>5 DEF RequestFails, RequestsInv
  <2>2. token' \in BOOLEAN
    BY <1>5, Zenon DEF RequestFails, TypeOK
  <2>3. broken' \subseteq 0 .. LastNth
    <3>1. broken' = broken \/ broken' = broken \cup {nth[req[r].task]}
      BY <1>5, Zenon DEF RequestFails
    <3>2. broken \subseteq 0 .. LastNth /\ nth[req[r].task] \in 0 .. LastNth
      BY <2>1 DEF TypeOK
    <3> QED
      BY <3>1, <3>2
  <2> QED
    BY <1>5, <1>e, <2>2, <2>3 DEF RequestFails, Fault, TypeOK
<1> QED
  BY <1>1, <1>2, <1>3, <1>4, <1>5 DEF RequestStep

-----------------------------------------------------------------------------
(* The series: requests against the rows.                                  *)

LEMMA InitSeries == Init => SeriesHalf
<1> SUFFICES ASSUME Init PROVE SeriesHalf
  OBVIOUS
<1>1. \A i \in Tasks : status[i] = "none"
  BY DEF Init
<1>2. \A r \in Requests : req[r].at = "new" /\ ~InFlight(r)
  BY DEF Init, NoRequest, InFlight
<1>3. RequestsInv /\ ChainContinues /\ OneSuccessor
  BY <1>1, <1>2 DEF RequestsInv, ChainContinues, OneSuccessor, Unused
<1>4. OneWriter /\ WriterSawIt /\ SpawnerIsFirst
  BY <1>2 DEF OneWriter, WriterSawIt, SpawnerIsFirst
<1>5. StaysDone /\ HasPredecessor
  BY <1>1 DEF StaysDone, HasPredecessor, Unused
<1> QED
  BY <1>3, <1>4, <1>5 DEF SeriesHalf, SuccessorInv

LEMMA SeriesUnchanged == SeriesHalf /\ UNCHANGED seriesVars => SeriesHalf'
  BY DEF SeriesHalf, seriesVars, RequestsInv, ChainContinues, SuccessorInv, OneWriter,
         WriterSawIt, SpawnerIsFirst, StaysDone, HasPredecessor, OneSuccessor, InFlight, Unused, Unfinished, Continued, Clean

LEMMA RemoveKeepsSeries ==
  ASSUME TypeOK, SeriesHalf, NEW i \in Tasks, Remove(i)
  PROVE  SeriesHalf'
<1>1. /\ UNCHANGED <<nth, req, loose, broken>> /\ status[i] # "none"
      /\ \A j \in Tasks : status'[j] = IF j = i THEN "gone" ELSE status[j]
  BY DEF Remove, hist, Exists, Alive, TypeOK
<1>2. \A j \in Tasks : (Unused(j) <=> Unused(j)') /\ (Unfinished(j)' => Unfinished(j))
  BY <1>1 DEF Unused, Unfinished
<1>3. \A n : Continued(n) => Continued(n)'
  BY <1>1, <1>2 DEF Continued
<1>4. \A n : Clean(n) <=> Clean(n)'
  BY <1>1 DEF Clean
<1>5. RequestsInv'
  BY <1>1, <1>2, <1>3 DEF SeriesHalf, RequestsInv, InFlight
<1>6. ChainContinues'
  BY <1>1, <1>3 DEF SeriesHalf, ChainContinues
<1>7. SuccessorInv'
  <2>1. OneWriter' /\ WriterSawIt' /\ HasPredecessor'
    BY <1>1, <1>2 DEF SeriesHalf, SuccessorInv, OneWriter, WriterSawIt, HasPredecessor,
                      RequestsInv, InFlight
  <2>2. SpawnerIsFirst'
    BY <1>1, <1>2, <1>4 DEF SeriesHalf, SuccessorInv, SpawnerIsFirst, RequestsInv, InFlight
  <2>3. StaysDone'
    BY <1>1, <1>2, <1>4 DEF SeriesHalf, SuccessorInv, StaysDone
  <2> QED
    BY <2>1, <2>2, <2>3 DEF SuccessorInv
<1>8. OneSuccessor'
  BY <1>1, <1>2, <1>4 DEF SeriesHalf, OneSuccessor
<1> QED
  BY <1>5, <1>6, <1>7, <1>8 DEF SeriesHalf

\* Create is the only first row: no request can be in flight before it.
LEMMA CreateKeepsSeries ==
  ASSUME TypeOK, SeriesHalf, NEW i \in Tasks,
         NEW s \in Alive, NEW a \in Remind, Create(i, s, a)
  PROVE  SeriesHalf'
<1>1. /\ UNCHANGED <<req, loose>>
      /\ \A j \in Tasks : Unused(j)
      /\ \A j \in Tasks : j # i => Unused(j)'
      /\ status'[i] = s /\ nth'[i] = 1
      /\ s = "done" => 1 \in broken'
  BY DEF Create, NewRow, Unused, TypeOK
<1>2. \A r \in Requests : ~InFlight(r) /\ ~InFlight(r)'
  BY <1>1 DEF SeriesHalf, RequestsInv, InFlight
<1>3. RequestsInv'
  BY <1>2 DEF RequestsInv
<1>4. ChainContinues'
  <2> SUFFICES ASSUME NEW j \in Tasks, status'[j] = "done" PROVE Continued(nth[j])'
    BY DEF ChainContinues
  <2>1. j = i /\ nth'[j] = 1 /\ 1 \in broken'
    BY <1>1 DEF Unused
  <2> QED
    BY <2>1 DEF Continued
<1>5. OneSuccessor'
  BY <1>1 DEF OneSuccessor, Unused
<1>6. \A j, l \in Tasks : ~Unused(j)' /\ ~Unused(l)' => j = i /\ l = i
  BY <1>1
<1>7. SuccessorInv'
  <2>1. OneWriter' /\ WriterSawIt' /\ SpawnerIsFirst'
    BY <1>2 DEF OneWriter, WriterSawIt, SpawnerIsFirst, InFlight
  <2>2. StaysDone'
    <3>1. \A j, l \in Tasks : ~Unused(j)' /\ ~Unused(l)' => nth'[l] # nth'[j] + 1
      BY <1>1, <1>6
    <3> QED
      BY <3>1 DEF StaysDone
  <2>3. HasPredecessor'
    BY <1>1, <1>6 DEF HasPredecessor
  <2> QED
    BY <2>1, <2>2, <2>3 DEF SuccessorInv
<1> QED
  BY <1>3, <1>4, <1>5, <1>7 DEF SeriesHalf

\* A request ends and changes no row: its spawn, if any, is counted as broken.
LEMMA LosingARequest ==
  ASSUME SeriesHalf, NEW r \in Requests,
         UNCHANGED <<status, nth, loose>>, ~InFlight(r)',
         \A s \in Requests \ {r} : req'[s] = req[s],
         broken \subseteq broken',
         req[r].at = "spawn" => nth[req[r].task] \in broken'
  PROVE  SeriesHalf'
<1>1. \A s \in Requests : InFlight(s)' => s # r /\ InFlight(s) /\ req'[s] = req[s]
  BY DEF InFlight
<1>2. \A n : Continued(n) => Continued(n)'
  <2> SUFFICES ASSUME NEW n, Continued(n) PROVE Continued(n)'
    OBVIOUS
  <2>1. CASE n \in broken \/ \E j \in Tasks : ~Unused(j) /\ nth[j] = n + 1
    BY <2>1 DEF Continued, Unused
  <2>2. CASE \E s \in Requests : req[s].at = "spawn" /\ nth[req[s].task] = n
    BY <2>2 DEF Continued
  <2> QED
    BY <2>1, <2>2 DEF Continued
<1>3. RequestsInv'
  BY <1>1, <1>2 DEF SeriesHalf, RequestsInv, Unused
<1>4. ChainContinues'
  BY <1>2 DEF SeriesHalf, ChainContinues
<1>5. SuccessorInv'
  <2>1. OneWriter'
    BY <1>1 DEF SeriesHalf, SuccessorInv, OneWriter
  <2>3. WriterSawIt'
    BY <1>1 DEF SeriesHalf, SuccessorInv, WriterSawIt, InFlight
  <2>4. SpawnerIsFirst'
    BY <1>1 DEF SeriesHalf, SuccessorInv, SpawnerIsFirst, Unused, Unfinished, Clean, InFlight
  <2>2. StaysDone' /\ HasPredecessor'
    BY DEF SeriesHalf, SuccessorInv, StaysDone, HasPredecessor, Unused, Unfinished, Clean
  <2> QED
    BY <2>1, <2>2, <2>3, <2>4 DEF SuccessorInv
<1>6. OneSuccessor'
  BY DEF SeriesHalf, OneSuccessor, Unused, Clean
<1> QED
  BY <1>3, <1>4, <1>5, <1>6 DEF SeriesHalf

LEMMA MissedRowKeepsSeries ==
  ASSUME TypeOK, SeriesHalf, NEW r \in Requests, UpdateMissesRow(r)
  PROVE  SeriesHalf'
<1>1. /\ UNCHANGED <<status, nth, loose, broken>> /\ ~InFlight(r)'
      /\ \A s \in Requests \ {r} : req'[s] = req[s]
      /\ req[r].at = "write"
  BY DEF UpdateMissesRow, columns, hist, End, NoRequest, InFlight, TypeOK
<1> QED
  BY <1>1, LosingARequest

LEMMA RequestFailsKeepsSeries ==
  ASSUME TypeOK, SeriesHalf, NEW r \in Requests, RequestFails(r)
  PROVE  SeriesHalf'
<1>1. /\ UNCHANGED <<status, nth, loose>> /\ ~InFlight(r)'
      /\ \A s \in Requests \ {r} : req'[s] = req[s]
      /\ InFlight(r) /\ broken \subseteq broken'
      /\ req[r].at = "spawn" => nth[req[r].task] \in broken'
  BY DEF RequestFails, columns, End, NoRequest, InFlight, TypeOK
<1> QED
  BY <1>1, LosingARequest

LEMMA ReadKeepsSeries ==
  ASSUME TypeOK, SeriesHalf, NEW r \in Requests, NEW i \in Tasks, NEW d \in Dto,
         UpdateReads(r, i, d)
  PROVE  SeriesHalf'
<1>1. /\ UNCHANGED <<status, nth, broken>> /\ Exists(i) /\ ~InFlight(r)
      /\ \A s \in Requests \ {r} : req'[s] = req[s]
      /\ req'[r].at = "write" /\ req'[r].task = i /\ req'[r].from = status[i]
      /\ req[r].at = "new"
  BY DEF UpdateReads, columns, InFlight, TypeOK
<1>2. \/ loose' = loose /\ \A s \in Requests : InFlight(s) => req[s].task # i
      \/ loose' = loose \cup {nth[i]}
  BY DEF UpdateReads
<1>3. loose \subseteq loose' /\ \A n : ~Clean(n) => ~Clean(n)'
  BY <1>2 DEF Clean
<1>4. \A n : Continued(n) => Continued(n)'
  <2> SUFFICES ASSUME NEW n, Continued(n) PROVE Continued(n)'
    OBVIOUS
  <2>1. CASE n \in broken \/ \E j \in Tasks : ~Unused(j) /\ nth[j] = n + 1
    BY <1>1, <2>1 DEF Continued, Unused
  <2>2. CASE \E s \in Requests : req[s].at = "spawn" /\ nth[req[s].task] = n
    BY <1>1, <2>2 DEF Continued
  <2> QED
    BY <2>1, <2>2 DEF Continued
<1>5. status[i] # "none"
  BY <1>1 DEF Exists, Alive
<1>6. RequestsInv'
  <2>1. \A s \in Requests \ {r} : InFlight(s)' => InFlight(s)
    BY <1>1 DEF InFlight
  <2>2. status[i] = "done" /\ nth[i] < LastNth => Continued(nth[i])'
    BY <1>1, <1>4 DEF SeriesHalf, ChainContinues
  <2> QED
    BY <1>1, <1>4, <1>5, <2>1, <2>2 DEF SeriesHalf, RequestsInv, Unused
<1>7. ChainContinues'
  BY <1>1, <1>4 DEF SeriesHalf, ChainContinues
<1>8. OneSuccessor'
  BY <1>1, <1>3 DEF SeriesHalf, OneSuccessor, Unused
<1>9. SuccessorInv'
  <2>1. \A s \in Requests : InFlight(s)' => s = r \/ (InFlight(s) /\ req'[s] = req[s])
    BY <1>1 DEF InFlight
  <2>2. \A s \in Requests : InFlight(s) /\ req[s].task = i => nth[i] \in loose'
    BY <1>2
  <2>3. OneWriter'
    BY <1>1, <1>3, <2>1, <2>2 DEF SeriesHalf, SuccessorInv, OneWriter
  <2>4. WriterSawIt'
    BY <1>1, <1>3 DEF SeriesHalf, SuccessorInv, WriterSawIt
  <2>5. SpawnerIsFirst'
    BY <1>1, <1>3 DEF SeriesHalf, SuccessorInv, SpawnerIsFirst, Unused, Unfinished
  <2>6. StaysDone'
    BY <1>1, <1>3 DEF SeriesHalf, SuccessorInv, StaysDone, Unused, Unfinished
  <2>7. HasPredecessor'
    BY <1>1 DEF SeriesHalf, SuccessorInv, HasPredecessor, Unused
  <2> QED
    BY <2>3, <2>4, <2>5, <2>6, <2>7 DEF SuccessorInv
<1> QED
  BY <1>6, <1>7, <1>8, <1>9 DEF SeriesHalf

LEMMA CleanBelow ==
  ASSUME TypeOK, NEW m \in 0 .. LastNth, NEW n \in Nat, m < n, m \in loose
  PROVE  ~Clean(n)
  BY ConstantsAssumption DEF TypeOK, Clean

LEMMA WriteKeepsSeries ==
  ASSUME TypeOK, TypeOK', SeriesHalf, NEW r \in Requests, UpdateWrites(r)
  PROVE  SeriesHalf'
<1> USE ConstantsAssumption
<1>0. PICK i \in Tasks : i = req[r].task
  BY DEF UpdateWrites, SeriesHalf, RequestsInv, InFlight
<1>1. /\ req[r].task = i /\ status[i] \in Alive /\ req[r].at = "write"
      /\ UNCHANGED <<nth, broken>>
  BY <1>0 DEF UpdateWrites, Exists, hist
<1>2. /\ \A j \in Tasks : j # i => status'[j] = status[j]
      /\ status'[i] = IF req[r].dto.status = Same THEN status[i] ELSE req[r].dto.status
      /\ status'[i] \in Alive
  <2>1. req[r].dto.status \in Alive \cup {Same}
    BY DEF TypeOK, Request, Dto
  <2> QED
    BY <1>1, <2>1 DEF UpdateWrites, SetStatus, TypeOK
<1>3. \A s \in Requests \ {r} : req'[s] = req[s]
  BY DEF UpdateWrites, End, TypeOK
<1>4. \/ /\ req'[r].at = "spawn" /\ req'[r].task = i
         /\ status'[i] = "done" /\ req[r].from # "done" /\ nth[i] < LastNth
      \/ /\ req'[r].at = "ended"
         /\ nth[i] < LastNth /\ req[r].dto.status = "done" => req[r].from = "done"
  <2>1. CASE GoingDone(req[r]) /\ nth[i] < LastNth
    <3>1. req' = [req EXCEPT ![r].at = "spawn"]
      BY <1>1, <2>1 DEF UpdateWrites
    <3> QED
      BY <1>1, <1>2, <2>1, <3>1 DEF GoingDone, TypeOK, Request, Same
  <2>2. CASE ~(GoingDone(req[r]) /\ nth[i] < LastNth)
    <3>1. req' = [req EXCEPT ![r] = NoRequest("ended")]
      BY <1>1, <2>2 DEF UpdateWrites, End
    <3> QED
      BY <2>2, <3>1 DEF GoingDone, NoRequest, TypeOK
  <2> QED
    BY <2>1, <2>2
<1>5. /\ loose \subseteq loose'
      /\ status[i] = "done" /\ status'[i] # "done" => nth[i] \in loose'
  BY <1>1 DEF UpdateWrites
<1>6. \A n : ~Clean(n) => ~Clean(n)'
  BY <1>5 DEF Clean
<1>7. /\ \A j \in Tasks : Unused(j)' <=> Unused(j)
      /\ \A j \in Tasks : Unfinished(j)' /\ ~Unfinished(j) => j = i /\ nth[i] \in loose'
  <2>1. \A j \in Tasks : Unused(j)' <=> Unused(j)
    <3>1. \A j \in Tasks : status'[j] = "none" <=> status[j] = "none"
      BY <1>1, <1>2 DEF Alive
    <3> QED
      BY <3>1 DEF Unused
  <2>2. \A j \in Tasks : Unfinished(j)' /\ ~Unfinished(j) => j = i /\ nth[i] \in loose'
    <3>1. \A j \in Tasks : status'[j] \notin {"done", "gone"} /\ status[j] \in {"done", "gone"}
                              => j = i /\ nth[i] \in loose'
      BY <1>1, <1>2, <1>5 DEF Alive
    <3> QED
      BY <3>1 DEF Unfinished
  <2> QED
    BY <2>1, <2>2
<1>8. \A n : Continued(n) => Continued(n)'
  <2> SUFFICES ASSUME NEW n, Continued(n) PROVE Continued(n)'
    OBVIOUS
  <2>1. CASE n \in broken \/ \E j \in Tasks : ~Unused(j) /\ nth[j] = n + 1
    BY <1>1, <1>7, <2>1 DEF Continued
  <2>2. CASE \E s \in Requests : req[s].at = "spawn" /\ nth[req[s].task] = n
    BY <1>1, <1>3, <2>2 DEF Continued
  <2> QED
    BY <2>1, <2>2 DEF Continued
<1>9. RequestsInv'
  <2>1. ASSUME NEW s \in Requests, InFlight(s)', s # r
        PROVE  /\ InFlight(s) /\ req'[s] = req[s]
    BY <1>3, <2>1 DEF InFlight
  <2>2. InFlight(r)' => /\ req'[r].at = "spawn" /\ req'[r].task = i
                        /\ ~Unused(i) /\ nth[i] < LastNth
    BY <1>1, <1>4 DEF InFlight, Unused, Alive
  <2> QED
    BY <1>1, <1>7, <1>8, <2>1, <2>2 DEF SeriesHalf, RequestsInv
<1>10. ChainContinues'
  <2>1. ASSUME status'[i] = "done", nth[i] < LastNth PROVE Continued(nth[i])'
    <3>1. CASE status[i] = "done"
      BY <1>1, <1>8, <2>1, <3>1 DEF SeriesHalf, ChainContinues
    <3>2. CASE status[i] # "done" /\ req[r].from = "done"
      BY <1>1, <1>8, <2>1, <3>2 DEF SeriesHalf, RequestsInv, InFlight
    <3>3. CASE status[i] # "done" /\ req[r].from # "done"
      BY <1>1, <1>2, <1>4, <2>1, <3>3 DEF Continued
    <3> QED
      BY <3>1, <3>2, <3>3
  <2> QED
    BY <1>1, <1>2, <1>8, <2>1 DEF SeriesHalf, ChainContinues
<1>11. OneSuccessor'
  BY <1>1, <1>6, <1>7 DEF SeriesHalf, OneSuccessor
<1>12. OneWriter'
  BY <1>1, <1>3, <1>4, <1>5 DEF SeriesHalf, SuccessorInv, OneWriter, InFlight
<1>13. WriterSawIt'
  <2>1. \A s \in Requests \ {r} : req[s].at = "write" /\ req[s].task = i => nth[i] \in loose
    BY <1>1 DEF SeriesHalf, SuccessorInv, OneWriter, InFlight
  <2>2. \A s \in Requests \ {r} : req[s].at = "write" => req[s].task \in Tasks
    BY DEF SeriesHalf, RequestsInv, InFlight
  <2> QED
    BY <1>1, <1>2, <1>3, <1>4, <1>5, <2>1, <2>2 DEF SeriesHalf, SuccessorInv, WriterSawIt
<1>14. SpawnerIsFirst'
  <2>1. ASSUME NEW j \in Tasks, ~Unused(j), nth[j] = nth[i] + 1, req[r].from # "done"
        PROVE  ~Clean(nth[j])
    <3>1. CASE Unfinished(i)
      BY <1>1, <2>1, <3>1 DEF SeriesHalf, SuccessorInv, StaysDone, Unused, Alive
    <3>2. CASE ~Unfinished(i)
      <4>1. nth[i] \in loose
        BY <1>1, <2>1, <3>2 DEF SeriesHalf, SuccessorInv, WriterSawIt, Unfinished, Alive
      <4> QED
        BY <1>1, <2>1, <4>1, CleanBelow DEF TypeOK
    <3> QED
      BY <3>1, <3>2
  <2>2. ASSUME NEW s \in Requests \ {r}, req[s].at = "spawn" PROVE req[s].task \in Tasks
    BY <2>2 DEF SeriesHalf, RequestsInv, InFlight
  <2>3. ~Unfinished(i)' \/ status'[i] # "done"
    BY DEF Unfinished
  <2> QED
    BY <1>1, <1>3, <1>4, <1>5, <1>6, <1>7, <2>1, <2>2, <2>3
       DEF SeriesHalf, SuccessorInv, SpawnerIsFirst
<1>15. StaysDone'
  <2>1. \A j \in Tasks : nth[i] \in loose' /\ nth[j] = nth[i] + 1 => ~Clean(nth[j])'
    BY <1>1 DEF TypeOK, Clean
  <2> QED
    BY <1>1, <1>6, <1>7, <2>1 DEF SeriesHalf, SuccessorInv, StaysDone
<1>16. HasPredecessor'
  BY <1>1, <1>7 DEF SeriesHalf, SuccessorInv, HasPredecessor
<1> QED
  BY <1>9, <1>10, <1>11, <1>12, <1>13, <1>14, <1>15, <1>16 DEF SeriesHalf, SuccessorInv

LEMMA SpawnKeepsSeries ==
  ASSUME TypeOK, TypeOK', SeriesHalf, NEW r \in Requests, UpdateSpawns(r)
  PROVE  SeriesHalf'
<1> USE ConstantsAssumption
<1>0. PICK t \in Tasks : t = req[r].task
  BY DEF UpdateSpawns, SeriesHalf, RequestsInv, InFlight
<1>1. PICK i \in Tasks : Unused(i) /\ \E next \in Remind : NewRow(i, "open", nth[t] + 1, next)
  BY <1>0 DEF UpdateSpawns
<1>2. /\ req[r].at = "spawn" /\ req[r].task = t /\ ~Unused(t) /\ t # i
      /\ UNCHANGED <<loose, broken>>
  BY <1>0, <1>1 DEF UpdateSpawns, SeriesHalf, RequestsInv, InFlight, hist
<1>3. /\ \A j \in Tasks : j # i => status'[j] = status[j] /\ nth'[j] = nth[j]
      /\ status'[i] = "open" /\ nth'[i] = nth[t] + 1
  BY <1>1 DEF NewRow, TypeOK
<1>4. /\ \A s \in Requests \ {r} : req'[s] = req[s]
      /\ req'[r].at = "ended" /\ ~InFlight(r)'
  BY DEF UpdateSpawns, End, NoRequest, InFlight, TypeOK
<1>5. \A j \in Tasks : ~Unused(j)' <=> j = i \/ ~Unused(j)
  <2>1. \A j \in Tasks : status'[j] # "none" <=> j = i \/ status[j] # "none"
    BY <1>1, <1>3 DEF Unused
  <2> QED
    BY <2>1 DEF Unused
<1>6. \A j \in Tasks : ~Unused(j) => j # i
  BY <1>1
<1>7. \A n : Clean(n)' <=> Clean(n)
  BY <1>2 DEF Clean
<1>8. \A s \in Requests : InFlight(s)' =>
         /\ s # r /\ InFlight(s) /\ req'[s] = req[s]
         /\ req[s].task \in Tasks /\ req[s].task # i /\ ~Unused(req[s].task)
  BY <1>1, <1>4 DEF SeriesHalf, RequestsInv, InFlight
<1>9. \A n : Continued(n) => Continued(n)'
  <2> SUFFICES ASSUME NEW n, Continued(n) PROVE Continued(n)'
    OBVIOUS
  <2>1. CASE n \in broken
    BY <1>2, <2>1 DEF Continued
  <2>2. CASE \E j \in Tasks : ~Unused(j) /\ nth[j] = n + 1
    BY <1>3, <1>5, <1>6, <2>2 DEF Continued
  <2>3. CASE \E s \in Requests \ {r} : req[s].at = "spawn" /\ nth[req[s].task] = n
    <3>1. PICK s \in Requests \ {r} : req[s].at = "spawn" /\ nth[req[s].task] = n
      BY <2>3
    <3>2. req'[s].at = "spawn" /\ nth'[req'[s].task] = n
      BY <1>3, <1>4, <1>8, <3>1 DEF InFlight
    <3> QED
      BY <3>2 DEF Continued
  <2>4. CASE nth[t] = n
    BY <1>3, <1>5, <2>4 DEF Continued
  <2> QED
    BY <1>2, <2>1, <2>2, <2>3, <2>4 DEF Continued
<1>10. RequestsInv'
  BY <1>3, <1>5, <1>8, <1>9 DEF SeriesHalf, RequestsInv
<1>11. ChainContinues'
  BY <1>3, <1>9 DEF SeriesHalf, ChainContinues
<1>12. \A j \in Tasks : ~Unused(j) /\ nth[j] = nth[t] + 1 => ~Clean(nth[t] + 1)
  BY <1>2 DEF SeriesHalf, SuccessorInv, SpawnerIsFirst
<1>13. OneSuccessor'
  BY <1>3, <1>5, <1>6, <1>7, <1>12 DEF SeriesHalf, OneSuccessor
<1>14. OneWriter' /\ WriterSawIt'
  <2>1. OneWriter'
    BY <1>2, <1>3, <1>8 DEF SeriesHalf, SuccessorInv, OneWriter
  <2>2. WriterSawIt'
    BY <1>2, <1>3, <1>8 DEF SeriesHalf, SuccessorInv, WriterSawIt, InFlight
  <2> QED
    BY <2>1, <2>2
\* Until something earlier is loose, t is the only occurrence of its place.
<1>15. \A j \in Tasks : ~Unused(j) /\ nth[j] = nth[t] /\ Clean(nth[t] + 1) => j = t /\ nth[t] \notin loose
  <2>1. Clean(nth[t] + 1) => Clean(nth[t]) /\ nth[t] \notin loose
    BY DEF TypeOK, Clean
  <2> QED
    BY <1>2, <2>1 DEF SeriesHalf, OneSuccessor
<1>16. SpawnerIsFirst'
  <2>1. ASSUME NEW s \in Requests, InFlight(s)', req[s].at = "spawn", nth[req[s].task] = nth[t]
        PROVE  ~Clean(nth[t] + 1)
    <3>1. CASE req[s].task # t
      BY <1>8, <1>15, <2>1, <3>1
    <3>2. CASE req[s].task = t
      BY <1>2, <1>8, <1>15, <2>1, <3>2 DEF SeriesHalf, SuccessorInv, OneWriter, InFlight
    <3> QED
      BY <3>1, <3>2
  <2>2. ASSUME NEW s \in Requests, req'[s].at = "spawn"
        PROVE  InFlight(s)' /\ req[s].at = "spawn" /\ req'[s].task = req[s].task
    BY <1>4, <2>2 DEF InFlight
  <2>3. ASSUME NEW s \in Requests, req'[s].at = "spawn", Unfinished(req[s].task)'
        PROVE  nth'[req'[s].task] \in loose'
    <3>1. Unfinished(req[s].task)
      BY <1>3, <1>8, <2>2, <2>3 DEF Unfinished
    <3> QED
      BY <1>2, <1>3, <1>8, <2>2, <2>3, <3>1 DEF SeriesHalf, SuccessorInv, SpawnerIsFirst
  <2>4. ASSUME NEW s \in Requests, req'[s].at = "spawn", NEW j \in Tasks,
               ~Unused(j)', nth'[j] = nth'[req'[s].task] + 1
        PROVE  ~Clean(nth'[j])
    <3>1. CASE j = i
      BY <1>3, <1>8, <2>1, <2>2, <2>4, <3>1 DEF TypeOK
    <3>2. CASE j # i
      BY <1>3, <1>5, <1>8, <2>2, <2>4, <3>2 DEF SeriesHalf, SuccessorInv, SpawnerIsFirst
    <3> QED
      BY <3>1, <3>2
  <2>5. \A s \in Requests : req'[s].at = "spawn" =>
           /\ Unfinished(req[s].task)' => nth'[req'[s].task] \in loose'
           /\ \A j \in Tasks : ~Unused(j)' /\ nth'[j] = nth'[req'[s].task] + 1 => ~Clean(nth[j])'
    BY <1>7, <2>3, <2>4
  <2> QED
    BY <2>5 DEF SpawnerIsFirst
<1>17. StaysDone'
  <2> SUFFICES ASSUME NEW a \in Tasks, NEW b \in Tasks, ~Unused(a)', ~Unused(b)',
                      nth'[b] = nth'[a] + 1, Unfinished(a)'
               PROVE  ~Clean(nth'[b])
    BY <1>7 DEF StaysDone
  <2>0. Unfinished(a) \/ a = i
    BY <1>3 DEF Unfinished
  <2>1. CASE a # i /\ b # i
    BY <1>3, <1>5, <2>0, <2>1 DEF SeriesHalf, SuccessorInv, StaysDone
  <2>2. CASE a # i /\ b = i
    <3>1. ~Unused(a) /\ nth[a] = nth[t] /\ Unfinished(a)
      BY <1>3, <1>5, <2>0, <2>2 DEF TypeOK
    <3>2. Clean(nth[t] + 1) => nth[t] \in loose
      BY <1>2, <1>15, <3>1 DEF SeriesHalf, SuccessorInv, SpawnerIsFirst
    <3> QED
      BY <1>3, <1>15, <2>2, <3>1, <3>2
  <2>3. CASE a = i /\ b # i
    <3>1. ~Unused(b) /\ nth[b] = nth[t] + 2 /\ nth[b] # 1
      BY <1>3, <1>5, <2>3 DEF TypeOK
    <3>2. PICK c \in Tasks : ~Unused(c) /\ nth[b] = nth[c] + 1
      BY <3>1 DEF SeriesHalf, SuccessorInv, HasPredecessor
    <3>3. ~Clean(nth[t] + 1)
      BY <1>12, <3>1, <3>2 DEF TypeOK
    <3>4. ~Clean(nth[t] + 2)
      BY <3>3 DEF TypeOK, Clean
    <3> QED
      BY <1>3, <2>3, <3>1, <3>4
  <2>4. CASE a = i /\ b = i
    BY <2>4 DEF TypeOK
  <2> QED
    BY <2>1, <2>2, <2>3, <2>4
<1>18. HasPredecessor'
  <2>1. ~Unused(t)' /\ nth'[i] = nth'[t] + 1
    BY <1>2, <1>3, <1>5
  <2>2. ASSUME NEW j \in Tasks, ~Unused(j)', j # i, nth'[j] # 1
        PROVE  \E a \in Tasks : ~Unused(a)' /\ nth'[j] = nth'[a] + 1
    BY <1>3, <1>5, <1>6, <2>2 DEF SeriesHalf, SuccessorInv, HasPredecessor
  <2> QED
    BY <2>1, <2>2 DEF HasPredecessor
<1> QED
  BY <1>10, <1>11, <1>13, <1>14, <1>16, <1>17, <1>18 DEF SeriesHalf, SuccessorInv

\* The invariant of the series is kept by every step.
LEMMA SeriesStep ==
  ASSUME TypeOK, TypeOK', SeriesHalf, [Next]_vars
  PROVE  SeriesHalf'
<1> USE DEF columns, ticks, hist
<1>1. ASSUME NEW k \in Ticks, TickStep(k) \/ SendFails(k) \/ TickDies(k)
      PROVE  UNCHANGED seriesVars
  BY <1>1 DEF TickStep, Query, ServerAccepts, AnswerOk, Mark, Notify, EndTick, Send,
              SendFails, TickDies, seriesVars
<1>2. ASSUME NEW i \in Tasks, TimePasses(i) \/ SignInOrOut PROVE UNCHANGED seriesVars
  BY <1>2 DEF TimePasses, SignInOrOut, seriesVars
<1>3. UNCHANGED vars => UNCHANGED seriesVars
  BY DEF vars, seriesVars
<1>4. SignInOrOut => UNCHANGED seriesVars
  BY DEF SignInOrOut, seriesVars
<1>5. ASSUME NEW r \in Requests, RequestStep(r) PROVE SeriesHalf'
  BY <1>5, WriteKeepsSeries, MissedRowKeepsSeries, SpawnKeepsSeries, RequestFailsKeepsSeries
     DEF RequestStep
<1> QED
  BY <1>1, <1>2, <1>3, <1>4, <1>5, SeriesUnchanged, ReadKeepsSeries, CreateKeepsSeries,
     RemoveKeepsSeries DEF Next

-----------------------------------------------------------------------------
(* The reminders: ticks against the rows.                                  *)

LEMMA InitReminders == Init => ReminderHalf
  BY DEF Init, ReminderHalf, CurInv, VersionInv, SharedInv, MailedInv, MailedOnce,
         SentMeansMailed, Hand, Sending

LEMMA RemindersUnchanged == ReminderHalf /\ UNCHANGED reminderVars => ReminderHalf'
  BY DEF ReminderHalf, reminderVars, ticks, CurInv, VersionInv, SharedInv, MailedInv,
         MailedOnce, SentMeansMailed, Hand, Over, Waits

\* A row is created or deleted: nothing that concerns a reminder changes but
\* that a deleted task's are over.
LEMMA RowsKeepReminders ==
  ASSUME ReminderHalf,
         UNCHANGED <<sentAt, version, ticks, mailed, told, twice, crossed>>,
         \A i \in Tasks : status[i] = "gone" => status'[i] = "gone"
  PROVE  ReminderHalf'
<1>1. CurInv' /\ VersionInv' /\ SharedInv' /\ MailedOnce' /\ SentMeansMailed'
  BY DEF ReminderHalf, ticks, CurInv, VersionInv, SharedInv, MailedOnce, SentMeansMailed, Hand
<1>2. \A p \in Reminders : Over(p) => Over(p)'
  BY Pairs DEF Over, ticks
<1>3. MailedInv'
  BY <1>2 DEF ReminderHalf, MailedInv, Waits, ticks
<1> QED
  BY <1>1, <1>3 DEF ReminderHalf

LEMMA QueryKeepsReminders ==
  ASSUME TypeOK, TypeOK', ReminderHalf, NEW k \in Ticks, Query(k)
  PROVE  ReminderHalf'
<1> DEFINE found == {<<i, version[i]>> : i \in {j \in Tasks : Due(j) /\ token}}
<1>1. /\ UNCHANGED <<status, sentAt, version, cur, mailed, told, crossed>>
      /\ pc[k] = "idle" /\ pc'[k] = "loop" /\ batch'[k] = found
      /\ \A l \in Ticks \ {k} : pc'[l] = pc[l] /\ batch'[l] = batch[l]
      /\ twice \subseteq twice'
  BY DEF Query, columns, TypeOK
<1>2. \A p \in found : \A l \in Ticks \ {k} : p \in Hand(l) => p \in twice'
  BY DEF Query
<1>3. \A p \in found : /\ p \in Reminders /\ p[2] = version[p[1]]
                         /\ status[p[1]] = "open" /\ ~sentAt[p[1]]
  <2> SUFFICES ASSUME NEW i \in Tasks, Due(i)
               PROVE  /\ <<i, version[i]>> \in Reminders
                      /\ status[i] = "open" /\ ~sentAt[i]
    BY DEF found
  <2> QED
    BY MakesPair DEF Due, TypeOK
<1> HIDE DEF found
<1>4. Hand(k)' = found /\ \A l \in Ticks \ {k} : Hand(l)' = Hand(l)
  BY <1>1 DEF Hand, Sending
<1>5. CurInv'
  BY <1>1 DEF ReminderHalf, CurInv, Sending
<1>6. VersionInv'
  <2>1. \A p \in found : p[2] <= version[p[1]] /\ p[2] = version[p[1]]
    BY <1>3, Pairs, ConstantsAssumption
  <2> QED
    BY <1>1, <1>4, <2>1 DEF ReminderHalf, VersionInv
<1>7. SharedInv'
  BY <1>1, <1>2, <1>4 DEF ReminderHalf, SharedInv
<1>8. MailedInv'
  <2>1. \A p \in Reminders : Over(p) => Over(p)'
    BY <1>1 DEF Over
  <2>2. ASSUME NEW p \in Reminders, mailed[p] > 0, p \in found PROVE p \in twice'
    <3>1. CASE Over(p)
      <4>1. PICK l \in Ticks : pc[l] \in {"accepted", "mark"} /\ cur[l] = p
        BY <1>3, <2>2, <3>1 DEF Over
      <4>2. l # k /\ p \in Hand(l)
        BY <1>1, <4>1 DEF Hand, Sending
      <4> QED
        BY <1>2, <2>2, <4>2
    <3>2. CASE ~Over(p)
      BY <1>1, <2>2, <3>2 DEF ReminderHalf, MailedInv
    <3> QED
      BY <3>1, <3>2
  <2>3. \A p \in Reminders, l \in Ticks : Waits(l, p)' => Waits(l, p) \/ p \in found
    BY <1>1 DEF Waits
  <2> QED
    BY <1>1, <2>1, <2>2, <2>3 DEF ReminderHalf, MailedInv
<1>9. MailedOnce' /\ SentMeansMailed'
  BY <1>1 DEF ReminderHalf, MailedOnce, SentMeansMailed
<1> QED
  BY <1>5, <1>6, <1>7, <1>8, <1>9 DEF ReminderHalf

\* What the other steps of a tick have in common: it takes no reminder on,
\* and no column is written but, by Mark, reminderSentAt.
TickWorks(k) ==
    /\ UNCHANGED <<status, version, crossed>>
    /\ \A l \in Ticks \ {k} : pc'[l] = pc[l] /\ batch'[l] = batch[l] /\ cur'[l] = cur[l]
    /\ Hand(k)' \subseteq Hand(k)
    /\ twice \subseteq twice'
    /\ \A i \in Tasks : sentAt[i] => sentAt'[i]

LEMMA WorkingTickKeepsHands ==
  ASSUME ReminderHalf, NEW k \in Ticks, TickWorks(k)
  PROVE  VersionInv' /\ SharedInv'
<1>1. \A l \in Ticks : Hand(l)' \subseteq Hand(l)
  BY DEF TickWorks, Hand
<1> QED
  BY <1>1 DEF ReminderHalf, VersionInv, SharedInv, TickWorks

\* A step that mails nothing keeps what is over, unless it lets go of a mail
\* it did not record.
LEMMA QuietTickKeepsReminders ==
  ASSUME TypeOK, ReminderHalf, NEW k \in Ticks, TickWorks(k), CurInv',
         UNCHANGED <<sentAt, mailed, told>>,
         \A p \in Reminders : Waits(k, p)' => Waits(k, p),
         pc[k] \in {"accepted", "mark"} =>
            \/ pc'[k] \in {"accepted", "mark"} /\ cur'[k] = cur[k]
            \/ cur[k] \in twice'
            \/ status[cur[k][1]] = "gone"
  PROVE  ReminderHalf'
<1>1. VersionInv' /\ SharedInv'
  BY WorkingTickKeepsHands
<1>2. MailedOnce' /\ SentMeansMailed'
  BY DEF ReminderHalf, MailedOnce, SentMeansMailed, TickWorks
<1>3. \A p \in Reminders : Over(p) => Over(p)' \/ p \in twice'
  BY DEF Over, TickWorks
<1>4. \A p \in Reminders, l \in Ticks : Waits(l, p)' => Waits(l, p)
  BY DEF Waits, TickWorks
<1>5. MailedInv'
  BY <1>3, <1>4 DEF ReminderHalf, MailedInv, TickWorks
<1> QED
  BY <1>1, <1>2, <1>5 DEF ReminderHalf

LEMMA QuietTicks ==
  ASSUME TypeOK, ReminderHalf, NEW k \in Ticks,
         \/ AnswerOk(k) \/ EndTick(k) \/ SendFails(k) \/ TickDies(k)
         \/ \E p \in Reminders : Send(k, p)
  PROVE  ReminderHalf'
<1> USE DEF columns, hist
<1>1. CASE AnswerOk(k)
  <2>1. TickWorks(k)
    BY <1>1 DEF AnswerOk, TickWorks, Hand, Sending, TypeOK
  <2>2. CurInv'
    BY <1>1 DEF AnswerOk, ReminderHalf, CurInv, Sending, TypeOK
  <2> QED
    BY <1>1, <2>1, <2>2, QuietTickKeepsReminders DEF AnswerOk, Waits, TypeOK
<1>2. CASE EndTick(k)
  <2>1. TickWorks(k)
    BY <1>2 DEF EndTick, TickWorks, Hand, Sending, TypeOK
  <2>2. CurInv'
    BY <1>2 DEF EndTick, ReminderHalf, CurInv, Sending, TypeOK
  <2> QED
    BY <1>2, <2>1, <2>2, QuietTickKeepsReminders DEF EndTick, Waits, TypeOK
<1>3. CASE SendFails(k)
  <2>1. TickWorks(k)
    BY <1>3 DEF SendFails, TickWorks, Hand, Sending, TypeOK
  <2>2. CurInv'
    BY <1>3 DEF SendFails, ReminderHalf, CurInv, Sending, TypeOK
  <2> QED
    BY <1>3, <2>1, <2>2, QuietTickKeepsReminders DEF SendFails, Waits, TypeOK
<1>4. CASE TickDies(k)
  <2>1. TickWorks(k)
    BY <1>4 DEF TickDies, TickWorks, Hand, Sending, TypeOK
  <2>2. CurInv'
    BY <1>4 DEF TickDies, ReminderHalf, CurInv, Sending, TypeOK
  <2> QED
    BY <1>4, <2>1, <2>2, QuietTickKeepsReminders DEF TickDies, Waits, TypeOK
<1>5. ASSUME NEW p \in Reminders, Send(k, p) PROVE ReminderHalf'
  <2>1. TickWorks(k)
    BY <1>5 DEF Send, TickWorks, Hand, Sending, TypeOK
  <2>2. CurInv'
    BY <1>5 DEF Send, ReminderHalf, CurInv, Sending, TypeOK
  <2> QED
    BY <1>5, <2>1, <2>2, QuietTickKeepsReminders DEF Send, Waits, TypeOK
<1> QED
  BY <1>1, <1>2, <1>3, <1>4, <1>5

LEMMA NotifyKeepsReminders ==
  ASSUME TypeOK, ReminderHalf, NEW k \in Ticks, Notify(k)
  PROVE  ReminderHalf'
<1>1. /\ UNCHANGED <<status, sentAt, version, batch, cur, mailed, twice, crossed>>
      /\ pc[k] = "notify" /\ pc'[k] = "loop"
      /\ \A l \in Ticks \ {k} : pc'[l] = pc[l]
      /\ told' \subseteq told \cup {cur[k]}
  BY DEF Notify, columns, TypeOK
<1>2. \A l \in Ticks : Hand(l)' = Hand(l)
  BY <1>1 DEF Hand, Sending
<1>3. CurInv' /\ VersionInv' /\ SharedInv'
  BY <1>1, <1>2 DEF ReminderHalf, CurInv, VersionInv, SharedInv, Sending
<1>4. MailedInv'
  BY <1>1 DEF ReminderHalf, MailedInv, Over, Waits
<1>5. MailedOnce' /\ SentMeansMailed'
  BY <1>1 DEF ReminderHalf, MailedOnce, SentMeansMailed, CurInv
<1> QED
  BY <1>3, <1>4, <1>5 DEF ReminderHalf

LEMMA MarkKeepsReminders ==
  ASSUME TypeOK, ReminderHalf, NEW k \in Ticks, Mark(k)
  PROVE  ReminderHalf'
<1> DEFINE p == cur[k]
<1>1. /\ p \in Reminders /\ p[1] \in Tasks /\ p \in Hand(k) /\ mailed[p] > 0 /\ pc[k] = "mark"
      /\ UNCHANGED <<status, version, batch, cur, mailed, told, twice, crossed>>
  BY Pairs DEF Mark, ReminderHalf, CurInv, Sending, Hand, hist
<1>2. /\ pc'[k] \in {"loop", "notify"} /\ \A l \in Ticks \ {k} : pc'[l] = pc[l]
  BY DEF Mark, TypeOK
<1>3. CurInv'
  BY <1>1, <1>2 DEF ReminderHalf, CurInv, Sending
<1>4. CASE status[p[1]] = "gone"
  <2>1. UNCHANGED sentAt
    BY <1>4 DEF Mark
  <2>2. TickWorks(k)
    BY <1>1, <1>2, <2>1 DEF TickWorks, Hand, Sending
  <2> QED
    BY <1>1, <1>2, <1>3, <1>4, <2>1, <2>2, QuietTickKeepsReminders DEF Waits
<1>5. CASE status[p[1]] # "gone"
  <2>1. sentAt' = [sentAt EXCEPT ![p[1]] = TRUE]
    BY <1>5 DEF Mark
  <2>2. \A i \in Tasks : sentAt'[i] <=> sentAt[i] \/ i = p[1]
    BY <1>1, <2>1 DEF TypeOK
  <2>3. TickWorks(k)
    BY <1>1, <1>2, <2>2 DEF TickWorks, Hand, Sending
  <2>4. \A q \in Reminders : Over(q) => Over(q)'
    BY <1>1, <1>2, <2>2, Pairs DEF Over
  <2>5. MailedInv'
    BY <1>1, <1>2, <2>4 DEF ReminderHalf, MailedInv, Waits
  <2>6. mailed[<<p[1], version[p[1]]>>] > 0 \/ <<p[1], version[p[1]]>> \in crossed
    <3>1. CASE p[2] = version[p[1]]
      BY <1>1, <3>1, Pairs
    <3>2. CASE p[2] # version[p[1]]
      BY <1>1, <3>2 DEF ReminderHalf, VersionInv
    <3> QED
      BY <3>1, <3>2
  <2>7. SentMeansMailed' /\ MailedOnce'
    BY <1>1, <2>2, <2>6 DEF ReminderHalf, SentMeansMailed, MailedOnce
  <2> QED
    BY <1>3, <2>3, <2>5, <2>7, WorkingTickKeepsHands DEF ReminderHalf
<1> QED
  BY <1>4, <1>5

LEMMA AcceptKeepsReminders ==
  ASSUME TypeOK, ReminderHalf, NEW k \in Ticks, ServerAccepts(k)
  PROVE  ReminderHalf'
<1> DEFINE p == cur[k]
<1>1. /\ p \in Reminders /\ p \in Hand(k) /\ Waits(k, p) /\ p \notin batch[k]
      /\ pc[k] = "await" /\ pc'[k] = "accepted"
      /\ UNCHANGED <<status, sentAt, version, batch, cur, told, twice, crossed>>
      /\ \A l \in Ticks \ {k} : pc'[l] = pc[l]
  BY DEF ServerAccepts, ReminderHalf, CurInv, Sending, Hand, Waits, columns, TypeOK
<1>2. /\ mailed'[p] = mailed[p] + 1 /\ mailed[p] \in Nat
      /\ \A q \in Reminders : q # p => mailed'[q] = mailed[q]
  BY <1>1 DEF ServerAccepts, TypeOK
<1>3. \A q \in Reminders : mailed[q] > 0 => mailed'[q] > 0
  BY <1>2
<1>4. mailed[p] > 0 => p \in twice
  BY <1>1 DEF ReminderHalf, MailedInv
<1>5. TickWorks(k)
  BY <1>1 DEF ServerAccepts, TickWorks, Hand, Sending
<1>6. CurInv'
  BY <1>1, <1>2, <1>3 DEF ReminderHalf, CurInv, Sending
<1>7. MailedOnce'
  BY <1>1, <1>2, <1>4 DEF ReminderHalf, MailedOnce
<1>8. SentMeansMailed'
  <2>1. told \subseteq Reminders /\ \A i \in Tasks : <<i, version[i]>> \in Reminders
    BY MakesPair DEF TypeOK
  <2> QED
    BY <1>1, <1>3, <2>1 DEF ReminderHalf, SentMeansMailed
<1>9. MailedInv'
  <2>1. \A q \in Reminders : Over(q) => Over(q)'
    BY <1>1 DEF Over
  <2>2. Over(p)'
    BY <1>1 DEF Over
  <2>3. p[2] <= version[p[1]]
    BY <1>1 DEF ReminderHalf, VersionInv
  <2>4. \A q \in Reminders, l \in Ticks : Waits(l, q)' => Waits(l, q)
    BY <1>1 DEF Waits
  <2>5. \A l \in Ticks : Waits(l, p)' => p \in twice
    <3>1. ~Waits(k, p)'
      BY <1>1 DEF Waits
    <3>2. ASSUME NEW l \in Ticks \ {k}, Waits(l, p)' PROVE p \in twice
      BY <1>1, <3>2 DEF ReminderHalf, SharedInv, Waits, Hand, Sending
    <3> QED
      BY <3>1, <3>2
  <2> QED
    BY <1>1, <1>2, <2>1, <2>2, <2>3, <2>4, <2>5 DEF ReminderHalf, MailedInv
<1> QED
  BY <1>5, <1>6, <1>7, <1>8, <1>9, WorkingTickKeepsHands DEF ReminderHalf

LEMMA WriteKeepsReminders ==
  ASSUME TypeOK, TypeOK', ReminderHalf, RequestsInv, NEW r \in Requests, UpdateWrites(r)
  PROVE  ReminderHalf'
<1>0. PICK i \in Tasks : i = req[r].task
  BY DEF UpdateWrites, RequestsInv, InFlight
<1>1. /\ UNCHANGED <<pc, batch, cur, mailed, told, twice>>
      /\ \A j \in Tasks : status[j] = "gone" => status'[j] = "gone"
      /\ crossed \subseteq crossed'
      /\ SetReminder(i, req[r].dto.remind)
  BY <1>0 DEF UpdateWrites, SetStatus, Exists, Alive, ticks, TypeOK
<1>2. CASE UNCHANGED <<sentAt, version>>
  <2>1. CurInv' /\ VersionInv' /\ SharedInv' /\ MailedOnce' /\ SentMeansMailed'
    BY <1>1, <1>2 DEF ReminderHalf, CurInv, VersionInv, SharedInv, MailedOnce,
                      SentMeansMailed, Hand
  <2>2. \A p \in Reminders : Over(p) => Over(p)'
    BY <1>1, <1>2, Pairs DEF Over
  <2>3. MailedInv'
    BY <1>1, <1>2, <2>2 DEF ReminderHalf, MailedInv, Waits
  <2> QED
    BY <2>1, <2>3 DEF ReminderHalf
<1>3. CASE /\ version' = [version EXCEPT ![i] = @ + 1]
           /\ sentAt' = [sentAt EXCEPT ![i] = FALSE]
  <2>1. /\ \A j \in Tasks : j # i => version'[j] = version[j] /\ (sentAt'[j] <=> sentAt[j])
        /\ version'[i] = version[i] + 1 /\ version[i] \in Nat /\ ~sentAt'[i]
    BY <1>3, ConstantsAssumption DEF TypeOK
  <2>2. \A k \in Ticks : \A p \in Hand(k) : p[1] = i => <<i, version'[i]>> \in crossed'
    BY <1>0, <2>1 DEF UpdateWrites
  <2>3. \A k \in Ticks : Hand(k)' = Hand(k) /\ Hand(k) \subseteq Reminders
    BY <1>1 DEF Hand, ReminderHalf, CurInv, TypeOK
  <2>4. VersionInv'
    <3> SUFFICES ASSUME NEW k \in Ticks, NEW p \in Hand(k)
                 PROVE  /\ p[2] <= version'[p[1]]
                        /\ p[2] # version'[p[1]] => <<p[1], version'[p[1]]>> \in crossed'
      BY <2>3 DEF VersionInv
    <3>1. p[1] \in Tasks /\ p[2] \in Nat
      BY <2>3, Pairs, ConstantsAssumption
    <3>2. /\ p[2] <= version[p[1]]
          /\ p[2] # version[p[1]] => <<p[1], version[p[1]]>> \in crossed
      BY DEF ReminderHalf, VersionInv
    <3>3. CASE p[1] = i
      BY <2>1, <2>2, <3>1, <3>2, <3>3
    <3>4. CASE p[1] # i
      BY <1>1, <2>1, <3>1, <3>2, <3>4
    <3> QED
      BY <3>3, <3>4
  <2>5. CurInv' /\ SharedInv' /\ MailedOnce'
    BY <1>1, <2>3 DEF ReminderHalf, CurInv, SharedInv, MailedOnce
  <2>6. SentMeansMailed'
    BY <1>1, <2>1 DEF ReminderHalf, SentMeansMailed
  <2>7. MailedInv'
    <3> SUFFICES ASSUME NEW p \in Reminders, mailed[p] > 0
                 PROVE  /\ p[2] <= version'[p[1]]
                        /\ p \in twice \/ (Over(p)' /\ \A k \in Ticks : ~Waits(k, p)')
      BY <1>1 DEF MailedInv
    <3>1. /\ p[2] <= version[p[1]]
          /\ p \in twice \/ (Over(p) /\ \A k \in Ticks : ~Waits(k, p))
      BY DEF ReminderHalf, MailedInv
    <3>2. p[1] \in Tasks /\ p[2] \in Nat
      BY Pairs, ConstantsAssumption
    <3>3. p[2] <= version'[p[1]] /\ (p[1] = i => p[2] # version'[p[1]])
      BY <2>1, <3>1, <3>2
    <3>4. Over(p) => Over(p)'
      BY <1>1, <2>1, <3>2, <3>3 DEF Over
    <3>5. \A k \in Ticks : Waits(k, p)' => Waits(k, p)
      BY <1>1 DEF Waits
    <3> QED
      BY <3>1, <3>3, <3>4, <3>5
  <2> QED
    BY <2>4, <2>5, <2>6, <2>7 DEF ReminderHalf
<1> QED
  BY <1>1, <1>2, <1>3 DEF SetReminder

\* The invariant of the reminders is kept by every step.
LEMMA ReminderStep ==
  ASSUME TypeOK, TypeOK', ReminderHalf, RequestsInv, [Next]_vars
  PROVE  ReminderHalf'
<1>1. ASSUME NEW k \in Ticks, TickStep(k) \/ SendFails(k) \/ TickDies(k) PROVE ReminderHalf'
  BY <1>1, QueryKeepsReminders, AcceptKeepsReminders, MarkKeepsReminders,
     NotifyKeepsReminders, QuietTicks DEF TickStep
<1>2. ASSUME NEW r \in Requests, UpdateSpawns(r) PROVE ReminderHalf'
  <2>1. \A i \in Tasks : status[i] = "gone" => status'[i] = "gone"
    BY <1>2 DEF UpdateSpawns, NewRow, Unused, TypeOK
  <2> QED
    BY <1>2, <2>1, RowsKeepReminders DEF UpdateSpawns, hist
<1>3. ASSUME NEW r \in Requests, RequestFails(r) \/ UpdateMissesRow(r)
      PROVE  UNCHANGED reminderVars
  BY <1>3 DEF RequestFails, UpdateMissesRow, columns, hist, reminderVars
<1>4. ASSUME NEW r \in Requests, NEW i \in Tasks, NEW d \in Dto, UpdateReads(r, i, d)
      PROVE  UNCHANGED reminderVars
  BY <1>4 DEF UpdateReads, columns, reminderVars
<1>5. ASSUME NEW i \in Tasks, Remove(i) PROVE ReminderHalf'
  <2>1. \A j \in Tasks : status[j] = "gone" => status'[j] = "gone"
    BY <1>5 DEF Remove, TypeOK
  <2> QED
    BY <1>5, <2>1, RowsKeepReminders DEF Remove, hist
<1>6. ASSUME NEW i \in Tasks, NEW s \in Alive, NEW a \in Remind, Create(i, s, a)
      PROVE  ReminderHalf'
  <2>1. \A j \in Tasks : status[j] = "gone" => status'[j] = "gone"
    BY <1>6 DEF Create, Unused
  <2> QED
    BY <1>6, <2>1, RowsKeepReminders DEF Create
<1>7. ASSUME NEW i \in Tasks, TimePasses(i) PROVE UNCHANGED reminderVars
  BY <1>7 DEF TimePasses, hist, reminderVars
<1>8. SignInOrOut \/ UNCHANGED vars => UNCHANGED reminderVars
  BY DEF SignInOrOut, columns, hist, vars, reminderVars
<1> QED
  BY <1>1, <1>2, <1>3, <1>4, <1>5, <1>6, <1>7, <1>8, WriteKeepsReminders,
     RemindersUnchanged DEF Next, RequestStep

-----------------------------------------------------------------------------
(* The theorems.                                                           *)

LEMMA Halves == IInv <=> TypeOK /\ ReminderHalf /\ SeriesHalf
  BY DEF IInv, ReminderHalf, SeriesHalf

LEMMA TypeStep ==
  ASSUME IInv, [Next]_vars
  PROVE  TypeOK'
<1>1. TypeOK /\ CurInv /\ RequestsInv
  BY DEF IInv
<1>2. CASE UNCHANGED vars
  BY <1>1, <1>2 DEF vars, columns, ticks, hist, TypeOK
<1>3. SignInOrOut => TypeOK'
  <2> SUFFICES ASSUME SignInOrOut PROVE TypeOK'
    OBVIOUS
  <2>1. token' \in BOOLEAN
    BY Zenon DEF SignInOrOut
  <2> QED
    BY <1>1, <2>1 DEF SignInOrOut, columns, ticks, hist, TypeOK
<1> QED
  BY <1>1, <1>2, <1>3, TicksKeepType, RequestsKeepType, UserKeepsType DEF Next

(* The inductive invariant: whatever ticks overlap, requests race, writes  *)
(* fail and processes die, the columns, the ticks and the requests agree   *)
(* on which reminder was mailed and which occurrence comes next.           *)
THEOREM InductiveInvariant == Spec => []IInv
<1>1. Init => IInv
  BY InitType, InitReminders, InitSeries, Halves
<1>2. IInv /\ [Next]_vars => IInv'
  <2> SUFFICES ASSUME IInv, [Next]_vars PROVE IInv'
    OBVIOUS
  <2>1. TypeOK'
    BY TypeStep
  <2>2. ReminderHalf'
    BY <2>1, ReminderStep, Halves DEF SeriesHalf
  <2>3. SeriesHalf'
    BY <2>1, SeriesStep, Halves
  <2> QED
    BY <2>1, <2>2, <2>3 DEF IInv, ReminderHalf, SeriesHalf
<1> QED
  BY <1>1, <1>2, PTL DEF Spec

(* A reminder is mailed twice only if two ticks held it at once or an      *)
(* accepted mail went unrecorded.                                          *)
THEOREM RemindersMailedOnce == Spec => []MailedOnce
<1>1. IInv => MailedOnce
  BY DEF IInv
<1> QED
  BY <1>1, InductiveInvariant, PTL

(* reminderSentAt and the notification are about mail that was accepted,   *)
(* but for a reminder set while a tick held an earlier one of the task.    *)
THEOREM MarksAreTrue == Spec => []SentMeansMailed
<1>1. IInv => SentMeansMailed
  BY DEF IInv
<1> QED
  BY <1>1, InductiveInvariant, PTL

(* A completed occurrence before the end date has a next one, or the       *)
(* creation of it is under way or was cut short.                           *)
THEOREM SeriesGoesOn == Spec => []ChainContinues
<1>1. IInv => ChainContinues
  BY DEF IInv
<1> QED
  BY <1>1, InductiveInvariant, PTL

(* An occurrence is created once, unless an earlier one was reopened or    *)
(* updated by two requests at once.                                        *)
THEOREM OccurrencesAreUnique == Spec => []OneSuccessor
<1>1. IInv => OneSuccessor
  BY DEF IInv
<1> QED
  BY <1>1, InductiveInvariant, PTL

(* Reminders are mailed once and marked truly, whatever overlaps.          *)
THEOREM RemindersAlwaysHold == Spec => []RemindersHold
  BY InductiveInvariant, RemindersMailedOnce, MarksAreTrue, PTL DEF RemindersHold

(* A series goes on without a double, whatever overlaps.                   *)
THEOREM SeriesAlwaysHolds == Spec => []SeriesHolds
  BY InductiveInvariant, SeriesGoesOn, OccurrencesAreUnique, PTL DEF SeriesHolds
=============================================================================
