-------------------------- MODULE SafePartsProofs --------------------------
(***************************************************************************)
(* Theorems about the components of SafeParts, each for any values of its  *)
(* constants, and about the commitment ledger for any number of messages,  *)
(* requests and restarts.                                                  *)
(***************************************************************************)
EXTENDS CommitmentLedger, SafeParts, FiniteSetTheorems, SequenceTheorems, WellFoundedInduction, TLAPS

-----------------------------------------------------------------------------
(* The commitment ledger.  Row, the part of IInv on the columns, is        *)
(* inductive whatever overlaps; Serial is what holds of promotions until   *)
(* two requests have overlapped.                                           *)

\* All of IInv but Serial.
Row == TypeOK /\ ColumnsAgree /\ HintIsNewer /\ RowStays

LEMMA InitIInv == Init => IInv
<1> SUFFICES ASSUME Init PROVE IInv
  OBVIOUS
<1> USE ConstantsAssumption DEF Init, None, Choices, Closed, InFlight
<1>1. TypeOK
  <2>1. suggest \in BOOLEAN /\ resolved \in BOOLEAN /\ overlapped \in BOOLEAN
    BY Zenon
  <2>2. /\ pc \in [Requests -> {"new", "ended"} \cup InFlight]
        /\ choice \in [Requests -> Choices]
    OBVIOUS
  <2> QED
    BY <2>1, <2>2 DEF TypeOK, Messages, Statuses
<1>2. ColumnsAgree /\ HintIsNewer
  BY DEF ColumnsAgree, HintIsNewer
<1>3. RowStays /\ Serial
  BY DEF RowStays, Serial, Alone, TaskMeansPromoted, TasksAccounted
<1> QED
  BY <1>1, <1>2, <1>3 DEF IInv

\* Mail, time and the worker.
LEMMA WorkerKeepsRow ==
  ASSUME Row,
         \/ \E m \in Messages : Arrive(m)
         \/ ModelChange \/ Worker \/ Tick
  PROVE  Row'
<1> USE ConstantsAssumption DEF Row, TypeOK, ColumnsAgree, HintIsNewer,
        RowStays, Messages, None, Choices, Statuses, Closed, InFlight, row,
        worker, reqs, hist
<1>1. ASSUME NEW m \in Messages, Arrive(m) PROVE Row'
  BY <1>1 DEF Arrive
<1>2. CASE ModelChange
  BY <1>2 DEF ModelChange
<1>3. CASE StartTick
  BY <1>3 DEF StartTick
<1>4. CASE Classify
  BY <1>4 DEF Classify
<1>5. CASE Project
  <2>1. CASE NewRow
    BY <1>5, <2>1 DEF Project, NewRow
  <2>2. CASE SeenAgain \/ UNCHANGED <<row, idle>>
    BY <1>5, <2>2 DEF Project, SeenAgain
  <2> QED
    BY <1>5, <2>1, <2>2 DEF Project
<1>6. CASE Flag
  <2>1. suggest' \in BOOLEAN
    BY <1>6, Zenon DEF Flag
  <2>2. resolved' = resolved /\ resolved \in BOOLEAN
    BY <1>6 DEF Flag
  <2>3. TypeOK'
    BY <1>6, <2>1, <2>2 DEF Flag
  <2>4. ColumnsAgree'
    BY <1>6 DEF Flag, Answers
  <2>5. HintIsNewer' /\ RowStays'
    BY <1>6 DEF Flag, Answers
  <2> QED
    BY <2>3, <2>4, <2>5
<1>7. CASE LedgerWriteFails
  BY <1>7 DEF LedgerWriteFails
<1>8. CASE EndTick
  BY <1>8 DEF EndTick, Archive
<1>9. CASE Tick
  BY <1>9 DEF Tick
<1> QED
  BY <1>1, <1>2, <1>3, <1>4, <1>5, <1>6, <1>7, <1>8, <1>9 DEF Worker

\* The user's requests, and a restart under them.
LEMMA RequestsKeepRow ==
  ASSUME Row,
         \/ Crash
         \/ \E r \in Requests :
              \/ \E c \in Choices : UpdateReads(r, c)
              \/ UpdateWrites(r)
              \/ PromoteReads(r) \/ PromoteCreates(r) \/ PromoteWrites(r)
              \/ PromoteUndoes(r)
  PROVE  Row'
<1> USE ConstantsAssumption DEF Row, TypeOK, ColumnsAgree, HintIsNewer,
        RowStays, Messages, None, Choices, Statuses, Closed, InFlight, row,
        worker, reqs, hist, Goto
<1>1. CASE Crash
  BY <1>1 DEF Crash
<1>2. ASSUME NEW r \in Requests, NEW c \in Choices, UpdateReads(r, c) PROVE Row'
  BY <1>2 DEF UpdateReads, Starts
<1>3. ASSUME NEW r \in Requests, UpdateWrites(r) PROVE Row'
  <2>1. pc' \in [Requests -> {"new", "ended"} \cup InFlight]
    BY <1>3 DEF UpdateWrites
  <2>2. status # "absent" /\ choice[r] \in Choices
    BY <1>3 DEF UpdateWrites
  <2>3. CASE SetStatus(choice[r])
    <3>1. resolved' \in BOOLEAN /\ (resolved' <=> choice[r] # "open") /\ suggest' = FALSE
      BY <2>3, Zenon DEF SetStatus
    <3>2. /\ status' = choice[r]
          /\ UNCHANGED <<hint, source, task, idle, tasks, worker, choice,
                         crashes, leaked, overlapped>>
      BY <1>3, <2>3, Zenon DEF UpdateWrites, SetStatus
    <3>3. /\ status' \in Statuses
          /\ idle' \in 0 .. IdleLimit
      BY <2>2, <3>2
    <3>4. suggest' \in BOOLEAN /\ resolved' \in BOOLEAN
      BY <3>1, Zenon
    <3>5. TypeOK'
      BY <2>1, <3>2, <3>3, <3>4
    <3>6. ColumnsAgree' /\ HintIsNewer' /\ RowStays'
      BY <1>3, <2>1, <2>2, <2>3, <3>1 DEF UpdateWrites, SetStatus
    <3> QED
      BY <3>5, <3>6
  <2>4. CASE UNCHANGED <<row, idle>>
    BY <1>3, <2>1, <2>2, <2>4 DEF UpdateWrites
  <2> QED
    BY <1>3, <2>3, <2>4 DEF UpdateWrites
<1>4. ASSUME NEW r \in Requests, PromoteReads(r) PROVE Row'
  BY <1>4 DEF PromoteReads, Starts, Promotable
<1>5. ASSUME NEW r \in Requests, PromoteCreates(r) PROVE Row'
  BY <1>5 DEF PromoteCreates
<1>6. ASSUME NEW r \in Requests, PromoteWrites(r) PROVE Row'
  <2>1. pc' \in [Requests -> {"new", "ended"} \cup InFlight] /\ status # "absent"
    BY <1>6 DEF PromoteWrites
  <2>2. CASE SetPromoted(r)
    BY <1>6, <2>1, <2>2 DEF PromoteWrites, SetPromoted
  <2>3. CASE UNCHANGED <<row, idle>>
    BY <1>6, <2>1, <2>3 DEF PromoteWrites
  <2> QED
    BY <1>6, <2>2, <2>3 DEF PromoteWrites
<1>7. ASSUME NEW r \in Requests, PromoteUndoes(r) PROVE Row'
  BY <1>7 DEF PromoteUndoes
<1> QED
  BY <1>1, <1>2, <1>3, <1>4, <1>5, <1>6, <1>7

LEMMA StepKeepsRow == Row /\ [Next]_vars => Row'
<1>1. ASSUME Row, UNCHANGED vars PROVE Row'
  BY <1>1 DEF vars, row, worker, reqs, hist, Row, TypeOK, ColumnsAgree,
              HintIsNewer, RowStays
<1> QED
  BY <1>1, WorkerKeepsRow, RequestsKeepRow DEF Next

-----------------------------------------------------------------------------
(* Until two requests overlap.                                             *)

LEMMA OtherStepsKeepSerial ==
  ASSUME IInv,
         \/ \E m \in Messages : Arrive(m)
         \/ ModelChange \/ Worker \/ Tick \/ Crash \/ UNCHANGED vars
  PROVE  /\ Serial'
         /\ status = "promoted" => status' = "promoted" /\ task' = task
<1> USE DEF IInv, TypeOK, RowStays, Serial, Alone, TaskMeansPromoted,
        TasksAccounted, InFlight, row, worker, reqs, hist
<1>1. CASE Crash
  BY <1>1 DEF Crash
<1>2. CASE Project
  BY <1>2 DEF Project, NewRow, SeenAgain
<1>3. CASE Flag
  BY <1>3 DEF Flag
<1>4. CASE EndTick
  BY <1>4 DEF EndTick, Archive
<1>5. CASE Classify
  BY <1>5 DEF Classify
<1>6. CASE StartTick \/ LedgerWriteFails
  BY <1>6 DEF StartTick, LedgerWriteFails
<1>7. CASE ModelChange \/ Tick \/ \E m \in Messages : Arrive(m)
  BY <1>7 DEF ModelChange, Tick, Arrive
<1>8. CASE UNCHANGED vars
  BY <1>8 DEF vars
<1> QED
  BY <1>1, <1>2, <1>3, <1>4, <1>5, <1>6, <1>7, <1>8 DEF Worker

\* overlapped never goes back, so the step starts without an overlap.
LEMMA RequestsKeepSerial ==
  ASSUME IInv, NEW r \in Requests,
         \/ \E c \in Choices : UpdateReads(r, c)
         \/ UpdateWrites(r)
         \/ PromoteReads(r) \/ PromoteCreates(r) \/ PromoteWrites(r)
         \/ PromoteUndoes(r)
  PROVE  /\ Serial'
         /\ status = "promoted" /\ ~overlapped => status' = "promoted" /\ task' = task
<1> USE NoTaskAssumption
    DEF IInv, TypeOK, Serial, Alone, TaskMeansPromoted, TasksAccounted,
        InFlight, Choices, row, worker, reqs, hist, Goto
<1>1. ASSUME NEW c \in Choices, UpdateReads(r, c)
      PROVE  Serial' /\ status' = status /\ task' = task
  BY <1>1 DEF UpdateReads, Starts
<1>2. CASE UpdateWrites(r)
  BY <1>2 DEF UpdateWrites, SetStatus
<1>3. CASE PromoteReads(r)
  BY <1>3 DEF PromoteReads, Starts, Promotable
<1>4. CASE PromoteCreates(r)
  BY <1>4 DEF PromoteCreates
<1>5. CASE PromoteWrites(r)
  BY <1>5 DEF PromoteWrites, SetPromoted
<1>6. CASE PromoteUndoes(r)
  BY <1>6 DEF PromoteUndoes
<1> QED
  BY <1>1, <1>2, <1>3, <1>4, <1>5, <1>6

LEMMA StepKeepsIInv ==
  IInv /\ [Next]_vars
    => /\ IInv'
       /\ status = "promoted" /\ ~overlapped => status' = "promoted" /\ task' = task
<1> SUFFICES ASSUME IInv, [Next]_vars
             PROVE  /\ IInv'
                    /\ status = "promoted" /\ ~overlapped
                         => status' = "promoted" /\ task' = task
  OBVIOUS
<1>1. Row'
  BY StepKeepsRow DEF IInv, Row
<1>2. /\ Serial'
      /\ status = "promoted" /\ ~overlapped => status' = "promoted" /\ task' = task
  BY OtherStepsKeepSerial, RequestsKeepSerial DEF Next
<1> QED
  BY <1>1, <1>2 DEF IInv, Row

-----------------------------------------------------------------------------
(* The inductive invariant: mail, overlapping requests, failed writes and  *)
(* restarts keep the row well formed, and its promotions terminal until    *)
(* two requests have overlapped.                                           *)
THEOREM InductiveInvariant == Spec => []IInv
  BY InitIInv, StepKeepsIInv, PTL DEF Spec

(* Overlapping requests never leave a row whose date of resolution, review *)
(* flag and status disagree.                                               *)
THEOREM ColumnsAlwaysAgree == Spec => []ColumnsAgree
<1>1. IInv => ColumnsAgree
  BY DEF IInv
<1> QED
  BY <1>1, InductiveInvariant, PTL

(* In whatever order mail is classified, a hint comes from newer mail.     *)
THEOREM HintsAreNewer == Spec => []HintIsNewer
<1>1. IInv => HintIsNewer
  BY DEF IInv
<1> QED
  BY <1>1, InductiveInvariant, PTL

(* Until two requests overlap, a commitment never has two tasks that were  *)
(* not leaked, whatever fails or restarts.                                 *)
THEOREM OneTaskAtMost == Spec => []OneTaskEach
<1>1. IInv => OneTaskEach
  BY DEF IInv, Serial, TasksAccounted, OneTaskEach, OneTask
<1> QED
  BY <1>1, InductiveInvariant, PTL

(* Until two requests overlap, a promoted row stays promoted to the same   *)
(* task.                                                                   *)
THEOREM PromotionIsTerminal == Spec => PromotedStays
<1>1. IInv /\ [Next]_vars
        => [status = "promoted" /\ ~overlapped
              => status' = "promoted" /\ task' = task]_vars
  BY StepKeepsIInv
<1> QED
  BY <1>1, InductiveInvariant, PTL DEF Spec, PromotedStays

(* The columns of the row always agree, hints come from newer mail, and    *)
(* until two requests overlap a commitment gets one task.                  *)
THEOREM LedgerAlwaysHolds == Spec => []LedgerHolds
  BY InductiveInvariant, ColumnsAlwaysAgree, HintsAreNewer, OneTaskAtMost, PTL
     DEF LedgerHolds

-----------------------------------------------------------------------------
(* A behaviour of SafeParts is one of its subject.                         *)

LEMMA FirstOfSubject ==
  ASSUME FirstSafe
  PROVE  /\ subject = "compose" => Compose!Init
         /\ subject = "ask" => Panel!Init
         /\ subject = "mirror" => Mirror!Init
         /\ subject = "event soon" => Soon!Init
         /\ subject = "attachments" => Att!Init
         /\ subject = "board" => Board!Init
BY DEF FirstSafe, InitWindow, InitPanel, InitMirror, InitSoon, InitFiles, InitBoard

LEMMA StepOfSubject ==
  ASSUME [StepSafe]_safeVars
  PROVE  /\ subject' = subject
         /\ subject = "compose" => [Compose!Next]_Compose!vars
         /\ subject = "ask" => [Panel!Next]_Panel!vars
         /\ subject = "mirror" => [Mirror!Next]_Mirror!vars
         /\ subject = "event soon" => [Soon!Next]_Soon!vars
         /\ subject = "attachments" => [Att!Next]_Att!vars
         /\ subject = "board" => [Board!Next]_Board!vars
<1>1. CASE StepSafe
  BY <1>1 DEF StepSafe, InWindow, InPanel, InMirror, InSoon, InFiles, InBoard
<1>2. CASE UNCHANGED safeVars
  <2>1. UNCHANGED Compose!vars
    BY <1>2 DEF safeVars, windowVars, Compose!vars, Compose!window, Compose!undo, Compose!record
  <2>2. UNCHANGED Panel!vars
    BY <1>2 DEF safeVars, panelVars, Panel!vars, Panel!store, Panel!question, Panel!pin,
                Panel!cards, Panel!counts, Panel!hist
  <2>3. UNCHANGED Mirror!vars
    BY <1>2 DEF safeVars, mirrorVars, Mirror!vars
  <2>4. UNCHANGED Soon!vars
    BY <1>2 DEF safeVars, soonVars, Soon!vars
  <2>5. UNCHANGED Att!vars
    BY <1>2 DEF safeVars, filesVars, Att!vars
  <2>6. UNCHANGED Board!vars
    BY <1>2 DEF safeVars, boardVars, Board!vars, Board!table, Board!list, Board!view, Board!picks,
                Board!calls, Board!hist
  <2>7. subject' = subject
    BY <1>2 DEF safeVars
  <2> QED
    BY <2>1, <2>2, <2>3, <2>4, <2>5, <2>6, <2>7
<1> QED
  BY <1>1, <1>2

-----------------------------------------------------------------------------
(* The attachments of a task (TaskAttachments).                            *)

LEMMA AsManyFiles == ASSUME NEW S PROVE Att!Cardinality(S) = Cardinality(S)
  BY DEF Att!Cardinality, Cardinality

FileLimits == MaxFiles \in Nat /\ Limit \in Nat

\* What a request will write fits; the files it adds are nobody else's.
RequestOf(r) ==
    /\ req[r].existing \subseteq added /\ req[r].drops \subseteq req[r].existing
    /\ req[r].adds \subseteq 1 .. uploaded /\ req[r].adds \cap added = {}
    /\ req[r].adds = {} \/ req[r].drops = {}
    /\ Cardinality(req[r].existing \cup req[r].adds) <= Limit

FilesInv ==
    /\ Att!TypeOK /\ Att!WithinLimit /\ Att!AttachmentsKept
    /\ attachments \subseteq added
    /\ \A r \in Callers : RequestOf(r)
    /\ \A r, s \in Callers : r # s => req[r].adds \cap req[s].adds = {}

LEMMA FilesFinite ==
  ASSUME FileLimits, NEW S, S \subseteq 1 .. MaxFiles
  PROVE  IsFiniteSet(S) /\ Cardinality(S) \in Nat
<1>1. IsFiniteSet(1 .. MaxFiles)
  BY FS_Interval DEF FileLimits
<1>2. IsFiniteSet(S)
  BY <1>1, FS_Subset
<1> QED
  BY <1>2, FS_CardinalityType

LEMMA SmallerFits ==
  ASSUME FileLimits, NEW S, NEW T, T \subseteq 1 .. MaxFiles, S \subseteq T, Cardinality(T) <= Limit
  PROVE  Cardinality(S) <= Limit
<1>1. Cardinality(S) <= Cardinality(T) /\ Cardinality(S) \in Nat /\ Cardinality(T) \in Nat
  BY FilesFinite, FS_Subset
<1> QED
  BY <1>1 DEF FileLimits

LEMMA UnionFits ==
  ASSUME FileLimits, NEW S, NEW T, S \subseteq 1 .. MaxFiles, T \subseteq 1 .. MaxFiles,
         Cardinality(S) + Cardinality(T) <= Limit
  PROVE  Cardinality(S \cup T) <= Limit
<1>1. IsFiniteSet(S) /\ IsFiniteSet(T) /\ Cardinality(S) \in Nat /\ Cardinality(T) \in Nat
      /\ Cardinality(S \cap T) \in Nat
  BY FilesFinite
<1>2. Cardinality(S \cup T) = Cardinality(S) + Cardinality(T) - Cardinality(S \cap T)
  BY <1>1, FS_Union
<1> QED
  BY <1>1, <1>2 DEF FileLimits

LEMMA FilesInit == ASSUME FileLimits, Att!Init PROVE FilesInv
<1>1. attachments = {} /\ uploaded = 0 /\ added = {} /\ deleted = {} /\ overruled = {}
      /\ req \in [Callers -> {Att!None}]
  BY DEF Att!Init
<1>2. Cardinality({}) = 0
  BY FS_EmptySet
<1>3. \A r \in Callers : req[r] = Att!None
  BY <1>1
<1>4. Att!TypeOK
  <2>1. Att!None \in [writes : BOOLEAN, existing : SUBSET Att!Files,
                      adds : SUBSET Att!Files, drops : SUBSET Att!Files]
    BY DEF Att!None
  <2>2. req \in [Callers -> [writes : BOOLEAN, existing : SUBSET Att!Files,
                             adds : SUBSET Att!Files, drops : SUBSET Att!Files]]
    BY <2>1 DEF Att!Init
  <2> QED
    BY <1>1, <2>2 DEF FileLimits, Att!TypeOK
<1>5. \A r \in Callers : RequestOf(r)
  <2>1. Cardinality({} \cup {}) = 0
    BY <1>2
  <2>2. \A r \in Callers : req[r].existing = {} /\ req[r].adds = {} /\ req[r].drops = {}
    BY <1>3 DEF Att!None
  <2>3. ASSUME NEW r \in Callers PROVE Cardinality(req[r].existing \cup req[r].adds) <= Limit
    <3>1. req[r].existing \cup req[r].adds = {} \cup {}
      BY <2>2
    <3>2. Cardinality(req[r].existing \cup req[r].adds) = 0
      BY <2>1, <3>1
    <3> QED
      BY <3>2 DEF FileLimits
  <2> QED
    BY <1>1, <2>2, <2>3 DEF RequestOf
<1>6. Att!WithinLimit
  BY <1>1, <1>2, AsManyFiles DEF FileLimits, Att!WithinLimit
<1> QED
  BY <1>1, <1>3, <1>4, <1>5, <1>6 DEF FilesInv, Att!AttachmentsKept, Att!None

\* A request that reads: what it will write fits, and its files are new.
LEMMA FilesRead ==
  ASSUME FileLimits, FilesInv, NEW r \in Callers, NEW adds, NEW drops, Att!Reads(r, adds, drops),
         adds \subseteq 1 .. MaxFiles, uploaded' \in 0 .. MaxFiles, uploaded <= uploaded',
         adds \subseteq uploaded + 1 .. uploaded', drops \subseteq attachments,
         adds = {} \/ drops = {}, Cardinality(attachments \cup adds) <= Limit
  PROVE  FilesInv'
<1> DEFINE new == [writes |-> TRUE, existing |-> attachments, adds |-> adds, drops |-> drops]
<1>1. req' = [req EXCEPT ![r] = new] /\ attachments' = attachments
      /\ added' = added /\ deleted' = deleted /\ overruled' = overruled
  BY DEF Att!Reads
<1>2. Att!TypeOK /\ uploaded \in 0 .. MaxFiles /\ added \subseteq 1 .. uploaded
      /\ attachments \subseteq added /\ MaxFiles \in Nat
  BY DEF FilesInv, Att!TypeOK, FileLimits
<1>3. new \in [writes : BOOLEAN, existing : SUBSET Att!Files, adds : SUBSET Att!Files,
               drops : SUBSET Att!Files]
  <2>1. attachments \subseteq 1 .. MaxFiles
    BY <1>2
  <2> QED
    BY <2>1 DEF Att!Files
<1>4. req'[r] = new /\ \A s \in Callers : s # r => req'[s] = req[s]
  BY <1>1, <1>2 DEF Att!TypeOK
<1> HIDE DEF new
<1>5. added \subseteq 1 .. uploaded' /\ \A n : n \in 1 .. uploaded => n \in 1 .. uploaded'
  BY <1>2
<1>6. Att!TypeOK'
  <2>1. req' \in [Callers -> [writes : BOOLEAN, existing : SUBSET Att!Files,
                              adds : SUBSET Att!Files, drops : SUBSET Att!Files]]
    BY <1>1, <1>2, <1>3 DEF Att!TypeOK
  <2> QED
    BY <1>1, <1>2, <1>5, <2>1 DEF Att!TypeOK
<1>7. adds \cap added = {} /\ adds \subseteq 1 .. uploaded' /\ \A s \in Callers : adds \cap req[s].adds = {}
  <2>1. \A n \in adds : n \notin 1 .. uploaded /\ n \in 1 .. uploaded'
    BY <1>2
  <2>2. \A s \in Callers : req[s].adds \subseteq 1 .. uploaded
    BY DEF FilesInv, RequestOf
  <2> QED
    BY <1>2, <2>1, <2>2
<1>8. new.existing = attachments /\ new.adds = adds /\ new.drops = drops
  BY DEF new
<1>9. ASSUME NEW s \in Callers PROVE RequestOf(s)'
  <2>1. RequestOf(s)
    BY DEF FilesInv
  <2>2. CASE s = r
    BY <1>1, <1>2, <1>4, <1>7, <1>8, <2>2 DEF RequestOf
  <2>3. CASE s # r
    BY <1>1, <1>4, <1>5, <2>1, <2>3 DEF RequestOf
  <2> QED
    BY <2>2, <2>3
<1>10. \A s, u \in Callers : s # u => req'[s].adds \cap req'[u].adds = {}
  BY <1>4, <1>7, <1>8 DEF FilesInv
<1> QED
  BY <1>1, <1>6, <1>9, <1>10 DEF FilesInv, Att!WithinLimit, Att!AttachmentsKept

LEMMA FilesNext == ASSUME FileLimits, FilesInv, [Att!Next]_(Att!vars) PROVE FilesInv'
<1>1. Att!TypeOK /\ attachments \subseteq added /\ added \subseteq 1 .. uploaded
      /\ uploaded \in 0 .. MaxFiles /\ MaxFiles \in Nat /\ attachments \subseteq 1 .. MaxFiles
  <2>1. uploaded \in 0 .. MaxFiles /\ added \subseteq 1 .. uploaded /\ MaxFiles \in Nat
        /\ attachments \subseteq added /\ Att!TypeOK
    BY DEF FilesInv, Att!TypeOK, FileLimits
  <2> QED
    BY <2>1
<1>2. CASE \E r \in Callers : Att!AddAttachments(r)
  <2>1. PICK r \in Callers : Att!AddAttachments(r)
    BY <1>2
  <2>2. PICK last \in uploaded + 1 .. MaxFiles :
          /\ Att!Fits(attachments, uploaded + 1 .. last)
          /\ Att!Reads(r, uploaded + 1 .. last, {}) /\ uploaded' = last
    BY <2>1 DEF Att!AddAttachments
  <2>3. uploaded + 1 .. last \subseteq 1 .. MaxFiles /\ last \in 0 .. MaxFiles /\ uploaded <= last
    BY <1>1
  <2>4. Cardinality(attachments \cup (uploaded + 1 .. last)) <= Limit
    <3>1. Cardinality(attachments) + Cardinality(uploaded + 1 .. last) <= Limit
      BY <2>2, AsManyFiles DEF Att!Fits
    <3> QED
      BY <1>1, <2>3, <3>1, UnionFits
  <2>5. uploaded + 1 .. last \subseteq uploaded + 1 .. uploaded' /\ uploaded' \in 0 .. MaxFiles
        /\ uploaded <= uploaded'
    BY <2>2, <2>3
  <2>0. PICK fs : fs = uploaded + 1 .. last
    OBVIOUS
  <2>6. Att!Reads(r, fs, {}) /\ fs \subseteq 1 .. MaxFiles
        /\ fs \subseteq uploaded + 1 .. uploaded' /\ Cardinality(attachments \cup fs) <= Limit
    BY <2>0, <2>2, <2>3, <2>4, <2>5
  <2>7. PICK drops : drops = {}
    OBVIOUS
  <2>8. Att!Reads(r, fs, drops) /\ drops \subseteq attachments /\ (fs = {} \/ drops = {})
    BY <2>6, <2>7
  <2> QED
    BY <2>5, <2>6, <2>8, FilesRead
<1>3. CASE \E r \in Callers : Att!DeleteAttachment(r)
  <2>1. PICK r \in Callers : Att!DeleteAttachment(r)
    BY <1>3
  <2>2. PICK id \in attachments : Att!Reads(r, {}, {id}) /\ uploaded' = uploaded
    BY <2>1 DEF Att!DeleteAttachment
  <2>3. Cardinality(attachments \cup {}) <= Limit /\ uploaded <= uploaded'
    <3>1. attachments \cup {} = attachments
      OBVIOUS
    <3> QED
      BY <1>1, <2>2, <3>1, AsManyFiles DEF FilesInv, Att!WithinLimit
  <2> QED
    BY <1>1, <2>2, <2>3, FilesRead
<1>4. CASE \E r \in Callers : Att!Writes(r)
  <2>1. PICK r \in Callers : Att!Writes(r)
    BY <1>4
  <2>2. /\ attachments' = (req[r].existing \cup req[r].adds) \ req[r].drops
        /\ added' = added \cup req[r].adds /\ deleted' = deleted \cup req[r].drops
        /\ overruled' = overruled \cup (attachments \ req[r].existing)
                                  \cup (req[r].existing \ attachments)
        /\ req' = [req EXCEPT ![r] = Att!None] /\ uploaded' = uploaded
    BY <2>1 DEF Att!Writes, Att!Merged
  <2>3. RequestOf(r)
    BY DEF FilesInv
  <2>4. req'[r] = Att!None /\ \A s \in Callers : s # r => req'[s] = req[s]
    BY <1>1, <2>2 DEF Att!TypeOK
  <2>5. Att!TypeOK'
    <3>1. Att!None \in [writes : BOOLEAN, existing : SUBSET Att!Files,
                        adds : SUBSET Att!Files, drops : SUBSET Att!Files]
      BY DEF Att!None
    <3>2. req' \in [Callers -> [writes : BOOLEAN, existing : SUBSET Att!Files,
                                adds : SUBSET Att!Files, drops : SUBSET Att!Files]]
      BY <1>1, <2>2, <3>1 DEF Att!TypeOK
    <3>3. attachments' \subseteq 1 .. uploaded /\ added' \subseteq 1 .. uploaded
          /\ deleted' \subseteq added' /\ overruled' \subseteq added'
      BY <1>1, <2>2, <2>3 DEF Att!TypeOK, RequestOf
    <3> QED
      BY <1>1, <2>2, <3>2, <3>3 DEF Att!TypeOK
  <2>6. Att!WithinLimit'
    <3>1. attachments' \subseteq req[r].existing \cup req[r].adds
      BY <2>2
    <3>2. req[r].existing \cup req[r].adds \subseteq 1 .. MaxFiles
      <4>1. req[r].existing \subseteq 1 .. uploaded /\ req[r].adds \subseteq 1 .. uploaded
        BY <1>1, <2>3 DEF RequestOf
      <4>2. 1 .. uploaded \subseteq 1 .. MaxFiles
        BY <1>1
      <4> QED
        BY <4>1, <4>2
    <3>3. Cardinality(attachments') <= Limit
      BY <2>3, <3>1, <3>2, SmallerFits DEF RequestOf
    <3> QED
      BY <3>3, AsManyFiles DEF Att!WithinLimit
  <2>7. Att!AttachmentsKept'
    <3>1. deleted \subseteq added /\ attachments \ overruled = (added \ deleted) \ overruled
      BY <1>1 DEF FilesInv, Att!TypeOK, Att!AttachmentsKept
    <3>2. ASSUME NEW f, f \notin overruled' PROVE f \in attachments' <=> f \in added' \ deleted'
      <4>1. f \in attachments <=> f \in req[r].existing
        BY <2>2, <3>2
      <4>2. f \in attachments <=> f \in added \ deleted
        BY <2>2, <3>1, <3>2
      <4>3. f \in req[r].adds => f \notin deleted /\ f \notin added
        BY <2>3, <3>1 DEF RequestOf
      <4> QED
        BY <2>2, <4>1, <4>2, <4>3
    <3> QED
      BY <3>2 DEF Att!AttachmentsKept
  <2>8. ASSUME NEW s \in Callers PROVE RequestOf(s)'
    <3>1. CASE s = r
      <4>1. Cardinality({} \cup {}) = 0
        BY FS_EmptySet
      <4> QED
        BY <2>4, <3>1, <4>1 DEF RequestOf, Att!None, FileLimits
    <3>2. CASE s # r
      <4>1. RequestOf(s) /\ req[s].adds \cap req[r].adds = {}
        BY <3>2 DEF FilesInv
      <4> QED
        BY <2>2, <2>4, <3>2, <4>1 DEF RequestOf
    <3> QED
      BY <3>1, <3>2
  <2>9. \A s, u \in Callers : s # u => req'[s].adds \cap req'[u].adds = {}
    BY <2>4 DEF FilesInv, Att!None
  <2>10. attachments' \subseteq added'
    BY <1>1, <2>2, <2>3 DEF RequestOf
  <2> QED
    BY <2>5, <2>6, <2>7, <2>8, <2>9, <2>10 DEF FilesInv
<1>5. CASE \E r \in Callers : Att!Fails(r)
  <2>1. PICK r \in Callers : Att!Fails(r)
    BY <1>5
  <2>2. /\ req' = [req EXCEPT ![r] = Att!None] /\ attachments' = attachments /\ uploaded' = uploaded
        /\ added' = added /\ deleted' = deleted /\ overruled' = overruled
    BY <2>1 DEF Att!Fails
  <2>3. req'[r] = Att!None /\ \A s \in Callers : s # r => req'[s] = req[s]
    BY <1>1, <2>2 DEF Att!TypeOK
  <2>4. Att!TypeOK'
    <3>1. Att!None \in [writes : BOOLEAN, existing : SUBSET Att!Files,
                        adds : SUBSET Att!Files, drops : SUBSET Att!Files]
      BY DEF Att!None
    <3> QED
      BY <1>1, <2>2, <3>1 DEF Att!TypeOK
  <2>5. ASSUME NEW s \in Callers PROVE RequestOf(s)'
    <3>1. CASE s = r
      <4>1. Cardinality({} \cup {}) = 0
        BY FS_EmptySet
      <4> QED
        BY <2>3, <3>1, <4>1 DEF RequestOf, Att!None, FileLimits
    <3>2. CASE s # r
      BY <2>2, <2>3, <3>2 DEF FilesInv, RequestOf
    <3> QED
      BY <3>1, <3>2
  <2>6. \A s, u \in Callers : s # u => req'[s].adds \cap req'[u].adds = {}
    BY <2>3 DEF FilesInv, Att!None
  <2> QED
    BY <2>2, <2>4, <2>5, <2>6 DEF FilesInv, Att!WithinLimit, Att!AttachmentsKept
<1>6. CASE UNCHANGED Att!vars
  BY <1>6 DEF FilesInv, RequestOf, Att!vars, Att!TypeOK, Att!WithinLimit, Att!AttachmentsKept
<1> QED
  BY <1>2, <1>3, <1>4, <1>5, <1>6 DEF Att!Next

-----------------------------------------------------------------------------
(* The announcements of an event (EventSoon).                              *)

\* Notifications count for longer than an event is announced ahead of its start.
SoonLimits ==
    /\ Ahead \in Nat /\ Lookback \in Nat /\ Ahead <= Lookback
    /\ LastMinute \in Nat \ {0} /\ SoonFaults \in Nat /\ MaxMoves \in Nat

Notice == [at : Soon!Times, knew : Nat, deleted : BOOLEAN]

ToldTypes == told \in Seq(Notice) /\ \A i \in 1 .. Len(told) : told[i].knew \in 0 .. i - 1

TickTypes ==
    /\ minute \in Soon!Times /\ startAt \in Soon!Times
    /\ tickAt \in [Ticks -> {"idle", "look", "tell"}] /\ now \in [Ticks -> Soon!Times]
    /\ knew \in [Ticks -> Nat] /\ (\A t \in Ticks : knew[t] <= Len(told) /\ now[t] <= minute)
    /\ failed \in 0 .. SoonFaults /\ moves \in 0 .. MaxMoves /\ covered \in BOOLEAN

\* What a tick that is about to tell has found does not count.
Looked(t) ==
    tickAt[t] = "tell" =>
        \A i \in 1 .. knew[t] : told[i].deleted \/ told[i].at + Lookback < now[t]

\* As long as nothing is moved or deleted.
Unmoved ==
    moves = 0 =>
        /\ \A i \in 1 .. Len(told) : ~told[i].deleted /\ startAt <= told[i].at + Ahead
        /\ \A t \in Ticks : tickAt[t] # "idle" => now[t] < startAt /\ startAt <= now[t] + Ahead

SoonInv ==
    /\ ToldTypes /\ TickTypes /\ Soon!ToldOnce /\ Soon!CoveredMeansTold
    /\ (\A t \in Ticks : Looked(t)) /\ Unmoved

LEMMA NoticeAt ==
  ASSUME ToldTypes, NEW i \in 1 .. Len(told)
  PROVE  told[i] \in Notice /\ told[i].at \in Soon!Times /\ told[i].knew \in 0 .. i - 1
<1>1. told[i] \in Notice
  BY ElementOfSeq DEF ToldTypes
<1> QED
  BY <1>1 DEF ToldTypes, Notice

LEMMA SoonInvHolds == ASSUME SoonLimits, SoonInv PROVE Soon!EventsAnnounced
<1>1. \A i \in 1 .. Len(told) : told[i].at \in Soon!Times /\ told[i].knew \in 0 .. i - 1
  BY NoticeAt DEF SoonInv
<1>2. knew \in [Ticks -> 0 .. Len(told)]
  BY DEF SoonInv, TickTypes, ToldTypes
<1> QED
  BY <1>1, <1>2 DEF SoonInv, TickTypes, Soon!EventsAnnounced, Soon!TypeOK

LEMMA SoonInit == ASSUME SoonLimits, Soon!Init PROVE SoonInv
<1>1. /\ minute = 1 /\ startAt \in 2 .. LastMinute /\ told = <<>>
      /\ tickAt = [t \in Ticks |-> "idle"] /\ now = [t \in Ticks |-> 0] /\ knew = [t \in Ticks |-> 0]
      /\ failed = 0 /\ moves = 0 /\ covered = FALSE
  BY DEF Soon!Init
<1>2. ToldTypes
  BY <1>1 DEF ToldTypes
<1>3. Len(told) = 0 /\ minute \in Soon!Times /\ startAt \in Soon!Times /\ 0 \in Soon!Times
  BY <1>1 DEF Soon!Times, SoonLimits
<1>4. TickTypes
  <2>1. failed \in 0 .. SoonFaults /\ moves \in 0 .. MaxMoves
    BY <1>1 DEF SoonLimits
  <2>2. \A t \in Ticks : knew[t] <= Len(told) /\ now[t] <= minute
    BY <1>1, <1>3
  <2> QED
    BY <1>1, <1>3, <2>1, <2>2 DEF TickTypes
<1> QED
  BY <1>1, <1>2, <1>3, <1>4 DEF SoonInv, Looked, Unmoved, Soon!ToldOnce, Soon!CoveredMeansTold

\* A step that tells nothing: what it must say of the ticks.
LEMMA SoonQuiet ==
  ASSUME SoonLimits, SoonInv, told' = told, TickTypes', moves' = moves, startAt' = startAt,
         \A t \in Ticks : Looked(t)',
         \A t \in Ticks : moves = 0 /\ tickAt'[t] # "idle" =>
             now'[t] < startAt /\ startAt <= now'[t] + Ahead,
         covered' /\ ~covered =>
             \E i \in 1 .. Len(told) : startAt <= told[i].at + Lookback + Ahead
  PROVE  SoonInv'
<1>1. ToldTypes' /\ Soon!ToldOnce'
  BY DEF SoonInv, ToldTypes, Soon!ToldOnce
<1>2. Soon!CoveredMeansTold'
  BY DEF SoonInv, Soon!CoveredMeansTold
<1>3. Unmoved'
  BY DEF SoonInv, Unmoved
<1> QED
  BY <1>1, <1>2, <1>3 DEF SoonInv

LEMMA SoonBegin == ASSUME SoonLimits, SoonInv, NEW t \in Ticks, Soon!Begin(t) PROVE SoonInv'
<1>1. /\ minute < startAt /\ startAt <= minute + Ahead
      /\ tickAt' = [tickAt EXCEPT ![t] = "look"] /\ now' = [now EXCEPT ![t] = minute]
      /\ minute' = minute /\ startAt' = startAt /\ told' = told /\ knew' = knew /\ failed' = failed
      /\ moves' = moves /\ covered' = covered
  BY DEF Soon!Begin, Soon!Due
<1>2. TickTypes
  BY DEF SoonInv
<1>3. /\ tickAt'[t] = "look" /\ now'[t] = minute
      /\ \A u \in Ticks : u # t => tickAt'[u] = tickAt[u] /\ now'[u] = now[u]
  BY <1>1, <1>2 DEF TickTypes
<1>4. minute \in Int /\ minute <= minute
  BY <1>2 DEF TickTypes, Soon!Times
<1>5. TickTypes'
  <2>1. tickAt' \in [Ticks -> {"idle", "look", "tell"}] /\ now' \in [Ticks -> Soon!Times]
    BY <1>1, <1>2 DEF TickTypes
  <2>2. \A u \in Ticks : now'[u] <= minute'
    BY <1>1, <1>2, <1>3, <1>4 DEF TickTypes
  <2> QED
    BY <1>1, <1>2, <2>1, <2>2 DEF TickTypes
<1>6. \A u \in Ticks : Looked(u)'
  BY <1>1, <1>3 DEF SoonInv, Looked
<1>7. \A u \in Ticks : moves = 0 /\ tickAt'[u] # "idle" => now'[u] < startAt /\ startAt <= now'[u] + Ahead
  BY <1>1, <1>3 DEF SoonInv, Unmoved
<1> QED
  BY <1>1, <1>5, <1>6, <1>7, SoonQuiet

\* A tick that ends.
LEMMA SoonEnd ==
  ASSUME SoonLimits, SoonInv, NEW t \in Ticks, Soon!End(t), minute' = minute, startAt' = startAt,
         moves' = moves, failed' \in 0 .. SoonFaults, covered' \in BOOLEAN,
         Len(told) <= Len(told'), Len(told') \in Nat
  PROVE  /\ TickTypes'
         /\ tickAt'[t] = "idle" /\ \A u \in Ticks : u # t => tickAt'[u] = tickAt[u] /\ now'[u] = now[u] /\ knew'[u] = knew[u]
<1>1. /\ tickAt' = [tickAt EXCEPT ![t] = "idle"] /\ now' = [now EXCEPT ![t] = 0]
      /\ knew' = [knew EXCEPT ![t] = 0]
  BY DEF Soon!End
<1>2. TickTypes /\ ToldTypes
  BY DEF SoonInv
<1>3. /\ tickAt'[t] = "idle" /\ now'[t] = 0 /\ knew'[t] = 0
      /\ \A u \in Ticks : u # t => tickAt'[u] = tickAt[u] /\ now'[u] = now[u] /\ knew'[u] = knew[u]
  BY <1>1, <1>2 DEF TickTypes
<1>4. 0 \in Soon!Times /\ 0 <= minute /\ 0 <= Len(told')
  BY <1>2 DEF TickTypes, Soon!Times, SoonLimits
<1>5. tickAt' \in [Ticks -> {"idle", "look", "tell"}] /\ now' \in [Ticks -> Soon!Times]
      /\ knew' \in [Ticks -> Nat]
  BY <1>1, <1>2, <1>4 DEF TickTypes
<1>6. ASSUME NEW u \in Ticks PROVE knew'[u] <= Len(told') /\ now'[u] <= minute'
  <2>1. CASE u = t
    BY <1>3, <1>4, <2>1
  <2>2. CASE u # t
    <3>1. knew[u] \in Nat /\ knew[u] <= Len(told) /\ now[u] <= minute /\ Len(told) \in Nat
      BY <1>2 DEF TickTypes, ToldTypes
    <3> QED
      BY <1>3, <2>2, <3>1
  <2> QED
    BY <2>1, <2>2
<1> QED
  BY <1>2, <1>3, <1>5, <1>6 DEF TickTypes

LEMMA SoonLook == ASSUME SoonLimits, SoonInv, NEW t \in Ticks, Soon!Look(t) PROVE SoonInv'
<1>1. /\ tickAt[t] = "look" /\ minute' = minute /\ startAt' = startAt /\ told' = told /\ failed' = failed
      /\ moves' = moves
  BY DEF Soon!Look
<1>2. TickTypes /\ ToldTypes /\ Len(told) \in Nat /\ Len(told) <= Len(told)
  BY DEF SoonInv, ToldTypes
<1>3. now[t] \in Nat /\ Ahead \in Nat /\ Lookback \in Nat /\ startAt \in Nat
  BY <1>2 DEF TickTypes, SoonLimits, Soon!Times
<1>4. \A i \in 1 .. Len(told) : told[i].at \in Nat
  BY <1>2, NoticeAt DEF Soon!Times
<1>5. CASE Soon!Announced(t)
  <2>1. Soon!End(t) /\ covered' = (covered \/ Soon!Due(now[t]))
    BY <1>5 DEF Soon!Look
  <2>2. /\ TickTypes'
        /\ tickAt'[t] = "idle"
        /\ \A u \in Ticks : u # t => tickAt'[u] = tickAt[u] /\ now'[u] = now[u] /\ knew'[u] = knew[u]
    BY <1>1, <1>2, <2>1, SoonEnd DEF TickTypes
  <2>3. covered' /\ ~covered => \E i \in 1 .. Len(told) : startAt <= told[i].at + Lookback + Ahead
    <3>1. PICK i \in 1 .. Len(told) : told[i].at + Lookback >= now[t]
      BY <1>5 DEF Soon!Announced, Soon!Recent
    <3>2. covered' /\ ~covered => startAt <= now[t] + Ahead
      BY <2>1 DEF Soon!Due
    <3> QED
      BY <1>3, <1>4, <3>1, <3>2
  <2>4. \A u \in Ticks : Looked(u)'
    BY <1>1, <2>2 DEF SoonInv, Looked
  <2>5. \A u \in Ticks : moves = 0 /\ tickAt'[u] # "idle" => now'[u] < startAt /\ startAt <= now'[u] + Ahead
    BY <2>2 DEF SoonInv, Unmoved
  <2> QED
    BY <1>1, <2>2, <2>3, <2>4, <2>5, SoonQuiet
<1>6. CASE ~Soon!Announced(t)
  <2>1. /\ tickAt' = [tickAt EXCEPT ![t] = "tell"] /\ knew' = [knew EXCEPT ![t] = Len(told)]
        /\ now' = now /\ covered' = covered
    BY <1>6 DEF Soon!Look
  <2>2. /\ tickAt'[t] = "tell" /\ knew'[t] = Len(told)
        /\ \A u \in Ticks : u # t => tickAt'[u] = tickAt[u] /\ knew'[u] = knew[u]
    BY <1>2, <2>1 DEF TickTypes
  <2>3. TickTypes'
    <3>1. tickAt' \in [Ticks -> {"idle", "look", "tell"}] /\ knew' \in [Ticks -> Nat]
      BY <1>2, <2>1 DEF TickTypes
    <3>2. \A u \in Ticks : knew'[u] <= Len(told)
      BY <1>2, <2>2 DEF TickTypes
    <3> QED
      BY <1>1, <1>2, <2>1, <3>1, <3>2 DEF TickTypes
  <2>4. ASSUME NEW u \in Ticks PROVE Looked(u)'
    <3>1. CASE u = t
      <4>1. \A i \in 1 .. Len(told) : told[i].deleted \/ told[i].at + Lookback < now[t]
        BY <1>3, <1>4, <1>6 DEF Soon!Announced, Soon!Recent
      <4> QED
        BY <1>1, <2>1, <2>2, <3>1, <4>1 DEF Looked
    <3>2. CASE u # t
      BY <1>1, <2>1, <2>2, <3>2 DEF SoonInv, Looked
    <3> QED
      BY <3>1, <3>2
  <2>5. \A u \in Ticks : moves = 0 /\ tickAt'[u] # "idle" => now'[u] < startAt /\ startAt <= now'[u] + Ahead
    BY <1>1, <2>1, <2>2 DEF SoonInv, Unmoved
  <2> QED
    BY <1>1, <2>1, <2>3, <2>4, <2>5, SoonQuiet
<1> QED
  BY <1>5, <1>6

LEMMA SoonFail == ASSUME SoonLimits, SoonInv, NEW t \in Ticks, Soon!Fail(t) PROVE SoonInv'
<1>1. /\ Soon!End(t) /\ minute' = minute /\ startAt' = startAt /\ told' = told
      /\ moves' = moves /\ covered' = covered /\ failed < SoonFaults /\ failed' = failed + 1
  BY DEF Soon!Fail
<1>2. failed' \in 0 .. SoonFaults /\ covered' \in BOOLEAN /\ Len(told) \in Nat /\ Len(told) <= Len(told)
  BY <1>1 DEF SoonInv, TickTypes, ToldTypes, SoonLimits
<1>3. /\ TickTypes'
      /\ tickAt'[t] = "idle"
      /\ \A u \in Ticks : u # t => tickAt'[u] = tickAt[u] /\ now'[u] = now[u] /\ knew'[u] = knew[u]
  BY <1>1, <1>2, SoonEnd
<1>4. \A u \in Ticks : Looked(u)'
  BY <1>1, <1>3 DEF SoonInv, Looked
<1>5. \A u \in Ticks : moves = 0 /\ tickAt'[u] # "idle" => now'[u] < startAt /\ startAt <= now'[u] + Ahead
  BY <1>3 DEF SoonInv, Unmoved
<1> QED
  BY <1>1, <1>3, <1>4, <1>5, SoonQuiet

LEMMA SoonTell == ASSUME SoonLimits, SoonInv, NEW t \in Ticks, Soon!Tell(t) PROVE SoonInv'
<1> DEFINE n == Len(told)
           notice == [at |-> minute, knew |-> knew[t], deleted |-> FALSE]
<1>1. /\ tickAt[t] = "tell" /\ told' = Append(told, notice) /\ Soon!End(t)
      /\ covered' = (covered \/ Soon!Due(now[t]))
      /\ minute' = minute /\ startAt' = startAt /\ failed' = failed /\ moves' = moves
  BY DEF Soon!Tell
<1>2. TickTypes /\ ToldTypes /\ told \in Seq(Notice) /\ n \in Nat
  BY DEF SoonInv, ToldTypes
<1>3. notice \in Notice /\ notice.at = minute /\ notice.knew = knew[t] /\ ~notice.deleted
      /\ knew[t] \in 0 .. n /\ now[t] <= minute
  <2>1. minute \in Soon!Times /\ knew[t] \in Nat /\ knew[t] <= n /\ now[t] <= minute
    BY <1>2 DEF TickTypes
  <2> QED
    BY <1>2, <2>1 DEF Notice
<1>4. now[t] \in Nat /\ Ahead \in Nat /\ Lookback \in Nat /\ startAt \in Nat /\ minute \in Nat
      /\ Ahead <= Lookback
  BY <1>2 DEF TickTypes, SoonLimits, Soon!Times
<1>5. \A i \in 1 .. n : told[i].at \in Nat
  BY <1>2, NoticeAt DEF Soon!Times
<1> HIDE DEF notice
<1>6. /\ told' \in Seq(Notice) /\ Len(told') = n + 1
      /\ \A i \in 1 .. n : told'[i] = told[i]
      /\ told'[n + 1] = notice
  BY <1>1, <1>2, <1>3
<1>7. /\ TickTypes'
      /\ tickAt'[t] = "idle"
      /\ \A u \in Ticks : u # t => tickAt'[u] = tickAt[u] /\ now'[u] = now[u] /\ knew'[u] = knew[u]
  <2>1. n <= Len(told') /\ Len(told') \in Nat /\ failed' \in 0 .. SoonFaults /\ covered' \in BOOLEAN
    BY <1>1, <1>2, <1>6 DEF TickTypes
  <2> QED
    BY <1>1, <2>1, SoonEnd
<1>8. ToldTypes'
  <2>1. ASSUME NEW i \in 1 .. n + 1 PROVE told'[i].knew \in 0 .. i - 1
    <3>1. CASE i = n + 1
      BY <1>2, <1>3, <1>6, <3>1
    <3>2. CASE i # n + 1
      <4>1. i \in 1 .. n
        BY <1>2, <3>2
      <4> QED
        BY <1>2, <1>6, <4>1 DEF ToldTypes
    <3> QED
      BY <3>1, <3>2
  <2> QED
    BY <1>6, <2>1 DEF ToldTypes
<1>9. \A i \in 1 .. knew[t] : told[i].deleted \/ told[i].at + Lookback < now[t]
  BY <1>1 DEF SoonInv, Looked
<1>10. moves = 0 => now[t] < startAt /\ startAt <= now[t] + Ahead
  BY <1>1 DEF SoonInv, Unmoved
<1>11. Soon!ToldOnce'
  <2>1. ASSUME NEW j \in 1 .. n + 1, NEW i \in 1 .. j - 1,
               moves = 0 \/ told'[j].at <= told'[i].at + Lookback
        PROVE  told'[i].deleted \/ i > told'[j].knew
    <3>1. i \in 1 .. n /\ told'[i] = told[i]
      BY <1>2, <1>6
    <3>2. CASE j \in 1 .. n
      BY <1>6, <2>1, <3>1, <3>2 DEF SoonInv, Soon!ToldOnce
    <3>3. CASE j \notin 1 .. n
      <4>1. j = n + 1 /\ told'[j].at = minute /\ told'[j].knew = knew[t]
        BY <1>2, <1>3, <1>6, <3>3
      <4>2. CASE i > knew[t]
        BY <4>1, <4>2
      <4>3. CASE i <= knew[t]
        <5>1. told[i].deleted \/ told[i].at + Lookback < now[t]
          BY <1>3, <1>9, <3>1, <4>3
        <5>2. CASE moves = 0
          <6>1. startAt <= told[i].at + Ahead
            BY <3>1, <5>2 DEF SoonInv, Unmoved
          <6>2. ~(told[i].at + Lookback < now[t])
            BY <1>4, <1>5, <1>10, <3>1, <5>2, <6>1
          <6> QED
            BY <3>1, <5>1, <6>2
        <5>3. CASE moves # 0
          <6>1. minute <= told[i].at + Lookback
            BY <2>1, <3>1, <4>1, <5>3
          <6>2. ~(told[i].at + Lookback < now[t])
            BY <1>3, <1>4, <1>5, <3>1, <6>1
          <6> QED
            BY <3>1, <5>1, <6>2
        <5> QED
          BY <5>2, <5>3
      <4>4. i \in Int /\ knew[t] \in Int
        BY <1>3, <3>1
      <4> QED
        BY <4>2, <4>3, <4>4
    <3> QED
      BY <3>2, <3>3
  <2> QED
    BY <1>1, <1>6, <2>1 DEF Soon!ToldOnce
<1>12. Soon!CoveredMeansTold'
  <2>1. CASE covered
    <3>1. PICK i \in 1 .. n : told[i].at + Lookback + Ahead >= startAt
      BY <2>1 DEF SoonInv, Soon!CoveredMeansTold
    <3>2. i \in 1 .. n + 1
      BY <1>2
    <3> QED
      BY <1>1, <1>6, <3>1, <3>2 DEF Soon!CoveredMeansTold
  <2>2. CASE ~covered /\ Soon!Due(now[t])
    <3>1. minute + Lookback + Ahead >= startAt
      BY <1>3, <1>4, <2>2 DEF Soon!Due
    <3>2. n + 1 \in 1 .. n + 1
      BY <1>2
    <3> QED
      BY <1>1, <1>3, <1>6, <3>1, <3>2 DEF Soon!CoveredMeansTold
  <2>3. CASE ~covered /\ ~Soon!Due(now[t])
    BY <1>1, <2>3 DEF Soon!CoveredMeansTold
  <2> QED
    BY <2>1, <2>2, <2>3
<1>13. ASSUME NEW u \in Ticks PROVE Looked(u)'
  <2>1. CASE u = t
    BY <1>7, <2>1 DEF Looked
  <2>2. CASE u # t
    <3>1. knew[u] \in Nat /\ knew[u] <= n
      BY <1>2 DEF TickTypes
    <3>2. \A i \in 1 .. knew[u] : i \in 1 .. n /\ told'[i] = told[i]
      BY <1>2, <1>6, <3>1
    <3> QED
      BY <1>7, <2>2, <3>2 DEF SoonInv, Looked
  <2> QED
    BY <2>1, <2>2
<1>14. Unmoved'
  <2> SUFFICES ASSUME moves = 0 PROVE
          /\ \A i \in 1 .. n + 1 : ~told'[i].deleted /\ startAt <= told'[i].at + Ahead
          /\ \A u \in Ticks : tickAt'[u] # "idle" => now'[u] < startAt /\ startAt <= now'[u] + Ahead
    BY <1>1, <1>6 DEF Unmoved
  <2>1. startAt <= minute + Ahead
    BY <1>3, <1>4, <1>10
  <2>2. ASSUME NEW i \in 1 .. n + 1 PROVE ~told'[i].deleted /\ startAt <= told'[i].at + Ahead
    <3>1. CASE i = n + 1
      BY <1>3, <1>6, <2>1, <3>1
    <3>2. CASE i # n + 1
      <4>1. i \in 1 .. n
        BY <1>2, <3>2
      <4> QED
        BY <1>6, <4>1 DEF SoonInv, Unmoved
    <3> QED
      BY <3>1, <3>2
  <2>3. \A u \in Ticks : tickAt'[u] # "idle" => now'[u] < startAt /\ startAt <= now'[u] + Ahead
    BY <1>7 DEF SoonInv, Unmoved
  <2> QED
    BY <2>2, <2>3
<1> QED
  BY <1>7, <1>8, <1>11, <1>12, <1>13, <1>14 DEF SoonInv

LEMMA SoonMoved ==
  ASSUME SoonLimits, SoonInv, Soon!Reschedule \/ Soon!DeleteNotification \/ Soon!Pass PROVE SoonInv'
<1>1. tickAt' = tickAt /\ now' = now /\ knew' = knew /\ failed' = failed
  BY DEF Soon!Reschedule, Soon!DeleteNotification, Soon!Pass
<1>2. TickTypes /\ ToldTypes /\ told \in Seq(Notice) /\ Len(told) \in Nat /\ minute \in Nat /\ LastMinute \in Nat
      /\ moves \in 0 .. MaxMoves /\ MaxMoves \in Nat
  BY DEF SoonInv, TickTypes, ToldTypes, SoonLimits, Soon!Times
<1>3. CASE Soon!Reschedule
  <2>1. /\ moves' = moves + 1 /\ moves < MaxMoves /\ covered' = FALSE /\ minute' = minute /\ told' = told
        /\ startAt' \in Soon!Times
    BY <1>2, <1>3 DEF Soon!Reschedule, Soon!Times
  <2>2. moves' \in 0 .. MaxMoves /\ moves' # 0
    BY <1>2, <2>1
  <2>3. TickTypes'
    BY <1>1, <1>2, <2>1, <2>2 DEF TickTypes
  <2>4. Soon!ToldOnce'
    BY <2>1, <2>2 DEF SoonInv, Soon!ToldOnce
  <2> QED
    BY <1>1, <2>1, <2>2, <2>3, <2>4 DEF SoonInv, ToldTypes, Looked, Unmoved, Soon!CoveredMeansTold
<1>4. CASE Soon!DeleteNotification
  <2>1. /\ moves' = moves + 1 /\ moves < MaxMoves /\ covered' = covered /\ minute' = minute
        /\ startAt' = startAt
    BY <1>4 DEF Soon!DeleteNotification
  <2>2. PICK k \in 1 .. Len(told) : told' = [told EXCEPT ![k].deleted = TRUE]
    BY <1>4 DEF Soon!DeleteNotification
  <2>3. moves' \in 0 .. MaxMoves /\ moves' # 0
    BY <1>2, <2>1
  <2> DEFINE gone == [told[k] EXCEPT !.deleted = TRUE]
  <2>4. gone \in Notice /\ gone.at = told[k].at /\ gone.knew = told[k].knew /\ gone.deleted
    BY <1>2, NoticeAt DEF Notice
  <2>5. told' = [told EXCEPT ![k] = gone]
    BY <2>2
  <2> HIDE DEF gone
  <2>6. /\ told' \in Seq(Notice) /\ Len(told') = Len(told)
        /\ \A j \in 1 .. Len(told) : told'[j] = IF j = k THEN gone ELSE told[j]
    BY <1>2, <2>4, <2>5, ExceptSeq
  <2>7. \A j \in 1 .. Len(told) : /\ told'[j].at = told[j].at /\ told'[j].knew = told[j].knew
                                  /\ told[j].deleted => told'[j].deleted
    BY <2>4, <2>6
  <2>8. ToldTypes'
    BY <1>2, <2>6, <2>7 DEF ToldTypes
  <2>9. TickTypes'
    BY <1>1, <1>2, <2>1, <2>3, <2>6 DEF TickTypes
  <2>10. Soon!ToldOnce'
    <3>1. ASSUME NEW j \in 1 .. Len(told), NEW i \in 1 .. j - 1, told[j].at <= told[i].at + Lookback
          PROVE  told'[i].deleted \/ i > told'[j].knew
      <4>1. i \in 1 .. Len(told)
        BY <1>2
      <4>2. told[i].deleted \/ i > told[j].knew
        BY <3>1 DEF SoonInv, Soon!ToldOnce
      <4> QED
        BY <2>7, <4>1, <4>2
    <3>2. \A j \in 1 .. Len(told) : \A i \in 1 .. j - 1 : i \in 1 .. Len(told)
      BY <1>2
    <3> QED
      BY <2>3, <2>6, <2>7, <3>1, <3>2 DEF Soon!ToldOnce
  <2>11. Soon!CoveredMeansTold'
    BY <2>1, <2>6, <2>7 DEF SoonInv, Soon!CoveredMeansTold
  <2>12. ASSUME NEW u \in Ticks PROVE Looked(u)'
    <3>1. knew[u] \in Nat /\ knew[u] <= Len(told)
      BY <1>2 DEF TickTypes
    <3>2. \A i \in 1 .. knew[u] : i \in 1 .. Len(told)
      BY <1>2, <3>1
    <3> QED
      BY <1>1, <2>7, <3>2 DEF SoonInv, Looked
  <2> QED
    BY <2>3, <2>8, <2>9, <2>10, <2>11, <2>12 DEF SoonInv, Unmoved
<1>5. CASE Soon!Pass
  <2>1. minute' = minute + 1 /\ minute < LastMinute /\ startAt' = startAt /\ told' = told /\ moves' = moves
        /\ covered' = covered
    BY <1>5 DEF Soon!Pass
  <2>2. minute' \in Soon!Times /\ minute <= minute'
    BY <1>2, <2>1 DEF Soon!Times
  <2>3. \A u \in Ticks : now'[u] <= minute'
    <3>1. ASSUME NEW u \in Ticks PROVE now[u] <= minute'
      <4>1. now[u] \in Nat /\ now[u] <= minute
        BY <1>2 DEF TickTypes, Soon!Times
      <4> QED
        BY <1>2, <2>1, <4>1
    <3> QED
      BY <1>1, <3>1
  <2>4. TickTypes'
    BY <1>1, <1>2, <2>1, <2>2, <2>3 DEF TickTypes
  <2>5. \A u \in Ticks : Looked(u)'
    BY <1>1, <2>1 DEF SoonInv, Looked
  <2> QED
    BY <1>1, <2>1, <2>4, <2>5, SoonQuiet DEF SoonInv, Unmoved
<1> QED
  BY <1>3, <1>4, <1>5

LEMMA SoonNext == ASSUME SoonLimits, SoonInv, [Soon!Next]_(Soon!vars) PROVE SoonInv'
<1>1. CASE UNCHANGED Soon!vars
  <2>1. /\ minute' = minute /\ startAt' = startAt /\ told' = told /\ tickAt' = tickAt /\ now' = now
        /\ knew' = knew /\ failed' = failed /\ moves' = moves /\ covered' = covered
    BY <1>1 DEF Soon!vars
  <2> QED
    BY <2>1 DEF SoonInv, ToldTypes, TickTypes, Looked, Unmoved, Soon!ToldOnce, Soon!CoveredMeansTold
<1> QED
  BY <1>1, SoonBegin, SoonLook, SoonTell, SoonFail, SoonMoved DEF Soon!Next
-----------------------------------------------------------------------------
(* The mirror of a calendar (CalendarMirror).                              *)

MirrorLimits == MaxIds \in Nat /\ CalendarEvents \in Nat /\ IsFiniteSet(Callers)

MirrorRequest ==
    [op : {"idle", "sync", "create", "update", "delete"}, pc : {"", "ask", "modify", "write"},
     id : 0 .. MaxIds, v : Mirror!Versions, answer : [Mirror!Ids -> Mirror!Versions],
     alone : BOOLEAN]

\* What a request is tickAt, by its kind.
Formed(r) ==
    /\ req[r].op = "idle" => req[r] = Mirror!Idle
    /\ req[r].op \in {"update", "delete"} => req[r].id \in 1 .. created
    /\ req[r].op = "create" /\ req[r].pc = "write" => req[r].id \in 1 .. created
    /\ req[r].op # "idle" => req[r].pc \in {"ask", "modify", "write"}
    /\ \A id \in Mirror!Ids : req[r].answer[id] # 0 => id <= created

\* The requests that may still make a version.
MayMake == {r \in Callers : \/ req[r].op = "create" /\ req[r].pc = "ask"
                            \/ req[r].op = "update" /\ req[r].pc # "write"}

Concerned(q, id) ==
    q.op \in {"sync", "create"} \/ (q.op \in {"update", "delete"} /\ q.id = id)

\* How the row w of an event and its version s stand to a request about it.
Fits(q, id, s, w) ==
    /\ q.op = "sync" => w = s /\ (q.pc = "write" => q.answer[id] \in {0, s})
    /\ q.op = "create" => IF q.pc = "write" /\ q.id = id THEN s = q.v /\ w = 0 ELSE w = s
    /\ q.op = "update" => IF q.pc = "write" THEN s = q.v /\ w # 0 ELSE w = s
    /\ q.op = "delete" => IF q.pc = "write" THEN s = 0 /\ w # 0 ELSE w = s

Agrees(id) ==
    id \notin disturbed =>
        /\ \A r, s \in Callers : Concerned(req[r], id) /\ Concerned(req[s], id) => r = s
        /\ \A r \in Callers :
              Concerned(req[r], id) => Fits(req[r], id, server[id], eventRows[id])
        /\ (\A r \in Callers : ~Concerned(req[r], id)) => eventRows[id] = server[id]

\* What a request finds that nothing overlaps.
Unhindered(q) ==
    /\ q.op = "update" =>
         /\ eventRows[q.id] # 0 /\ (q.pc = "ask" => server[q.id] # 0)
         /\ q.pc = "modify" => q.v # 0 /\ server[q.id] = q.v
    /\ q.op = "delete" => eventRows[q.id] # 0 /\ (q.pc = "ask" => server[q.id] # 0)
    /\ q.op = "create" /\ q.pc = "write" => eventRows[q.id] = 0
    /\ q.op = "sync" /\ q.pc = "write" =>
         \A id \in Mirror!Ids : q.answer[id] \in {0, server[id]}

Lone(r) == req[r].alone => Unhindered(req[r]) /\ \A s \in Callers \ {r} : req[s].op = "idle"

MirrorInv ==
    /\ Mirror!TypeOK
    /\ version + Cardinality(MayMake) <= happened
    /\ \A r \in Callers : Formed(r)
    /\ \A r \in Callers : Lone(r)
    /\ \A id \in Mirror!Ids : Agrees(id)
    /\ TRUE \notin refused

LEMMA MirrorTypes ==
  ASSUME MirrorLimits, Mirror!TypeOK
  PROVE  /\ server \in [Mirror!Ids -> Mirror!Versions]
         /\ eventRows \in [Mirror!Ids -> Mirror!Versions]
         /\ created \in 0 .. MaxIds /\ version \in Mirror!Versions
         /\ \A id \in Mirror!Ids : id > created => server[id] = 0 /\ eventRows[id] = 0
         /\ req \in [Callers -> MirrorRequest]
         /\ happened \in 0 .. CalendarEvents
         /\ disturbed \subseteq Mirror!Ids /\ refused \subseteq BOOLEAN
         /\ Mirror!Ids = 1 .. MaxIds /\ Mirror!Versions = 0 .. CalendarEvents
BY DEF Mirror!TypeOK, MirrorRequest, Mirror!Ids, Mirror!Versions

LEMMA MirrorIdle ==
  ASSUME MirrorLimits
  PROVE  /\ Mirror!Idle \in MirrorRequest /\ Mirror!NoAnswer \in [Mirror!Ids -> Mirror!Versions]
         /\ \A id \in Mirror!Ids : Mirror!NoAnswer[id] = 0
         /\ Mirror!Idle.op = "idle" /\ Mirror!Idle.pc = "" /\ Mirror!Idle.id = 0
         /\ Mirror!Idle.v = 0 /\ Mirror!Idle.alone = FALSE
         /\ Mirror!Idle.answer = Mirror!NoAnswer
<1>1. Mirror!NoAnswer \in [Mirror!Ids -> Mirror!Versions]
  BY DEF MirrorLimits, Mirror!NoAnswer, Mirror!Versions
<1>2. \A id \in Mirror!Ids : Mirror!NoAnswer[id] = 0
  BY DEF Mirror!NoAnswer
<1>3. 0 \in 0 .. MaxIds /\ 0 \in Mirror!Versions
  BY DEF MirrorLimits, Mirror!Versions
<1> QED
  BY <1>1, <1>2, <1>3 DEF Mirror!Idle, MirrorRequest

LEMMA MirrorInvHolds == ASSUME MirrorInv PROVE Mirror!MirrorAgrees
<1>1. Mirror!RowsAgree
  <2> SUFFICES ASSUME Mirror!InFlight = {}, NEW id \in Mirror!Ids \ disturbed
               PROVE  eventRows[id] = server[id]
    BY DEF Mirror!RowsAgree
  <2>1. \A r \in Callers : req[r].op = "idle"
    BY DEF Mirror!InFlight
  <2>2. \A r \in Callers : ~Concerned(req[r], id)
    BY <2>1 DEF Concerned
  <2> QED
    BY <2>2 DEF MirrorInv, Agrees
<1> QED
  BY <1>1 DEF MirrorInv, Mirror!MirrorAgrees, Mirror!AloneSucceeds

LEMMA MirrorInit == ASSUME MirrorLimits, Mirror!Init PROVE MirrorInv
<1>1. /\ server \in [Mirror!Ids -> Mirror!Versions]
      /\ eventRows \in [Mirror!Ids -> Mirror!Versions]
      /\ \A id \in Mirror!Ids : server[id] = 0 /\ eventRows[id] = 0
  BY DEF Mirror!Init, MirrorLimits, Mirror!Versions
<1>2. /\ req \in [Callers -> MirrorRequest] /\ \A r \in Callers : req[r] = Mirror!Idle
  BY MirrorIdle DEF Mirror!Init
<1>3. Mirror!TypeOK
  <2>1. created \in 0 .. MaxIds /\ version \in Mirror!Versions /\ happened \in 0 .. CalendarEvents
    BY DEF Mirror!Init, MirrorLimits, Mirror!Versions
  <2>2. disturbed \subseteq Mirror!Ids /\ refused \subseteq BOOLEAN
    BY DEF Mirror!Init
  <2> QED
    BY <1>1, <1>2, <2>1, <2>2 DEF Mirror!TypeOK, MirrorRequest
<1>4. version + Cardinality(MayMake) <= happened
  <2>1. MayMake = {}
    BY <1>2, MirrorIdle DEF MayMake
  <2> QED
    BY <2>1, FS_EmptySet DEF Mirror!Init
<1>5. \A r \in Callers : Formed(r) /\ Lone(r)
  BY <1>2, MirrorIdle DEF Formed, Lone
<1>6. \A id \in Mirror!Ids : Agrees(id)
  BY <1>1, <1>2, MirrorIdle DEF Agrees, Concerned
<1> QED
  BY <1>3, <1>4, <1>5, <1>6 DEF MirrorInv, Mirror!Init

\* Only the request r moves.
OthersStay(r) == \A s \in Callers \ {r} : req'[s] = req[s]

\* What a step of r keeps, about an event.
StaysRight(r, id) ==
    id \notin disturbed' =>
        /\ id \notin disturbed
        /\ Concerned(req'[r], id) =>
             Concerned(req[r], id) /\ Fits(req'[r], id, server'[id], eventRows'[id])
        /\ ~Concerned(req'[r], id) /\ Concerned(req[r], id) => eventRows'[id] = server'[id]
        /\ ~Concerned(req[r], id) => eventRows'[id] = eventRows[id] /\ server'[id] = server[id]

LEMMA AgreesAfter ==
  ASSUME NEW r \in Callers, NEW id, OthersStay(r), Agrees(id), StaysRight(r, id)
  PROVE  Agrees(id)'
<1> SUFFICES ASSUME id \notin disturbed'
             PROVE /\ \A p, s \in Callers : Concerned(req'[p], id) /\ Concerned(req'[s], id) => p = s
                   /\ \A p \in Callers : Concerned(req'[p], id) =>
                         Fits(req'[p], id, server'[id], eventRows'[id])
                   /\ (\A p \in Callers : ~Concerned(req'[p], id)) => eventRows'[id] = server'[id]
  BY DEF Agrees, Concerned, Fits
<1>1. /\ \A p, s \in Callers : Concerned(req[p], id) /\ Concerned(req[s], id) => p = s
      /\ \A p \in Callers : Concerned(req[p], id) => Fits(req[p], id, server[id], eventRows[id])
      /\ (\A p \in Callers : ~Concerned(req[p], id)) => eventRows[id] = server[id]
      /\ Concerned(req'[r], id) =>
             Concerned(req[r], id) /\ Fits(req'[r], id, server'[id], eventRows'[id])
      /\ ~Concerned(req'[r], id) /\ Concerned(req[r], id) => eventRows'[id] = server'[id]
      /\ ~Concerned(req[r], id) => eventRows'[id] = eventRows[id] /\ server'[id] = server[id]
  BY DEF Agrees, StaysRight
<1>2. \A p \in Callers \ {r} : req'[p] = req[p]
  BY DEF OthersStay
<1>3. \A p \in Callers : Concerned(req'[p], id) => Concerned(req[p], id)
  BY <1>1, <1>2
<1>4. ASSUME NEW p \in Callers, Concerned(req'[p], id)
      PROVE  Fits(req'[p], id, server'[id], eventRows'[id])
  <2>1. CASE p = r
    BY <2>1, <1>1, <1>4
  <2>2. CASE p # r
    <3>1. ~Concerned(req[r], id)
      BY <1>1, <1>3, <1>4, <2>2
    <3>2. req'[p] = req[p] /\ eventRows'[id] = eventRows[id] /\ server'[id] = server[id]
      BY <3>1, <1>1, <1>2, <2>2
    <3> QED
      BY <3>2, <1>1, <1>4
  <2> QED
    BY <2>1, <2>2
<1>5. (\A p \in Callers : ~Concerned(req'[p], id)) => eventRows'[id] = server'[id]
  BY <1>1, <1>2
<1> QED
  BY <1>1, <1>3, <1>4, <1>5

\* The requests other than r, when r is in flight.
LEMMA OthersLone ==
  ASSUME NEW r \in Callers, req[r].op # "idle", OthersStay(r), \A s \in Callers : Lone(s),
         NEW s \in Callers \ {r}
  PROVE  Lone(s)'
<1>1. req'[s] = req[s]
  BY DEF OthersStay
<1>2. ~req[s].alone
  BY DEF Lone
<1> QED
  BY <1>1, <1>2 DEF Lone

LEMMA OthersFormed ==
  ASSUME NEW r \in Callers, OthersStay(r), \A s \in Callers : Formed(s), created \in Nat,
         created' \in Nat, created <= created', MaxIds \in Nat,
         NEW s \in Callers \ {r}, req[s] \in MirrorRequest
  PROVE  Formed(s)'
<1>1. req'[s] = req[s]
  BY DEF OthersStay
<1>2. Formed(s)
  OBVIOUS
<1>3. \A i \in Nat : (i \in 1 .. created => i \in 1 .. created') /\ (i <= created => i <= created')
  OBVIOUS
<1>4. Mirror!Ids \subseteq Nat
  BY DEF Mirror!Ids
<1>5. req[s].id \in 0 .. MaxIds
  BY DEF MirrorRequest
<1> QED
  BY <1>1, <1>2, <1>3, <1>4, <1>5 DEF Formed

LEMMA BudgetKept ==
  ASSUME MirrorLimits, version \in Nat, happened \in Nat, happened' \in Nat,
         version + Cardinality(MayMake) <= happened,
         MayMake' \subseteq MayMake, version' = version, happened <= happened'
  PROVE  version' + Cardinality(MayMake') <= happened'
<1>1. IsFiniteSet(MayMake)
  BY FS_Subset DEF MirrorLimits, MayMake
<1>2. Cardinality(MayMake') <= Cardinality(MayMake)
  BY <1>1, FS_Subset
<1>3. Cardinality(MayMake') \in Nat /\ Cardinality(MayMake) \in Nat
  BY <1>1, FS_Subset, FS_CardinalityType
<1> QED
  BY <1>2, <1>3

LEMMA BudgetSpent ==
  ASSUME MirrorLimits, version \in Nat, happened \in Nat, NEW r,
         version + Cardinality(MayMake) <= happened, happened <= CalendarEvents,
         r \in MayMake, MayMake' \subseteq MayMake \ {r}, version' = version + 1,
         happened' = happened
  PROVE  version' + Cardinality(MayMake') <= happened' /\ version' \in Mirror!Versions
<1>1. IsFiniteSet(MayMake)
  BY FS_Subset DEF MirrorLimits, MayMake
<1>2. IsFiniteSet(MayMake \ {r}) /\ Cardinality(MayMake \ {r}) = Cardinality(MayMake) - 1
  BY <1>1, FS_RemoveElement
<1>3. Cardinality(MayMake') <= Cardinality(MayMake \ {r})
  BY <1>2, FS_Subset
<1>4. Cardinality(MayMake') \in Nat /\ Cardinality(MayMake) \in Nat
  BY <1>1, <1>2, FS_Subset, FS_CardinalityType
<1> QED
  BY <1>2, <1>3, <1>4 DEF MirrorLimits, Mirror!Versions

LEMMA MirrorMoves ==
  ASSUME MirrorLimits, MirrorInv, NEW r \in Callers, req[r].op # "idle", OthersStay(r),
         Mirror!TypeOK', version' + Cardinality(MayMake') <= happened', created <= created',
         Formed(r)', Lone(r)', TRUE \notin refused',
         \A id \in Mirror!Ids : Agrees(id)'
  PROVE  MirrorInv'
<1>1. ASSUME NEW s \in Callers PROVE Lone(s)' /\ Formed(s)'
  <2>1. CASE s = r
    BY <2>1
  <2>2. CASE s # r
    <3>1. Lone(s)'
      BY <2>2, OthersLone DEF MirrorInv
    <3>2. created \in Nat /\ created' \in Nat /\ MaxIds \in Nat
      <4>1. created \in 0 .. MaxIds
        BY MirrorTypes DEF MirrorInv
      <4>2. created' \in 0 .. MaxIds
        BY DEF Mirror!TypeOK
      <4> QED
        BY <4>1, <4>2 DEF MirrorLimits
    <3>3. req[s] \in MirrorRequest
      BY MirrorTypes DEF MirrorInv
    <3>4. Formed(s)'
      BY <2>2, <3>2, <3>3, OthersFormed DEF MirrorInv
    <3> QED
      BY <3>1, <3>4
  <2> QED
    BY <2>1, <2>2
<1> QED
  BY <1>1 DEF MirrorInv

LEMMA MirrorTypesNext ==
  ASSUME server' \in [Mirror!Ids -> Mirror!Versions],
         eventRows' \in [Mirror!Ids -> Mirror!Versions],
         created' \in 0 .. MaxIds, version' \in Mirror!Versions,
         \A id \in Mirror!Ids : id > created' => server'[id] = 0 /\ eventRows'[id] = 0,
         req' \in [Callers -> MirrorRequest],
         happened' \in 0 .. CalendarEvents,
         disturbed' \subseteq Mirror!Ids, refused' \subseteq BOOLEAN
  PROVE  Mirror!TypeOK'
BY DEF Mirror!TypeOK, MirrorRequest

LEMMA MirrorDone ==
  ASSUME MirrorLimits, req \in [Callers -> MirrorRequest], NEW r \in Callers, Mirror!Done(r)
  PROVE  /\ req' \in [Callers -> MirrorRequest] /\ OthersStay(r)
         /\ req'[r] = Mirror!Idle /\ Formed(r)' /\ Lone(r)' /\ MayMake' \subseteq MayMake
         /\ \A id : ~Concerned(req'[r], id)
<1>1. /\ req' \in [Callers -> MirrorRequest] /\ OthersStay(r) /\ req'[r] = Mirror!Idle
  BY MirrorIdle DEF Mirror!Done, OthersStay
<1>2. req'[r].op = "idle" /\ ~req'[r].alone /\ \A id \in Mirror!Ids : req'[r].answer[id] = 0
  BY <1>1, MirrorIdle
<1>3. Formed(r)' /\ Lone(r)' /\ \A id : ~Concerned(req'[r], id)
  BY <1>1, <1>2 DEF Formed, Lone, Concerned
<1>4. MayMake' \subseteq MayMake
  BY <1>1, <1>2 DEF MayMake, OthersStay
<1> QED
  BY <1>1, <1>3, <1>4

LEMMA MirrorParts ==
  ASSUME MirrorLimits, MirrorInv
  PROVE  /\ server \in [Mirror!Ids -> Mirror!Versions]
         /\ eventRows \in [Mirror!Ids -> Mirror!Versions]
         /\ created \in 0 .. MaxIds /\ created \in Nat
         /\ version \in Mirror!Versions /\ version \in Nat
         /\ \A id \in Mirror!Ids : id > created => server[id] = 0 /\ eventRows[id] = 0
         /\ req \in [Callers -> MirrorRequest]
         /\ happened \in 0 .. CalendarEvents /\ happened \in Nat
         /\ disturbed \subseteq Mirror!Ids /\ refused \subseteq BOOLEAN
         /\ Mirror!Ids = 1 .. MaxIds /\ Mirror!Versions = 0 .. CalendarEvents
         /\ Mirror!Ids \subseteq Nat /\ Mirror!Versions \subseteq Nat
         /\ version + Cardinality(MayMake) <= happened
         /\ \A r \in Callers : Formed(r)
         /\ \A r \in Callers : Lone(r)
         /\ \A id \in Mirror!Ids : Agrees(id)
         /\ TRUE \notin refused
<1>1. Mirror!TypeOK
  BY DEF MirrorInv
<1>2. /\ version + Cardinality(MayMake) <= happened
      /\ \A r \in Callers : Formed(r)
      /\ \A r \in Callers : Lone(r)
      /\ \A id \in Mirror!Ids : Agrees(id)
      /\ TRUE \notin refused
  BY DEF MirrorInv
<1>3. /\ created \in 0 .. MaxIds /\ version \in Mirror!Versions
      /\ happened \in 0 .. CalendarEvents
      /\ Mirror!Ids = 1 .. MaxIds /\ Mirror!Versions = 0 .. CalendarEvents
  BY <1>1, MirrorTypes
<1>4. /\ created \in Nat /\ version \in Nat /\ happened \in Nat
      /\ Mirror!Ids \subseteq Nat /\ Mirror!Versions \subseteq Nat
  BY <1>3 DEF MirrorLimits
<1> QED
  BY <1>1, <1>2, <1>3, <1>4, MirrorTypes

LEMMA MirrorSyncAnswered ==
  ASSUME MirrorLimits, MirrorInv, NEW r \in Callers, Mirror!SyncAnswered(r)
  PROVE  MirrorInv'
<1>a. /\ req[r].op = "sync" /\ req[r].pc = "ask"
      /\ req' = [req EXCEPT ![r].pc = "write", ![r].answer = server]
      /\ server' = server /\ eventRows' = eventRows /\ created' = created
      /\ version' = version /\ happened' = happened /\ disturbed' = disturbed
      /\ refused' = refused
  BY DEF Mirror!SyncAnswered, Mirror!Busy
<1>1. /\ req'[r].op = "sync" /\ req'[r].pc = "write" /\ req'[r].answer = server
      /\ req'[r].alone = req[r].alone /\ OthersStay(r)
  BY <1>a, MirrorParts DEF OthersStay, MirrorRequest
<1>2. req' \in [Callers -> MirrorRequest]
  <2>1. server \in [Mirror!Ids -> Mirror!Versions] /\ req \in [Callers -> MirrorRequest]
    BY MirrorParts
  <2> QED
    BY <1>a, <2>1 DEF MirrorRequest
<1>3. Mirror!TypeOK'
  BY <1>a, <1>2, MirrorParts, MirrorTypesNext
<1>4. version' + Cardinality(MayMake') <= happened'
  <2>1. MayMake' \subseteq MayMake
    BY <1>a, <1>1 DEF MayMake, OthersStay
  <2>2. happened' \in Nat /\ happened <= happened'
    BY <1>a, MirrorParts
  <2> QED
    BY <1>a, <2>1, <2>2, BudgetKept, MirrorParts
<1>5. Formed(r)'
  <2>1. \A id \in Mirror!Ids : server[id] # 0 => id <= created
    BY MirrorParts
  <2> QED
    BY <1>a, <1>1, <2>1 DEF Formed
<1>6. Lone(r)'
  <2>1. Unhindered(req[r])'
    BY <1>a, <1>1 DEF Unhindered
  <2>2. req[r].alone => \A s \in Callers \ {r} : req[s].op = "idle"
    BY MirrorParts DEF Lone
  <2>3. req'[r].alone => \A s \in Callers \ {r} : req'[s].op = "idle"
    BY <2>2, <1>1 DEF OthersStay
  <2> QED
    BY <2>1, <2>3 DEF Lone
<1>7. ASSUME NEW id \in Mirror!Ids PROVE Agrees(id)'
  <2>1. StaysRight(r, id)
    <3>1. Agrees(id)
      BY MirrorParts
    <3>2. Concerned(req[r], id) /\ Concerned(req'[r], id)
      <4>1. req[r].op \in {"sync", "create"} /\ req'[r].op \in {"sync", "create"}
        BY <1>a, <1>1
      <4> QED
        BY <4>1 DEF Concerned
    <3>3. id \notin disturbed => Fits(req'[r], id, server[id], eventRows[id])
      BY <3>1, <3>2, <1>a, <1>1 DEF Fits, Agrees
    <3> QED
      BY <3>2, <3>3, <1>a DEF StaysRight
  <2> QED
    BY <1>1, <2>1, AgreesAfter, MirrorParts
<1>8. req[r].op # "idle" /\ created <= created' /\ TRUE \notin refused'
  <2>1. req[r].op # "idle"
    BY <1>a
  <2>2. created <= created'
    BY <1>a, MirrorParts
  <2>3. TRUE \notin refused'
    BY <1>a, MirrorParts
  <2> QED
    BY <2>1, <2>2, <2>3
<1> QED
  BY <1>1, <1>3, <1>4, <1>5, <1>6, <1>7, <1>8, MirrorMoves

LEMMA MirrorSyncWrites ==
  ASSUME MirrorLimits, MirrorInv, NEW r \in Callers, Mirror!SyncWrites(r)
  PROVE  MirrorInv'
<1>a. PICK i \in Mirror!Ids :
         /\ req[r].op = "sync" /\ req[r].pc = "write" /\ req[r].answer[i] # 0
         /\ eventRows' = [eventRows EXCEPT ![i] = req[r].answer[i]]
         /\ req' = [req EXCEPT ![r].answer[i] = 0]
         /\ disturbed' = (IF req[r].alone THEN disturbed \ {i} ELSE disturbed)
         /\ server' = server /\ created' = created
         /\ version' = version /\ happened' = happened /\ refused' = refused
  BY DEF Mirror!SyncWrites, Mirror!Busy, Mirror!Upsert
<1>b. /\ req[r] \in MirrorRequest /\ req[r].answer \in [Mirror!Ids -> Mirror!Versions]
      /\ req[r].answer[i] \in Mirror!Versions /\ i <= created
  <2>1. req[r] \in MirrorRequest
    BY MirrorParts
  <2>2. req[r].answer \in [Mirror!Ids -> Mirror!Versions]
    BY <2>1 DEF MirrorRequest
  <2>3. Formed(r)
    BY MirrorParts
  <2> QED
    BY <2>1, <2>2, <2>3, <1>a DEF Formed
<1>1. /\ req'[r].op = "sync" /\ req'[r].pc = "write"
      /\ req'[r].answer = [req[r].answer EXCEPT ![i] = 0]
      /\ req'[r].alone = req[r].alone /\ OthersStay(r)
  <2>1. req \in [Callers -> MirrorRequest]
    BY MirrorParts
  <2> QED
    BY <1>a, <1>b, <2>1 DEF OthersStay, MirrorRequest
<1>2. req' \in [Callers -> MirrorRequest]
  <2>1. req \in [Callers -> MirrorRequest] /\ 0 \in Mirror!Versions
    BY MirrorParts DEF MirrorLimits
  <2>2. [req[r].answer EXCEPT ![i] = 0] \in [Mirror!Ids -> Mirror!Versions]
    BY <1>b, <2>1
  <2>3. [req[r] EXCEPT !.answer[i] = 0] \in MirrorRequest
    BY <1>b, <2>2 DEF MirrorRequest
  <2> QED
    BY <1>a, <2>1, <2>3
<1>3. Mirror!TypeOK'
  <2>1. eventRows' \in [Mirror!Ids -> Mirror!Versions]
    BY <1>a, <1>b, MirrorParts
  <2>2. \A id \in Mirror!Ids : id > created' => server'[id] = 0 /\ eventRows'[id] = 0
    BY <1>a, <1>b, MirrorParts
  <2>3. disturbed' \subseteq Mirror!Ids
    BY <1>a, MirrorParts
  <2> QED
    BY <1>a, <1>2, <2>1, <2>2, <2>3, MirrorParts, MirrorTypesNext
<1>4. version' + Cardinality(MayMake') <= happened'
  <2>1. MayMake' \subseteq MayMake
    BY <1>a, <1>1 DEF MayMake, OthersStay
  <2>2. happened' \in Nat /\ happened <= happened'
    BY <1>a, MirrorParts
  <2> QED
    BY <1>a, <2>1, <2>2, BudgetKept, MirrorParts
<1>5. Formed(r)'
  <2>1. \A id \in Mirror!Ids : req'[r].answer[id] # 0 => req[r].answer[id] # 0
    BY <1>1, <1>b
  <2>2. \A id \in Mirror!Ids : req[r].answer[id] # 0 => id <= created
    BY MirrorParts DEF Formed
  <2> QED
    BY <1>a, <1>1, <2>1, <2>2 DEF Formed
<1>6. Lone(r)'
  <2>1. req[r].alone => \A s \in Callers \ {r} : req[s].op = "idle"
    BY MirrorParts DEF Lone
  <2>2. req'[r].alone => \A s \in Callers \ {r} : req'[s].op = "idle"
    BY <2>1, <1>1 DEF OthersStay
  <2>3. req[r].alone => \A id \in Mirror!Ids : req[r].answer[id] \in {0, server[id]}
    BY <1>a, MirrorParts DEF Lone, Unhindered
  <2>4. req'[r].alone => \A id \in Mirror!Ids : req'[r].answer[id] \in {0, server'[id]}
    BY <2>3, <1>a, <1>b, <1>1
  <2>5. req'[r].alone => Unhindered(req[r])'
    BY <2>4, <1>1 DEF Unhindered
  <2> QED
    BY <2>2, <2>5 DEF Lone
<1>7. ASSUME NEW id \in Mirror!Ids PROVE Agrees(id)'
  <2>0. Agrees(id) /\ Concerned(req[r], id) /\ Concerned(req'[r], id)
    <3>1. Agrees(id)
      BY MirrorParts
    <3>2. req[r].op \in {"sync", "create"} /\ req'[r].op \in {"sync", "create"}
      BY <1>a, <1>1
    <3> QED
      BY <3>1, <3>2 DEF Concerned
  <2>1. CASE id = i /\ req[r].alone
    <3>1. \A s \in Callers \ {r} : ~Concerned(req'[s], id)
      <4>1. \A s \in Callers \ {r} : req[s].op = "idle"
        BY <2>1, MirrorParts DEF Lone
      <4> QED
        BY <4>1, <1>1 DEF OthersStay, Concerned
    <3>2. eventRows'[id] = server'[id] /\ req'[r].answer[id] = 0
      <4>1. req[r].answer[id] \in {0, server[id]}
        BY <1>a, <2>1, MirrorParts DEF Lone, Unhindered
      <4>2. eventRows'[id] = req[r].answer[id]
        BY <1>a, <2>1, MirrorParts
      <4>3. req'[r].answer[id] = 0
        BY <1>1, <1>b, <2>1
      <4> QED
        BY <4>1, <4>2, <4>3, <1>a, <2>1
    <3>3. Fits(req'[r], id, server'[id], eventRows'[id])
      BY <3>2, <1>1 DEF Fits
    <3> QED
      BY <2>0, <3>1, <3>3 DEF Agrees
  <2>2. CASE ~(id = i /\ req[r].alone)
    <3>1. id \notin disturbed' => id \notin disturbed
      BY <1>a, <2>2
    <3>2. ASSUME id \notin disturbed
          PROVE  Fits(req'[r], id, server'[id], eventRows'[id])
      <4>1. eventRows[id] = server[id] /\ req[r].answer[id] \in {0, server[id]}
        BY <3>2, <2>0, <1>a DEF Agrees, Fits
      <4>2. eventRows'[id] = server[id] /\ req'[r].answer[id] \in {0, server[id]}
        BY <4>1, <1>a, <1>1, <1>b, MirrorParts
      <4> QED
        BY <4>2, <1>a, <1>1 DEF Fits
    <3>3. StaysRight(r, id)
      BY <3>1, <3>2, <2>0 DEF StaysRight
    <3> QED
      BY <1>1, <2>0, <3>3, AgreesAfter
  <2> QED
    BY <2>1, <2>2
<1>8. req[r].op # "idle" /\ created <= created' /\ TRUE \notin refused'
  <2>1. req[r].op # "idle"
    BY <1>a
  <2>2. created <= created'
    BY <1>a, MirrorParts
  <2>3. TRUE \notin refused'
    BY <1>a, MirrorParts
  <2> QED
    BY <2>1, <2>2, <2>3
<1> QED
  BY <1>1, <1>3, <1>4, <1>5, <1>6, <1>7, <1>8, MirrorMoves

LEMMA MirrorEnds ==
  ASSUME MirrorLimits, MirrorInv, NEW r \in Callers, req[r].op # "idle", Mirror!Done(r),
         server' = server, eventRows' \in [Mirror!Ids -> Mirror!Versions],
         \A id \in Mirror!Ids : id > created => eventRows'[id] = 0,
         created' = created, version' = version,
         happened' \in 0 .. CalendarEvents, happened <= happened',
         disturbed \subseteq disturbed', disturbed' \subseteq Mirror!Ids,
         refused' \subseteq BOOLEAN, TRUE \notin refused',
         \A id \in Mirror!Ids : id \notin disturbed' =>
            IF Concerned(req[r], id) THEN eventRows'[id] = server[id]
                                     ELSE eventRows'[id] = eventRows[id]
  PROVE  MirrorInv'
<1>1. /\ req' \in [Callers -> MirrorRequest] /\ OthersStay(r)
      /\ req'[r] = Mirror!Idle /\ Formed(r)' /\ Lone(r)' /\ MayMake' \subseteq MayMake
      /\ \A id : ~Concerned(req'[r], id)
  <2>1. req \in [Callers -> MirrorRequest]
    BY MirrorParts
  <2> QED
    BY <2>1, MirrorDone
<1>2. Mirror!TypeOK'
  <2>1. \A id \in Mirror!Ids : id > created' => server'[id] = 0 /\ eventRows'[id] = 0
    BY MirrorParts
  <2> QED
    BY <1>1, <2>1, MirrorParts, MirrorTypesNext
<1>3. version' + Cardinality(MayMake') <= happened'
  <2>1. happened' \in Nat
    BY DEF MirrorLimits
  <2> QED
    BY <1>1, <2>1, BudgetKept, MirrorParts
<1>4. ASSUME NEW id \in Mirror!Ids PROVE Agrees(id)'
  <2>1. StaysRight(r, id)
    BY <1>1 DEF StaysRight
  <2> QED
    BY <1>1, <2>1, AgreesAfter, MirrorParts
<1>5. created <= created'
  BY MirrorParts
<1> QED
  BY <1>1, <1>2, <1>3, <1>4, <1>5, MirrorMoves

LEMMA MirrorSyncEnds ==
  ASSUME MirrorLimits, MirrorInv, NEW r \in Callers, Mirror!SyncEnds(r)
  PROVE  MirrorInv'
<1>a. /\ req[r].op = "sync" /\ Mirror!Done(r)
      /\ server' = server /\ eventRows' = eventRows /\ created' = created
      /\ version' = version /\ happened' = happened /\ disturbed' = disturbed
      /\ refused' = refused
  BY DEF Mirror!SyncEnds, Mirror!Busy
<1>1. ASSUME NEW id \in Mirror!Ids, id \notin disturbed'
      PROVE  Concerned(req[r], id) /\ eventRows'[id] = server[id]
  <2>1. req[r].op \in {"sync", "create"}
    BY <1>a
  <2>2. Concerned(req[r], id)
    BY <2>1 DEF Concerned
  <2>3. Agrees(id)
    BY MirrorParts
  <2>4. eventRows[id] = server[id]
    BY <1>a, <1>1, <2>2, <2>3 DEF Agrees, Fits
  <2> QED
    BY <1>a, <2>2, <2>4
<1>2. req[r].op # "idle" /\ happened' \in 0 .. CalendarEvents /\ happened <= happened'
  BY <1>a, MirrorParts
<1>3. eventRows' \in [Mirror!Ids -> Mirror!Versions]
  BY <1>a, MirrorParts
<1>4. \A id \in Mirror!Ids : id > created => eventRows'[id] = 0
  BY <1>a, MirrorParts
<1>5. refused' \subseteq BOOLEAN /\ TRUE \notin refused'
  BY <1>a, MirrorParts
<1>6. disturbed \subseteq disturbed' /\ disturbed' \subseteq Mirror!Ids
  BY <1>a, MirrorParts
<1> QED
  BY <1>a, <1>1, <1>2, <1>3, <1>4, <1>5, <1>6, MirrorEnds

\* A request that something overlapped may be refused.
LEMMA MirrorRefused ==
  ASSUME MirrorLimits, MirrorInv, NEW r \in Callers, Mirror!Refused(r),
         ~req[r].alone
  PROVE  refused' \subseteq BOOLEAN /\ TRUE \notin refused' /\ Mirror!Done(r)
<1>1. req[r].alone \in BOOLEAN
  BY MirrorParts DEF MirrorRequest
<1>2. req[r].alone = FALSE
  BY <1>1
<1>3. refused' = refused \cup {FALSE}
  BY <1>2 DEF Mirror!Refused
<1>4. refused \subseteq BOOLEAN /\ TRUE \notin refused
  BY MirrorParts
<1> QED
  BY <1>3, <1>4 DEF Mirror!Refused

\* A request ends: its row, and no other, is written.
LEMMA MirrorRowWritten ==
  ASSUME MirrorLimits, MirrorInv, NEW r \in Callers, req[r].op # "idle", Mirror!Done(r),
         NEW i \in 1 .. created, NEW v \in Mirror!Versions,
         eventRows' = [eventRows EXCEPT ![i] = v],
         server' = server, created' = created, version' = version, happened' = happened,
         disturbed' = disturbed, refused' = refused,
         Concerned(req[r], i),
         \A id \in Mirror!Ids : id \notin disturbed /\ Concerned(req[r], id) =>
            IF id = i THEN server[id] = v ELSE eventRows[id] = server[id]
  PROVE  MirrorInv'
<1>1. i \in Mirror!Ids
  BY MirrorParts DEF MirrorLimits
<1>2. eventRows' \in [Mirror!Ids -> Mirror!Versions]
  BY <1>1, MirrorParts
<1>3. \A id \in Mirror!Ids : id > created => eventRows'[id] = 0
  BY <1>1, MirrorParts
<1>4. ASSUME NEW id \in Mirror!Ids, id \notin disturbed'
      PROVE  IF Concerned(req[r], id) THEN eventRows'[id] = server[id]
                                      ELSE eventRows'[id] = eventRows[id]
  <2>1. eventRows'[id] = IF id = i THEN v ELSE eventRows[id]
    BY MirrorParts
  <2> QED
    BY <1>4, <2>1
<1>5. refused' \subseteq BOOLEAN /\ TRUE \notin refused'
  BY MirrorParts
<1>6. /\ happened' \in 0 .. CalendarEvents /\ happened <= happened'
      /\ disturbed \subseteq disturbed' /\ disturbed' \subseteq Mirror!Ids
  BY MirrorParts
<1> QED
  BY <1>2, <1>3, <1>4, <1>5, <1>6, MirrorEnds

\* A request is refused: nothing is written.
LEMMA MirrorNothingWritten ==
  ASSUME MirrorLimits, MirrorInv, NEW r \in Callers, req[r].op # "idle", Mirror!Refused(r),
         ~req[r].alone, eventRows' = eventRows,
         server' = server, created' = created, version' = version, happened' = happened,
         disturbed' = disturbed,
         \A id \in Mirror!Ids : id \notin disturbed /\ Concerned(req[r], id) =>
            eventRows[id] = server[id]
  PROVE  MirrorInv'
<1>2. eventRows' \in [Mirror!Ids -> Mirror!Versions]
  BY MirrorParts
<1>3. \A id \in Mirror!Ids : id > created => eventRows'[id] = 0
  BY MirrorParts
<1>5. refused' \subseteq BOOLEAN /\ TRUE \notin refused' /\ Mirror!Done(r)
  BY MirrorRefused
<1>6. /\ happened' \in 0 .. CalendarEvents /\ happened <= happened'
      /\ disturbed \subseteq disturbed' /\ disturbed' \subseteq Mirror!Ids
  BY MirrorParts
<1> QED
  BY <1>2, <1>3, <1>5, <1>6, MirrorEnds

LEMMA MirrorCreateWrites ==
  ASSUME MirrorLimits, MirrorInv, NEW r \in Callers, Mirror!CreateWrites(r)
  PROVE  MirrorInv'
<1>a. /\ req[r].op = "create" /\ req[r].pc = "write"
      /\ IF eventRows[req[r].id] = 0
         THEN /\ eventRows' = [eventRows EXCEPT ![req[r].id] = req[r].v]
              /\ Mirror!Done(r) /\ refused' = refused
         ELSE Mirror!Refused(r) /\ eventRows' = eventRows
      /\ server' = server /\ created' = created
      /\ version' = version /\ happened' = happened /\ disturbed' = disturbed
  BY DEF Mirror!CreateWrites, Mirror!Busy
<1>i. PICK i \in 1 .. created : req[r].id = i
  BY <1>a, MirrorParts DEF Formed
<1>v. PICK v \in Mirror!Versions : req[r].v = v
  <2>1. req[r] \in MirrorRequest
    BY MirrorParts
  <2> QED
    BY <2>1 DEF MirrorRequest
<1>1. \A id \in Mirror!Ids : Concerned(req[r], id)
  <2>1. req[r].op \in {"sync", "create"}
    BY <1>a
  <2> QED
    BY <2>1 DEF Concerned
<1>2. ASSUME NEW id \in Mirror!Ids, id \notin disturbed
      PROVE  IF id = i THEN server[id] = v /\ eventRows[id] = 0 ELSE eventRows[id] = server[id]
  <2>1. Agrees(id)
    BY MirrorParts
  <2>2. Fits(req[r], id, server[id], eventRows[id])
    BY <1>1, <1>2, <2>1 DEF Agrees
  <2> QED
    BY <2>2, <1>a, <1>i, <1>v DEF Fits
<1>3. i \in Mirror!Ids
  BY MirrorParts DEF MirrorLimits
<1>4. CASE eventRows[i] = 0
  BY <1>a, <1>i, <1>v, <1>1, <1>2, <1>3, <1>4, MirrorRowWritten
<1>5. CASE eventRows[i] # 0
  <2>1. ~req[r].alone
    BY <1>5, <1>a, <1>i, MirrorParts DEF Lone, Unhindered
  <2>2. i \in disturbed
    BY <1>2, <1>3, <1>5
  <2>3. ASSUME NEW id \in Mirror!Ids, id \notin disturbed PROVE eventRows[id] = server[id]
    BY <1>2, <2>2, <2>3
  <2>4. Mirror!Refused(r) /\ eventRows' = eventRows
    BY <1>a, <1>i, <1>5
  <2>5. req[r].op # "idle"
    BY <1>a
  <2> QED
    BY <1>a, <2>1, <2>3, <2>4, <2>5, MirrorNothingWritten
<1> QED
  BY <1>4, <1>5

LEMMA MirrorWrites ==
  ASSUME MirrorLimits, MirrorInv, NEW r \in Callers, Mirror!Writes(r)
  PROVE  MirrorInv'
<1>a. /\ req[r].op \in {"update", "delete"} /\ req[r].pc = "write"
      /\ IF eventRows[req[r].id] # 0
         THEN /\ eventRows' = [eventRows EXCEPT ![req[r].id] =
                                  IF req[r].op = "delete" THEN 0 ELSE req[r].v]
              /\ Mirror!Done(r) /\ refused' = refused
         ELSE Mirror!Refused(r) /\ eventRows' = eventRows
      /\ server' = server /\ created' = created
      /\ version' = version /\ happened' = happened /\ disturbed' = disturbed
  BY DEF Mirror!Writes, Mirror!Busy
<1>i. PICK i \in 1 .. created : req[r].id = i
  BY <1>a, MirrorParts DEF Formed
<1>v. PICK v \in Mirror!Versions : v = IF req[r].op = "delete" THEN 0 ELSE req[r].v
  <2>1. req[r] \in MirrorRequest
    BY MirrorParts
  <2>2. req[r].v \in Mirror!Versions
    BY <2>1 DEF MirrorRequest
  <2>3. 0 \in Mirror!Versions
    BY DEF MirrorLimits, Mirror!Versions
  <2> QED
    BY <2>2, <2>3
<1>1. \A id \in Mirror!Ids : Concerned(req[r], id) <=> id = i
  BY <1>a, <1>i DEF Concerned
<1>3. i \in Mirror!Ids
  BY MirrorParts DEF MirrorLimits
<1>2. i \notin disturbed => server[i] = v /\ eventRows[i] # 0
  <2>1. Agrees(i)
    BY <1>3, MirrorParts
  <2>2. i \notin disturbed => Fits(req[r], i, server[i], eventRows[i])
    BY <1>1, <1>3, <2>1 DEF Agrees
  <2> QED
    BY <2>2, <1>a, <1>v DEF Fits
<1>4. CASE eventRows[i] # 0
  <2>1. eventRows' = [eventRows EXCEPT ![i] = v] /\ Mirror!Done(r) /\ refused' = refused
    BY <1>a, <1>i, <1>v, <1>4
  <2>2. req[r].op # "idle" /\ Concerned(req[r], i)
    BY <1>a, <1>1, <1>3
  <2>3. \A id \in Mirror!Ids : id \notin disturbed /\ Concerned(req[r], id) =>
          IF id = i THEN server[id] = v ELSE eventRows[id] = server[id]
    BY <1>1, <1>2
  <2> QED
    BY <1>a, <2>1, <2>2, <2>3, MirrorRowWritten
<1>5. CASE eventRows[i] = 0
  <2>1. ~req[r].alone
    BY <1>5, <1>a, <1>i, MirrorParts DEF Lone, Unhindered
  <2>3. \A id \in Mirror!Ids : id \notin disturbed /\ Concerned(req[r], id) =>
          eventRows[id] = server[id]
    BY <1>1, <1>2, <1>5
  <2>4. Mirror!Refused(r) /\ eventRows' = eventRows
    BY <1>a, <1>i, <1>5
  <2>5. req[r].op # "idle"
    BY <1>a
  <2> QED
    BY <1>a, <2>1, <2>3, <2>4, <2>5, MirrorNothingWritten
<1> QED
  BY <1>4, <1>5

LEMMA MirrorFails ==
  ASSUME MirrorLimits, MirrorInv, NEW r \in Callers, Mirror!Fails(r)
  PROVE  MirrorInv'
<1>a. /\ req[r].op # "idle" /\ Mirror!Done(r)
      /\ happened < CalendarEvents /\ happened' = happened + 1
      /\ disturbed' = disturbed \cup Mirror!Concern(req[r].op, req[r].id)
      /\ server' = server /\ eventRows' = eventRows /\ created' = created
      /\ version' = version /\ refused' = refused
  BY DEF Mirror!Fails, Mirror!Event
<1>b. req[r] \in MirrorRequest /\ Formed(r)
  BY MirrorParts
<1>1. /\ Mirror!Concern(req[r].op, req[r].id) \subseteq Mirror!Ids
      /\ \A id \in Mirror!Ids :
            Concerned(req[r], id) <=> id \in Mirror!Concern(req[r].op, req[r].id)
  <2>1. CASE req[r].op \in {"sync", "create"}
    BY <2>1 DEF Mirror!Concern, Concerned
  <2>2. CASE req[r].op \notin {"sync", "create"}
    <3>1. req[r].op \in {"update", "delete"}
      BY <1>a, <1>b, <2>2 DEF MirrorRequest
    <3>2. PICK i \in 1 .. created : req[r].id = i
      BY <1>b, <3>1 DEF Formed
    <3>3. i \in Mirror!Ids
      BY MirrorParts DEF MirrorLimits
    <3> QED
      BY <2>2, <3>1, <3>2, <3>3 DEF Mirror!Concern, Concerned
  <2> QED
    BY <2>1, <2>2
<1>2. eventRows' \in [Mirror!Ids -> Mirror!Versions]
  BY <1>a, MirrorParts
<1>3. \A id \in Mirror!Ids : id > created => eventRows'[id] = 0
  BY <1>a, MirrorParts
<1>4. refused' \subseteq BOOLEAN /\ TRUE \notin refused'
  BY <1>a, MirrorParts
<1>5. disturbed \subseteq disturbed' /\ disturbed' \subseteq Mirror!Ids
  BY <1>a, <1>1, MirrorParts
<1>6. happened' \in 0 .. CalendarEvents /\ happened <= happened'
  BY <1>a, MirrorParts DEF MirrorLimits
<1>7. \A id \in Mirror!Ids : id \notin disturbed' =>
         ~Concerned(req[r], id) /\ eventRows'[id] = eventRows[id]
  BY <1>a, <1>1
<1> QED
  BY <1>a, <1>2, <1>3, <1>4, <1>5, <1>6, <1>7, MirrorEnds

\* A request moves on: what its own step wrote of it.
MovesTo(r, q) == req' = [req EXCEPT ![r] = q]

LEMMA MirrorMovesOn ==
  ASSUME MirrorLimits, MirrorInv, NEW r \in Callers, NEW q \in MirrorRequest, MovesTo(r, q),
         q.op = req[r].op, req[r].op # "idle", q.alone = req[r].alone,
         q.answer = req[r].answer, q.pc \in {"ask", "modify", "write"},
         server' \in [Mirror!Ids -> Mirror!Versions], eventRows' = eventRows,
         created' \in 0 .. MaxIds, created <= created', version' \in Mirror!Versions,
         \A id \in Mirror!Ids : id > created' => server'[id] = 0,
         happened' = happened, disturbed' = disturbed, refused' = refused,
         q.op = "create" => q.pc = "write" /\ q.id \in 1 .. created',
         q.op \in {"update", "delete"} => q.id = req[r].id,
         version' + Cardinality(MayMake') <= happened',
         Unhindered(req[r]) => Unhindered(req[r])',
         \A id \in Mirror!Ids : id \notin disturbed =>
            IF Concerned(req[r], id)
            THEN Fits(req[r], id, server[id], eventRows[id]) => Fits(q, id, server'[id], eventRows[id])
            ELSE server'[id] = server[id]
  PROVE  MirrorInv'
<1>1. /\ req' \in [Callers -> MirrorRequest] /\ OthersStay(r) /\ req'[r] = q
  <2>1. req \in [Callers -> MirrorRequest]
    BY MirrorParts
  <2> QED
    BY <2>1 DEF MovesTo, OthersStay
<1>2. Mirror!TypeOK'
  <2>1. eventRows' \in [Mirror!Ids -> Mirror!Versions]
    BY MirrorParts
  <2>2. \A id \in Mirror!Ids : id > created' => id > created
    BY MirrorParts DEF MirrorLimits
  <2>3. \A id \in Mirror!Ids : id > created' => server'[id] = 0 /\ eventRows'[id] = 0
    BY <2>2, MirrorParts
  <2>4. /\ happened' \in 0 .. CalendarEvents
        /\ disturbed' \subseteq Mirror!Ids /\ refused' \subseteq BOOLEAN
    BY MirrorParts
  <2> QED
    BY <1>1, <2>1, <2>3, <2>4, MirrorTypesNext
<1>3. Formed(r)'
  <2>1. Formed(r)
    BY MirrorParts
  <2>2. \A id \in Mirror!Ids : q.answer[id] # 0 => id <= created'
    <3>1. \A id \in Mirror!Ids : id <= created => id <= created'
      BY MirrorParts DEF MirrorLimits
    <3> QED
      BY <2>1, <3>1 DEF Formed
  <2>3. q.op \in {"update", "delete"} => q.id \in 1 .. created'
    <3>1. 1 .. created \subseteq 1 .. created'
      BY MirrorParts DEF MirrorLimits
    <3> QED
      BY <2>1, <3>1 DEF Formed
  <2> QED
    BY <1>1, <2>2, <2>3 DEF Formed
<1>4. Lone(r)'
  <2>1. req[r].alone => Unhindered(req[r]) /\ \A s \in Callers \ {r} : req[s].op = "idle"
    BY MirrorParts DEF Lone
  <2>2. req'[r].alone => \A s \in Callers \ {r} : req'[s].op = "idle"
    BY <2>1, <1>1 DEF OthersStay
  <2>3. req'[r].alone => Unhindered(req[r])'
    BY <2>1, <1>1
  <2> QED
    BY <2>2, <2>3 DEF Lone
<1>5. ASSUME NEW id \in Mirror!Ids PROVE Agrees(id)'
  <2>1. Agrees(id)
    BY MirrorParts
  <2>2. Concerned(req[r], id) => Concerned(req'[r], id)
    BY <1>1 DEF Concerned
  <2>3. Concerned(req'[r], id) => Concerned(req[r], id)
    BY <1>1 DEF Concerned
  <2>4. id \notin disturbed /\ Concerned(req[r], id) =>
           Fits(req'[r], id, server'[id], eventRows'[id])
    BY <1>1, <2>1 DEF Agrees
  <2>5. StaysRight(r, id)
    BY <1>1, <2>2, <2>3, <2>4 DEF StaysRight
  <2> QED
    BY <1>1, <2>1, <2>5, AgreesAfter
<1>6. TRUE \notin refused'
  BY MirrorParts
<1> QED
  BY <1>1, <1>2, <1>3, <1>4, <1>5, <1>6, MirrorMoves

LEMMA MirrorUpdateReads ==
  ASSUME MirrorLimits, MirrorInv, NEW r \in Callers, Mirror!UpdateReads(r)
  PROVE  MirrorInv'
<1>a. /\ req[r].op = "update" /\ req[r].pc = "ask"
      /\ req' = [req EXCEPT ![r].pc = "modify", ![r].v = server[req[r].id]]
      /\ server' = server /\ eventRows' = eventRows /\ created' = created
      /\ version' = version /\ happened' = happened /\ disturbed' = disturbed
      /\ refused' = refused
  BY DEF Mirror!UpdateReads, Mirror!Busy, Mirror!Sequence
<1>i. PICK i \in 1 .. created : req[r].id = i
  BY <1>a, MirrorParts DEF Formed
<1>b. i \in Mirror!Ids /\ req[r] \in MirrorRequest
  BY MirrorParts DEF MirrorLimits
<1>v. PICK v \in Mirror!Versions : v = server[i]
  BY <1>b, MirrorParts
<1>q. PICK q \in MirrorRequest : q = [req[r] EXCEPT !.pc = "modify", !.v = v]
  BY <1>b, <1>v DEF MirrorRequest
<1>1. /\ q.op = "update" /\ q.pc = "modify" /\ q.v = v /\ q.id = i
      /\ q.alone = req[r].alone /\ q.answer = req[r].answer
  BY <1>q, <1>b, <1>a, <1>i DEF MirrorRequest
<1>2. MovesTo(r, q)
  <2>1. req \in [Callers -> MirrorRequest]
    BY MirrorParts
  <2> QED
    BY <1>a, <1>i, <1>v, <1>q, <2>1 DEF MovesTo
<1>3. req'[r] = q /\ OthersStay(r)
  <2>1. req \in [Callers -> MirrorRequest]
    BY MirrorParts
  <2> QED
    BY <1>2, <2>1 DEF MovesTo, OthersStay
<1>4. version' + Cardinality(MayMake') <= happened'
  <2>1. MayMake' \subseteq MayMake
    BY <1>a, <1>1, <1>3 DEF MayMake, OthersStay
  <2>2. happened' \in Nat /\ happened <= happened'
    BY <1>a, MirrorParts
  <2> QED
    BY <1>a, <2>1, <2>2, BudgetKept, MirrorParts
<1>5. Unhindered(req[r]) => Unhindered(req[r])'
  <2>1. ASSUME Unhindered(req[r])
        PROVE  eventRows'[i] # 0 /\ v # 0 /\ server'[i] = v
    BY <1>a, <1>i, <1>v, <2>1 DEF Unhindered
  <2> QED
    BY <1>1, <1>3, <2>1 DEF Unhindered
<1>6. ASSUME NEW id \in Mirror!Ids
      PROVE  Fits(req[r], id, server[id], eventRows[id]) => Fits(q, id, server'[id], eventRows[id])
  BY <1>a, <1>1 DEF Fits
<1>7. /\ server' \in [Mirror!Ids -> Mirror!Versions] /\ version' \in Mirror!Versions
      /\ created' \in 0 .. MaxIds /\ created <= created'
  BY <1>a, MirrorParts
<1>8. \A id \in Mirror!Ids : id > created' => server'[id] = 0
  BY <1>a, MirrorParts
<1>9. /\ q.op = req[r].op /\ req[r].op # "idle" /\ q.pc \in {"ask", "modify", "write"}
      /\ q.op = "create" => q.pc = "write" /\ q.id \in 1 .. created'
      /\ q.op \in {"update", "delete"} => q.id = req[r].id
  BY <1>a, <1>1, <1>i
<1> QED
  BY <1>a, <1>1, <1>2, <1>4, <1>5, <1>6, <1>7, <1>8, <1>9, MirrorMovesOn

LEMMA MirrorUpdate ==
  ASSUME MirrorLimits, MirrorInv, NEW r \in Callers, Mirror!Update(r)
  PROVE  MirrorInv'
<1>a. /\ req[r].op = "update" /\ req[r].pc = "modify"
      /\ IF server[req[r].id] # 0 /\ server[req[r].id] = req[r].v
         THEN /\ version' = version + 1 /\ server' = [server EXCEPT ![req[r].id] = version']
              /\ req' = [req EXCEPT ![r].pc = "write", ![r].v = version']
              /\ refused' = refused
         ELSE Mirror!Refused(r) /\ server' = server /\ version' = version
      /\ eventRows' = eventRows /\ created' = created
      /\ happened' = happened /\ disturbed' = disturbed
  BY DEF Mirror!Update, Mirror!Busy
<1>i. PICK i \in 1 .. created : req[r].id = i
  BY <1>a, MirrorParts DEF Formed
<1>b. i \in Mirror!Ids /\ req[r] \in MirrorRequest
  BY MirrorParts DEF MirrorLimits
<1>c. \A id \in Mirror!Ids : Concerned(req[r], id) <=> id = i
  BY <1>a, <1>i DEF Concerned
<1>d. i \notin disturbed => eventRows[i] = server[i]
  <2>1. Agrees(i)
    BY <1>b, MirrorParts
  <2>2. i \notin disturbed => Fits(req[r], i, server[i], eventRows[i])
    BY <1>b, <1>c, <2>1 DEF Agrees
  <2> QED
    BY <2>2, <1>a DEF Fits
<1>n. req[r].op # "idle"
  BY <1>a
<1>A. CASE server[i] # 0 /\ server[i] = req[r].v
  <2>a. /\ version' = version + 1 /\ server' = [server EXCEPT ![i] = version']
        /\ req' = [req EXCEPT ![r].pc = "write", ![r].v = version'] /\ refused' = refused
    BY <1>a, <1>i, <1>A
  <2>o. req'[r].op = "update" /\ req'[r].pc = "write" /\ OthersStay(r)
    <3>1. req \in [Callers -> MirrorRequest]
      BY MirrorParts
    <3> QED
      BY <1>a, <1>b, <2>a, <3>1 DEF OthersStay, MirrorRequest
  <2>4. version' + Cardinality(MayMake') <= happened' /\ version' \in Mirror!Versions
    <3>1. r \in MayMake /\ MayMake' \subseteq MayMake \ {r}
      BY <1>a, <2>o DEF MayMake, OthersStay
    <3>2. happened <= CalendarEvents
      BY MirrorParts
    <3> QED
      BY <1>a, <2>a, <3>1, <3>2, BudgetSpent, MirrorParts
  <2>v. PICK v \in Mirror!Versions : v = version'
    BY <2>4
  <2>z. v # 0
    BY <2>v, <2>a, MirrorParts
  <2>q. PICK q \in MirrorRequest : q = [req[r] EXCEPT !.pc = "write", !.v = v]
    BY <1>b DEF MirrorRequest
  <2>1. /\ q.op = "update" /\ q.pc = "write" /\ q.v = v /\ q.id = i
        /\ q.alone = req[r].alone /\ q.answer = req[r].answer
    BY <2>q, <1>b, <1>a, <1>i DEF MirrorRequest
  <2>2. MovesTo(r, q)
    BY <2>a, <2>v, <2>q DEF MovesTo
  <2>3. req'[r] = q
    <3>1. req \in [Callers -> MirrorRequest]
      BY MirrorParts
    <3> QED
      BY <2>2, <3>1 DEF MovesTo
  <2>5. Unhindered(req[r]) => Unhindered(req[r])'
    <3>1. ASSUME Unhindered(req[r]) PROVE eventRows'[i] # 0
      BY <1>a, <1>i, <3>1 DEF Unhindered
    <3> QED
      BY <2>1, <2>3, <3>1 DEF Unhindered
  <2>s. \A id \in Mirror!Ids : server'[id] = IF id = i THEN v ELSE server[id]
    BY <2>a, <2>v, MirrorParts
  <2>6. ASSUME NEW id \in Mirror!Ids, id \notin disturbed
        PROVE  IF Concerned(req[r], id)
               THEN Fits(req[r], id, server[id], eventRows[id]) =>
                      Fits(q, id, server'[id], eventRows[id])
               ELSE server'[id] = server[id]
    <3>1. CASE id = i
      <4>1. server'[id] = v /\ eventRows[id] # 0
        BY <1>A, <1>d, <2>s, <2>6, <3>1
      <4> QED
        BY <4>1, <2>1, <1>c, <3>1 DEF Fits
    <3>2. CASE id # i
      BY <2>s, <1>c, <3>2
    <3> QED
      BY <3>1, <3>2
  <2>7. /\ server' \in [Mirror!Ids -> Mirror!Versions] /\ version' \in Mirror!Versions
        /\ created' \in 0 .. MaxIds /\ created <= created'
    <3>1. server' = [server EXCEPT ![i] = v]
      BY <2>a, <2>v
    <3>2. server' \in [Mirror!Ids -> Mirror!Versions]
      BY <3>1, MirrorParts
    <3>3. created' \in 0 .. MaxIds /\ created <= created'
      BY <1>a, MirrorParts
    <3> QED
      BY <2>v, <3>2, <3>3
  <2>8. \A id \in Mirror!Ids : id > created' => server'[id] = 0
    BY <1>a, <2>s, MirrorParts
  <2>9. /\ q.op = req[r].op /\ q.pc \in {"ask", "modify", "write"}
        /\ q.op = "create" => q.pc = "write" /\ q.id \in 1 .. created'
        /\ q.op \in {"update", "delete"} => q.id = req[r].id
    BY <1>a, <2>1, <1>i
  <2> QED
    BY <1>a, <1>n, <2>a, <2>1, <2>2, <2>4, <2>5, <2>6, <2>7, <2>8, <2>9, MirrorMovesOn
<1>B. CASE ~(server[i] # 0 /\ server[i] = req[r].v)
  <2>1. Mirror!Refused(r) /\ server' = server /\ version' = version
    BY <1>a, <1>i, <1>B
  <2>2. ~req[r].alone
    BY <1>B, <1>a, <1>i, MirrorParts DEF Lone, Unhindered
  <2>3. \A id \in Mirror!Ids : id \notin disturbed /\ Concerned(req[r], id) =>
          eventRows[id] = server[id]
    BY <1>c, <1>d
  <2> QED
    BY <1>a, <1>n, <2>1, <2>2, <2>3, MirrorNothingWritten
<1> QED
  BY <1>A, <1>B

LEMMA MirrorDelete ==
  ASSUME MirrorLimits, MirrorInv, NEW r \in Callers, Mirror!Delete(r)
  PROVE  MirrorInv'
<1>a. /\ req[r].op = "delete" /\ req[r].pc = "ask"
      /\ IF server[req[r].id] # 0
         THEN /\ server' = [server EXCEPT ![req[r].id] = 0]
              /\ req' = [req EXCEPT ![r].pc = "write"] /\ refused' = refused
         ELSE Mirror!Refused(r) /\ server' = server
      /\ eventRows' = eventRows /\ created' = created /\ version' = version
      /\ happened' = happened /\ disturbed' = disturbed
  BY DEF Mirror!Delete, Mirror!Busy
<1>i. PICK i \in 1 .. created : req[r].id = i
  BY <1>a, MirrorParts DEF Formed
<1>b. i \in Mirror!Ids /\ req[r] \in MirrorRequest
  BY MirrorParts DEF MirrorLimits
<1>c. \A id \in Mirror!Ids : Concerned(req[r], id) <=> id = i
  BY <1>a, <1>i DEF Concerned
<1>d. i \notin disturbed => eventRows[i] = server[i]
  <2>1. Agrees(i)
    BY <1>b, MirrorParts
  <2>2. i \notin disturbed => Fits(req[r], i, server[i], eventRows[i])
    BY <1>b, <1>c, <2>1 DEF Agrees
  <2> QED
    BY <2>2, <1>a DEF Fits
<1>n. req[r].op # "idle"
  BY <1>a
<1>A. CASE server[i] # 0
  <2>a. /\ server' = [server EXCEPT ![i] = 0]
        /\ req' = [req EXCEPT ![r].pc = "write"] /\ refused' = refused
    BY <1>a, <1>i, <1>A
  <2>o. req'[r].op = "delete" /\ req'[r].pc = "write" /\ OthersStay(r)
    <3>1. req \in [Callers -> MirrorRequest]
      BY MirrorParts
    <3> QED
      BY <1>a, <1>b, <2>a, <3>1 DEF OthersStay, MirrorRequest
  <2>4. version' + Cardinality(MayMake') <= happened'
    <3>1. MayMake' \subseteq MayMake
      BY <1>a, <2>o DEF MayMake, OthersStay
    <3>2. happened' \in Nat /\ happened <= happened'
      BY <1>a, MirrorParts
    <3> QED
      BY <1>a, <3>1, <3>2, BudgetKept, MirrorParts
  <2>q. PICK q \in MirrorRequest : q = [req[r] EXCEPT !.pc = "write"]
    BY <1>b DEF MirrorRequest
  <2>1. /\ q.op = "delete" /\ q.pc = "write" /\ q.id = i
        /\ q.alone = req[r].alone /\ q.answer = req[r].answer
    BY <2>q, <1>b, <1>a, <1>i DEF MirrorRequest
  <2>2. MovesTo(r, q)
    BY <2>a, <2>q DEF MovesTo
  <2>3. req'[r] = q
    <3>1. req \in [Callers -> MirrorRequest]
      BY MirrorParts
    <3> QED
      BY <2>2, <3>1 DEF MovesTo
  <2>5. Unhindered(req[r]) => Unhindered(req[r])'
    <3>1. ASSUME Unhindered(req[r]) PROVE eventRows'[i] # 0
      BY <1>a, <1>i, <3>1 DEF Unhindered
    <3> QED
      BY <2>1, <2>3, <3>1 DEF Unhindered
  <2>s. \A id \in Mirror!Ids : server'[id] = IF id = i THEN 0 ELSE server[id]
    BY <2>a, MirrorParts
  <2>6. ASSUME NEW id \in Mirror!Ids, id \notin disturbed
        PROVE  IF Concerned(req[r], id)
               THEN Fits(req[r], id, server[id], eventRows[id]) =>
                      Fits(q, id, server'[id], eventRows[id])
               ELSE server'[id] = server[id]
    <3>1. CASE id = i
      <4>1. server'[id] = 0 /\ eventRows[id] # 0
        BY <1>A, <1>d, <2>s, <2>6, <3>1
      <4> QED
        BY <4>1, <2>1, <1>c, <3>1 DEF Fits
    <3>2. CASE id # i
      BY <2>s, <1>c, <3>2
    <3> QED
      BY <3>1, <3>2
  <2>7. /\ server' \in [Mirror!Ids -> Mirror!Versions] /\ version' \in Mirror!Versions
        /\ created' \in 0 .. MaxIds /\ created <= created'
    <3>0. 0 \in Mirror!Versions
      BY DEF MirrorLimits, Mirror!Versions
    <3>2. server' \in [Mirror!Ids -> Mirror!Versions]
      BY <2>a, <3>0, MirrorParts
    <3>3. created' \in 0 .. MaxIds /\ created <= created' /\ version' \in Mirror!Versions
      BY <1>a, MirrorParts
    <3> QED
      BY <3>2, <3>3
  <2>8. \A id \in Mirror!Ids : id > created' => server'[id] = 0
    BY <1>a, <2>s, MirrorParts
  <2>9. /\ q.op = req[r].op /\ q.pc \in {"ask", "modify", "write"}
        /\ q.op = "create" => q.pc = "write" /\ q.id \in 1 .. created'
        /\ q.op \in {"update", "delete"} => q.id = req[r].id
    BY <1>a, <2>1, <1>i
  <2> QED
    BY <1>a, <1>n, <2>a, <2>1, <2>2, <2>4, <2>5, <2>6, <2>7, <2>8, <2>9, MirrorMovesOn
<1>B. CASE server[i] = 0
  <2>1. Mirror!Refused(r) /\ server' = server
    BY <1>a, <1>i, <1>B
  <2>2. ~req[r].alone
    BY <1>B, <1>a, <1>i, MirrorParts DEF Lone, Unhindered
  <2>3. \A id \in Mirror!Ids : id \notin disturbed /\ Concerned(req[r], id) =>
          eventRows[id] = server[id]
    BY <1>c, <1>d
  <2> QED
    BY <1>a, <1>n, <2>1, <2>2, <2>3, MirrorNothingWritten
<1> QED
  BY <1>A, <1>B

LEMMA MirrorCreate ==
  ASSUME MirrorLimits, MirrorInv, NEW r \in Callers, Mirror!Create(r)
  PROVE  MirrorInv'
<1>a. /\ req[r].op = "create" /\ req[r].pc = "ask" /\ created < MaxIds
      /\ created' = created + 1 /\ version' = version + 1
      /\ server' = [server EXCEPT ![created'] = version']
      /\ req' = [req EXCEPT ![r].pc = "write", ![r].id = created', ![r].v = version']
      /\ eventRows' = eventRows /\ happened' = happened /\ disturbed' = disturbed
      /\ refused' = refused
  BY DEF Mirror!Create, Mirror!Busy
<1>i. PICK i \in Mirror!Ids : i = created' /\ i = created + 1
  <2>1. created' \in 1 .. MaxIds
    BY <1>a, MirrorParts DEF MirrorLimits
  <2>2. created' \in Mirror!Ids
    BY <2>1, MirrorParts
  <2> QED
    BY <1>a, <2>2
<1>b. req[r] \in MirrorRequest /\ i \in 0 .. MaxIds /\ i \in 1 .. created'
  <2>1. req[r] \in MirrorRequest
    BY MirrorParts
  <2>2. i \in 1 .. MaxIds /\ i \in 1 .. created'
    BY <1>i, MirrorParts
  <2> QED
    BY <2>1, <2>2 DEF MirrorLimits
<1>c. \A id : Concerned(req[r], id)
  <2>1. req[r].op \in {"sync", "create"}
    BY <1>a
  <2> QED
    BY <2>1 DEF Concerned
<1>o. req'[r].op = "create" /\ req'[r].pc = "write" /\ OthersStay(r)
  <2>1. req \in [Callers -> MirrorRequest]
    BY MirrorParts
  <2> QED
    BY <1>a, <1>b, <2>1 DEF OthersStay, MirrorRequest
<1>4. version' + Cardinality(MayMake') <= happened' /\ version' \in Mirror!Versions
  <2>1. r \in MayMake /\ MayMake' \subseteq MayMake \ {r}
    BY <1>a, <1>o DEF MayMake, OthersStay
  <2>2. happened <= CalendarEvents
    BY MirrorParts
  <2> QED
    BY <1>a, <2>1, <2>2, BudgetSpent, MirrorParts
<1>v. PICK v \in Mirror!Versions : v = version'
  BY <1>4
<1>q. PICK q \in MirrorRequest : q = [req[r] EXCEPT !.pc = "write", !.id = i, !.v = v]
  BY <1>b DEF MirrorRequest
<1>1. /\ q.op = "create" /\ q.pc = "write" /\ q.v = v /\ q.id = i
      /\ q.alone = req[r].alone /\ q.answer = req[r].answer
  BY <1>q, <1>b, <1>a DEF MirrorRequest
<1>2. MovesTo(r, q)
  <2>1. req \in [Callers -> MirrorRequest]
    BY MirrorParts
  <2>2. req' = [req EXCEPT ![r].pc = "write", ![r].id = i, ![r].v = v]
    BY <1>a, <1>i, <1>v
  <2> QED
    BY <2>2, <1>q, <2>1 DEF MovesTo
<1>3. req'[r] = q
  <2>1. req \in [Callers -> MirrorRequest]
    BY MirrorParts
  <2> QED
    BY <1>2, <2>1 DEF MovesTo
<1>w. eventRows[i] = 0
  BY <1>i, MirrorParts
<1>5. Unhindered(req[r]) => Unhindered(req[r])'
  <2>1. eventRows'[i] = 0
    BY <1>a, <1>w
  <2> QED
    BY <1>1, <1>3, <2>1 DEF Unhindered
<1>s. \A id \in Mirror!Ids : server'[id] = IF id = i THEN v ELSE server[id]
  <2>1. server' = [server EXCEPT ![i] = v]
    BY <1>a, <1>i, <1>v
  <2> QED
    BY <2>1, MirrorParts
<1>6. ASSUME NEW id \in Mirror!Ids
      PROVE  Fits(req[r], id, server[id], eventRows[id]) => Fits(q, id, server'[id], eventRows[id])
  <2>1. CASE id = i
    BY <2>1, <1>s, <1>w, <1>1 DEF Fits
  <2>2. CASE id # i
    BY <2>2, <1>s, <1>1, <1>a DEF Fits
  <2> QED
    BY <2>1, <2>2
<1>7. /\ server' \in [Mirror!Ids -> Mirror!Versions] /\ version' \in Mirror!Versions
      /\ created' \in 0 .. MaxIds /\ created <= created'
  <2>1. server' = [server EXCEPT ![i] = v]
    BY <1>a, <1>i, <1>v
  <2>2. server' \in [Mirror!Ids -> Mirror!Versions]
    BY <2>1, MirrorParts
  <2>3. created' \in 0 .. MaxIds /\ created <= created'
    BY <1>a, MirrorParts DEF MirrorLimits
  <2> QED
    BY <1>v, <2>2, <2>3
<1>8. \A id \in Mirror!Ids : id > created' => server'[id] = 0
  <2>1. ASSUME NEW id \in Mirror!Ids, id > created' PROVE id # i /\ id > created
    <3>1. id \in Nat /\ created \in Nat
      BY MirrorParts
    <3> QED
      BY <1>i, <2>1, <3>1
  <2> QED
    BY <1>s, <2>1, MirrorParts
<1>9. /\ q.op = req[r].op /\ req[r].op # "idle" /\ q.pc \in {"ask", "modify", "write"}
      /\ q.op = "create" => q.pc = "write" /\ q.id \in 1 .. created'
      /\ q.op \in {"update", "delete"} => q.id = req[r].id
  BY <1>a, <1>1, <1>b
<1> QED
  BY <1>a, <1>c, <1>1, <1>2, <1>4, <1>5, <1>6, <1>7, <1>8, <1>9, MirrorMovesOn

\* Somebody else began: the request s is no longer alone.
SharedNow(s) ==
    /\ req'[s].op = req[s].op /\ req'[s].pc = req[s].pc /\ req'[s].id = req[s].id
    /\ req'[s].v = req[s].v /\ req'[s].answer = req[s].answer /\ req'[s].alone = FALSE
    /\ req'[s] \in MirrorRequest /\ req'[s] = [req[s] EXCEPT !.alone = FALSE]

LEMMA SharedIsShared ==
  ASSUME NEW S \in SUBSET Callers, NEW s \in S, req[s] \in MirrorRequest,
         req'[s] = [req[s] EXCEPT !.alone = FALSE]
  PROVE  SharedNow(s)
<1>1. [req[s] EXCEPT !.alone = FALSE] \in MirrorRequest
  BY DEF MirrorRequest
<1>2. /\ req'[s].op = req[s].op /\ req'[s].pc = req[s].pc /\ req'[s].id = req[s].id
      /\ req'[s].v = req[s].v /\ req'[s].answer = req[s].answer /\ req'[s].alone = FALSE
  BY DEF MirrorRequest
<1> QED
  BY <1>1, <1>2 DEF SharedNow

LEMMA IdleShared ==
  ASSUME MirrorLimits
  PROVE  [Mirror!Idle EXCEPT !.alone = FALSE] = Mirror!Idle
<1>1. ASSUME NEW q \in MirrorRequest, q.alone = FALSE PROVE [q EXCEPT !.alone = FALSE] = q
  BY <1>1 DEF MirrorRequest
<1> QED
  BY <1>1, MirrorIdle

LEMMA SharedLemma ==
  ASSUME MirrorLimits, MirrorInv, NEW s \in Callers, SharedNow(s), created' \in Nat,
         created <= created'
  PROVE  /\ Formed(s)' /\ Lone(s)'
         /\ \A id : Concerned(req'[s], id) <=> Concerned(req[s], id)
         /\ \A id, v, w : Fits(req'[s], id, v, w) <=> Fits(req[s], id, v, w)
         /\ s \in MayMake' <=> s \in MayMake
<1>1. Formed(s)'
  <2>1. Formed(s)
    BY MirrorParts
  <2>2. req[s].op = "idle" => req'[s] = Mirror!Idle
    <3>1. [Mirror!Idle EXCEPT !.alone = FALSE] = Mirror!Idle
      BY IdleShared
    <3> QED
      BY <2>1, <3>1 DEF SharedNow, Formed
  <2>3. 1 .. created \subseteq 1 .. created'
    BY MirrorParts
  <2>4. \A id \in Mirror!Ids : id <= created => id <= created'
    BY MirrorParts
  <2> QED
    BY <2>1, <2>2, <2>3, <2>4 DEF SharedNow, Formed
<1>2. Lone(s)'
  BY DEF SharedNow, Lone
<1>3. \A id : Concerned(req'[s], id) <=> Concerned(req[s], id)
  BY DEF SharedNow, Concerned
<1>4. \A id, v, w : Fits(req'[s], id, v, w) <=> Fits(req[s], id, v, w)
  BY DEF SharedNow, Fits
<1>5. s \in MayMake' <=> s \in MayMake
  BY DEF SharedNow, MayMake
<1> QED
  BY <1>1, <1>2, <1>3, <1>4, <1>5

LEMMA BudgetGrows ==
  ASSUME MirrorLimits, MirrorInv, NEW r, happened' = happened + 1,
         \/ MayMake' \subseteq MayMake \cup {r} /\ version' = version
         \/ MayMake' \subseteq MayMake /\ version' = version + 1
  PROVE  version' + Cardinality(MayMake') <= happened'
<1>1. IsFiniteSet(MayMake)
  BY FS_Subset DEF MirrorLimits, MayMake
<1>2. IsFiniteSet(MayMake \cup {r}) /\ Cardinality(MayMake \cup {r}) <= Cardinality(MayMake) + 1
  <2>1. Cardinality(MayMake) \in Nat
    BY <1>1, FS_CardinalityType
  <2>2. CASE r \in MayMake
    <3>1. MayMake \cup {r} = MayMake
      BY <2>2
    <3>2. Cardinality(MayMake) <= Cardinality(MayMake) + 1
      BY <2>1
    <3> QED
      BY <1>1, <3>1, <3>2
  <2>3. CASE r \notin MayMake
    <3>1. /\ IsFiniteSet(MayMake \cup {r})
          /\ Cardinality(MayMake \cup {r}) = Cardinality(MayMake) + 1
      BY <1>1, <2>3, FS_AddElement
    <3> QED
      BY <2>1, <3>1
  <2> QED
    BY <2>2, <2>3
<1>3. Cardinality(MayMake) \in Nat
  BY <1>1, FS_CardinalityType
<1>4. CASE MayMake' \subseteq MayMake \cup {r} /\ version' = version
  <2>1. /\ Cardinality(MayMake') <= Cardinality(MayMake \cup {r})
        /\ Cardinality(MayMake') \in Nat /\ Cardinality(MayMake \cup {r}) \in Nat
    BY <1>2, <1>4, FS_Subset, FS_CardinalityType
  <2> QED
    BY <1>2, <1>3, <1>4, <2>1, MirrorParts
<1>5. CASE MayMake' \subseteq MayMake /\ version' = version + 1
  <2>1. Cardinality(MayMake') <= Cardinality(MayMake) /\ Cardinality(MayMake') \in Nat
    BY <1>1, <1>5, FS_Subset, FS_CardinalityType
  <2> QED
    BY <1>3, <1>5, <2>1, MirrorParts
<1> QED
  BY <1>4, <1>5

LEMMA MirrorStart ==
  ASSUME MirrorLimits, MirrorInv, NEW r \in Callers,
         NEW op \in {"sync", "create", "update", "delete"}, NEW i \in 0 .. MaxIds,
         Mirror!Start(r, op, i)
  PROVE  MirrorInv'
<1> DEFINE new == [Mirror!Idle EXCEPT !.op = op, !.pc = "ask", !.id = i,
                     !.alone = Mirror!InFlight = {} /\ (i # 0 => server[i] # 0)]
<1>a. /\ req[r] = Mirror!Idle /\ happened < CalendarEvents /\ happened' = happened + 1
      /\ op \in {"update", "delete"} => i # 0 /\ eventRows[i] # 0
      /\ op \in {"sync", "create"} => i = 0
      /\ req' = [IF Mirror!InFlight = {} THEN req ELSE Mirror!Shared(req) EXCEPT ![r] = new]
      /\ disturbed' = disturbed \cup {id \in Mirror!Concern(op, i) : Mirror!Touches(id)}
      /\ server' = server /\ eventRows' = eventRows /\ created' = created
      /\ version' = version /\ refused' = refused
  BY DEF Mirror!Start, Mirror!Event
<1>n. /\ new.op = op /\ new.pc = "ask" /\ new.id = i /\ new.answer = Mirror!NoAnswer
      /\ new.alone = (Mirror!InFlight = {} /\ (i # 0 => server[i] # 0))
      /\ new \in MirrorRequest
  <2>1. Mirror!Idle \in MirrorRequest
    BY MirrorIdle
  <2>2. new \in MirrorRequest
    BY <2>1 DEF MirrorRequest
  <2>3. /\ new.op = op /\ new.pc = "ask" /\ new.id = i /\ new.answer = Mirror!NoAnswer
        /\ new.alone = (Mirror!InFlight = {} /\ (i # 0 => server[i] # 0))
    BY DEF Mirror!Idle
  <2> QED
    BY <2>2, <2>3
<1> HIDE DEF new
<1>1. req'[r] = new /\ req' \in [Callers -> MirrorRequest] /\ \A s \in Callers \ {r} : SharedNow(s)
  <2>1. req \in [Callers -> MirrorRequest]
    BY MirrorParts
  <2>2. Mirror!Shared(req) \in [Callers -> MirrorRequest]
    <3>1. \A s \in Callers : [req[s] EXCEPT !.alone = FALSE] \in MirrorRequest
      BY <2>1 DEF MirrorRequest
    <3> QED
      BY <3>1 DEF Mirror!Shared
  <2>3. req'[r] = new /\ req' \in [Callers -> MirrorRequest]
    BY <1>a, <1>n, <2>1, <2>2
  <2>4. ASSUME NEW s \in Callers \ {r} PROVE req'[s] = [req[s] EXCEPT !.alone = FALSE]
    <3>1. CASE Mirror!InFlight = {}
      <4>1. req[s].op = "idle"
        BY <3>1 DEF Mirror!InFlight
      <4>2. req[s] = Mirror!Idle
        BY <4>1, MirrorParts DEF Formed
      <4>3. [Mirror!Idle EXCEPT !.alone = FALSE] = Mirror!Idle
        BY IdleShared
      <4>4. req'[s] = req[s]
        BY <1>a, <2>1, <3>1
      <4> QED
        BY <4>2, <4>3, <4>4
    <3>2. CASE Mirror!InFlight # {}
      <4>1. req'[s] = Mirror!Shared(req)[s]
        BY <1>a, <2>2, <3>2
      <4> QED
        BY <4>1 DEF Mirror!Shared
    <3> QED
      BY <3>1, <3>2
  <2>5. \A s \in Callers \ {r} : SharedNow(s)
    BY <2>1, <2>4, SharedIsShared
  <2> QED
    BY <2>3, <2>5
<1>2. /\ \A s \in Callers \ {r} : Formed(s)' /\ Lone(s)' /\ (s \in MayMake' <=> s \in MayMake)
      /\ \A s \in Callers \ {r} : \A id : Concerned(req'[s], id) <=> Concerned(req[s], id)
      /\ \A s \in Callers \ {r} : \A id, v, w :
            Fits(req'[s], id, v, w) <=> Fits(req[s], id, v, w)
  <2>1. created' \in Nat /\ created <= created'
    BY <1>a, MirrorParts
  <2> QED
    BY <1>1, <2>1, SharedLemma
<1>k. op \in {"update", "delete"} => i \in 1 .. created
  <2>1. ASSUME op \in {"update", "delete"} PROVE i \in 1 .. created
    <3>1. i \in 1 .. MaxIds /\ eventRows[i] # 0
      BY <1>a, <2>1 DEF MirrorLimits
    <3>2. i \in Mirror!Ids
      BY <3>1, MirrorParts
    <3>3. ~(i > created)
      BY <3>1, <3>2, MirrorParts
    <3> QED
      BY <3>1, <3>3, MirrorParts DEF MirrorLimits
  <2> QED
    BY <2>1
<1>3. Formed(r)'
  <2>1. \A id \in Mirror!Ids : req'[r].answer[id] = 0
    BY <1>1, <1>n, MirrorIdle
  <2> QED
    BY <1>1, <1>n, <1>k, <1>a, <2>1 DEF Formed
<1>4. Lone(r)'
  <2> SUFFICES ASSUME req'[r].alone
               PROVE  Unhindered(req[r])' /\ \A s \in Callers \ {r} : req'[s].op = "idle"
    BY DEF Lone
  <2>1. Mirror!InFlight = {} /\ (i # 0 => server[i] # 0)
    BY <1>1, <1>n
  <2>2. \A s \in Callers \ {r} : req'[s].op = "idle"
    BY <2>1, <1>1 DEF Mirror!InFlight, SharedNow
  <2>3. Unhindered(req[r])'
    BY <2>1, <1>1, <1>n, <1>a DEF Unhindered
  <2> QED
    BY <2>2, <2>3
<1>5. Mirror!TypeOK'
  <2>1. happened' \in 0 .. CalendarEvents
    BY <1>a, MirrorParts DEF MirrorLimits
  <2>2. Mirror!Concern(op, i) \subseteq Mirror!Ids
    <3>1. CASE op \in {"sync", "create"}
      BY <3>1 DEF Mirror!Concern
    <3>2. CASE op \in {"update", "delete"}
      <4>1. i \in Mirror!Ids
        BY <1>k, <3>2, MirrorParts DEF MirrorLimits
      <4> QED
        BY <3>2, <4>1 DEF Mirror!Concern
    <3> QED
      BY <3>1, <3>2
  <2>3. disturbed' \subseteq Mirror!Ids
    BY <1>a, <2>2, MirrorParts
  <2> QED
    BY <1>a, <1>1, <2>1, <2>3, MirrorParts, MirrorTypesNext
<1>6. version' + Cardinality(MayMake') <= happened'
  <2>1. MayMake' \subseteq Callers
    BY DEF MayMake
  <2>2. MayMake' \subseteq MayMake \cup {r}
    BY <1>2, <2>1
  <2> QED
    BY <1>a, <2>2, BudgetGrows
<1>7. ASSUME NEW id \in Mirror!Ids PROVE Agrees(id)'
  <2> SUFFICES ASSUME id \notin disturbed'
               PROVE /\ \A p, s \in Callers : Concerned(req'[p], id) /\ Concerned(req'[s], id) => p = s
                     /\ \A p \in Callers : Concerned(req'[p], id) =>
                           Fits(req'[p], id, server[id], eventRows[id])
                     /\ (\A p \in Callers : ~Concerned(req'[p], id)) => eventRows[id] = server[id]
    BY <1>a DEF Agrees
  <2>1. /\ id \notin disturbed
        /\ \A p, s \in Callers : Concerned(req[p], id) /\ Concerned(req[s], id) => p = s
        /\ \A p \in Callers : Concerned(req[p], id) => Fits(req[p], id, server[id], eventRows[id])
        /\ (\A p \in Callers : ~Concerned(req[p], id)) => eventRows[id] = server[id]
    BY <1>a, MirrorParts DEF Agrees
  <2>2. ~Concerned(req[r], id)
    BY <1>a, MirrorIdle DEF Concerned
  <2>3. Concerned(req'[r], id) => \A s \in Callers \ {r} : ~Concerned(req[s], id)
    <3> SUFFICES ASSUME Concerned(req'[r], id), NEW s \in Callers \ {r}, Concerned(req[s], id)
                 PROVE FALSE
      OBVIOUS
    <3>1. id \in Mirror!Concern(op, i)
      BY <1>1, <1>n DEF Concerned, Mirror!Concern
    <3>2. Mirror!Touches(id)
      BY DEF Mirror!Touches, Mirror!InFlight, Mirror!Concern, Concerned
    <3> QED
      BY <1>a, <3>1, <3>2
  <2>4. Concerned(req'[r], id) => eventRows[id] = server[id]
    BY <2>1, <2>2, <2>3
  <2>5. Concerned(req'[r], id) => Fits(req'[r], id, server[id], eventRows[id])
    BY <2>4, <1>1, <1>n DEF Fits
  <2>6. \A p, s \in Callers : Concerned(req'[p], id) /\ Concerned(req'[s], id) => p = s
    BY <2>1, <2>3, <1>2
  <2>7. \A p \in Callers : Concerned(req'[p], id) => Fits(req'[p], id, server[id], eventRows[id])
    BY <2>1, <2>5, <1>2
  <2>8. (\A p \in Callers : ~Concerned(req'[p], id)) => eventRows[id] = server[id]
    BY <2>1, <2>2, <1>2
  <2> QED
    BY <2>6, <2>7, <2>8
<1>8. TRUE \notin refused'
  BY <1>a, MirrorParts
<1>9. \A s \in Callers : Formed(s)' /\ Lone(s)'
  BY <1>2, <1>3, <1>4
<1> QED
  BY <1>5, <1>6, <1>7, <1>8, <1>9 DEF MirrorInv

LEMMA MirrorElsewhere ==
  ASSUME MirrorLimits, MirrorInv, Mirror!Elsewhere
  PROVE  MirrorInv'
<1>a. /\ happened < CalendarEvents /\ happened' = happened + 1 /\ version' = version + 1
      /\ req' = Mirror!Shared(req) /\ eventRows' = eventRows /\ refused' = refused
  BY DEF Mirror!Elsewhere, Mirror!Event
<1>i. PICK i \in Mirror!Ids :
         /\ i <= created + 1
         /\ \E v \in {version'} \cup (IF i <= created THEN {0} ELSE {}) :
               server' = [server EXCEPT ![i] = v]
         /\ created' = (IF i <= created THEN created ELSE i)
         /\ disturbed' = disturbed \cup {i}
  BY DEF Mirror!Elsewhere
<1>c. /\ created' \in 0 .. MaxIds /\ created' \in Nat /\ created <= created' /\ i <= created'
  <2>1. i \in 1 .. MaxIds
    BY MirrorParts
  <2> QED
    BY <1>i, <2>1, MirrorParts DEF MirrorLimits
<1>v. version' \in Mirror!Versions
  <2>1. Cardinality(MayMake) \in Nat
    BY FS_Subset, FS_CardinalityType DEF MirrorLimits, MayMake
  <2>2. version <= happened /\ happened < CalendarEvents
    BY <1>a, <2>1, MirrorParts
  <2> QED
    BY <1>a, <2>2, MirrorParts DEF MirrorLimits, Mirror!Versions
<1>w. PICK v \in Mirror!Versions : server' = [server EXCEPT ![i] = v]
  <2>1. 0 \in Mirror!Versions
    BY DEF MirrorLimits, Mirror!Versions
  <2> QED
    BY <1>i, <1>v, <2>1
<1>s. \A s \in Callers : SharedNow(s)
  <2>1. req \in [Callers -> MirrorRequest]
    BY MirrorParts
  <2>2. \A s \in Callers : req'[s] = [req[s] EXCEPT !.alone = FALSE]
    BY <1>a DEF Mirror!Shared
  <2> QED
    BY <2>1, <2>2, SharedIsShared
<1>2. /\ \A s \in Callers : Formed(s)' /\ Lone(s)' /\ (s \in MayMake' <=> s \in MayMake)
      /\ \A s \in Callers : \A id : Concerned(req'[s], id) <=> Concerned(req[s], id)
      /\ \A s \in Callers : \A id, x, y : Fits(req'[s], id, x, y) <=> Fits(req[s], id, x, y)
  BY <1>c, <1>s, SharedLemma
<1>3. Mirror!TypeOK'
  <2>1. happened' \in 0 .. CalendarEvents
    BY <1>a, MirrorParts DEF MirrorLimits
  <2>2. disturbed' \subseteq Mirror!Ids
    BY <1>i, MirrorParts
  <2>3. server' \in [Mirror!Ids -> Mirror!Versions]
    BY <1>w, MirrorParts
  <2>4. req' \in [Callers -> MirrorRequest]
    <3>1. \A s \in Callers : req'[s] \in MirrorRequest
      BY <1>s DEF SharedNow
    <3>2. req' = [s \in Callers |-> [req[s] EXCEPT !.alone = FALSE]]
      BY <1>a DEF Mirror!Shared
    <3>3. \A s \in Callers : [req[s] EXCEPT !.alone = FALSE] \in MirrorRequest
      BY <3>1, <3>2
    <3> QED
      BY <3>2, <3>3
  <2>5. ASSUME NEW id \in Mirror!Ids, id > created'
        PROVE  server'[id] = 0 /\ eventRows'[id] = 0
    <3>1. id # i /\ id > created
      <4>1. id \in Nat /\ i \in Nat /\ created \in Nat
        BY MirrorParts
      <4> QED
        BY <4>1, <1>c, <2>5
    <3> QED
      BY <3>1, <1>a, <1>w, MirrorParts
  <2>6. eventRows' \in [Mirror!Ids -> Mirror!Versions] /\ refused' \subseteq BOOLEAN
    BY <1>a, MirrorParts
  <2> QED
    BY <1>c, <1>v, <2>1, <2>2, <2>3, <2>4, <2>5, <2>6, MirrorTypesNext
<1>4. version' + Cardinality(MayMake') <= happened'
  <2>1. MayMake' \subseteq Callers
    BY DEF MayMake
  <2>2. MayMake' \subseteq MayMake
    BY <1>2, <2>1
  <2>3. PICK r : TRUE
    OBVIOUS
  <2> QED
    BY <1>a, <2>2, <2>3, BudgetGrows
<1>5. ASSUME NEW id \in Mirror!Ids PROVE Agrees(id)'
  <2> SUFFICES ASSUME id \notin disturbed'
               PROVE /\ \A p, s \in Callers : Concerned(req'[p], id) /\ Concerned(req'[s], id) => p = s
                     /\ \A p \in Callers : Concerned(req'[p], id) =>
                           Fits(req'[p], id, server'[id], eventRows'[id])
                     /\ (\A p \in Callers : ~Concerned(req'[p], id)) => eventRows'[id] = server'[id]
    BY DEF Agrees
  <2>1. id # i /\ id \notin disturbed
    BY <1>i
  <2>2. server'[id] = server[id] /\ eventRows'[id] = eventRows[id]
    BY <1>a, <1>w, <2>1, MirrorParts
  <2>3. /\ \A p, s \in Callers : Concerned(req[p], id) /\ Concerned(req[s], id) => p = s
        /\ \A p \in Callers : Concerned(req[p], id) => Fits(req[p], id, server[id], eventRows[id])
        /\ (\A p \in Callers : ~Concerned(req[p], id)) => eventRows[id] = server[id]
    BY <2>1, MirrorParts DEF Agrees
  <2>4. \A p, s \in Callers : Concerned(req'[p], id) /\ Concerned(req'[s], id) => p = s
    BY <2>3, <1>2
  <2>5. \A p \in Callers : Concerned(req'[p], id) => Fits(req'[p], id, server'[id], eventRows'[id])
    BY <2>2, <2>3, <1>2
  <2>6. (\A p \in Callers : ~Concerned(req'[p], id)) => eventRows'[id] = server'[id]
    BY <2>2, <2>3, <1>2
  <2> QED
    BY <2>4, <2>5, <2>6
<1>6. TRUE \notin refused'
  BY <1>a, MirrorParts
<1> QED
  BY <1>2, <1>3, <1>4, <1>5, <1>6 DEF MirrorInv

LEMMA MirrorNext ==
  ASSUME MirrorLimits, MirrorInv, [Mirror!Next]_Mirror!vars
  PROVE  MirrorInv'
<1>1. CASE Mirror!Elsewhere
  BY <1>1, MirrorElsewhere
<1>2. ASSUME NEW r \in Callers, Mirror!Serve(r) PROVE MirrorInv'
  <2>1. CASE \E op \in {"sync", "create", "update", "delete"}, id \in 0 .. MaxIds :
                Mirror!Start(r, op, id)
    BY <2>1, MirrorStart
  <2>2. CASE \/ Mirror!SyncAnswered(r) \/ Mirror!SyncWrites(r) \/ Mirror!SyncEnds(r)
             \/ Mirror!Create(r) \/ Mirror!CreateWrites(r)
    BY <2>2, MirrorSyncAnswered, MirrorSyncWrites, MirrorSyncEnds, MirrorCreate,
       MirrorCreateWrites
  <2>3. CASE \/ Mirror!UpdateReads(r) \/ Mirror!Update(r) \/ Mirror!Delete(r) \/ Mirror!Writes(r)
    BY <2>3, MirrorUpdateReads, MirrorUpdate, MirrorDelete, MirrorWrites
  <2> QED
    BY <1>2, <2>1, <2>2, <2>3 DEF Mirror!Serve
<1>3. ASSUME NEW r \in Callers, Mirror!Fails(r) PROVE MirrorInv'
  BY <1>3, MirrorFails
<1>4. CASE UNCHANGED Mirror!vars
  <2>1. /\ server' = server /\ eventRows' = eventRows /\ created' = created
        /\ version' = version /\ req' = req /\ happened' = happened
        /\ disturbed' = disturbed /\ refused' = refused
    BY <1>4 DEF Mirror!vars
  <2>2. Mirror!TypeOK' /\ MayMake' = MayMake
    BY <2>1 DEF MirrorInv, Mirror!TypeOK, MayMake
  <2>3. \A r \in Callers : Formed(r)' /\ Lone(r)'
    BY <2>1, MirrorParts DEF Formed, Lone, Unhindered
  <2>4. \A id \in Mirror!Ids : Agrees(id)'
    BY <2>1, MirrorParts DEF Agrees
  <2> QED
    BY <2>1, <2>2, <2>3, <2>4, MirrorParts DEF MirrorInv
<1> QED
  BY <1>1, <1>2, <1>3, <1>4 DEF Mirror!Next

-----------------------------------------------------------------------------
(* Whatever callers, ticks and files there are, the mirrored events agree  *)
(* with the provider's and a lone request succeeds (calendar.service.ts),  *)
(* nobody is told twice of an event or not tickAt all                          *)
(* (notifications.scheduler.ts), and uploads and deletions that overlap    *)
(* lose no file but for those that crossed (tasks.service.ts).             *)
THEOREM RowsAlwaysKept ==
  MirrorLimits /\ SoonLimits /\ FileLimits => (SafeSpec => []RowsKept)
<1> SUFFICES ASSUME MirrorLimits, SoonLimits, FileLimits PROVE SafeSpec => []RowsKept
  OBVIOUS
<1> DEFINE Kept == /\ subject = "mirror" => MirrorInv
                   /\ subject = "event soon" => SoonInv
                   /\ subject = "attachments" => FilesInv
<1>1. FirstSafe => Kept
  BY MirrorInit, SoonInit, FilesInit, FirstOfSubject
<1>2. Kept /\ [StepSafe]_safeVars => Kept'
  BY MirrorNext, SoonNext, FilesNext, StepOfSubject
<1>3. Kept => RowsKept
  BY MirrorInvHolds, SoonInvHolds DEF RowsKept, FilesInv, Att!FilesKept
<1> QED
  BY <1>1, <1>2, <1>3, PTL DEF SafeSpec
-----------------------------------------------------------------------------
(* The window in which mail is written (ComposeWindow).                    *)

ComposeLimits == MaxOpenings \in Nat /\ MaxDrafts \in Nat /\ ComposeEvents \in Nat

\* The send of opening c is under way.
Sending(c) == \E q \in posts : q.op = "send" /\ q.by = c

WindowTypes ==
    /\ isOpen \in 0 .. openings /\ savedDraftId \in 0 .. drafts /\ saving \in BOOLEAN
    /\ openings \in 0 .. MaxOpenings /\ drafts \in 0 .. MaxDrafts
    /\ happened \in 0 .. ComposeEvents
UndoTypes ==
    /\ undoCancelled \in BOOLEAN /\ undoTimer \in 0 .. openings
    /\ timers \subseteq clicked /\ toasts \subseteq clicked /\ clicked \subseteq 1 .. openings
    /\ mingled \subseteq clicked /\ lateUndos \subseteq clicked /\ reloaded \subseteq clicked
    /\ sent \subseteq clicked
WordTypes == told \in [Compose!Openings -> SUBSET {"cancelled", "sent", "failed"}]
DraftTypes ==
    /\ posts \subseteq Compose!Request
    /\ entitled \in [Compose!Drafts -> SUBSET Compose!Openings]
    /\ foreign \subseteq Compose!Drafts /\ strayed \subseteq Compose!Drafts

\* One send tickAt a time shows Undo, and is the one it would undo, but for those that met.
OneAtATime ==
    /\ isOpen \notin clicked
    /\ \A c \in toasts \ mingled : toasts = {c} /\ undoTimer = c
    /\ \A c \in timers \ mingled : c \in toasts /\ ~undoCancelled

\* A send waits, is under way, or is over.
SavesInTurn ==
    /\ \A c \in timers : ~Sending(c) /\ c \notin sent
    /\ \A c \in sent : ~Sending(c)
    /\ \A q \in posts : q.op = "send" => q.by \in clicked /\ q.draft = 0

\* What was told is so.
ToldRight ==
    /\ \A c \in Compose!Openings : told[c] # {} => c \in clicked
    /\ \A c \in Compose!Openings : "cancelled" \in told[c] /\ c \notin mingled \cup lateUndos =>
          c \notin timers /\ c \notin sent /\ ~Sending(c)
    /\ \A c \in clicked :
          c \in timers \cup mingled \cup lateUndos \cup reloaded \/ told[c] # {} \/ Sending(c)

\* Opening c may change draft d.
Right(c, d) == d = 0 \/ c \in entitled[d] \/ d \in strayed

DraftsRight ==
    /\ isOpen # 0 => Right(isOpen, savedDraftId)
    /\ \A q \in posts : q.draft \in 0 .. drafts /\ Right(q.by, q.draft)
    /\ foreign \subseteq strayed

ComposeInv ==
    /\ WindowTypes /\ UndoTypes /\ WordTypes /\ DraftTypes
    /\ OneAtATime /\ SavesInTurn /\ ToldRight /\ DraftsRight

LEMMA ComposeInvHolds == ASSUME ComposeLimits, ComposeInv PROVE Compose!ComposeHolds
<1>1. Compose!TypeOK
  <2>1. 1 .. openings \subseteq Compose!Openings
    BY DEF ComposeInv, WindowTypes, ComposeLimits, Compose!Openings
  <2>2. sent \subseteq Compose!Openings /\ clicked \subseteq Compose!Openings
    BY <2>1 DEF ComposeInv, UndoTypes
  <2>3. /\ isOpen \in 0 .. openings /\ savedDraftId \in 0 .. drafts /\ saving \in BOOLEAN
        /\ openings \in 0 .. MaxOpenings /\ drafts \in 0 .. MaxDrafts
        /\ happened \in 0 .. ComposeEvents
    BY DEF ComposeInv, WindowTypes
  <2>4. /\ undoCancelled \in BOOLEAN /\ undoTimer \in 0 .. openings
        /\ timers \subseteq clicked /\ toasts \subseteq clicked
        /\ mingled \subseteq clicked /\ lateUndos \subseteq clicked /\ reloaded \subseteq clicked
    BY DEF ComposeInv, UndoTypes
  <2>5. told \in [Compose!Openings -> SUBSET {"cancelled", "sent", "failed"}]
    BY DEF ComposeInv, WordTypes
  <2>6. /\ posts \subseteq Compose!Request
        /\ entitled \in [Compose!Drafts -> SUBSET Compose!Openings]
        /\ foreign \subseteq Compose!Drafts /\ strayed \subseteq Compose!Drafts
    BY DEF ComposeInv, DraftTypes
  <2> QED
    BY <2>2, <2>3, <2>4, <2>5, <2>6 DEF Compose!TypeOK
<1>2. Compose!CancelledIsNotSent
  <2>1. sent \subseteq Compose!Openings
    BY DEF ComposeInv, UndoTypes, WindowTypes, ComposeLimits, Compose!Openings
  <2> QED
    BY <2>1 DEF ComposeInv, ToldRight, Compose!CancelledIsNotSent
<1>3. Compose!NoSendDropped
  BY DEF ComposeInv, ToldRight, Sending, Compose!NoSendDropped
<1>4. Compose!DraftsKept
  BY DEF ComposeInv, DraftsRight, Compose!DraftsKept
<1> QED
  BY <1>1, <1>2, <1>3, <1>4 DEF Compose!ComposeHolds

LEMMA ComposeInit == ASSUME ComposeLimits, Compose!Init PROVE ComposeInv
<1>1. WindowTypes /\ UndoTypes
  <2>1. WindowTypes
    <3>1. /\ isOpen \in 0 .. openings /\ savedDraftId \in 0 .. drafts
          /\ openings \in 0 .. MaxOpenings /\ drafts \in 0 .. MaxDrafts
          /\ happened \in 0 .. ComposeEvents
      BY DEF Compose!Init, ComposeLimits
    <3>2. saving \in BOOLEAN
      BY DEF Compose!Init
    <3> QED
      BY <3>1, <3>2 DEF WindowTypes
  <2>2. UndoTypes
    <3>1. undoCancelled \in BOOLEAN
      BY DEF Compose!Init
    <3>2. undoTimer \in 0 .. openings
      BY DEF Compose!Init
    <3> QED
      BY <3>1, <3>2 DEF Compose!Init, UndoTypes
  <2> QED
    BY <2>1, <2>2
<1>2. WordTypes /\ \A c \in Compose!Openings : told[c] = {}
  BY DEF Compose!Init, WordTypes
<1>3. DraftTypes
  BY DEF Compose!Init, DraftTypes
<1>4. OneAtATime /\ SavesInTurn /\ DraftsRight
  BY DEF Compose!Init, OneAtATime, SavesInTurn, DraftsRight
<1>5. ToldRight
  BY <1>2 DEF Compose!Init, ToldRight
<1> QED
  BY <1>1, <1>2, <1>3, <1>4, <1>5 DEF ComposeInv

\* A step that neither sends nor undoes keeps what is known of the sends.
SendsStay ==
    /\ undoCancelled' = undoCancelled /\ undoTimer' = undoTimer /\ timers' = timers
    /\ toasts' = toasts /\ clicked' = clicked /\ sent' = sent /\ told' = told
    /\ mingled' = mingled /\ lateUndos' = lateUndos /\ reloaded' = reloaded
    /\ \A q : q.op = "send" => (q \in posts' <=> q \in posts)

LEMMA SendsKept ==
  ASSUME ComposeLimits, ComposeInv, SendsStay, openings' \in 0 .. MaxOpenings,
         openings <= openings', isOpen' \in {0, isOpen, openings + 1}
  PROVE  UndoTypes' /\ WordTypes' /\ OneAtATime' /\ SavesInTurn' /\ ToldRight'
<1>1. UndoTypes'
  <2>1. 1 .. openings \subseteq 1 .. openings' /\ 0 .. openings \subseteq 0 .. openings'
    BY DEF ComposeInv, WindowTypes, ComposeLimits
  <2> QED
    BY <2>1 DEF SendsStay, ComposeInv, UndoTypes
<1>2. WordTypes'
  BY DEF SendsStay, ComposeInv, WordTypes
<1>3. \A c : Sending(c)' <=> Sending(c)
  BY DEF SendsStay, Sending
<1>4. OneAtATime'
  <2>1. 0 \notin 1 .. openings /\ openings + 1 \notin 1 .. openings
    BY DEF ComposeInv, WindowTypes, ComposeLimits
  <2>2. 0 \notin clicked /\ openings + 1 \notin clicked /\ isOpen \notin clicked
    BY <2>1 DEF ComposeInv, UndoTypes, OneAtATime
  <2> QED
    BY <2>2 DEF SendsStay, ComposeInv, OneAtATime
<1>5. SavesInTurn'
  <2>1. \A c \in timers : ~Sending(c)' /\ c \notin sent
    BY <1>3 DEF ComposeInv, SavesInTurn
  <2>2. \A c \in sent : ~Sending(c)'
    BY <1>3 DEF ComposeInv, SavesInTurn
  <2>3. \A q \in posts' : q.op = "send" => q.by \in clicked /\ q.draft = 0
    BY DEF SendsStay, ComposeInv, SavesInTurn
  <2> QED
    BY <2>1, <2>2, <2>3 DEF SendsStay, SavesInTurn
<1>6. ToldRight'
  BY <1>3 DEF SendsStay, ComposeInv, ToldRight
<1> QED
  BY <1>1, <1>2, <1>4, <1>5, <1>6

\* A step of the sends keeps what is known of the drafts.
LEMMA DraftsStay ==
  ASSUME ComposeLimits, ComposeInv, savedDraftId' = savedDraftId, drafts' = drafts,
         entitled' = entitled, foreign' = foreign, strayed' = strayed, saving' = saving,
         openings' = openings,
         isOpen' \in {0, isOpen}, happened' \in 0 .. ComposeEvents,
         \A q \in posts' : q \in posts \/ (q \in Compose!Request /\ q.draft = 0)
  PROVE  WindowTypes' /\ DraftTypes' /\ DraftsRight'
<1>1. WindowTypes'
  BY DEF ComposeInv, WindowTypes, ComposeLimits
<1>2. DraftTypes'
  BY DEF ComposeInv, DraftTypes
<1>3. DraftsRight'
  <2>1. 0 \in 0 .. drafts
    BY DEF ComposeInv, WindowTypes, ComposeLimits
  <2> QED
    BY <2>1 DEF ComposeInv, DraftsRight, Right
<1> QED
  BY <1>1, <1>2, <1>3

LEMMA ComposeOpen == ASSUME ComposeLimits, ComposeInv, Compose!Open PROVE ComposeInv'
<1>a. /\ openings < MaxOpenings /\ openings' = openings + 1 /\ isOpen' = openings'
      /\ saving' = FALSE /\ posts' = posts /\ drafts' = drafts /\ happened' = happened
      /\ foreign' = foreign /\ strayed' = strayed
      /\ SendsStay
  BY DEF Compose!Open, Compose!undo, Compose!record, SendsStay
<1>d. PICK d \in 0 .. drafts :
         /\ savedDraftId' = d
         /\ entitled' = IF d = 0 THEN entitled
                        ELSE [entitled EXCEPT ![d] = @ \cup {isOpen'}]
  BY DEF Compose!Open, Compose!Fill
<1>o. /\ openings' \in 0 .. MaxOpenings /\ openings <= openings'
      /\ isOpen' \in Compose!Openings /\ isOpen' \in 0 .. openings'
      /\ d # 0 => d \in Compose!Drafts
  BY <1>a DEF ComposeInv, WindowTypes, ComposeLimits, Compose!Openings, Compose!Drafts
<1>1. UndoTypes' /\ WordTypes' /\ OneAtATime' /\ SavesInTurn' /\ ToldRight'
  BY <1>a, <1>o, SendsKept
<1>2. WindowTypes'
  <2>1. drafts \in 0 .. MaxDrafts /\ happened \in 0 .. ComposeEvents
    BY DEF ComposeInv, WindowTypes
  <2> QED
    BY <1>a, <1>d, <1>o, <2>1 DEF WindowTypes
<1>3. /\ entitled' \in [Compose!Drafts -> SUBSET Compose!Openings]
      /\ \A x \in Compose!Drafts : entitled[x] \subseteq entitled'[x]
      /\ d # 0 => isOpen' \in entitled'[d]
  <2>1. entitled \in [Compose!Drafts -> SUBSET Compose!Openings]
    BY DEF ComposeInv, DraftTypes
  <2>2. CASE d = 0
    BY <1>d, <2>1, <2>2
  <2>3. CASE d # 0
    <3>1. entitled' = [entitled EXCEPT ![d] = entitled[d] \cup {isOpen'}]
      BY <1>d, <2>3
    <3> QED
      BY <1>o, <2>1, <2>3, <3>1
  <2> QED
    BY <2>2, <2>3
<1>4. DraftTypes'
  BY <1>a, <1>3 DEF ComposeInv, DraftTypes
<1>5. DraftsRight'
  <2>1. Right(isOpen, savedDraftId)'
    BY <1>d, <1>3 DEF Right
  <2>2. ASSUME NEW q \in posts PROVE q.draft \in 0 .. drafts /\ Right(q.by, q.draft)'
    <3>1. q.draft \in 0 .. drafts /\ Right(q.by, q.draft)
      BY DEF ComposeInv, DraftsRight
    <3>2. q.draft # 0 => q.draft \in Compose!Drafts
      BY <3>1 DEF ComposeInv, WindowTypes, ComposeLimits, Compose!Drafts
    <3> QED
      BY <1>a, <1>3, <3>1, <3>2 DEF Right
  <2>3. foreign \subseteq strayed
    BY DEF ComposeInv, DraftsRight
  <2> QED
    BY <1>a, <2>1, <2>2, <2>3 DEF DraftsRight
<1> QED
  BY <1>1, <1>2, <1>4, <1>5 DEF ComposeInv

\* What the discarding of a draft, or the sending of it, marks as foreign.
LEMMA ChangedStrayed ==
  ASSUME ComposeLimits, NEW d \in 0 .. drafts, NEW c, Right(c, d)
  PROVE  Compose!Changed(d, c) \subseteq strayed
BY DEF Compose!Changed, Right

LEMMA ComposeClose ==
  ASSUME ComposeLimits, ComposeInv, Compose!Close \/ Compose!Discard PROVE ComposeInv'
<1>a. /\ isOpen # 0 /\ isOpen' = 0 /\ savedDraftId' \in {0, savedDraftId}
      /\ saving' \in {FALSE, saving} /\ openings' = openings /\ posts' = posts
      /\ drafts' = drafts /\ happened' = happened /\ entitled' = entitled
      /\ strayed' = strayed
      /\ \/ foreign' = foreign
         \/ foreign' = foreign \cup Compose!Changed(savedDraftId, isOpen)
      /\ SendsStay
  BY DEF Compose!Close, Compose!Discard, Compose!undo, Compose!record, SendsStay
<1>1. UndoTypes' /\ WordTypes' /\ OneAtATime' /\ SavesInTurn' /\ ToldRight'
  <2>1. openings \in 0 .. MaxOpenings /\ openings <= openings
    BY DEF ComposeInv, WindowTypes, ComposeLimits
  <2> QED
    BY <1>a, <2>1, SendsKept
<1>2. WindowTypes'
  <2>1. /\ isOpen' \in 0 .. openings' /\ savedDraftId' \in 0 .. drafts'
        /\ openings' \in 0 .. MaxOpenings /\ drafts' \in 0 .. MaxDrafts
        /\ happened' \in 0 .. ComposeEvents
    BY <1>a DEF ComposeInv, WindowTypes, ComposeLimits
  <2>2. saving \in BOOLEAN
    BY DEF ComposeInv, WindowTypes
  <2>3. saving' \in BOOLEAN
    BY <1>a, <2>2
  <2> QED
    BY <2>1, <2>3 DEF WindowTypes
<1>3. foreign' \subseteq strayed
  <2>1. savedDraftId \in 0 .. drafts
    BY DEF ComposeInv, WindowTypes
  <2>2. foreign \subseteq strayed /\ Right(isOpen, savedDraftId)
    BY <1>a DEF ComposeInv, DraftsRight
  <2>3. Compose!Changed(savedDraftId, isOpen) \subseteq strayed
    BY <2>1, <2>2 DEF Compose!Changed, Right
  <2> QED
    BY <1>a, <2>2, <2>3
<1>4. DraftTypes'
  BY <1>a, <1>3 DEF ComposeInv, DraftTypes
<1>5. DraftsRight'
  BY <1>a, <1>3 DEF ComposeInv, DraftsRight, Right
<1> QED
  BY <1>1, <1>2, <1>4, <1>5 DEF ComposeInv

LEMMA ComposeAsks ==
  ASSUME ComposeLimits, ComposeInv, Compose!SaveDraft \/ Compose!Schedule PROVE ComposeInv'
<1>a. PICK op \in {"save", "schedule"} :
         posts' = posts \cup {[op |-> op, by |-> isOpen, draft |-> savedDraftId]}
  BY DEF Compose!SaveDraft, Compose!Schedule
<1>b. /\ isOpen # 0 /\ isOpen' = isOpen /\ savedDraftId' = savedDraftId
      /\ saving' \in {TRUE, saving} /\ openings' = openings
      /\ drafts' = drafts /\ entitled' = entitled /\ strayed' = strayed /\ foreign' = foreign
      /\ happened < ComposeEvents /\ happened' = happened + 1
  BY DEF Compose!SaveDraft, Compose!Schedule, Compose!Event, Compose!window
<1>c. SendsStay
  <2>1. /\ undoCancelled' = undoCancelled /\ undoTimer' = undoTimer /\ timers' = timers
        /\ toasts' = toasts /\ clicked' = clicked /\ sent' = sent /\ told' = told
        /\ mingled' = mingled /\ lateUndos' = lateUndos /\ reloaded' = reloaded
    BY DEF Compose!SaveDraft, Compose!Schedule, Compose!undo, Compose!record
  <2>2. \A q : q.op = "send" => (q \in posts' <=> q \in posts)
    BY <1>a
  <2> QED
    BY <2>1, <2>2 DEF SendsStay
<1>1. UndoTypes' /\ WordTypes' /\ OneAtATime' /\ SavesInTurn' /\ ToldRight'
  <2>1. openings \in 0 .. MaxOpenings /\ openings <= openings
    BY DEF ComposeInv, WindowTypes, ComposeLimits
  <2> QED
    BY <1>b, <1>c, <2>1, SendsKept
<1>2. WindowTypes'
  <2>1. /\ isOpen' \in 0 .. openings' /\ savedDraftId' \in 0 .. drafts'
        /\ openings' \in 0 .. MaxOpenings /\ drafts' \in 0 .. MaxDrafts
        /\ happened' \in 0 .. ComposeEvents
    BY <1>b DEF ComposeInv, WindowTypes, ComposeLimits
  <2>2. saving \in BOOLEAN
    BY DEF ComposeInv, WindowTypes
  <2>3. saving' \in BOOLEAN
    BY <1>b, <2>2
  <2> QED
    BY <2>1, <2>3 DEF WindowTypes
<1>3. DraftTypes'
  <2>1. isOpen \in Compose!Openings /\ savedDraftId \in 0 .. MaxDrafts
    BY <1>b DEF ComposeInv, WindowTypes, ComposeLimits, Compose!Openings
  <2>2. [op |-> op, by |-> isOpen, draft |-> savedDraftId] \in Compose!Request
    BY <2>1 DEF Compose!Request
  <2> QED
    BY <1>a, <1>b, <2>2 DEF ComposeInv, DraftTypes
<1>4. DraftsRight'
  <2>1. savedDraftId \in 0 .. drafts
    BY DEF ComposeInv, WindowTypes
  <2>2. ASSUME NEW q \in posts' PROVE q.draft \in 0 .. drafts /\ Right(q.by, q.draft)
    BY <1>a, <1>b, <2>1 DEF ComposeInv, DraftsRight
  <2> QED
    BY <1>b, <2>2 DEF ComposeInv, DraftsRight, Right
<1> QED
  BY <1>1, <1>2, <1>3, <1>4 DEF ComposeInv

LEMMA ComposeSaveAnswered ==
  ASSUME ComposeLimits, ComposeInv, Compose!SaveAnswered PROVE ComposeInv'
<1>a. PICK q \in posts :
        LET d == IF q.draft = 0 THEN drafts + 1 ELSE q.draft IN
        /\ q.op = "save" /\ d <= MaxDrafts
        /\ posts' = posts \ {q} /\ savedDraftId' = d /\ saving' = FALSE
        /\ drafts' = IF q.draft = 0 THEN d ELSE drafts
        /\ entitled' = IF q.draft = 0 THEN [entitled EXCEPT ![d] = {q.by}] ELSE entitled
        /\ foreign' = foreign \cup Compose!Changed(q.draft, q.by)
        /\ strayed' = IF isOpen \in {0, q.by} THEN strayed ELSE strayed \cup {d}
  BY DEF Compose!SaveAnswered
<1>b. /\ isOpen' = isOpen /\ openings' = openings /\ happened' = happened
      /\ undoCancelled' = undoCancelled /\ undoTimer' = undoTimer /\ timers' = timers
      /\ toasts' = toasts /\ clicked' = clicked /\ sent' = sent /\ told' = told
      /\ mingled' = mingled /\ lateUndos' = lateUndos /\ reloaded' = reloaded
  BY DEF Compose!SaveAnswered, Compose!undo, Compose!record
<1>d. PICK d \in Compose!Drafts :
        /\ d = IF q.draft = 0 THEN drafts + 1 ELSE q.draft
        /\ d \in 0 .. drafts' /\ drafts' \in 0 .. MaxDrafts /\ drafts <= drafts'
  <2>1. q.draft \in 0 .. drafts /\ drafts \in 0 .. MaxDrafts
    BY DEF ComposeInv, DraftsRight, WindowTypes
  <2> QED
    BY <1>a, <2>1 DEF ComposeLimits, Compose!Drafts
<1>t. /\ entitled \in [Compose!Drafts -> SUBSET Compose!Openings] /\ q.by \in Compose!Openings
      /\ strayed \subseteq Compose!Drafts /\ posts \subseteq Compose!Request
      /\ isOpen \in 0 .. openings /\ openings \in 0 .. MaxOpenings
      /\ drafts \in 0 .. MaxDrafts /\ happened \in 0 .. ComposeEvents
  <2>1. q \in Compose!Request
    BY DEF ComposeInv, DraftTypes
  <2>2. q.by \in Compose!Openings
    BY <2>1 DEF Compose!Request
  <2> QED
    BY <2>2 DEF ComposeInv, DraftTypes, WindowTypes
<1>e. /\ entitled' \in [Compose!Drafts -> SUBSET Compose!Openings]
      /\ q.draft = 0 => entitled'[d] = {q.by}
      /\ \A x \in Compose!Drafts : x # drafts + 1 => entitled'[x] = entitled[x]
  <2>1. CASE q.draft = 0
    <3>1. entitled' = [entitled EXCEPT ![d] = {q.by}]
      BY <1>a, <1>d, <2>1
    <3> QED
      BY <1>d, <1>t, <2>1, <3>1
  <2>2. CASE q.draft # 0
    BY <1>a, <1>t, <2>2
  <2> QED
    BY <2>1, <2>2
<1>s. /\ strayed \subseteq strayed' /\ strayed' \subseteq Compose!Drafts
      /\ isOpen \in {0, q.by} \/ d \in strayed'
  BY <1>a, <1>d, <1>t
<1>m. \A c, x : x \in 0 .. drafts /\ Right(c, x) => Right(c, x)'
  <2> SUFFICES ASSUME NEW c, NEW x \in 0 .. drafts, Right(c, x), x # 0
               PROVE  c \in entitled'[x] \/ x \in strayed'
    BY DEF Right
  <2>1. x \in Compose!Drafts /\ x # drafts + 1
    BY <1>t DEF ComposeLimits, Compose!Drafts
  <2> QED
    BY <1>e, <1>s, <2>1 DEF Right
<1>1. UndoTypes' /\ WordTypes' /\ OneAtATime' /\ SavesInTurn' /\ ToldRight'
  <2>1. \A p : p.op = "send" => (p \in posts' <=> p \in posts)
    BY <1>a
  <2>2. SendsStay
    BY <1>b, <2>1 DEF SendsStay
  <2>3. openings' \in 0 .. MaxOpenings /\ openings <= openings'
    BY <1>b, <1>t
  <2> QED
    BY <1>b, <2>2, <2>3, SendsKept
<1>2. WindowTypes'
  BY <1>a, <1>b, <1>d, <1>t DEF WindowTypes
<1>3. foreign' \subseteq strayed'
  <2>1. q.draft \in 0 .. drafts /\ Right(q.by, q.draft) /\ foreign \subseteq strayed
    BY DEF ComposeInv, DraftsRight
  <2>2. Compose!Changed(q.draft, q.by) \subseteq strayed
    BY <2>1 DEF Compose!Changed, Right
  <2> QED
    BY <1>a, <1>s, <2>1, <2>2
<1>4. DraftTypes'
  <2>1. posts' \subseteq Compose!Request
    BY <1>a, <1>t
  <2> QED
    BY <1>e, <1>s, <1>3, <2>1 DEF DraftTypes
<1>5. DraftsRight'
  <2>1. ASSUME NEW p \in posts' PROVE p.draft \in 0 .. drafts' /\ Right(p.by, p.draft)'
    <3>1. p.draft \in 0 .. drafts /\ Right(p.by, p.draft)
      BY <1>a DEF ComposeInv, DraftsRight
    <3>2. p.draft \in 0 .. drafts'
      BY <1>d, <1>t, <3>1
    <3> QED
      BY <1>m, <3>1, <3>2
  <2>2. isOpen' # 0 => Right(isOpen, savedDraftId)'
    <3> SUFFICES ASSUME isOpen # 0, d \notin strayed' PROVE isOpen \in entitled'[d]
      BY <1>a, <1>b, <1>d DEF Right
    <3>1. isOpen = q.by
      BY <1>s
    <3>2. CASE q.draft = 0
      BY <3>1, <3>2, <1>e
    <3>3. CASE q.draft # 0
      <4>1. Right(q.by, q.draft)' /\ q.draft = d
        BY <1>d, <1>m, <3>3 DEF ComposeInv, DraftsRight
      <4> QED
        BY <3>1, <3>3, <4>1 DEF Right
    <3> QED
      BY <3>2, <3>3
  <2> QED
    BY <1>3, <2>1, <2>2 DEF DraftsRight
<1> QED
  BY <1>1, <1>2, <1>4, <1>5 DEF ComposeInv

LEMMA ComposeSaveFails ==
  ASSUME ComposeLimits, ComposeInv, Compose!SaveFails PROVE ComposeInv'
<1>a. PICK q \in posts : q.op = "save" /\ posts' = posts \ {q}
  BY DEF Compose!SaveFails
<1>b. /\ isOpen' = isOpen /\ savedDraftId' = savedDraftId /\ saving' \in {FALSE, saving}
      /\ openings' = openings
      /\ drafts' = drafts /\ entitled' = entitled /\ strayed' = strayed /\ foreign' = foreign
      /\ happened < ComposeEvents /\ happened' = happened + 1
  BY DEF Compose!SaveFails, Compose!Event
<1>c. SendsStay
  <2>1. /\ undoCancelled' = undoCancelled /\ undoTimer' = undoTimer /\ timers' = timers
        /\ toasts' = toasts /\ clicked' = clicked /\ sent' = sent /\ told' = told
        /\ mingled' = mingled /\ lateUndos' = lateUndos /\ reloaded' = reloaded
    BY DEF Compose!SaveFails, Compose!undo, Compose!record
  <2>2. \A p : p.op = "send" => (p \in posts' <=> p \in posts)
    BY <1>a
  <2> QED
    BY <2>1, <2>2 DEF SendsStay
<1>1. UndoTypes' /\ WordTypes' /\ OneAtATime' /\ SavesInTurn' /\ ToldRight'
  <2>1. openings \in 0 .. MaxOpenings /\ openings <= openings
    BY DEF ComposeInv, WindowTypes, ComposeLimits
  <2> QED
    BY <1>b, <1>c, <2>1, SendsKept
<1>2. WindowTypes'
  <2>1. /\ isOpen' \in 0 .. openings' /\ savedDraftId' \in 0 .. drafts'
        /\ openings' \in 0 .. MaxOpenings /\ drafts' \in 0 .. MaxDrafts
        /\ happened' \in 0 .. ComposeEvents
    BY <1>b DEF ComposeInv, WindowTypes, ComposeLimits
  <2>2. saving \in BOOLEAN
    BY DEF ComposeInv, WindowTypes
  <2>3. saving' \in BOOLEAN
    BY <1>b, <2>2
  <2> QED
    BY <2>1, <2>3 DEF WindowTypes
<1>3. DraftTypes'
  BY <1>a, <1>b DEF ComposeInv, DraftTypes
<1>4. DraftsRight'
  BY <1>a, <1>b DEF ComposeInv, DraftsRight, Right
<1> QED
  BY <1>1, <1>2, <1>3, <1>4 DEF ComposeInv

LEMMA ComposeScheduleAnswered ==
  ASSUME ComposeLimits, ComposeInv, Compose!ScheduleAnswered PROVE ComposeInv'
<1>a. PICK q \in posts :
        /\ q.op = "schedule" /\ posts' = posts \ {q}
        /\ \/ isOpen' = 0 /\ foreign' = foreign \cup Compose!Changed(q.draft, q.by)
           \/ isOpen' = isOpen /\ foreign' = foreign
  BY DEF Compose!ScheduleAnswered
<1>b. /\ savedDraftId' = savedDraftId /\ saving' = saving /\ openings' = openings
      /\ drafts' = drafts /\ entitled' = entitled /\ strayed' = strayed
      /\ happened' = happened
  BY DEF Compose!ScheduleAnswered
<1>c. SendsStay
  <2>1. /\ undoCancelled' = undoCancelled /\ undoTimer' = undoTimer /\ timers' = timers
        /\ toasts' = toasts /\ clicked' = clicked /\ sent' = sent /\ told' = told
        /\ mingled' = mingled /\ lateUndos' = lateUndos /\ reloaded' = reloaded
    BY DEF Compose!ScheduleAnswered, Compose!undo, Compose!record
  <2>2. \A p : p.op = "send" => (p \in posts' <=> p \in posts)
    BY <1>a
  <2> QED
    BY <2>1, <2>2 DEF SendsStay
<1>1. UndoTypes' /\ WordTypes' /\ OneAtATime' /\ SavesInTurn' /\ ToldRight'
  <2>1. openings \in 0 .. MaxOpenings /\ openings <= openings
    BY DEF ComposeInv, WindowTypes, ComposeLimits
  <2> QED
    BY <1>a, <1>b, <1>c, <2>1, SendsKept
<1>2. WindowTypes'
  <2>1. /\ isOpen' \in 0 .. openings' /\ savedDraftId' \in 0 .. drafts'
        /\ openings' \in 0 .. MaxOpenings /\ drafts' \in 0 .. MaxDrafts
        /\ happened' \in 0 .. ComposeEvents
    BY <1>a, <1>b DEF ComposeInv, WindowTypes, ComposeLimits
  <2>2. saving' \in BOOLEAN
    BY <1>b DEF ComposeInv, WindowTypes
  <2> QED
    BY <2>1, <2>2 DEF WindowTypes
<1>3. foreign' \subseteq strayed
  <2>1. q.draft \in 0 .. drafts /\ Right(q.by, q.draft) /\ foreign \subseteq strayed
    BY DEF ComposeInv, DraftsRight
  <2>2. Compose!Changed(q.draft, q.by) \subseteq strayed
    BY <2>1 DEF Compose!Changed, Right
  <2> QED
    BY <1>a, <2>1, <2>2
<1>4. DraftTypes'
  BY <1>a, <1>b, <1>3 DEF ComposeInv, DraftTypes
<1>5. DraftsRight'
  BY <1>a, <1>b, <1>3 DEF ComposeInv, DraftsRight, Right
<1> QED
  BY <1>1, <1>2, <1>4, <1>5 DEF ComposeInv

LEMMA ComposeSend ==
  ASSUME ComposeLimits, ComposeInv, Compose!Send PROVE ComposeInv'
<1>a. /\ isOpen # 0 /\ isOpen' = 0 /\ clicked' = clicked \cup {isOpen}
      /\ foreign' = foreign \cup Compose!Changed(savedDraftId, isOpen)
      /\ undoCancelled' = FALSE /\ undoTimer' = isOpen
      /\ timers' = timers \cup {isOpen} /\ toasts' = toasts \cup {isOpen}
      /\ mingled' = IF toasts = {} THEN mingled ELSE mingled \cup toasts'
      /\ savedDraftId' = savedDraftId /\ saving' = saving /\ posts' = posts
      /\ openings' = openings /\ drafts' = drafts /\ happened' = happened
      /\ entitled' = entitled /\ sent' = sent /\ told' = told /\ lateUndos' = lateUndos
      /\ reloaded' = reloaded /\ strayed' = strayed
  BY DEF Compose!Send, Compose!LowersFlag
<1>b. isOpen \in 1 .. openings /\ isOpen \notin clicked
  BY <1>a DEF ComposeInv, WindowTypes, OneAtATime, ComposeLimits
<1>1. WindowTypes'
  <2>1. /\ isOpen' \in 0 .. openings' /\ savedDraftId' \in 0 .. drafts'
        /\ openings' \in 0 .. MaxOpenings /\ drafts' \in 0 .. MaxDrafts
        /\ happened' \in 0 .. ComposeEvents
    BY <1>a DEF ComposeInv, WindowTypes, ComposeLimits
  <2>2. saving' \in BOOLEAN
    BY <1>a DEF ComposeInv, WindowTypes
  <2> QED
    BY <2>1, <2>2 DEF WindowTypes
<1>2. UndoTypes'
  <2>1. undoTimer' \in 0 .. openings'
    BY <1>a, <1>b DEF ComposeInv, WindowTypes, ComposeLimits
  <2>2. undoCancelled' \in BOOLEAN
    BY <1>a
  <2> QED
    BY <1>a, <1>b, <2>1, <2>2 DEF ComposeInv, UndoTypes
<1>3. WordTypes' /\ DraftTypes'
  <2>1. savedDraftId \in 0 .. drafts
    BY DEF ComposeInv, WindowTypes
  <2>2. foreign \subseteq strayed /\ Right(isOpen, savedDraftId)
    BY <1>a DEF ComposeInv, DraftsRight
  <2>3. foreign' \subseteq strayed
    BY <1>a, <2>2 DEF Compose!Changed, Right
  <2> QED
    BY <1>a, <2>3 DEF ComposeInv, WordTypes, DraftTypes
<1>4. OneAtATime'
  <2>1. isOpen' \notin clicked'
    <3>1. 0 \notin clicked
      BY DEF ComposeInv, UndoTypes, WindowTypes, ComposeLimits
    <3> QED
      BY <1>a, <3>1
  <2>2. CASE toasts = {}
    <3>1. timers \subseteq mingled
      BY <2>2 DEF ComposeInv, OneAtATime
    <3> QED
      BY <1>a, <2>1, <2>2, <3>1 DEF OneAtATime
  <2>3. CASE toasts # {}
    <3>1. timers \subseteq mingled \cup toasts
      BY DEF ComposeInv, OneAtATime
    <3>2. toasts' \subseteq mingled' /\ timers' \subseteq mingled'
      BY <1>a, <2>3, <3>1
    <3> QED
      BY <2>1, <3>2 DEF OneAtATime
  <2> QED
    BY <2>2, <2>3
<1>5. SavesInTurn'
  <2>1. isOpen \notin sent
    BY <1>b DEF ComposeInv, UndoTypes
  <2>2. ~Sending(isOpen)
    BY <1>b DEF ComposeInv, SavesInTurn, Sending
  <2>3. \A c : Sending(c)' <=> Sending(c)
    BY <1>a DEF Sending
  <2> QED
    BY <1>a, <2>1, <2>2, <2>3 DEF ComposeInv, SavesInTurn
<1>6. ToldRight'
  <2>1. isOpen \in Compose!Openings => told[isOpen] = {}
    BY <1>b DEF ComposeInv, ToldRight
  <2>2. \A c : Sending(c)' <=> Sending(c)
    BY <1>a DEF Sending
  <2>3. \A c \in Compose!Openings : told'[c] # {} => c \in clicked'
    BY <1>a DEF ComposeInv, ToldRight
  <2>4. ASSUME NEW c \in Compose!Openings, "cancelled" \in told'[c],
               c \notin mingled' \cup lateUndos'
        PROVE  c \notin timers' /\ c \notin sent' /\ ~Sending(c)'
    <3>1. c # isOpen
      BY <1>a, <2>1, <2>4
    <3>2. c \notin mingled \cup lateUndos
      BY <1>a, <2>4
    <3> QED
      BY <1>a, <2>2, <2>4, <3>1, <3>2 DEF ComposeInv, ToldRight
  <2>5. \A c \in clicked' : c \in timers' \cup mingled' \cup lateUndos' \cup reloaded'
                              \/ told'[c] # {} \/ Sending(c)'
    BY <1>a, <2>2 DEF ComposeInv, ToldRight
  <2> QED
    BY <2>3, <2>4, <2>5 DEF ToldRight
<1>7. DraftsRight'
  <2>1. foreign' \subseteq strayed
    BY <1>a DEF ComposeInv, DraftsRight, Compose!Changed, Right
  <2> QED
    BY <1>a, <2>1 DEF ComposeInv, DraftsRight, Right
<1> QED
  BY <1>1, <1>2, <1>3, <1>4, <1>5, <1>6, <1>7 DEF ComposeInv

\* The steps of the sends leave the window and the drafts alone.
DraftsAsTheyWere ==
    /\ isOpen' = isOpen /\ savedDraftId' = savedDraftId /\ saving' = saving
    /\ openings' = openings /\ drafts' = drafts
    /\ entitled' = entitled /\ foreign' = foreign /\ strayed' = strayed

LEMMA DraftsAsBefore ==
  ASSUME ComposeLimits, ComposeInv, DraftsAsTheyWere, happened' \in 0 .. ComposeEvents,
         \A q \in posts' : q \in posts \/ (q \in Compose!Request /\ q.draft = 0)
  PROVE  WindowTypes' /\ DraftTypes' /\ DraftsRight'
<1>1. /\ isOpen' \in {0, isOpen} /\ savedDraftId' = savedDraftId /\ saving' = saving
      /\ openings' = openings /\ drafts' = drafts
      /\ entitled' = entitled /\ foreign' = foreign /\ strayed' = strayed
  BY DEF DraftsAsTheyWere
<1> QED
  BY <1>1, DraftsStay

LEMMA TellWords ==
  ASSUME WordTypes, NEW c \in Compose!Openings, NEW w \in {"cancelled", "sent", "failed"},
         Compose!Tell(c, w)
  PROVE  /\ WordTypes' /\ told'[c] = told[c] \cup {w}
         /\ \A x \in Compose!Openings \ {c} : told'[x] = told[x]
BY DEF WordTypes, Compose!Tell

LEMMA ClickedOpenings ==
  ASSUME ComposeLimits, ComposeInv PROVE clicked \subseteq Compose!Openings
BY DEF ComposeLimits, ComposeInv, UndoTypes, WindowTypes, Compose!Openings

LEMMA ComposeUndo ==
  ASSUME ComposeLimits, ComposeInv, NEW c \in Compose!Openings, Compose!Undo(c)
  PROVE  ComposeInv'
<1>a. /\ c \in toasts /\ toasts' = toasts \ {c} /\ Compose!Tell(c, "cancelled")
      /\ undoCancelled' = TRUE /\ timers' = timers \ {undoTimer}
      /\ lateUndos' = IF c \in timers THEN lateUndos ELSE lateUndos \cup {c}
      /\ undoTimer' = undoTimer /\ posts' = posts /\ happened' = happened
      /\ clicked' = clicked /\ sent' = sent /\ mingled' = mingled /\ reloaded' = reloaded
  BY DEF Compose!Undo
<1>1. WindowTypes' /\ DraftTypes' /\ DraftsRight'
  <2>1. DraftsAsTheyWere
    BY DEF Compose!Undo, Compose!window, DraftsAsTheyWere
  <2>2. happened' \in 0 .. ComposeEvents
    BY <1>a DEF ComposeInv, WindowTypes
  <2> QED
    BY <1>a, <2>1, <2>2, DraftsAsBefore
<1>2. UndoTypes'
  <2>1. undoTimer' \in 0 .. openings'
    BY <1>a DEF ComposeInv, UndoTypes, Compose!Undo, Compose!window
  <2>2. undoCancelled' \in BOOLEAN
    BY <1>a
  <2>3. openings' = openings
    BY DEF Compose!Undo
  <2> QED
    BY <1>a, <2>1, <2>2, <2>3 DEF ComposeInv, UndoTypes
<1>3. /\ WordTypes' /\ told'[c] = told[c] \cup {"cancelled"}
      /\ \A x \in Compose!Openings \ {c} : told'[x] = told[x]
  BY <1>a, TellWords DEF ComposeInv
<1>t. \A x \in timers' : x \in mingled
  <2> SUFFICES ASSUME NEW x \in timers', x \notin mingled PROVE FALSE
    OBVIOUS
  <2>1. x \in timers /\ x # undoTimer
    BY <1>a
  <2>2. x \in toasts
    BY <2>1 DEF ComposeInv, OneAtATime
  <2> QED
    BY <2>1, <2>2 DEF ComposeInv, OneAtATime
<1>4. OneAtATime'
  <2>1. isOpen' \notin clicked'
    BY <1>a DEF ComposeInv, OneAtATime, Compose!Undo, Compose!window
  <2>2. \A x \in toasts' \ mingled' : toasts' = {x} /\ undoTimer' = x
    <3> SUFFICES ASSUME NEW x \in toasts', x \notin mingled PROVE FALSE
      BY <1>a
    <3>1. x \in toasts /\ x # c
      BY <1>a
    <3> QED
      BY <1>a, <3>1 DEF ComposeInv, OneAtATime
  <2> QED
    BY <1>a, <1>t, <2>1, <2>2 DEF OneAtATime
<1>s. \A x : Sending(x)' <=> Sending(x)
  BY <1>a DEF Sending
<1>5. SavesInTurn'
  BY <1>a, <1>s DEF ComposeInv, SavesInTurn
<1>6. ToldRight'
  <2>1. \A x \in Compose!Openings : told'[x] # {} => x \in clicked'
    BY <1>a, <1>3 DEF ComposeInv, ToldRight, UndoTypes
  <2>2. ASSUME NEW x \in Compose!Openings, "cancelled" \in told'[x],
               x \notin mingled' \cup lateUndos'
        PROVE  x \notin timers' /\ x \notin sent' /\ ~Sending(x)'
    <3>0. x \notin mingled
      BY <1>a, <2>2
    <3>1. CASE x # c
      <4>1. x \notin lateUndos /\ "cancelled" \in told[x]
        BY <1>a, <1>3, <2>2, <3>1
      <4> QED
        BY <1>a, <1>s, <3>0, <4>1 DEF ComposeInv, ToldRight
    <3>2. CASE x = c
      <4>1. c \in timers
        BY <1>a, <2>2, <3>2
      <4>2. ~Sending(c) /\ c \notin sent
        BY <4>1 DEF ComposeInv, SavesInTurn
      <4> QED
        BY <1>a, <1>s, <1>t, <3>0, <3>2, <4>2
    <3> QED
      BY <3>1, <3>2
  <2>3. ASSUME NEW x \in clicked'
        PROVE  x \in timers' \cup mingled' \cup lateUndos' \cup reloaded'
                 \/ told'[x] # {} \/ Sending(x)'
    <3>1. CASE x = c
      BY <1>3, <3>1
    <3>2. CASE x # c
      <4>1. x \in timers \cup mingled \cup lateUndos \cup reloaded \/ told[x] # {} \/ Sending(x)
        BY <1>a DEF ComposeInv, ToldRight
      <4>2. x \in Compose!Openings
        BY <1>a, ClickedOpenings
      <4>3. told'[x] = told[x]
        BY <1>3, <3>2, <4>2
      <4>4. x \in timers => x \in timers' \cup mingled
        <5> SUFFICES ASSUME x \in timers, x = undoTimer, x \notin mingled PROVE FALSE
          BY <1>a
        <5>1. x \in toasts
          BY DEF ComposeInv, OneAtATime
        <5>2. toasts = {x}
          BY <5>1 DEF ComposeInv, OneAtATime
        <5> QED
          BY <1>a, <3>2, <5>2
      <4> QED
        BY <1>a, <1>s, <4>1, <4>3, <4>4
    <3> QED
      BY <3>1, <3>2
  <2> QED
    BY <2>1, <2>2, <2>3 DEF ToldRight
<1> QED
  BY <1>1, <1>2, <1>3, <1>4, <1>5, <1>6 DEF ComposeInv

LEMMA ComposeFire ==
  ASSUME ComposeLimits, ComposeInv, NEW c \in Compose!Openings, Compose!Fire(c)
  PROVE  ComposeInv'
<1>a. /\ c \in timers /\ timers' = timers \ {c}
      /\ posts' = IF undoCancelled THEN posts
                  ELSE posts \cup {[op |-> "send", by |-> c, draft |-> 0]}
      /\ undoCancelled' = undoCancelled /\ undoTimer' = undoTimer /\ toasts' = toasts
      /\ happened' = happened /\ clicked' = clicked /\ sent' = sent /\ told' = told
      /\ mingled' = mingled /\ lateUndos' = lateUndos /\ reloaded' = reloaded
      /\ isOpen' = isOpen /\ openings' = openings
  BY DEF Compose!Fire, Compose!window, Compose!record
<1>1. WindowTypes' /\ DraftTypes' /\ DraftsRight'
  <2>1. DraftsAsTheyWere
    BY DEF Compose!Fire, Compose!window, DraftsAsTheyWere
  <2>2. happened' \in 0 .. ComposeEvents
    BY <1>a DEF ComposeInv, WindowTypes
  <2>3. [op |-> "send", by |-> c, draft |-> 0] \in Compose!Request
    BY DEF ComposeLimits, Compose!Request
  <2>4. \A q \in posts' : q \in posts \/ (q \in Compose!Request /\ q.draft = 0)
    BY <1>a, <2>3
  <2> QED
    BY <2>1, <2>2, <2>4, DraftsAsBefore
<1>2. UndoTypes' /\ WordTypes'
  BY <1>a DEF ComposeInv, UndoTypes, WordTypes
<1>4. OneAtATime'
  BY <1>a DEF ComposeInv, OneAtATime
<1>s. /\ \A x : x # c => (Sending(x)' <=> Sending(x))
      /\ Sending(c)' <=> ~undoCancelled
  <2>1. ~Sending(c)
    BY <1>a DEF ComposeInv, SavesInTurn
  <2>2. CASE undoCancelled
    BY <1>a, <2>1, <2>2 DEF Sending
  <2>3. CASE ~undoCancelled
    <3>1. PICK m : m = [op |-> "send", by |-> c, draft |-> 0] 
      OBVIOUS
    <3>f. m.op = "send" /\ m.by = c
      BY <3>1
    <3>2. posts' = posts \cup {m}
      BY <1>a, <2>3, <3>1
    <3>3. Sending(c)'
      BY <3>f, <3>2 DEF Sending
    <3>4. ASSUME NEW x, x # c PROVE Sending(x)' <=> Sending(x)
      BY <3>f, <3>2, <3>4 DEF Sending
    <3> QED
      BY <2>3, <3>3, <3>4
  <2> QED
    BY <2>2, <2>3
<1>5. SavesInTurn'
  <2>1. c \in clicked /\ c \notin sent
    BY <1>a DEF ComposeInv, UndoTypes, SavesInTurn
  <2>2. \A q \in posts' : q.op = "send" => q.by \in clicked /\ q.draft = 0
    BY <1>a, <2>1 DEF ComposeInv, SavesInTurn
  <2> QED
    BY <1>a, <1>s, <2>1, <2>2 DEF ComposeInv, SavesInTurn
<1>6. ToldRight'
  <2>1. "cancelled" \in told[c] => c \in mingled \cup lateUndos
    BY <1>a DEF ComposeInv, ToldRight
  <2>2. undoCancelled => c \in mingled
    BY <1>a DEF ComposeInv, OneAtATime
  <2>3. \A x \in Compose!Openings : told'[x] # {} => x \in clicked'
    BY <1>a DEF ComposeInv, ToldRight
  <2>4. \A x \in Compose!Openings : "cancelled" \in told'[x] /\ x \notin mingled' \cup lateUndos' =>
          x \notin timers' /\ x \notin sent' /\ ~Sending(x)'
    BY <1>a, <1>s, <2>1 DEF ComposeInv, ToldRight
  <2>5. \A x \in clicked' : x \in timers' \cup mingled' \cup lateUndos' \cup reloaded'
                              \/ told'[x] # {} \/ Sending(x)'
    BY <1>a, <1>s, <2>2 DEF ComposeInv, ToldRight
  <2> QED
    BY <2>3, <2>4, <2>5 DEF ToldRight
<1> QED
  BY <1>1, <1>2, <1>4, <1>5, <1>6 DEF ComposeInv

LEMMA ComposeToastEnds ==
  ASSUME ComposeLimits, ComposeInv, NEW c \in Compose!Openings, Compose!ToastEnds(c)
  PROVE  ComposeInv'
<1>a. /\ c \in toasts /\ c \notin timers /\ toasts' = toasts \ {c}
      /\ undoCancelled' = undoCancelled /\ undoTimer' = undoTimer /\ timers' = timers
      /\ happened' = happened /\ clicked' = clicked /\ sent' = sent /\ told' = told
      /\ mingled' = mingled /\ lateUndos' = lateUndos /\ reloaded' = reloaded
      /\ isOpen' = isOpen /\ openings' = openings /\ posts' = posts
  BY DEF Compose!ToastEnds, Compose!window, Compose!record
<1>1. WindowTypes' /\ DraftTypes' /\ DraftsRight'
  <2>1. DraftsAsTheyWere
    BY DEF Compose!ToastEnds, Compose!window, DraftsAsTheyWere
  <2>2. happened' \in 0 .. ComposeEvents
    BY <1>a DEF ComposeInv, WindowTypes
  <2> QED
    BY <1>a, <2>1, <2>2, DraftsAsBefore
<1>2. UndoTypes' /\ WordTypes'
  BY <1>a DEF ComposeInv, UndoTypes, WordTypes
<1>4. OneAtATime'
  BY <1>a DEF ComposeInv, OneAtATime
<1>s. \A x : Sending(x)' <=> Sending(x)
  BY <1>a DEF Sending
<1>5. SavesInTurn' /\ ToldRight'
  BY <1>a, <1>s DEF ComposeInv, SavesInTurn, ToldRight
<1> QED
  BY <1>1, <1>2, <1>4, <1>5 DEF ComposeInv

LEMMA ComposeSendAnswered ==
  ASSUME ComposeLimits, ComposeInv, Compose!SendAnswered PROVE ComposeInv'
<1>q. PICK q \in posts :
        /\ q.op = "send" /\ posts' = posts \ {q}
        /\ \/ /\ sent' = sent \cup {q.by} /\ Compose!Tell(q.by, "sent")
              /\ toasts' = toasts \ {q.by} /\ happened' = happened
           \/ /\ Compose!Event /\ sent' \in {sent, sent \cup {q.by}}
              /\ Compose!Tell(q.by, "failed") /\ toasts' = toasts
  BY DEF Compose!SendAnswered
<1>c. PICK c \in clicked : c = q.by
  BY <1>q DEF ComposeInv, SavesInTurn
<1>w. PICK w \in {"cancelled", "sent", "failed"} : Compose!Tell(c, w) /\ w # "cancelled"
  BY <1>q, <1>c
<1>a. /\ sent' \in {sent, sent \cup {c}} /\ toasts' \in {toasts, toasts \ {c}}
      /\ undoCancelled' = undoCancelled /\ undoTimer' = undoTimer /\ timers' = timers
      /\ clicked' = clicked
      /\ mingled' = mingled /\ lateUndos' = lateUndos /\ reloaded' = reloaded
      /\ isOpen' = isOpen /\ openings' = openings
  BY <1>q, <1>c DEF Compose!SendAnswered, Compose!window
<1>o. c \in Compose!Openings
  BY ClickedOpenings
<1>s. /\ \A x : Sending(x)' => Sending(x)
      /\ \A x : x # c => (Sending(x)' <=> Sending(x))
      /\ Sending(c)
  BY <1>q, <1>c DEF Sending
<1>n. ~Sending(c)'
  <2> SUFFICES ASSUME NEW p \in posts, p # q, p.op = "send", p.by = c PROVE FALSE
    BY <1>q DEF Sending
  <2>1. p.draft = 0 /\ q.draft = 0
    BY <1>q DEF ComposeInv, SavesInTurn
  <2>2. p \in Compose!Request /\ q \in Compose!Request
    BY DEF ComposeInv, DraftTypes
  <2> QED
    BY <1>q, <1>c, <2>1, <2>2 DEF Compose!Request
<1>t. c \notin timers /\ c \notin sent
  BY <1>s DEF ComposeInv, SavesInTurn
<1>1. WindowTypes' /\ DraftTypes' /\ DraftsRight'
  <2>1. DraftsAsTheyWere
    BY DEF Compose!SendAnswered, Compose!window, DraftsAsTheyWere
  <2>2. happened' \in 0 .. ComposeEvents
    BY <1>q DEF ComposeInv, WindowTypes, ComposeLimits, Compose!Event
  <2>3. \A p \in posts' : p \in posts
    BY <1>q
  <2> QED
    BY <2>1, <2>2, <2>3, DraftsAsBefore
<1>2. UndoTypes'
  BY <1>a DEF ComposeInv, UndoTypes
<1>3. /\ WordTypes' /\ told'[c] = told[c] \cup {w}
      /\ \A x \in Compose!Openings \ {c} : told'[x] = told[x]
  BY <1>o, <1>w, TellWords DEF ComposeInv
<1>4. OneAtATime'
  <2>1. isOpen' \notin clicked'
    BY <1>a DEF ComposeInv, OneAtATime
  <2>2. \A x \in toasts' \ mingled' : toasts' = {x} /\ undoTimer' = x
    BY <1>a DEF ComposeInv, OneAtATime
  <2>3. \A x \in timers' \ mingled' : x \in toasts' /\ ~undoCancelled'
    BY <1>a, <1>t DEF ComposeInv, OneAtATime
  <2> QED
    BY <2>1, <2>2, <2>3 DEF OneAtATime
<1>5. SavesInTurn'
  <2>1. \A x \in timers' : ~Sending(x)' /\ x \notin sent'
    BY <1>a, <1>s, <1>t DEF ComposeInv, SavesInTurn
  <2>2. \A x \in sent' : ~Sending(x)'
    BY <1>a, <1>s, <1>n DEF ComposeInv, SavesInTurn
  <2>3. \A p \in posts' : p.op = "send" => p.by \in clicked' /\ p.draft = 0
    BY <1>a, <1>q DEF ComposeInv, SavesInTurn
  <2> QED
    BY <2>1, <2>2, <2>3 DEF SavesInTurn
<1>6. ToldRight'
  <2>1. \A x \in Compose!Openings : told'[x] # {} => x \in clicked'
    BY <1>a, <1>3 DEF ComposeInv, ToldRight
  <2>2. ASSUME NEW x \in Compose!Openings, "cancelled" \in told'[x],
               x \notin mingled' \cup lateUndos'
        PROVE  x \notin timers' /\ x \notin sent' /\ ~Sending(x)'
    <3>1. "cancelled" \in told[x]
      BY <1>w, <1>3, <2>2
    <3>2. x \notin mingled \cup lateUndos
      BY <1>a, <2>2
    <3>3. x \notin timers /\ x \notin sent /\ ~Sending(x)
      BY <3>1, <3>2 DEF ComposeInv, ToldRight
    <3> QED
      BY <1>a, <1>s, <3>3
  <2>3. ASSUME NEW x \in clicked'
        PROVE  x \in timers' \cup mingled' \cup lateUndos' \cup reloaded'
                 \/ told'[x] # {} \/ Sending(x)'
    <3>1. CASE x = c
      BY <1>3, <3>1
    <3>2. CASE x # c
      <4>1. x \in timers \cup mingled \cup lateUndos \cup reloaded \/ told[x] # {} \/ Sending(x)
        BY <1>a DEF ComposeInv, ToldRight
      <4>2. x \in Compose!Openings
        BY <1>a, ClickedOpenings
      <4>3. told'[x] = told[x]
        BY <1>3, <3>2, <4>2
      <4> QED
        BY <1>a, <1>s, <3>2, <4>1, <4>3
    <3> QED
      BY <3>1, <3>2
  <2> QED
    BY <2>1, <2>2, <2>3 DEF ToldRight
<1> QED
  BY <1>1, <1>2, <1>3, <1>4, <1>5, <1>6 DEF ComposeInv

LEMMA ComposeReload ==
  ASSUME ComposeLimits, ComposeInv, Compose!Reload PROVE ComposeInv'
<1>a. /\ Compose!Event /\ isOpen' = 0 /\ savedDraftId' = 0 /\ saving' = FALSE
      /\ undoCancelled' = FALSE /\ undoTimer' = 0 /\ timers' = {} /\ toasts' = {}
      /\ posts' = {}
      /\ reloaded' = reloaded \cup timers \cup {q.by : q \in {p \in posts : p.op = "send"}}
      /\ openings' = openings /\ drafts' = drafts /\ entitled' = entitled
      /\ clicked' = clicked /\ sent' = sent /\ told' = told /\ mingled' = mingled
      /\ lateUndos' = lateUndos /\ foreign' = foreign /\ strayed' = strayed
  BY DEF Compose!Reload
<1>z. 0 \notin clicked
  BY DEF ComposeInv, UndoTypes, WindowTypes, ComposeLimits
<1>1. WindowTypes'
  <2>1. /\ isOpen' \in 0 .. openings' /\ savedDraftId' \in 0 .. drafts'
        /\ openings' \in 0 .. MaxOpenings /\ drafts' \in 0 .. MaxDrafts
        /\ happened' \in 0 .. ComposeEvents
    BY <1>a DEF ComposeInv, WindowTypes, ComposeLimits, Compose!Event
  <2>2. saving' \in BOOLEAN
    BY <1>a
  <2> QED
    BY <2>1, <2>2 DEF WindowTypes
<1>2. UndoTypes'
  <2>1. undoTimer' \in 0 .. openings'
    BY <1>a DEF ComposeInv, WindowTypes, ComposeLimits
  <2>2. undoCancelled' \in BOOLEAN
    BY <1>a
  <2>3. reloaded' \subseteq clicked
    BY <1>a DEF ComposeInv, UndoTypes, SavesInTurn
  <2> QED
    BY <1>a, <2>1, <2>2, <2>3 DEF ComposeInv, UndoTypes
<1>3. WordTypes' /\ DraftTypes' /\ SavesInTurn' /\ OneAtATime'
  BY <1>a, <1>z DEF ComposeInv, WordTypes, DraftTypes, SavesInTurn, OneAtATime, Sending
<1>4. DraftsRight'
  BY <1>a DEF ComposeInv, DraftsRight
<1>5. ToldRight'
  <2>1. \A c \in clicked : Sending(c) => c \in reloaded'
    BY <1>a DEF Sending
  <2>2. \A c : ~Sending(c)'
    BY <1>a DEF Sending
  <2> QED
    BY <1>a, <2>1, <2>2 DEF ComposeInv, ToldRight
<1> QED
  BY <1>1, <1>2, <1>3, <1>4, <1>5 DEF ComposeInv

LEMMA ComposeNext ==
  ASSUME ComposeLimits, ComposeInv, [Compose!Next]_Compose!vars PROVE ComposeInv'
<1>1. CASE UNCHANGED Compose!vars
  <2>1. /\ SendsStay /\ DraftsAsTheyWere /\ posts' = posts /\ happened' = happened
    BY <1>1 DEF Compose!vars, Compose!window, Compose!undo, Compose!record, SendsStay,
                DraftsAsTheyWere
  <2>2. happened' \in 0 .. ComposeEvents /\ openings \in 0 .. MaxOpenings /\ openings <= openings
    BY <2>1 DEF ComposeInv, WindowTypes, ComposeLimits
  <2>3. WindowTypes' /\ DraftTypes' /\ DraftsRight'
    BY <2>1, <2>2, DraftsAsBefore
  <2>4. UndoTypes' /\ WordTypes' /\ OneAtATime' /\ SavesInTurn' /\ ToldRight'
    BY <2>1, <2>2, SendsKept DEF DraftsAsTheyWere
  <2> QED
    BY <2>3, <2>4 DEF ComposeInv
<1>2. CASE Compose!Next
  BY <1>2, ComposeOpen, ComposeClose, ComposeAsks, ComposeSaveAnswered, ComposeSaveFails,
     ComposeSend, ComposeSendAnswered, ComposeScheduleAnswered, ComposeReload, ComposeUndo,
     ComposeFire, ComposeToastEnds
     DEF Compose!Next
<1> QED
  BY <1>1, <1>2

-----------------------------------------------------------------------------
(* However openings, saves, sends and their Undo are interleaved, what the *)
(* user was told of a send is what happened, no send comes to nothing      *)
(* without a word, and no draft is changed by another opening, with the    *)
(* exceptions the properties name (ComposeModal.tsx).                      *)
THEOREM ComposeAlwaysHolds == ComposeLimits => (SafeSpec => []ComposeHolds)
<1> SUFFICES ASSUME ComposeLimits PROVE SafeSpec => []ComposeHolds
  OBVIOUS
<1> DEFINE Kept == subject = "compose" => ComposeInv
<1>1. FirstSafe => Kept
  BY ComposeInit, FirstOfSubject
<1>2. Kept /\ [StepSafe]_safeVars => Kept'
  BY ComposeNext, StepOfSubject
<1>3. Kept => ComposeHolds
  BY ComposeInvHolds DEF ComposeHolds
<1> QED
  BY <1>1, <1>2, <1>3, PTL DEF SafeSpec-----------------------------------------------------------------------------
(* The panel in which the assistant is asked (AskConversation).            *)

AskLimits ==
    /\ MaxAsks \in Nat /\ MaxProposals \in Nat /\ MaxPosts \in Nat /\ AskEvents \in Nat
    /\ AskFaults \in Nat

CounterTypes ==
    /\ asks \in 0 .. MaxAsks /\ happened \in 0 .. AskEvents /\ failed \in 0 .. AskFaults
    /\ cleared \subseteq Panel!Proposals
PanelFlags == isOpen \in BOOLEAN /\ stopped \in BOOLEAN

\* The pinned thread is the one in scope, unless something came late.
PinInv ==
    /\ scope \in Panel!Scopes /\ phase \in {"idle", "gather", "stream"} /\ asked \in Panel!Scopes
    /\ {payload, pinCache, pinnedCount, pinnedAck} \subseteq Panel!OrNone
    /\ phase = "gather" => asked \in Threads
    /\ phase # "idle" => payload \in {Panel!None, asked}
PinRight ==
    /\ strayed \in BOOLEAN
    /\ ~strayed =>
         /\ {pinnedCount, pinnedAck} \subseteq {Panel!None, pinCache}
         /\ scope \in Threads => pinCache \in {Panel!None, scope}
         /\ scope \notin Threads => pinCache = Panel!None

CardTypes ==
    /\ liveCards \subseteq 1 .. proposed /\ turns \subseteq 1 .. proposed
    /\ liveCards \cap turns = {} /\ (phase = "idle" => liveCards = {})
    /\ proposed \in 0 .. MaxProposals /\ posted \in 0 .. MaxPosts
    /\ cardStatus \in [Panel!Proposals -> Panel!Statuses]
    /\ carriedOut \in [Panel!Proposals -> Nat]
    /\ remounted \subseteq Panel!Proposals /\ unsure \subseteq Panel!Proposals

\* The requests: each has its number, and a mounted one is what its card works on.
PostsRight ==
    /\ posts \subseteq Panel!Post
    /\ \A q \in posts : q.n <= posted /\ q.proposal <= proposed
    /\ \A q, r \in posts : q.n = r.n => q = r
    /\ \A q, r \in posts : q.mounted /\ r.mounted /\ q.proposal = r.proposal => q = r
    /\ \A q \in posts : q.mounted => cardStatus[q.proposal] = "working"
    /\ \A q \in posts : q.at = "ok" => carriedOut[q.proposal] > 0

\* The requests for p that the server has not seen.
Unseen(p) == {q.n : q \in {r \in posts : r.at = "sent" /\ r.proposal = p}}

EachCounted == \A p \in Panel!Proposals : carriedOut[p] + Cardinality(Unseen(p)) <= posted

Excused(p) == p \in remounted \cup unsure

\* What a card says, and what was done for it.
CardRight(p) ==
    /\ p > proposed => cardStatus[p] = "idle" /\ carriedOut[p] = 0
    /\ p \in turns \cup liveCards =>
         /\ cardStatus[p] = "done" => carriedOut[p] > 0
         /\ cardStatus[p] = "working" => \E q \in posts : q.proposal = p /\ q.mounted
         /\ cardStatus[p] \in {"idle", "dismissed", "error"} /\ ~Excused(p) =>
              carriedOut[p] = 0 /\ \A q \in posts : q.proposal # p
         /\ p \notin remounted => \A q \in posts : q.proposal = p => q.mounted
    /\ ~Excused(p) =>
         /\ carriedOut[p] <= 1
         /\ \A q, r \in posts : q.proposal = p /\ r.proposal = p => q = r
         /\ \A q \in posts : q.proposal = p /\ q.at # "ok" => carriedOut[p] = 0

CardsInv == CardTypes /\ PostsRight /\ EachCounted /\ \A p \in Panel!Proposals : CardRight(p)

AskInv == CounterTypes /\ PanelFlags /\ PinInv /\ PinRight /\ CardsInv

LEMMA AskInvHolds == ASSUME AskLimits, AskInv PROVE Panel!AskHolds
<1>s. Panel!Shown \subseteq turns \cup liveCards
  BY DEF Panel!Shown
<1>p. 1 .. proposed \subseteq Panel!Proposals
  BY DEF AskInv, CardsInv, CardTypes, AskLimits, Panel!Proposals
<1>1. Panel!TypeOK
  <2>1. ASSUME NEW p \in Panel!Proposals PROVE carriedOut[p] \in 0 .. MaxPosts
    <3>1. Unseen(p) \subseteq 1 .. MaxPosts
      BY DEF AskInv, CardsInv, PostsRight, Panel!Post, Unseen
    <3>0. IsFiniteSet(1 .. MaxPosts)
      BY FS_Interval DEF AskLimits
    <3>2. IsFiniteSet(Unseen(p)) /\ Cardinality(Unseen(p)) \in Nat
      BY <3>0, <3>1, FS_Subset, FS_CardinalityType
    <3>3. carriedOut[p] \in Nat /\ posted \in 0 .. MaxPosts
      BY DEF AskInv, CardsInv, CardTypes
    <3>4. carriedOut[p] + Cardinality(Unseen(p)) <= posted
      BY DEF AskInv, CardsInv, EachCounted
    <3> QED
      BY <3>2, <3>3, <3>4 DEF AskLimits
  <2>2. carriedOut \in [Panel!Proposals -> 0 .. MaxPosts]
    BY <2>1 DEF AskInv, CardsInv, CardTypes
  <2>3. /\ liveCards \subseteq Panel!Proposals /\ turns \subseteq Panel!Proposals
        /\ liveCards \cap turns = {}
    BY <1>p DEF AskInv, CardsInv, CardTypes
  <2>4. /\ cardStatus \in [Panel!Proposals -> Panel!Statuses] /\ posts \subseteq Panel!Post
        /\ proposed \in 0 .. MaxProposals /\ posted \in 0 .. MaxPosts
        /\ remounted \subseteq Panel!Proposals /\ unsure \subseteq Panel!Proposals
    BY DEF AskInv, CardsInv, CardTypes, PostsRight
  <2>5. /\ isOpen \in BOOLEAN /\ stopped \in BOOLEAN /\ strayed \in BOOLEAN
    BY DEF AskInv, PanelFlags, PinRight
  <2>6. /\ scope \in Panel!Scopes /\ phase \in {"idle", "gather", "stream"}
        /\ asked \in Panel!Scopes
        /\ {payload, pinCache, pinnedCount, pinnedAck} \subseteq Panel!OrNone
    BY DEF AskInv, PinInv
  <2>7. /\ asks \in 0 .. MaxAsks /\ happened \in 0 .. AskEvents /\ failed \in 0 .. AskFaults
        /\ cleared \subseteq Panel!Proposals
    BY DEF AskInv, CounterTypes
  <2>8. remounted \cup unsure \cup cleared \subseteq Panel!Proposals
    BY <2>4, <2>7
  <2> QED
    BY <2>2, <2>3, <2>4, <2>5, <2>6, <2>7, <2>8 DEF Panel!TypeOK
<1>2. Panel!DoneOnce
  <2> SUFFICES ASSUME NEW p \in Panel!Proposals, carriedOut[p] > 1, ~Excused(p) PROVE FALSE
    BY DEF Panel!DoneOnce, Excused
  <2>1. carriedOut[p] <= 1 /\ carriedOut[p] \in Nat
    BY DEF AskInv, CardsInv, CardRight, CardTypes
  <2> QED
    BY <2>1
<1>3. Panel!CardsAreRight
  <2> SUFFICES ASSUME NEW p \in Panel!Proposals, p \in turns \cup liveCards
               PROVE  /\ cardStatus[p] = "done" => carriedOut[p] > 0
                      /\ cardStatus[p] = "working" => \E q \in posts : q.proposal = p /\ q.mounted
                      /\ cardStatus[p] \in {"idle", "dismissed", "error"} /\ ~Excused(p) =>
                            ~Panel!Approved(p)
    BY <1>s DEF Panel!CardsAreRight, Panel!Mounted, Excused
  <2>1. CardRight(p)
    BY DEF AskInv, CardsInv
  <2>2. cardStatus[p] \in {"idle", "dismissed", "error"} /\ ~Excused(p) =>
            carriedOut[p] = 0 /\ \A q \in posts : q.proposal # p
    BY <2>1 DEF CardRight
  <2>3. carriedOut[p] = 0 => ~(carriedOut[p] > 0)
    OBVIOUS
  <2> QED
    BY <2>1, <2>2, <2>3 DEF CardRight, Panel!Approved
<1>4. Panel!PinIsAsked
  BY DEF AskInv, PinInv, Panel!PinIsAsked, Panel!Streaming
<1>5. Panel!ChipIsRight
  BY DEF AskInv, PinRight, Panel!ChipIsRight
<1> QED
  BY <1>1, <1>2, <1>3, <1>4, <1>5 DEF Panel!AskHolds

LEMMA AskInit == ASSUME AskLimits, Panel!Init PROVE AskInv
<1>1. CounterTypes
  BY DEF Panel!Init, CounterTypes, AskLimits
<1>2. PanelFlags
  BY DEF Panel!Init, PanelFlags
<1>3. PinInv
  BY DEF Panel!Init, PinInv, Panel!Scopes, Panel!OrNone
<1>4. PinRight
  BY DEF Panel!Init, PinRight
<1>5. CardTypes
  BY DEF Panel!Init, CardTypes, AskLimits, Panel!Statuses
<1>6. PostsRight
  BY DEF Panel!Init, PostsRight
<1>7. EachCounted
  <2>1. \A p : Unseen(p) = {}
    BY DEF Panel!Init, Unseen
  <2> QED
    BY <2>1, FS_EmptySet DEF Panel!Init, EachCounted
<1>8. ASSUME NEW p \in Panel!Proposals PROVE CardRight(p)
  BY DEF Panel!Init, CardRight
<1> QED
  BY <1>1, <1>2, <1>3, <1>4, <1>5, <1>6, <1>7, <1>8 DEF AskInv, CardsInv

\* The cards, their requests and what was done stay.
CardsStay ==
    /\ liveCards' = liveCards /\ turns' = turns /\ cardStatus' = cardStatus /\ posts' = posts
    /\ proposed' = proposed /\ posted' = posted /\ carriedOut' = carriedOut
    /\ remounted' = remounted /\ unsure' = unsure

LEMMA CardsKept ==
  ASSUME CardsInv, CardsStay, phase' = "idle" => liveCards = {} PROVE CardsInv'
<1>1. CardTypes'
  BY DEF CardsInv, CardsStay, CardTypes
<1>2. PostsRight'
  BY DEF CardsInv, CardsStay, PostsRight
<1>3. EachCounted'
  <2>1. \A p : Unseen(p)' = Unseen(p)
    BY DEF CardsStay, Unseen
  <2> QED
    BY <2>1 DEF CardsInv, CardsStay, EachCounted
<1>4. ASSUME NEW p \in Panel!Proposals PROVE CardRight(p)'
  <2>1. CardRight(p)
    BY DEF CardsInv
  <2> QED
    BY <2>1 DEF CardsStay, CardRight, Excused
<1> QED
  BY <1>1, <1>2, <1>3, <1>4 DEF CardsInv

\* A change of scope keeps the pin right.
LEMMA ScopedPin ==
  ASSUME PinInv, PinRight, NEW s \in Panel!Scopes, Panel!Scoped(s)
  PROVE  /\ scope' = s /\ {pinCache', pinnedCount', pinnedAck'} \subseteq Panel!OrNone
         /\ PinRight'
<1>1. CASE s \notin Threads \/ pinCache \notin {Panel!None, s}
  <2>1. /\ scope' = s /\ pinCache' = Panel!None /\ pinnedCount' = Panel!None
        /\ pinnedAck' = Panel!None /\ strayed' = FALSE
    BY <1>1 DEF Panel!Scoped
  <2>2. PinRight'
    BY <2>1 DEF PinRight
  <2> QED
    BY <2>1, <2>2 DEF Panel!OrNone
<1>2. CASE s \in Threads /\ pinCache \in {Panel!None, s}
  <2>1. /\ scope' = s /\ pinCache' = pinCache /\ pinnedCount' = pinnedCount
        /\ pinnedAck' = pinnedAck
        /\ strayed' = (strayed /\ {pinnedCount, pinnedAck} \cap Threads # {})
    BY <1>2 DEF Panel!Scoped, Panel!pin
  <2>2. ~strayed' => {pinnedCount, pinnedAck} \subseteq {Panel!None, pinCache}
    <3>1. CASE ~strayed
      BY <3>1 DEF PinRight
    <3>2. CASE {pinnedCount, pinnedAck} \cap Threads = {}
      BY <3>2 DEF PinInv, Panel!OrNone
    <3> QED
      BY <2>1, <3>1, <3>2
  <2>3. strayed' \in BOOLEAN
    BY <2>1
  <2>4. PinRight'
    BY <1>2, <2>1, <2>2, <2>3 DEF PinRight
  <2> QED
    BY <2>1, <2>4 DEF PinInv
<1> QED
  BY <1>1, <1>2

LEMMA AskOpens ==
  ASSUME AskLimits, AskInv, NEW s \in Threads \cup {"doc", scope}, Panel!OpenAsk(s)
  PROVE  AskInv'
<1>a. /\ Panel!Event /\ isOpen' = TRUE /\ Panel!Scoped(s)
      /\ phase' = phase /\ asked' = asked /\ stopped' = stopped /\ payload' = payload
      /\ asks' = asks /\ failed' = failed /\ cleared' = cleared /\ CardsStay
  BY DEF Panel!OpenAsk, Panel!question, Panel!cards, CardsStay
<1>b. s \in Panel!Scopes
  BY DEF AskInv, PinInv, Panel!Scopes
<1>1. CounterTypes'
  BY <1>a DEF AskInv, CounterTypes, AskLimits, Panel!Event
<1>2. PanelFlags'
  BY <1>a DEF AskInv, PanelFlags
<1>3. PinInv' /\ PinRight'
  <2>1. /\ scope' = s /\ {pinCache', pinnedCount', pinnedAck'} \subseteq Panel!OrNone
        /\ PinRight'
    BY <1>a, <1>b, ScopedPin DEF AskInv
  <2> QED
    BY <1>a, <1>b, <2>1 DEF AskInv, PinInv
<1>4. CardsInv'
  <2>1. phase' = "idle" => liveCards = {}
    BY <1>a DEF AskInv, CardsInv, CardTypes
  <2> QED
    BY <1>a, <2>1, CardsKept DEF AskInv
<1> QED
  BY <1>1, <1>2, <1>3, <1>4 DEF AskInv

LEMMA AskClears ==
  ASSUME AskLimits, AskInv, Panel!ClearScope PROVE AskInv'
<1>a. /\ Panel!Event /\ isOpen' = isOpen /\ Panel!Scoped(Panel!None)
      /\ phase' = phase /\ asked' = asked /\ stopped' = stopped /\ payload' = payload
      /\ asks' = asks /\ failed' = failed /\ cleared' = cleared /\ CardsStay
  BY DEF Panel!ClearScope, Panel!question, Panel!cards, CardsStay
<1>b. Panel!None \in Panel!Scopes
  BY DEF Panel!Scopes
<1>1. CounterTypes'
  BY <1>a DEF AskInv, CounterTypes, AskLimits, Panel!Event
<1>2. PanelFlags'
  BY <1>a DEF AskInv, PanelFlags
<1>3. PinInv' /\ PinRight'
  <2>1. /\ scope' = Panel!None /\ {pinCache', pinnedCount', pinnedAck'} \subseteq Panel!OrNone
        /\ PinRight'
    BY <1>a, <1>b, ScopedPin DEF AskInv
  <2> QED
    BY <1>a, <1>b, <2>1 DEF AskInv, PinInv
<1>4. CardsInv'
  <2>1. phase' = "idle" => liveCards = {}
    BY <1>a DEF AskInv, CardsInv, CardTypes
  <2> QED
    BY <1>a, <2>1, CardsKept DEF AskInv
<1> QED
  BY <1>1, <1>2, <1>3, <1>4 DEF AskInv

LEMMA AskAsks == ASSUME AskLimits, AskInv, Panel!Ask PROVE AskInv'
<1>a. /\ asks < MaxAsks /\ asks' = asks + 1 /\ phase = "idle"
      /\ asked' = scope /\ stopped' = FALSE /\ liveCards' = {}
      /\ IF scope \in Threads /\ ~Panel!InCache(scope)
         THEN phase' = "gather" /\ payload' = Panel!None
         ELSE phase' = "stream" /\ payload' \in {IF scope \in Threads THEN pinCache ELSE Panel!None, Panel!None}
      /\ isOpen' = isOpen /\ scope' = scope /\ pinCache' = pinCache
      /\ pinnedCount' = pinnedCount /\ pinnedAck' = pinnedAck /\ turns' = turns
      /\ cardStatus' = cardStatus /\ posts' = posts /\ proposed' = proposed /\ posted' = posted
      /\ happened' = happened /\ failed' = failed /\ carriedOut' = carriedOut
      /\ remounted' = remounted /\ unsure' = unsure /\ strayed' = strayed /\ cleared' = cleared
  BY DEF Panel!Ask, Panel!Sends, Panel!store, Panel!pin, Panel!hist, Panel!Streaming
<1>1. CounterTypes'
  BY <1>a DEF AskInv, CounterTypes, AskLimits
<1>2. PanelFlags'
  <2>1. isOpen \in BOOLEAN
    BY DEF AskInv, PanelFlags
  <2> QED
    BY <1>a, <2>1 DEF PanelFlags
<1>3. PinInv'
  <2>1. CASE scope \in Threads /\ ~Panel!InCache(scope)
    BY <1>a, <2>1 DEF AskInv, PinInv, Panel!OrNone
  <2>2. CASE scope \in Threads /\ Panel!InCache(scope)
    <3>1. pinCache = scope
      BY <2>2 DEF Panel!InCache
    <3>2. phase' = "stream" /\ payload' \in {asked', Panel!None}
      BY <1>a, <2>2, <3>1
    <3>3. asked' \in Panel!OrNone /\ Panel!None \in Panel!OrNone
      BY <1>a, <2>2 DEF Panel!OrNone
    <3> QED
      BY <1>a, <3>2, <3>3 DEF AskInv, PinInv
  <2>3. CASE scope \notin Threads
    BY <1>a, <2>3 DEF AskInv, PinInv, Panel!OrNone
  <2> QED
    BY <2>1, <2>2, <2>3
<1>4. PinRight'
  BY <1>a DEF AskInv, PinRight
<1>5. CardsInv'
  <2>1. liveCards = {}
    BY <1>a DEF AskInv, CardsInv, CardTypes
  <2>2. CardsStay
    BY <1>a, <2>1 DEF CardsStay
  <2> QED
    BY <2>1, <2>2, CardsKept DEF AskInv
<1> QED
  BY <1>1, <1>2, <1>3, <1>4, <1>5 DEF AskInv

\* The steps of a question that leave the cards alone.
LEMMA AskGathered == ASSUME AskLimits, AskInv, Panel!Gathered PROVE AskInv'
<1>a. /\ phase = "gather" /\ pinCache' = asked /\ pinnedCount' = asked
      /\ payload' \in {asked, Panel!None} /\ phase' = "stream" /\ strayed' = (strayed \/ scope # asked)
      /\ isOpen' = isOpen /\ scope' = scope /\ asked' = asked /\ stopped' = stopped
      /\ pinnedAck' = pinnedAck /\ asks' = asks /\ happened' = happened /\ failed' = failed
      /\ cleared' = cleared /\ CardsStay
  BY DEF Panel!Gathered, Panel!Sends, Panel!store, Panel!cards, Panel!counts, CardsStay
<1>b. asked \in Threads /\ asked \in Panel!OrNone
  BY <1>a DEF AskInv, PinInv, Panel!OrNone
<1>1. CounterTypes' /\ PanelFlags'
  BY <1>a DEF AskInv, CounterTypes, PanelFlags
<1>3. PinInv'
  <2>1. payload' \in Panel!OrNone /\ payload' \in {Panel!None, asked'}
    BY <1>a, <1>b DEF Panel!OrNone
  <2> QED
    BY <1>a, <1>b, <2>1 DEF AskInv, PinInv
<1>4. PinRight'
  <2>1. strayed' \in BOOLEAN
    BY <1>a
  <2>2. ASSUME ~strayed'
        PROVE  /\ {pinnedCount', pinnedAck'} \subseteq {Panel!None, pinCache'}
               /\ scope' \in Threads => pinCache' \in {Panel!None, scope'}
               /\ scope' \notin Threads => pinCache' = Panel!None
    <3>1. ~strayed /\ scope = asked
      BY <1>a, <2>2
    <3>2. pinnedAck \in {Panel!None, scope}
      BY <1>b, <3>1 DEF AskInv, PinRight
    <3> QED
      BY <1>a, <1>b, <3>1, <3>2
  <2> QED
    BY <2>1, <2>2 DEF PinRight
<1>5. CardsInv'
  BY <1>a, CardsKept DEF AskInv
<1> QED
  BY <1>1, <1>3, <1>4, <1>5 DEF AskInv

LEMMA AskGoesOn ==
  ASSUME AskLimits, AskInv, Panel!GatherFails \/ Panel!Stop PROVE AskInv'
<1>a. /\ phase # "idle" /\ phase' \in {phase, "stream"} /\ stopped' \in {TRUE, stopped}
      /\ isOpen' = isOpen /\ scope' = scope /\ asked' = asked /\ payload' = payload
      /\ pinCache' = pinCache /\ pinnedCount' = pinnedCount
      /\ pinnedAck' = pinnedAck /\ asks' = asks /\ happened' = happened
      /\ strayed' = strayed /\ cleared' = cleared /\ CardsStay
      /\ failed' = failed \/ Panel!Fault
  BY DEF Panel!GatherFails, Panel!Stop, Panel!store, Panel!pin, Panel!cards, Panel!counts,
         Panel!hist, Panel!Streaming, CardsStay
<1>1. CounterTypes'
  BY <1>a DEF AskInv, CounterTypes, AskLimits, Panel!Fault
<1>2. PanelFlags'
  <2>1. isOpen \in BOOLEAN /\ stopped \in BOOLEAN
    BY DEF AskInv, PanelFlags
  <2> QED
    BY <1>a, <2>1 DEF PanelFlags
<1>3. PinInv' /\ PinRight'
  BY <1>a DEF AskInv, PinInv, PinRight
<1>5. CardsInv'
  BY <1>a, CardsKept DEF AskInv
<1> QED
  BY <1>1, <1>2, <1>3, <1>5 DEF AskInv

LEMMA AskPinned == ASSUME AskLimits, AskInv, Panel!Pinned PROVE AskInv'
<1>a. /\ phase = "stream" /\ payload # Panel!None /\ pinnedAck' = payload
      /\ strayed' = (strayed \/ scope # payload \/ pinCache # payload)
      /\ isOpen' = isOpen /\ scope' = scope /\ phase' = phase /\ asked' = asked
      /\ stopped' = stopped
      /\ payload' = payload /\ pinCache' = pinCache /\ pinnedCount' = pinnedCount
      /\ asks' = asks /\ happened' = happened /\ failed' = failed
      /\ cleared' = cleared /\ CardsStay
  BY DEF Panel!Pinned, Panel!Answering, Panel!store, Panel!question, Panel!cards, Panel!counts,
         CardsStay
<1>1. CounterTypes' /\ PanelFlags'
  BY <1>a DEF AskInv, CounterTypes, PanelFlags
<1>3. PinInv'
  BY <1>a DEF AskInv, PinInv
<1>4. PinRight'
  <2>1. strayed' \in BOOLEAN
    BY <1>a
  <2>2. ASSUME ~strayed'
        PROVE  /\ {pinnedCount', pinnedAck'} \subseteq {Panel!None, pinCache'}
               /\ scope' \in Threads => pinCache' \in {Panel!None, scope'}
               /\ scope' \notin Threads => pinCache' = Panel!None
    <3>1. ~strayed /\ pinCache = payload
      BY <1>a, <2>2
    <3> QED
      BY <1>a, <3>1 DEF AskInv, PinRight
  <2> QED
    BY <2>1, <2>2 DEF PinRight
<1>5. CardsInv'
  BY <1>a, CardsKept DEF AskInv
<1> QED
  BY <1>1, <1>3, <1>4, <1>5 DEF AskInv

LEMMA UnseenFinite ==
  ASSUME AskLimits, PostsRight, NEW p
  PROVE  IsFiniteSet(Unseen(p)) /\ Cardinality(Unseen(p)) \in Nat
<1>1. Unseen(p) \subseteq 1 .. MaxPosts
  BY DEF PostsRight, Panel!Post, Unseen
<1>2. IsFiniteSet(1 .. MaxPosts)
  BY FS_Interval DEF AskLimits
<1> QED
  BY <1>1, <1>2, FS_Subset, FS_CardinalityType

\* The request q once the cards of S are gone.
Image(q, S) == [q EXCEPT !.mounted = q.mounted /\ q.proposal \notin S]

LEMMA ImageFields ==
  ASSUME NEW S, NEW q \in Panel!Post
  PROVE  /\ Image(q, S) \in Panel!Post /\ Image(q, S).n = q.n
         /\ Image(q, S).proposal = q.proposal /\ Image(q, S).at = q.at
         /\ Image(q, S).mounted <=> q.mounted /\ q.proposal \notin S
<1>1. (q.mounted /\ q.proposal \notin S) \in BOOLEAN
  OBVIOUS
<1> QED
  BY <1>1 DEF Image, Panel!Post

LEMMA CardsUnmounted ==
  ASSUME AskLimits, CardsInv, NEW S, Panel!Unmount(S),
         proposed' = proposed, posted' = posted, carriedOut' = carriedOut, unsure' = unsure,
         remounted \subseteq remounted', remounted' \subseteq Panel!Proposals,
         liveCards' \cup turns' \subseteq liveCards \cup turns, liveCards' \cap turns' = {},
         phase' = "idle" => liveCards' = {},
         \A p \in (liveCards' \cup turns') \cap S : Panel!Approved(p) => p \in remounted'
  PROVE  CardsInv'
<1>a. /\ posts' = {Image(q, S) : q \in posts}
      /\ \A p \in Panel!Proposals : cardStatus'[p] = IF p \in S THEN "idle" ELSE cardStatus[p]
      /\ cardStatus' = [p \in Panel!Proposals |-> IF p \in S THEN "idle" ELSE cardStatus[p]]
  BY DEF Panel!Unmount, Image
<1>t. CardTypes /\ PostsRight /\ EachCounted
  BY DEF CardsInv
<1>q. ASSUME NEW q \in posts
      PROVE  /\ Image(q, S) \in Panel!Post /\ Image(q, S).n = q.n
             /\ Image(q, S).proposal = q.proposal /\ Image(q, S).at = q.at
             /\ Image(q, S).mounted <=> q.mounted /\ q.proposal \notin S
             /\ Image(q, S) \in posts'
  <2>1. q \in Panel!Post
    BY <1>t DEF PostsRight
  <2> QED
    BY <1>a, <2>1, ImageFields
<1>r. ASSUME NEW m \in posts' PROVE \E q \in posts : m = Image(q, S)
  BY <1>a
<1>k. \A p : ~Excused(p)' => ~Excused(p)
  BY DEF Excused
<1>1. CardTypes'
  <2>1. cardStatus' \in [Panel!Proposals -> Panel!Statuses]
    BY <1>a, <1>t DEF CardTypes, Panel!Statuses
  <2> QED
    BY <1>t, <2>1 DEF CardTypes
<1>2. PostsRight'
  <2>1. \A m \in posts' : m \in Panel!Post /\ m.n <= posted' /\ m.proposal <= proposed'
    BY <1>q, <1>r, <1>t DEF PostsRight
  <2>2. \A m, o \in posts' : m.n = o.n => m = o
    BY <1>q, <1>r, <1>t DEF PostsRight
  <2>3. \A m, o \in posts' : m.mounted /\ o.mounted /\ m.proposal = o.proposal => m = o
    BY <1>q, <1>r, <1>t DEF PostsRight
  <2>4. ASSUME NEW m \in posts', m.mounted PROVE cardStatus'[m.proposal] = "working"
    <3>1. PICK q \in posts : m = Image(q, S)
      BY <1>r
    <3>2. q.mounted /\ q.proposal \notin S /\ m.proposal = q.proposal
      BY <1>q, <2>4, <3>1
    <3>3. cardStatus[q.proposal] = "working" /\ q.proposal \in Panel!Proposals
      BY <1>t, <3>2 DEF PostsRight, Panel!Post
    <3> QED
      BY <1>a, <3>2, <3>3
  <2>5. \A m \in posts' : m.at = "ok" => carriedOut'[m.proposal] > 0
    BY <1>q, <1>r, <1>t DEF PostsRight
  <2> QED
    BY <2>1, <2>2, <2>3, <2>4, <2>5 DEF PostsRight
<1>3. EachCounted'
  <2>1. ASSUME NEW p PROVE Unseen(p)' = Unseen(p)
    <3>1. Unseen(p)' \subseteq Unseen(p)
      BY <1>q, <1>r DEF Unseen
    <3>2. Unseen(p) \subseteq Unseen(p)'
      BY <1>q DEF Unseen
    <3> QED
      BY <3>1, <3>2
  <2> QED
    BY <1>t, <2>1 DEF EachCounted
<1>4. ASSUME NEW p \in Panel!Proposals PROVE CardRight(p)'
  <2>0. CardRight(p)
    BY DEF CardsInv
  <2>1. p > proposed' => cardStatus'[p] = "idle" /\ carriedOut'[p] = 0
    BY <1>a, <2>0 DEF CardRight
  <2>2. ASSUME p \in turns' \cup liveCards'
        PROVE  /\ cardStatus'[p] = "done" => carriedOut'[p] > 0
               /\ cardStatus'[p] = "working" => \E q \in posts' : q.proposal = p /\ q.mounted
               /\ cardStatus'[p] \in {"idle", "dismissed", "error"} /\ ~Excused(p)' =>
                    carriedOut'[p] = 0 /\ \A q \in posts' : q.proposal # p
               /\ p \notin remounted' => \A q \in posts' : q.proposal = p => q.mounted
    <3>1. CASE p \in S
      <4>1. cardStatus'[p] = "idle"
        BY <1>a, <3>1
      <4>2. p \notin remounted' => carriedOut[p] = 0 /\ \A q \in posts : q.proposal # p
        <5>1. carriedOut[p] \in Nat
          BY <1>t DEF CardTypes
        <5>2. p \notin remounted' => ~Panel!Approved(p)
          BY <2>2, <3>1
        <5> QED
          BY <5>1, <5>2 DEF Panel!Approved
      <4>3. p \notin remounted' => \A q \in posts' : q.proposal # p
        BY <1>q, <1>r, <4>2
      <4> QED
        BY <4>1, <4>2, <4>3 DEF Excused
    <3>2. CASE p \notin S
      <4>1. cardStatus'[p] = cardStatus[p] /\ p \in turns \cup liveCards
        BY <1>a, <2>2, <3>2
      <4>2. cardStatus'[p] = "working" => \E q \in posts' : q.proposal = p /\ q.mounted
        BY <1>q, <2>0, <3>2, <4>1 DEF CardRight
      <4>3. cardStatus'[p] \in {"idle", "dismissed", "error"} /\ ~Excused(p)' =>
               carriedOut'[p] = 0 /\ \A q \in posts' : q.proposal # p
        BY <1>k, <1>q, <1>r, <2>0, <4>1 DEF CardRight
      <4>4. p \notin remounted' => \A q \in posts' : q.proposal = p => q.mounted
        BY <1>q, <1>r, <2>0, <3>2, <4>1 DEF CardRight
      <4>5. cardStatus'[p] = "done" => carriedOut'[p] > 0
        BY <2>0, <4>1 DEF CardRight
      <4> QED
        BY <4>2, <4>3, <4>4, <4>5
    <3> QED
      BY <3>1, <3>2
  <2>3. ASSUME ~Excused(p)'
        PROVE  /\ carriedOut'[p] <= 1
               /\ \A q, r \in posts' : q.proposal = p /\ r.proposal = p => q = r
               /\ \A q \in posts' : q.proposal = p /\ q.at # "ok" => carriedOut'[p] = 0
    <3>1. ~Excused(p)
      BY <1>k, <2>3
    <3>2. /\ carriedOut[p] <= 1
          /\ \A q, r \in posts : q.proposal = p /\ r.proposal = p => q = r
          /\ \A q \in posts : q.proposal = p /\ q.at # "ok" => carriedOut[p] = 0
      BY <2>0, <3>1 DEF CardRight
    <3>3. \A q, r \in posts' : q.proposal = p /\ r.proposal = p => q = r
      BY <1>q, <1>r, <3>2
    <3>4. \A q \in posts' : q.proposal = p /\ q.at # "ok" => carriedOut'[p] = 0
      BY <1>q, <1>r, <3>2
    <3> QED
      BY <3>2, <3>3, <3>4
  <2> QED
    BY <2>1, <2>2, <2>3 DEF CardRight
<1> QED
  BY <1>1, <1>2, <1>3, <1>4 DEF CardsInv

LEMMA AskCloses == ASSUME AskLimits, AskInv, Panel!Close PROVE AskInv'
<1>a. /\ Panel!Event /\ isOpen' = FALSE /\ Panel!Scoped(Panel!None) /\ Panel!Unmount(Panel!Shown)
      /\ remounted' = remounted \cup {p \in Panel!Shown : Panel!Approved(p)}
      /\ phase' = phase /\ asked' = asked /\ stopped' = stopped /\ payload' = payload
      /\ liveCards' = liveCards /\ turns' = turns /\ proposed' = proposed /\ posted' = posted
      /\ asks' = asks /\ failed' = failed /\ carriedOut' = carriedOut /\ unsure' = unsure
      /\ cleared' = cleared
  BY DEF Panel!Close, Panel!question
<1>b. Panel!None \in Panel!Scopes
  BY DEF Panel!Scopes
<1>1. CounterTypes'
  BY <1>a DEF AskInv, CounterTypes, AskLimits, Panel!Event
<1>2. PanelFlags'
  BY <1>a DEF AskInv, PanelFlags
<1>3. PinInv' /\ PinRight'
  <2>1. /\ scope' = Panel!None /\ {pinCache', pinnedCount', pinnedAck'} \subseteq Panel!OrNone
        /\ PinRight'
    BY <1>a, <1>b, ScopedPin DEF AskInv
  <2> QED
    BY <1>a, <1>b, <2>1 DEF AskInv, PinInv
<1>4. CardsInv'
  <2>1. PICK S : S = Panel!Shown
    OBVIOUS
  <2>2. /\ liveCards \cap turns = {} /\ (phase = "idle" => liveCards = {})
        /\ liveCards \subseteq Panel!Proposals /\ turns \subseteq Panel!Proposals
        /\ remounted \subseteq Panel!Proposals
    BY DEF AskInv, CardsInv, CardTypes, AskLimits, Panel!Proposals
  <2>3. remounted \subseteq remounted' /\ remounted' \subseteq Panel!Proposals
    BY <1>a, <2>2 DEF Panel!Shown
  <2>4. \A p \in (liveCards' \cup turns') \cap S : Panel!Approved(p) => p \in remounted'
    BY <1>a, <2>1
  <2>5. /\ Panel!Unmount(S) /\ liveCards' \cup turns' \subseteq liveCards \cup turns
        /\ liveCards' \cap turns' = {} /\ (phase' = "idle" => liveCards' = {})
    BY <1>a, <2>1, <2>2
  <2> QED
    BY <1>a, <2>3, <2>4, <2>5, CardsUnmounted DEF AskInv
<1> QED
  BY <1>1, <1>2, <1>3, <1>4 DEF AskInv

LEMMA AskStartsNew == ASSUME AskLimits, AskInv, Panel!StartNewConversation PROVE AskInv'
<1>a. /\ Panel!Event /\ turns' = {} /\ liveCards' = {} /\ pinnedAck' = Panel!None
      /\ Panel!Unmount(turns) /\ cleared' = cleared \cup turns
      /\ isOpen' = isOpen /\ scope' = scope /\ phase' = phase /\ asked' = asked
      /\ stopped' = stopped /\ payload' = payload /\ pinCache' = pinCache
      /\ pinnedCount' = pinnedCount /\ asks' = asks /\ proposed' = proposed
      /\ posted' = posted /\ failed' = failed /\ carriedOut' = carriedOut
      /\ remounted' = remounted /\ unsure' = unsure /\ strayed' = strayed
  BY DEF Panel!StartNewConversation, Panel!store, Panel!question
<1>b. turns \subseteq Panel!Proposals /\ remounted \subseteq Panel!Proposals
  BY DEF AskInv, CardsInv, CardTypes, AskLimits, Panel!Proposals
<1>1. CounterTypes'
  BY <1>a, <1>b DEF AskInv, CounterTypes, AskLimits, Panel!Event
<1>2. PanelFlags'
  BY <1>a DEF AskInv, PanelFlags
<1>3. PinInv'
  BY <1>a DEF AskInv, PinInv, Panel!OrNone
<1>p. PinRight'
  BY <1>a DEF AskInv, PinRight
<1>4. CardsInv'
  <2>1. PICK S : S = turns
    OBVIOUS
  <2>2. /\ Panel!Unmount(S) /\ liveCards' \cup turns' \subseteq liveCards \cup turns
        /\ liveCards' \cap turns' = {} /\ (phase' = "idle" => liveCards' = {})
        /\ \A p \in (liveCards' \cup turns') \cap S : Panel!Approved(p) => p \in remounted'
        /\ remounted \subseteq remounted' /\ remounted' \subseteq Panel!Proposals
    BY <1>a, <1>b, <2>1
  <2> QED
    BY <1>a, <2>2, CardsUnmounted DEF AskInv
<1> QED
  BY <1>1, <1>2, <1>3, <1>p, <1>4 DEF AskInv

LEMMA AskEnds == ASSUME AskLimits, AskInv, Panel!Completes \/ Panel!Breaks PROVE AskInv'
<1>a. /\ phase' = "idle" /\ liveCards' = {} /\ Panel!Unmount(liveCards)
      /\ isOpen' = isOpen /\ scope' = scope /\ asked' = asked /\ stopped' = stopped
      /\ payload' = payload /\ pinCache' = pinCache /\ pinnedCount' = pinnedCount
      /\ pinnedAck' = pinnedAck /\ asks' = asks /\ proposed' = proposed /\ posted' = posted
      /\ happened' = happened /\ carriedOut' = carriedOut /\ unsure' = unsure
      /\ strayed' = strayed
      /\ failed' = failed \/ Panel!Fault
      /\ cleared' \in {cleared, cleared \cup liveCards}
      /\ \/ /\ turns' = turns \cup liveCards
            /\ remounted' = remounted \cup {p \in liveCards : Panel!Approved(p)}
         \/ turns' = turns /\ remounted' = remounted
  BY DEF Panel!Completes, Panel!Breaks, Panel!store, Panel!pin, Panel!counts
<1>b. /\ turns \subseteq Panel!Proposals /\ remounted \subseteq Panel!Proposals
      /\ liveCards \subseteq Panel!Proposals /\ liveCards \cap turns = {}
  BY DEF AskInv, CardsInv, CardTypes, AskLimits, Panel!Proposals
<1>1. CounterTypes'
  BY <1>a, <1>b DEF AskInv, CounterTypes, AskLimits, Panel!Fault
<1>2. PanelFlags'
  BY <1>a DEF AskInv, PanelFlags
<1>3. PinInv' /\ PinRight'
  BY <1>a DEF AskInv, PinInv, PinRight
<1>4. CardsInv'
  <2>1. PICK S : S = liveCards
    OBVIOUS
  <2>2. /\ Panel!Unmount(S) /\ liveCards' \cup turns' \subseteq liveCards \cup turns
        /\ liveCards' \cap turns' = {} /\ (phase' = "idle" => liveCards' = {})
    BY <1>a, <2>1
  <2>3. \A p \in (liveCards' \cup turns') \cap S : Panel!Approved(p) => p \in remounted'
    BY <1>a, <1>b, <2>1
  <2>4. remounted \subseteq remounted' /\ remounted' \subseteq Panel!Proposals
    BY <1>a, <1>b
  <2> QED
    BY <1>a, <2>2, <2>3, <2>4, CardsUnmounted DEF AskInv
<1> QED
  BY <1>1, <1>2, <1>3, <1>4 DEF AskInv

\* The steps of the cards leave the panel and its question alone.
LEMMA AskElse ==
  ASSUME AskLimits, AskInv, isOpen' = isOpen, scope' = scope, phase' = phase, asked' = asked,
         stopped' = stopped, payload' = payload, pinCache' = pinCache,
         pinnedCount' = pinnedCount, pinnedAck' = pinnedAck, asks' = asks,
         happened' = happened, strayed' = strayed, cleared' = cleared,
         failed' = failed \/ Panel!Fault
  PROVE  CounterTypes' /\ PanelFlags' /\ PinInv' /\ PinRight'
<1>1. CounterTypes'
  BY DEF AskInv, CounterTypes, AskLimits, Panel!Fault
<1>2. PanelFlags' /\ PinInv' /\ PinRight'
  BY DEF AskInv, PanelFlags, PinInv, PinRight
<1> QED
  BY <1>1, <1>2

LEMMA AskProposal == ASSUME AskLimits, AskInv, Panel!Proposal PROVE AskInv'
<1>a. /\ phase # "idle" /\ proposed < MaxProposals /\ proposed' = proposed + 1
      /\ liveCards' = liveCards \cup {proposed + 1} /\ turns' = turns
      /\ cardStatus' = cardStatus /\ posts' = posts /\ posted' = posted
      /\ carriedOut' = carriedOut /\ remounted' = remounted /\ unsure' = unsure
      /\ phase' = phase
  BY DEF Panel!Proposal, Panel!Answering, Panel!question, Panel!hist
<1>e. CounterTypes' /\ PanelFlags' /\ PinInv' /\ PinRight'
  <2>1. /\ isOpen' = isOpen /\ scope' = scope /\ phase' = phase /\ asked' = asked
        /\ stopped' = stopped /\ payload' = payload /\ pinCache' = pinCache
        /\ pinnedCount' = pinnedCount /\ pinnedAck' = pinnedAck /\ asks' = asks
        /\ happened' = happened /\ strayed' = strayed /\ cleared' = cleared
        /\ failed' = failed
    BY DEF Panel!Proposal, Panel!store, Panel!question, Panel!pin, Panel!hist
  <2> QED
    BY <2>1, AskElse
<1>t. CardTypes /\ PostsRight /\ EachCounted
  BY DEF AskInv, CardsInv
<1>n. proposed \in Nat /\ proposed + 1 \in Panel!Proposals
  BY <1>a, <1>t DEF CardTypes, AskLimits, Panel!Proposals
<1>1. CardTypes'
  <2>1. 1 .. proposed \subseteq 1 .. proposed' /\ proposed + 1 \in 1 .. proposed'
        /\ proposed + 1 \notin 1 .. proposed /\ proposed' \in 0 .. MaxProposals
    BY <1>a, <1>n DEF AskLimits
  <2> QED
    BY <1>a, <1>t, <2>1 DEF CardTypes
<1>2. PostsRight'
  <2>1. \A q \in posts : q.proposal <= proposed'
    <3>1. \A q \in posts : q.proposal \in Nat /\ q.proposal <= proposed
      BY <1>t DEF PostsRight, Panel!Post, Panel!Proposals
    <3> QED
      BY <1>a, <1>n, <3>1
  <2> QED
    BY <1>a, <1>t, <2>1 DEF PostsRight
<1>3. EachCounted'
  <2>1. \A p : Unseen(p)' = Unseen(p)
    BY <1>a DEF Unseen
  <2> QED
    BY <1>a, <1>t, <2>1 DEF EachCounted
<1>4. ASSUME NEW p \in Panel!Proposals PROVE CardRight(p)'
  <2>1. CardRight(p)
    BY DEF AskInv, CardsInv
  <2>2. p \in Nat
    BY DEF Panel!Proposals
  <2>3. p > proposed' => p > proposed
    BY <1>a, <1>n, <2>2
  <2>4. CASE p # proposed + 1
    <3>1. p \in turns' \cup liveCards' => p \in turns \cup liveCards
      BY <1>a, <2>4
    <3> QED
      BY <1>a, <2>1, <2>3, <3>1 DEF CardRight, Excused
  <2>5. CASE p = proposed + 1
    <3>1. cardStatus[p] = "idle" /\ carriedOut[p] = 0
      BY <1>n, <2>1, <2>5 DEF CardRight
    <3>2. \A q \in posts : q.proposal # p
      BY <1>n, <1>t, <2>5 DEF PostsRight, Panel!Post, Panel!Proposals
    <3> QED
      BY <1>a, <3>1, <3>2 DEF CardRight
  <2> QED
    BY <2>4, <2>5
<1> QED
  BY <1>e, <1>1, <1>2, <1>3, <1>4 DEF AskInv, CardsInv

LEMMA AskApproves ==
  ASSUME AskLimits, AskInv, NEW p \in Panel!Proposals, Panel!Approve(p) PROVE AskInv'
<1>a. /\ p \in turns \cup liveCards /\ cardStatus[p] \in {"idle", "error"}
      /\ posted < MaxPosts /\ posted' = posted + 1
      /\ cardStatus' = [cardStatus EXCEPT ![p] = "working"]
      /\ posts' = posts \cup {[n |-> posted', proposal |-> p, at |-> "sent", mounted |-> TRUE]}
      /\ phase' = phase /\ liveCards' = liveCards /\ turns' = turns
      /\ proposed' = proposed /\ carriedOut' = carriedOut /\ remounted' = remounted
      /\ unsure' = unsure
  BY DEF Panel!Approve, Panel!Enabled, Panel!Mounted, Panel!Shown, Panel!question, Panel!hist
<1>e. CounterTypes' /\ PanelFlags' /\ PinInv' /\ PinRight'
  <2>1. /\ isOpen' = isOpen /\ scope' = scope /\ phase' = phase /\ asked' = asked
        /\ stopped' = stopped /\ payload' = payload /\ pinCache' = pinCache
        /\ pinnedCount' = pinnedCount /\ pinnedAck' = pinnedAck /\ asks' = asks
        /\ happened' = happened /\ strayed' = strayed /\ cleared' = cleared
        /\ failed' = failed
    BY DEF Panel!Approve, Panel!store, Panel!question, Panel!pin, Panel!hist
  <2> QED
    BY <2>1, AskElse
<1>t. CardTypes /\ PostsRight /\ EachCounted /\ CardRight(p)
  BY DEF AskInv, CardsInv
<1>m. PICK m : m = [n |-> posted', proposal |-> p, at |-> "sent", mounted |-> TRUE]
  OBVIOUS
<1>f. m.n = posted + 1 /\ m.proposal = p /\ m.at = "sent" /\ m.mounted /\ posts' = posts \cup {m}
  BY <1>a, <1>m
<1>n. /\ posted \in Nat /\ posted + 1 \in 1 .. MaxPosts /\ proposed \in Nat /\ p <= proposed
      /\ p \in Nat
  <2>1. posted \in Nat /\ posted + 1 \in 1 .. MaxPosts /\ proposed \in Nat
    BY <1>a, <1>t DEF CardTypes, AskLimits
  <2>2. p <= proposed /\ p \in Nat
    BY <1>a, <1>t, <2>1 DEF CardTypes, Panel!Proposals
  <2> QED
    BY <2>1, <2>2
<1>g. m \in Panel!Post
  BY <1>a, <1>m, <1>n DEF Panel!Post
<1>o. \A q \in posts : /\ q.n \in Nat /\ q.n <= posted /\ q.n # m.n /\ ~(q.mounted /\ q.proposal = p)
                       /\ q.proposal \in Panel!Proposals
  <2>1. \A q \in posts : q.n \in Nat /\ q.n <= posted /\ q.proposal \in Panel!Proposals
    BY <1>t DEF PostsRight, Panel!Post
  <2>2. \A q \in posts : q.n # m.n
    BY <1>f, <1>n, <2>1
  <2>3. \A q \in posts : ~(q.mounted /\ q.proposal = p)
    BY <1>a, <1>t DEF PostsRight
  <2> QED
    BY <2>1, <2>2, <2>3
<1>s. cardStatus'[p] = "working" /\ \A r \in Panel!Proposals \ {p} : cardStatus'[r] = cardStatus[r]
  BY <1>a, <1>t DEF CardTypes
<1>1. CardTypes'
  <2>1. cardStatus' \in [Panel!Proposals -> Panel!Statuses]
    BY <1>a, <1>t DEF CardTypes, Panel!Statuses
  <2>2. posted' \in 0 .. MaxPosts
    BY <1>a, <1>n
  <2> QED
    BY <1>a, <1>t, <2>1, <2>2 DEF CardTypes
<1>2. PostsRight'
  <2>1. posts' \subseteq Panel!Post
    BY <1>f, <1>g, <1>t DEF PostsRight
  <2>2. \A q \in posts' : q.n <= posted' /\ q.proposal <= proposed'
    <3>1. \A q \in posts : q.n <= posted'
      BY <1>a, <1>n, <1>o
    <3> QED
      BY <1>a, <1>f, <1>n, <1>t, <3>1 DEF PostsRight
  <2>3. \A q, r \in posts' : q.n = r.n => q = r
    BY <1>f, <1>o, <1>t DEF PostsRight
  <2>4. \A q, r \in posts' : q.mounted /\ r.mounted /\ q.proposal = r.proposal => q = r
    BY <1>f, <1>o, <1>t DEF PostsRight
  <2>5. \A q \in posts' : q.mounted => cardStatus'[q.proposal] = "working"
    BY <1>f, <1>o, <1>s, <1>t DEF PostsRight
  <2>6. \A q \in posts' : q.at = "ok" => carriedOut'[q.proposal] > 0
    BY <1>a, <1>f, <1>t DEF PostsRight
  <2> QED
    BY <2>1, <2>2, <2>3, <2>4, <2>5, <2>6 DEF PostsRight
<1>3. EachCounted'
  <2>1. ASSUME NEW r \in Panel!Proposals
        PROVE  carriedOut'[r] + Cardinality(Unseen(r)') <= posted'
    <3>0. /\ IsFiniteSet(Unseen(r)) /\ Cardinality(Unseen(r)) \in Nat
          /\ carriedOut[r] \in Nat /\ carriedOut[r] + Cardinality(Unseen(r)) <= posted
      BY <1>t, UnseenFinite DEF CardTypes, EachCounted
    <3>1. CASE r = p
      <4>1. Unseen(r)' = Unseen(r) \cup {posted + 1}
        <5>1. posted + 1 \in Unseen(r)'
          BY <1>f, <3>1 DEF Unseen
        <5>2. Unseen(r) \subseteq Unseen(r)'
          BY <1>f DEF Unseen
        <5>3. Unseen(r)' \subseteq Unseen(r) \cup {posted + 1}
          BY <1>f DEF Unseen
        <5> QED
          BY <5>1, <5>2, <5>3
      <4>2. posted + 1 \notin Unseen(r)
        BY <1>f, <1>o DEF Unseen
      <4>3. Cardinality(Unseen(r)') = Cardinality(Unseen(r)) + 1
        BY <3>0, <4>1, <4>2, FS_AddElement
      <4> QED
        BY <1>a, <1>n, <3>0, <4>3
    <3>2. CASE r # p
      <4>1. Unseen(r)' = Unseen(r)
        BY <1>f, <3>2 DEF Unseen
      <4> QED
        BY <1>a, <1>n, <3>0, <4>1
    <3> QED
      BY <3>1, <3>2
  <2> QED
    BY <2>1 DEF EachCounted
<1>4. ASSUME NEW r \in Panel!Proposals PROVE CardRight(r)'
  <2>1. CardRight(r)
    BY DEF AskInv, CardsInv
  <2>2. CASE r # p
    <3>1. cardStatus'[r] = cardStatus[r]
      BY <1>s, <2>2
    <3>2. \A q : q.proposal = r => (q \in posts' <=> q \in posts)
      BY <1>f, <2>2
    <3> QED
      BY <1>a, <2>1, <3>1, <3>2 DEF CardRight, Excused
  <2>3. CASE r = p
    <3>1. ~Excused(p) => carriedOut[p] = 0 /\ \A q \in posts : q.proposal # p
      BY <1>a, <1>t DEF CardRight
    <3>2. p \notin remounted => \A q \in posts' : q.proposal = p => q.mounted
      BY <1>a, <1>f, <1>t DEF CardRight
    <3>3. \E q \in posts' : q.proposal = p /\ q.mounted
      BY <1>f
    <3>4. ~Excused(p) => /\ \A q, o \in posts' : q.proposal = p /\ o.proposal = p => q = o
                       /\ carriedOut'[p] = 0
      BY <1>a, <1>f, <3>1
    <3>5. ~(p > proposed')
      BY <1>a, <1>n
    <3> QED
      BY <1>a, <1>s, <2>3, <3>2, <3>3, <3>4, <3>5 DEF CardRight, Excused
  <2> QED
    BY <2>2, <2>3
<1> QED
  BY <1>e, <1>1, <1>2, <1>3, <1>4 DEF AskInv, CardsInv

LEMMA AskDismisses ==
  ASSUME AskLimits, AskInv, NEW p \in Panel!Proposals, Panel!Dismiss(p) PROVE AskInv'
<1>a. /\ p \in turns \cup liveCards /\ cardStatus[p] \in {"idle", "error"}
      /\ cardStatus' = [cardStatus EXCEPT ![p] = "dismissed"] /\ posts' = posts /\ posted' = posted
      /\ phase' = phase /\ liveCards' = liveCards /\ turns' = turns
      /\ proposed' = proposed /\ carriedOut' = carriedOut /\ remounted' = remounted
      /\ unsure' = unsure
  BY DEF Panel!Dismiss, Panel!Enabled, Panel!Mounted, Panel!Shown, Panel!question, Panel!hist,
         Panel!counts
<1>e. CounterTypes' /\ PanelFlags' /\ PinInv' /\ PinRight'
  <2>1. /\ isOpen' = isOpen /\ scope' = scope /\ phase' = phase /\ asked' = asked
        /\ stopped' = stopped /\ payload' = payload /\ pinCache' = pinCache
        /\ pinnedCount' = pinnedCount /\ pinnedAck' = pinnedAck /\ asks' = asks
        /\ happened' = happened /\ strayed' = strayed /\ cleared' = cleared
        /\ failed' = failed
    BY DEF Panel!Dismiss, Panel!store, Panel!question, Panel!pin, Panel!hist, Panel!counts
  <2> QED
    BY <2>1, AskElse
<1>t. CardTypes /\ PostsRight /\ EachCounted /\ CardRight(p)
  BY DEF AskInv, CardsInv
<1>s. cardStatus'[p] = "dismissed" /\ \A r \in Panel!Proposals \ {p} : cardStatus'[r] = cardStatus[r]
  BY <1>a, <1>t DEF CardTypes
<1>o. \A q \in posts : ~(q.mounted /\ q.proposal = p) /\ q.proposal \in Panel!Proposals
  BY <1>a, <1>t DEF PostsRight, Panel!Post
<1>1. CardTypes'
  <2>1. cardStatus' \in [Panel!Proposals -> Panel!Statuses]
    BY <1>a, <1>t DEF CardTypes, Panel!Statuses
  <2> QED
    BY <1>a, <1>t, <2>1 DEF CardTypes
<1>2. PostsRight'
  <2>1. \A q \in posts : q.mounted => cardStatus'[q.proposal] = "working"
    BY <1>o, <1>s, <1>t DEF PostsRight
  <2> QED
    BY <1>a, <1>t, <2>1 DEF PostsRight
<1>3. EachCounted'
  <2>1. \A r : Unseen(r)' = Unseen(r)
    BY <1>a DEF Unseen
  <2> QED
    BY <1>a, <1>t, <2>1 DEF EachCounted
<1>4. ASSUME NEW r \in Panel!Proposals PROVE CardRight(r)'
  <2>1. CardRight(r)
    BY DEF AskInv, CardsInv
  <2>2. CASE r # p
    <3>1. cardStatus'[r] = cardStatus[r]
      BY <1>s, <2>2
    <3> QED
      BY <1>a, <2>1, <3>1 DEF CardRight, Excused
  <2>3. CASE r = p
    <3>1. ~(p > proposed)
      BY <1>a, <1>t DEF CardTypes, AskLimits, Panel!Proposals
    <3> QED
      BY <1>a, <1>s, <2>1, <2>3, <3>1 DEF CardRight, Excused
  <2> QED
    BY <2>2, <2>3
<1> QED
  BY <1>e, <1>1, <1>2, <1>3, <1>4 DEF AskInv, CardsInv

LEMMA AskExecutes ==
  ASSUME AskLimits, AskInv, NEW q \in posts, Panel!Execute(q) PROVE AskInv'
<1>p. PICK p \in Panel!Proposals : p = q.proposal
  BY DEF AskInv, CardsInv, PostsRight, Panel!Post
<1>e. CounterTypes' /\ PanelFlags' /\ PinInv' /\ PinRight'
  <2>1. /\ isOpen' = isOpen /\ scope' = scope /\ phase' = phase /\ asked' = asked
        /\ stopped' = stopped /\ payload' = payload /\ pinCache' = pinCache
        /\ pinnedCount' = pinnedCount /\ pinnedAck' = pinnedAck /\ asks' = asks
        /\ happened' = happened /\ strayed' = strayed /\ cleared' = cleared
        /\ failed' = failed \/ Panel!Fault
    BY DEF Panel!Execute, Panel!store, Panel!question, Panel!pin
  <2> QED
    BY <2>1, AskElse
<1>t. CardTypes /\ PostsRight /\ EachCounted /\ CardRight(p)
  BY DEF AskInv, CardsInv
<1>c. PICK end \in {"ok", "failed"} :
         /\ q.at = "sent"
         /\ posts' = (posts \ {q}) \cup {[q EXCEPT !.at = end]}
         /\ \/ carriedOut' = [carriedOut EXCEPT ![p] = carriedOut[p] + 1] /\ end = "ok"
               /\ unsure' = unsure
            \/ carriedOut' = [carriedOut EXCEPT ![p] = carriedOut[p] + 1]
               /\ unsure' = unsure \cup {p}
            \/ end = "failed" /\ carriedOut' = carriedOut /\ unsure' = unsure
  BY <1>p DEF Panel!Execute
<1>a. /\ cardStatus' = cardStatus /\ posted' = posted /\ phase' = phase /\ liveCards' = liveCards
      /\ turns' = turns /\ proposed' = proposed /\ remounted' = remounted
  BY DEF Panel!Execute, Panel!question
<1>m. PICK m : m = [q EXCEPT !.at = end]
  OBVIOUS
<1>f. /\ m.n = q.n /\ m.proposal = p /\ m.at = end /\ m.mounted = q.mounted /\ m \in Panel!Post
      /\ posts' = (posts \ {q}) \cup {m}
  <2>1. q \in Panel!Post
    BY <1>t DEF PostsRight
  <2>2. m.n = q.n /\ m.proposal = q.proposal /\ m.at = end /\ m.mounted = q.mounted
    BY <1>m, <2>1 DEF Panel!Post
  <2>3. m \in Panel!Post
    BY <1>m, <2>1 DEF Panel!Post
  <2> QED
    BY <1>c, <1>m, <1>p, <2>2, <2>3
<1>x. /\ carriedOut' \in [Panel!Proposals -> Nat] /\ carriedOut[p] \in Nat
      /\ carriedOut'[p] \in {carriedOut[p], carriedOut[p] + 1}
      /\ \A r \in Panel!Proposals \ {p} : carriedOut'[r] = carriedOut[r]
      /\ end = "ok" => carriedOut'[p] = carriedOut[p] + 1
      /\ p \notin unsure' /\ end = "failed" => carriedOut'[p] = carriedOut[p]
      /\ \A r \in Panel!Proposals \ {p} : r \in unsure' <=> r \in unsure
      /\ unsure \subseteq unsure' /\ unsure' \subseteq Panel!Proposals
  <2>1. carriedOut \in [Panel!Proposals -> Nat] /\ carriedOut[p] + 1 \in Nat
    BY <1>t DEF CardTypes
  <2>2. unsure \subseteq Panel!Proposals
    BY <1>t DEF CardTypes
  <2> QED
    BY <1>c, <2>1, <2>2
<1>1. CardTypes'
  BY <1>a, <1>t, <1>x DEF CardTypes
<1>2. PostsRight'
  <2>1. posts' \subseteq Panel!Post
    BY <1>f, <1>t DEF PostsRight
  <2>2. \A o \in posts' : o.n <= posted' /\ o.proposal <= proposed'
    BY <1>a, <1>f, <1>p, <1>t DEF PostsRight
  <2>3. \A o, r \in posts' : o.n = r.n => o = r
    BY <1>f, <1>t DEF PostsRight
  <2>4. \A o, r \in posts' : o.mounted /\ r.mounted /\ o.proposal = r.proposal => o = r
    BY <1>f, <1>p, <1>t DEF PostsRight
  <2>5. \A o \in posts' : o.mounted => cardStatus'[o.proposal] = "working"
    BY <1>a, <1>f, <1>p, <1>t DEF PostsRight
  <2>6. \A o \in posts' : o.at = "ok" => carriedOut'[o.proposal] > 0
    <3>1. \A o \in posts : o.at = "ok" =>
             carriedOut[o.proposal] > 0 /\ o.proposal \in Panel!Proposals
      BY <1>t DEF PostsRight, Panel!Post
    <3>2. \A o \in posts : o.at = "ok" => carriedOut'[o.proposal] > 0
      <4> SUFFICES ASSUME NEW o \in posts, o.at = "ok" PROVE carriedOut'[o.proposal] > 0
        OBVIOUS
      <4>1. CASE o.proposal = p
        BY <1>x, <3>1, <4>1
      <4>2. CASE o.proposal # p
        BY <1>x, <3>1, <4>2
      <4> QED
        BY <4>1, <4>2
    <3>3. end = "ok" => carriedOut'[p] > 0
      BY <1>x
    <3> QED
      BY <1>f, <3>2, <3>3
  <2> QED
    BY <2>1, <2>2, <2>3, <2>4, <2>5, <2>6 DEF PostsRight
<1>3. EachCounted'
  <2>1. ASSUME NEW r \in Panel!Proposals
        PROVE  carriedOut'[r] + Cardinality(Unseen(r)') <= posted'
    <3>0. /\ IsFiniteSet(Unseen(r)) /\ Cardinality(Unseen(r)) \in Nat
          /\ carriedOut[r] \in Nat /\ carriedOut[r] + Cardinality(Unseen(r)) <= posted
          /\ posted \in Nat
      BY <1>t, UnseenFinite DEF CardTypes, EachCounted, AskLimits
    <3>1. CASE r = p
      <4>1. q.n \in Unseen(r)
        BY <1>c, <1>p, <3>1 DEF Unseen
      <4>2. Unseen(r)' \subseteq Unseen(r) \ {q.n}
        <5>1. \A o \in posts \ {q} : o.n # q.n
          BY <1>t DEF PostsRight
        <5>2. m.at # "sent"
          BY <1>f
        <5> QED
          BY <1>f, <5>1, <5>2 DEF Unseen
      <4>3. /\ IsFiniteSet(Unseen(r) \ {q.n})
            /\ Cardinality(Unseen(r) \ {q.n}) = Cardinality(Unseen(r)) - 1
        BY <3>0, <4>1, FS_RemoveElement
      <4>4. Cardinality(Unseen(r)') <= Cardinality(Unseen(r) \ {q.n})
        BY <4>2, <4>3, FS_Subset
      <4>5. Cardinality(Unseen(r)') \in Nat
        BY <4>2, <4>3, FS_Subset, FS_CardinalityType
      <4>6. carriedOut'[r] \in Nat /\ carriedOut'[r] <= carriedOut[r] + 1
        BY <1>x, <3>1
      <4> QED
        BY <1>a, <3>0, <4>3, <4>4, <4>5, <4>6
    <3>2. CASE r # p
      <4>1. Unseen(r)' = Unseen(r)
        BY <1>f, <1>p, <3>2 DEF Unseen
      <4> QED
        BY <1>a, <1>x, <3>0, <3>2, <4>1
    <3> QED
      BY <3>1, <3>2
  <2> QED
    BY <2>1 DEF EachCounted
<1>4. ASSUME NEW r \in Panel!Proposals PROVE CardRight(r)'
  <2>1. CardRight(r)
    BY DEF AskInv, CardsInv
  <2>2. CASE r # p
    <3>1. carriedOut'[r] = carriedOut[r] /\ (Excused(r)' <=> Excused(r))
      BY <1>a, <1>x, <2>2 DEF Excused
    <3>2. \A o : o.proposal = r => (o \in posts' <=> o \in posts)
      BY <1>f, <1>p, <2>2
    <3>3. cardStatus'[r] = cardStatus[r] /\ (r \in turns' \cup liveCards' <=> r \in turns \cup liveCards)
          /\ (r \in remounted' <=> r \in remounted) /\ proposed' = proposed
      BY <1>a
    <3> QED
      BY <2>1, <3>1, <3>2, <3>3 DEF CardRight
  <2>3. CASE r = p
    <3>1. ~(p > proposed')
      BY <1>a, <1>p, <1>t DEF PostsRight, CardTypes, AskLimits, Panel!Proposals
    <3>2. ASSUME p \in turns' \cup liveCards'
          PROVE  /\ cardStatus'[p] = "done" => carriedOut'[p] > 0
                 /\ cardStatus'[p] = "working" => \E o \in posts' : o.proposal = p /\ o.mounted
                 /\ cardStatus'[p] \in {"idle", "dismissed", "error"} => Excused(p)'
                 /\ p \notin remounted' => \A o \in posts' : o.proposal = p => o.mounted
      <4>0. p \in turns \cup liveCards /\ cardStatus'[p] = cardStatus[p]
        BY <1>a, <3>2
      <4>1. cardStatus'[p] = "done" => carriedOut'[p] > 0
        <5>1. cardStatus'[p] = "done" => carriedOut[p] > 0
          BY <1>t, <4>0 DEF CardRight
        <5> QED
          BY <1>x, <5>1
      <4>2. cardStatus'[p] = "working" => \E o \in posts' : o.proposal = p /\ o.mounted
        <5>1. cardStatus'[p] = "working" => \E o \in posts : o.proposal = p /\ o.mounted
          BY <1>t, <4>0 DEF CardRight
        <5> QED
          BY <1>f, <5>1
      <4>3. cardStatus'[p] \in {"idle", "dismissed", "error"} => Excused(p)'
        <5>1. cardStatus'[p] \in {"idle", "dismissed", "error"} => Excused(p)
          BY <1>p, <1>t, <4>0 DEF CardRight
        <5> QED
          BY <1>a, <1>x, <5>1 DEF Excused
      <4>4. p \notin remounted' => \A o \in posts' : o.proposal = p => o.mounted
        <5>1. p \notin remounted => \A o \in posts : o.proposal = p => o.mounted
          BY <1>t, <4>0 DEF CardRight
        <5> QED
          BY <1>a, <1>f, <1>p, <5>1
      <4> QED
        BY <4>1, <4>2, <4>3, <4>4
    <3>3. ASSUME ~Excused(p)'
          PROVE  /\ carriedOut'[p] <= 1
                 /\ \A o, s \in posts' : o.proposal = p /\ s.proposal = p => o = s
                 /\ \A o \in posts' : o.proposal = p /\ o.at # "ok" => carriedOut'[p] = 0
      <4>1. ~Excused(p) /\ p \notin unsure'
        BY <1>a, <1>x, <3>3 DEF Excused
      <4>2. /\ \A o, s \in posts : o.proposal = p /\ s.proposal = p => o = s
            /\ carriedOut[p] = 0
        BY <1>c, <1>p, <1>t, <4>1 DEF CardRight
      <4>3. \A o \in posts' : o.proposal = p => o = m
        BY <1>f, <1>p, <4>2
      <4>4. carriedOut'[p] <= 1
        BY <1>x, <4>2
      <4>5. end # "ok" => carriedOut'[p] = 0
        BY <1>x, <4>1, <4>2
      <4> QED
        BY <1>f, <4>3, <4>4, <4>5
    <3> QED
      BY <2>3, <3>1, <3>2, <3>3 DEF CardRight
  <2> QED
    BY <2>2, <2>3
<1> QED
  BY <1>e, <1>1, <1>2, <1>3, <1>4 DEF AskInv, CardsInv

LEMMA AskAnswered ==
  ASSUME AskLimits, AskInv, NEW q \in posts, Panel!Answer(q) PROVE AskInv'
<1>p. PICK p \in Panel!Proposals : p = q.proposal
  BY DEF AskInv, CardsInv, PostsRight, Panel!Post
<1>e. CounterTypes' /\ PanelFlags' /\ PinInv' /\ PinRight'
  <2>1. /\ isOpen' = isOpen /\ scope' = scope /\ phase' = phase /\ asked' = asked
        /\ stopped' = stopped /\ payload' = payload /\ pinCache' = pinCache
        /\ pinnedCount' = pinnedCount /\ pinnedAck' = pinnedAck /\ asks' = asks
        /\ happened' = happened /\ strayed' = strayed /\ cleared' = cleared
        /\ failed' = failed
    BY DEF Panel!Answer, Panel!store, Panel!question, Panel!pin, Panel!hist, Panel!counts
  <2> QED
    BY <2>1, AskElse
<1>t. CardTypes /\ PostsRight /\ EachCounted /\ CardRight(p)
  BY DEF AskInv, CardsInv
<1>a. /\ q.at # "sent" /\ posts' = posts \ {q} /\ posted' = posted /\ phase' = phase
      /\ cardStatus' = IF q.mounted /\ cardStatus[p] # "dismissed"
                   THEN [cardStatus EXCEPT ![p] = IF q.at = "ok" THEN "done" ELSE "error"]
                   ELSE cardStatus
      /\ liveCards' = liveCards /\ turns' = turns
      /\ proposed' = proposed /\ carriedOut' = carriedOut /\ remounted' = remounted
      /\ unsure' = unsure
  BY <1>p DEF Panel!Answer, Panel!question, Panel!hist, Panel!counts
<1>s. /\ \A r \in Panel!Proposals \ {p} : cardStatus'[r] = cardStatus[r]
      /\ q.mounted => cardStatus'[p] = IF q.at = "ok" THEN "done" ELSE "error"
      /\ ~q.mounted => cardStatus'[p] = cardStatus[p]
      /\ cardStatus' \in [Panel!Proposals -> Panel!Statuses]
  <2>1. q.mounted => cardStatus[p] = "working"
    BY <1>p, <1>t DEF PostsRight
  <2>2. cardStatus \in [Panel!Proposals -> Panel!Statuses]
    BY <1>t DEF CardTypes
  <2>3. CASE q.mounted
    <3>1. cardStatus' = [cardStatus EXCEPT ![p] = IF q.at = "ok" THEN "done" ELSE "error"]
      BY <1>a, <2>1, <2>3
    <3> QED
      BY <2>2, <2>3, <3>1 DEF Panel!Statuses
  <2>4. CASE ~q.mounted
    BY <1>a, <2>2, <2>4
  <2> QED
    BY <2>3, <2>4
<1>1. CardTypes'
  BY <1>a, <1>s, <1>t DEF CardTypes
<1>2. PostsRight'
  <2>1. \A o \in posts' : o.mounted => cardStatus'[o.proposal] = "working"
    <3> SUFFICES ASSUME NEW o \in posts, o # q, o.mounted
                 PROVE  cardStatus'[o.proposal] = "working"
      BY <1>a
    <3>1. cardStatus[o.proposal] = "working" /\ o.proposal \in Panel!Proposals
      BY <1>t DEF PostsRight, Panel!Post
    <3>2. q.mounted => o.proposal # p
      BY <1>p, <1>t DEF PostsRight
    <3> QED
      BY <1>s, <3>1, <3>2
  <2> QED
    BY <1>a, <1>t, <2>1 DEF PostsRight
<1>3. EachCounted'
  <2>1. \A r : Unseen(r)' = Unseen(r)
    BY <1>a DEF Unseen
  <2> QED
    BY <1>a, <1>t, <2>1 DEF EachCounted
<1>4. ASSUME NEW r \in Panel!Proposals PROVE CardRight(r)'
  <2>1. CardRight(r)
    BY DEF AskInv, CardsInv
  <2>2. CASE r # p
    <3>1. cardStatus'[r] = cardStatus[r]
      BY <1>s, <2>2
    <3>2. \A o : o.proposal = r => (o \in posts' <=> o \in posts)
      BY <1>a, <1>p, <2>2
    <3> QED
      BY <1>a, <2>1, <3>1, <3>2 DEF CardRight, Excused
  <2>3. CASE r = p
    <3>1. ~(p > proposed')
      BY <1>a, <1>p, <1>t DEF PostsRight, CardTypes, AskLimits, Panel!Proposals
    <3>2. ASSUME p \in turns \cup liveCards
          PROVE  /\ cardStatus'[p] = "done" => carriedOut[p] > 0
                 /\ cardStatus'[p] = "working" => \E o \in posts' : o.proposal = p /\ o.mounted
                 /\ cardStatus'[p] \in {"idle", "dismissed", "error"} /\ ~Excused(p) =>
                      carriedOut[p] = 0 /\ \A o \in posts' : o.proposal # p
                 /\ p \notin remounted => \A o \in posts' : o.proposal = p => o.mounted
      <4>1. CASE q.mounted
        <5>1. q.at = "ok" => carriedOut[p] > 0
          BY <1>p, <1>t DEF PostsRight
        <5>2. q.at # "ok" /\ ~Excused(p) => carriedOut[p] = 0
          BY <1>p, <1>t DEF CardRight
        <5>3. ~Excused(p) => \A o \in posts' : o.proposal # p
          BY <1>a, <1>p, <1>t DEF CardRight
        <5>4. p \notin remounted => \A o \in posts' : o.proposal = p => o.mounted
          BY <1>a, <1>t, <3>2 DEF CardRight
        <5>5. cardStatus'[p] = (IF q.at = "ok" THEN "done" ELSE "error")
          BY <1>s, <4>1
        <5> QED
          BY <5>1, <5>2, <5>3, <5>4, <5>5
      <4>2. CASE ~q.mounted
        <5>1. cardStatus'[p] = cardStatus[p]
          BY <1>s, <4>2
        <5> QED
          BY <1>a, <1>t, <3>2, <4>2, <5>1 DEF CardRight
      <4> QED
        BY <4>1, <4>2
    <3>3. ~Excused(p) =>
             /\ carriedOut[p] <= 1
             /\ \A o, s \in posts' : o.proposal = p /\ s.proposal = p => o = s
             /\ \A o \in posts' : o.proposal = p /\ o.at # "ok" => carriedOut[p] = 0
      BY <1>a, <1>t DEF CardRight
    <3> QED
      BY <1>a, <2>3, <3>1, <3>2, <3>3 DEF CardRight, Excused
  <2> QED
    BY <2>2, <2>3
<1> QED
  BY <1>e, <1>1, <1>2, <1>3, <1>4 DEF AskInv, CardsInv

LEMMA AskNext == ASSUME AskLimits, AskInv, [Panel!Next]_Panel!vars PROVE AskInv'
<1>1. CASE UNCHANGED Panel!vars
  <2>1. /\ isOpen' = isOpen /\ scope' = scope /\ phase' = phase /\ asked' = asked
        /\ stopped' = stopped /\ payload' = payload /\ pinCache' = pinCache
        /\ pinnedCount' = pinnedCount /\ pinnedAck' = pinnedAck /\ asks' = asks
        /\ happened' = happened /\ strayed' = strayed /\ cleared' = cleared
        /\ failed' = failed /\ CardsStay
    BY <1>1 DEF Panel!vars, Panel!store, Panel!question, Panel!pin, Panel!cards, Panel!counts,
                Panel!hist, CardsStay
  <2>2. CardsInv'
    <3>1. phase' = "idle" => liveCards = {}
      BY <2>1 DEF AskInv, CardsInv, CardTypes
    <3> QED
      BY <2>1, <3>1, CardsKept DEF AskInv
  <2>3. CounterTypes' /\ PanelFlags' /\ PinInv' /\ PinRight'
    BY <2>1, AskElse
  <2> QED
    BY <2>2, <2>3 DEF AskInv
<1>2. CASE Panel!Next
  BY <1>2, AskCloses, AskClears, AskStartsNew, AskAsks, AskGathered, AskGoesOn, AskPinned,
     AskProposal, AskEnds, AskOpens, AskApproves, AskDismisses, AskExecutes, AskAnswered
     DEF Panel!Next
<1> QED
  BY <1>1, <1>2
-----------------------------------------------------------------------------
(* A pin is the one the reader chose for the thread on the page, except     *)
(* where an acknowledgement strayed; a post asks of the pinned mail; every  *)
(* card counts once and none is carried out twice (AskPanel.tsx,            *)
(* ProposalCard.tsx).                                                      *)
THEOREM AskAlwaysHolds == AskLimits => (SafeSpec => []AskHolds)
<1> SUFFICES ASSUME AskLimits PROVE SafeSpec => []AskHolds
  OBVIOUS
<1> DEFINE Kept == subject = "ask" => AskInv
<1>1. FirstSafe => Kept
  BY AskInit, FirstOfSubject
<1>2. Kept /\ [StepSafe]_safeVars => Kept'
  BY AskNext, StepOfSubject
<1>3. Kept => AskHolds
  BY AskInvHolds DEF AskHolds
<1> QED
  BY <1>1, <1>2, <1>3, PTL DEF SafeSpec
-----------------------------------------------------------------------------
(* The tasks page (TaskBoard).  Two tasks are there from the start, and    *)
(* one request is under way.                                               *)
BoardLimits ==
    /\ MaxTasks \in Nat /\ MaxTasks > 1 /\ MaxRequests \in Nat /\ MaxRequests > 0
    /\ BoardFaults \in Nat

GivenIds == 1 .. given

\* What a request has of a task, and its answer of ids.
PostRight(r) ==
    /\ r \in Board!Request /\ r.task \in GivenIds \cup {0} /\ DOMAIN r.got \subseteq GivenIds
    /\ r.task = 0 <=> r.kind \in {"load", "create"}
    /\ r.at # "answered" => DOMAIN r.got = {}
    /\ r.at = "answered" /\ r.kind \in {"set", "save"} => DOMAIN r.got = {r.task}
    /\ r.at = "answered" /\ r.kind = "create" => \E i \in GivenIds : DOMAIN r.got = {i}
    /\ r.by = "quick" => r.kind = "create"
    /\ r.by = "bulk" => r.kind \in {"set", "remove"}

IdsGiven ==
    /\ DOMAIN taskRows \subseteq GivenIds /\ DOMAIN listed \subseteq GivenIds
    /\ offered \subseteq GivenIds /\ bulk.left \subseteq GivenIds
    /\ modal.key \in GivenIds \cup {0}
    /\ bulk.left # {} => bulk.kind # "none"

\* A field that was not touched is as it was when the sheet was mounted.
FormRight == \A f \in {"done", "text"} : f \in modal.touched \/ modal.form[f] = modal.base[f]

LoadRight ==
    ~mixed => /\ (\A r \in posts : r.kind # "load") => loadedFor = filter /\ ~loading
              /\ \A r, q \in posts : r.kind = "load" /\ q.kind = "load" => r = q
              /\ \A r \in posts : r.kind = "load" => r.filter = filter

\* The filter asks for the task, and the list is told of it.
Due(i, m) == ~m /\ i \in DOMAIN taskRows \ unlisted /\ Board!Matches(filter, taskRows[i])
SameRow(d, i) == i \in DOMAIN d => i \in DOMAIN taskRows /\ d[i] = taskRows[i]

\* A bulk action has yet to come to the task.
Pending(i) == bulk.kind = "set" /\ i \in bulk.left

\* A row with the status d and the text t is what is wanted of the task, but
\* for what a bulk action has yet to do.
Like(i, d, t) == t = wanted[i].text /\ (Pending(i) \/ d = wanted[i].done)
AsWanted(i) == i \in DOMAIN taskRows \ stale => Like(i, taskRows[i].done, taskRows[i].text)

\* Nothing else is under way beside a request about the task.
AloneIn(i, P) ==
    \A r, q \in P : i \in Board!About(r) /\ (q.kind = "load" \/ i \in Board!About(q)) => q = r

\* What is sure of the task while the request r about it is on its way, with
\* the list T.
Promised(r, i, T, m) ==
    /\ r.at # "refused"
    /\ r.at = "sent" =>
         /\ SameRow(T, i) /\ (Due(i, m) => i \in DOMAIN T)
         /\ r.kind = "set" =>
              /\ i \in DOMAIN taskRows \ stale => Like(i, r.row.done, taskRows[i].text)
              /\ ~r.row.done => i \in DOMAIN T
         /\ r.kind = "save" /\ i \in DOMAIN taskRows \ stale =>
              Like(i, r.row.done, Board!Merged(r.row, taskRows[i]).text)
    /\ r.at = "answered" =>
         /\ r.kind = "remove" => i \notin DOMAIN taskRows
         /\ r.kind # "remove" => i \in DOMAIN taskRows /\ r.got[i] = taskRows[i] /\ AsWanted(i)
         /\ r.kind = "create" => i \notin DOMAIN T
         /\ r.kind = "set" /\ Due(i, m) => i \in DOMAIN T

AtRest(i, P, T, m) ==
    /\ SameRow(T, i) /\ AsWanted(i)
    /\ (\A r \in P : r.kind # "load") /\ Due(i, m) => i \in DOMAIN T

LoadsRight(i, P, m) ==
    \A r \in P : r.kind = "load" /\ r.at = "answered" =>
        SameRow(r.got, i) /\ (Due(i, m) => i \in DOMAIN r.got)

\* With the requests P, the list T, of which D is doubled, and loads mixed if m.
TaskOk(i, P, T, D, m) ==
    /\ AloneIn(i, P) /\ i \notin D
    /\ (\A r \in P : i \notin Board!About(r)) => AtRest(i, P, T, m)
    /\ \A r \in P : i \in Board!About(r) => Promised(r, i, T, m)
    /\ LoadsRight(i, P, m)

TaskRight(i) == i \notin overtaken => TaskOk(i, posts, listed, doubled, mixed)

PostsFormed == \A r \in posts : PostRight(r)
TasksRight == \A i \in Board!Tasks : TaskRight(i)

\* A bulk action that is not over has a request under way.
BulkAlive == bulk.left # {} => \E r \in posts : r.by = "bulk"

BoardInv ==
    /\ Board!TypeOK /\ IdsGiven /\ FormRight /\ LoadRight /\ PostsFormed /\ TasksRight
    /\ BulkAlive

LEMMA SameFields ==
  ASSUME NEW a \in Board!Row, NEW b \in Board!Row, a.done = b.done, a.text = b.text PROVE a = b
BY DEF Board!Row

LEMMA BoardInvHolds == ASSUME BoardLimits, BoardInv PROVE Board!BoardHolds
<1>1. Board!ListAgrees
  <2> SUFFICES ASSUME posts = {}, NEW i \in Board!Tasks, i \notin overtaken
               PROVE  /\ i \in DOMAIN listed =>
                           i \in DOMAIN taskRows /\ listed[i] = taskRows[i] /\ i \notin doubled
                      /\ i \in DOMAIN taskRows \ unlisted /\ Board!Matches(filter, taskRows[i])
                         /\ ~mixed => i \in DOMAIN listed
    BY DEF Board!ListAgrees, Board!Quiet
  <2>1. AtRest(i, posts, listed, mixed) /\ i \notin doubled
    BY DEF BoardInv, TasksRight, TaskRight, TaskOk
  <2> QED
    BY <2>1 DEF AtRest, SameRow, Due
<1>2. Board!ListIsOfFilter
  BY DEF Board!ListIsOfFilter, Board!Loads, BoardInv, LoadRight
<1>3. Board!TasksAreChosen
  <2> SUFFICES ASSUME posts = {}, NEW i \in DOMAIN taskRows \ (overtaken \cup stale)
               PROVE  taskRows[i] = wanted[i]
    BY DEF Board!TasksAreChosen, Board!Quiet
  <2>1. i \in Board!Tasks
    BY DEF BoardInv, Board!TypeOK, Board!Tables
  <2>2. AtRest(i, posts, listed, mixed)
    BY <2>1 DEF BoardInv, TasksRight, TaskRight, TaskOk
  <2>3. ~Pending(i)
    BY DEF BoardInv, BulkAlive, Pending
  <2>4. taskRows[i].done = wanted[i].done /\ taskRows[i].text = wanted[i].text
    BY <2>2, <2>3 DEF AtRest, AsWanted, Like
  <2>5. taskRows[i] \in Board!Row /\ wanted[i] \in Board!Row
    BY <2>1 DEF BoardInv, Board!TypeOK, Board!Tables
  <2> QED
    BY <2>4, <2>5, SameFields
<1> QED
  BY <1>1, <1>2, <1>3 DEF Board!BoardHolds, BoardInv

\* Tables are the functions on tasks.
LEMMA TablesAre ==
  ASSUME NEW S \in SUBSET Board!Tasks, NEW f \in [S -> Board!Row]
  PROVE  f \in Board!Tables
BY DEF Board!Tables

LEMMA TableParts ==
  ASSUME NEW f \in Board!Tables
  PROVE  DOMAIN f \subseteq Board!Tasks /\ f \in [DOMAIN f -> Board!Row]
BY DEF Board!Tables

LEMMA NoTable == << >> \in Board!Tables /\ DOMAIN << >> = {}
<1>1. << >> \in [{} -> Board!Row]
  OBVIOUS
<1> QED
  BY <1>1, TablesAre

\* The tasks a request is about.
LEMMA AboutIs ==
  ASSUME BoardLimits, given \in Nat, given <= MaxTasks, NEW r, PostRight(r)
  PROVE  /\ r.kind = "load" => Board!About(r) = {}
         /\ r.kind = "create" => Board!About(r) = DOMAIN r.got
         /\ r.kind \notin {"load", "create"} => Board!About(r) = {r.task} /\ r.task \in GivenIds
         /\ Board!About(r) \subseteq GivenIds
<1>1. GivenIds \subseteq Board!Tasks /\ 0 \notin Board!Tasks
  BY DEF GivenIds, Board!Tasks, BoardLimits
<1>2. r.task \in GivenIds \cup {0} /\ (r.task = 0 <=> r.kind \in {"load", "create"})
      /\ DOMAIN r.got \subseteq GivenIds
  BY DEF PostRight
<1>3. r.at # "answered" => DOMAIN r.got = {}
  BY DEF PostRight
<1> QED
  BY <1>1, <1>2, <1>3 DEF Board!About

LEMMA BoardInit == ASSUME BoardLimits, Board!Init PROVE BoardInv
<1>e. Board!Empty \in Board!Row
  BY DEF Board!Empty, Board!Row, Board!Texts
<1>t. Board!Tasks = 1 .. MaxTasks /\ 1 .. 2 \subseteq Board!Tasks
  BY DEF Board!Tasks, BoardLimits
<1>1. taskRows \in [1 .. 2 -> Board!Row]
  BY DEF Board!Init, Board!Row, Board!Texts
<1>2. taskRows \in Board!Tables /\ listed \in Board!Tables /\ DOMAIN listed = {}
  BY <1>t, <1>1, TablesAre, NoTable DEF Board!Init
<1>r. PICK r : posts = {r} /\ r = [n |-> 1, kind |-> "load", task |-> 0, row |-> Board!Empty,
                    filter |-> "ALL", by |-> "hand", at |-> "sent", got |-> << >>]
  BY DEF Board!Init, Board!New
<1>3. r \in Board!Request
  BY <1>r, <1>e, NoTable DEF Board!Request, Board!New, Board!Kinds, Board!Filters, BoardLimits
<1>4. Board!TypeOK
  <2>1. wanted \in [Board!Tasks -> Board!Row]
    BY <1>1, <1>e DEF Board!Init
  <2>2. modal \in [key : Board!Tasks \cup {Board!New}, open : BOOLEAN, form : Board!Row,
                   base : Board!Row, touched : SUBSET {"done", "text"}, saving : 0 .. MaxRequests]
    BY <1>e DEF Board!Init, Board!New, BoardLimits
  <2>3. bulk \in [kind : {"none", "set", "remove"}, left : SUBSET Board!Tasks]
    BY DEF Board!Init, Board!NoBulk
  <2>4. given \in 0 .. MaxTasks /\ numbered \in 0 .. MaxRequests /\ failed \in 0 .. BoardFaults
    BY DEF Board!Init, BoardLimits
  <2>5. /\ filter \in Board!Filters /\ loading \in BOOLEAN /\ loadedFor \in Board!Filters
        /\ mixed \in BOOLEAN /\ doubled = {} /\ offered = {} /\ overtaken = {} /\ unlisted = {}
        /\ stale = {}
    BY DEF Board!Init, Board!Filters
  <2> QED
    BY <1>2, <1>3, <1>r, <2>1, <2>2, <2>3, <2>4, <2>5 DEF Board!TypeOK
<1>5. IdsGiven /\ FormRight
  BY <1>1, <1>2 DEF Board!Init, IdsGiven, FormRight, GivenIds, Board!NoBulk, Board!New, Board!Empty
<1>6. LoadRight
  BY <1>r DEF Board!Init, LoadRight
<1>7. PostRight(r)
  BY <1>r, <1>3, NoTable DEF PostRight, Board!Init, GivenIds
<1>8. TasksRight
  <2> SUFFICES ASSUME NEW i \in Board!Tasks PROVE TaskOk(i, posts, listed, doubled, mixed)
    BY DEF TasksRight, TaskRight
  <2>1. Board!About(r) = {}
    BY <1>7, AboutIs, <1>r DEF Board!Init, BoardLimits
  <2>2. AsWanted(i)
    BY <1>1 DEF Board!Init, AsWanted, Like
  <2>3. i \notin DOMAIN listed /\ r.at = "sent" /\ doubled = {} /\ r.kind = "load"
    BY <1>r, <1>2 DEF Board!Init
  <2> QED
    BY <1>r, <2>1, <2>2, <2>3 DEF TaskOk, AloneIn, AtRest, LoadsRight, SameRow
<1>9. BulkAlive
  BY DEF Board!Init, BulkAlive, Board!NoBulk
<1> QED
  BY <1>r, <1>4, <1>5, <1>6, <1>7, <1>8, <1>9 DEF BoardInv, PostsFormed

TableTypes ==
    /\ taskRows \in Board!Tables /\ listed \in Board!Tables /\ given \in 0 .. MaxTasks
    /\ doubled \subseteq DOMAIN listed
ViewTypes ==
    /\ filter \in Board!Filters /\ loading \in BOOLEAN /\ offered \subseteq Board!Tasks
    /\ loadedFor \in Board!Filters /\ mixed \in BOOLEAN
BulkType == bulk \in [kind : {"none", "set", "remove"}, left : SUBSET Board!Tasks]
SheetType ==
    modal \in [key : Board!Tasks \cup {Board!New}, open : BOOLEAN, form : Board!Row, base : Board!Row,
               touched : SUBSET {"done", "text"}, saving : 0 .. MaxRequests]
PostTypes == posts \subseteq Board!Request /\ numbered \in 0 .. MaxRequests /\ failed \in 0 .. BoardFaults
PastTypes ==
    /\ overtaken \subseteq Board!Tasks /\ unlisted \subseteq Board!Tasks /\ stale \subseteq Board!Tasks
    /\ wanted \in [Board!Tasks -> Board!Row]

LEMMA BoardTypes ==
  Board!TypeOK <=> TableTypes /\ ViewTypes /\ BulkType /\ SheetType /\ PostTypes /\ PastTypes
BY DEF Board!TypeOK, TableTypes, ViewTypes, BulkType, SheetType, PostTypes, PastTypes

LEMMA BoardParts ==
  ASSUME BoardInv
  PROVE  TableTypes /\ ViewTypes /\ BulkType /\ SheetType /\ PostTypes /\ PastTypes
BY BoardTypes DEF BoardInv

LEMMA NextNumber ==
  ASSUME BoardLimits, PostTypes, numbered < MaxRequests
  PROVE  numbered + 1 \in 1 .. MaxRequests /\ numbered + 1 \in 0 .. MaxRequests
BY DEF BoardLimits, PostTypes

LEMMA GivenAreTasks ==
  ASSUME BoardLimits, TableTypes
  PROVE  /\ GivenIds \subseteq Board!Tasks /\ 0 \notin Board!Tasks /\ 0 \notin GivenIds
         /\ given \in Nat /\ given <= MaxTasks
BY DEF BoardLimits, TableTypes, GivenIds, Board!Tasks

LEMMA BoardTypesNext ==
  ASSUME TableTypes', ViewTypes', BulkType', SheetType', PostTypes', PastTypes'
  PROVE  Board!TypeOK'
BY DEF Board!TypeOK, TableTypes, ViewTypes, BulkType, SheetType, PostTypes, PastTypes

\* Steps after which the tasks and what is under way are as they were.
TasksStay ==
    /\ taskRows' = taskRows /\ given' = given /\ listed' = listed /\ doubled' = doubled
    /\ filter' = filter /\ posts' = posts /\ mixed' = mixed /\ overtaken' = overtaken
    /\ unlisted' = unlisted /\ wanted' = wanted /\ stale' = stale /\ bulk' = bulk

LEMMA TasksKept ==
  ASSUME BoardInv, TasksStay PROVE PostsFormed' /\ TasksRight' /\ TableTypes' /\ BulkAlive'
<1>1. PostsFormed'
  BY DEF BoardInv, PostsFormed, PostRight, TasksStay, GivenIds
<1>2. TasksRight'
  BY DEF BoardInv, TasksRight, TaskRight, TasksStay, TaskOk, AloneIn, AtRest, Promised, LoadsRight,
         SameRow, AsWanted, Due, Like, Pending
<1>3. BulkAlive'
  BY DEF BoardInv, BulkAlive, TasksStay
<1> QED
  BY <1>1, <1>2, <1>3, BoardTypes DEF TasksStay, TableTypes, BoardInv

\* The sheet.
SheetOnly ==
    /\ TasksStay /\ loading' = loading /\ offered' = offered
    /\ numbered' = numbered /\ failed' = failed /\ loadedFor' = loadedFor

LEMMA SheetMoves ==
  ASSUME BoardInv, SheetOnly, SheetType', FormRight', modal'.key \in GivenIds \cup {0}
  PROVE  BoardInv'
<1>1. ViewTypes' /\ BulkType' /\ PostTypes' /\ PastTypes'
  BY BoardTypes DEF SheetOnly, TasksStay, ViewTypes, BulkType, PostTypes, PastTypes, BoardInv
<1>2. IdsGiven' /\ LoadRight'
  BY DEF SheetOnly, TasksStay, IdsGiven, LoadRight, BoardInv, GivenIds
<1>3. SheetOnly => TasksStay
  BY DEF SheetOnly
<1> QED
  BY <1>1, <1>2, <1>3, TasksKept, BoardTypesNext DEF BoardInv

LEMMA OpensForm ==
  ASSUME BoardInv, NEW key \in GivenIds \cup {0}, NEW form \in Board!Row, Board!OpenForm(key, form),
         key \in Board!Tasks \cup {Board!New}, 0 \in 0 .. MaxRequests
  PROVE  SheetType' /\ FormRight' /\ modal'.key \in GivenIds \cup {0}
<1>t. SheetType
  BY BoardTypes DEF BoardInv
<1>1. CASE key = modal.key
  <2>1. modal' = [modal EXCEPT !.open = TRUE]
    BY <1>1 DEF Board!OpenForm
  <2> QED
    BY <1>1, <1>t, <2>1 DEF SheetType, FormRight, BoardInv
<1>2. CASE key # modal.key
  <2>1. modal' = [key |-> key, open |-> TRUE, form |-> form, base |-> form, touched |-> {}, saving |-> 0]
    BY <1>2 DEF Board!OpenForm
  <2> QED
    BY <2>1 DEF SheetType, FormRight
<1> QED
  BY <1>1, <1>2

LEMMA BoardSheet ==
  ASSUME BoardLimits, BoardInv,
         \/ \E i \in Board!Tasks : Board!OpenEdit(i)
         \/ Board!OpenCreate \/ Board!EditForm \/ Board!CloseModal
  PROVE  BoardInv'
<1>t. SheetType /\ TableTypes
  BY BoardTypes DEF BoardInv
<1>u. UNCHANGED <<Board!table, Board!list, Board!view, Board!picks, Board!calls, Board!hist>>
  BY DEF Board!OpenEdit, Board!OpenCreate, Board!EditForm, Board!CloseModal
<1>s. SheetOnly
  BY <1>u DEF SheetOnly, TasksStay, Board!table, Board!list, Board!view, Board!picks, Board!calls,
              Board!hist
<1>z. 0 \in 0 .. MaxRequests
  BY DEF BoardLimits
<1>1. CASE \E i \in Board!Tasks : Board!OpenEdit(i)
  <2>1. PICK i \in Board!Tasks : Board!OpenEdit(i)
    BY <1>1
  <2>2. i \in DOMAIN listed /\ Board!OpenForm(i, listed[i])
    BY <2>1 DEF Board!OpenEdit, Board!Listed
  <2>3. i \in GivenIds /\ listed[i] \in Board!Row
    BY <2>2, <1>t, TableParts DEF BoardInv, IdsGiven, TableTypes
  <2> QED
    BY <2>2, <2>3, <1>s, <1>z, OpensForm, SheetMoves
<1>2. CASE Board!OpenCreate
  <2>1. Board!OpenForm(0, Board!Empty)
    BY <1>2 DEF Board!OpenCreate, Board!New
  <2>2. Board!Empty \in Board!Row /\ 0 \in Board!Tasks \cup {Board!New}
    BY DEF Board!Empty, Board!Row, Board!New, Board!Texts
  <2> QED
    BY <2>1, <2>2, <1>s, <1>z, OpensForm, SheetMoves
<1>3. CASE Board!EditForm
  <2>1. \/ modal' = [modal EXCEPT !.form.done = ~@, !.touched = @ \cup {"done"}]
        \/ \E text \in {"", "second"} :
              modal' = [modal EXCEPT !.form.text = text, !.touched = @ \cup {"text"}]
    BY <1>3 DEF Board!EditForm
  <2>3. CASE modal' = [modal EXCEPT !.form.done = ~@, !.touched = @ \cup {"done"}]
    <3>1. (~modal.form.done) \in BOOLEAN
      BY Zenon
    <3>2. SheetType'
      BY <1>t, <2>3, <3>1 DEF SheetType, Board!Row
    <3>3. FormRight' /\ modal'.key = modal.key
      BY <1>t, <2>3 DEF SheetType, FormRight, BoardInv, Board!Row
    <3> QED
      BY <3>2, <3>3, <1>s, SheetMoves DEF BoardInv, IdsGiven
  <2>4. CASE \E text \in {"", "second"} :
               modal' = [modal EXCEPT !.form.text = text, !.touched = @ \cup {"text"}]
    <3>0. PICK text \in {"", "second"} :
               modal' = [modal EXCEPT !.form.text = text, !.touched = @ \cup {"text"}]
      BY <2>4
    <3>1. SheetType'
      BY <1>t, <3>0 DEF SheetType, Board!Row, Board!Texts
    <3>2. FormRight' /\ modal'.key = modal.key
      BY <1>t, <3>0 DEF SheetType, FormRight, BoardInv, Board!Row
    <3> QED
      BY <3>1, <3>2, <1>s, SheetMoves DEF BoardInv, IdsGiven
  <2> QED
    BY <2>1, <2>3, <2>4
<1>4. CASE Board!CloseModal
  <2>1. modal' = [modal EXCEPT !.open = FALSE]
    BY <1>4 DEF Board!CloseModal
  <2>2. SheetType' /\ FormRight' /\ modal'.key \in GivenIds \cup {0}
    BY <1>t, <2>1 DEF SheetType, FormRight, BoardInv, IdsGiven
  <2> QED
    BY <2>2, <1>s, SheetMoves
<1> QED
  BY <1>1, <1>2, <1>3, <1>4

\* What is wanted of a task stays, but for what a bulk action takes up.
WantStays(i) ==
    /\ wanted'[i].text = wanted[i].text /\ (Pending(i) => Pending(i)')
    /\ Pending(i)' \/ wanted'[i].done = wanted[i].done

\* What is wanted of the task after q was sent, with the list T.
WantFor(i, q, T) ==
    /\ i \notin Board!About(q) => WantStays(i) /\ (i \in stale' <=> i \in stale)
    /\ i \in Board!About(q) =>
        /\ i \in stale => i \in stale'
        /\ q.kind = "set" /\ ~q.row.done => i \in DOMAIN T
        /\ q.kind = "set" /\ i \notin stale' => (Pending(i)' \/ q.row.done = wanted'[i].done)
        /\ q.kind = "set" => wanted'[i].text = wanted[i].text
        /\ q.kind = "save" /\ i \notin stale' =>
             /\ Pending(i)' \/ q.row.done = wanted'[i].done
             /\ wanted'[i].text = Board!Merged(q.row, wanted[i]).text

\* Sending a write beside the requests R, with the list as it is by then.
LEMMA SentRight ==
  ASSUME BoardLimits, BoardInv, NEW R \in SUBSET posts, NEW q, PostRight(q), q.kind # "load",
         q.at = "sent", Board!SendsBeside(R, q), NEW i \in Board!Tasks, i \notin overtaken',
         taskRows' = taskRows, filter' = filter, unlisted' = unlisted,
         TaskOk(i, R, listed', doubled', mixed'),
         WantFor(i, q, listed')
  PROVE  TaskOk(i, posts, listed, doubled, mixed)'
<1>1. posts' = R \cup {q}
  BY DEF Board!SendsBeside
<1>2. i \in Board!About(q) => \A r \in R : r.kind # "load" /\ i \notin Board!About(r)
  BY DEF Board!SendsBeside
<1>3. AloneIn(i, R) /\ i \notin doubled' /\ LoadsRight(i, R, mixed')
  BY DEF TaskOk
<1>4. AloneIn(i, posts')
  BY <1>1, <1>2, <1>3 DEF AloneIn
<1>5. LoadsRight(i, posts, mixed)'
  BY <1>1, <1>3 DEF LoadsRight, SameRow, Due
<1>6. CASE i \notin Board!About(q)
  <2>0. /\ \A d, t : Like(i, d, t) => Like(i, d, t)'
        /\ i \in stale' <=> i \in stale
    BY <1>6 DEF WantFor, WantStays, Like
  <2>1. (\A r \in posts' : i \notin Board!About(r)) => AtRest(i, posts, listed, mixed)'
    BY <1>1, <1>6, <2>0 DEF TaskOk, AtRest, SameRow, Due, AsWanted
  <2>2. \A r \in posts' : i \in Board!About(r) => Promised(r, i, listed, mixed)'
    BY <1>1, <1>6, <2>0 DEF TaskOk, Promised, SameRow, Due, AsWanted
  <2> QED
    BY <1>3, <1>4, <1>5, <2>1, <2>2 DEF TaskOk, AloneIn
<1>7. CASE i \in Board!About(q)
  <2>1. AtRest(i, R, listed', mixed')
    BY <1>2, <1>7 DEF TaskOk
  <2>2. SameRow(listed', i) /\ AsWanted(i) /\ (Due(i, mixed') => i \in DOMAIN listed')
    BY <1>2, <1>7, <2>1 DEF AtRest
  <2>3. Promised(q, i, listed, mixed)'
    BY <2>2, <1>7 DEF Promised, SameRow, Due, AsWanted, WantFor, Like, Board!Merged
  <2>4. \A r \in posts' : i \in Board!About(r) => r = q
    BY <1>1, <1>2, <1>7
  <2> QED
    BY <1>1, <1>3, <1>4, <1>5, <1>7, <2>3, <2>4 DEF TaskOk, AloneIn
<1> QED
  BY <1>6, <1>7

\* A request as the page sends it.
Posted(kind, i, data, f, b) ==
    [n |-> numbered + 1, kind |-> kind, task |-> i, row |-> data, filter |-> f,
     by |-> b, at |-> "sent", got |-> << >>]

LEMMA AskBy ==
  ASSUME NEW kind, NEW i, NEW data, NEW b
  PROVE  [Board!Ask(kind, i, data) EXCEPT !.by = b] = Posted(kind, i, data, filter, b)
BY DEF Board!Ask, Posted

LEMMA PostedRight ==
  ASSUME BoardLimits, BoardInv, numbered < MaxRequests, NEW kind \in Board!Kinds,
         NEW i \in GivenIds \cup {0}, i = 0 <=> kind \in {"load", "create"}, NEW data \in Board!Row,
         NEW f \in Board!Filters, NEW b \in {"hand", "quick", "bulk"},
         b = "bulk" => kind \in {"set", "remove"}, b = "quick" => kind = "create"
  PROVE  PostRight(Posted(kind, i, data, f, b))
<1> DEFINE q == Posted(kind, i, data, f, b)
<1>1. numbered + 1 \in 1 .. MaxRequests
  BY BoardParts, NextNumber
<1>2. i \in Board!Tasks \cup {Board!New}
  BY BoardParts, GivenAreTasks DEF Board!New
<1>3. q \in Board!Request
  BY <1>1, <1>2, NoTable DEF Posted, Board!Request
<1> QED
  BY <1>3, NoTable DEF Posted, PostRight

LEMMA PostsSent ==
  ASSUME BoardLimits, BoardInv, NEW R \in SUBSET posts, NEW q, PostRight(q), Board!SendsBeside(R, q),
         failed' = failed, given' = given
  PROVE  PostTypes' /\ PostsFormed' /\ overtaken' \subseteq Board!Tasks /\ overtaken \subseteq overtaken'
<1>1. numbered' = numbered + 1 /\ numbered < MaxRequests /\ posts' = R \cup {q}
  BY DEF Board!SendsBeside
<1>2. PostTypes'
  BY <1>1, BoardParts, NextNumber DEF PostTypes, PostRight
<1>3. PostsFormed'
  BY <1>1 DEF PostsFormed, BoardInv, PostRight, GivenIds
<1>4. overtaken' \subseteq Board!Tasks /\ overtaken \subseteq overtaken'
  <2>1. overtaken \subseteq Board!Tasks
    BY BoardParts DEF BoardInv, PastTypes
  <2>2. \A r : Board!About(r) \subseteq Board!Tasks
    BY DEF Board!About
  <2> QED
    BY <2>1, <2>2 DEF Board!SendsBeside
<1> QED
  BY <1>2, <1>3, <1>4

LEMMA AboutPost ==
  ASSUME BoardLimits, BoardInv, NEW r, PostRight(r)
  PROVE  /\ r.kind = "load" => Board!About(r) = {}
         /\ r.kind = "create" => Board!About(r) = DOMAIN r.got
         /\ r.kind \notin {"load", "create"} => Board!About(r) = {r.task} /\ r.task \in GivenIds
         /\ Board!About(r) \subseteq GivenIds
<1>1. given \in Nat /\ given <= MaxTasks
  BY BoardParts, GivenAreTasks
<1> QED
  BY <1>1, AboutIs

\* What is wanted of the tasks after q was sent.
WantsOf(q, T) == \A i \in Board!Tasks : WantFor(i, q, T)

\* What the user changes while the table, the list and the filter stay.
PageStays ==
    /\ taskRows' = taskRows /\ given' = given /\ listed' = listed /\ doubled' = doubled
    /\ filter' = filter /\ loading' = loading /\ offered' = offered /\ loadedFor' = loadedFor
    /\ mixed' = mixed /\ unlisted' = unlisted /\ failed' = failed

BulkRight == bulk.left \subseteq GivenIds /\ (bulk.left # {} => bulk.kind # "none")
SheetRight == SheetType /\ FormRight /\ modal.key \in GivenIds \cup {0}
WantTypes == stale \subseteq Board!Tasks /\ wanted \in [Board!Tasks -> Board!Row]

LEMMA WriteSent ==
  ASSUME BoardLimits, BoardInv, NEW q, PostRight(q), q.kind # "load", q.at = "sent",
         Board!Sends(q), PageStays, WantsOf(q, listed), WantTypes', BulkType', BulkRight', SheetRight',
         bulk' = bulk \/ q.by = "bulk"
  PROVE  BoardInv'
<1>s. Board!SendsBeside(posts, q) /\ posts' = posts \cup {q}
  BY DEF Board!Sends, Board!SendsBeside
<1>1. PostTypes' /\ PostsFormed' /\ overtaken' \subseteq Board!Tasks /\ overtaken \subseteq overtaken'
  BY <1>s, PostsSent DEF PageStays
<1>2. TableTypes' /\ ViewTypes' /\ PastTypes'
  BY <1>1, BoardParts DEF PageStays, TableTypes, ViewTypes, PastTypes, BoardInv, WantTypes
<1>3. IdsGiven'
  BY DEF IdsGiven, PageStays, BoardInv, BulkRight, SheetRight, GivenIds
<1>4. LoadRight'
  BY <1>s DEF LoadRight, PageStays, BoardInv
<1>5. TasksRight'
  <2> SUFFICES ASSUME NEW i \in Board!Tasks, i \notin overtaken'
               PROVE TaskOk(i, posts, listed, doubled, mixed)'
    BY DEF TasksRight, TaskRight, Board!Tasks
  <2>1. TaskOk(i, posts, listed, doubled, mixed)
    BY <1>1 DEF BoardInv, TasksRight, TaskRight
  <2>2. TaskOk(i, posts, listed', doubled', mixed')
    BY <2>1 DEF PageStays
  <2> QED
    BY <1>s, <2>2, SentRight DEF PageStays, WantsOf
<1>6. BulkAlive'
  BY <1>s DEF BulkAlive, BoardInv
<1> QED
  BY <1>1, <1>2, <1>3, <1>4, <1>5, <1>6, BoardTypesNext DEF BoardInv, SheetRight

LEMMA QuietPage ==
  ASSUME BoardInv, bulk' = bulk, modal' = modal, given' = given
  PROVE  BulkType' /\ BulkRight' /\ SheetRight'
BY BoardParts DEF BoardInv, BulkType, BulkRight, SheetRight, SheetType, FormRight, IdsGiven, GivenIds

LEMMA PageMeans ==
  ASSUME UNCHANGED <<Board!table, Board!list, Board!view, failed, loadedFor, mixed, unlisted>>,
         offered' = offered
  PROVE  PageStays
BY DEF PageStays, Board!table, Board!list, Board!view

LEMMA BoardToggle ==
  ASSUME BoardLimits, BoardInv, NEW i \in Board!Tasks, Board!Toggle(i) PROVE BoardInv'
<1> DEFINE new == [listed[i] EXCEPT !.done = ~@]
           q == Posted("set", i, new, filter, "hand")
<1>1. /\ i \in DOMAIN listed /\ Board!Sends(q)
      /\ wanted' = [wanted EXCEPT ![i].done = new.done]
  BY DEF Board!Toggle, Board!Listed, Board!Ask, Posted
<1>2. /\ bulk' = bulk /\ offered' = offered /\ modal' = modal /\ stale' = stale
      /\ UNCHANGED <<Board!table, Board!list, Board!view, failed, loadedFor, mixed, unlisted>>
  BY DEF Board!Toggle, Board!picks
<1>3. PageStays
  BY <1>2, PageMeans
<1>4. i \in GivenIds /\ i # 0 /\ listed[i] \in Board!Row
  BY <1>1, BoardParts, TableParts, GivenAreTasks DEF BoardInv, IdsGiven, TableTypes
<1>5. new \in Board!Row
  <2>1. (~listed[i].done) \in BOOLEAN
    BY Zenon
  <2> QED
    BY <1>4, <2>1 DEF Board!Row
<1>6. PostRight(q)
  <2>1. numbered < MaxRequests /\ filter \in Board!Filters
    BY <1>1, BoardParts DEF Board!Sends, Board!SendsBeside, BoardInv, ViewTypes
  <2> HIDE DEF new
  <2> QED
    BY <2>1, <1>4, <1>5, PostedRight DEF Board!Kinds
<1>7. q.kind = "set" /\ q.at = "sent" /\ q.row = new /\ q.task = i
  BY DEF Posted
<1>8. wanted \in [Board!Tasks -> Board!Row] /\ stale \subseteq Board!Tasks
  BY BoardParts DEF BoardInv, PastTypes
<1> HIDE DEF q, new
<1>9. Board!About(q) = {i}
  BY <1>6, <1>7, AboutPost
<1>10. WantsOf(q, listed)
  BY <1>1, <1>2, <1>5, <1>7, <1>8, <1>9 DEF WantsOf, WantFor, WantStays, Pending, Board!Row
<1>11. WantTypes'
  BY <1>1, <1>2, <1>5, <1>8 DEF WantTypes, Board!Row
<1> QED
  BY <1>1, <1>2, <1>3, <1>6, <1>7, <1>10, <1>11, QuietPage, WriteSent DEF PageStays

LEMMA BoardDelete ==
  ASSUME BoardLimits, BoardInv, NEW i \in Board!Tasks, Board!Delete(i) PROVE BoardInv'
<1> DEFINE q == Posted("remove", i, Board!Empty, filter, "hand")
<1>1. i \in DOMAIN listed /\ Board!Sends(q)
  BY DEF Board!Delete, Board!Listed, Board!Ask, Posted
<1>2. /\ bulk' = bulk /\ offered' = offered /\ modal' = modal /\ stale' = stale /\ wanted' = wanted
      /\ UNCHANGED <<Board!table, Board!list, Board!view, failed, loadedFor, mixed, unlisted>>
  BY DEF Board!Delete, Board!picks
<1>3. PageStays
  BY <1>2, PageMeans
<1>4. i \in GivenIds /\ i # 0
  BY <1>1, BoardParts, GivenAreTasks DEF BoardInv, IdsGiven
<1>5. PostRight(q)
  <2>1. numbered < MaxRequests /\ filter \in Board!Filters /\ Board!Empty \in Board!Row
    BY <1>1, BoardParts DEF Board!Sends, Board!SendsBeside, BoardInv, ViewTypes, Board!Empty, Board!Row,
                         Board!Texts
  <2> QED
    BY <2>1, <1>4, PostedRight DEF Board!Kinds
<1>6. q.kind = "remove" /\ q.at = "sent"
  BY DEF Posted
<1>7. WantTypes' /\ WantsOf(q, listed)
  BY <1>2, <1>6, BoardParts DEF BoardInv, PastTypes, WantTypes, WantsOf, WantFor, WantStays, Pending
<1> HIDE DEF q
<1> QED
  BY <1>1, <1>2, <1>3, <1>5, <1>6, <1>7, QuietPage, WriteSent DEF PageStays

LEMMA BoardQuickAdd == ASSUME BoardLimits, BoardInv, Board!QuickAdd PROVE BoardInv'
<1> DEFINE q == Posted("create", 0, Board!Empty, filter, "quick")
<1>1. Board!Sends(q)
  <2>1. \A i, data : [Board!Ask("create", i, data) EXCEPT !.by = "quick"]
                       = Posted("create", i, data, filter, "quick")
    BY DEF Board!Ask, Posted
  <2>2. Board!New = 0
    BY DEF Board!New
  <2> QED
    BY <2>1, <2>2, Zenon DEF Board!QuickAdd
<1>2. /\ bulk' = bulk /\ offered' = offered /\ modal' = modal /\ stale' = stale /\ wanted' = wanted
      /\ UNCHANGED <<Board!table, Board!list, Board!view, failed, loadedFor, mixed, unlisted>>
  BY DEF Board!QuickAdd, Board!picks
<1>3. PageStays
  BY <1>2, PageMeans
<1>5. PostRight(q)
  <2>1. numbered < MaxRequests /\ filter \in Board!Filters /\ Board!Empty \in Board!Row
    BY <1>1, BoardParts DEF Board!Sends, Board!SendsBeside, BoardInv, ViewTypes, Board!Empty, Board!Row,
                         Board!Texts
  <2> QED
    BY <2>1, PostedRight DEF Board!Kinds
<1>6. q.kind = "create" /\ q.at = "sent"
  BY DEF Posted
<1>7. WantTypes' /\ WantsOf(q, listed)
  BY <1>2, <1>6, BoardParts DEF BoardInv, PastTypes, WantTypes, WantsOf, WantFor, WantStays, Pending
<1> HIDE DEF q
<1> QED
  BY <1>1, <1>2, <1>3, <1>5, <1>6, <1>7, QuietPage, WriteSent DEF PageStays

\* One request of a bulk action.
BulkPosted(R, kind, i, left) ==
    \E q : /\ PostRight(q) /\ q.kind = kind /\ q.task = i /\ q.at = "sent" /\ q.by = "bulk"
           /\ Board!SendsBeside(R, q)
           /\ q.row = Board!Done
           /\ stale' = stale \cup IF kind = "set" /\ ~wanted'[i].done THEN {i} ELSE {}
           /\ bulk' = [kind |-> kind, left |-> left \ {i}]
           /\ given' = given => BulkType' /\ BulkRight'

LEMMA BulkPost ==
  ASSUME BoardLimits, BoardInv, NEW R, NEW kind \in {"set", "remove"}, NEW left \in SUBSET GivenIds,
         NEW i \in left, Board!BulkRequest(R, kind, i, left)
  PROVE  BulkPosted(R, kind, i, left)
<1> DEFINE q == Posted(kind, i, Board!Done, filter, "bulk")
<1>1. Board!SendsBeside(R, q) /\ numbered < MaxRequests
  <2>1. [Board!Ask(kind, i, Board!Done) EXCEPT !.by = "bulk"] = q
    BY AskBy
  <2> QED
    BY <2>1 DEF Board!BulkRequest, Board!SendsBeside
<1>2. Board!Done \in Board!Row
  BY DEF Board!Done, Board!Row, Board!Texts
<1>3. i \in GivenIds /\ i # 0 /\ left \subseteq Board!Tasks
  BY BoardParts, GivenAreTasks
<1>4. PostRight(q)
  <2>1. filter \in Board!Filters
    BY BoardParts DEF ViewTypes
  <2> QED
    BY <1>1, <1>2, <1>3, <2>1, PostedRight DEF Board!Kinds
<1>5. q.kind = kind /\ q.task = i /\ q.at = "sent" /\ q.row = Board!Done /\ q.by = "bulk"
  BY DEF Posted
<1>6. /\ bulk' = [kind |-> kind, left |-> left \ {i}]
      /\ stale' = stale \cup IF kind = "set" /\ ~wanted'[i].done THEN {i} ELSE {}
  BY DEF Board!BulkRequest
<1>7. given' = given => BulkType' /\ BulkRight'
  BY <1>3, <1>6 DEF BulkType, BulkRight, GivenIds
<1> HIDE DEF q
<1> QED
  BY <1>1, <1>4, <1>5, <1>6, <1>7 DEF BulkPosted

\* What a bulk action has yet to do stays so, but for the task it comes to.
LEMMA BulkWants ==
  ASSUME BoardLimits, BoardInv, NEW kind \in {"set", "remove"}, NEW left, NEW i \in Board!Tasks,
         NEW q, PostRight(q), q.kind = kind, q.task = i, NEW T, q.row = Board!Done,
         bulk' = [kind |-> kind, left |-> left \ {i}],
         stale' = stale \cup IF kind = "set" /\ ~wanted'[i].done THEN {i} ELSE {},
         wanted' \in [Board!Tasks -> Board!Row],
         \A j \in Board!Tasks : wanted'[j].text = wanted[j].text,
         \A j \in Board!Tasks : Pending(j) => kind = "set" /\ j \in left,
         \A j \in Board!Tasks : (kind = "set" /\ j \in left) \/ wanted'[j].done = wanted[j].done
  PROVE  WantsOf(q, T)
<1>1. Board!About(q) = {i}
  BY AboutPost
<1>2. Board!Done.done = TRUE
  BY DEF Board!Done
<1>3. wanted'[i].done \in BOOLEAN
  BY DEF Board!Row
<1>4. \A j \in Board!Tasks \ {i} : Pending(j)' <=> kind = "set" /\ j \in left
  BY DEF Pending
<1>5. SUFFICES ASSUME NEW j \in Board!Tasks PROVE WantFor(j, q, T)
  BY DEF WantsOf
<1>6. CASE j # i
  BY <1>1, <1>4, <1>6 DEF WantFor, WantStays
<1>7. CASE j = i
  BY <1>1, <1>2, <1>3, <1>7 DEF WantFor
<1> QED
  BY <1>6, <1>7

LEMMA BoardStartBulk ==
  ASSUME BoardLimits, BoardInv, NEW kind \in {"set", "remove"}, Board!StartBulk(kind) PROVE BoardInv'
<1>1. /\ offered' = offered /\ modal' = modal /\ bulk.kind = "none"
      /\ UNCHANGED <<Board!table, Board!list, Board!view, failed, loadedFor, mixed, unlisted>>
  BY DEF Board!StartBulk
<1>2. PageStays
  BY <1>1, PageMeans
<1>3. PICK selectedIds \in SUBSET offered :
        /\ wanted' = [i \in Board!Tasks |->
              IF kind = "set" /\ i \in selectedIds
              THEN [wanted[i] EXCEPT !.done = Board!Done.done] ELSE wanted[i]]
        /\ \E i \in selectedIds : Board!BulkRequest(posts, kind, i, selectedIds)
  BY DEF Board!StartBulk
<1>4. PICK i \in selectedIds : Board!BulkRequest(posts, kind, i, selectedIds)
  BY <1>3
<1>5. selectedIds \in SUBSET GivenIds /\ i \in Board!Tasks
  BY <1>3, BoardParts DEF BoardInv, IdsGiven, ViewTypes
<1>p. BulkPosted(posts, kind, i, selectedIds)
  BY <1>4, <1>5, BulkPost
<1>6. PICK q : /\ PostRight(q) /\ q.kind = kind /\ q.task = i /\ q.at = "sent" /\ q.by = "bulk"
               /\ Board!SendsBeside(posts, q)
               /\ q.row = Board!Done
               /\ stale' = stale \cup IF kind = "set" /\ ~wanted'[i].done THEN {i} ELSE {}
               /\ bulk' = [kind |-> kind, left |-> selectedIds \ {i}]
               /\ given' = given => BulkType' /\ BulkRight'
  BY <1>p, Zenon DEF BulkPosted
<1>7. \A j \in Board!Tasks : /\ wanted'[j] \in Board!Row /\ wanted'[j].text = wanted[j].text
                             /\ (kind = "set" /\ j \in selectedIds) \/ wanted'[j].done = wanted[j].done
  <2> SUFFICES ASSUME NEW j \in Board!Tasks
               PROVE  /\ wanted'[j] \in Board!Row /\ wanted'[j].text = wanted[j].text
                      /\ (kind = "set" /\ j \in selectedIds) \/ wanted'[j].done = wanted[j].done
    OBVIOUS
  <2>1. wanted[j] \in Board!Row
    BY BoardParts DEF PastTypes
  <2>2. CASE kind = "set" /\ j \in selectedIds
    <3>1. wanted'[j] = [wanted[j] EXCEPT !.done = Board!Done.done] /\ Board!Done.done = TRUE
      BY <1>3, <2>2 DEF Board!Done
    <3> QED
      BY <2>1, <2>2, <3>1 DEF Board!Row
  <2>3. CASE ~(kind = "set" /\ j \in selectedIds)
    BY <1>3, <2>1, <2>3
  <2> QED
    BY <2>2, <2>3
<1>8. wanted' \in [Board!Tasks -> Board!Row]
  BY <1>3, <1>7
<1>9. \A j \in Board!Tasks : ~Pending(j)
  BY <1>1 DEF Pending
<1>10. WantsOf(q, listed)
  BY <1>5, <1>6, <1>7, <1>8, <1>9, BulkWants
<1>11. WantTypes'
  BY <1>5, <1>6, <1>8, BoardParts DEF WantTypes, PastTypes
<1>12. SheetRight'
  BY <1>1, <1>2, BoardParts DEF PageStays, SheetRight, SheetType, FormRight, BoardInv, IdsGiven, GivenIds
<1> QED
  BY <1>2, <1>6, <1>10, <1>11, <1>12, WriteSent DEF PageStays, Board!Sends

LEMMA BoardSave == ASSUME BoardLimits, BoardInv, Board!Save PROVE BoardInv'
<1>1. /\ offered' = offered /\ bulk' = bulk
      /\ UNCHANGED <<Board!table, Board!list, Board!view, failed, loadedFor, mixed, unlisted>>
  BY DEF Board!Save, Board!picks
<1>2. PageStays
  BY <1>1, PageMeans
<1>3. modal' = [modal EXCEPT !.saving = numbered + 1]
  BY DEF Board!Save
<1>4. BulkType' /\ BulkRight'
  BY <1>1, <1>2, BoardParts DEF BoardInv, BulkType, BulkRight, IdsGiven, GivenIds, PageStays
<1>t. SheetType /\ modal.form \in Board!Row /\ filter \in Board!Filters /\ WantTypes
  BY BoardParts DEF SheetType, ViewTypes, PastTypes, WantTypes
<1>5. numbered < MaxRequests => SheetRight'
  <2> SUFFICES ASSUME numbered < MaxRequests PROVE SheetRight'
    OBVIOUS
  <2>1. numbered + 1 \in 0 .. MaxRequests
    BY BoardParts, NextNumber
  <2>2. SheetType'
    BY <1>3, <1>t, <2>1 DEF SheetType
  <2>3. FormRight' /\ modal'.key = modal.key
    BY <1>3, <1>t DEF SheetType, FormRight, BoardInv
  <2> QED
    BY <2>2, <2>3, <1>2 DEF SheetRight, BoardInv, IdsGiven, PageStays, GivenIds
<1>6. CASE modal.key = 0
  <2> DEFINE q == Posted("create", 0, modal.form, filter, "hand")
  <2>1. Board!Sends(q) /\ wanted' = wanted /\ stale' = stale
    BY <1>6 DEF Board!Save, Board!Ask, Posted, Board!New
  <2>2. numbered < MaxRequests
    BY <2>1 DEF Board!Sends, Board!SendsBeside
  <2>3. PostRight(q)
    BY <1>t, <2>2, PostedRight DEF Board!Kinds
  <2>4. q.kind = "create" /\ q.at = "sent"
    BY DEF Posted
  <2>5. WantTypes' /\ WantsOf(q, listed)
    BY <1>1, <2>1, <2>4, <1>t DEF WantTypes, WantsOf, WantFor, WantStays, Pending
  <2> HIDE DEF q
  <2> QED
    BY <1>1, <1>2, <1>4, <1>5, <2>1, <2>2, <2>3, <2>4, <2>5, WriteSent
<1>7. CASE modal.key # 0
  <2> DEFINE i == modal.key
             q == Posted("save", i, modal.form, filter, "hand")
             want == [f \in DOMAIN wanted[i] |->
                        IF f \in modal.touched \cap Board!Carried THEN modal.form[f] ELSE wanted[i][f]]
  <2>1. /\ Board!Sends(q)
        /\ wanted' = [wanted EXCEPT ![i] = want]
        /\ stale' = stale \cup IF \E f \in Board!Carried : Board!Older(f, wanted[i]) THEN {i} ELSE {}
    BY <1>7 DEF Board!Save, Board!Ask, Posted, Board!New
  <2>2. numbered < MaxRequests
    BY <2>1 DEF Board!Sends, Board!SendsBeside
  <2>3. i \in GivenIds /\ i \in Board!Tasks /\ i # 0
    BY <1>7, <1>t DEF BoardInv, IdsGiven, SheetType, Board!New
  <2>4. PostRight(q)
    BY <1>t, <2>2, <2>3, PostedRight DEF Board!Kinds
  <2>5. q.kind = "save" /\ q.at = "sent" /\ q.row = modal.form /\ q.task = i
    BY DEF Posted
  <2>6. /\ want \in Board!Row
        /\ want.done = IF "done" \in modal.touched THEN modal.form.done ELSE wanted[i].done
        /\ want.text = IF "text" \in modal.touched /\ modal.form.text # ""
                       THEN modal.form.text ELSE wanted[i].text
    <3>1. wanted[i] \in Board!Row
      BY <1>t, <2>3 DEF WantTypes
    <3>2. "done" \in Board!Carried /\ ("text" \in Board!Carried <=> modal.form.text # "")
      BY DEF Board!Carried
    <3>3. DOMAIN wanted[i] = {"done", "text"}
      BY <3>1 DEF Board!Row
    <3>4. \A f \in {"done", "text"} :
             want[f] = IF f \in modal.touched \cap Board!Carried THEN modal.form[f] ELSE wanted[i][f]
      BY <3>3
    <3>5. /\ want["done"] = IF "done" \in modal.touched THEN modal.form["done"] ELSE wanted[i]["done"]
          /\ want["text"] = IF "text" \in modal.touched /\ modal.form.text # ""
                            THEN modal.form["text"] ELSE wanted[i]["text"]
      BY <3>2, <3>4
    <3>6. want = [done |-> want["done"], text |-> want["text"]]
      BY <3>3
    <3>7. want["done"] \in BOOLEAN /\ want["text"] \in Board!Texts
      BY <1>t, <3>1, <3>5 DEF Board!Row
    <3> HIDE DEF want
    <3> QED
      BY <3>5, <3>6, <3>7 DEF Board!Row
  <2>7. i \notin stale' => /\ want.done = modal.form.done
                          /\ want.text = Board!Merged(modal.form, wanted[i]).text
    <3>1. SUFFICES ASSUME i \notin stale'
                   PROVE  /\ want.done = modal.form.done
                          /\ want.text = Board!Merged(modal.form, wanted[i]).text
      OBVIOUS
    <3>2. \A f \in Board!Carried : ~Board!Older(f, wanted[i])
      BY <2>1, <3>1
    <3>3. \A f \in Board!Carried \cap {"done", "text"} :
             f \in modal.touched \/ modal.form[f] = wanted[i][f]
      BY <3>2 DEF Board!Older, BoardInv, FormRight
    <3>4. "done" \in Board!Carried /\ (modal.form.text # "" => "text" \in Board!Carried)
      BY DEF Board!Carried
    <3> QED
      BY <2>6, <3>3, <3>4 DEF Board!Merged
  <2> HIDE DEF q, want
  <2>8. Board!About(q) = {i}
    BY <2>4, <2>5, AboutPost
  <2>9. wanted'[i] = want /\ \A j \in Board!Tasks \ {i} : wanted'[j] = wanted[j]
    BY <2>1, <2>3, <1>t DEF WantTypes
  <2>10. WantsOf(q, listed)
    BY <1>1, <2>1, <2>5, <2>7, <2>8, <2>9 DEF WantsOf, WantFor, WantStays, Pending
  <2>11. WantTypes'
    BY <1>t, <2>1, <2>3, <2>6 DEF WantTypes
  <2> QED
    BY <1>1, <1>2, <1>4, <1>5, <2>1, <2>2, <2>4, <2>5, <2>10, <2>11, WriteSent
<1> QED
  BY <1>6, <1>7

LEMMA BoardSetFilter ==
  ASSUME BoardLimits, BoardInv, NEW f \in Board!Filters, Board!SetFilter(f) PROVE BoardInv'
<1> DEFINE q == Posted("load", 0, Board!Empty, f, "hand")
<1>1. /\ filter' = f /\ loading' = TRUE /\ offered' = {} /\ taskRows' = taskRows /\ given' = given
      /\ listed' = listed /\ doubled' = doubled /\ bulk' = bulk /\ modal' = modal /\ failed' = failed
      /\ loadedFor' = loadedFor /\ unlisted' = unlisted /\ wanted' = wanted /\ stale' = stale
      /\ mixed' = (Board!Loads # {})
  BY DEF Board!SetFilter, Board!table, Board!list
<1>2. Board!SendsBeside(posts, q) /\ numbered < MaxRequests
  <2>1. \A i, data : [Board!Ask("load", i, data) EXCEPT !.filter = f] = Posted("load", i, data, f, "hand")
    BY DEF Board!Ask, Posted
  <2>2. Board!New = 0
    BY DEF Board!New
  <2>3. Board!Sends(q)
    BY <2>1, <2>2, Zenon DEF Board!SetFilter
  <2> QED
    BY <2>3 DEF Board!Sends, Board!SendsBeside
<1>3. PostRight(q)
  <2>1. Board!Empty \in Board!Row
    BY DEF Board!Empty, Board!Row, Board!Texts
  <2> QED
    BY <1>2, <2>1, PostedRight DEF Board!Kinds
<1>4. q.kind = "load" /\ q.at = "sent" /\ q.filter = f
  BY DEF Posted
<1> HIDE DEF q
<1>5. PostTypes' /\ PostsFormed' /\ overtaken' \subseteq Board!Tasks /\ overtaken \subseteq overtaken'
  BY <1>1, <1>2, <1>3, PostsSent
<1>6. TableTypes' /\ ViewTypes' /\ BulkType' /\ SheetType' /\ PastTypes'
  BY <1>1, <1>5, BoardParts DEF TableTypes, ViewTypes, BulkType, SheetType, PastTypes
<1>7. IdsGiven' /\ FormRight'
  BY <1>1 DEF IdsGiven, FormRight, BoardInv, GivenIds
<1>8. posts' = posts \cup {q} /\ \A r \in posts : Board!About(r) \subseteq overtaken'
  BY <1>2, <1>4 DEF Board!SendsBeside
<1>9. mixed' = FALSE => \A r \in posts : r.kind # "load"
  BY <1>1 DEF Board!Loads
<1>m. mixed' \in BOOLEAN
  BY <1>6 DEF ViewTypes
<1>10. LoadRight'
  BY <1>1, <1>4, <1>8, <1>9, <1>m DEF LoadRight
<1>11. Board!About(q) = {}
  BY <1>3, <1>4, AboutPost
<1>12. TasksRight'
  <2> SUFFICES ASSUME NEW i \in Board!Tasks, i \notin overtaken'
               PROVE TaskOk(i, posts, listed, doubled, mixed)'
    BY DEF TasksRight, TaskRight, Board!Tasks
  <2>1. TaskOk(i, posts, listed, doubled, mixed)
    BY <1>5 DEF BoardInv, TasksRight, TaskRight
  <2>2. \A r \in posts' : i \notin Board!About(r)
    BY <1>8, <1>11
  <2>3. AtRest(i, posts, listed, mixed)'
    BY <1>1, <1>4, <1>8, <2>1, <2>2 DEF TaskOk, AtRest, SameRow, AsWanted, Like, Pending
  <2>4. LoadsRight(i, posts, mixed)'
    BY <1>1, <1>4, <1>8, <1>9, <1>m, <2>1 DEF TaskOk, LoadsRight, SameRow, Due
  <2> QED
    BY <1>1, <2>1, <2>2, <2>3, <2>4 DEF TaskOk, AloneIn
<1>13. BulkAlive'
  BY <1>1, <1>8 DEF BulkAlive, BoardInv
<1> QED
  BY <1>5, <1>6, <1>7, <1>10, <1>12, <1>13, BoardTypesNext DEF BoardInv

\* A request r is answered or refused: it becomes q.
Becomes(r, q) ==
    /\ r \in posts /\ r.at = "sent" /\ posts' = (posts \ {r}) \cup {q}
    /\ q.kind = r.kind /\ q.filter = r.filter /\ q.by = r.by /\ PostRight(q)'
    /\ listed' = listed /\ doubled' = doubled /\ filter' = filter /\ loading' = loading
    /\ offered' = offered /\ bulk' = bulk /\ modal' = modal /\ numbered' = numbered
    /\ loadedFor' = loadedFor /\ mixed' = mixed /\ stale' = stale
    /\ given' \in 0 .. MaxTasks /\ given <= given'

LEMMA GivenGrow ==
  ASSUME BoardLimits, TableTypes, given' \in 0 .. MaxTasks, given <= given'
  PROVE  GivenIds \subseteq GivenIds'
BY DEF BoardLimits, TableTypes, GivenIds

LEMMA BecomesRest ==
  ASSUME BoardLimits, BoardInv, NEW r, NEW q, Becomes(r, q),
         DOMAIN taskRows' \subseteq GivenIds', failed' \in 0 .. BoardFaults
  PROVE  /\ ViewTypes' /\ BulkType' /\ SheetType' /\ PostTypes' /\ PostsFormed'
         /\ IdsGiven' /\ FormRight' /\ LoadRight' /\ BulkAlive'
<1>1. ViewTypes' /\ BulkType' /\ SheetType' /\ FormRight'
  BY BoardParts DEF Becomes, ViewTypes, BulkType, SheetType, FormRight, BoardInv
<1>2. GivenIds \subseteq GivenIds'
  BY BoardParts, GivenGrow DEF Becomes
<1>3. PostsFormed'
  BY <1>2 DEF BoardInv, PostsFormed, PostRight, Becomes
<1>4. PostTypes'
  BY <1>3, BoardParts DEF PostTypes, Becomes, PostsFormed, PostRight
<1>5. IdsGiven'
  BY <1>2 DEF IdsGiven, BoardInv, Becomes
<1>6. LoadRight'
  <2> SUFFICES ASSUME ~mixed PROVE LoadRight'
    BY DEF LoadRight, Becomes
  <2>1. /\ (\A s \in posts : s.kind # "load") => loadedFor = filter /\ ~loading
        /\ \A s, o \in posts : s.kind = "load" /\ o.kind = "load" => s = o
        /\ \A s \in posts : s.kind = "load" => s.filter = filter
    BY DEF LoadRight, BoardInv
  <2>2. \A s \in posts' : s.kind = "load" => s.filter = filter
    BY <2>1 DEF Becomes
  <2>3. \A s, o \in posts' : s.kind = "load" /\ o.kind = "load" => s = o
    BY <2>1 DEF Becomes
  <2>4. (\A s \in posts' : s.kind # "load") => \A s \in posts : s.kind # "load"
    BY DEF Becomes
  <2> QED
    BY <2>1, <2>2, <2>3, <2>4 DEF LoadRight, Becomes
<1>7. BulkAlive'
  BY DEF BulkAlive, BoardInv, Becomes
<1> QED
  BY <1>1, <1>3, <1>4, <1>5, <1>6, <1>7

\* A task that neither r nor its answer is about.
LEMMA ServedElsewhere ==
  ASSUME BoardLimits, BoardInv, NEW r, NEW q, Becomes(r, q), NEW i \in Board!Tasks,
         i \notin Board!About(r), i \notin Board!About(q),
         i \in DOMAIN taskRows' <=> i \in DOMAIN taskRows,
         i \in DOMAIN taskRows => taskRows'[i] = taskRows[i],
         wanted'[i] = wanted[i], i \in unlisted' <=> i \in unlisted,
         TaskOk(i, posts, listed, doubled, mixed),
         q.kind = "load" /\ q.at = "answered" =>
             SameRow(q.got, i) /\ (Due(i, mixed) => i \in DOMAIN q.got)
  PROVE  TaskOk(i, posts, listed, doubled, mixed)'
<1>1. AloneIn(i, posts)'
  BY DEF Becomes, TaskOk, AloneIn
<1>2. (\A s \in posts' : i \notin Board!About(s)) => AtRest(i, posts, listed, mixed)'
  BY DEF Becomes, TaskOk, AtRest, SameRow, AsWanted, Due, Like, Pending
<1>3. \A s \in posts' : i \in Board!About(s) => Promised(s, i, listed, mixed)'
  <2> SUFFICES ASSUME NEW s \in posts', i \in Board!About(s) PROVE Promised(s, i, listed, mixed)'
    OBVIOUS
  <2>1. Promised(s, i, listed, mixed)
    BY DEF Becomes, TaskOk
  <2>2. listed' = listed /\ mixed' = mixed /\ filter' = filter /\ stale' = stale /\ bulk' = bulk
    BY DEF Becomes
  <2>3. /\ Due(i, mixed)' <=> Due(i, mixed)
        /\ SameRow(listed, i)' <=> SameRow(listed, i)
        /\ AsWanted(i)' <=> AsWanted(i)
        /\ \A d, t : Like(i, d, t)' <=> Like(i, d, t)
    BY <2>2 DEF Due, SameRow, AsWanted, Like, Pending
  <2>4. s.at = "sent" => Promised(s, i, listed, mixed)'
    BY <2>1, <2>2, <2>3 DEF Promised
  <2>5. s.at # "sent" => Promised(s, i, listed, mixed)'
    BY <2>1, <2>2, <2>3 DEF Promised
  <2> QED
    BY <2>4, <2>5
<1>4. LoadsRight(i, posts, mixed)'
  BY DEF Becomes, TaskOk, LoadsRight, SameRow, Due
<1> QED
  BY <1>1, <1>2, <1>3, <1>4 DEF TaskOk, Becomes

LEMMA RefusedPost ==
  ASSUME BoardLimits, BoardInv, NEW r \in posts, r.at = "sent", GivenIds \subseteq GivenIds'
  PROVE  LET q == [r EXCEPT !.at = "refused"] IN
         /\ PostRight(q)' /\ q.kind = r.kind /\ q.filter = r.filter /\ q.at = "refused"
         /\ q.task = r.task /\ q.got = r.got /\ q.by = r.by
<1> DEFINE q == [r EXCEPT !.at = "refused"]
<1>1. PostRight(r) /\ r \in Board!Request
  BY DEF BoardInv, PostsFormed, PostRight
<1>2. /\ q \in Board!Request /\ q.kind = r.kind /\ q.filter = r.filter /\ q.at = "refused"
      /\ q.task = r.task /\ q.got = r.got /\ q.by = r.by
  BY <1>1 DEF Board!Request
<1>3. PostRight(q)'
  <2> HIDE DEF q
  <2> QED
    BY <1>1, <1>2 DEF PostRight
<1> QED
  BY <1>2, <1>3

LEMMA BoardRefuse ==
  ASSUME BoardLimits, BoardInv, NEW r \in posts, Board!Refuse(r) PROVE BoardInv'
<1> DEFINE q == [r EXCEPT !.at = "refused"]
<1>1. /\ r.at = "sent" /\ posts' = (posts \ {r}) \cup {q}
      /\ overtaken' = overtaken \cup Board!About(r)
      /\ taskRows' = taskRows /\ given' = given /\ listed' = listed /\ doubled' = doubled
      /\ filter' = filter /\ loading' = loading /\ offered' = offered /\ bulk' = bulk
      /\ modal' = modal /\ numbered' = numbered /\ loadedFor' = loadedFor /\ mixed' = mixed
      /\ unlisted' = unlisted /\ wanted' = wanted /\ stale' = stale
  BY DEF Board!Refuse, Board!Replaces, Board!table, Board!list, Board!view, Board!picks
<1>2. failed' \in 0 .. BoardFaults
  <2>1. failed' = failed \/ (failed < BoardFaults /\ failed' = failed + 1)
    BY DEF Board!Refuse, Board!Fault
  <2> QED
    BY <2>1, BoardParts DEF PostTypes, BoardLimits
<1>g. given' \in 0 .. MaxTasks /\ given <= given' /\ GivenIds \subseteq GivenIds'
  BY <1>1, BoardParts DEF TableTypes, BoardLimits, GivenIds
<1>3. /\ PostRight(q)' /\ q.kind = r.kind /\ q.filter = r.filter /\ q.at = "refused"
      /\ q.task = r.task /\ q.got = r.got /\ q.by = r.by
  BY <1>1, <1>g, RefusedPost
<1>4. Board!About(q) = Board!About(r)
  BY <1>3 DEF Board!About
<1> HIDE DEF q
<1>5. Becomes(r, q)
  BY <1>1, <1>3, <1>g DEF Becomes
<1>6. DOMAIN taskRows' \subseteq GivenIds'
  BY <1>1, <1>g DEF BoardInv, IdsGiven
<1>7. /\ ViewTypes' /\ BulkType' /\ SheetType' /\ PostTypes' /\ PostsFormed'
      /\ IdsGiven' /\ FormRight' /\ LoadRight' /\ BulkAlive'
  BY <1>2, <1>5, <1>6, BecomesRest
<1>8. TableTypes' /\ PastTypes'
  <2>1. Board!About(r) \subseteq Board!Tasks
    BY DEF Board!About
  <2> QED
    BY <1>1, <2>1, BoardParts DEF TableTypes, PastTypes
<1>9. TasksRight'
  <2> SUFFICES ASSUME NEW i \in Board!Tasks, i \notin overtaken'
               PROVE TaskOk(i, posts, listed, doubled, mixed)'
    BY DEF TasksRight, TaskRight, Board!Tasks
  <2>1. TaskOk(i, posts, listed, doubled, mixed) /\ i \notin Board!About(r)
    BY <1>1 DEF BoardInv, TasksRight, TaskRight
  <2>2. wanted'[i] = wanted[i] /\ (i \in unlisted' <=> i \in unlisted) /\ q.at # "answered"
        /\ (i \in DOMAIN taskRows' <=> i \in DOMAIN taskRows)
        /\ (i \in DOMAIN taskRows => taskRows'[i] = taskRows[i])
    BY <1>1, <1>3
  <2> QED
    BY <1>4, <1>5, <2>1, <2>2, ServedElsewhere
<1> QED
  BY <1>7, <1>8, <1>9, BoardTypesNext DEF BoardInv

\* What serving r makes of the rows.
RowsServed(r) ==
    /\ taskRows' \in Board!Tables /\ DOMAIN taskRows' \subseteq GivenIds'
    /\ \A i \in GivenIds : i # r.task \/ r.kind \in {"load", "create"} =>
          /\ i \in DOMAIN taskRows' <=> i \in DOMAIN taskRows
          /\ i \in DOMAIN taskRows => taskRows'[i] = taskRows[i]
    /\ Board!Adds(r) => given' \in DOMAIN taskRows' /\ taskRows'[given'] = Board!NewRow(r)
    /\ r.kind = "set" =>
          /\ r.task \in DOMAIN taskRows /\ r.task \in DOMAIN taskRows'
          /\ taskRows'[r.task] = [taskRows[r.task] EXCEPT !.done = r.row.done]
    /\ r.kind = "save" =>
          /\ r.task \in DOMAIN taskRows /\ r.task \in DOMAIN taskRows'
          /\ taskRows'[r.task] = Board!Merged(r.row, taskRows[r.task])
    /\ r.kind = "remove" => r.task \notin DOMAIN taskRows'

\* Setting one row, and one more row.
LEMMA DoneRow ==
  ASSUME NEW a \in Board!Row, NEW b \in Board!Row
  PROVE  /\ [a EXCEPT !.done = b.done] \in Board!Row
         /\ [a EXCEPT !.done = b.done].done = b.done /\ [a EXCEPT !.done = b.done].text = a.text
BY DEF Board!Row

LEMMA MergedRow ==
  ASSUME NEW a \in Board!Row, NEW b \in Board!Row
  PROVE  Board!Merged(a, b) \in Board!Row /\ Board!Merged(a, b).done = a.done
BY DEF Board!Row, Board!Merged

LEMMA ChangedRows ==
  ASSUME BoardLimits, BoardInv, NEW r \in posts, Board!Finds(r)
  PROVE  /\ Board!Changed(r) \in Board!Tables /\ DOMAIN Board!Changed(r) \subseteq DOMAIN taskRows
         /\ \A i \in GivenIds : i # r.task \/ r.kind \in {"load", "create"} =>
               /\ i \in DOMAIN Board!Changed(r) <=> i \in DOMAIN taskRows
               /\ i \in DOMAIN taskRows => Board!Changed(r)[i] = taskRows[i]
         /\ r.kind = "set" =>
               /\ r.task \in DOMAIN taskRows /\ r.task \in DOMAIN Board!Changed(r)
               /\ Board!Changed(r)[r.task] = [taskRows[r.task] EXCEPT !.done = r.row.done]
         /\ r.kind = "save" =>
               /\ r.task \in DOMAIN taskRows /\ r.task \in DOMAIN Board!Changed(r)
               /\ Board!Changed(r)[r.task] = Board!Merged(r.row, taskRows[r.task])
         /\ r.kind = "remove" => r.task \notin DOMAIN Board!Changed(r)
         /\ r.kind \in {"load", "create"} => Board!Changed(r) = taskRows
<1>1. DOMAIN taskRows \subseteq Board!Tasks /\ taskRows \in [DOMAIN taskRows -> Board!Row]
  BY BoardParts, TableParts DEF TableTypes
<1>2. r.kind \in {"load", "set", "save", "create", "remove"} /\ r.row \in Board!Row
  BY DEF BoardInv, PostsFormed, PostRight, Board!Request, Board!Kinds
<1>3. r.kind \notin {"load", "create"} => r.task \in DOMAIN taskRows
  BY DEF Board!Finds
<1> DEFINE c == Board!Changed(r)
<1>4. CASE r.kind = "set"
  <2> DEFINE data == [taskRows[r.task] EXCEPT !.done = r.row.done]
  <2>1. data \in Board!Row
    BY <1>1, <1>2, <1>3, <1>4, DoneRow
  <2>2. c = [taskRows EXCEPT ![r.task] = data]
    BY <1>4 DEF Board!Changed
  <2> HIDE DEF data
  <2>3. c \in [DOMAIN taskRows -> Board!Row] /\ c[r.task] = data
        /\ \A i \in DOMAIN taskRows : i # r.task => c[i] = taskRows[i]
    BY <1>1, <1>3, <1>4, <2>1, <2>2
  <2>4. c \in Board!Tables /\ DOMAIN c = DOMAIN taskRows
    BY <1>1, <2>3, TablesAre
  <2> QED
    BY <1>3, <1>4, <2>3, <2>4 DEF data
<1>5. CASE r.kind = "save"
  <2> DEFINE data == Board!Merged(r.row, taskRows[r.task])
  <2>1. data \in Board!Row
    BY <1>1, <1>2, <1>3, <1>5, MergedRow
  <2>2. c = [taskRows EXCEPT ![r.task] = data]
    BY <1>5 DEF Board!Changed
  <2> HIDE DEF data
  <2>3. c \in [DOMAIN taskRows -> Board!Row] /\ c[r.task] = data
        /\ \A i \in DOMAIN taskRows : i # r.task => c[i] = taskRows[i]
    BY <1>1, <1>3, <1>5, <2>1, <2>2
  <2>4. c \in Board!Tables /\ DOMAIN c = DOMAIN taskRows
    BY <1>1, <2>3, TablesAre
  <2> QED
    BY <1>3, <1>5, <2>3, <2>4 DEF data
<1>6. CASE r.kind = "remove"
  <2>2. c = [i \in DOMAIN taskRows \ {r.task} |-> taskRows[i]]
    BY <1>6 DEF Board!Changed
  <2>3. c \in [DOMAIN taskRows \ {r.task} -> Board!Row]
    BY <1>1, <2>2
  <2>4. c \in Board!Tables
    BY <1>1, <2>3, TablesAre
  <2> QED
    BY <1>6, <2>2, <2>4
<1>7. CASE r.kind \in {"load", "create"}
  <2>1. c = taskRows
    BY <1>7 DEF Board!Changed
  <2> QED
    BY <1>7, <2>1, BoardParts DEF TableTypes
<1> QED
  BY <1>2, <1>4, <1>5, <1>6, <1>7

LEMMA BoardServedRows ==
  ASSUME BoardLimits, BoardInv, NEW r \in posts, Board!Serve(r)
  PROVE  /\ RowsServed(r) /\ given' \in 0 .. MaxTasks /\ given <= given'
         /\ given' = IF Board!Adds(r) THEN given + 1 ELSE given
         /\ Board!NewRow(r) \in Board!Row
<1> DEFINE c == Board!Changed(r)
<1>1. /\ c \in Board!Tables /\ DOMAIN c \subseteq DOMAIN taskRows
      /\ \A i \in GivenIds : i # r.task \/ r.kind \in {"load", "create"} =>
            /\ i \in DOMAIN c <=> i \in DOMAIN taskRows
            /\ i \in DOMAIN taskRows => c[i] = taskRows[i]
      /\ r.kind = "set" =>
            /\ r.task \in DOMAIN taskRows /\ r.task \in DOMAIN c
            /\ c[r.task] = [taskRows[r.task] EXCEPT !.done = r.row.done]
      /\ r.kind = "save" => /\ r.task \in DOMAIN taskRows /\ r.task \in DOMAIN c
                            /\ c[r.task] = Board!Merged(r.row, taskRows[r.task])
      /\ r.kind = "remove" => r.task \notin DOMAIN c
  BY ChangedRows DEF Board!Serve
<1>2. /\ Board!Adds(r) => given < MaxTasks
      /\ taskRows' = Board!Written(r)
      /\ given' = IF Board!Adds(r) THEN given + 1 ELSE given
  BY DEF Board!Serve
<1>3. given' \in 0 .. MaxTasks /\ given <= given' /\ (Board!Adds(r) => given' \in Board!Tasks)
  BY <1>2, BoardParts DEF TableTypes, BoardLimits, Board!Tasks
<1>4. /\ GivenIds \subseteq GivenIds' /\ given + 1 \notin GivenIds
      /\ (Board!Adds(r) => given' \in GivenIds' /\ given' \notin GivenIds)
  BY <1>2, <1>3, BoardParts DEF GivenIds, TableTypes, BoardLimits
<1>5. DOMAIN taskRows \subseteq GivenIds /\ taskRows \in [DOMAIN taskRows -> Board!Row]
  BY BoardParts, TableParts DEF TableTypes, BoardInv, IdsGiven
<1>6. PostRight(r) /\ r.row \in Board!Row
  BY DEF BoardInv, PostsFormed, PostRight, Board!Request
<1>7. Board!NewRow(r) \in Board!Row
  <2>1. Board!Spawns(r) => r.task \in DOMAIN taskRows
    BY DEF Board!Serve, Board!Finds, Board!Spawns
  <2> QED
    BY <1>5, <1>6, <2>1 DEF Board!NewRow
<1>8. DOMAIN c \subseteq Board!Tasks /\ c \in [DOMAIN c -> Board!Row]
  BY <1>1, TableParts
<1>9. r.kind \notin {"load", "create"} => r.task \in GivenIds
  BY <1>6, BoardParts, GivenAreTasks DEF PostRight
<1> HIDE DEF c
<1>10. CASE ~Board!Adds(r)
  <2>1. taskRows' = c
    BY <1>2, <1>10 DEF Board!Written, c
  <2> QED
    BY <1>1, <1>2, <1>3, <1>4, <1>5, <1>7, <1>10, <2>1 DEF RowsServed
<1>11. CASE Board!Adds(r)
  <2>1. given' = given + 1
    BY <1>2, <1>11
  <2>2. taskRows' = [i \in DOMAIN taskRows \cup {given'} |-> IF i = given' THEN Board!NewRow(r) ELSE c[i]]
    BY <1>2, <1>11, <2>1 DEF Board!Written, c
  <2>3. DOMAIN c = DOMAIN taskRows
    <3>1. r.kind \in {"create", "set", "save"}
      BY <1>11 DEF Board!Adds, Board!Spawns
    <3> QED
      BY <1>1, <1>5, <3>1
  <2>4. DOMAIN taskRows' = DOMAIN taskRows \cup {given'}
        /\ taskRows' \in [DOMAIN taskRows \cup {given'} -> Board!Row]
    BY <1>7, <1>8, <2>2, <2>3
  <2>5. taskRows' \in Board!Tables
    BY <1>3, <1>8, <1>11, <2>3, <2>4, TablesAre
  <2>6. \A i \in GivenIds : i # given' /\ (i \in DOMAIN taskRows' <=> i \in DOMAIN c)
                            /\ (i \in DOMAIN c => taskRows'[i] = c[i])
    BY <1>4, <1>11, <2>2, <2>3
  <2>7. given' \in DOMAIN taskRows' /\ taskRows'[given'] = Board!NewRow(r)
    BY <2>2
  <2>8. DOMAIN taskRows' \subseteq GivenIds'
    BY <1>4, <1>5, <1>11, <2>4
  <2>9. r.kind # "remove"
    BY <1>11 DEF Board!Adds, Board!Spawns
  <2> QED
    BY <1>1, <1>2, <1>3, <1>7, <1>9, <2>5, <2>6, <2>7, <2>8, <2>9 DEF RowsServed
<1> QED
  BY <1>10, <1>11

\* What the answer says.
AnswerRight(r) ==
    LET a == Board!Answer(r) IN
    /\ a \in Board!Tables
    /\ r.kind = "load" =>
          /\ DOMAIN a = {j \in DOMAIN taskRows : Board!Matches(r.filter, taskRows[j])}
          /\ \A j \in DOMAIN a : a[j] = taskRows[j]
    /\ r.kind = "create" => DOMAIN a = {given'} /\ a[given'] = r.row
    /\ r.kind = "remove" => DOMAIN a = {}
    /\ r.kind \in {"set", "save"} => DOMAIN a = {r.task} /\ a[r.task] = taskRows'[r.task]

LEMMA BoardAnswer ==
  ASSUME BoardLimits, BoardInv, NEW r \in posts, Board!Serve(r) PROVE AnswerRight(r)
<1>0. Board!Finds(r) /\ taskRows' = Board!Written(r)
  BY DEF Board!Serve
<1>1. DOMAIN taskRows \subseteq Board!Tasks /\ taskRows \in [DOMAIN taskRows -> Board!Row]
  BY BoardParts, TableParts DEF TableTypes
<1>2. r.kind \in {"load", "set", "save", "create", "remove"} /\ r.row \in Board!Row /\ PostRight(r)
  BY DEF BoardInv, PostsFormed, PostRight, Board!Request, Board!Kinds
<1> DEFINE a == Board!Answer(r)
<1>3. CASE r.kind = "load"
  <2> DEFINE S == {j \in DOMAIN taskRows : Board!Matches(r.filter, taskRows[j])}
  <2>1. a = [i \in S |-> taskRows[i]]
    BY <1>3 DEF Board!Answer
  <2>2. S \subseteq DOMAIN taskRows
    OBVIOUS
  <2> HIDE DEF S
  <2>3. a \in [S -> Board!Row] /\ S \in SUBSET Board!Tasks
    BY <1>1, <2>1, <2>2
  <2>4. a \in Board!Tables
    BY <2>3, TablesAre
  <2>5. DOMAIN a = S /\ \A j \in DOMAIN a : a[j] = taskRows[j]
    BY <2>1
  <2> QED
    BY <1>3, <2>4, <2>5 DEF AnswerRight, S
<1>4. CASE r.kind = "create"
  <2>1. a = [i \in {given + 1} |-> r.row] /\ given' = given + 1
    BY <1>4, BoardServedRows DEF Board!Answer, Board!Adds
  <2>2. given' \in Board!Tasks
    BY <1>4, <2>1, BoardServedRows, BoardParts DEF TableTypes, BoardLimits, Board!Tasks
  <2>3. a \in [{given'} -> Board!Row] /\ {given'} \in SUBSET Board!Tasks
    BY <1>2, <2>1, <2>2
  <2>4. a \in Board!Tables
    BY <2>3, TablesAre
  <2>5. DOMAIN a = {given'} /\ a[given'] = r.row
    BY <2>1
  <2> QED
    BY <1>4, <2>4, <2>5 DEF AnswerRight
<1>5. CASE r.kind = "remove"
  <2>1. a = << >>
    BY <1>5 DEF Board!Answer
  <2> QED
    BY <1>5, <2>1, NoTable DEF AnswerRight
<1>6. CASE r.kind \in {"set", "save"}
  <2>1. a = [i \in {r.task} |-> Board!Changed(r)[i]]
    BY <1>6 DEF Board!Answer
  <2>2. /\ r.task \in GivenIds /\ r.task \in DOMAIN taskRows /\ r.task \in DOMAIN Board!Changed(r)
        /\ Board!Changed(r) \in Board!Tables /\ r.task # given + 1
    <3>1. r.task \in GivenIds
      BY <1>2, <1>6 DEF PostRight
    <3>2. r.task # given + 1
      BY <3>1, BoardParts DEF GivenIds, TableTypes
    <3> QED
      BY <1>0, <1>6, <3>1, <3>2, ChangedRows
  <2>3. Board!Changed(r)[r.task] \in Board!Row
    BY <2>2, TableParts
  <2>4. a \in [{r.task} -> Board!Row] /\ {r.task} \in SUBSET Board!Tasks
    BY <1>1, <2>1, <2>2, <2>3
  <2>5. a \in Board!Tables
    BY <2>4, TablesAre
  <2>6. taskRows'[r.task] = Board!Changed(r)[r.task]
    <3>1. CASE Board!Adds(r)
      BY <1>0, <2>2, <3>1 DEF Board!Written
    <3>2. CASE ~Board!Adds(r)
      BY <1>0, <3>2 DEF Board!Written
    <3> QED
      BY <3>1, <3>2
  <2>7. DOMAIN a = {r.task} /\ a[r.task] = taskRows'[r.task]
    BY <2>1, <2>6
  <2> QED
    BY <1>6, <2>5, <2>7 DEF AnswerRight
<1> QED
  BY <1>2, <1>3, <1>4, <1>5, <1>6

LEMMA AnsweredPost ==
  ASSUME BoardLimits, BoardInv, NEW r \in posts, Board!Serve(r), NEW q,
         q = [r EXCEPT !.at = "answered", !.got = Board!Answer(r)]
  PROVE  /\ PostRight(q)' /\ q.kind = r.kind /\ q.filter = r.filter /\ q.at = "answered"
         /\ q.task = r.task /\ q.got = Board!Answer(r) /\ q.row = r.row /\ q.by = r.by
<1>1. PostRight(r) /\ r \in Board!Request
  BY DEF BoardInv, PostsFormed, PostRight
<1>2. AnswerRight(r) /\ RowsServed(r) /\ given' \in 0 .. MaxTasks /\ given <= given'
      /\ given' = IF Board!Adds(r) THEN given + 1 ELSE given
  BY BoardAnswer, BoardServedRows
<1>3. Board!Answer(r) \in Board!Tables
  BY <1>2 DEF AnswerRight
<1>4. /\ q \in Board!Request /\ q.kind = r.kind /\ q.filter = r.filter /\ q.at = "answered"
      /\ q.task = r.task /\ q.got = Board!Answer(r) /\ q.by = r.by /\ q.row = r.row
  BY <1>1, <1>3 DEF Board!Request
<1>5. GivenIds \subseteq GivenIds'
  BY <1>2, BoardParts, GivenGrow
<1>6. r.kind = "create" => given' \in GivenIds'
  BY <1>2, BoardParts DEF Board!Adds, GivenIds, TableTypes, BoardLimits
<1>7. DOMAIN taskRows \subseteq GivenIds
  BY DEF BoardInv, IdsGiven
<1>8. r.kind \in {"load", "set", "save", "create", "remove"}
  BY <1>1 DEF Board!Request, Board!Kinds
<1>9. r.kind \in {"set", "save"} => r.task \in GivenIds
  BY <1>1 DEF PostRight
<1>10. DOMAIN q.got \subseteq GivenIds'
  BY <1>2, <1>4, <1>5, <1>6, <1>7, <1>8, <1>9 DEF AnswerRight
<1>11. /\ r.kind \in {"set", "save"} => DOMAIN q.got = {r.task}
       /\ r.kind = "create" => DOMAIN q.got = {given'}
  BY <1>2, <1>4 DEF AnswerRight
<1>12. PostRight(q)'
  <2>1. q \in Board!Request /\ q.task \in GivenIds' \cup {0} /\ DOMAIN q.got \subseteq GivenIds'
    BY <1>1, <1>4, <1>5, <1>10 DEF PostRight
  <2>2. /\ q.task = 0 <=> q.kind \in {"load", "create"}
        /\ q.by = "quick" => q.kind = "create"
        /\ q.by = "bulk" => q.kind \in {"set", "remove"}
    BY <1>1, <1>4 DEF PostRight
  <2>3. /\ q.kind \in {"set", "save"} => DOMAIN q.got = {q.task}
        /\ q.kind = "create" => \E i \in GivenIds' : DOMAIN q.got = {i}
        /\ q.at = "answered"
    BY <1>4, <1>6, <1>11
  <2> QED
    BY <2>1, <2>2, <2>3 DEF PostRight
<1> QED
  BY <1>4, <1>12

\* How a request is served, and answered with q or refused.
ServedAs(r, q) ==
    /\ r \in posts /\ Board!Serve(r) /\ Becomes(r, q) /\ q.task = r.task /\ q.row = r.row
    /\ RowsServed(r) /\ Board!NewRow(r) \in Board!Row
    /\ given' = IF Board!Adds(r) THEN given + 1 ELSE given
    /\ wanted' = IF Board!Adds(r) THEN [wanted EXCEPT ![given'] = Board!NewRow(r)] ELSE wanted
    /\ unlisted' = IF Board!Spawns(r) THEN unlisted \cup {given'} ELSE unlisted
    /\ \/ /\ q.at = "answered" /\ q.got = Board!Answer(r) /\ AnswerRight(r)
          /\ overtaken' = IF r.kind = "create" /\ Board!Loads # {} THEN overtaken \cup {given'}
                          ELSE overtaken
       \/ /\ q.at = "refused" /\ q.got = r.got
          /\ overtaken' = overtaken \cup IF r.kind = "create" THEN {given'} ELSE Board!About(r)
    /\ failed' \in 0 .. BoardFaults

LEMMA BoardServed ==
  ASSUME BoardLimits, BoardInv, NEW r \in posts, Board!Serve(r)
  PROVE  \E q : ServedAs(r, q)
<1>1. /\ r.at = "sent" /\ listed' = listed /\ doubled' = doubled
      /\ filter' = filter /\ loading' = loading /\ offered' = offered /\ bulk' = bulk
      /\ modal' = modal /\ numbered' = numbered /\ loadedFor' = loadedFor /\ mixed' = mixed
      /\ stale' = stale
      /\ wanted' = IF Board!Adds(r) THEN [wanted EXCEPT ![given'] = Board!NewRow(r)] ELSE wanted
      /\ unlisted' = IF Board!Spawns(r) THEN unlisted \cup {given'} ELSE unlisted
  BY DEF Board!Serve, Board!list, Board!view, Board!picks
<1>2. RowsServed(r) /\ given' \in 0 .. MaxTasks /\ given <= given' /\ Board!NewRow(r) \in Board!Row
      /\ given' = IF Board!Adds(r) THEN given + 1 ELSE given
  BY BoardServedRows
<1>3. GivenIds \subseteq GivenIds'
  BY <1>2, BoardParts, GivenGrow
<1>4. CASE /\ Board!Replaces(r, [r EXCEPT !.at = "answered", !.got = Board!Answer(r)])
           /\ failed' = failed
           /\ overtaken' = IF r.kind = "create" /\ Board!Loads # {} THEN overtaken \cup {given'}
                           ELSE overtaken
  <2>0. PICK q : q = [r EXCEPT !.at = "answered", !.got = Board!Answer(r)]
    OBVIOUS
  <2>1. /\ PostRight(q)' /\ q.kind = r.kind /\ q.filter = r.filter /\ q.at = "answered"
        /\ q.task = r.task /\ q.got = Board!Answer(r) /\ q.row = r.row /\ q.by = r.by
    BY <2>0, AnsweredPost
  <2>2. posts' = (posts \ {r}) \cup {q}
    BY <1>4, <2>0 DEF Board!Replaces
  <2>3. failed' \in 0 .. BoardFaults
    BY <1>4, BoardParts DEF PostTypes
  <2>4. AnswerRight(r)
    BY BoardAnswer
  <2>5. overtaken' = IF r.kind = "create" /\ Board!Loads # {} THEN overtaken \cup {given'} ELSE overtaken
    BY <1>4
  <2>6. Becomes(r, q)
    BY <1>1, <1>2, <2>1, <2>2 DEF Becomes
  <2>7. ServedAs(r, q)
    BY <1>1, <1>2, <2>1, <2>3, <2>4, <2>5, <2>6 DEF ServedAs
  <2> QED
    BY <2>7
<1>5. CASE /\ Board!Fault /\ Board!Replaces(r, [r EXCEPT !.at = "refused"])
           /\ overtaken' = overtaken \cup IF r.kind = "create" THEN {given'} ELSE Board!About(r)
  <2> DEFINE q == [r EXCEPT !.at = "refused"]
  <2>1. /\ PostRight(q)' /\ q.kind = r.kind /\ q.filter = r.filter /\ q.at = "refused"
        /\ q.task = r.task /\ q.got = r.got /\ q.by = r.by
    BY <1>1, <1>3, RefusedPost
  <2>2. posts' = (posts \ {r}) \cup {q}
    BY <1>5 DEF Board!Replaces
  <2>3. failed' \in 0 .. BoardFaults
    BY <1>5, BoardParts DEF PostTypes, Board!Fault, BoardLimits
  <2>4. q.row = r.row
    BY DEF BoardInv, PostsFormed, PostRight, Board!Request
  <2>5. overtaken' = overtaken \cup IF r.kind = "create" THEN {given'} ELSE Board!About(r)
    BY <1>5
  <2> HIDE DEF q
  <2>6. Becomes(r, q)
    BY <1>1, <1>2, <2>1, <2>2 DEF Becomes
  <2>7. ServedAs(r, q)
    BY <1>1, <1>2, <2>1, <2>3, <2>4, <2>5, <2>6 DEF ServedAs
  <2> QED
    BY <2>7
<1> QED
  BY <1>4, <1>5 DEF Board!Serve

LEMMA ServedOthers ==
  ASSUME BoardLimits, BoardInv, NEW r, NEW q, ServedAs(r, q), NEW i \in Board!Tasks,
         i \notin overtaken', i \notin Board!About(r), Board!Adds(r) => i # given'
  PROVE  TaskOk(i, posts, listed, doubled, mixed)'
<1>1. /\ r \in posts /\ Becomes(r, q) /\ q.task = r.task /\ q.kind = r.kind /\ RowsServed(r)
      /\ given' = IF Board!Adds(r) THEN given + 1 ELSE given
  BY DEF ServedAs, Becomes
<1>2. PostRight(r) /\ r.at = "sent"
  BY <1>1 DEF BoardInv, PostsFormed, Becomes
<1>3. i \notin Board!About(q)
  <2>1. r.kind = "create" => Board!Adds(r)
    BY DEF Board!Adds
  <2>2. CASE r.kind = "create"
    BY <1>1, <1>2, <2>1, <2>2 DEF ServedAs, AnswerRight, Board!About, PostRight
  <2>3. CASE r.kind # "create"
    BY <1>1, <2>3 DEF Board!About
  <2> QED
    BY <2>2, <2>3
<1>4. overtaken \subseteq overtaken'
  BY DEF ServedAs
<1>5. TaskOk(i, posts, listed, doubled, mixed)
  BY <1>4 DEF BoardInv, TasksRight, TaskRight
<1>6. /\ i \in DOMAIN taskRows' <=> i \in DOMAIN taskRows
      /\ i \in DOMAIN taskRows => taskRows'[i] = taskRows[i]
  <2>1. CASE i \in GivenIds
    <3>1. i # r.task \/ r.kind \in {"load", "create"}
      BY <1>2, AboutPost
    <3> QED
      BY <1>1, <2>1, <3>1 DEF RowsServed
  <2>2. CASE i \notin GivenIds
    <3>1. i \notin GivenIds'
      BY <1>1, <2>2, BoardParts DEF GivenIds, TableTypes, Board!Tasks, BoardLimits
    <3> QED
      BY <1>1, <2>2, <3>1 DEF RowsServed, BoardInv, IdsGiven
  <2> QED
    BY <2>1, <2>2
<1>7. wanted'[i] = wanted[i]
  BY BoardParts DEF ServedAs, PastTypes
<1>8. i \in unlisted' <=> i \in unlisted
  BY DEF ServedAs, Board!Adds
<1>9. q.kind = "load" /\ q.at = "answered" =>
         SameRow(q.got, i) /\ (Due(i, mixed) => i \in DOMAIN q.got)
  <2> SUFFICES ASSUME q.kind = "load", q.at = "answered"
               PROVE  SameRow(q.got, i) /\ (Due(i, mixed) => i \in DOMAIN q.got)
    OBVIOUS
  <2>1. /\ DOMAIN q.got = {j \in DOMAIN taskRows : Board!Matches(r.filter, taskRows[j])}
        /\ \A j \in DOMAIN q.got : q.got[j] = taskRows[j]
    BY <1>1 DEF ServedAs, AnswerRight
  <2>2. ~mixed => r.filter = filter
    BY <1>1 DEF BoardInv, LoadRight
  <2> QED
    BY <2>1, <2>2 DEF SameRow, Due
<1> QED
  BY <1>1, <1>3, <1>5, <1>6, <1>7, <1>8, <1>9, ServedElsewhere

LEMMA ServedTask ==
  ASSUME BoardLimits, BoardInv, NEW r, NEW q, ServedAs(r, q), NEW i \in Board!Tasks,
         i \notin overtaken', i \in Board!About(r)
  PROVE  TaskOk(i, posts, listed, doubled, mixed)'
<1>1. /\ r \in posts /\ Becomes(r, q) /\ q.task = r.task /\ q.kind = r.kind /\ RowsServed(r)
      /\ q.row = r.row
  BY DEF ServedAs, Becomes
<1>2. PostRight(r) /\ r.at = "sent"
  BY <1>1 DEF BoardInv, PostsFormed, Becomes
<1>3. r.kind \in {"set", "save", "remove"} /\ r.task = i /\ i \in GivenIds
  <2>1. r.kind \in {"load", "set", "save", "create", "remove"}
    BY <1>2 DEF PostRight, Board!Request, Board!Kinds
  <2>2. r.kind = "create" => DOMAIN r.got = {}
    BY <1>2 DEF PostRight
  <2> QED
    BY <1>2, <2>1, <2>2, AboutPost
<1>4. q.at = "answered" /\ q.got = Board!Answer(r) /\ AnswerRight(r) /\ overtaken' = overtaken
  BY <1>3 DEF ServedAs
<1>5. AloneIn(i, posts) /\ Promised(r, i, listed, mixed) /\ i \notin doubled
  BY <1>1, <1>4 DEF BoardInv, TasksRight, TaskRight, TaskOk
<1>6. Board!About(q) = Board!About(r)
  BY <1>1, <1>3 DEF Board!About
<1>7. \A s \in posts : s # r => s.kind # "load" /\ i \notin Board!About(s)
  BY <1>1, <1>5 DEF AloneIn
<1>8. \A s \in posts' : s # q => s.kind # "load" /\ i \notin Board!About(s)
  BY <1>1, <1>7 DEF Becomes
<1>9. AloneIn(i, posts)' /\ LoadsRight(i, posts, mixed)'
  <2>1. q.kind # "load"
    BY <1>1, <1>3
  <2> QED
    BY <1>1, <1>6, <1>8, <2>1 DEF AloneIn, LoadsRight, Becomes
<1>10. q \in posts' /\ listed' = listed /\ mixed' = mixed /\ filter' = filter /\ stale' = stale
       /\ bulk' = bulk
  BY <1>1 DEF Becomes
<1>11. wanted'[i] = wanted[i]
  <2>1. Board!Adds(r) => given' # i
    BY <1>3, BoardParts DEF ServedAs, GivenIds, TableTypes, BoardLimits
  <2> QED
    BY <2>1, BoardParts DEF ServedAs, PastTypes
<1>12. i \in unlisted => i \in unlisted'
  BY DEF ServedAs
<1>13. r.kind = "remove" => i \notin DOMAIN taskRows'
  BY <1>1, <1>3 DEF RowsServed
<1>14. r.kind # "remove" => i \in DOMAIN taskRows /\ i \in DOMAIN taskRows' /\ q.got[i] = taskRows'[i]
  BY <1>1, <1>3, <1>4 DEF RowsServed, AnswerRight
<1>15. r.kind # "remove" => AsWanted(i)'
  <2>1. CASE r.kind = "set"
    <3>1. taskRows'[i] = [taskRows[i] EXCEPT !.done = r.row.done]
      BY <1>1, <1>3, <2>1 DEF RowsServed
    <3>2. i \in DOMAIN taskRows \ stale => Like(i, r.row.done, taskRows[i].text)
      BY <1>2, <1>5, <2>1 DEF Promised
    <3>3. taskRows[i] \in Board!Row /\ r.row \in Board!Row
      BY <1>2, <1>14, <2>1, BoardParts, TableParts DEF TableTypes, PostRight, Board!Request
    <3>4. taskRows'[i].done = r.row.done /\ taskRows'[i].text = taskRows[i].text
      BY <3>1, <3>3, DoneRow
    <3> QED
      BY <1>10, <1>11, <1>14, <2>1, <3>2, <3>4 DEF AsWanted, Like, Pending
  <2>2. CASE r.kind = "save"
    <3>1. taskRows'[i] = Board!Merged(r.row, taskRows[i])
      BY <1>1, <1>3, <2>2 DEF RowsServed
    <3>2. i \in DOMAIN taskRows \ stale => Like(i, r.row.done, Board!Merged(r.row, taskRows[i]).text)
      BY <1>2, <1>5, <2>2 DEF Promised
    <3>0. taskRows[i] \in Board!Row /\ r.row \in Board!Row
      BY <1>2, <1>14, <2>2, BoardParts, TableParts DEF TableTypes, PostRight, Board!Request
    <3>3. taskRows'[i].done = r.row.done
      BY <3>0, <3>1, MergedRow
    <3> QED
      BY <1>10, <1>11, <1>14, <2>2, <3>1, <3>2, <3>3 DEF AsWanted, Like, Pending
  <2> QED
    BY <1>3, <2>1, <2>2
<1>16. r.kind = "set" /\ Due(i, mixed)' => i \in DOMAIN listed
  <2> SUFFICES ASSUME r.kind = "set", Due(i, mixed)' PROVE i \in DOMAIN listed
    OBVIOUS
  <2>1. /\ Due(i, mixed) => i \in DOMAIN listed
        /\ ~r.row.done => i \in DOMAIN listed
    BY <1>2, <1>5 DEF Promised
  <2>2. ~mixed /\ i \in DOMAIN taskRows \ unlisted
    BY <1>10, <1>12, <1>14 DEF Due
  <2>3. filter = "ALL" \/ ~taskRows'[i].done
    BY <1>10 DEF Due, Board!Matches
  <2>4. CASE filter = "ALL"
    BY <2>1, <2>2, <2>4 DEF Due, Board!Matches
  <2>5. CASE ~taskRows'[i].done
    <3>1. taskRows'[i] = [taskRows[i] EXCEPT !.done = r.row.done]
      BY <1>1, <1>3 DEF RowsServed
    <3>2. taskRows[i] \in Board!Row
      BY <2>2, BoardParts, TableParts DEF TableTypes
    <3>3. taskRows'[i].done = r.row.done
      BY <3>1, <3>2 DEF Board!Row
    <3> QED
      BY <2>1, <2>5, <3>3
  <2> QED
    BY <2>3, <2>4, <2>5
<1>17. Promised(q, i, listed, mixed)'
  BY <1>1, <1>3, <1>4, <1>10, <1>13, <1>14, <1>15, <1>16 DEF Promised
<1>18. \A s \in posts' : i \in Board!About(s) => Promised(s, i, listed, mixed)'
  BY <1>8, <1>17
<1> QED
  BY <1>1, <1>5, <1>6, <1>9, <1>10, <1>18 DEF TaskOk, Becomes

LEMMA ServedNew ==
  ASSUME BoardLimits, BoardInv, NEW r, NEW q, ServedAs(r, q), NEW i \in Board!Tasks,
         i \notin overtaken', Board!Adds(r), i = given'
  PROVE  TaskOk(i, posts, listed, doubled, mixed)'
<1>1. /\ r \in posts /\ Becomes(r, q) /\ q.task = r.task /\ q.kind = r.kind /\ RowsServed(r)
      /\ q.row = r.row /\ given' = given + 1
  BY DEF ServedAs, Becomes
<1>2. PostRight(r) /\ r.at = "sent"
  BY <1>1 DEF BoardInv, PostsFormed, Becomes
<1>3. i \notin GivenIds
  BY <1>1, BoardParts DEF GivenIds, TableTypes, BoardLimits
<1>4. \A s \in posts : PostRight(s) /\ i \notin Board!About(s) /\ i \notin DOMAIN s.got
  BY <1>3, AboutPost DEF BoardInv, PostsFormed, PostRight
<1>5. i \notin DOMAIN listed /\ i \notin doubled
  BY <1>3, BoardParts DEF BoardInv, IdsGiven, TableTypes
<1>6. listed' = listed /\ doubled' = doubled /\ mixed' = mixed
  BY <1>1 DEF Becomes
<1>7. i \in DOMAIN taskRows' /\ taskRows'[i] = Board!NewRow(r)
  BY <1>1 DEF RowsServed
<1>8. wanted'[i] = Board!NewRow(r)
  BY BoardParts DEF ServedAs, PastTypes
<1>9. AsWanted(i)'
  BY <1>7, <1>8 DEF AsWanted, Like
<1>10. \A s \in posts' : s # q => s \in posts
  BY <1>1 DEF Becomes
<1>11. CASE Board!Spawns(r)
  <2>1. r.kind \in {"set", "save"} /\ i \in unlisted'
    BY <1>11 DEF Board!Spawns, ServedAs
  <2>2. Board!About(q) = Board!About(r)
    BY <1>1, <2>1 DEF Board!About
  <2>3. \A s \in posts' : i \notin Board!About(s)
    BY <1>1, <1>4, <1>10, <2>2
  <2>4. \A s \in posts' : s.kind = "load" => i \notin DOMAIN s.got
    BY <1>1, <1>4, <1>10, <2>1
  <2>5. AtRest(i, posts, listed, mixed)'
    BY <1>5, <1>6, <1>9, <2>1 DEF AtRest, SameRow, Due
  <2>6. LoadsRight(i, posts, mixed)'
    BY <2>1, <2>4 DEF LoadsRight, SameRow, Due
  <2> QED
    BY <1>5, <1>6, <2>3, <2>5, <2>6 DEF TaskOk, AloneIn
<1>12. CASE ~Board!Spawns(r)
  <2>1. r.kind = "create" /\ Board!NewRow(r) = r.row
    BY <1>12 DEF Board!Adds, Board!NewRow
  <2>2. /\ q.at = "answered" /\ q.got = Board!Answer(r) /\ AnswerRight(r)
        /\ Board!Loads = {}
    BY <2>1 DEF ServedAs
  <2>3. DOMAIN q.got = {i} /\ q.got[i] = taskRows'[i]
    BY <1>7, <2>1, <2>2 DEF AnswerRight
  <2>4. \A s \in posts' : s.kind # "load" /\ (i \in Board!About(s) => s = q)
    BY <1>1, <1>4, <1>10, <2>1, <2>2 DEF Board!Loads
  <2>5. i \in Board!About(q) /\ q \in posts'
    BY <1>1, <2>1, <2>3 DEF Board!About, Becomes
  <2>6. Promised(q, i, listed, mixed)'
    BY <1>1, <1>5, <1>6, <1>7, <1>9, <2>1, <2>2, <2>3 DEF Promised
  <2> QED
    BY <1>5, <1>6, <2>4, <2>5, <2>6 DEF TaskOk, AloneIn, LoadsRight
<1> QED
  BY <1>11, <1>12

LEMMA BoardServe ==
  ASSUME BoardLimits, BoardInv, NEW r \in posts, Board!Serve(r) PROVE BoardInv'
<1>1. PICK q : ServedAs(r, q)
  BY BoardServed
<1>2. /\ Becomes(r, q) /\ RowsServed(r) /\ Board!NewRow(r) \in Board!Row /\ failed' \in 0 .. BoardFaults
      /\ given' = IF Board!Adds(r) THEN given + 1 ELSE given
  BY <1>1 DEF ServedAs
<1>3. /\ ViewTypes' /\ BulkType' /\ SheetType' /\ PostTypes' /\ PostsFormed'
      /\ IdsGiven' /\ FormRight' /\ LoadRight' /\ BulkAlive'
  BY <1>2, BecomesRest DEF RowsServed
<1>4. TableTypes'
  BY <1>2, BoardParts DEF TableTypes, Becomes, RowsServed
<1>5. PastTypes'
  <2>1. Board!Adds(r) => given' \in Board!Tasks
    BY <1>2, BoardParts DEF Becomes, TableTypes, Board!Tasks, BoardLimits
  <2>2. Board!Spawns(r) => Board!Adds(r)
    BY DEF Board!Adds
  <2>3. r.kind = "create" => Board!Adds(r)
    BY DEF Board!Adds
  <2>4. Board!About(r) \subseteq Board!Tasks
    BY DEF Board!About
  <2>5. wanted' \in [Board!Tasks -> Board!Row]
    BY <1>1, <1>2, <2>1, BoardParts DEF PastTypes, ServedAs
  <2>6. unlisted' \subseteq Board!Tasks /\ overtaken' \subseteq Board!Tasks /\ stale' = stale
    BY <1>1, <1>2, <2>1, <2>2, <2>3, <2>4, BoardParts DEF PastTypes, ServedAs, Becomes
  <2> QED
    BY <2>5, <2>6, BoardParts DEF PastTypes
<1>6. TasksRight'
  <2> SUFFICES ASSUME NEW i \in Board!Tasks, i \notin overtaken'
               PROVE TaskOk(i, posts, listed, doubled, mixed)'
    BY DEF TasksRight, TaskRight, Board!Tasks
  <2> QED
    BY <1>1, ServedOthers, ServedTask, ServedNew
<1> QED
  BY <1>3, <1>4, <1>5, <1>6, BoardTypesNext DEF BoardInv

\* The answer of r is taken from the requests under way.
Taken(r) ==
    /\ taskRows' = taskRows /\ given' = given /\ filter' = filter /\ unlisted' = unlisted
    /\ wanted' = wanted /\ failed' = failed /\ loadedFor' = loadedFor
    /\ mixed' = (mixed \/ r.kind = "load") /\ loading' = (loading /\ r.kind # "load")
    /\ listed' \in Board!Tables /\ DOMAIN listed' \subseteq GivenIds
    /\ doubled' \subseteq DOMAIN listed'

LEMMA ShownGiven ==
  ASSUME DOMAIN listed' \subseteq GivenIds PROVE Board!Shown \subseteq GivenIds
BY DEF Board!Shown

LEMMA TakenOn ==
  ASSUME BoardLimits, BoardInv, NEW r \in posts, Taken(r), Board!Continues(r)
  PROVE  /\ PostTypes' /\ PostsFormed' /\ overtaken' \subseteq Board!Tasks /\ overtaken \subseteq overtaken'
         /\ BulkType' /\ BulkRight' /\ WantTypes' /\ offered' \subseteq GivenIds /\ BulkAlive'
         /\ \/ /\ posts' = posts \ {r} /\ overtaken' = overtaken /\ stale' = stale
               /\ \A i : Pending(i)' <=> Pending(i)
            \/ \E q : /\ PostRight(q) /\ q.kind # "load" /\ q.at = "sent"
                      /\ Board!SendsBeside(posts \ {r}, q) /\ WantsOf(q, listed')
<1>s. /\ given' = given /\ wanted' = wanted /\ failed' = failed /\ Board!Shown \subseteq GivenIds
  BY ShownGiven DEF Taken
<1>t. /\ offered \subseteq GivenIds /\ bulk.left \subseteq GivenIds
      /\ (bulk.left # {} => bulk.kind \in {"set", "remove"}) /\ WantTypes
  BY BoardParts DEF BoardInv, IdsGiven, BulkType, WantTypes, PastTypes
<1>1. CASE r.by = "bulk" /\ bulk.left # {}
  <2>1. /\ \E i \in bulk.left : Board!BulkRequest(posts \ {r}, bulk.kind, i, bulk.left)
        /\ offered' = offered \cup Board!Shown
    BY <1>1 DEF Board!Continues
  <2>2. PICK i \in bulk.left : Board!BulkRequest(posts \ {r}, bulk.kind, i, bulk.left)
    BY <2>1
  <2>3. BulkPosted(posts \ {r}, bulk.kind, i, bulk.left)
    BY <1>1, <1>t, <2>2, BulkPost
  <2>4. PICK q : /\ PostRight(q) /\ q.kind = bulk.kind /\ q.task = i /\ q.at = "sent" /\ q.by = "bulk"
                 /\ Board!SendsBeside(posts \ {r}, q)
                 /\ q.row = Board!Done
                 /\ stale' = stale \cup IF bulk.kind = "set" /\ ~wanted'[i].done THEN {i} ELSE {}
                 /\ bulk' = [kind |-> bulk.kind, left |-> bulk.left \ {i}]
                 /\ given' = given => BulkType' /\ BulkRight'
    BY <2>3, Zenon DEF BulkPosted
  <2>5. i \in Board!Tasks
    BY <1>t, <2>2, BoardParts, GivenAreTasks
  <2>6. WantsOf(q, listed')
    <3>1. \A j \in Board!Tasks : Pending(j) => bulk.kind = "set" /\ j \in bulk.left
      BY DEF Pending
    <3>2. wanted' \in [Board!Tasks -> Board!Row]
      BY <1>s, <1>t DEF WantTypes
    <3> QED
      BY <1>1, <1>s, <1>t, <2>4, <2>5, <3>1, <3>2, BulkWants
  <2>7. /\ PostTypes' /\ PostsFormed' /\ overtaken' \subseteq Board!Tasks
        /\ overtaken \subseteq overtaken'
    BY <1>s, <2>4, PostsSent
  <2>8. q.kind # "load" /\ BulkType' /\ BulkRight' /\ WantTypes' /\ BulkAlive'
    BY <1>1, <1>s, <1>t, <2>4, <2>5 DEF WantTypes, BulkAlive, Board!SendsBeside
  <2>9. offered' \subseteq GivenIds
    BY <1>s, <1>t, <2>1
  <2> QED
    BY <2>4, <2>6, <2>7, <2>8, <2>9
<1>2. CASE ~(r.by = "bulk" /\ bulk.left # {})
  <2>1. /\ posts' = posts \ {r} /\ numbered' = numbered /\ overtaken' = overtaken /\ stale' = stale
        /\ bulk' = IF r.by = "bulk" THEN Board!NoBulk ELSE bulk
        /\ offered' = Board!Shown \cup IF r.by = "bulk" THEN {} ELSE offered
    BY <1>2 DEF Board!Continues, Board!Ends
  <2>2. PostTypes' /\ PostsFormed' /\ overtaken' \subseteq Board!Tasks
    BY <1>s, <2>1, BoardParts DEF PostTypes, PostsFormed, PostRight, BoardInv, PastTypes, GivenIds
  <2>3. BulkType' /\ BulkRight'
    BY <1>s, <1>t, <2>1, BoardParts DEF BulkType, BulkRight, Board!NoBulk, GivenIds
  <2>4. WantTypes' /\ offered' \subseteq GivenIds
    BY <1>s, <1>t, <2>1 DEF WantTypes
  <2>5. \A i : Pending(i)' <=> Pending(i)
    BY <1>2, <2>1 DEF Pending, Board!NoBulk
  <2>6. BulkAlive'
    BY <2>1 DEF BulkAlive, Board!NoBulk, BoardInv
  <2> QED
    BY <2>1, <2>2, <2>3, <2>4, <2>5, <2>6
<1> QED
  BY <1>1, <1>2

LEMMA BoardTaken ==
  ASSUME BoardLimits, BoardInv, NEW r \in posts, Taken(r), Board!Continues(r),
         SheetType', FormRight', modal'.key = modal.key,
         \A i \in Board!Tasks \ overtaken : TaskOk(i, posts \ {r}, listed', doubled', mixed')
  PROVE  BoardInv'
<1>1. /\ PostTypes' /\ PostsFormed' /\ overtaken' \subseteq Board!Tasks /\ overtaken \subseteq overtaken'
      /\ BulkType' /\ BulkRight' /\ WantTypes' /\ offered' \subseteq GivenIds /\ BulkAlive'
      /\ \/ /\ posts' = posts \ {r} /\ overtaken' = overtaken /\ stale' = stale
            /\ \A i : Pending(i)' <=> Pending(i)
         \/ \E q : /\ PostRight(q) /\ q.kind # "load" /\ q.at = "sent"
                   /\ Board!SendsBeside(posts \ {r}, q) /\ WantsOf(q, listed')
  BY TakenOn
<1>2. /\ taskRows' = taskRows /\ given' = given /\ filter' = filter /\ unlisted' = unlisted
      /\ wanted' = wanted /\ loadedFor' = loadedFor
      /\ mixed' = (mixed \/ r.kind = "load") /\ loading' = (loading /\ r.kind # "load")
      /\ listed' \in Board!Tables /\ DOMAIN listed' \subseteq GivenIds
      /\ doubled' \subseteq DOMAIN listed'
  BY DEF Taken
<1>b. mixed' \in BOOLEAN /\ loading' \in BOOLEAN /\ mixed \in BOOLEAN /\ loading \in BOOLEAN
  <2>1. mixed \in BOOLEAN /\ loading \in BOOLEAN
    BY BoardParts DEF ViewTypes
  <2>2. (mixed \/ r.kind = "load") \in BOOLEAN /\ (loading /\ r.kind # "load") \in BOOLEAN
    BY Zenon
  <2> QED
    BY <1>2, <2>1, <2>2
<1>3. TableTypes' /\ ViewTypes' /\ PastTypes'
  <2>1. offered' \subseteq Board!Tasks
    BY <1>1, BoardParts, GivenAreTasks
  <2> QED
    BY <1>1, <1>2, <1>b, <2>1, BoardParts DEF TableTypes, ViewTypes, PastTypes, WantTypes
<1>4. IdsGiven'
  BY <1>1, <1>2 DEF IdsGiven, BoardInv, BulkRight, GivenIds
<1>5. LoadRight'
  <2> SUFFICES ASSUME ~mixed' PROVE LoadRight'
    BY DEF LoadRight
  <2>1. ~mixed /\ r.kind # "load" /\ (loading' <=> loading)
    BY <1>2, <1>b
  <2>2. \A s : s.kind = "load" => (s \in posts' <=> s \in posts)
    BY <1>1, <2>1 DEF Board!SendsBeside
  <2>3. /\ (\A s \in posts : s.kind # "load") => loadedFor = filter /\ ~loading
        /\ \A s, o \in posts : s.kind = "load" /\ o.kind = "load" => s = o
        /\ \A s \in posts : s.kind = "load" => s.filter = filter
    BY <2>1 DEF LoadRight, BoardInv
  <2> QED
    BY <1>2, <2>1, <2>2, <2>3 DEF LoadRight
<1>6. TasksRight'
  <2> SUFFICES ASSUME NEW i \in Board!Tasks, i \notin overtaken'
               PROVE TaskOk(i, posts, listed, doubled, mixed)'
    BY DEF TasksRight, TaskRight, Board!Tasks
  <2>1. TaskOk(i, posts \ {r}, listed', doubled', mixed')
    BY <1>1
  <2>2. CASE /\ posts' = posts \ {r} /\ overtaken' = overtaken /\ stale' = stale
             /\ \A j : Pending(j)' <=> Pending(j)
    <3>1. \A d, t : Like(i, d, t)' <=> Like(i, d, t)
      BY <1>2, <2>2 DEF Like
    <3> QED
      BY <1>2, <2>1, <2>2, <3>1 DEF TaskOk, AloneIn, AtRest, Promised, LoadsRight, SameRow, AsWanted, Due
  <2>3. CASE \E q : /\ PostRight(q) /\ q.kind # "load" /\ q.at = "sent"
                    /\ Board!SendsBeside(posts \ {r}, q) /\ WantsOf(q, listed')
    <3>1. PICK q : /\ PostRight(q) /\ q.kind # "load" /\ q.at = "sent"
                   /\ Board!SendsBeside(posts \ {r}, q) /\ WantsOf(q, listed')
      BY <2>3
    <3>2. posts \ {r} \in SUBSET posts
      OBVIOUS
    <3> QED
      BY <1>2, <2>1, <3>1, <3>2, SentRight DEF WantsOf
  <2> QED
    BY <1>1, <2>2, <2>3
<1>7. modal'.key \in GivenIds' \cup {0}
  BY <1>2 DEF BoardInv, IdsGiven, GivenIds
<1> QED
  BY <1>1, <1>3, <1>4, <1>5, <1>6, BoardTypesNext DEF BoardInv

LEMMA BoardFail ==
  ASSUME BoardLimits, BoardInv, NEW r \in posts, Board!Fail(r) PROVE BoardInv'
<1>1. /\ r.at = "refused" /\ Board!Continues(r)
      /\ taskRows' = taskRows /\ given' = given /\ filter' = filter /\ unlisted' = unlisted
      /\ wanted' = wanted /\ failed' = failed /\ loadedFor' = loadedFor
      /\ listed' = listed /\ doubled' = doubled
      /\ mixed' = (mixed \/ r.kind = "load") /\ loading' = (loading /\ r.kind # "load")
      /\ modal' = IF modal.saving = r.n THEN [modal EXCEPT !.saving = 0] ELSE modal
  BY DEF Board!Fail, Board!table, Board!list
<1>2. Taken(r)
  BY <1>1, BoardParts DEF Taken, TableTypes, BoardInv, IdsGiven
<1>3. SheetType' /\ FormRight' /\ modal'.key = modal.key
  <2>1. 0 \in 0 .. MaxRequests
    BY DEF BoardLimits
  <2> QED
    BY <1>1, <2>1, BoardParts DEF SheetType, FormRight, BoardInv
<1>4. \A i \in Board!Tasks \ overtaken : TaskOk(i, posts \ {r}, listed', doubled', mixed')
  <2> SUFFICES ASSUME NEW i \in Board!Tasks \ overtaken
               PROVE TaskOk(i, posts \ {r}, listed, doubled, mixed')
    BY <1>1
  <2>1. TaskOk(i, posts, listed, doubled, mixed)
    BY DEF BoardInv, TasksRight, TaskRight
  <2>2. i \notin Board!About(r)
    BY <1>1, <2>1 DEF TaskOk, Promised
  <2>m. Due(i, mixed') => Due(i, mixed) /\ r.kind # "load"
    BY <1>1 DEF Due
  <2>3. (\A s \in posts \ {r} : i \notin Board!About(s)) => AtRest(i, posts \ {r}, listed, mixed')
    BY <2>1, <2>2, <2>m DEF TaskOk, AtRest
  <2>4. \A s \in posts \ {r} : i \in Board!About(s) => Promised(s, i, listed, mixed')
    BY <2>1, <2>m DEF TaskOk, Promised
  <2>5. LoadsRight(i, posts \ {r}, mixed')
    BY <2>1, <2>m DEF TaskOk, LoadsRight
  <2> QED
    BY <2>1, <2>3, <2>4, <2>5 DEF TaskOk, AloneIn
<1> QED
  BY <1>1, <1>2, <1>3, <1>4, BoardTaken

LEMMA BoardTakeLoad ==
  ASSUME BoardLimits, BoardInv, NEW r \in posts, r.at = "answered", Board!TakeLoad(r)
  PROVE  BoardInv'
<1>1. /\ r.kind = "load" /\ posts' = posts \ {r}
      /\ listed' = r.got /\ doubled' = {} /\ loading' = FALSE
      /\ loadedFor' = r.filter /\ unlisted' = unlisted \ DOMAIN r.got
      /\ offered' = offered \cup Board!Shown
      /\ taskRows' = taskRows /\ given' = given /\ filter' = filter /\ bulk' = bulk /\ modal' = modal
      /\ numbered' = numbered /\ failed' = failed /\ mixed' = mixed /\ overtaken' = overtaken
      /\ wanted' = wanted /\ stale' = stale
  BY DEF Board!TakeLoad, Board!Ends, Board!table
<1>2. r.got \in Board!Tables /\ DOMAIN r.got \subseteq GivenIds /\ r.filter \in Board!Filters
  BY DEF BoardInv, PostsFormed, PostRight, Board!Request
<1>3. Board!Shown \subseteq GivenIds
  BY <1>1, <1>2, ShownGiven
<1>4. TableTypes' /\ BulkType' /\ SheetType' /\ FormRight' /\ PostTypes' /\ PastTypes' /\ PostsFormed'
  BY <1>1, <1>2, BoardParts
     DEF TableTypes, BulkType, SheetType, FormRight, PostTypes, PastTypes, PostsFormed, PostRight,
         BoardInv, GivenIds
<1>5. ViewTypes'
  <2>1. offered' \subseteq Board!Tasks
    BY <1>1, <1>3, BoardParts, GivenAreTasks DEF ViewTypes
  <2> QED
    BY <1>1, <1>2, <2>1, BoardParts DEF ViewTypes
<1>6. IdsGiven'
  BY <1>1, <1>2, <1>3 DEF IdsGiven, BoardInv, GivenIds
<1>7. LoadRight'
  BY <1>1 DEF LoadRight, BoardInv
<1>8. TasksRight'
  <2> SUFFICES ASSUME NEW i \in Board!Tasks, i \notin overtaken
               PROVE TaskOk(i, posts, listed, doubled, mixed)'
    BY <1>1 DEF TasksRight, TaskRight, Board!Tasks
  <2>1. TaskOk(i, posts, listed, doubled, mixed)
    BY DEF BoardInv, TasksRight, TaskRight
  <2>2. \A s \in posts : i \notin Board!About(s)
    <3> SUFFICES ASSUME NEW s \in posts, i \in Board!About(s) PROVE FALSE
      OBVIOUS
    <3>1. r = s
      BY <1>1, <2>1 DEF TaskOk, AloneIn
    <3>2. Board!About(r) = {}
      BY <1>1, AboutPost DEF BoardInv, PostsFormed
    <3> QED
      BY <3>1, <3>2
  <2>3. SameRow(r.got, i) /\ (Due(i, mixed) => i \in DOMAIN r.got)
    BY <1>1, <2>1 DEF TaskOk, LoadsRight
  <2>4. Due(i, mixed)' => i \in DOMAIN r.got
    BY <1>1, <2>3 DEF Due
  <2>5. AtRest(i, posts, listed, mixed)'
    BY <1>1, <2>1, <2>2, <2>3, <2>4 DEF TaskOk, AtRest, SameRow, AsWanted, Like, Pending
  <2>6. LoadsRight(i, posts, mixed)'
    <3> SUFFICES ASSUME NEW s \in posts', s.kind = "load", s.at = "answered"
                 PROVE SameRow(s.got, i)' /\ (Due(i, mixed)' => i \in DOMAIN s.got)
      BY DEF LoadsRight
    <3>1. SameRow(s.got, i)'
      BY <1>1, <2>1 DEF TaskOk, LoadsRight, SameRow
    <3>2. mixed' = TRUE
      BY <1>1, <1>5 DEF BoardInv, LoadRight, ViewTypes
    <3> QED
      BY <3>1, <3>2 DEF Due
  <2> QED
    BY <1>1, <2>2, <2>5, <2>6 DEF TaskOk, AloneIn
<1>9. BulkAlive'
  <2>1. r.by # "bulk"
    BY <1>1 DEF BoardInv, PostsFormed, PostRight
  <2> QED
    BY <1>1, <2>1 DEF BulkAlive, BoardInv
<1> QED
  BY <1>4, <1>5, <1>6, <1>7, <1>8, <1>9, BoardTypesNext DEF BoardInv

LEMMA PutTable ==
  ASSUME NEW d \in Board!Tables, NEW e \in Board!Tables
  PROVE  /\ Board!Put(d, e) \in Board!Tables /\ DOMAIN Board!Put(d, e) = DOMAIN d \cup DOMAIN e
         /\ \A i \in DOMAIN e : Board!Put(d, e)[i] = e[i]
         /\ \A i \in DOMAIN d \ DOMAIN e : Board!Put(d, e)[i] = d[i]
<1> DEFINE p == Board!Put(d, e)
<1>1. DOMAIN d \subseteq Board!Tasks /\ d \in [DOMAIN d -> Board!Row]
      /\ DOMAIN e \subseteq Board!Tasks /\ e \in [DOMAIN e -> Board!Row]
  BY TableParts
<1>2. p = [i \in DOMAIN d \cup DOMAIN e |-> IF i \in DOMAIN e THEN e[i] ELSE d[i]]
  BY DEF Board!Put
<1>3. p \in [DOMAIN d \cup DOMAIN e -> Board!Row]
  BY <1>1, <1>2
<1>4. p \in Board!Tables
  BY <1>1, <1>3, TablesAre
<1> QED
  BY <1>2, <1>4

LEMMA DropTable ==
  ASSUME NEW d \in Board!Tables, NEW k
  PROVE  /\ Board!Drop(d, k) \in Board!Tables /\ DOMAIN Board!Drop(d, k) = DOMAIN d \ {k}
         /\ \A i \in DOMAIN d \ {k} : Board!Drop(d, k)[i] = d[i]
<1> DEFINE p == Board!Drop(d, k)
<1>1. DOMAIN d \subseteq Board!Tasks /\ d \in [DOMAIN d -> Board!Row]
  BY TableParts
<1>2. p = [i \in DOMAIN d \ {k} |-> d[i]]
  BY DEF Board!Drop
<1>3. p \in [DOMAIN d \ {k} -> Board!Row] /\ DOMAIN d \ {k} \in SUBSET Board!Tasks
  BY <1>1, <1>2
<1>4. p \in Board!Tables
  BY <1>3, TablesAre
<1> QED
  BY <1>2, <1>4

\* What the answer of a write does to the list.
ListTaken(r) ==
    /\ listed' \in Board!Tables /\ DOMAIN listed' \subseteq GivenIds /\ doubled' \subseteq DOMAIN listed'
    /\ \A i \in Board!Tasks \ Board!About(r) :
          /\ i \in DOMAIN listed' <=> i \in DOMAIN listed
          /\ i \in DOMAIN listed => listed'[i] = listed[i]
          /\ i \in doubled' => i \in doubled
    /\ r.kind = "remove" => r.task \notin DOMAIN listed'
    /\ r.kind = "set" => /\ r.task \in DOMAIN listed' <=> r.task \in DOMAIN listed
                         /\ r.task \in DOMAIN listed => listed'[r.task] = r.got[r.task]
                         /\ r.task \in doubled' => r.task \in doubled
    /\ r.kind \in {"save", "create"} =>
          \A i \in DOMAIN r.got : /\ i \in DOMAIN listed' /\ listed'[i] = r.got[i]
                                  /\ i \in doubled' => i \in DOMAIN listed /\ (r.kind = "save" => i \in doubled)

LEMMA BoardListTaken ==
  ASSUME BoardLimits, BoardInv, NEW r \in posts, r.at = "answered", r.kind # "load", Board!Takes(r)
  PROVE  ListTaken(r)
<1>1. PostRight(r) /\ r.got \in Board!Tables /\ DOMAIN r.got \subseteq GivenIds
      /\ r.kind \in {"set", "save", "create", "remove"}
  BY DEF BoardInv, PostsFormed, PostRight, Board!Request, Board!Kinds
<1>2. /\ r.kind = "create" => Board!About(r) = DOMAIN r.got
      /\ r.kind # "create" => Board!About(r) = {r.task} /\ r.task \in GivenIds
  BY <1>1, AboutPost
<1>3. r.kind \in {"set", "save"} => DOMAIN r.got = {r.task}
  BY <1>1 DEF PostRight
<1>4. listed \in Board!Tables /\ DOMAIN listed \subseteq GivenIds /\ doubled \subseteq DOMAIN listed
  BY BoardParts DEF TableTypes, BoardInv, IdsGiven
<1>5. /\ Board!Put(listed, r.got) \in Board!Tables
      /\ DOMAIN Board!Put(listed, r.got) = DOMAIN listed \cup DOMAIN r.got
      /\ \A i \in DOMAIN r.got : Board!Put(listed, r.got)[i] = r.got[i]
      /\ \A i \in DOMAIN listed \ DOMAIN r.got : Board!Put(listed, r.got)[i] = listed[i]
  BY <1>1, <1>4, PutTable
<1> DEFINE there == DOMAIN r.got \cap DOMAIN listed
<1>6. CASE r.kind = "remove"
  <2>1. listed' = Board!Drop(listed, r.task) /\ doubled' = doubled \ {r.task}
    BY <1>6 DEF Board!Takes
  <2>2. /\ Board!Drop(listed, r.task) \in Board!Tables
        /\ DOMAIN Board!Drop(listed, r.task) = DOMAIN listed \ {r.task}
        /\ \A i \in DOMAIN listed \ {r.task} : Board!Drop(listed, r.task)[i] = listed[i]
    BY <1>4, DropTable
  <2> QED
    BY <1>2, <1>4, <1>6, <2>1, <2>2 DEF ListTaken
<1>7. CASE r.kind = "set"
  <2>1. listed' = (IF there = {} THEN listed ELSE Board!Put(listed, r.got)) /\ doubled' = doubled
    BY <1>7 DEF Board!Takes
  <2>2. CASE there = {}
    <3>1. r.task \notin DOMAIN listed /\ listed' = listed
      BY <1>3, <1>7, <2>1, <2>2
    <3> QED
      BY <1>2, <1>4, <1>7, <2>1, <3>1 DEF ListTaken
  <2>3. CASE there # {}
    <3>1. r.task \in DOMAIN listed /\ listed' = Board!Put(listed, r.got)
      BY <1>3, <1>7, <2>1, <2>3
    <3> QED
      BY <1>2, <1>3, <1>4, <1>5, <1>7, <2>1, <3>1 DEF ListTaken
  <2> QED
    BY <2>2, <2>3
<1>8. CASE r.kind \in {"save", "create"}
  <2>1. /\ listed' = Board!Put(listed, r.got)
        /\ doubled' = IF r.by = "quick" THEN doubled \cup there ELSE doubled
    BY <1>8 DEF Board!Takes
  <2>2. r.by = "quick" => r.kind = "create"
    BY <1>1 DEF PostRight
  <2>3. r.kind \in {"save", "create"} => DOMAIN r.got = Board!About(r)
    BY <1>2, <1>3
  <2> QED
    BY <1>1, <1>2, <1>4, <1>5, <1>8, <2>1, <2>2, <2>3 DEF ListTaken
<1> QED
  BY <1>1, <1>6, <1>7, <1>8

LEMMA BoardSaved ==
  ASSUME BoardLimits, BoardInv, NEW r, Board!Saved(r)
  PROVE  SheetType' /\ FormRight' /\ modal'.key = modal.key
<1>1. \/ modal' = modal \/ modal' = [modal EXCEPT !.open = FALSE]
      \/ modal' = [modal EXCEPT !.open = FALSE, !.saving = 0, !.base = modal.form, !.touched = {}]
  BY DEF Board!Saved
<1>2. SheetType /\ 0 \in 0 .. MaxRequests
  BY BoardParts DEF BoardLimits
<1> QED
  BY <1>1, <1>2 DEF SheetType, FormRight, BoardInv

LEMMA BoardTakeWrite ==
  ASSUME BoardLimits, BoardInv, NEW r \in posts, r.at = "answered", r.kind # "load",
         Board!Take(r), ~Board!TakeLoad(r)
  PROVE  BoardInv'
<1>1. /\ Board!Takes(r) /\ Board!Continues(r) /\ Board!Saved(r)
      /\ taskRows' = taskRows /\ given' = given /\ filter' = filter /\ unlisted' = unlisted
      /\ wanted' = wanted /\ failed' = failed /\ loadedFor' = loadedFor
      /\ mixed' = mixed /\ loading' = loading
  BY DEF Board!Take, Board!table, Board!view
<1>2. ListTaken(r)
  BY <1>1, BoardListTaken
<1>3. Taken(r)
  <2>1. mixed \in BOOLEAN /\ loading \in BOOLEAN
    BY BoardParts DEF ViewTypes
  <2>2. (mixed \/ r.kind = "load") = mixed /\ (loading /\ r.kind # "load") = loading
    BY <2>1
  <2> QED
    BY <1>1, <1>2, <2>2 DEF Taken, ListTaken
<1>4. SheetType' /\ FormRight' /\ modal'.key = modal.key
  BY <1>1, BoardSaved
<1>5. PostRight(r) /\ r.kind \in {"set", "save", "create", "remove"}
  BY DEF BoardInv, PostsFormed, PostRight, Board!Request, Board!Kinds
<1>6. \A i \in Board!Tasks \ overtaken : TaskOk(i, posts \ {r}, listed', doubled', mixed')
  <2> SUFFICES ASSUME NEW i \in Board!Tasks \ overtaken
               PROVE TaskOk(i, posts \ {r}, listed', doubled', mixed)
    BY <1>1
  <2>1. TaskOk(i, posts, listed, doubled, mixed)
    BY DEF BoardInv, TasksRight, TaskRight
  <2>2. AloneIn(i, posts \ {r}) /\ LoadsRight(i, posts \ {r}, mixed) /\ i \notin doubled
    BY <2>1 DEF TaskOk, AloneIn, LoadsRight
  <2>3. CASE i \notin Board!About(r)
    <3>1. /\ i \in DOMAIN listed' <=> i \in DOMAIN listed
          /\ i \in DOMAIN listed => listed'[i] = listed[i]
          /\ i \notin doubled'
      BY <1>2, <2>2, <2>3 DEF ListTaken
    <3>2. (\A s \in posts \ {r} : i \notin Board!About(s)) => AtRest(i, posts \ {r}, listed', mixed)
      BY <1>5, <2>1, <2>3, <3>1 DEF TaskOk, AtRest, SameRow
    <3>3. \A s \in posts \ {r} : i \in Board!About(s) => Promised(s, i, listed', mixed)
      <4> SUFFICES ASSUME NEW s \in posts \ {r}, i \in Board!About(s)
                   PROVE Promised(s, i, listed', mixed)
        OBVIOUS
      <4>1. Promised(s, i, listed, mixed)
        BY <2>1 DEF TaskOk
      <4>2. SameRow(listed', i) <=> SameRow(listed, i)
        BY <3>1 DEF SameRow
      <4> QED
        BY <3>1, <4>1, <4>2 DEF Promised
    <3> QED
      BY <2>2, <3>1, <3>2, <3>3 DEF TaskOk
  <2>4. CASE i \in Board!About(r)
    <3>1. Promised(r, i, listed, mixed)
      BY <2>1, <2>4 DEF TaskOk
    <3>2. \A s \in posts \ {r} : s.kind # "load" /\ i \notin Board!About(s)
      BY <2>1, <2>4 DEF TaskOk, AloneIn
    <3>3. AtRest(i, posts \ {r}, listed', mixed) /\ i \notin doubled'
      <4>1. CASE r.kind = "remove"
        <5>1. i = r.task
          BY <1>5, <2>4, <4>1, AboutPost
        <5>2. i \notin DOMAIN taskRows
          BY <3>1, <4>1 DEF Promised
        <5>3. i \notin DOMAIN listed' /\ i \notin doubled'
          BY <1>2, <4>1, <5>1 DEF ListTaken
        <5> QED
          BY <5>2, <5>3 DEF AtRest, SameRow, AsWanted, Due
      <4>2. CASE r.kind = "set"
        <5>1. i = r.task
          BY <1>5, <2>4, <4>2, AboutPost
        <5>2. i \in DOMAIN taskRows /\ r.got[i] = taskRows[i] /\ AsWanted(i)
              /\ (Due(i, mixed) => i \in DOMAIN listed)
          BY <3>1, <4>2 DEF Promised
        <5> QED
          BY <1>2, <2>2, <4>2, <5>1, <5>2 DEF ListTaken, AtRest, SameRow
      <4>3. CASE r.kind \in {"save", "create"}
        <5>1. i \in DOMAIN r.got
          <6>1. r.kind = "save" => DOMAIN r.got = {r.task}
            BY <1>5 DEF PostRight
          <6> QED
            BY <1>5, <2>4, <4>3, <6>1, AboutPost
        <5>2. i \in DOMAIN taskRows /\ r.got[i] = taskRows[i] /\ AsWanted(i)
              /\ (r.kind = "create" => i \notin DOMAIN listed)
          BY <3>1, <4>3 DEF Promised
        <5>3. i \in DOMAIN listed' /\ listed'[i] = r.got[i] /\ i \notin doubled'
          BY <1>2, <2>2, <4>3, <5>1, <5>2 DEF ListTaken
        <5> QED
          BY <5>2, <5>3 DEF AtRest, SameRow
      <4> QED
        BY <1>5, <4>1, <4>2, <4>3
    <3> QED
      BY <2>2, <3>2, <3>3 DEF TaskOk
  <2> QED
    BY <2>3, <2>4
<1> QED
  BY <1>1, <1>3, <1>4, <1>6, BoardTaken

LEMMA BoardTake ==
  ASSUME BoardLimits, BoardInv, NEW r \in posts, Board!Take(r) PROVE BoardInv'
<1>1. r.at = "answered" /\ (r.kind = "load" => Board!TakeLoad(r))
  BY DEF Board!Take
<1>2. Board!TakeLoad(r) => r.kind = "load"
  BY DEF Board!TakeLoad
<1> QED
  BY <1>1, <1>2, BoardTakeLoad, BoardTakeWrite

LEMMA BoardNext == ASSUME BoardLimits, BoardInv, [Board!Next]_Board!vars PROVE BoardInv'
<1>1. CASE UNCHANGED Board!vars
  <2>1. /\ SheetOnly /\ modal' = modal
    BY <1>1 DEF Board!vars, Board!table, Board!list, Board!view, Board!picks, Board!calls, Board!hist,
                SheetOnly, TasksStay
  <2>2. SheetType' /\ FormRight' /\ modal'.key \in GivenIds \cup {0}
    BY <2>1, BoardParts DEF SheetType, FormRight, BoardInv, IdsGiven
  <2> QED
    BY <2>1, <2>2, SheetMoves
<1>2. CASE Board!Next
  BY <1>2, BoardSetFilter, BoardToggle, BoardDelete, BoardSheet, BoardQuickAdd, BoardSave,
     BoardStartBulk, BoardServe, BoardRefuse, BoardTake, BoardFail DEF Board!Next
<1> QED
  BY <1>1, <1>2

-----------------------------------------------------------------------------
(* However the requests of the tasks page cross, fail or are answered      *)
(* late: at rest the list is that of the tab chosen, its rows are the      *)
(* server's, and a task is as the user chose it last, in what is sent of   *)
(* it, but for the exceptions that BoardHolds names (tasks/page.tsx,       *)
(* TaskModal.tsx, tasks.service.ts).                                       *)
THEOREM BoardAlwaysHolds == BoardLimits => (SafeSpec => []BoardHolds)
<1> SUFFICES ASSUME BoardLimits PROVE SafeSpec => []BoardHolds
  OBVIOUS
<1> DEFINE Kept == subject = "board" => BoardInv
<1>1. FirstSafe => Kept
  BY BoardInit, FirstOfSubject
<1>2. Kept /\ [StepSafe]_safeVars => Kept'
  BY BoardNext, StepOfSubject
<1>3. Kept => BoardHolds
  BY BoardInvHolds DEF BoardHolds
<1> QED
  BY <1>1, <1>2, <1>3, PTL DEF SafeSpec
=============================================================================
