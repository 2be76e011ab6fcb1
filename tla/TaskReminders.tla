--------------------------- MODULE TaskReminders ---------------------------
(***************************************************************************)
(* The occurrences of one recurring task: the minute job that mails due    *)
(* reminders (tasks.scheduler.ts) and the user's requests that create,     *)
(* edit, complete, reopen and delete a task (tasks.service.ts).  The job   *)
(* is not declared with waitForCompletion, so a tick may start while an    *)
(* earlier one, of this process or another, is still at work.  A reminder  *)
(* is named <<task, n>>: the one set by the n-th edit of that task.  The   *)
(* recurrence rule, dueDate and recurrenceEndDate of the series are fixed. *)
(***************************************************************************)
EXTENDS Naturals

CONSTANTS Tasks,     \* ids of the table Task (bound: occurrences ever created)
          Ticks,     \* ticks of the job that may be at work at once
          Requests,  \* update requests ever made, each at most once (bound)
          LastNth,   \* the last occurrence before recurrenceEndDate
          MaxEdits,  \* bound on the edits of one task's reminder
          MaxFaults, \* bound on errors and process deaths
          Nothing

ASSUME ConstantsAssumption ==
    /\ LastNth \in Nat \ {0} /\ MaxEdits \in Nat /\ MaxFaults \in Nat
    /\ Nothing \notin Tasks

Reminders == Tasks \X (0 .. MaxEdits)
Nil       == <<Nothing, 0>>

VARIABLES
    \* columns
    status,   \* "none" before the row exists, "gone" once it is deleted
    nth,      \* dueDate, as the number of the occurrence
    remind,   \* reminderAt: "off", not reached yet, or reached
    sentAt,   \* reminderSentAt is set
    version,  \* edits of the reminder so far
    token,    \* the owner has a provider token
    \* ticks
    pc, batch, cur,
    \* update requests
    req,
    faults,
    \* history, for the properties only
    mailed,   \* times the mail server accepted each reminder
    told,     \* TASK_DUE notifications
    twice,    \* held by two ticks at once, or accepted without being recorded
    crossed,  \* set while a tick held an earlier reminder of the task
    loose,    \* occurrences reopened, or updated by two requests at once
    broken    \* occurrences whose completion was cut short, or created done

columns  == <<status, nth, remind, sentAt, version>>
ticks    == <<pc, batch, cur>>
hist     == <<mailed, told, twice, crossed, loose, broken>>
vars     == <<columns, token, ticks, req, faults, hist>>

Alive     == {"open", "done", "cancelled"}
Remind    == {"off", "later", "due"}
Same      == "same"   \* a field the dto leaves out
Dto       == [status : Alive \cup {Same}, remind : Remind \cup {Same}]
Sending   == {"await", "accepted", "mark"}

\* An update request: its place, its arguments, and the status and reminder
\* of the row it read.
Request == [at : {"new", "write", "spawn", "ended"}, task : Tasks \cup {Nothing},
            dto : Dto, from : Alive, had : Remind]
NoRequest(place) ==
    [at |-> place, task |-> Nothing, dto |-> [status |-> Same, remind |-> Same],
     from |-> "open", had |-> "off"]
InFlight(r) == req[r].at \in {"write", "spawn"}

TypeOK ==
    /\ status \in [Tasks -> Alive \cup {"none", "gone"}]
    /\ nth \in [Tasks -> 0 .. LastNth]
    /\ remind \in [Tasks -> Remind]
    /\ sentAt \in [Tasks -> BOOLEAN]
    /\ version \in [Tasks -> 0 .. MaxEdits]
    /\ token \in BOOLEAN
    /\ pc \in [Ticks -> {"idle", "loop", "notify"} \cup Sending]
    /\ batch \in [Ticks -> SUBSET Reminders]
    /\ cur \in [Ticks -> Reminders \cup {Nil}]
    /\ req \in [Requests -> Request]
    /\ faults \in 0 .. MaxFaults
    /\ mailed \in [Reminders -> Nat]
    /\ told \subseteq Reminders
    /\ twice \subseteq Reminders /\ crossed \subseteq Reminders
    /\ loose \subseteq 0 .. LastNth /\ broken \subseteq 0 .. LastNth

Init ==
    /\ status = [i \in Tasks |-> "none"]
    /\ nth = [i \in Tasks |-> 0]
    /\ remind = [i \in Tasks |-> "off"]
    /\ sentAt = [i \in Tasks |-> FALSE]
    /\ version = [i \in Tasks |-> 0]
    /\ token = TRUE
    /\ pc = [k \in Ticks |-> "idle"]
    /\ batch = [k \in Ticks |-> {}]
    /\ cur = [k \in Ticks |-> Nil]
    /\ req = [r \in Requests |-> NoRequest("new")]
    /\ faults = 0
    /\ mailed = [p \in Reminders |-> 0]
    /\ told = {} /\ twice = {} /\ crossed = {} /\ loose = {} /\ broken = {}

Fault == faults < MaxFaults /\ faults' = faults + 1

-----------------------------------------------------------------------------
(* sendDueReminders.                                                       *)

\* The reminders a tick has listed and not yet dealt with.
Hand(k) == batch[k] \cup (IF pc[k] \in Sending THEN {cur[k]} ELSE {})

\* Mutant: reminders already sent are listed too.
DueOrSent(i) == status[i] = "open" /\ remind[i] = "due"

Due(i) == status[i] = "open" /\ remind[i] = "due" /\ ~sentAt[i]

\* Mutant: reminderAt is compared the wrong way round.
QueryUpcoming(k) ==
    /\ pc[k] = "idle"
    /\ batch' = [batch EXCEPT ![k] =
           {<<i, version[i]>> : i \in {j \in Tasks :
                status[j] = "open" /\ remind[j] = "later" /\ ~sentAt[j] /\ token}}]
    /\ pc' = [pc EXCEPT ![k] = "loop"]
    /\ UNCHANGED <<columns, token, cur, req, faults, hist>>

\* findMany with include: { user }; rows of a user without a token, which the
\* loop would skip, are left out at once.
Query(k) ==
    /\ pc[k] = "idle"
    /\ LET found == {<<i, version[i]>> : i \in {j \in Tasks : Due(j) /\ token}}
       IN  /\ batch' = [batch EXCEPT ![k] = found]
           /\ twice' = twice \cup {p \in found : \E l \in Ticks \ {k} : p \in Hand(l)}
    /\ pc' = [pc EXCEPT ![k] = "loop"]
    /\ UNCHANGED <<columns, token, cur, req, faults, mailed, told, crossed,
                   loose, broken>>

\* The row as it was listed decides, not the row as it is now.
Send(k, p) ==
    /\ pc[k] = "loop" /\ p \in batch[k]
    /\ batch' = [batch EXCEPT ![k] = @ \ {p}]
    /\ cur' = [cur EXCEPT ![k] = p]
    /\ pc' = [pc EXCEPT ![k] = "await"]
    /\ UNCHANGED <<columns, token, req, faults, hist>>

ServerAccepts(k) ==
    /\ pc[k] = "await"
    /\ mailed' = [mailed EXCEPT ![cur[k]] = @ + 1]
    /\ pc' = [pc EXCEPT ![k] = "accepted"]
    /\ UNCHANGED <<columns, token, batch, cur, req, faults, told, twice,
                   crossed, loose, broken>>

AnswerOk(k) ==
    /\ pc[k] = "accepted"
    /\ pc' = [pc EXCEPT ![k] = "mark"]
    /\ UNCHANGED <<columns, token, batch, cur, req, faults, hist>>

\* The update is by id; a deleted row makes it throw, and the catch goes on
\* with the next one.
Mark(k) ==
    /\ pc[k] = "mark"
    /\ LET i == cur[k][1] IN
       IF status[i] = "gone"
       THEN pc' = [pc EXCEPT ![k] = "loop"] /\ UNCHANGED sentAt
       ELSE pc' = [pc EXCEPT ![k] = "notify"] /\ sentAt' = [sentAt EXCEPT ![i] = TRUE]
    /\ UNCHANGED <<status, nth, remind, version, token, batch, cur, req,
                   faults, hist>>

\* createNotification(...).catch(() => {}): created or lost.
Notify(k) ==
    /\ pc[k] = "notify"
    /\ told' = told \cup {cur[k]} \/ UNCHANGED told
    /\ pc' = [pc EXCEPT ![k] = "loop"]
    /\ UNCHANGED <<columns, token, batch, cur, req, faults, mailed, twice,
                   crossed, loose, broken>>

\* An error from the server, a lost answer, or a write that is refused: the
\* catch leaves the reminder for the next tick.  A mail accepted after the
\* sender gave up counts as accepted before.
SendFails(k) ==
    /\ pc[k] \in Sending /\ Fault
    /\ pc' = [pc EXCEPT ![k] = "loop"]
    /\ twice' = IF pc[k] = "await" THEN twice ELSE twice \cup {cur[k]}
    /\ UNCHANGED <<columns, token, batch, cur, req, mailed, told, crossed,
                   loose, broken>>

EndTick(k) ==
    /\ pc[k] = "loop" /\ batch[k] = {}
    /\ pc' = [pc EXCEPT ![k] = "idle"]
    /\ UNCHANGED <<columns, token, batch, cur, req, faults, hist>>

\* The process dies under the tick.
TickDies(k) ==
    /\ pc[k] # "idle" /\ Fault
    /\ pc' = [pc EXCEPT ![k] = "idle"]
    /\ batch' = [batch EXCEPT ![k] = {}]
    /\ twice' = IF pc[k] \in {"accepted", "mark"} THEN twice \cup {cur[k]} ELSE twice
    /\ UNCHANGED <<columns, token, cur, req, mailed, told, crossed, loose,
                   broken>>

-----------------------------------------------------------------------------
(* The user.                                                               *)

Exists(i) == status[i] \in Alive
Unused(i) == status[i] = "none"

NewRow(i, s, n, r) ==
    /\ status' = [status EXCEPT ![i] = s]
    /\ nth' = [nth EXCEPT ![i] = n]
    /\ remind' = [remind EXCEPT ![i] = r]

\* create: the first occurrence of the series, with the status of the dto.
Create(i, s, r) ==
    /\ \A j \in Tasks : Unused(j)
    /\ NewRow(i, s, 1, r)
    /\ broken' = IF s = "done" THEN broken \cup {1} ELSE broken
    /\ UNCHANGED <<sentAt, version, token, ticks, req, faults, mailed, told,
                   twice, crossed, loose>>

\* update: the row is read; a missing one is a 404.  Bound: MaxEdits.
UpdateReads(r, i, d) ==
    /\ req[r].at = "new" /\ Exists(i)
    /\ d.remind # Same => version[i] < MaxEdits
    /\ req' = [req EXCEPT ![r] = [at |-> "write", task |-> i, dto |-> d,
                                  from |-> status[i], had |-> remind[i]]]
    /\ loose' = IF \E s \in Requests : InFlight(s) /\ req[s].task = i
                THEN loose \cup {nth[i]} ELSE loose
    /\ UNCHANGED <<columns, token, ticks, faults, mailed, told, twice, crossed,
                   broken>>

GoingDone(q) == q.dto.status = "done" /\ q.from # "done"

End(r) == req' = [req EXCEPT ![r] = NoRequest("ended")]

\* reminderAt comes with reminderSentAt: null.  Bound: MaxEdits.
SetReminder(i, new) ==
    IF new = Same THEN UNCHANGED <<remind, sentAt, version>>
    ELSE /\ version[i] < MaxEdits
         /\ remind' = [remind EXCEPT ![i] = new]
         /\ version' = [version EXCEPT ![i] = @ + 1]
         /\ sentAt' = [sentAt EXCEPT ![i] = FALSE]

SetStatus(i, new) == status' = IF new = Same THEN status ELSE [status EXCEPT ![i] = new]

\* The fields of the dto are written by id; the next occurrence follows when
\* the row read was not done and the end date allows one.
UpdateWrites(r) ==
    /\ req[r].at = "write" /\ Exists(req[r].task)
    /\ LET i == req[r].task IN
       /\ SetStatus(i, req[r].dto.status)
       /\ SetReminder(i, req[r].dto.remind)
       /\ IF GoingDone(req[r]) /\ nth[i] < LastNth
          THEN req' = [req EXCEPT ![r].at = "spawn"]
          ELSE End(r)
       /\ loose' = IF status[i] = "done" /\ status'[i] # "done"
                   THEN loose \cup {nth[i]} ELSE loose
       /\ crossed' = IF version'[i] # version[i] /\ \E k \in Ticks : \E p \in Hand(k) : p[1] = i
                     THEN crossed \cup {<<i, version'[i]>>} ELSE crossed
    /\ UNCHANGED <<nth, token, ticks, faults, mailed, told, twice, broken>>

\* The row was deleted since it was read: the update throws.
UpdateMissesRow(r) ==
    /\ req[r].at = "write" /\ ~Exists(req[r].task)
    /\ End(r)
    /\ UNCHANGED <<columns, token, ticks, faults, hist>>

\* The next occurrence keeps the offset of the reminder that was read, so its
\* reminder may already be due.
UpdateSpawns(r) ==
    /\ req[r].at = "spawn"
    /\ \E i \in Tasks, next \in Remind :
          /\ Unused(i)
          /\ next = "off" <=> req[r].had = "off"
          /\ NewRow(i, "open", nth[req[r].task] + 1, next)
    /\ End(r)
    /\ UNCHANGED <<sentAt, version, token, ticks, faults, hist>>

\* A write of the request is refused, or its process dies.
RequestFails(r) ==
    /\ InFlight(r) /\ Fault
    /\ End(r)
    /\ broken' = IF req[r].at = "spawn" THEN broken \cup {nth[req[r].task]} ELSE broken
    /\ UNCHANGED <<columns, token, ticks, mailed, told, twice, crossed, loose>>

Remove(i) ==
    /\ Exists(i)
    /\ status' = [status EXCEPT ![i] = "gone"]
    /\ UNCHANGED <<nth, remind, sentAt, version, token, ticks, req, faults,
                   hist>>

SignInOrOut ==
    /\ token' = ~token
    /\ UNCHANGED <<columns, ticks, req, faults, hist>>

\* The clock reaches reminderAt.
TimePasses(i) ==
    /\ remind[i] = "later"
    /\ remind' = [remind EXCEPT ![i] = "due"]
    /\ UNCHANGED <<status, nth, sentAt, version, token, ticks, req, faults,
                   hist>>

-----------------------------------------------------------------------------
TickStep(k) ==
    \/ Query(k) \/ ServerAccepts(k) \/ AnswerOk(k) \/ Mark(k) \/ Notify(k)
    \/ EndTick(k) \/ \E p \in Reminders : Send(k, p)

RequestStep(r) ==
    UpdateWrites(r) \/ UpdateMissesRow(r) \/ UpdateSpawns(r) \/ RequestFails(r)

Next ==
    \/ \E k \in Ticks : TickStep(k) \/ SendFails(k) \/ TickDies(k)
    \/ \E r \in Requests : RequestStep(r) \/ \E i \in Tasks, d \in Dto : UpdateReads(r, i, d)
    \/ \E i \in Tasks : Remove(i) \/ TimePasses(i)
    \/ \E i \in Tasks, s \in Alive, r \in Remind : Create(i, s, r)
    \/ SignInOrOut

Spec == Init /\ [][Next]_vars

\* The cron fires every minute and the mail server answers (the Zimbra client
\* has timeouts).  Users, faults and update requests owe nothing.
FairSpec == Spec /\ \A k \in Ticks : WF_vars(TickStep(k))

-----------------------------------------------------------------------------
(* What the ticks know.                                                    *)

\* A tick works on a reminder it has taken from its list, and records or
\* announces only what was mailed.
CurInv ==
    \A k \in Ticks :
        /\ pc[k] \in Sending \cup {"notify"} => cur[k] \in Reminders
        /\ pc[k] \in Sending => cur[k] \notin batch[k]
        /\ pc[k] \in {"accepted", "mark", "notify"} => mailed[cur[k]] > 0
        /\ pc[k] = "idle" => batch[k] = {}

\* What it holds was set, and if it was set again since, that is known.
VersionInv ==
    \A k \in Ticks : \A p \in Hand(k) :
        /\ p[2] <= version[p[1]]
        /\ p[2] # version[p[1]] => <<p[1], version[p[1]]>> \in crossed

SharedInv ==
    \A k, l \in Ticks : k # l => Hand(k) \cap Hand(l) \subseteq twice

\* Recorded, superseded by a later reminder, pointless, or being recorded.
Over(p) ==
    \/ sentAt[p[1]] \/ p[2] # version[p[1]] \/ status[p[1]] = "gone"
    \/ \E k \in Ticks : pc[k] \in {"accepted", "mark"} /\ cur[k] = p

Waits(k, p) == p \in batch[k] \/ (pc[k] = "await" /\ cur[k] = p)

\* A mailed reminder is over, and no tick is about to mail it again.
MailedInv ==
    \A p \in Reminders : mailed[p] > 0 =>
        /\ p[2] <= version[p[1]]
        /\ p \in twice \/ (Over(p) /\ \A k \in Ticks : ~Waits(k, p))

-----------------------------------------------------------------------------
(* Properties.                                                             *)

(* A reminder is mailed twice only if two overlapping ticks held it at     *)
(* once, or an accepted mail could not be recorded: reminderSentAt keeps   *)
(* every later tick from sending it again.                                 *)
MailedOnce == \A p \in Reminders : mailed[p] > 1 => p \in twice

(* A reminder marked as sent, or announced by a notification, was really   *)
(* mailed, unless the user set it while a tick still held the task's       *)
(* earlier one; edits reset the mark, so a new time is a new reminder.     *)
SentMeansMailed ==
    /\ \A i \in Tasks : sentAt[i] =>
          mailed[<<i, version[i]>>] > 0 \/ <<i, version[i]>> \in crossed
    /\ \A p \in told : mailed[p] > 0

Continued(n) ==
    \/ \E j \in Tasks : ~Unused(j) /\ nth[j] = n + 1
    \/ n \in broken
    \/ \E r \in Requests : req[r].at = "spawn" /\ nth[req[r].task] = n

(* A recurring task never dies out: every completed occurrence before the  *)
(* end date has a next one, or the request that completed it is about to   *)
(* create it or was cut short (create itself starts no successor).         *)
ChainContinues ==
    \A i \in Tasks : status[i] = "done" /\ nth[i] < LastNth => Continued(nth[i])

\* The same for an occurrence that a request in flight read as done.
RequestsInv ==
    \A r \in Requests : InFlight(r) =>
        LET i == req[r].task IN
        /\ i \in Tasks /\ ~Unused(i)
        /\ req[r].at = "spawn" => nth[i] < LastNth
        /\ req[r].at = "write" /\ req[r].from = "done" /\ nth[i] < LastNth => Continued(nth[i])

Clean(n) == \A m \in loose : m >= n

(* An occurrence is created once, unless an earlier one was reopened or    *)
(* updated by two requests at once.                                        *)
OneSuccessor ==
    \A i, j \in Tasks :
        ~Unused(i) /\ ~Unused(j) /\ nth[i] = nth[j] /\ Clean(nth[i]) => i = j

\* Why an occurrence is created once: until it is loose, one request at a
\* time updates it, and once its completion has a successor, or is creating
\* one, it stays done.
Unfinished(i) == status[i] \notin {"done", "gone"}

OneWriter ==
    \A r, s \in Requests :
        InFlight(r) /\ InFlight(s) /\ req[r].task = req[s].task
           => r = s \/ nth[req[r].task] \in loose

WriterSawIt ==
    \A r \in Requests :
        req[r].at = "write" /\ req[r].from # "done" /\ status[req[r].task] = "done"
           => nth[req[r].task] \in loose

SpawnerIsFirst ==
    \A r \in Requests : req[r].at = "spawn" =>
        /\ Unfinished(req[r].task) => nth[req[r].task] \in loose
        /\ \A j \in Tasks : ~Unused(j) /\ nth[j] = nth[req[r].task] + 1 => ~Clean(nth[j])

StaysDone ==
    \A i, j \in Tasks :
        ~Unused(i) /\ ~Unused(j) /\ nth[j] = nth[i] + 1 /\ Unfinished(i) => ~Clean(nth[j])

HasPredecessor ==
    \A j \in Tasks : ~Unused(j) /\ nth[j] # 1 =>
        \E i \in Tasks : ~Unused(i) /\ nth[j] = nth[i] + 1

SuccessorInv == OneWriter /\ WriterSawIt /\ SpawnerIsFirst /\ StaysDone /\ HasPredecessor

\* The inductive invariant.
IInv == /\ TypeOK /\ CurInv /\ VersionInv /\ SharedInv /\ MailedInv /\ RequestsInv
        /\ MailedOnce /\ SentMeansMailed /\ ChainContinues
        /\ SuccessorInv /\ OneSuccessor

(* However ticks, edits and failures overlap: mailed once, and marked only *)
(* when mailed.                                                            *)
RemindersHold == IInv /\ MailedOnce /\ SentMeansMailed

(* However updates overlap: a series goes on, and no occurrence is doubled.*)
SeriesHolds == IInv /\ ChainContinues /\ OneSuccessor

(* While the owner stays signed in, a due reminder of an open task does    *)
(* not stay due: it is sent, or the user changes the task.                 *)
DueIsSent ==
    <>[]token => \A i \in Tasks : []<>~Due(i)
=============================================================================
