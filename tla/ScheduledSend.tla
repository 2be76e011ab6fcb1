---------------------------- MODULE ScheduledSend --------------------------
(***************************************************************************)
(* Scheduled mail: MailService.scheduleMessage, cancelScheduledMessage and *)
(* processDueScheduled, driven every minute by MailScheduler in each API   *)
(* process.  A worker is one process: waitForCompletion makes its ticks    *)
(* sequential, but nothing serialises two processes, and a process may     *)
(* crash between any two awaits.  Every await of the code is a step        *)
(* boundary here.                                                          *)
(***************************************************************************)
EXTENDS Naturals

CONSTANTS Msgs,        \* rows of scheduled_messages
          Workers,     \* API processes that run the cron job
          MaxDelay,    \* longest delay asked for, in clock ticks
          StuckAfter,  \* the 15 minutes after which SENDING is given up on
          MaxCrashes,  \* bound on process crashes
          NoMsg        \* "no message in hand"

ASSUME ConstantsAssumption ==
    /\ MaxDelay \in Nat /\ StuckAfter \in Nat /\ MaxCrashes \in Nat
    /\ NoMsg \notin Msgs

VARIABLES
    status,     \* status column of each row; "NONE" before the row exists
    dueIn,      \* ticks until sendAt (0 = due)
    age,        \* ticks since updatedAt, kept while the row is SENDING
    token,      \* the sender has a provider token (User.authToken)
    pc,         \* where each worker is in processDueScheduled
    batch,      \* rows findMany returned that the loop has yet to reach
    cur,        \* the row the loop body works on
    wire,       \* sendMessage requests the provider has yet to act on
    delivered,  \* times the provider accepted the mail
    notified,   \* SCHEDULED_SENT notifications created
    crashes

vars == <<status, dueIn, age, token, pc, batch, cur, wire, delivered,
          notified, crashes>>
rowVars  == <<status, dueIn, age>>
mailVars == <<wire, delivered>>

Status == {"NONE", "PENDING", "SENDING", "SENT", "FAILED", "CANCELLED"}
Unclaimed == {"NONE", "PENDING", "CANCELLED"}
Settled   == {"SENT", "FAILED", "CANCELLED"}
InHand    == {"calling", "awaiting", "recordSent", "notify", "recordFailed"}
PC        == {"idle", "query", "loop"} \cup InHand

TypeOK ==
    /\ status \in [Msgs -> Status]
    /\ dueIn \in [Msgs -> 0 .. MaxDelay]
    /\ age \in [Msgs -> 0 .. StuckAfter + 1]
    /\ token \in BOOLEAN
    /\ pc \in [Workers -> PC]
    /\ batch \in [Workers -> SUBSET Msgs]
    /\ cur \in [Workers -> Msgs \cup {NoMsg}]
    /\ wire \in [Msgs -> Nat]
    /\ delivered \in [Msgs -> Nat]
    /\ notified \in [Msgs -> Nat]
    /\ crashes \in 0 .. MaxCrashes

Init ==
    /\ status = [m \in Msgs |-> "NONE"]
    /\ dueIn = [m \in Msgs |-> 0]
    /\ age = [m \in Msgs |-> 0]
    /\ token = TRUE
    /\ pc = [w \in Workers |-> "idle"]
    /\ batch = [w \in Workers |-> {}]
    /\ cur = [w \in Workers |-> NoMsg]
    /\ wire = [m \in Msgs |-> 0]
    /\ delivered = [m \in Msgs |-> 0]
    /\ notified = [m \in Msgs |-> 0]
    /\ crashes = 0

-----------------------------------------------------------------------------
(* The user.                                                               *)

\* getUser refuses a user without a token; a past sendAt is accepted.
Schedule(m, delay) ==
    /\ token
    /\ status[m] = "NONE"
    /\ status' = [status EXCEPT ![m] = "PENDING"]
    /\ dueIn' = [dueIn EXCEPT ![m] = delay]
    /\ UNCHANGED <<age, token, pc, batch, cur, mailVars, notified, crashes>>

\* Mutant: a claimed row can be cancelled.
CancelUnlessSettled(m) ==
    /\ status[m] \in {"PENDING", "SENDING"}
    /\ status' = [status EXCEPT ![m] = "CANCELLED"]
    /\ UNCHANGED <<dueIn, age, token, pc, batch, cur, mailVars, notified, crashes>>

\* The lookup before the guarded update only tests existence and rows are
\* never deleted, so the update alone decides; on any other status the user
\* gets the 409 and nothing changes.
Cancel(m) ==
    /\ status[m] = "PENDING"
    /\ status' = [status EXCEPT ![m] = "CANCELLED"]
    /\ UNCHANGED <<dueIn, age, token, pc, batch, cur, mailVars, notified, crashes>>

\* Sign-in stores a provider token; sign-out and expiry clear it.
SignInOrOut ==
    /\ token' = ~token
    /\ UNCHANGED <<rowVars, pc, batch, cur, mailVars, notified, crashes>>

-----------------------------------------------------------------------------
(* The cron job.                                                           *)

\* Mutant: no sweep of stuck rows.
SweepNothing(w) ==
    /\ pc[w] = "idle"
    /\ pc' = [pc EXCEPT ![w] = "query"]
    /\ UNCHANGED <<rowVars, token, batch, cur, mailVars, notified, crashes>>

Stuck(m) == status[m] = "SENDING" /\ age[m] > StuckAfter

\* Mutant: stuck rows are sent again.
SweepBackToPending(w) ==
    /\ pc[w] = "idle"
    /\ pc' = [pc EXCEPT ![w] = "query"]
    /\ status' = [m \in Msgs |-> IF Stuck(m) THEN "PENDING" ELSE status[m]]
    /\ age' = [m \in Msgs |-> IF Stuck(m) THEN 0 ELSE age[m]]
    /\ UNCHANGED <<dueIn, token, batch, cur, mailVars, notified, crashes>>

\* A tick starts: one bulk update fails every row stuck in SENDING.
Sweep(w) ==
    /\ pc[w] = "idle"
    /\ pc' = [pc EXCEPT ![w] = "query"]
    /\ status' = [m \in Msgs |-> IF Stuck(m) THEN "FAILED" ELSE status[m]]
    /\ age' = [m \in Msgs |-> IF Stuck(m) THEN 0 ELSE age[m]]
    /\ UNCHANGED <<dueIn, token, batch, cur, mailVars, notified, crashes>>

\* findMany with include: { user }.  The token is the one read here, so the
\* rows the loop would skip for want of a token are left out at once.
Query(w) ==
    /\ pc[w] = "query"
    /\ pc' = [pc EXCEPT ![w] = "loop"]
    /\ batch' = [batch EXCEPT ![w] =
                   {m \in Msgs : status[m] = "PENDING" /\ dueIn[m] = 0 /\ token}]
    /\ UNCHANGED <<rowVars, token, cur, mailVars, notified, crashes>>

\* The atomic claim: an updateMany guarded by the status.
Claim(w, m) ==
    /\ pc[w] = "loop" /\ m \in batch[w]
    /\ status[m] = "PENDING"
    /\ batch' = [batch EXCEPT ![w] = @ \ {m}]
    /\ status' = [status EXCEPT ![m] = "SENDING"]
    /\ age' = [age EXCEPT ![m] = 0]
    /\ cur' = [cur EXCEPT ![w] = m]
    /\ pc' = [pc EXCEPT ![w] = "calling"]
    /\ UNCHANGED <<dueIn, token, mailVars, notified, crashes>>

\* claimed.count === 0: somebody else claimed or cancelled the row.
LoseClaim(w, m) ==
    /\ pc[w] = "loop" /\ m \in batch[w]
    /\ status[m] # "PENDING"
    /\ batch' = [batch EXCEPT ![w] = @ \ {m}]
    /\ UNCHANGED <<rowVars, token, pc, cur, mailVars, notified, crashes>>

EndTick(w) ==
    /\ pc[w] = "loop" /\ batch[w] = {}
    /\ pc' = [pc EXCEPT ![w] = "idle"]
    /\ UNCHANGED <<rowVars, token, batch, cur, mailVars, notified, crashes>>

\* provider.sendMessage: the request leaves the process.
Call(w) ==
    /\ pc[w] = "calling"
    /\ pc' = [pc EXCEPT ![w] = "awaiting"]
    /\ wire' = [wire EXCEPT ![cur[w]] = @ + 1]
    /\ UNCHANGED <<rowVars, token, batch, cur, delivered, notified, crashes>>

\* The answer arrives and says the mail was accepted.
AnswerOk(w) ==
    /\ pc[w] = "awaiting"
    /\ delivered[cur[w]] > 0 /\ wire[cur[w]] = 0
    /\ pc' = [pc EXCEPT ![w] = "recordSent"]
    /\ UNCHANGED <<rowVars, token, batch, cur, mailVars, notified, crashes>>

\* A fault, a refused token, a broken connection or a timeout.  The request
\* may have been accepted, refused, or still be on its way.
AnswerError(w) ==
    /\ pc[w] = "awaiting"
    /\ pc' = [pc EXCEPT ![w] = "recordFailed"]
    /\ UNCHANGED <<rowVars, token, batch, cur, mailVars, notified, crashes>>

SetIfSending(m, new) ==
    /\ status' = IF status[m] = "SENDING" THEN [status EXCEPT ![m] = new] ELSE status
    /\ age' = IF status[m] = "SENDING" THEN [age EXCEPT ![m] = 0] ELSE age

\* Mutant: the outcome is written whatever the status.
RecordSentUnguarded(w) ==
    /\ pc[w] = "recordSent"
    /\ status' = [status EXCEPT ![cur[w]] = "SENT"]
    /\ age' = [age EXCEPT ![cur[w]] = 0]
    /\ pc' = [pc EXCEPT ![w] = "notify"]
    /\ UNCHANGED <<dueIn, token, batch, cur, mailVars, notified, crashes>>

\* The count of this update is not looked at: the notification follows even
\* when another process's sweep has meanwhile failed the row.
RecordSent(w) ==
    /\ pc[w] = "recordSent"
    /\ SetIfSending(cur[w], "SENT")
    /\ pc' = [pc EXCEPT ![w] = "notify"]
    /\ UNCHANGED <<dueIn, token, batch, cur, mailVars, notified, crashes>>

\* The database refuses that write: the catch block takes over.
RecordSentFails(w) ==
    /\ pc[w] = "recordSent"
    /\ pc' = [pc EXCEPT ![w] = "recordFailed"]
    /\ UNCHANGED <<rowVars, token, batch, cur, mailVars, notified, crashes>>

\* createNotification(...).catch(() => {}): created or lost, the loop goes on.
Notify(w) ==
    /\ pc[w] = "notify"
    /\ \/ notified' = [notified EXCEPT ![cur[w]] = @ + 1]
       \/ UNCHANGED notified
    /\ pc' = [pc EXCEPT ![w] = "loop"]
    /\ cur' = [cur EXCEPT ![w] = NoMsg]
    /\ UNCHANGED <<rowVars, token, batch, mailVars, crashes>>

RecordFailed(w) ==
    /\ pc[w] = "recordFailed"
    /\ SetIfSending(cur[w], "FAILED")
    /\ pc' = [pc EXCEPT ![w] = "loop"]
    /\ cur' = [cur EXCEPT ![w] = NoMsg]
    /\ UNCHANGED <<dueIn, token, batch, mailVars, notified, crashes>>

\* Back to the top of the cron job, the rest of the batch forgotten.
Abandon(w) ==
    /\ pc' = [pc EXCEPT ![w] = "idle"]
    /\ batch' = [batch EXCEPT ![w] = {}]
    /\ cur' = [cur EXCEPT ![w] = NoMsg]
    /\ UNCHANGED <<rowVars, token, mailVars, notified>>

\* A write outside the try, or in its catch, rejects: the error leaves the
\* loop and MailScheduler logs it.  Counted with the crashes.
TickThrows(w) ==
    /\ pc[w] \in {"query", "loop", "recordFailed"}
    /\ crashes < MaxCrashes
    /\ crashes' = crashes + 1
    /\ Abandon(w)

\* The process dies and is restarted.
Crash(w) ==
    /\ crashes < MaxCrashes
    /\ crashes' = crashes + 1
    /\ Abandon(w)

-----------------------------------------------------------------------------
(* The mail server, and time.                                              *)

Accept(m) ==
    /\ wire[m] > 0
    /\ wire' = [wire EXCEPT ![m] = @ - 1]
    /\ delivered' = [delivered EXCEPT ![m] = @ + 1]
    /\ UNCHANGED <<rowVars, token, pc, batch, cur, notified, crashes>>

Refuse(m) ==
    /\ wire[m] > 0
    /\ wire' = [wire EXCEPT ![m] = @ - 1]
    /\ UNCHANGED <<rowVars, token, pc, batch, cur, delivered, notified, crashes>>

\* Ages stop at StuckAfter + 1: the sweep tells no larger ones apart.
Tick ==
    /\ dueIn' = [m \in Msgs |-> IF dueIn[m] > 0 THEN dueIn[m] - 1 ELSE 0]
    /\ age' = [m \in Msgs |-> IF status[m] = "SENDING" /\ age[m] <= StuckAfter
                              THEN age[m] + 1 ELSE age[m]]
    /\ UNCHANGED <<status, token, pc, batch, cur, mailVars, notified, crashes>>

-----------------------------------------------------------------------------
User == \/ SignInOrOut
        \/ \E m \in Msgs : Cancel(m) \/ \E d \in 0 .. MaxDelay : Schedule(m, d)

\* One step of a process that neither crashes nor meets a database error.
LocalStep(w) ==
    \/ Sweep(w) \/ Query(w) \/ EndTick(w) \/ Call(w)
    \/ RecordSent(w) \/ Notify(w) \/ RecordFailed(w)
    \/ \E m \in Msgs : Claim(w, m) \/ LoseClaim(w, m)

Answer(w) == AnswerOk(w) \/ AnswerError(w)

Fault(w) == RecordSentFails(w) \/ TickThrows(w) \/ Crash(w)

Provider == \E m \in Msgs : Accept(m) \/ Refuse(m)

Next == User \/ Provider \/ Tick \/ \E w \in Workers : LocalStep(w) \/ Answer(w) \/ Fault(w)

Spec == Init /\ [][Next]_vars

\* The cron fires every minute, so a process always takes its next step, and
\* time passes.  Users, the provider and faults owe nothing.
Fairness == WF_vars(Tick) /\ \A w \in Workers : WF_vars(LocalStep(w))

\* A Zimbra mailbox: every request of the client has a timeout, so an awaited
\* call always ends.
FairSpec == Spec /\ Fairness /\ \A w \in Workers : WF_vars(Answer(w))

-----------------------------------------------------------------------------
(* Properties.                                                             *)

\* However processes interleave, crash and time out, the mail server never
\* accepts the same scheduled message twice (the atomic claim, and the sweep
\* to FAILED instead of PENDING).
AtMostOnce == \A m \in Msgs : delivered[m] + wire[m] <= 1

\* A message the user was told is cancelled never reaches a recipient, now
\* or later (the 409 of cancelScheduledMessage).
CancelledNeverDelivered ==
    \A m \in Msgs : status[m] = "CANCELLED" =>
        /\ delivered[m] = 0 /\ wire[m] = 0
        /\ \A w \in Workers : cur[w] # m

\* The user is told "sent", by the row or by a notification, only about mail
\* the server accepted, and is notified once at most.
NoFalseReport ==
    \A m \in Msgs :
        /\ status[m] = "SENT" => delivered[m] = 1
        /\ notified[m] <= delivered[m]

\* No mail leaves before the time the user chose.
NotEarly ==
    \A m \in Msgs : delivered[m] + wire[m] > 0 => dueIn[m] = 0

\* SENT, FAILED and CANCELLED are final: no late answer, sweep or second
\* process rewrites the outcome the user has seen.
SettledIsFinal ==
    [][\A m \in Msgs : status[m] \in Settled => status'[m] = status[m]]_vars

\* A claimed row does not stay SENDING: its worker records the outcome or a
\* later sweep gives it up.
SendingEnds ==
    \A m \in Msgs : status[m] = "SENDING" ~> status[m] \in Settled

\* A due message of a signed-in user is picked up, unless it is cancelled.
DueIsPickedUp ==
    \A m \in Msgs :
        (status[m] = "PENDING" /\ dueIn[m] = 0) ~> (status[m] # "PENDING" \/ ~token)

\* Why the above hold: the inductive invariant.  A row on which a worker is
\* busy has been claimed and can never be claimed again, so before the call of
\* its one worker nothing has gone out; and what a worker is about to report
\* has happened.
Safe ==
    /\ \A m \in Msgs : status[m] \in Unclaimed =>
           wire[m] = 0 /\ delivered[m] = 0 /\ notified[m] = 0
    /\ \A w \in Workers : pc[w] \in InHand =>
           cur[w] \in Msgs /\ status[cur[w]] \notin Unclaimed
    /\ \A w \in Workers : pc[w] \notin InHand => cur[w] = NoMsg
    /\ \A w, v \in Workers :
           pc[w] \in InHand /\ pc[v] \in InHand /\ cur[w] = cur[v] => w = v
    /\ \A w \in Workers : pc[w] = "calling" =>
           wire[cur[w]] = 0 /\ delivered[cur[w]] = 0
    /\ \A w \in Workers : pc[w] \in {"recordSent", "notify"} =>
           delivered[cur[w]] = 1
    /\ \A w \in Workers : pc[w] \in InHand => notified[cur[w]] = 0
    /\ AtMostOnce
    /\ NoFalseReport

\* Only due rows are ever in a batch or claimed.
DueFirst ==
    /\ \A m \in Msgs : status[m] \notin Unclaimed => dueIn[m] = 0
    /\ \A w \in Workers : \A m \in batch[w] : status[m] # "NONE" /\ dueIn[m] = 0

IInv == TypeOK /\ Safe /\ DueFirst

\* What a user may rely on, in every state, however many processes share the
\* table and whenever they die.
DeliveryHolds ==
    IInv /\ AtMostOnce /\ CancelledNeverDelivered /\ NoFalseReport /\ NotEarly

\* With timeouts, what is due is picked up and what is picked up is settled.
DueIsSettled == SendingEnds /\ DueIsPickedUp

-----------------------------------------------------------------------------
\* The scheduled message as a one-shot job.
Phase(st) ==
    CASE st = "NONE" -> "new"
      [] st = "PENDING" -> "waiting"
      [] st = "CANCELLED" -> "withdrawn"
      [] st = "SENDING" -> "started"
      [] st = "SENT" -> "sent"
      [] st = "FAILED" -> "failed"

jobPhase == [m \in Msgs |-> Phase(status[m])]

OneShot == INSTANCE OneShotSend
             WITH Jobs <- Msgs, phase <- jobPhase, effects <- delivered

\* The rows, read as one-shot jobs, behave as OneShotSend allows.
ImplementsOneShot == OneShot!Spec
=============================================================================
