------------------------------- MODULE Snooze -------------------------------
(***************************************************************************)
(* Snoozed messages (mail.service.ts): the endpoints that set and withdraw *)
(* a snooze and the minute job that moves a message back when its time has *)
(* come.  The row's id is made of the user and the message, so the upsert  *)
(* of a new snooze reuses the row that a running job may have listed, and  *)
(* the job deletes it by that id.  A snooze is named <<message, n>>: the   *)
(* n-th one of that message.                                               *)
(***************************************************************************)
EXTENDS Naturals

CONSTANTS Messages,   \* ids of the table Message
          Workers,    \* API processes; each runs one tick at a time
          MaxSnoozes, \* bound on the snoozes of one message
          MaxFaults,  \* bound on errors and process deaths
          Nothing

ASSUME ConstantsAssumption ==
    /\ MaxSnoozes \in Nat /\ MaxFaults \in Nat
    /\ Nothing \notin Messages

Snoozes == Messages \X (1 .. MaxSnoozes)
Nil     == <<Nothing, 0>>

VARIABLES
    until,    \* snoozedUntil: "none" without a row, not reached yet, or reached
    gen,      \* snoozes of the message so far
    known,    \* the message has a row
    folder,   \* the original folder has a row
    token,    \* the user has a provider token
    pc, batch, cur,
    auth,     \* the token as it was listed with the rows
    faults,
    \* history, for the properties only
    moved,    \* snoozes whose message the mail server has moved back
    told,     \* MAIL_SNOOZE_EXPIRED notifications of each
    excused,  \* withdrawn, or found without a token, message or folder
    crossed   \* set while a worker held an earlier snooze of the message

columns == <<until, gen, known, folder, token>>
workers == <<pc, batch, cur, auth>>
hist    == <<moved, told, excused, crossed>>
vars    == <<columns, workers, faults, hist>>

Holding == {"drop", "lookup", "await", "write", "delete"}

TypeOK ==
    /\ until \in [Messages -> {"none", "later", "due"}]
    /\ gen \in [Messages -> 0 .. MaxSnoozes]
    /\ known \in [Messages -> BOOLEAN] /\ folder \in BOOLEAN /\ token \in BOOLEAN
    /\ pc \in [Workers -> {"idle", "loop", "notify"} \cup Holding]
    /\ batch \in [Workers -> SUBSET Snoozes]
    /\ cur \in [Workers -> Snoozes \cup {Nil}]
    /\ auth \in [Workers -> BOOLEAN]
    /\ faults \in 0 .. MaxFaults
    /\ told \in [Snoozes -> Nat]
    /\ moved \subseteq Snoozes /\ excused \subseteq Snoozes /\ crossed \subseteq Snoozes

Init ==
    /\ until = [m \in Messages |-> "none"]
    /\ gen = [m \in Messages |-> 0]
    /\ known = [m \in Messages |-> TRUE]
    /\ folder = TRUE /\ token = TRUE
    /\ pc = [w \in Workers |-> "idle"]
    /\ batch = [w \in Workers |-> {}]
    /\ cur = [w \in Workers |-> Nil]
    /\ auth = [w \in Workers |-> FALSE]
    /\ faults = 0
    /\ told = [p \in Snoozes |-> 0]
    /\ moved = {} /\ excused = {} /\ crossed = {}

Fault == faults < MaxFaults /\ faults' = faults + 1
Goto(w, place) == pc' = [pc EXCEPT ![w] = place]

\* The snoozes a worker has listed and not yet dealt with.
Hand(w) == batch[w] \cup (IF pc[w] \in Holding THEN {cur[w]} ELSE {})

-----------------------------------------------------------------------------
(* The user.                                                               *)

\* snoozeMessage: upsert.  Bound: MaxSnoozes.
Set(m, when) ==
    /\ token /\ gen[m] < MaxSnoozes
    /\ until' = [until EXCEPT ![m] = when]
    /\ gen' = [gen EXCEPT ![m] = @ + 1]
    /\ crossed' = IF \E w \in Workers : \E p \in Hand(w) : p[1] = m
                  THEN crossed \cup {<<m, gen[m] + 1>>} ELSE crossed
    /\ UNCHANGED <<known, folder, token, workers, faults, moved, told, excused>>

\* unsnoozeMessage: deleteMany, which may find nothing.
Withdraw(m) ==
    /\ until' = [until EXCEPT ![m] = "none"]
    /\ excused' = IF until[m] = "none" THEN excused ELSE excused \cup {<<m, gen[m]>>}
    /\ UNCHANGED <<gen, known, folder, token, workers, faults, moved, told, crossed>>

\* The message, or the folder with it, is deleted (deleteMessage, deleteFolder).
DeleteMessage(m) ==
    /\ known[m]
    /\ known' = [known EXCEPT ![m] = FALSE]
    /\ UNCHANGED <<until, gen, folder, token, workers, faults, hist>>

DeleteFolder ==
    /\ folder
    /\ folder' = FALSE
    /\ UNCHANGED <<until, gen, known, token, workers, faults, hist>>

SignInOrOut ==
    /\ token' = ~token
    /\ UNCHANGED <<until, gen, known, folder, workers, faults, hist>>

TimePasses(m) ==
    /\ until[m] = "later"
    /\ until' = [until EXCEPT ![m] = "due"]
    /\ UNCHANGED <<gen, known, folder, token, workers, faults, hist>>

-----------------------------------------------------------------------------
(* processExpiredSnoozes.                                                  *)

\* Mutant: the clock is not looked at.
QueryEarly(w) ==
    /\ pc[w] = "idle"
    /\ batch' = [batch EXCEPT ![w] = {<<m, gen[m]>> : m \in {n \in Messages : until[n] # "none"}}]
    /\ auth' = [auth EXCEPT ![w] = token]
    /\ Goto(w, "loop")
    /\ UNCHANGED <<columns, cur, faults, hist>>

\* Mutant: only the users who are signed in.
QuerySignedIn(w) ==
    /\ pc[w] = "idle"
    /\ batch' = [batch EXCEPT ![w] = {<<m, gen[m]>> : m \in {n \in Messages : token /\ until[n] = "due"}}]
    /\ auth' = [auth EXCEPT ![w] = token]
    /\ Goto(w, "loop")
    /\ UNCHANGED <<columns, cur, faults, hist>>

\* findMany, with the user and so the token.
Query(w) ==
    /\ pc[w] = "idle"
    /\ batch' = [batch EXCEPT ![w] = {<<m, gen[m]>> : m \in {n \in Messages : until[n] = "due"}}]
    /\ auth' = [auth EXCEPT ![w] = token]
    /\ Goto(w, "loop")
    /\ UNCHANGED <<columns, cur, faults, hist>>

Take(w, p) ==
    /\ pc[w] = "loop" /\ p \in batch[w]
    /\ batch' = [batch EXCEPT ![w] = @ \ {p}]
    /\ cur' = [cur EXCEPT ![w] = p]
    /\ Goto(w, IF auth[w] THEN "lookup" ELSE "drop")
    /\ UNCHANGED <<columns, auth, faults, hist>>

\* delete by id: without a row it throws, and the catch goes on with the next.
DeleteRow(w, next) ==
    LET m == cur[w][1] IN
    IF until[m] = "none"
    THEN UNCHANGED until /\ Goto(w, "loop")
    ELSE until' = [until EXCEPT ![m] = "none"] /\ Goto(w, next)

\* Signed out when it was listed: the snooze is deleted, nothing is moved.
Drop(w) ==
    /\ pc[w] = "drop"
    /\ DeleteRow(w, "loop")
    /\ excused' = excused \cup {cur[w]}
    /\ UNCHANGED <<gen, known, folder, token, batch, cur, auth, faults, moved, told, crossed>>

\* The message and its folder are looked up.  One step: a message deleted
\* between the two reads is as good as deleted after them, a folder before.
Lookup(w) ==
    /\ pc[w] = "lookup"
    /\ IF known[cur[w][1]] /\ folder
       THEN Goto(w, "await") /\ UNCHANGED excused
       ELSE Goto(w, "delete") /\ excused' = excused \cup {cur[w]}
    /\ UNCHANGED <<columns, batch, cur, auth, faults, moved, told, crossed>>

\* The mail server moves the message; its answer may still be lost (StepFails).
ServerMoves(w) ==
    /\ pc[w] = "await"
    /\ moved' = moved \cup {cur[w]}
    /\ Goto(w, "write")
    /\ UNCHANGED <<columns, batch, cur, auth, faults, told, excused, crossed>>

\* The row of the message gets the folder; it throws when there is no row.
WriteFolder(w) ==
    /\ pc[w] = "write"
    /\ Goto(w, IF known[cur[w][1]] THEN "delete" ELSE "loop")
    /\ UNCHANGED <<columns, batch, cur, auth, faults, hist>>

Delete(w) ==
    /\ pc[w] = "delete"
    /\ DeleteRow(w, "notify")
    /\ UNCHANGED <<gen, known, folder, token, batch, cur, auth, faults, hist>>

\* createNotification(...).catch(() => {}): created or lost.
Notify(w) ==
    /\ pc[w] = "notify"
    /\ told' = [told EXCEPT ![cur[w]] = @ + 1] \/ UNCHANGED told
    /\ Goto(w, "loop")
    /\ UNCHANGED <<columns, batch, cur, auth, faults, moved, excused, crossed>>

\* Mutant: the snooze is deleted although the move failed.
StepFailsForward(w) ==
    /\ pc[w] \in Holding /\ Fault
    /\ Goto(w, IF pc[w] = "await" THEN "delete" ELSE "loop")
    /\ UNCHANGED <<columns, batch, cur, auth, hist>>

\* The provider or the database refuses, or an answer is lost.
StepFails(w) ==
    /\ pc[w] \in Holding /\ Fault
    /\ Goto(w, "loop")
    /\ UNCHANGED <<columns, batch, cur, auth, hist>>

Forgets(w) ==
    /\ Goto(w, "idle")
    /\ batch' = [batch EXCEPT ![w] = {}]
    /\ cur' = [cur EXCEPT ![w] = Nil]
    /\ auth' = [auth EXCEPT ![w] = FALSE]

EndTick(w) ==
    /\ pc[w] = "loop" /\ batch[w] = {}
    /\ Forgets(w)
    /\ UNCHANGED <<columns, faults, hist>>

Dies(w) ==
    /\ pc[w] # "idle" /\ Fault
    /\ Forgets(w)
    /\ UNCHANGED <<columns, hist>>

-----------------------------------------------------------------------------
WorkerStep(w) ==
    \/ Query(w) \/ Drop(w) \/ Lookup(w) \/ ServerMoves(w)
    \/ WriteFolder(w) \/ Delete(w) \/ Notify(w) \/ EndTick(w)
    \/ \E p \in Snoozes : Take(w, p)

UserStep(m) ==
    Withdraw(m) \/ DeleteMessage(m) \/ TimePasses(m) \/ \E when \in {"later", "due"} : Set(m, when)

Next ==
    \/ \E w \in Workers : WorkerStep(w) \/ StepFails(w) \/ Dies(w)
    \/ \E m \in Messages : UserStep(m)
    \/ DeleteFolder \/ SignInOrOut

Spec == Init /\ [][Next]_vars

\* The cron fires every minute and the mail server answers.
FairSpec == Spec /\ \A w \in Workers : WF_vars(WorkerStep(w))

-----------------------------------------------------------------------------
\* What a worker holds was set, and if it was set again since, that is known.
HandInv ==
    /\ \A m \in Messages : until[m] # "none" => gen[m] > 0
    /\ \A w \in Workers : pc[w] \in Holding \cup {"notify"} => cur[w] \in Snoozes
    /\ \A w \in Workers : \A p \in Hand(w) :
          /\ p[2] <= gen[p[1]]
          /\ p[2] # gen[p[1]] => <<p[1], gen[p[1]]>> \in crossed
          /\ p[2] = gen[p[1]] => until[p[1]] # "later"

\* A worker deletes a row only after the move, or with an excuse.
DeleteInv ==
    \A w \in Workers :
        /\ pc[w] = "write" => cur[w] \in moved
        /\ pc[w] = "delete" => cur[w] \in moved \cup excused

Notifying(w, p) == pc[w] = "notify" /\ cur[w] = p

\* A later snooze of the same message was set while this one was at work.
CrossedAfter(p) == \E g \in 1 .. MaxSnoozes : g > p[2] /\ <<p[1], g>> \in crossed

\* Who notifies has deleted the row, and nobody else has.
NotifyInv ==
    \A p \in Snoozes :
        /\ told[p] > 0 \/ (\E w \in Workers : Notifying(w, p)) =>
              /\ p[2] <= gen[p[1]]
              /\ p[2] = gen[p[1]] => until[p[1]] = "none"
        /\ \A w, v \in Workers :
              Notifying(w, p) /\ (told[p] > 0 \/ (w # v /\ Notifying(v, p))) => CrossedAfter(p)

(* A snooze is not lost: its row goes away only once the mail server has   *)
(* moved the message back, or the user withdrew it, or there was nothing   *)
(* to move (no token, message or folder), or it was set while the job was  *)
(* busy with the previous snooze of the message and shares its row.        *)
NotLost ==
    \A m \in Messages :
        gen[m] > 0 /\ until[m] = "none" => <<m, gen[m]>> \in moved \cup excused \cup crossed

(* The user is told once that a message came back, whichever processes     *)
(* listed it and however often the move was repeated after a crash: who    *)
(* deletes the row tells.                                                  *)
ToldOnce == \A p \in Snoozes : told[p] > 1 => CrossedAfter(p)

IInv == TypeOK /\ HandInv /\ DeleteInv /\ NotifyInv /\ NotLost /\ ToldOnce

(* Whichever processes list it, and wherever they die: a snooze is not     *)
(* lost, and announced once.                                               *)
SnoozesHold == IInv /\ NotLost /\ ToldOnce

(* The job moves no message whose snooze has been put off, unless it was   *)
(* put off while the job had it in hand.                                   *)
NotEarly ==
    [][\A p \in moved' \ moved :
          until[p[1]] = "later" => <<p[1], gen[p[1]]>> \in crossed]_vars

(* A snooze that is due does not stay due, signed in or not.               *)
DueEnds == \A m \in Messages : until[m] = "due" ~> until[m] # "due"
=============================================================================
