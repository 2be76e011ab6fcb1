---------------------------- MODULE OfflineOutbox --------------------------
(***************************************************************************)
(* The offline outbox of the web client: Outbox (lib/offline/outbox.ts),   *)
(* Runner (runner.ts) and the parts of OfflineProvider (provider.tsx) that *)
(* enqueue and reconcile.  The rows live in an IndexedDB shared by all     *)
(* tabs of a user; every tab has its own runner.  The ops are moves of one *)
(* message, the case where both order and repetition are visible.          *)
(***************************************************************************)
EXTENDS Integers, Sequences, FiniteSets, Functions

CONSTANTS Tabs, Folders,
          MaxOps,      \* rows ever added (bound)
          MaxAttempts, \* OutboxOp.maxAttempts (5 in the code)
          MaxWait,     \* longest backoff, in clock ticks
          BatchSize,   \* Runner.batchSize
          MaxReloads,  \* bound on tab reloads
          MaxFailures  \* bound on calls that end in an error

ASSUME ConstantsAssumption ==
    /\ {MaxOps, MaxAttempts, MaxWait, BatchSize} \subseteq Nat \ {0}
    /\ MaxReloads \in Nat /\ MaxFailures \in Nat
    /\ "none" \notin Folders

Ops  == 1 .. MaxOps
Off  == -1             \* no timer armed
None == "none"

VARIABLES
    \* IndexedDB
    ahead,     \* ahead[o]: the rows whose scheduledAt comes before that of o
    status,    \* "none" before the row is added, "gone" once it is deleted
    attempts, wait, dest,
    \* each tab
    pc, batch,
    call,      \* the handler's request: "none", "sent", "applied", "refused"
    seen,      \* op.attempts as markFailed read it
    timer,     \* ticks until the runner's timer fires
    adding,    \* the folder of an enqueue that found no row to merge with
    callbacks, \* onFailedById: ops this tab would report
    \* the rest of the world
    online, folder,
    orphans,   \* requests whose tab no longer waits for them
    reloads, failures,
    \* history, for the properties only
    applied,   \* ops in the order of their first effect
    calls,     \* requests made for each op
    intent,    \* the folder the user asked for last
    merged,    \* some request was merged into an earlier row
    muted,     \* ops whose callback went with its tab
    reported   \* ops whose failure the user was told of

rows  == <<ahead, status, attempts, wait, dest>>
work  == <<pc, batch, call, seen>>
world == <<online, reloads, failures>>
hist  == <<intent, merged, muted, reported>>
mail  == <<folder, orphans, applied>>
vars  == <<rows, work, timer, adding, callbacks, world, mail, calls, hist>>

Statuses == {"none", "pending", "running", "failed", "gone"}
PC == {"closed", "idle", "drain", "op", "call", "await", "done", "failRead",
       "failWrite"}

\* The rows of the table.
Stored == {o \in Ops : status[o] \notin {"none", "gone"}}

TypeOK ==
    /\ ahead \in [Ops -> SUBSET Ops]
    /\ status \in [Ops -> Statuses]
    /\ attempts \in [Ops -> Nat]
    /\ wait \in [Ops -> 0 .. MaxWait]
    /\ dest \in [Ops -> Folders \cup {None}]
    /\ pc \in [Tabs -> PC]
    /\ batch \in [Tabs -> Seq(Ops)]
    /\ call \in [Tabs -> {"none", "sent", "applied", "refused"}]
    /\ seen \in [Tabs -> Nat]
    /\ timer \in [Tabs -> Off .. MaxWait]
    /\ adding \in [Tabs -> Folders \cup {None}]
    /\ callbacks \in [Tabs -> SUBSET Ops]
    /\ online \in BOOLEAN /\ merged \in BOOLEAN
    /\ folder \in Folders /\ intent \in Folders
    /\ orphans \subseteq Ops
    /\ reloads \in Nat /\ failures \in Nat
    /\ applied \in Seq(Ops) /\ calls \in [Ops -> Nat]
    /\ muted \subseteq Ops /\ reported \subseteq Ops

Init ==
    /\ ahead = [o \in Ops |-> {}]
    /\ status = [o \in Ops |-> "none"]
    /\ attempts = [o \in Ops |-> 0]
    /\ wait = [o \in Ops |-> 0]
    /\ dest = [o \in Ops |-> None]
    /\ pc = [t \in Tabs |-> "closed"]
    /\ batch = [t \in Tabs |-> <<>>]
    /\ call = [t \in Tabs |-> "none"]
    /\ seen = [t \in Tabs |-> 0]
    /\ timer = [t \in Tabs |-> Off]
    /\ adding = [t \in Tabs |-> None]
    /\ callbacks = [t \in Tabs |-> {}]
    /\ online = TRUE
    /\ folder \in Folders
    /\ orphans = {} /\ reloads = 0 /\ failures = 0
    /\ applied = <<>>
    /\ calls = [o \in Ops |-> 0]
    /\ intent = folder
    /\ merged = FALSE /\ muted = {} /\ reported = {}

-----------------------------------------------------------------------------
(* Outbox.                                                                 *)

Ready == {o \in Ops : status[o] = "pending" /\ wait[o] = 0}

\* peekReady: the first BatchSize ready rows, or all of them if fewer.
IsPeeked(b) ==
    /\ \A i, j \in DOMAIN b : i < j => b[i] \in ahead[b[j]]
    /\ \A o \in Ready \ Range(b) :
          Len(b) = BatchSize /\ \A i \in DOMAIN b : b[i] \in ahead[o]

PendingWaits == {wait[o] : o \in {p \in Ops : status[p] = "pending"}}

NextScheduledIn ==
    IF PendingWaits = {} THEN Off
    ELSE CHOOSE d \in PendingWaits : \A e \in PendingWaits : d <= e

\* The rows once o is deleted, and once o stands after the rows in first and
\* before the others.
Without(o) == [p \in Ops |-> IF p = o THEN {} ELSE ahead[p] \ {o}]

Placed(o, first) ==
    [p \in Ops |-> IF p = o THEN first
                   ELSE IF p \in Stored \ first THEN ahead[p] \cup {o}
                   ELSE ahead[p] \ {o}]

\* Mutant: rows are listed latest first.
DueAfter(d) == {o \in Stored : wait[o] > d}

DueBy(d) == {o \in Stored : wait[o] <= d}

\* Where a row due in d ticks may be put: after all that is due earlier, and
\* after any of those due within the same tick.
Places(o, d) == {first \in SUBSET (DueBy(d) \ {o}) :
                    /\ DueBy(d - 1) \ {o} \subseteq first
                    /\ \A p \in first : ahead[p] \ {o} \subseteq first}

\* Exponential, capped, with jitter: never zero, otherwise any delay.
Backoff == 1 .. MaxWait

-----------------------------------------------------------------------------
(* The user asks for a move.                                               *)

\* Runner.flush, when nothing is being drained; otherwise the running drain
\* is returned and will peek again.
Flush(t) ==
    IF pc[t] = "idle"
    THEN pc' = [pc EXCEPT ![t] = "drain"] /\ timer' = [timer EXCEPT ![t] = Off]
    ELSE UNCHANGED <<pc, timer>>

Live(f) == {o \in Ops : dest[o] = f /\ status[o] \in {"pending", "running"}}

\* enqueue, first half: a row with the same key that has not failed is
\* returned as it stands; this tab's callback replaces the earlier one.
EnqueueMerges(t, f) ==
    /\ pc[t] # "closed" /\ adding[t] = None /\ Live(f) # {}
    /\ \E o \in Live(f) : callbacks' = [callbacks EXCEPT ![t] = @ \cup {o}]
    /\ intent' = f
    /\ merged' = TRUE
    /\ Flush(t)
    /\ UNCHANGED <<rows, batch, call, seen, adding, world, mail, calls, muted,
                   reported>>

\* Bound: every row about to be added has an id left.
Room == Cardinality({t \in Tabs : adding[t] # None})
          < Cardinality({o \in Ops : status[o] = "none"})

EnqueueLooks(t, f) ==
    /\ pc[t] # "closed" /\ adding[t] = None /\ Live(f) = {} /\ Room
    /\ adding' = [adding EXCEPT ![t] = f]
    /\ intent' = f
    /\ UNCHANGED <<rows, work, timer, callbacks, world, mail, calls, merged,
                   muted, reported>>

\* enqueue, second half: the row is added, whatever other tabs added since.
EnqueueAdds(t) ==
    /\ adding[t] # None
    /\ \E o \in Ops :
         /\ status[o] = "none" /\ \A p \in Ops : p < o => status[p] # "none"
         /\ status' = [status EXCEPT ![o] = "pending"]
         /\ dest' = [dest EXCEPT ![o] = adding[t]]
         /\ ahead' = Placed(o, DueBy(0))
         /\ callbacks' = [callbacks EXCEPT ![t] = @ \cup {o}]
    /\ adding' = [adding EXCEPT ![t] = None]
    /\ Flush(t)
    /\ UNCHANGED <<attempts, wait, batch, call, seen, world, mail, calls, hist>>

-----------------------------------------------------------------------------
(* Runner.                                                                 *)

Head1(t) == Head(batch[t])

\* start: running rows are taken for leftovers of an earlier life of the page
\* and made pending again, those of another tab included; then flush.
Start(t) ==
    /\ pc[t] = "closed"
    /\ status' = [o \in Ops |-> IF status[o] = "running" THEN "pending" ELSE status[o]]
    /\ pc' = [pc EXCEPT ![t] = "drain"]
    /\ UNCHANGED <<ahead, attempts, wait, dest, batch, call, seen, timer, adding,
                   callbacks, world, mail, calls, hist>>

\* runDrain: the next batch, for as long as there is one.
Peek(t) ==
    /\ pc[t] = "drain" /\ online
    /\ \E n \in 1 .. BatchSize : \E b \in [1 .. n -> Ready] :
          IsPeeked(b) /\ batch' = [batch EXCEPT ![t] = b]
    /\ pc' = [pc EXCEPT ![t] = "op"]
    /\ UNCHANGED <<rows, call, seen, timer, adding, callbacks, world, mail, calls,
                   hist>>

\* Mutant: the runner arms no timer.
EndDrainNoTimer(t) ==
    /\ \/ pc[t] = "drain" /\ (~online \/ Ready = {})
       \/ pc[t] = "op" /\ ~online
    /\ pc' = [pc EXCEPT ![t] = "idle"]
    /\ batch' = [batch EXCEPT ![t] = <<>>]
    /\ UNCHANGED <<rows, call, seen, timer, adding, callbacks, world, mail, calls,
                   hist>>

\* The drain ends, offline or with nothing ready; scheduleNext arms the timer.
\* The read of nextScheduledAt and its continuation are one turn of the event
\* loop, so no enqueue of this tab falls between them.
EndDrain(t) ==
    /\ \/ pc[t] = "drain" /\ (~online \/ Ready = {})
       \/ pc[t] = "op" /\ ~online
    /\ pc' = [pc EXCEPT ![t] = "idle"]
    /\ batch' = [batch EXCEPT ![t] = <<>>]
    /\ timer' = [timer EXCEPT ![t] = NextScheduledIn]
    /\ UNCHANGED <<rows, call, seen, adding, callbacks, world, mail, calls, hist>>

\* End of the for loop over the batch: peek again.
EndBatch(t) ==
    /\ pc[t] = "op" /\ batch[t] = <<>>
    /\ pc' = [pc EXCEPT ![t] = "drain"]
    /\ UNCHANGED <<rows, batch, call, seen, timer, adding, callbacks, world, mail,
                   calls, hist>>

\* processOne: markRunning writes the status of the row the batch named,
\* whatever it is by now; on a deleted row it does nothing.  Then the handler
\* is called in any case.
MarkRunning(t) ==
    /\ pc[t] = "op" /\ online /\ batch[t] # <<>>
    /\ status' = IF status[Head1(t)] = "gone" THEN status
                 ELSE [status EXCEPT ![Head1(t)] = "running"]
    /\ pc' = [pc EXCEPT ![t] = "call"]
    /\ UNCHANGED <<ahead, attempts, wait, dest, batch, call, seen, timer, adding,
                   callbacks, world, mail, calls, hist>>

Call(t) ==
    /\ pc[t] = "call"
    /\ pc' = [pc EXCEPT ![t] = "await"]
    /\ call' = [call EXCEPT ![t] = "sent"]
    /\ calls' = [calls EXCEPT ![Head1(t)] = @ + 1]
    /\ UNCHANGED <<rows, batch, seen, timer, adding, callbacks, world, mail, hist>>

AnswerOk(t) ==
    /\ pc[t] = "await" /\ call[t] = "applied"
    /\ pc' = [pc EXCEPT ![t] = "done"]
    /\ call' = [call EXCEPT ![t] = "none"]
    /\ UNCHANGED <<rows, batch, seen, timer, adding, callbacks, world, mail, calls,
                   hist>>

\* Mutant: an error counts as success.
AnswerErrorTakenAsOk(t) ==
    /\ pc[t] = "await"
    /\ call[t] = "refused"
    /\ pc' = [pc EXCEPT ![t] = "done"]
    /\ call' = [call EXCEPT ![t] = "none"]
    /\ UNCHANGED <<rows, batch, seen, timer, adding, callbacks, world, mail, calls,
                   hist>>

\* An error response, a lost one, or no network.  What was sent may still
\* reach the server.
AnswerError(t) ==
    /\ pc[t] = "await"
    /\ call[t] = "refused" \/ failures < MaxFailures
    /\ failures' = IF call[t] = "refused" THEN failures ELSE failures + 1
    /\ pc' = [pc EXCEPT ![t] = "failRead"]
    /\ call' = [call EXCEPT ![t] = "none"]
    /\ orphans' = IF call[t] = "sent" THEN orphans \cup {Head1(t)} ELSE orphans
    /\ UNCHANGED <<rows, batch, seen, timer, adding, callbacks, online, reloads,
                   folder, applied, calls, hist>>

Delete(o) ==
    /\ status' = [status EXCEPT ![o] = IF @ = "none" THEN @ ELSE "gone"]
    /\ ahead' = Without(o)
    /\ UNCHANGED <<attempts, wait, dest>>

Done(t, tail) == /\ pc' = [pc EXCEPT ![t] = "op"]
                 /\ batch' = [batch EXCEPT ![t] = tail]

MarkDone(t) ==
    /\ pc[t] = "done"
    /\ Delete(Head1(t))
    /\ Done(t, Tail(batch[t]))
    /\ UNCHANGED <<call, seen, timer, adding, callbacks, world, mail, calls, hist>>

\* markFailed reads the row in one transaction and writes it in another.
FailRead(t) ==
    /\ pc[t] = "failRead"
    /\ IF status[Head1(t)] = "gone"
       THEN Done(t, Tail(batch[t])) /\ UNCHANGED seen
       ELSE /\ seen' = [seen EXCEPT ![t] = attempts[Head1(t)]]
            /\ pc' = [pc EXCEPT ![t] = "failWrite"]
            /\ UNCHANGED batch
    /\ UNCHANGED <<rows, call, timer, adding, callbacks, world, mail, calls, hist>>

Retry(o, n, d) ==
    /\ status' = [status EXCEPT ![o] = "pending"]
    /\ attempts' = [attempts EXCEPT ![o] = n]
    /\ wait' = [wait EXCEPT ![o] = d]
    /\ \E first \in Places(o, d) : ahead' = Placed(o, first)
    /\ UNCHANGED dest

GiveUp(o, n) ==
    /\ status' = [status EXCEPT ![o] = "failed"]
    /\ attempts' = [attempts EXCEPT ![o] = n]
    /\ UNCHANGED <<ahead, wait, dest>>

FailWrite(t) ==
    /\ pc[t] = "failWrite"
    /\ LET o == Head1(t)
           n == seen[t] + 1
       IN  IF status[o] = "gone" THEN UNCHANGED rows
           ELSE IF n >= MaxAttempts THEN GiveUp(o, n)
           ELSE \E d \in Backoff : Retry(o, n, d)
    /\ Done(t, Tail(batch[t]))
    /\ UNCHANGED <<call, seen, timer, adding, callbacks, world, mail, calls, hist>>

Wake(t) ==
    /\ pc[t] = "idle" /\ timer[t] = 0
    /\ Flush(t)
    /\ UNCHANGED <<rows, batch, call, seen, adding, callbacks, world, mail, calls,
                   hist>>

\* The browser's online and offline events; going online flushes every
\* started runner.
GoOnline ==
    /\ ~online
    /\ online' = TRUE
    /\ pc' = [t \in Tabs |-> IF pc[t] = "idle" THEN "drain" ELSE pc[t]]
    /\ timer' = [t \in Tabs |-> IF pc[t] = "idle" THEN Off ELSE timer[t]]
    /\ UNCHANGED <<rows, batch, call, seen, adding, callbacks, reloads, failures,
                   mail, calls, hist>>

GoOffline ==
    /\ online
    /\ online' = FALSE
    /\ UNCHANGED <<rows, work, timer, adding, callbacks, reloads, failures, mail,
                   calls, hist>>

\* The page is reloaded or closed: what it had in memory is lost, a request
\* under way is not called back.
Reload(t) ==
    /\ pc[t] # "closed" /\ reloads < MaxReloads
    /\ reloads' = reloads + 1
    /\ pc' = [pc EXCEPT ![t] = "closed"]
    /\ batch' = [batch EXCEPT ![t] = <<>>]
    /\ call' = [call EXCEPT ![t] = "none"]
    /\ orphans' = IF call[t] = "sent" THEN orphans \cup {Head1(t)} ELSE orphans
    /\ timer' = [timer EXCEPT ![t] = Off]
    /\ adding' = [adding EXCEPT ![t] = None]
    /\ callbacks' = [callbacks EXCEPT ![t] = {}]
    /\ muted' = muted \cup callbacks[t]
    /\ UNCHANGED <<rows, seen, online, failures, folder, applied, calls, intent,
                   merged, reported>>

-----------------------------------------------------------------------------
(* OfflineProvider.reconcile: tell the user of a failed op, then delete it. *)

Report(t, o) ==
    /\ pc[t] # "closed" /\ status[o] = "failed" /\ o \in callbacks[t]
    /\ callbacks' = [callbacks EXCEPT ![t] = @ \ {o}]
    /\ reported' = reported \cup {o}
    /\ UNCHANGED <<rows, work, timer, adding, world, mail, calls, intent, merged,
                   muted>>

\* Mutant: a failed row is deleted unreported.
DropFailedSilently(t, o) ==
    /\ pc[t] # "closed" /\ status[o] = "failed"
    /\ Delete(o)
    /\ UNCHANGED <<work, timer, adding, callbacks, world, mail, calls, hist>>

DropFailed(t, o) ==
    /\ pc[t] # "closed" /\ status[o] = "failed" /\ o \notin callbacks[t]
    /\ Delete(o)
    /\ UNCHANGED <<work, timer, adding, callbacks, world, mail, calls, hist>>

-----------------------------------------------------------------------------
(* The server applies or refuses a move; time passes.                      *)

TakesEffect(o) ==
    /\ folder' = dest[o]
    /\ applied' = IF o \in Range(applied) THEN applied ELSE Append(applied, o)

ServerAnswers(t) ==
    /\ call[t] = "sent"
    /\ \/ /\ call' = [call EXCEPT ![t] = "applied"]
          /\ TakesEffect(Head1(t))
          /\ UNCHANGED failures
       \/ /\ call' = [call EXCEPT ![t] = "refused"]
          /\ failures < MaxFailures
          /\ failures' = failures + 1
          /\ UNCHANGED <<folder, applied>>
    /\ UNCHANGED <<rows, pc, batch, seen, timer, adding, callbacks, online, reloads,
                   orphans, calls, hist>>

ServerMeetsOrphan(o) ==
    /\ o \in orphans
    /\ orphans' = orphans \ {o}
    /\ TakesEffect(o) \/ UNCHANGED <<folder, applied>>
    /\ UNCHANGED <<rows, work, timer, adding, callbacks, world, calls, hist>>

Tick ==
    /\ \E o \in Ops : wait[o] > 0
    /\ wait' = [o \in Ops |-> IF wait[o] > 0 THEN wait[o] - 1 ELSE 0]
    /\ timer' = [t \in Tabs |-> IF timer[t] > 0 THEN timer[t] - 1 ELSE timer[t]]
    /\ UNCHANGED <<ahead, status, attempts, dest, work, adding, callbacks, world,
                   mail, calls, hist>>

-----------------------------------------------------------------------------
User(t)   == \E f \in Folders : EnqueueLooks(t, f) \/ EnqueueMerges(t, f)
RunnerStep(t) ==
    \/ Start(t) \/ Peek(t) \/ EndDrain(t) \/ EndBatch(t)
    \/ MarkRunning(t) \/ Call(t) \/ AnswerOk(t) \/ AnswerError(t)
    \/ MarkDone(t) \/ FailRead(t) \/ FailWrite(t) \/ Wake(t)
Reconcile(t) == \E o \in Ops : Report(t, o) \/ DropFailed(t, o)

Next ==
    \/ GoOnline \/ GoOffline \/ Tick
    \/ \E o \in Ops : ServerMeetsOrphan(o)
    \/ \E t \in Tabs : \/ User(t) \/ EnqueueAdds(t) \/ RunnerStep(t) \/ Reconcile(t) \/ Reload(t)
                        \/ ServerAnswers(t)

Spec == Init /\ [][Next]_vars

\* A tab is reopened and runs its event loop, the server answers, time
\* passes.  Users, connectivity and reloads owe nothing.
FairSpec ==
    /\ Spec /\ WF_vars(Tick)
    /\ \A t \in Tabs : /\ WF_vars(EnqueueAdds(t)) /\ WF_vars(RunnerStep(t))
                        /\ WF_vars(Reconcile(t)) /\ WF_vars(ServerAnswers(t))

-----------------------------------------------------------------------------
(* Properties.                                                             *)

\* A queued op leaves the outbox only after the server has acted on it, or
\* after its attempts are used up: across reloads, lost answers and a second
\* tab, no move the user made is silently forgotten.
NotLost ==
    \A o \in Ops : status[o] \in {"pending", "running", "failed"} /\ status'[o] = "gone"
        => o \in Range(applied) \/ (status[o] = "failed" /\ attempts[o] >= MaxAttempts)

NothingLost == [][NotLost]_vars

\* Only one tab of the user is open.
OneTab == \E t \in Tabs : Tabs = {t}

\* The give-up limit is real: with one tab an op is tried MaxAttempts times,
\* plus once for every reload that interrupted it.
TriesBounded == \A o \in Ops : calls[o] <= MaxAttempts + reloads

\* With one tab a failed op is deleted only after the user was told, unless
\* the page that knew what to tell was reloaded.
Told == \A o \in Ops : status[o] = "failed" /\ status'[o] = "gone"
                          => o \in reported \cup muted

FailureReported == [][OneTab => Told]_vars

Overtakes(j, i) == \E m, n \in DOMAIN applied :
                      m < n /\ applied[m] = j /\ applied[n] = i /\ i < j

\* With one tab the only way to be overtaken is to fail and back off.
FifoUnlessRetried == \A i, j \in Ops : Overtakes(j, i) => attempts[i] > 0

Quiet == /\ Stored = {} /\ orphans = {}
         /\ \A t \in Tabs : adding[t] = None

\* When the outbox has drained, the message is where the user last put it;
\* only a failed call, a reload or a request merged into an older row can
\* make it otherwise.
Smooth == failures = 0 /\ reloads = 0

LastMoveWins == Quiet /\ Smooth /\ ~merged => folder = intent

-----------------------------------------------------------------------------
(* What these follow from.  First, for any number of tabs.                 *)

\* The rows are in one order, which is that of their due times.
OrderInv ==
    /\ \A o, p \in Ops : p \in ahead[o] =>
          /\ o \in Stored /\ p \in Stored /\ wait[p] <= wait[o]
          /\ o \notin ahead[p]
          /\ \A q \in ahead[p] : q \in ahead[o]
    /\ \A o, p \in Stored : o = p \/ o \in ahead[p] \/ p \in ahead[o]

\* What a row's columns say of its past.
RowsInv ==
    /\ \A p, q \in Ops : p < q /\ status[p] = "none" => status[q] = "none"
    /\ \A o \in Ops :
          /\ status[o] = "none" => attempts[o] = 0 /\ calls[o] = 0
          /\ status[o] # "none" => dest[o] \in Folders
          /\ attempts[o] = 0 => wait[o] = 0
          /\ status[o] = "failed" => attempts[o] >= MaxAttempts
          /\ status[o] = "gone" => o \in Range(applied) \/ attempts[o] >= MaxAttempts
          /\ o \in Range(applied) \cup orphans => calls[o] > 0

\* Pieces of processOne: after the row is marked, after the request is sent.
Busy(t)   == pc[t] \in {"call", "await", "done", "failRead", "failWrite"}
Trying(t) == pc[t] \in {"await", "done", "failRead", "failWrite"}

\* Where a runner stands and what it holds.
Stands(t) ==
    /\ pc[t] \in {"closed", "idle", "drain"} => batch[t] = <<>>
    /\ Busy(t) => batch[t] # <<>>
    /\ Trying(t) => calls[Head1(t)] > 0
    /\ call[t] # "none" <=> pc[t] = "await"
    /\ call[t] = "applied" \/ pc[t] = "done" => Head1(t) \in Range(applied)
    /\ \A k \in DOMAIN batch[t] : status[batch[t][k]] # "none"
    /\ pc[t] = "closed" => adding[t] = None

RunnerInv == \A t \in Tabs : Stands(t)

\* With one tab: it alone runs rows, and those of its batch, each once, are
\* still to be run; none of them has an untried row before it outside.
Hand(t) ==
    /\ Busy(t) => status[Head1(t)] = "running"
    /\ \A o \in Ops : status[o] = "running" =>
          pc[t] = "closed" \/ (Busy(t) /\ o = Head1(t))
    /\ pc[t] = "failWrite" => seen[t] = attempts[Head1(t)]
    /\ \A k, l \in DOMAIN batch[t] : batch[t][k] = batch[t][l] => k = l
    /\ \A k \in DOMAIN batch[t] :
          /\ k > 1 \/ pc[t] = "op" => status[batch[t][k]] = "pending"
          /\ \A i \in Stored : i < batch[t][k] /\ attempts[i] = 0 =>
                \E l \in DOMAIN batch[t] : l < k /\ batch[t][l] = i

HandInv == \A t \in Tabs : Hand(t)

\* A try is counted when it fails, or else the reload that cut it short is.
TriesInv ==
    \A o \in Ops :
       /\ calls[o] <= MaxAttempts + reloads
       /\ status[o] \in {"pending", "running"} =>
             /\ attempts[o] < MaxAttempts
             /\ \/ calls[o] <= attempts[o] + reloads
                \/ /\ calls[o] <= attempts[o] + reloads + 1
                   /\ \E t \in Tabs : Trying(t) /\ o = Head1(t)

\* Whoever asked for a row still waits for word of it, or went away.
WordInv == \A o \in Stored, t \in Tabs : o \in callbacks[t] \cup reported \cup muted

\* An op that has not failed keeps its place.
FifoInv ==
    /\ \A i, j \in Stored : i < j /\ attempts[i] = 0 => i \in ahead[j]
    /\ \A i, j \in Ops : i < j /\ calls[j] > 0 => attempts[i] > 0 \/ i \in Range(applied)
    /\ FifoUnlessRetried

\* Until something fails or is reloaded each op is sent once, in its turn.
SmoothInv ==
    Smooth =>
       /\ orphans = {}
       /\ \A o \in Ops : attempts[o] = 0 /\ (status[o] = "pending" => calls[o] = 0)
       /\ \A o \in Range(applied) :
             (\A p \in Range(applied) : p <= o) => folder = dest[o]
       /\ \A t \in Tabs :
             /\ call[t] # "refused" /\ pc[t] \notin {"failRead", "failWrite"}
             /\ pc[t] = "call" => calls[Head1(t)] = 0
             /\ call[t] = "sent" => Head1(t) \notin Range(applied)
             /\ pc[t] = "closed" => \A o \in Ops : status[o] = "none"

\* The user's last wish is what is being added, or else the newest row.
WishInv ==
    Smooth /\ ~merged =>
       \A t \in Tabs :
          /\ adding[t] # None => intent = adding[t]
          /\ adding[t] = None =>
                /\ \A o \in Ops : status[o] # "none"
                                  /\ (\A p \in Ops : o < p => status[p] = "none")
                                     => intent = dest[o]
                /\ (\A o \in Ops : status[o] = "none") => intent = folder

OneTabInv == HandInv /\ TriesInv /\ WordInv /\ FifoInv /\ SmoothInv /\ WishInv

IInv == TypeOK /\ OrderInv /\ RowsInv /\ RunnerInv /\ (OneTab => OneTabInv)

-----------------------------------------------------------------------------
\* With one tab: tries are limited, only a retry lets an op be overtaken, and
\* the last move decides the folder.
OrderHolds ==
    IInv /\ (OneTab => TriesBounded /\ FifoUnlessRetried /\ LastMoveWins)

\* No op goes without its effect or its attempts and, with one tab, none that
\* failed without a word.
OpsAccounted == NothingLost /\ FailureReported

\* Once the network stays up every queued op is carried out or reported: no
\* wake-up is lost between draining, enqueueing, timers and reloads.
QueueDrains ==
    <>[]online => \A o \in Ops : status[o] = "pending" ~> status[o] = "gone"
=============================================================================
