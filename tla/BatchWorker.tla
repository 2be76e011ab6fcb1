---------------------------- MODULE BatchWorker -----------------------------
(***************************************************************************)
(* The minute jobs that read messages: card-worker.service.ts,             *)
(* embed-worker.service.ts and attachment-embed-worker.service.ts.  The    *)
(* three share their skeleton, down to pickFairBatch: a query for the      *)
(* newest messages without a row of the current model, a fair share of     *)
(* them, and for each message a reading that may fail, a row, or after     *)
(* FailureLimit failures in a row a tombstone.  kind says which of the     *)
(* three runs; where they differ, so do Stores, GivesUp and Purged.        *)
(* A message with a higher number is newer.                                *)
(***************************************************************************)
EXTENDS Naturals, FiniteSets, Sequences

CONSTANTS Users, MaxMessage, Owner,
          PerUser, Total,    \* of each kind: shares of a batch
          HeadroomFactor,    \* candidates of a query, in batches (4 in the code)
          FailureLimit,
          MaxEvents          \* bound on what happens to the worker besides

Messages == 1 .. MaxMessage
Kinds    == {"cards", "mail", "attachments"}

VARIABLES
    kind,
    place,     \* of each message: no row, in Inbox or Sent, in another folder
    age,       \* 0 within the backfill, 2 beyond the retention
    signed,    \* users with a token
    rows,      \* what is there for a message: nothing, another model's, ...
    strikes,   \* failures in a row, in memory
    batch, pc, got,
    events,
    \* history, for the properties only
    streak,    \* failed readings since one that worked, or a restart
    verdict,   \* why the tombstone of a message is there
    projected, \* cards whose commitments were written
    cut        \* ... whose projection failed or was lost in a crash

world  == <<place, age, signed>>
worker == <<strikes, batch, pc, got>>
hist   == <<streak, verdict, projected, cut>>
vars   == <<kind, world, rows, worker, events, hist>>

TypeOK ==
    /\ kind \in Kinds
    /\ place \in [Messages -> {"gone", "inbox", "filed"}] /\ age \in [Messages -> 0 .. 2]
    /\ signed \subseteq Users
    /\ rows \in [Messages -> {"none", "old", "good", "dead"}]
    /\ strikes \in [Messages -> 0 .. FailureLimit - 1]
    /\ batch \in Seq(Messages) /\ Len(batch) <= Total[kind]
    /\ pc \in {"idle", "loop", "store", "project", "strike"}
    /\ pc \notin {"idle", "loop"} => batch # <<>>
    /\ got \in {"", "text", "nothing"} /\ (got # "" <=> pc = "store")
    /\ events \in 0 .. MaxEvents
    /\ streak \in [Messages -> Nat] /\ verdict \in [Messages -> {"", "empty", "failing"}]
    /\ projected \subseteq Messages /\ cut \subseteq Messages

Init ==
    /\ kind \in Kinds
    /\ place = [m \in Messages |-> "inbox"] /\ age = [m \in Messages |-> 0] /\ signed = Users
    /\ rows = [m \in Messages |-> "none"]
    /\ strikes = [m \in Messages |-> 0] /\ batch = <<>> /\ pc = "idle" /\ got = ""
    /\ events = 0
    /\ streak = strikes /\ verdict = [m \in Messages |-> ""] /\ projected = {} /\ cut = {}

-----------------------------------------------------------------------------
(* The query and the shares.                                               *)

\* Mutant: a message without text is read again at every tick.
EligibleAgain(m) ==
    /\ place[m] = "inbox" /\ age[m] = 0 /\ Owner[m] \in signed
    /\ rows[m] \in {"none", "old", "dead"}

Eligible(m) ==
    /\ place[m] = "inbox" /\ age[m] = 0 /\ Owner[m] \in signed
    /\ rows[m] \in {"none", "old"}

Sooner(C, m, n) == \* n's place is behind m's: everybody's first, everybody's second, ...
    LET Of(k)    == {j \in C : Owner[j] = Owner[k]}
        Round(k) == Cardinality({j \in Of(k) : j > k})
        Comes(k) == CHOOSE j \in Of(k) : \A i \in Of(k) : i <= j
    IN Round(m) < Round(n) \/ (Round(m) = Round(n) /\ Comes(m) > Comes(n))

InOrder(S, n, Before(_, _)) ==
    LET Place(m) == Cardinality({k \in S : Before(k, m)}) + 1
    IN [i \in 1 .. (IF Cardinality(S) < n THEN Cardinality(S) ELSE n) |-> CHOOSE m \in S : Place(m) = i]

\* Mutant: whoever comes first takes the whole batch.
PickFirst == [k \in Kinds |-> [C \in SUBSET Messages |-> InOrder(C, Total[k], LAMBDA m, n : m > n)]]

\* The batch of each set of candidates: at most PerUser of everybody.
PickFair ==
    [k \in Kinds |-> [C \in SUBSET Messages |->
        InOrder({m \in C : Cardinality({j \in C : Owner[j] = Owner[m] /\ j > m}) < PerUser[k]},
                Total[k], LAMBDA m, n : Sooner(C, m, n))]]

Candidates ==
    LET all == {m \in Messages : Eligible(m)}
    IN {m \in all : Cardinality({k \in all : k > m}) < HeadroomFactor * Total[kind]}

StartTick ==
    /\ pc = "idle" /\ Candidates # {}
    /\ pc' = "loop" /\ batch' = PickFair[kind][Candidates]
    /\ UNCHANGED <<kind, world, rows, strikes, got, events, hist>>

-----------------------------------------------------------------------------
(* One message.                                                            *)

cur   == Head(batch)
Event == events < MaxEvents /\ events' = events + 1

\* The batch goes on with the next message.
Leave == pc' = "loop" /\ batch' = Tail(batch)

\* getMessage, and the model or the embedder, answer.
Read(g) ==
    /\ pc = "loop" /\ batch # <<>> /\ Owner[cur] \in signed /\ place[cur] # "gone"
    /\ pc' = "store" /\ got' = g
    /\ UNCHANGED <<kind, world, rows, strikes, batch, events, hist>>

\* Signed out, deleted meanwhile, or something fails on the way.
ReadFails ==
    /\ pc = "loop" /\ batch # <<>>
    /\ IF Owner[cur] \in signed /\ place[cur] # "gone" THEN Event ELSE UNCHANGED events
    /\ pc' = "strike" /\ streak' = [streak EXCEPT ![cur] = @ + 1]
    /\ UNCHANGED <<kind, world, rows, strikes, batch, got, verdict, projected, cut>>

\* An empty message leaves its strikes in the embed worker's map (continue).
KeepsStrikes == kind = "mail" /\ got = "nothing"

\* Mutant: a message that had a card of another model is not projected again.
LedgerOnce == kind = "cards" /\ got = "text" /\ rows[cur] = "none"

NeedsLedger == kind = "cards" /\ got = "text"

\* The rows of the message go in one write.
Store ==
    /\ pc = "store"
    /\ place[cur] # "gone" \/ (kind = "attachments" /\ got = "nothing")
    /\ rows' = [rows EXCEPT ![cur] = IF place[cur] = "gone" THEN "none"
                                     ELSE IF got = "text" THEN "good" ELSE "dead"]
    /\ verdict' = [verdict EXCEPT ![cur] = IF rows'[cur] = "dead" THEN "empty" ELSE ""]
    /\ strikes' = [strikes EXCEPT ![cur] = IF KeepsStrikes THEN @ ELSE 0]
    /\ streak' = [streak EXCEPT ![cur] = IF KeepsStrikes THEN @ ELSE 0]
    /\ projected' = projected \ {cur} /\ cut' = cut \ {cur}
    /\ got' = ""
    /\ IF NeedsLedger THEN pc' = "project" /\ UNCHANGED batch ELSE Leave
    /\ UNCHANGED <<kind, world, events>>

\* The message was deleted meanwhile, or the database fails: a strike too.
\* The embed worker has then perhaps deleted the rows of another model.
StoreFails ==
    /\ pc = "store"
    /\ IF place[cur] # "gone" THEN Event ELSE UNCHANGED events
    /\ \/ UNCHANGED rows
       \/ kind = "mail" /\ got = "nothing" /\ rows[cur] = "old"
          /\ rows' = [rows EXCEPT ![cur] = "none"]
    /\ pc' = "strike" /\ got' = "" /\ streak' = [streak EXCEPT ![cur] = @ + 1]
    /\ UNCHANGED <<kind, world, strikes, batch, verdict, projected, cut>>

\* A commitment the ledger has already is only touched.
Project ==
    /\ pc = "project"
    /\ projected' = projected \cup {cur}
    /\ Leave
    /\ UNCHANGED <<kind, world, rows, strikes, got, events, streak, verdict, cut>>

\* Logged; the card stays, so the message is not selected again.
ProjectFails ==
    /\ pc = "project" /\ Event
    /\ cut' = cut \cup {cur}
    /\ Leave
    /\ UNCHANGED <<kind, world, rows, strikes, got, streak, verdict, projected>>

LastStrike == strikes[cur] + 1 >= FailureLimit

Strike ==
    /\ pc = "strike" /\ ~LastStrike
    /\ strikes' = [strikes EXCEPT ![cur] = @ + 1]
    /\ Leave
    /\ UNCHANGED <<kind, world, rows, got, events, hist>>

GivesUp == [rows EXCEPT ![cur] = IF place[cur] = "gone" THEN "none" ELSE "dead"]

Tombstone ==
    /\ pc = "strike" /\ LastStrike
    /\ place[cur] # "gone" \/ kind = "attachments"
    /\ rows' = GivesUp
    /\ verdict' = [verdict EXCEPT ![cur] = IF rows'[cur] = "dead" THEN "failing" ELSE ""]
    /\ strikes' = [strikes EXCEPT ![cur] = 0]
    /\ Leave
    /\ UNCHANGED <<kind, world, got, events, streak, projected, cut>>

\* Thrown out of the catch block: the rest of the batch waits for a tick.
TombstoneFails ==
    /\ pc = "strike" /\ LastStrike
    /\ IF place[cur] # "gone" THEN Event ELSE kind # "attachments" /\ UNCHANGED events
    /\ pc' = "idle" /\ batch' = <<>>
    /\ UNCHANGED <<kind, world, rows, strikes, got, hist>>

\* Cards go after 90 days, embeddings when they leave the backfill.
Purged == {m \in Messages : \/ kind = "cards" /\ age[m] = 2
                            \/ kind = "mail" /\ age[m] >= 1}

\* The purge is due once an hour.
EndTick ==
    /\ pc = "loop" /\ batch = <<>>
    /\ pc' = "idle"
    /\ \/ UNCHANGED <<rows, verdict>>
       \/ /\ rows' = [m \in Messages |-> IF m \in Purged THEN "none" ELSE rows[m]]
          /\ verdict' = [m \in Messages |-> IF m \in Purged THEN "" ELSE verdict[m]]
    /\ UNCHANGED <<kind, world, strikes, batch, got, events, streak, projected, cut>>

-----------------------------------------------------------------------------
(* The rest of the world; every step of it is an event.                    *)

\* The strikes go with the process; another model makes all rows old.
Restart(switch) ==
    /\ Event
    /\ pc' = "idle" /\ batch' = <<>> /\ got' = ""
    /\ strikes' = [m \in Messages |-> 0] /\ streak' = strikes'
    /\ cut' = IF pc = "project" THEN cut \cup {cur} ELSE cut
    /\ IF switch
       THEN /\ rows' = [m \in Messages |-> IF rows[m] = "none" THEN "none" ELSE "old"]
            /\ verdict' = [m \in Messages |-> ""]
       ELSE UNCHANGED <<rows, verdict>>
    /\ UNCHANGED <<kind, world, projected>>

\* Deleting a message takes its card and embeddings with it.
Move(m, to) ==
    /\ Event /\ place[m] # to
    /\ place' = [place EXCEPT ![m] = to]
    /\ IF to = "gone"
       THEN /\ rows' = [rows EXCEPT ![m] = "none"] /\ verdict' = [verdict EXCEPT ![m] = ""]
            /\ projected' = projected \ {m} /\ cut' = cut \ {m}
       ELSE UNCHANGED <<rows, verdict, projected, cut>>
    /\ UNCHANGED <<kind, age, signed, worker, streak>>

\* The oldest messages first.
GrowsOld(m) ==
    /\ Event /\ age[m] < 2 /\ \A k \in 1 .. m - 1 : age[k] > age[m]
    /\ age' = [age EXCEPT ![m] = @ + 1]
    /\ UNCHANGED <<kind, place, signed, rows, worker, hist>>

SignInOrOut(u) ==
    /\ Event
    /\ signed' = IF u \in signed THEN signed \ {u} ELSE signed \cup {u}
    /\ UNCHANGED <<kind, place, age, rows, worker, hist>>

-----------------------------------------------------------------------------
Step ==
    \/ StartTick \/ Read("text") \/ Read("nothing") \/ Store
    \/ Project \/ Strike \/ Tombstone \/ EndTick

Failure == ReadFails \/ StoreFails \/ ProjectFails \/ TombstoneFails

World ==
    \/ \E s \in BOOLEAN : Restart(s)
    \/ \E m \in Messages : GrowsOld(m) \/ \E to \in {"gone", "inbox", "filed"} : Move(m, to)
    \/ \E u \in Users : SignInOrOut(u)

Next == Step \/ Failure \/ World

\* The job runs every minute and each of its calls ends, well or badly.
Spec == Init /\ [][Next]_vars /\ WF_vars(Step \/ Failure)

-----------------------------------------------------------------------------
(* A message is given up only after FailureLimit readings of this process  *)
(* failed with none between them that worked (that found text, for the     *)
(* embed worker).                                                          *)
GivenUpLate ==
    \A m \in Messages : verdict'[m] = "failing" /\ verdict[m] # "failing" => streak[m] >= FailureLimit

(* Whoever has candidates left in the queue has no two messages less in    *)
(* the batch than anybody else, and a place is left empty only when all    *)
(* have their share.                                                       *)
Fair(C, b) ==
    LET In(u)   == Cardinality({i \in DOMAIN b : Owner[b[i]] = u})
        Left(u) == \E m \in C : Owner[m] = u /\ ~\E i \in DOMAIN b : b[i] = m
    IN \A u \in Users :
          /\ In(u) <= PerUser[kind]
          /\ Left(u) => /\ \A v \in Users : In(v) <= In(u) + 1
                        /\ Len(b) < Total[kind] => In(u) = PerUser[kind]

FairShares == pc = "idle" /\ pc' = "loop" => Fair(Candidates, batch')

(* A card has its commitments in the ledger, unless their writing failed   *)
(* or a crash came between the card and the ledger.                        *)
PromisesKept ==
    kind = "cards" =>
        \A m \in Messages : rows[m] = "good" =>
            m \in projected \cup cut \/ (pc = "project" /\ m = cur)

(* What has been read is not read again: no row goes but with its message, *)
(* its model or its age.                                                   *)
ReadOnce ==
    \A m \in Messages : rows[m] \in {"good", "dead"} /\ rows'[m] # "old" =>
        place'[m] = "gone" \/ ~Eligible(m)'

\* Strikes are failures, some of which are forgotten.
StrikesInv ==
    \A m \in Messages : strikes[m] + (IF pc = "strike" /\ m = cur THEN 1 ELSE 0) <= streak[m]

(* A card has its commitments, but for failures and crashes between the    *)
(* two writes.                                                             *)
CardsHavePromises == TypeOK /\ StrikesInv /\ PromisesKept

(* A message is given up late, shares of a batch are fair, and what has    *)
(* been read is not read again.                                            *)
FairStep    == GivenUpLate /\ FairShares /\ ReadOnce
BatchesFair == [][FairStep]_vars
=============================================================================
