----------------------------- MODULE EventSoon -----------------------------
(***************************************************************************)
(* The job that announces a calendar event half an hour ahead              *)
(* (notifications.scheduler.ts).  It keeps no mark: an event counts as     *)
(* announced when a notification about it is found among the recent ones.  *)
(* The job does not wait for its own completion, so its ticks overlap.     *)
(* One event; the loop treats each alike.                                  *)
(***************************************************************************)
EXTENDS Naturals, Sequences

CONSTANTS Ticks,
          Ahead, Lookback,          \* how long before its start; how far back notifications count
          MaxTime, MaxFaults, MaxMoves \* bounds; moves count deletions too

VARIABLES
    clock, startAt,     \* 0: the event is not there
    told,               \* EVENT_SOON notifications about it, oldest first
    pc, now,            \* of each tick; the time it began
    knew,               \* history: how many notifications there were when a tick looked
    faults, moves,
    covered             \* history: a tick that began while the event was due has ended well

vars == <<clock, startAt, told, pc, now, knew, faults, moves, covered>>

Times == 0 .. MaxTime

TypeOK ==
    /\ clock \in Times /\ startAt \in Times
    /\ \A i \in 1 .. Len(told) : told[i].at \in Times /\ told[i].knew \in 0 .. i - 1
    /\ pc \in [Ticks -> {"idle", "look", "tell"}] /\ now \in [Ticks -> Times]
    /\ knew \in [Ticks -> 0 .. Len(told)]
    /\ faults \in 0 .. MaxFaults /\ moves \in 0 .. MaxMoves /\ covered \in BOOLEAN
    /\ \A t \in Ticks : now[t] <= clock

Init ==
    /\ clock = 1 /\ startAt \in 2 .. MaxTime /\ told = <<>>
    /\ pc = [t \in Ticks |-> "idle"] /\ now = [t \in Ticks |-> 0] /\ knew = [t \in Ticks |-> 0]
    /\ faults = 0 /\ moves = 0 /\ covered = FALSE

Due(time) == time < startAt /\ startAt <= time + Ahead

\* The query at the start of the tick.
Begin(t) ==
    /\ pc[t] = "idle" /\ Due(clock)
    /\ pc' = [pc EXCEPT ![t] = "look"] /\ now' = [now EXCEPT ![t] = clock]
    /\ UNCHANGED <<clock, startAt, told, knew, faults, moves, covered>>

\* Mutant: only notifications of this minute count.
RecentNow(t, i) == told[i].at >= now[t] /\ ~told[i].deleted

Recent(t, i) == told[i].at + Lookback >= now[t] /\ ~told[i].deleted

Announced(t) == \E i \in 1 .. Len(told) : Recent(t, i)

End(t) ==
    /\ pc' = [pc EXCEPT ![t] = "idle"] /\ now' = [now EXCEPT ![t] = 0]
    /\ knew' = [knew EXCEPT ![t] = 0]

Look(t) ==
    /\ pc[t] = "look"
    /\ IF Announced(t)
       THEN End(t) /\ covered' = (covered \/ Due(now[t]))
       ELSE /\ pc' = [pc EXCEPT ![t] = "tell"] /\ knew' = [knew EXCEPT ![t] = Len(told)]
            /\ UNCHANGED <<now, covered>>
    /\ UNCHANGED <<clock, startAt, told, faults, moves>>

Tell(t) ==
    /\ pc[t] = "tell"
    /\ told' = Append(told, [at |-> clock, knew |-> knew[t], deleted |-> FALSE])
    /\ End(t) /\ covered' = (covered \/ Due(now[t]))
    /\ UNCHANGED <<clock, startAt, faults, moves>>

\* Logged; the next tick tries again.
Fail(t) ==
    /\ pc[t] # "idle" /\ faults < MaxFaults /\ faults' = faults + 1
    /\ End(t) /\ UNCHANGED <<clock, startAt, told, moves, covered>>

\* The row is written again, by an update or a listing.
Reschedule ==
    /\ startAt # 0 /\ moves < MaxMoves /\ moves' = moves + 1
    /\ \E s \in {0} \cup (clock + 1 .. MaxTime) : s # startAt /\ startAt' = s
    /\ covered' = FALSE
    /\ UNCHANGED <<clock, told, pc, now, knew, faults>>

\* By the user, who has read it; no trace is left.
DeleteNotification ==
    /\ moves < MaxMoves /\ moves' = moves + 1
    /\ \E i \in 1 .. Len(told) :
          ~told[i].deleted /\ told' = [told EXCEPT ![i].deleted = TRUE]
    /\ UNCHANGED <<clock, startAt, pc, now, knew, faults, covered>>

Pass ==
    /\ clock < MaxTime /\ clock' = clock + 1
    /\ UNCHANGED <<startAt, told, pc, now, knew, faults, moves, covered>>

Next == Reschedule \/ DeleteNotification \/ Pass \/ \E t \in Ticks : Begin(t) \/ Look(t) \/ Tell(t) \/ Fail(t)

Spec == Init /\ [][Next]_vars

-----------------------------------------------------------------------------
(* Nobody is told twice of an event, except by a tick that looked before   *)
(* the other one had written, after the notification was deleted, or when  *)
(* the event was moved and the first one no longer counts.                 *)
ToldOnce ==
    \A j \in 1 .. Len(told) : \A i \in 1 .. j - 1 :
        moves = 0 \/ told[j].at <= told[i].at + Lookback
            => told[i].deleted \/ i > told[j].knew

(* After a tick that saw the event due and ended well there is a           *)
(* notification about it that is recent - of this start, or, when the      *)
(* event was moved after it was announced, of the one before.              *)
CoveredMeansTold ==
    covered => \E i \in 1 .. Len(told) : told[i].at + Lookback + Ahead >= startAt

(* An event is announced once, and not missed                              *)
(* (notifications.scheduler.ts).                                           *)
EventsAnnounced == TypeOK /\ ToldOnce /\ CoveredMeansTold
=============================================================================
