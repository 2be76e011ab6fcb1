---------------------------- MODULE CalendarGrid ----------------------------
(***************************************************************************)
(* Two algorithms of the calendar page (calendar/page.tsx): the columns of *)
(* events that overlap, and the free slots suggested for a meeting.        *)
(*                                                                         *)
(* Times are ticks of ten minutes, six to the hour, of which the second    *)
(* and the fifth stand for the seconds after the full and the half hour:   *)
(* their minutes are still 0 and 30.                                       *)
(***************************************************************************)
EXTENDS Integers, Sequences, FiniteSets, FiniteSetsExt, SequencesExt

CONSTANTS DayLength, DayStart, DayEnd, \* ticks of a day, of 09:00 and of 17:00
          Days,                        \* days searched: 30 in the code
          Weekend,                     \* those that are skipped
          MaxSlots

HalfHour == 3
Seconds(t) == t % HalfHour = 1

-----------------------------------------------------------------------------
(* Columns.                                                                *)

\* The order of layoutOverlapping: by start, longer ones first.
InOrder(a, b) == a.start < b.start \/ (a.start = b.start /\ a.end >= b.end)

Overlap(a, b) == a.start < b.end /\ b.start < a.end

FreeColumns(placed, ev) == {c \in 1 .. Len(placed.ends) : placed.ends[c] <= ev.start}

\* The first column that is free, or a new one.
Place(placed, ev) ==
    LET free == FreeColumns(placed, ev)
        c    == IF free = {} THEN Len(placed.ends) + 1 ELSE Min(free)
        Put(seq, x) == IF free = {} THEN Append(seq, x) ELSE [seq EXCEPT ![c] = x]
    IN [starts |-> Put(placed.starts, ev.start), ends |-> Put(placed.ends, ev.end),
        cols |-> Append(placed.cols, c)]

Columns(events) ==
    FoldLeft(Place, [starts |-> <<>>, ends |-> <<>>, cols |-> <<>>], events).cols

\* The width of an event is shared with those it overlaps itself.
TotalCols(events, i) ==
    LET cols == Columns(events)
    IN Max({cols[j] : j \in {k \in 1 .. Len(events) : k = i \/ Overlap(events[k], events[i])}})

\* Events at the same time are not in the same column, and an event is within
\* its total.  There are as many columns as events are ever on at once, unless
\* one is of no length: it takes a column, and is on at no time.
ColumnsApart(events) ==
    LET cols == Columns(events)
        On(t) == {i \in 1 .. Len(events) : events[i].start <= t /\ t < events[i].end}
    IN /\ \A i, j \in 1 .. Len(events) :
             i # j /\ Overlap(events[i], events[j]) => cols[i] # cols[j]
       /\ \A i \in 1 .. Len(events) : cols[i] <= TotalCols(events, i)
       /\ events # <<>> /\ (\A i \in 1 .. Len(events) : events[i].start < events[i].end)
             => Max({cols[i] : i \in 1 .. Len(events)})
                = Max({Cardinality(On(events[i].start)) : i \in 1 .. Len(events)})

-----------------------------------------------------------------------------
(* Free slots.                                                             *)

\* mergeIntervals
MergeOne(merged, iv) ==
    IF merged # <<>> /\ iv.start <= Last(merged).end
    THEN [merged EXCEPT ![Len(merged)].end = IF iv.end > @ THEN iv.end ELSE @]
    ELSE Append(merged, iv)

Merged(intervals) ==
    FoldLeft(MergeOne, <<>>, SortSeq(intervals, LAMBDA a, b : a.start < b.start))

Clipped(b, from, to) ==
    [start |-> IF b.start > from THEN b.start ELSE from, end |-> IF b.end < to THEN b.end ELSE to]

\* subtractIntervals: what is left between two ends.
FreeWindows(from, to, busy) ==
    LET within == SelectSeq(busy, LAMBDA b : b.end > from /\ b.start < to)
        taken  == Merged([i \in 1 .. Len(within) |-> Clipped(within[i], from, to)])
        Step(acc, b) ==
            [free |-> IF b.start > acc.cursor
                      THEN Append(acc.free, [start |-> acc.cursor, end |-> b.start]) ELSE acc.free,
             cursor |-> b.end]
        all == FoldLeft(Step, [free |-> <<>>, cursor |-> from], taken)
    IN IF all.cursor < to THEN Append(all.free, [start |-> all.cursor, end |-> to]) ELSE all.free

\* snapToHalfHour looks at the minutes alone.
Snap(t) ==
    IF t % 6 \in {0, 1} THEN t
    ELSE IF t % 6 <= 4 THEN t - (t % 6) + HalfHour
    ELSE t - (t % 6) + 6

\* The starts within one window, a half hour apart.
Starts(window, duration) ==
    LET first == Snap(window.start)
        n == IF first + duration > window.end THEN 0
             ELSE ((window.end - duration - first) \div HalfHour) + 1
    IN [k \in 1 .. n |-> first + (k - 1) * HalfHour]

\* Mutant: a tentative time does not count.
AllBusyForSure(blocks) == SelectSeq(blocks, LAMBDA b : b.type = "busy")

\* The times of the attendees that count; unavailable ones are shown, no more.
AllBusy(blocks) == SelectSeq(blocks, LAMBDA b : b.type \in {"busy", "tentative"})

\* findFreeSlots; the day of `from` begins at from itself.
DaySlots(day, from, duration, busy) ==
    LET open  == day * DayLength + DayStart
        close == day * DayLength + DayEnd
        begin == IF from > open THEN from ELSE open
        windows == FreeWindows(begin, close, busy)
    IN IF day \in Weekend \/ close <= from THEN <<>>
       ELSE FoldLeft(LAMBDA acc, w : acc \o Starts(w, duration), <<>>, windows)

FreeSlots(from, duration, blocks) ==
    LET busy     == AllBusy(blocks)
        firstDay == from \div DayLength
        days     == [k \in 1 .. Days |-> firstDay + k - 1]
        all      == FoldLeft(LAMBDA acc, d : acc \o DaySlots(d, from, duration, busy), <<>>, days)
    IN SubSeq(all, 1, IF Len(all) < MaxSlots THEN Len(all) ELSE MaxSlots)

\* What a slot is, without the search: within the hours, and met by no time at
\* which an attendee is busy, or may be.  It may be one at which an attendee is
\* unavailable.
Suitable(t, from, duration, blocks) ==
    LET day == t \div DayLength IN
    /\ day \notin Weekend /\ t % HalfHour = 0 /\ t >= from
    /\ t % DayLength >= DayStart /\ (t % DayLength) + duration <= DayEnd
    /\ \A i \in 1 .. Len(blocks) :
          Overlap([start |-> t, end |-> t + duration], blocks[i]) => blocks[i].type = "unavailable"

WholeMinutes(from, blocks) ==
    /\ ~Seconds(from)
    /\ \A i \in 1 .. Len(blocks) : ~Seconds(blocks[i].start) /\ ~Seconds(blocks[i].end)

\* For times of whole minutes the slots are the earliest suitable ones, in order.
SlotsAreFirst(from, duration, blocks) ==
    LET slots == FreeSlots(from, duration, blocks)
        last  == ((from \div DayLength) + Days) * DayLength - 1
        good  == {t \in from .. last : Suitable(t, from, duration, blocks)}
    IN WholeMinutes(from, blocks) =>
         /\ \A i \in 1 .. Len(slots) - 1 : slots[i] < slots[i + 1]
         /\ ToSet(slots) \subseteq good
         /\ \A t \in good \ ToSet(slots) :
               Len(slots) = MaxSlots /\ \A i \in 1 .. MaxSlots : slots[i] < t
=============================================================================
