--------------------------- MODULE MCPartsSafety --------------------------
(***************************************************************************)
(* Components that do not share state and owe no progress, in one run: a   *)
(* behaviour is of the component that subject names from its first state.  *)
(* Those of SafeParts and PageParts have variables with names; the slots   *)
(* hold the variables of another component, in the order of its module;    *)
(* for the calendar page, which keeps no state, the first one holds the    *)
(* input.                                                                  *)
(***************************************************************************)
EXTENDS SafeParts, PageParts

VARIABLES
    s1, s2, s3, s4, s5, s6, s7, s8, s9, s10, s11, s12, s13, s14, s15, s16,
    s17, s18, s19, s20, s21, s22, s23

slots == <<s1, s2, s3, s4, s5, s6, s7, s8, s9, s10, s11, s12, s13, s14, s15,
          s16, s17, s18, s19, s20, s21, s22, s23>>
vars  == <<safeVars, pageVars, slots>>

Box == INSTANCE OfflineOutbox WITH
    ahead <- s1, status <- s2, attempts <- s3, wait <- s4, dest <- s5,
    pc <- s6, batch <- s7, call <- s8, seen <- s9, timer <- s10,
    adding <- s11, callbacks <- s12, online <- s13, folder <- s14,
    orphans <- s15, reloads <- s16, failures <- s17, applied <- s18,
    calls <- s19, intent <- s20, merged <- s21, muted <- s22,
    reported <- s23, Tabs <- {"t1", "t2"}, Folders <- {"inbox"}, MaxOps <- 1,
    MaxAttempts <- 2, MaxWait <- 1, BatchSize <- 2, MaxReloads <- 0,
    MaxFailures <- 2

Grid == INSTANCE CalendarGrid WITH
    DayLength <- 18, DayStart <- 3, DayEnd <- 15, Days <- 3,
    Weekend <- {1}, MaxSlots <- 2

\* Of the reminders only the columns: no tick is at work.
Series == INSTANCE TaskReminders WITH
    status <- s1, nth <- s2, remind <- s3, sentAt <- s4, version <- s5,
    token <- s6, pc <- s7, batch <- s8, cur <- s9, req <- s10, faults <- s11,
    mailed <- s12, told <- s13, twice <- s14, crossed <- s15, loose <- s16,
    broken <- s17, Tasks <- {"i1", "i2", "i3"}, Ticks <- {},
    Requests <- {"r1", "r2"}, LastNth <- 3, MaxEdits <- 0, MaxFaults <- 1,
    Nothing <- "nothing"

\* The slots a component leaves empty.
From18 == s18 = 0 /\ s19 = 0 /\ s20 = 0 /\ s21 = 0 /\ s22 = 0 /\ s23 = 0
From2 ==
    /\ s2 = 0 /\ s3 = 0 /\ s4 = 0 /\ s5 = 0 /\ s6 = 0 /\ s7 = 0 /\ s8 = 0 /\ s9 = 0
    /\ s10 = 0 /\ s11 = 0 /\ s12 = 0 /\ s13 = 0 /\ s14 = 0 /\ s15 = 0 /\ s16 = 0 /\ s17 = 0
    /\ From18

Rest18 == <<s18, s19, s20, s21, s22, s23>>

\* The components of a host have no state.
NonePage == onPage = "none" /\ NoList /\ NoFind /\ NoTree /\ NoShared
NoneSafe ==
    /\ NoWindow /\ NoPanel /\ NoMirror /\ NoSoon /\ NoFiles /\ NoBoard
    /\ isOpen = 0 /\ posts = 0 /\ happened = 0 /\ told = 0 /\ strayed = 0 /\ failed = 0 /\ req = 0

-----------------------------------------------------------------------------
Intervals(marks) == {i \in [start : marks, end : marks] : i.start <= i.end}
UpTo(n, S) == UNION {[1 .. k -> S] : k \in 0 .. n}

\* Up to four events, also of no length, in the order the page sorts them.
Events ==
    {[events |-> q] : q \in {r \in UpTo(4, Intervals(0 .. 4)) :
        \A i \in 1 .. Len(r) - 1 : Grid!InOrder(r[i], r[i + 1])}}

\* From different hours of the first and the second day; a time before, within,
\* across and after the office hours, and a busy one before it.
Blocks(types) ==
    {[start |-> i.start, end |-> i.end, type |-> t] :
        i \in {j \in Intervals({2, 5, 6, 9, 12, 16, 40, 48}) : j.start < j.end}, t \in types}
Searches ==
    {[from |-> f, duration |-> d, blocks |-> b] :
        f \in {0, 4, 6, 8, 14, 20}, d \in {6, 9},
        b \in UpTo(1, Blocks({"busy", "tentative", "unavailable"}))
                 \cup {<<x, y>> : x \in Blocks({"busy"}), y \in Blocks({"tentative", "unavailable"})}}

-----------------------------------------------------------------------------
Init ==
    \/ FirstSafe /\ NonePage /\ s1 = 0 /\ From2
    \/ FirstPage /\ NoneSafe /\ subject = "page" /\ s1 = 0 /\ From2
    \/ /\ NoneSafe /\ NonePage
       /\ \/ subject = "outbox" /\ Box!Init
          \/ subject = "series" /\ Series!Init /\ From18
          \/ subject = "calendar" /\ s1 \in Events \cup Searches /\ From2

Next ==
    \/ StepSafe /\ UNCHANGED <<pageVars, slots>>
    \/ StepPage /\ UNCHANGED <<safeVars, slots>>
    \/ subject = "outbox" /\ Box!Next /\ UNCHANGED <<safeVars, pageVars>>
    \/ subject = "series" /\ Series!Next /\ UNCHANGED <<safeVars, pageVars, Rest18>>

Spec == Init /\ [][Next]_vars

-----------------------------------------------------------------------------
(* Two tabs that execute, recover and reconcile the same rows: none of     *)
(* them goes without its effect or its attempts (lib/offline).             *)
TwoTabsHold ==
    /\ [](subject = "outbox" => Box!IInv)
    /\ [][subject = "outbox" => Box!NotLost]_vars

(* However updates of a recurring task overlap, its series goes on and no  *)
(* occurrence is doubled (tasks.service.ts); events at the same time are   *)
(* in columns of their own, and the suggested slots are the first in which *)
(* no attendee is busy or tentative, whoever is unavailable                *)
(* (calendar/page.tsx).                                                    *)
DatesHold ==
    /\ subject = "series" => Series!SeriesHolds
    /\ subject = "calendar" => IF s1 \in Events THEN Grid!ColumnsApart(s1.events)
                               ELSE Grid!SlotsAreFirst(s1.from, s1.duration, s1.blocks)
=============================================================================
