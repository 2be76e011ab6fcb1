------------------------------ MODULE SafeParts -----------------------------
(***************************************************************************)
(* Components that do not share state and owe no progress, each with any   *)
(* values of its constants: a behaviour is of the component that subject   *)
(* names from its first state, and the others have no state in it.  A      *)
(* variable that several components have is that of the subject.           *)
(***************************************************************************)
EXTENDS Integers, Sequences, FiniteSets

CONSTANTS
    MaxOpenings, MaxDrafts, ComposeEvents,                          \* ComposeWindow
    Threads, MaxAsks, MaxProposals, MaxPosts, AskEvents, AskFaults, \* AskConversation
    Callers, MaxIds, CalendarEvents,                                \* CalendarMirror
    Ticks, Ahead, Lookback, LastMinute, SoonFaults, MaxMoves,       \* EventSoon
    Limit, MaxFiles,                                                \* TaskAttachments
    MaxTasks, MaxRequests, BoardFaults, Recurring                   \* TaskBoard

VARIABLES
    subject,  \* the component this behaviour is of
    \* ComposeWindow
    savedDraftId, saving, undoCancelled, undoTimer, timers, toasts, openings, drafts, entitled,
    clicked, sent, mingled, lateUndos, reloaded, foreign,
    \* AskConversation
    scope, phase, asked, stopped, payload, pinCache, pinnedCount, pinnedAck, liveCards, turns,
    cardStatus, asks, proposed, posted, carriedOut, remounted, unsure, cleared,
    \* CalendarMirror
    server, eventRows, created, version, disturbed, refused,
    \* EventSoon
    minute, startAt, tickAt, now, knew, moves, covered,
    \* TaskAttachments
    attachments, uploaded, added, deleted, overruled,
    \* TaskBoard
    taskRows, given, listed, doubled, filter, loading, offered, bulk, modal, numbered, loadedFor,
    mixed, overtaken, unlisted, wanted, stale,
    \* of more than one
    isOpen, posts, happened, told, strayed, failed, req

Compose == INSTANCE ComposeWindow WITH
    open <- isOpen, requests <- posts, events <- happened,
    crossed <- mingled, late <- lateUndos, MaxEvents <- ComposeEvents
Panel == INSTANCE AskConversation WITH
    open <- isOpen, live <- liveCards, status <- cardStatus, events <- happened,
    faults <- failed, executed <- carriedOut, MaxEvents <- AskEvents, MaxFaults <- AskFaults
Mirror == INSTANCE CalendarMirror WITH
    rows <- eventRows, made <- created,
    events <- happened, Requests <- Callers, MaxEvents <- CalendarEvents
Soon == INSTANCE EventSoon WITH
    clock <- minute, pc <- tickAt, faults <- failed,
    MaxTime <- LastMinute, MaxFaults <- SoonFaults
Att == INSTANCE TaskAttachments WITH
    crossed <- overruled, Requests <- Callers
Board == INSTANCE TaskBoard WITH
    rows <- taskRows, used <- given, tasks <- listed, requests <- posts, sent <- numbered,
    faults <- failed, crossed <- overtaken, MaxFaults <- BoardFaults

windowVars == <<savedDraftId, saving, undoCancelled, undoTimer, timers, toasts, openings, drafts,
           entitled, clicked, sent, mingled, lateUndos, reloaded, foreign>>
panelVars == <<scope, phase, asked, stopped, payload, pinCache, pinnedCount, pinnedAck,
           liveCards, turns, cardStatus, asks, proposed, posted, carriedOut, remounted, unsure,
           cleared>>
mirrorVars == <<server, eventRows, created, version, disturbed, refused>>
soonVars == <<minute, startAt, tickAt, now, knew, moves, covered>>
filesVars == <<attachments, uploaded, added, deleted, overruled>>
boardVars == <<taskRows, given, listed, doubled, filter, loading, offered, bulk, modal, numbered,
           loadedFor, mixed, overtaken, unlisted, wanted, stale>>

safeVars == <<subject, windowVars, panelVars, mirrorVars, soonVars, filesVars, boardVars,
              isOpen, posts, happened, told, strayed, failed, req>>

NoWindow ==
    /\ savedDraftId = 0 /\ saving = 0 /\ undoCancelled = 0 /\ undoTimer = 0 /\ timers = 0
    /\ toasts = 0 /\ openings = 0 /\ drafts = 0 /\ entitled = 0 /\ clicked = 0 /\ sent = 0
    /\ mingled = 0 /\ lateUndos = 0 /\ reloaded = 0 /\ foreign = 0
NoPanel ==
    /\ scope = 0 /\ phase = 0 /\ asked = 0 /\ stopped = 0 /\ payload = 0 /\ pinCache = 0
    /\ pinnedCount = 0 /\ pinnedAck = 0 /\ liveCards = 0 /\ turns = 0 /\ cardStatus = 0 /\ asks = 0
    /\ proposed = 0 /\ posted = 0 /\ carriedOut = 0 /\ remounted = 0 /\ unsure = 0
    /\ cleared = 0
NoMirror ==
    server = 0 /\ eventRows = 0 /\ created = 0 /\ version = 0 /\ disturbed = 0 /\ refused = 0
NoSoon == minute = 0 /\ startAt = 0 /\ tickAt = 0 /\ now = 0 /\ knew = 0 /\ moves = 0 /\ covered = 0
NoFiles == attachments = 0 /\ uploaded = 0 /\ added = 0 /\ deleted = 0 /\ overruled = 0
NoBoard ==
    /\ taskRows = 0 /\ given = 0 /\ listed = 0 /\ doubled = 0 /\ filter = 0 /\ loading = 0
    /\ offered = 0 /\ bulk = 0 /\ modal = 0 /\ numbered = 0 /\ loadedFor = 0 /\ mixed = 0
    /\ overtaken = 0 /\ unlisted = 0 /\ wanted = 0 /\ stale = 0

-----------------------------------------------------------------------------
InitWindow ==
    /\ subject = "compose" /\ Compose!Init
    /\ NoPanel /\ NoMirror /\ NoSoon /\ NoFiles /\ NoBoard
    /\ failed = 0 /\ req = 0

InitPanel ==
    /\ subject = "ask" /\ Panel!Init
    /\ NoWindow /\ NoMirror /\ NoSoon /\ NoFiles /\ NoBoard
    /\ told = 0 /\ req = 0

InitMirror ==
    /\ subject = "mirror" /\ Mirror!Init
    /\ NoWindow /\ NoPanel /\ NoSoon /\ NoFiles /\ NoBoard
    /\ isOpen = 0 /\ posts = 0 /\ told = 0 /\ strayed = 0 /\ failed = 0

InitSoon ==
    /\ subject = "event soon" /\ Soon!Init
    /\ NoWindow /\ NoPanel /\ NoMirror /\ NoFiles /\ NoBoard
    /\ isOpen = 0 /\ posts = 0 /\ happened = 0 /\ strayed = 0 /\ req = 0

InitFiles ==
    /\ subject = "attachments" /\ Att!Init
    /\ NoWindow /\ NoPanel /\ NoMirror /\ NoSoon /\ NoBoard
    /\ isOpen = 0 /\ posts = 0 /\ happened = 0 /\ told = 0 /\ strayed = 0 /\ failed = 0

InitBoard ==
    /\ subject = "board" /\ Board!Init
    /\ NoWindow /\ NoPanel /\ NoMirror /\ NoSoon /\ NoFiles
    /\ isOpen = 0 /\ happened = 0 /\ told = 0 /\ strayed = 0 /\ req = 0

FirstSafe == InitWindow \/ InitPanel \/ InitMirror \/ InitSoon \/ InitFiles \/ InitBoard

InWindow ==
    /\ subject = "compose" /\ Compose!Next
    /\ UNCHANGED <<subject, panelVars, mirrorVars, soonVars, filesVars, boardVars, failed, req>>

InPanel ==
    /\ subject = "ask" /\ Panel!Next
    /\ UNCHANGED <<subject, windowVars, mirrorVars, soonVars, filesVars, boardVars, told, req>>

InMirror ==
    /\ subject = "mirror" /\ Mirror!Next
    /\ UNCHANGED <<subject, windowVars, panelVars, soonVars, filesVars, boardVars, isOpen,
                   posts, told, strayed, failed>>

InSoon ==
    /\ subject = "event soon" /\ Soon!Next
    /\ UNCHANGED <<subject, windowVars, panelVars, mirrorVars, filesVars, boardVars, isOpen,
                   posts, happened, strayed, req>>

InFiles ==
    /\ subject = "attachments" /\ Att!Next
    /\ UNCHANGED <<subject, windowVars, panelVars, mirrorVars, soonVars, boardVars, isOpen, posts,
                   happened, told, strayed, failed>>

InBoard ==
    /\ subject = "board" /\ Board!Next
    /\ UNCHANGED <<subject, windowVars, panelVars, mirrorVars, soonVars, filesVars, isOpen,
                   happened, told, strayed, req>>

StepSafe == InWindow \/ InPanel \/ InMirror \/ InSoon \/ InFiles \/ InBoard

SafeSpec == FirstSafe /\ [][StepSafe]_safeVars

-----------------------------------------------------------------------------
(* Sends that can be undone, drafts and schedules of one compose window:   *)
(* what the user was told is what happened, and no draft is another one's  *)
(* (ComposeModal.tsx).                                                     *)
ComposeHolds == subject = "compose" => Compose!ComposeHolds

(* What the assistant proposed is done at most once, a card says what was  *)
(* done, and a question carries its own thread, but for cards mounted      *)
(* again and answers that came late or not at all (AskPanel.tsx,           *)
(* ProposalCard.tsx).                                                      *)
AskHolds == subject = "ask" => Panel!AskHolds

(* The mirrored events are the provider's, a request on an event that      *)
(* nothing overlaps succeeds (calendar.service.ts); however ticks overlap  *)
(* nobody is told twice of an event, nor not at all                        *)
(* (notifications.scheduler.ts); uploads and deletions that overlap lose   *)
(* no file but for those that crossed (tasks.service.ts).                  *)
RowsKept ==
    /\ subject = "mirror" => Mirror!MirrorAgrees
    /\ subject = "event soon" => Soon!EventsAnnounced
    /\ subject = "attachments" => Att!FilesKept

(* However the requests of the tasks page cross, fail or are answered      *)
(* late: at rest the list is that of the tab chosen, its rows are the      *)
(* server's, and a task is as the user chose it last, in what is sent of   *)
(* it, but for the exceptions that are named (tasks/page.tsx,              *)
(* TaskModal.tsx).                                                         *)
BoardHolds == subject = "board" => Board!BoardHolds
=============================================================================
