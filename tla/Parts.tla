------------------------------- MODULE Parts -------------------------------
(***************************************************************************)
(* Components that do not share state, each with any values of its         *)
(* constants: a behaviour is of the component that focus names from its    *)
(* first state, and the others have no state in it.  A variable that       *)
(* several components have is that of the one in focus.                    *)
(***************************************************************************)
EXTENDS Integers, Sequences, FiniteSets

CONSTANTS
    MaxIterations, MaxCallsPerIteration,                      \* AgentTurn
    Requests, MailLimit, MaxTime, MaxMade, MaxFaults,         \* GenerationCache
    Workers, DocTexts, Unwritten, FailureLimit, MaxUpdates,   \* DocEmbedding
    Calls, MaxAgents, MaxEvents,                              \* EwsConnections
    Users, MaxMessage, Owner, PerUser, Total, HeadroomFactor, \* BatchWorker
    BatchEvents,
    Tabs, Guests, MaxOpens, MaxEdits,                         \* LiveDocument
    Mails, Drafts, Folders, ReaderOpens, ReaderEvents         \* MessageReader

VARIABLES
    focus,  \* the component this behaviour is of
    \* AgentTurn
    locked, iter, nudged, used, left, unanswered, executed, proposals, clarified,
    \* GenerationCache
    clock, mail, row, gen,
    \* DocEmbedding
    updatedAt, signedIn, crowded, seen, text, failures, crossed,
    \* EwsConnections
    pool, made, open, warm, stale, isolated, tries, rounds, agent, private, password, company,
    evicted, owned, ended,
    \* BatchWorker
    kind, place, age, signed, strikes, batch, got, verdict, projected, cut,
    \* LiveDocument
    yjs, versions, loaded, live, dirty, right, opened, initial, doc, editable, synced, conn,
    unsaved, typed, lost, writers, raced, given, overtyped,
    \* MessageReader
    selected, loading, openAbort, fetches, cache, watched, nav, folder, listRead, unread, found,
    foundRead, serverRead, marks, embedding, overtaken, failed, unmarked, unsaid, astray,
    miscounted,
    \* of more than one
    pc, late, final, requests, shown, faults, content, rows, streak, events, opens

Agent  == INSTANCE AgentTurn
Gen    == INSTANCE GenerationCache
Doc    == INSTANCE DocEmbedding WITH Texts <- DocTexts
Ews    == INSTANCE EwsConnections
Batch  == INSTANCE BatchWorker WITH MaxEvents <- BatchEvents
Live   == INSTANCE LiveDocument
Reader == INSTANCE MessageReader WITH Messages <- Mails, MaxOpens <- ReaderOpens,
              MaxEvents <- ReaderEvents

turnVars   == <<locked, iter, nudged, used, left, unanswered, executed, proposals, clarified>>
briefVars  == <<clock, mail, row, gen>>
embedVars  == <<updatedAt, signedIn, crowded, seen, text, failures, crossed>>
callVars   == <<pool, made, open, warm, stale, isolated, tries, rounds, agent, private, password,
               company, evicted, owned, ended>>
batchVars  == <<kind, place, age, signed, strikes, batch, got, verdict, projected, cut>>
tabVars    == <<yjs, versions, loaded, live, dirty, right, opened, initial, doc, editable, synced,
               conn, unsaved, typed, lost, writers, raced, given, overtyped>>
readerVars == <<selected, loading, openAbort, fetches, cache, watched, nav, folder, listRead,
               unread, found, foundRead, serverRead, marks, embedding, overtaken, failed,
               unmarked, unsaid, astray, miscounted>>

vars == <<focus, turnVars, briefVars, embedVars, callVars, batchVars, tabVars, readerVars,
          pc, late, final, requests, shown, faults, content, rows, streak, events, opens>>

NoTurn ==
    /\ locked = 0 /\ iter = 0 /\ nudged = 0 /\ used = 0 /\ left = 0 /\ unanswered = 0
    /\ executed = 0 /\ proposals = 0 /\ clarified = 0
NoBrief == clock = 0 /\ mail = 0 /\ row = 0 /\ gen = 0
NoEmbed ==
    /\ updatedAt = 0 /\ signedIn = 0 /\ crowded = 0 /\ seen = 0 /\ text = 0 /\ failures = 0
    /\ crossed = 0
NoCall ==
    /\ pool = 0 /\ made = 0 /\ open = 0 /\ warm = 0 /\ stale = 0 /\ isolated = 0 /\ tries = 0
    /\ rounds = 0 /\ agent = 0 /\ private = 0 /\ password = 0 /\ company = 0 /\ evicted = 0
    /\ owned = 0 /\ ended = 0
NoBatch ==
    /\ kind = 0 /\ place = 0 /\ age = 0 /\ signed = 0 /\ strikes = 0 /\ batch = 0 /\ got = 0
    /\ verdict = 0 /\ projected = 0 /\ cut = 0
NoTab ==
    /\ yjs = 0 /\ versions = 0 /\ loaded = 0 /\ live = 0 /\ dirty = 0 /\ right = 0 /\ opened = 0
    /\ initial = 0 /\ doc = 0 /\ editable = 0 /\ synced = 0 /\ conn = 0 /\ unsaved = 0
    /\ typed = 0 /\ lost = 0 /\ writers = 0 /\ raced = 0 /\ given = 0 /\ overtyped = 0
NoReader ==
    /\ selected = 0 /\ loading = 0 /\ openAbort = 0 /\ fetches = 0 /\ cache = 0 /\ watched = 0
    /\ nav = 0 /\ folder = 0 /\ listRead = 0 /\ unread = 0 /\ found = 0 /\ foundRead = 0
    /\ serverRead = 0 /\ marks = 0 /\ embedding = 0 /\ overtaken = 0 /\ failed = 0
    /\ unmarked = 0 /\ unsaid = 0 /\ astray = 0 /\ miscounted = 0

-----------------------------------------------------------------------------
InitTurn ==
    /\ focus = "agent" /\ Agent!Init
    /\ NoBrief /\ NoEmbed /\ NoCall /\ NoBatch /\ NoTab /\ NoReader
    /\ faults = 0 /\ content = 0 /\ rows = 0 /\ streak = 0 /\ events = 0 /\ opens = 0

InitBrief ==
    /\ focus = "generation" /\ Gen!Init
    /\ NoTurn /\ NoEmbed /\ NoCall /\ NoBatch /\ NoTab /\ NoReader
    /\ pc = 0 /\ final = 0 /\ shown = 0 /\ content = 0 /\ rows = 0 /\ streak = 0 /\ events = 0
    /\ opens = 0

InitEmbed ==
    /\ focus = "embedding" /\ Doc!Init
    /\ NoTurn /\ NoBrief /\ NoCall /\ NoBatch /\ NoTab /\ NoReader
    /\ late = 0 /\ final = 0 /\ requests = 0 /\ shown = 0 /\ events = 0 /\ opens = 0

InitCall ==
    /\ focus = "ews" /\ Ews!Init
    /\ NoTurn /\ NoBrief /\ NoEmbed /\ NoBatch /\ NoTab /\ NoReader
    /\ late = 0 /\ final = 0 /\ requests = 0 /\ shown = 0 /\ faults = 0 /\ content = 0
    /\ rows = 0 /\ streak = 0 /\ opens = 0

InitBatch ==
    /\ focus = "batch" /\ Batch!Init
    /\ NoTurn /\ NoBrief /\ NoEmbed /\ NoCall /\ NoTab /\ NoReader
    /\ late = 0 /\ final = 0 /\ requests = 0 /\ shown = 0 /\ faults = 0 /\ content = 0 /\ opens = 0

InitTab ==
    /\ focus = "document" /\ Live!Init
    /\ NoTurn /\ NoBrief /\ NoEmbed /\ NoCall /\ NoBatch /\ NoReader
    /\ pc = 0 /\ late = 0 /\ final = 0 /\ requests = 0 /\ shown = 0 /\ faults = 0 /\ rows = 0
    /\ streak = 0

InitReader ==
    /\ focus = "reader" /\ Reader!Init
    /\ NoTurn /\ NoBrief /\ NoEmbed /\ NoCall /\ NoBatch /\ NoTab
    /\ pc = 0 /\ late = 0 /\ requests = 0 /\ faults = 0 /\ content = 0 /\ rows = 0 /\ streak = 0

Init ==
    \/ InitTurn \/ InitBrief \/ InitEmbed \/ InitCall \/ InitBatch \/ InitTab \/ InitReader

\* A step of one component: its own, and what the others have stays.
InTurn ==
    /\ focus = "agent" /\ Agent!Next
    /\ UNCHANGED <<focus, briefVars, embedVars, callVars, batchVars, tabVars, readerVars,
                   faults, content, rows, streak, events, opens>>

InBrief ==
    /\ focus = "generation" /\ Gen!Next
    /\ UNCHANGED <<focus, turnVars, embedVars, callVars, batchVars, tabVars, readerVars,
                   pc, final, shown, content, rows, streak, events, opens>>

InEmbed ==
    /\ focus = "embedding" /\ Doc!Next
    /\ UNCHANGED <<focus, turnVars, briefVars, callVars, batchVars, tabVars, readerVars,
                   late, final, requests, shown, events, opens>>

InCall ==
    /\ focus = "ews" /\ Ews!Next
    /\ UNCHANGED <<focus, turnVars, briefVars, embedVars, batchVars, tabVars, readerVars,
                   late, final, requests, shown, faults, content, rows, streak, opens>>

InBatch ==
    /\ focus = "batch" /\ Batch!Next
    /\ UNCHANGED <<focus, turnVars, briefVars, embedVars, callVars, tabVars, readerVars,
                   late, final, requests, shown, faults, content, opens>>

InTab ==
    /\ focus = "document" /\ Live!Next
    /\ UNCHANGED <<focus, turnVars, briefVars, embedVars, callVars, batchVars, readerVars,
                   pc, late, final, requests, shown, faults, rows, streak>>

InReader ==
    /\ focus = "reader" /\ Reader!Next
    /\ UNCHANGED <<focus, turnVars, briefVars, embedVars, callVars, batchVars, tabVars,
                   pc, late, requests, faults, content, rows, streak>>

Next == InTurn \/ InBrief \/ InEmbed \/ InCall \/ InBatch \/ InTab \/ InReader

\* The fairness each module states, of the component in focus.
Fairness ==
    /\ WF_Agent!vars(focus = "agent" /\ Agent!Step)
    /\ \A w \in Workers : WF_Doc!vars(focus = "embedding" /\ Doc!Step(w))
    /\ WF_Batch!vars(focus = "batch" /\ (Batch!Step \/ Batch!Failure))
    /\ \A t \in Tabs :
           /\ WF_Live!vars(focus = "document" /\ Live!Connect(t))
           /\ WF_Live!vars(focus = "document" /\ Live!Send(t))
           /\ WF_Live!vars(focus = "document" /\ Live!Receive(t))
    /\ WF_Live!vars(focus = "document" /\ Live!Store)

Spec == Init /\ [][Next]_vars /\ Fairness

-----------------------------------------------------------------------------
(* Whatever the model answers, a turn keeps its limits, its lock and the   *)
(* form of its transcript (agent.service.ts).                              *)
TurnsHold == focus = "agent" => Agent!TurnsHold

(* Every turn ends.                                                        *)
TurnsEnd == <>(focus = "agent" => Agent!Over)

(* A cached brief is called fresh exactly when it knows all the mail       *)
(* (generation-cache.service.ts, dossier.service.ts).                      *)
BriefsFresh == focus = "generation" => Gen!BriefsFresh

(* Rows that pass for current hold the text of the document, and a         *)
(* document that has a text is passed over only with a cause               *)
(* (doc-embed-worker.service.ts).                                          *)
RowsOfDocuments == focus = "embedding" => Doc!RowsOfDocuments

(* Once nobody edits, its owner stays signed in and the documents ahead    *)
(* leave room in the batch, a document has its rows or its tombstone for   *)
(* good.                                                                   *)
DocumentsSettle ==
    <>[](focus = "embedding" => Doc!Open) => <>[](focus = "embedding" => Doc!Settled)

(* The handshake on pooled connections: the right password is never found  *)
(* wrong by a call that has its connections for itself, a 401 takes        *)
(* nothing from other calls, nothing leaks (ews-transport.ts).             *)
ConnectionsHold == focus = "ews" => Ews!ConnectionsHold

(* A card has its commitments, but for failures and crashes between the    *)
(* two writes (card-worker.service.ts).                                    *)
CardsHavePromises == focus = "batch" => Batch!CardsHavePromises

(* A message is given up late, shares of a batch are fair, and what has    *)
(* been read is not read again (card-worker, embed-worker,                 *)
(* attachment-worker).                                                     *)
BatchesFair == [][focus = "batch" => Batch!FairStep]_vars

(* Once no more comes, however many others were newer and whatever failed, *)
(* every message that can be read has had its turn.                        *)
EverybodysTurn == <>[](focus = "batch" => \A m \in Batch!Messages : ~Batch!Eligible(m))

(* Tabs with and without the right to edit, guests, reconnections, crashes *)
(* of the server and restored versions: nothing typed or given is lost but *)
(* by the causes named, who may only read changes nothing for others, and  *)
(* no text appears twice (DocsEditor.tsx, collab.server.ts).               *)
DocumentsHold == focus = "document" => Live!DocumentsHold

(* Once nobody edits, all who may see the same text, and what was typed is *)
(* stored (collab.server.ts).                                              *)
DocumentsConverge == <>[](focus = "document" => Live!Converged)

(* However opens, answers and aborts cross: the body shown is that of the  *)
(* selected row and the read flags are the server's (mail/page.tsx).       *)
ReaderHolds == focus = "reader" => Reader!ReaderHolds
=============================================================================
