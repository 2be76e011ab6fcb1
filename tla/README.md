# TLA+ models of 1Gov Mail

1Gov Mail is a web and desktop mail client: a NestJS API (`apps/api`) in front
of a Zimbra or Exchange server, a Next.js client (`apps/web`) that works
offline, and a Postgres database that mirrors mail and holds everything the
mail server does not (scheduled mail, snoozes, tasks, documents, AI cards).
This directory models the parts whose correctness depends on the order in which
several actors act: cron jobs, requests, browser tabs, the mail server, crashes.

## How to read and run

    tlasany M.tla                                # parse
    tlc -workers 2 -config X.cfg MCModule        # model-check
    tlapm M.tla                                  # check proofs

A component has a module; a large one also an `MC...` module and a `.cfg` per
question, and where something is proved, a `...Proofs` module. The smaller
components are composed in three hosts: `Parts` (seven, with the fairness of those
that owe progress; run by `MCPartsProgress`), and `SafeParts` (six) and
`PageParts` (three), which owe none; `MCPartsSafety` runs both, with three
components more. The first state of a behaviour chooses a component (`focus`,
`subject`, `onPage`), which alone moves; the variables of the others are 0
throughout. So the host is the union of the components' state spaces
under one run, and a property of the host is a property of the component that is
chosen. Variables that several components have are named once. The components that
only `MCPartsSafety` knows keep theirs in slots `s1`, `s2`, ... `PartsProofs`,
`SafePartsProofs` and `PagePartsProofs` hold the proofs about the components of
the hosts, the last one also those about `Snooze`.
`PROJECT.json` maps every definition to source lines, names for each property a
plausible bug that breaks it (operators marked `Mutant:` in the modules), and
lists the hazards the properties aim at.

Conventions: a step of a model is what the code does between two `await`s; a
database write with a `where` on the status is one atomic step that tests it; a
write by id alone tests nothing. A remote call has three moments: it is sent, it
takes effect or is refused, and its answer arrives or is lost. Variables under
"history" exist only for properties. A property of a run (`DeliveryHolds`,
`MirrorHolds`, ...) is a conjunction of named parts, each with its comment; it
includes the module's type invariant and, where it is proved, the inductive
invariant. When the code accepts an anomaly, the history names it where it
happens (`crossed`, `overlapped`, `late`, ...) and the property says that
nothing else goes wrong.

## Inventory

| Component | State | Operations | Interacts with | What is hard | Module |
|---|---|---|---|---|---|
| Scheduled send (`mail.service.ts`, `mail.scheduler.ts`) | rows of `scheduled_messages` | schedule, cancel, the minute job: sweep, list, claim, send, record | mail server, notifications, several API processes | claims race, crash in mid-send, late answers | `ScheduledSend` |
| Offline outbox (`lib/offline`) | IndexedDB rows shared by tabs; one runner per tab | enqueue, drain, retry, give up, recover, reconcile | API, connectivity, other tabs | retries, reloads, two runners on one queue | `OfflineOutbox` |
| Commitment ledger (`card-worker.service.ts`, `mail.service.ts`) | one row per commitment | project, flag, archive; resolve, reopen, promote | cards, tasks | read-then-write by id, create-then-record | `CommitmentLedger` |
| Card, mail and attachment workers | `message_cards`, embedding tables, strikes in memory | fair batch, read, extract or embed, tombstone, purge | mail mirror, models | starvation, strikes lost at restart, failures inside the catch | `BatchWorker` |
| Document worker | `document_embeddings` | pick, compare, embed, stamp, tombstone | documents | the text changes meanwhile | `DocEmbedding` |
| Snooze | `snoozed_messages` | snooze, unsnooze, minute job | mail server | a new snooze while the old one expires, crash between move and delete | `Snooze` |
| Mail mirror and sender rules | `messages`, `folders`, `sender_rules` | list, open, move, flag, delete, empty, block, sweep | mail server, other mail programs | server first, database second; a list read racing a move | `MailMirror` |
| Tasks and reminders | `tasks` | create, update, recur, remind, delete, attach | mail server, notifications | overlapping ticks, double completion, lists written whole | `TaskReminders`, `TaskAttachments` |
| Notifications | `notifications` | event-soon job, delete | calendar mirror | overlapping ticks, moved events | `EventSoon` |
| Calendar | `calendar_events` | sync, create, update, delete | provider calendar | sequence numbers, rows created by two requests | `CalendarMirror` |
| Sessions | `sessions`, one mailbox token per user | login, second factor, logout, revoke, prune | every mail request | a stale expiry or 401 clears a fresh token | `Sessions` |
| Documents and collaboration | `documents`, Yjs state, versions, rights | open, type, connect, store, restore, share | Hocuspocus, two tabs | rights checked at connect, fallback without a server | `LiveDocument` |
| EWS transport | pool of NTLM connections per mailbox | post, retire, evict | Exchange | sibling calls on one pool | `EwsConnections` |
| Generation cache | `ai_generations` | prepare, generate, upsert, staleness | mirror | slow older generation | `GenerationCache` |
| Agent | one turn's transcript | tool loop, proposals, thread lock | model, tools | any answer of the model, bounds | `AgentTurn` |
| Compose window | drafts, timers, undo flag | open, save, send, undo, schedule | API | one window, many sends | `ComposeWindow` |
| Document pages | the table of pages, the list and the page shown | open, create, rename, move, tag, remove | API | answers overtake each other, a tree kept by parents | `DocPages` |
| Ask panel | conversation, thread pin, cards of proposals | ask, stop, close, approve, dismiss | agent | a card mounted again, late answers | `AskConversation` |
| Tasks page | list, tab, sheet, bulk action | load, toggle, add, save, delete, bulk | API | answers cross, a sheet saves all fields | `TaskBoard` |
| Mail search | box, filters, pages of results | type, filter, load more | API | two ways to search, pages that shift | `MailSearch` |
| Folder lists | cached lists, counts, queued ops | list, delete, move, mark, roll back | outbox, API | done ahead of the server, then fails | `MailListing` |
| Message reader | selection, body, read flags | open, navigate, close, poll | body cache, offline copy | answers overtake each other | `MessageReader` |
| Calendar page | none | columns, free slots | | boundaries | `CalendarGrid` |
| Ask, retrieval, people, contacts, settings, audit, provider conversions, AI helpers, other UI, desktop, deployment | little or none | queries, conversions, last-write-wins rows | | | |

`PROJECT.json` lists all of them with a status. Those of the last row are not
modelled; see "Not modelled".

## Scheduled send

`ScheduledSend` models `scheduleMessage`, `cancelScheduledMessage` and
`processDueScheduled`. `status`, `dueIn`, `age` are the columns `status`,
`sendAt`, `updatedAt` of each row, the last two as distances from now. A worker
is an API process: `pc`, `batch`, `cur` say where it is in the job.
`waitForCompletion` makes the ticks of one process sequential; nothing
serialises two. The job's steps are `Sweep` (rows stuck in SENDING become
FAILED), `Query`, `Claim` or `LoseClaim`, `Call`, `AnswerOk` or `AnswerError`,
`RecordSent`, `Notify`, `RecordFailed`, `EndTick`; the server's are `Accept` and
`Refuse`; `Crash` and `TickThrows` may come anywhere the code can be cut short.
A request on the wire survives its sender.

`OneShotSend` is the promise without the mechanism: a job is submitted, may be
withdrawn until started, is started at most once and has its effect at most
once; "sent" implies the effect, "failed" leaves it open. `ScheduledSend`
implements it under `jobPhase` (status to phase) and `effects <- delivered`.

Run `scheduled_send`: two processes, two messages, a crash. `DeliveryHolds` is
`AtMostOnce`, `CancelledNeverDelivered`, `NoFalseReport` and `NotEarly` with the
inductive invariant; `SettledIsFinal` an action property; `ImplementsOneShot`
the refinement; `DueIsSettled` says that a due row is picked up and a claimed one
settles. Two processes are the smallest number that race; two messages let one
wait while the other is being sent; one tick of delay and of stuck age separate
"before" from "after". Fairness: a process takes its next step and time passes,
as the cron fires every minute, and an awaited call ends, which the Zimbra
client's timeouts justify. On an Exchange mailbox nothing does: the EWS transport
sets no timeout, and one call that is never answered stops the job for good
(`mail.service.ts:1526`). Users, the server and faults are never forced.

## Offline outbox

`OfflineOutbox` models `Outbox`, `Runner` and `OfflineProvider` for moves of one
message between folders. `ahead[o]` are the rows whose `scheduledAt` comes before
that of row `o`, `wait` is the time left to it; rows that fall due within the same
tick may stand in any order. `pc`, `batch`, `call`, `seen`, `timer` are a tab's
runner, `adding` an enqueue between its look-up and its insert, `callbacks` the
map `onFailedById`. The exponential backoff with jitter is any delay of at least
one tick. `orphans` are requests whose page was closed: the server may still act
on them.

Run `outbox_one_tab`: `OrderHolds` (order breaks only by a retry, the last move
wins when nothing failed, attempts are bounded, with the inductive invariant),
`OpsAccounted` (no op goes without its effect or its attempts, nor without a word
to the user), `QueueDrains` (every op ends once the network stays up). Two ops of
two folders make order visible, two attempts make the last one differ from the
first, a batch of two lets one listing hold both, and a reload cuts any step.

Two tabs on one row are in `parts_safety` (`subject = "outbox"`): one op, two
failures, no reload. `TwoTabsHold` is the invariant for several tabs, and
`NotLost`: a row never disappears without its effect or its attempts, although
both tabs execute, fail, recover and reconcile it. Two tabs with two ops cannot
be explored; the proof covers any number of either. What holds for one tab only
says so in the formula (`OneTab => ...`).

Fairness: a tab is reopened and its event loop runs, the server answers, time
passes; connectivity and reloads owe nothing, `QueueDrains` assumes `<>[]online`.
Known exceptions, which the properties name: an op that failed once is overtaken
by a later one (`outbox.ts:97`), and `recoverRunning` of a tab that opens also
resets rows that another tab is executing (`outbox.ts:119`). Two enqueues of one tab
that overlap, both between look-up and insert, are not modelled: an enqueue meets
the runner and other tabs, never another of its own tab.

## Commitment ledger

`CommitmentLedger` models one row of `Commitment`, the card worker's three
writes to it and the two endpoints. `status`, `suggest`, `hint`, `source`,
`task`, `resolved` are columns (`source` stands for `messageId` and
`extractedAt`, which is that message's `receivedAt`); `idle` is the age of
`lastActivityAt`. The worker takes a batch, newest message first; `Classify`,
`Project`, `Flag` are one message's steps, `EndTick` holds the hourly archive.
Each request reads (`UpdateReads`, `PromoteReads`) and later writes by id;
`PromoteCreates`, `PromoteWrites`, `PromoteUndoes` are the saga of a promotion.
`leaked` records the tasks that a crash or a failed compensation leaves behind,
which the code accepts as best effort.

Two requests may be in flight at once: nothing in the code prevents it (two
tabs, a double click). The history variable `overlapped` records that it has
happened. `PromotedStays` and `OneTaskEach` are stated for as long as it has
not: that is what the checks before the writes do give, through restarts, failed
writes, a failed compensation and everything the worker does meanwhile
(`OneTaskEach` is a part of `LedgerHolds`).

| Run | Question |
|---|---|
| `ledger` | overlapping requests, worker, restart, failed writes: columns agree, hints come from newer mail (`LedgerHolds`); until requests overlap, promoted rows are terminal and a commitment has one task |
| `ledger_terminal` | (violation) a resolve that overlaps a promotion overwrites it, against the comment "Promoted rows are terminal" (`mail.service.ts:1854`) |

Two messages are a promise and its reply, in either order of arrival; three
requests let two race and a third follow. Also true of the code, and exempted by
name: two overlapping promotions create two tasks, and the idle sweep archives a
row the user has just reopened, since reopening does not write `lastActivityAt`.

## Tasks and reminders

`TaskReminders` models the minute job `sendDueReminders` and the requests
`create`, `update` and `remove` on the occurrences of one recurring task.
`status`, `remind`, `sentAt` are the columns `status`, `reminderAt`,
`reminderSentAt`; `nth` is `dueDate` as the number of the occurrence, and
`LastNth` the last one before `recurrenceEndDate`. The status keeps what the
code tells apart: "open" is TODO and IN_PROGRESS, "none" a row not yet created,
"gone" one deleted. A reminder is named `<<task, n>>`, the one set by the n-th
edit (`version`), as the job sends the row it listed, not the row as it is.

The job is declared without `waitForCompletion`, so a tick may start while
another, of this process or another, is at work: each member of `Ticks` is one.
`Query` lists, `Send`, `AnswerOk`, `Mark`, `Notify` handle one reminder,
`SendFails` is the catch block, `TickDies` a restart. An update reads
(`UpdateReads`), later writes by id (`UpdateWrites`), and creates the next
occurrence in a third step (`UpdateSpawns`) when the row it had read was not
done; no transaction joins the three, so other requests may come between, and
`RequestFails` may cut it short at either.

The named exceptions: `twice` (a reminder listed by two ticks at once, or
accepted without being recorded), `crossed` (a reminder set while a tick held
the task's earlier one: the mark of the earlier one silences it), `loose` (an
occurrence reopened, or updated by two requests at once), `broken` (a completion
cut short before the next occurrence, or a task created as done).

Run `reminders`: two occurrences, two overlapping ticks, one request, one edit, one
fault. `RemindersHold`: mailed once but for `twice`, marked only when mailed,
with the inductive invariant. `DueIsSent`: while the owner stays signed in, a due
reminder does not stay due. Two ticks are the smallest number that race, one edit
makes a second reminder of the same task, and one fault cuts any step.

Recurrence is in `parts_safety` (`subject = "series"`, a part of `DatesHold`): three
rows, two requests, a chain of three, one fault. `SeriesHolds`: every completed
occurrence goes on, and once. It has no ticks, as the job never writes what
recurrence reads; a duplicate further down the chain, which needs more rows, is
left to the proof.

Fairness: a tick takes its next step, which includes that the awaited mail call
ends; the Zimbra client's timeouts justify it, and on the EWS transport a call
without an answer holds up only its own tick. Users and faults owe nothing.

`TaskAttachments` (in `parts_safety`, a part of `RowsKept`) is the attachment column, a list
that each upload or deletion reads and later writes whole: the list never exceeds
the limit, although the check is made on a list that may be old (the new list is
the old one that was read and checked), and every file that no overlap touched is
there or deleted as it should.

## Snooze

`Snooze` models `snoozeMessage`, `unsnoozeMessage` and `processExpiredSnoozes`.
The row's key is made of user and message, so a new snooze reuses the row a
running job may have listed; a snooze is `<<message, n>>` to tell them apart.
The job lists rows with the token of their owner (`auth`), moves, writes the
message's row, deletes the snooze by id, notifies. `crossed` are the snoozes set
while a process had the previous one of the message in hand; `excused` those
withdrawn, or without a message, token or folder to go back to, whose row the
code deletes.

Run `snooze`: two processes, one message snoozed twice, a fault.
`SnoozesHold`: the row goes only after the move or with an excuse (`NotLost`),
and the user is told once (`ToldOnce`): who deletes the row tells. `NotEarly`:
no message is moved whose snooze was put off, unless it was in hand by then.
`DueEnds`: what is due does not stay due, as the job runs and its calls end.

## Mail mirror and sender rules

`MailMirror` models the rows of `Message` against the mail server for listing,
opening, moving, flagging, deleting, discarding a draft, emptying and deleting a
folder, and the sweep of blocked senders. A request is `Ask` (it reads the
tables), the server's answer (`Serve`, the effect and what is read), and the
write; `Elsewhere` is another mail program, `Fails` a lost answer or a failed
write. Listings create rows and refresh flags but never move a row, as the
upsert's `update` names no folder. The server is Zimbra's: emptying is recursive and
a folder is deleted with those below it (`Tree`), while the rows are removed by
`folderId` alone, so the rows of mail in the folders below stay (`Orphaned`): the
code's own gap, one of the named exceptions. Exchange empties one folder, into the
trash.

The sweep is three steps apart: it reads everybody's rules at once (`SweepReads`),
comes to the user, whose token must be valid, and lists the newest rows of the Inbox
(`SweepLists`, `Window` of them), and files one message after another
(`SweepTakes`). In between rules change, sessions end and mail moves.

`dirty` are the messages of a request that something overtook; `hurtAt` and
`hurtRead` those whose row was then written, or left, wrong: the exceptions.

Run `mail_mirror`: two requests or sweeps in flight on one message, one trouble
(a sign-out is one), one change of rules, a user's folder below the trash. The message
may be mirrored when the run begins, so that two requests can meet on its row.
`MirrorHolds`: but for those exceptions a row is in the
folder and has the flag the server has, and a destroyed message has no row
(`FolderAgrees`, `FlagAgrees`), with the inductive invariant these follow from.
`SweepHonours`: the sweep files nothing but blocked mail of the inbox, unless a rule
changed after it had read the rules, the folder after it had listed the inbox, or
the row was wrong by then.
`BlockedLeaves`: blocked mail does not stay among the newest rows of the inbox while
its user is signed in; the sweep runs every minute and its calls end. Of mail behind
the window, or of a user signed out, it promises nothing, nor does the code. One
message is enough for everything that meets on a row; that
bulk requests spare other rows is by their `where`. A second message, which the
window could leave out, is more than the run's time allows: the theorems hold for
every window, and the promise of `BlockedLeaves` is for mail within it. The Zimbra ids of messages
are stable; an Exchange move gives a message a new id, which is not modelled.

## Sessions

`Sessions` models login with its second factor, the one provider token that all
sessions of a user share, the JWT strategy, expiry, logout, revocation, pruning,
and what the mail service does to the token: `getUser` clears an expired one, a
401 clears a refused one. The clearing names no token. `session[t]` is the row
keyed by the JWT signed in second `t`, which two logins of one second share.

Run `sessions`: two sign-ins, two requests, four ticks of time, two lifetimes
(the provider may report none). `SessionsHold`: a token is cleared for cause, or
by a request that had read an older one; no request works with a token older than
its session; a logout that no login overlapped leaves neither session nor token; a
fresh login is not sent back to the login page at once, whatever lifetime the
provider reports (`MIN_TOKEN_LIFETIME_MS`). `EndedAdmitsNothing`: a session that
was revoked, signed out or pruned admits no request. Two sign-ins are what it
takes for one to be the newer.

## Components with progress

Run `parts_progress` (`MCPartsProgress`), each with the fairness its scheduling
justifies; two faults and four events are shared by those that have any.

- `BatchWorker`: the skeleton that the card, mail and attachment workers share;
  `kind` chooses one. `CardsHavePromises`: a card has its commitments in the
  ledger, but for a failure or crash between the two writes, which loses them for
  good. `BatchesFair`: shares of a batch are fair (`PickFair` is the code's round
  robin, `Fair` says what fair means), a message is tombstoned only after
  `FailureLimit` failures, and what has been read is not read again. The strikes
  of the embedding worker survive readings without text, as its `continue` skips
  the reset. `EverybodysTurn`: however long the backlog of others and whatever
  fails, each readable message is carded, embedded or given up. Three messages of
  two users, the newest two of one, so that they fill the query.
- `DocEmbedding`: one document, two processes. `RowsOfDocuments`: rows dated as
  current hold the current text although it may change at any point, since the
  row is dated by the query and not by the write; a document with text is passed
  over only after failures. `DocumentsSettle`: once edits stop, the document has
  its rows or tombstone for good, if its owner stays signed in (the query asks for a
  token that has not expired) and the documents ahead of it leave room in the batch:
  whether they do is one condition, `crowded`, which may change at any time until
  then. That a backlog comes to its end is not shown for documents.
- `AgentTurn`: one turn, in which the model may answer anything. `TurnsHold`:
  requests are bounded, every tool call it is shown has a reply, a locked turn
  stays in its thread and proposes nothing, the user is asked one question at
  most and sees no answer without tools before the correction. `TurnsEnd`: it
  ends, as a request to the model answers or is given up after five minutes.
- `LiveDocument`: the row of a document, its copy in the collaboration server and
  the editors of a user and of a guest on a share link. A Yjs document is a set of
  insertions merged by union. `DocumentsHold`: nothing typed is lost but by named
  causes, what the document came with neither (`GivenIsKept`), only openings that
  had the right to edit when they connected write, and no text is doubled unless
  content was inserted into an empty document while another tab had not yet sent.
  The editor takes text before it has synced with the server
  (`DocsEditor.tsx:316`): what is typed then keeps the content from being put into
  an empty document (`:225`), and is saved over it 500 ms later. The content is
  lost; this is the named exception `overtyped`. `DocumentsConverge`: in the end connected tabs see
  the same and edits are stored (a tab reconnects, changes travel, the debounce
  ends). A right that is taken away ends with the connection, not before. Three
  openings (one more than tabs, so that one reconnects or reopens), two edits,
  four events.
- `GenerationCache`: two generations while mail arrives. `BriefsFresh`: a brief
  served as fresh knows all the mail the limit admits, even when a slow generation
  replaces a newer one, and one that knows all is not called stale. The limit cuts
  before mail without text is dropped (`dossier.service.ts:144`, `:159`), and the
  mail is read before the other legs have answered and the anchor is set (`:50-70`).
  The named exceptions are mail mirrored, or given a gist by its card, behind its
  time; mail that moves into the limit as other mail is deleted; mail that comes
  between the two reads of a brief that found none, whose anchor is the later one;
  and a brief made while mail could not be read. Three instants, a limit of two.
- `EwsConnections`: two calls of a mailbox, the handshake on pooled connections,
  connections dropped by Exchange, a logout. `ConnectionsHold`: with the right
  password a call that has its connections for itself is never refused; a 401
  takes nothing from other calls; nothing leaks.
- `MessageReader`: opens that overtake each other, from a folder or from the
  results of a search. `ReaderHolds`: the body shown is the selected row's, the flags
  set ahead of the server agree with it in the end, the spinner stops. Exceptions:
  an open from the cache aborts nothing, and the offline copy is shown without
  asking; after an open that failed the body of the one before stays, with no row
  selected; the flag in the results is not put back when an open is undone
  (`mail/page.tsx:627-629` sets it, `:657-659` and `:723-735` do not), so that the
  next open sends no mark; an open from the results is charged to the folder that is
  listed, whatever folder the message is in. A body asked for under the pointer
  (`:782`) is in the cache whenever it may be. Two opens, two events: an open
  overtakes another, and is itself undone.

## Components without

Run `parts_safety` (`MCPartsSafety`), every invariant for its `subject`. The two
tabs of the outbox and the recurrence of tasks are described above.

Of the API:

- `CalendarMirror`: two requests over two events. `RowsKept`: rows agree
  but for overlaps, and a request that nothing overlaps is not refused: its
  sequence number is fresh (`Sequence`), its row is free or there. Overlaps do
  leave rows of events that are gone, which no listing removes, and a listing
  that mirrors an event before its creator does makes the creator fail with a
  duplicate key after the event was created.
- `EventSoon`: overlapping ticks, one event that may be moved, a notification that
  may be deleted. `RowsKept` also says: told once but for those, and told at
  all. An event moved within two hours of its announcement is not announced again,
  and a deleted announcement comes back.
Of the web client:

- `ComposeWindow`: three openings of the one window. `ComposeHolds`: what was
  reported cancelled is not sent, no send comes to nothing without a word, and a
  draft belongs to its opening; the named exceptions are two sends within the five
  seconds of one another (they share flag and timer), an undo after the timer, a
  reload, and the late answer of a slow save.
- `MailSearch`: one text, one filter of two fields, pages of one result, two
  requests, two events (mail arrives, leaves, a row is removed). `SearchHolds`: the
  results are of the search shown, none twice and none skipped and in order, one
  request at a time, and what is searched is what is in the box. The exceptions:
  text typed while a filter is on runs both searches on one list, although
  `mail/page.tsx:1226` calls them mutually exclusive; a search given up while its
  text waits runs all the same; a message that leaves shifts the pages behind it;
  mail that arrives while the list is loaded may fill the pages behind and stand
  at the end of the list, newer than its first row; a message that came before
  without its row (`mail.service.ts:691`) may come again with it.
- `MailListing`: one message, two folders, two ops of the outbox, two fetches that
  the user causes (those of a rollback are not counted: each op has at most one).
  `ListingHolds`: what was done ahead of the server is undone when it fails, so
  that at rest lists and counts are right. The exceptions say what is not: a list
  fetched while an op waits brings its row back; of a bulk action only the
  failures of the queue, not of single messages, are known; the counts of the
  folder moved to and of bulk actions are not kept; a failed mark sets the
  opposite flag blindly and calls off a fetch that was due; actions on search
  results charge the folder that is open. An op may also have taken effect with its
  answer lost (`RunsUnheard`): it is tried again, and when it is given up in the end
  (`runner.ts:131-136`) the page puts back what the server has done, so that the
  counts, and a flag, are wrong.
- `TaskBoard`: two tasks (one recurring), three requests, one fault. `BoardHolds`:
  at rest the list is that of the tab chosen, its rows are the server's and a task
  is as the user chose it last. The exceptions: writes or loads that cross or
  fail, the next occurrence of a completed task, of which the page is not told,
  and a sheet opened again on a form older than the choice it overwrites. A field
  that is emptied in the sheet is sent as undefined (`TaskModal.tsx:410-421`) and
  ignored by the API (`tasks.service.ts:91-104`): the sheet closes and the field is
  what it was, so what the user wants of it is counted as unchanged (`Carried`,
  `Merged`). A bulk action says of each task what was chosen at the click, and writes
  over what was chosen since; it takes four requests to see that, and the run has
  three, so that this exception is covered by the theorem alone.
- `DocPages`: three pages, three requests, one fault. `PagesHold`: no page gets
  out of the tree unseen, the list is the server's, the page shown is the selected
  one and exists, tags are those chosen. The exceptions: a page dropped on its own
  subpage makes a loop, out of the tree (and its breadcrumb never ends), the
  subpages of a removed page are left behind, opens that cross, tags whose
  answer is put on whichever page is shown by then, and a page opened, by a click
  or as a page just made, while its tags are being written; and the title of a page
  that is selected but not shown: the editor that is still open gives its own title to
  the selected entry whenever it syncs or hears of another title
  (`DocsEditor.tsx:547-568`, `docs/page.tsx:235-238`), until the list is loaded again.
- `AskConversation`: two questions, one proposal, two approvals, three events, one
  fault. `AskHolds`: what is proposed is done at most once, a card says what was
  done, a question is sent with its own thread and the chip tells of it. The
  exceptions: an answer about a pinned thread that came after its scope had been
  left (`strayed`; the effect at `AskPanel.tsx:367` clears the chip only along with
  a cached text, so a count or an acknowledgement outlives a change of thread, even
  when its thread was in scope again when it came); a card mounted again forgets
  that it was approved, and may be approved again (against `ProposalCard.tsx:38`),
  as may one whose answer was lost.
- `CalendarGrid`: functions, checked over all inputs of a few events or times of
  attendees (a part of `DatesHold`): overlapping events have columns of different
  number, as many as events are on at once when none is of no length, and the slots
  offered are the first at which no attendee is busy or tentative, when times are
  whole minutes. Times at which an attendee is `unavailable` do not count, although
  the page shows them (`calendar/page.tsx:1334`) and its button promises "a time that
  works for everyone" (`:594`). When times are not whole minutes, `Snap` leaves seconds in place and a slot may begin in the past
  (`calendar/page.tsx:1206`). Two events of one cluster may be drawn with
  different widths, as `TotalCols` counts only direct overlaps.

## Proofs

TLAPS proves, for all values of the constants, what the runs show on small
ones. What is assumed are the named ASSUMEs on constants and, for the components
that get their constants from a host, the same kind of conditions as hypotheses, one
per component (`TurnLimits`, `GenLimits`, `DocLimits`,
`EwsLimits`, `BatchLimits`, `LiveLimits`, `ReaderLimits`, `FileLimits`,
`SoonLimits`, `MirrorLimits`, `ComposeLimits`, `AskLimits`, `BoardLimits`,
`ListLimits`, `FindLimits`, `TreeLimits`): counts are numbers, limits are positive,
the tasks page begins with two tasks and the docs page with two pages, the messages
of the folder lists and the concurrent requests on one calendar are finite in
number, a message has an owner, the home folder is a folder, and `Ahead <= Lookback`: the notice of an event (30
minutes) is not longer than the time in which an announcement counts as recent
(two hours).

`ScheduledSendProofs`: `IInv` (types, `Safe`, `DueFirst`) is inductive. `Safe`
is needed because "at most one delivery" alone says nothing of the workers: it
adds that a row some worker holds has left PENDING for good, that no two workers
hold the same row, and that before a worker's call nothing of its row is on the
wire. From it: `DeliveryAlwaysHolds` and its parts, `OutcomesAreFinal`, and
`RefinesOneShot`, the refinement, where each step is mapped to the abstract step
or stutter it implements.

`OfflineOutboxProofs`: for any number of tabs, `OrderInv` (the rows stand in one
order, that of their due times), `RowsInv` (what the columns of a row say of its
past) and `RunnerInv` (where a runner stands and what it holds) are inductive, and
give `NotLost`: a row goes only with its effect or its attempts. What needs one
tab rests on `HandInv` (the tab alone runs rows, those of its batch once each),
`TriesInv` (a try is counted when it fails, or the reload that cut it short is),
`WordInv` (whoever asked waits for word), `FifoInv` (an op that has not failed
keeps its place) and, until something fails or is reloaded, `SmoothInv` and
`WishInv` (the newest row is the user's last wish). From them `OrderAlwaysHolds`
and `OpsAlwaysAccounted`, for any number of ops, folders, attempts and reloads.
The order is kept as a relation (`ahead`) so that it can be reasoned about
without induction over sequences.

The ledger (in `SafePartsProofs`): `IInv` (types, `ColumnsAgree`, `HintIsNewer`,
`RowStays`, `Serial`) is inductive. `RowStays` is the fact that a row never
disappears under a request that has read it. `Serial` holds until two requests
have overlapped: `Alone` (the row a request is about to write has not been
promoted since it was read, and no other request is in flight),
`TaskMeansPromoted`, and `TasksAccounted` (a task is the row's, still in the
saga, or leaked). From it follow `LedgerAlwaysHolds`, its part `OneTaskAtMost`
and `PromotionIsTerminal`.

`TaskRemindersProofs`: `IInv` has two halves. For the reminders: `CurInv` (where
a tick stands and what was mailed), `VersionInv` (what a tick holds is current or
was crossed), `SharedInv` (two ticks hold the same reminder only if it is in
`twice`) and `MailedInv` (a mailed reminder is recorded, superseded or being
recorded, and nobody waits to mail it): "mailed once" alone says nothing of a
second tick that has already listed the row. For the series: `RequestsInv`,
`OneWriter`, `WriterSawIt`, `SpawnerIsFirst`, `StaysDone` and `HasPredecessor`;
until an occurrence is loose one request updates it at a time, what it read is
still true when it writes, and a completed occurrence stays done. From it:
`RemindersAlwaysHold`, `SeriesAlwaysHolds` and their parts. The latter also
covers what the bounds of the run hardly reach: a duplicate that is itself
continued further down the chain, which is why the property exempts every
occurrence after a loose one.

Snoozes (in `PagePartsProofs`): `IInv` adds to `NotLost` and `ToldOnce` what the processes hold:
`HandInv` (what is in hand is current, or a newer one is marked `crossed`),
`DeleteInv` (a row is deleted only after the move or with an excuse), `NotifyInv`
(who notifies has deleted the row, and nobody else). From it `SnoozesAlwaysHold`
and `NeverEarly`.

`MailMirrorProofs`: "rows agree with the server" says nothing of the answers on
their way. `StageInv` says where a request stands, `ViewInv` that what nothing
overtook is still as it was read, `BulkInv` that emptying a folder misses no row
of its own mail but those that are wrong or being moved, `HeldInv` that the ids a
request holds belong to rows, and `SweepInv` that the rules are as a sweep read them
and that it holds blocked mail of the inbox, unless something changed since. From them `MirrorAlwaysHolds` and
`SweepAlwaysHonours`, for any number of messages, folders and requests.

`SessionsProofs`: `SavedInv` orders the tokens by the time they were stored and
says that a live session's token was stored, `OutInv` that after a logout nothing
can bring a session back. From it `SessionsAlwaysHold` and its parts and
`EndedSessionsAdmitNothing`, for any number of sign-ins, requests and instants.

`PartsProofs` and `SafePartsProofs`, by component. Each theorem is about the
specification of the host (`Spec` of `Parts`, `SafeSpec` of `SafeParts`);
`StepOfFocus` and `StepOfSubject` say that a step of the host under a `focus` or
`subject` is one of that component or leaves its variables alone, so that the
component's inductive invariant is one of the host.

- Agent: `TurnInv` counts the requests made against the place in the loop and ties
  the calls without reply to it. `TurnsAlwaysHold` and its parts.
- Generation cache: `Faithful`: a brief knows what there was to quote when its mail
  was read, and its anchor is the newest of that; the row is one of these. That mail
  which comes later leaves the newest `MailLimit` of what is older as they were, or
  fewer of them, is counting in finite sets. `BriefsAreFresh`.
- Documents of the index: each process is described by itself (`WorkOf`): as long
  as the date it holds is the document's, so is the text it holds; if not, its rows
  are dated as old. Strikes are failures (`StrikesOf`). `RowsAlwaysAgree`.
- EWS connections: `PrivateInv`: a connection of its own is one call's, and the
  pool knows nothing of it; `CompanyInv`: calls that share the pool are known to,
  and one that does not has after a 401 an empty pool or a fresh connection. `EvictedInv`: what was closed under a call, a logout closed.
  `ConnectionsAlwaysHold`.
- Workers: a batch is the ranking of the candidates by turn, cut at the size of a
  batch. General lemmas on ranks in a finite total order (`RankGrows`, `RankIs`,
  `RankExists`) give that a batch is a bijection onto the first places
  (`BatchIs`), that what a user has in it are that user's newest (`NewestFirst`),
  and so that it is fair (`BatchIsFair`): for any number of users and messages and
  any shares, where the run has two and three. With the strikes that never exceed
  the failures, `CardsAlwaysPromised` and `BatchesAlwaysFair`.

- Message reader: `FetchOf` (the answer that may still be shown is the newest
  one's, and of the selected message unless an open from the cache overtook it),
  `Apart` (two opens set one flag ahead only if that is exempt), `FlagOf` and
  `ReadOf` (what the list and the server say of a message, and who will tell the
  server). `ReaderAlwaysHolds`.
- Documents and collaboration: `TabOf` (what a tab did not insert itself is in the
  server, stored or lost for a cause), `ServerInv` (what is not stored makes the
  server dirty), `TypedKept` (each typed text is somewhere), `GivenInv` (so is what
  the document came with), `Single` (one text is
  one insertion, wherever it is looked for). `DocumentsAlwaysHold`.
- Calendar mirror: `Formed` says what a request carries at each stage, `Agrees` that
  of an undisturbed event the row is the provider's, or that the only request
  concerned has in hand what makes it so (`Fits`), `Lone` that a request alone
  finds what it needs. The versions are bounded by the events of the run, less the
  requests that may still make one (`MayMake`).
- Event soon: a tick about to tell has found that what it knows of does not count
  (`Looked`), and until the event is moved every announcement and every tick is
  about its start as it is (`Unmoved`).
- Attachments: what a request will write was in the list or is its own, and fits
  the limit (`RequestOf`). With the two before: `RowsAlwaysKept`.
- Compose window: `OneAtATime` (one send shows Undo and is the one it would undo,
  but for those that met), `SavesInTurn` (a send waits, is under way, or is over),
  `ToldRight` (what was told is so) and `DraftsRight` (who holds a draft's number may
  change it, unless its save strayed). `ComposeAlwaysHolds`.
- Ask panel: `PinRight` (what is pinned and told is of the scope, unless something
  came late), `PostsRight` and `EachCounted` (each approval is a request of its own;
  what was carried out and what the server has not seen are no more than those
  posted), `CardRight` (what a card says against its requests). `AskAlwaysHolds`.
- Tasks page: `TaskRight` is about one task at a time, unless its writes crossed:
  then nothing else is under way beside a request about it (`AloneIn`); while that
  request is on its way, its answer will bring the list to what the server has
  (`Promised`); without one the list has it already (`AtRest`), or a load will bring
  it (`LoadsRight`). A step about other tasks changes none of this. `FormRight`: a
  field the user did not touch is as it was when the sheet was mounted.
  `BoardAlwaysHolds`.

`PagePartsProofs`, by page; each theorem is about `PageSpec`.

- Folder lists: `ListInv`. "Right at rest" says nothing of a list ahead of the
  server, so `RowRight` ties a row of a list to the server by what is under way for
  its message: an op of its own that waits, a fetch that will bring it, or an
  exception; `unheard` are the messages of the op at the head that the server has done
  without a word. `CountRight` counts: what a folder's badge shows is the number of
  messages that stay in it once the ops under way are done (`Staying`), of a finite
  set; `OpsCountedStill` and `StayingStill` say that an op which is done, or undone,
  leaves the others counted as they were, `FewerCounts` what its charge takes.
  `FetchRight` says what a fetch that is out may bring. `ListingAlwaysHolds`.
- Search: `FindInv`. A page that is on its way was cut from a ranking that has moved
  on since, so `RowsSteady` and `PageSteady` say of the rows, and of the answer not
  yet taken, that nothing is missing above what they reach, `OneAsked` and
  `ModesRight` that one search is under way. A page is "the k-th to n-th result":
  lemmas on the places of a finite set in an order (as `RankExists` for the batches)
  give that the places are taken one by one and that mail above only moves them
  down; `KeptIs` says what a filter keeps of any sequence, from the place of each
  entry kept. `SearchAlwaysHolds`.
- Pages: `TreeInv`. The tree is computed level by level (`Below`), and what it
  computes is proved without induction over data: a function of levels exists for
  each number, since a least number without one has a predecessor with one
  (`LeastNat`, from the well-foundedness of inclusion on finite sets); so what is
  below a set is the least set that has it and is closed under children (`BelowHas`,
  `BelowLeast`, `BelowClosed`, the last by counting: a level that adds nothing is
  the last one, and there are as many levels as pages). From this, a page added
  under a page of the tree, or moved under one that is not below it, hides nothing
  (`AddShown`, `MoveShown`). `AllSeen`: a request that is not blind is alone in
  reshaping the tree, and what it is about is in it, so the user's view is the
  table's when it is served. `AllListed` says, for each page and by the kind of the
  one request under way about it, how list and table differ (`Between`), and that a
  page just made is known to its own answer alone (`NewRight`); `ShownRight`: one
  page at most is being opened, the selected one, and who removes it knows that it
  is shown; `AllTagged`: the tags under way are the ones chosen. `PagesAlwaysHold`.

Two properties were found false by these proofs, beyond the bounds the runs then
had, and were corrected to what the code does: the order of search results, when
mail arrives while pages are loaded, and the tags of a page just listed, opened
again by the late answer that made it.

Only model-checked: liveness (the prover has no ENABLED, so no fairness
reasoning); of `parts_safety` the calendar page's functions (`DatesHold`: what
`CalendarGrid` computes is recursion over sequences of events), and the outbox of
two tabs and the series of tasks as the host states them, whose theorems are those
of `OfflineOutboxProofs` and `TaskRemindersProofs`; the three properties expected
to fail.

## Disagreements found

- `ledger_terminal`: "Promoted rows are terminal" (`mail.service.ts:1854`) fails
  when a resolve overlaps a promotion.
- `pages_subpages`: the dialog promises to delete a page with all its subpages;
  the API removes the page only.
- `ask_stop`: "a Stop after the frame arrives must not discard an approval card"
  (`AskPanel.tsx:537`); it does.
- Without a run of their own, stated as the named exceptions above: the calendar's
  comments on columns (`calendar/page.tsx:83-87`) and on slots (`:1222`, and the
  button at `:594`);
  `ARCHITECTURE.md:610` ("prevents re-send"), not kept by overlapping ticks, and
  `:242`, `:857`, which describe the storing of documents differently;
  `mail/page.tsx:1226`; `ProposalCard.tsx:38` across a remount.

## Not modelled

- Mail mirror: new ids after an Exchange move, creating and renaming folders, the
  persisted row of a sent message, embedded images, token checks of requests other
  than the sweep (they are in `Sessions`), a second user (the sweeps of those that
  come first are time that passes between its steps).
- Documents: a failing store, a save by REST in flight when another begins,
  titles, comments, activity, the five-minute rule and the limit of fifty of the
  versions (a version may be made at any save).
- Calendar: one range, ids of local events, reading one event, answers to
  invitations. Contacts have the same shape and one call per request.
- The outbox's handlers other than move, the badge counters. Bulk moves, which the
  interface does not offer.
- Compose: another draft opened in the same window while it is open. Tasks page:
  the "Edit" of the toast, subtasks, comments, assignees. Ask panel: the text,
  sources and steps of an answer.
- A tasks series' due date: `setMonth` overflows for the 31st; dates are
  occurrence numbers here.
- Ask, retrieval, meeting preparation, people: read-only queries fused into a
  prompt. Envelopes, mappers and parsers: conversions of text without state, whose
  effect on mail is in `MailMirror`. Settings and audit: single writes.
- The vendored older copy of the API in `apps/desktop/api-bundle`.
- The rest of the interface: rendering, and one request per action.

## Plan

Every safety property that a run checks is stated by a theorem, but for those
named above. What is left: the columns and slots of the calendar page, whose
proof needs `CalendarGrid` written with folds or recursive functions and an
argument by least counterexample, as for the levels of the tree; the parts listed
under "Not modelled", of which the ids of messages on Exchange matter most.
