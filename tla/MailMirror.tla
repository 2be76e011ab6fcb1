----------------------------- MODULE MailMirror -----------------------------
(***************************************************************************)
(* The mirror of a mailbox (mail.service.ts): rows of the table Message    *)
(* against the messages of the mail server.  A request reads what it needs *)
(* from the tables, calls the server, and writes the tables by the id it   *)
(* read.  Nothing is locked in between: other requests, other mail         *)
(* programs and the sweep of blocked senders go on.  Listings create rows  *)
(* and refresh flags, but never move an existing row to another folder.    *)
(*                                                                         *)
(* The mail server is Zimbra, whose folders are a tree: to empty or delete *)
(* a folder there takes those below it along.                              *)
(***************************************************************************)
EXTENDS Naturals, FiniteSets

CONSTANTS Messages,
          Clients,      \* requests and sweeps that may be in flight at once
          Inbox, Junk, Trash, UserFolders,
          Subfolders,   \* of each folder, those below it at any depth
          Received,     \* when each message came in
          Window,       \* rows of the Inbox that a sweep looks at: 100 in the code
          Gone, NoRow,
          OldRules,     \* the types of the rules for each sender at the start
          MaxRequests,  \* bound on the requests and sweeps
          MaxRules,     \* bound on the changes of the sender rules
          MaxTrouble    \* bound on lost answers, failed writes, ended sessions, other programs' changes

System  == {Inbox, Junk, Trash}
Folders == System \cup UserFolders

ASSUME ConstantsAssumption ==
    /\ Inbox # Junk /\ Junk # Trash /\ Trash # Inbox /\ UserFolders \cap System = {}
    /\ Subfolders \in [Folders -> SUBSET UserFolders]
    /\ Received \in [Messages -> Nat] /\ Window \in Nat
    /\ Gone \notin Folders
    /\ NoRow \notin [at : Folders, read : BOOLEAN]
    /\ OldRules \subseteq {"BLOCK", "ALLOW"}
    /\ {MaxRequests, MaxRules, MaxTrouble} \subseteq Nat

VARIABLES
    srv,        \* on the mail server: the folder, or Gone, and the read flag
    dirs,       \* on the mail server: its folders
    row,        \* rows of the table Message
    folders,    \* rows of the table Folder
    rules,      \* the types of the sender rules that match the message
    signedIn,   \* the user's row has a token that has not expired
    pc, op,     \* of each client
    answer,     \* the messages in the server's answer
    held,       \* messages of whose rows the client holds a valid id
    blocked,    \* of a sweep: the mail that the rules it read are against
    batch,      \* of a sweep: what is left to file
    requests, changes, trouble,
    \* history, for the properties only
    dirty,      \* changed on the server since the client was served
    hurtAt, hurtRead,   \* written from an outdated view, or not written at all
    late        \* rule changed since the sweep read them, folder since it listed

server  == <<srv, dirs>>
tables  == <<row, folders, rules, signedIn>>
clients == <<pc, op, answer, held, blocked, batch>>
bounds  == <<requests, changes, trouble>>
hist    == <<dirty, hurtAt, hurtRead, late>>
vars    == <<server, tables, clients, bounds, hist>>

Types == {"BLOCK", "ALLOW"}
Mail  == [at : Folders \cup {Gone}, read : BOOLEAN]
Rows  == [at : Folders, read : BOOLEAN]
None  == [kind |-> "none"]
Stages == {"idle", "ruled", "sweep", "asked", "served"}
Empty == [m \in Messages |-> NoRow]

\* What a user can ask for.  fetch is getMessage, or the back-fill of
\* getConversation, for a message without a row; with one they leave it alone.
Ops == [kind : {"list", "empty"}, f : Folders] \cup [kind : {"search"}]
       \cup [kind : {"rmdir"}, f : UserFolders]
       \cup [kind : {"fetch", "delete", "discard"}, m : Messages]
       \cup [kind : {"move"}, m : Messages, f : Folders, sweep : {FALSE}]
       \cup [kind : {"mark"}, m : Messages, b : BOOLEAN]

Filing == [kind : {"move"}, m : Messages, f : {Junk}, sweep : {TRUE}]

HasRow(m) == row[m] # NoRow
Kind(r)   == op[r].kind

TypeOK ==
    /\ srv \in [Messages -> Mail] /\ dirs \subseteq Folders
    /\ row \in [Messages -> Rows \cup {NoRow}] /\ folders \subseteq Folders
    /\ rules \in [Messages -> SUBSET Types] /\ signedIn \in BOOLEAN
    /\ pc \in [Clients -> Stages]
    /\ op \in [Clients -> Ops \cup Filing \cup {None}]
    /\ answer \in [Clients -> [Messages -> Rows \cup {NoRow}]]
    /\ {held, blocked, batch} \subseteq [Clients -> SUBSET Messages]
    /\ requests \in 0 .. MaxRequests /\ changes \in 0 .. MaxRules
    /\ trouble \in 0 .. MaxTrouble
    /\ dirty \in [Clients -> SUBSET Messages] /\ late \in [Clients -> SUBSET Messages]
    /\ hurtAt \subseteq Messages /\ hurtRead \subseteq Messages

\* Some of the mail has been listed before.
Init ==
    /\ srv = [m \in Messages |-> [at |-> Inbox, read |-> FALSE]] /\ dirs = Folders
    /\ \E known \in SUBSET Messages : row = [m \in Messages |-> IF m \in known THEN srv[m] ELSE NoRow]
    /\ folders = Folders
    /\ rules = [m \in Messages |-> OldRules] /\ signedIn = TRUE
    /\ pc = [r \in Clients |-> "idle"] /\ op = [r \in Clients |-> None]
    /\ answer = [r \in Clients |-> Empty]
    /\ held = [r \in Clients |-> {}] /\ blocked = [r \in Clients |-> {}]
    /\ batch = [r \in Clients |-> {}]
    /\ requests = 0 /\ changes = 0 /\ trouble = 0
    /\ dirty = [r \in Clients |-> {}] /\ late = [r \in Clients |-> {}]
    /\ hurtAt = {} /\ hurtRead = {}

-----------------------------------------------------------------------------
(* The first half of a handler, up to the server's answer.                 *)

\* What the handlers look up before they call the server, getUser first.
Needs(o) ==
    /\ signedIn
    /\ o.kind \in {"list", "move", "empty", "rmdir"} => o.f \in folders
    /\ o.kind \in {"move", "mark", "delete"} => HasRow(o.m)
    /\ o.kind = "fetch" => ~HasRow(o.m)

Ask(r, o) ==
    /\ pc[r] = "idle" /\ Needs(o)
    /\ requests < MaxRequests /\ requests' = requests + 1
    /\ pc' = [pc EXCEPT ![r] = "asked"]
    /\ op' = [op EXCEPT ![r] = o]
    /\ held' = [held EXCEPT ![r] = {m \in Messages : o.kind \in {"move", "mark", "delete"} /\ o.m = m}]
    /\ UNCHANGED <<server, tables, answer, blocked, batch, changes, trouble, hist>>

\* Emptying is recursive, and a folder is deleted with those below it.
Tree(f) == {f} \cup Subfolders[f]

\* The mailbox once the server has carried out o.  A deleted message goes to
\* the trash; what is emptied is destroyed.
Served(o) ==
    [m \in Messages |->
        CASE o.kind = "move" /\ m = o.m -> [srv[m] EXCEPT !.at = o.f]
          [] o.kind = "mark" /\ m = o.m -> [srv[m] EXCEPT !.read = o.b]
          [] o.kind \in {"delete", "discard"} /\ m = o.m -> [srv[m] EXCEPT !.at = Trash]
          [] o.kind \in {"empty", "rmdir"} /\ srv[m].at \in Tree(o.f) -> [srv[m] EXCEPT !.at = Gone]
          [] OTHER -> srv[m]]

\* The messages o is about: a listing answers with them, emptying destroys them.
About(o) ==
    CASE o.kind = "list" -> {m \in Messages : srv[m].at = o.f}
      [] o.kind \in {"empty", "rmdir"} -> {m \in Messages : srv[m].at \in Tree(o.f)}
      [] o.kind = "search" -> {m \in Messages : srv[m].at # Gone}
      [] o.kind = "fetch"  -> {o.m}
      [] OTHER -> {}

Accepts(o) ==
    /\ "m" \in DOMAIN o => srv[o.m].at # Gone
    /\ "f" \in DOMAIN o => o.f \in dirs

\* What a sweep has listed and not yet filed.
Listed(q) == batch[q] \cup {m \in Messages : op[q] \in Filing /\ op[q].m = m}

\* Who was served before has an outdated view of what changes now, and so has
\* a sweep that listed it.
ServerBecomes(new) ==
    LET moved == {m \in Messages : new[m].at # srv[m].at}
    IN  /\ srv' = new
        /\ dirty' = [q \in Clients |-> IF pc[q] = "served"
                                       THEN dirty[q] \cup {m \in Messages : new[m] # srv[m]} ELSE {}]
        /\ late' = [q \in Clients |-> late[q] \cup (moved \cap Listed(q))]

Serve(r) ==
    /\ pc[r] = "asked" /\ Accepts(op[r])
    /\ pc' = [pc EXCEPT ![r] = "served"]
    /\ answer' = [answer EXCEPT ![r] = [m \in Messages |-> IF m \in About(op[r]) THEN srv[m] ELSE NoRow]]
    /\ ServerBecomes(Served(op[r]))
    /\ dirs' = CASE Kind(r) = "rmdir" -> dirs \ Tree(op[r].f)
                 [] Kind(r) = "empty" -> dirs \ Subfolders[op[r].f]
                 [] OTHER -> dirs
    /\ UNCHANGED <<tables, op, held, blocked, batch, bounds, hurtAt, hurtRead>>

\* Back to idle or, in a sweep, to the next candidate; lost rows take the ids with them.
Ends(r, lost) ==
    /\ pc' = [pc EXCEPT ![r] = IF batch[r] = {} THEN "idle" ELSE "sweep"]
    /\ op' = [op EXCEPT ![r] = None]
    /\ answer' = [answer EXCEPT ![r] = Empty]
    /\ held' = [q \in Clients |-> held[q] \ (IF q = r THEN lost \cup (Messages \ batch[r]) ELSE lost)]
    /\ dirty' = [dirty EXCEPT ![r] = {}]
    /\ late' = [late EXCEPT ![r] = @ \cap batch[r]]

\* A session that ended in the meantime may still do.
Refused(r) ==
    /\ pc[r] = "asked" /\ (~Accepts(op[r]) \/ ~signedIn)
    /\ Ends(r, {})
    /\ UNCHANGED <<server, tables, blocked, batch, bounds, hurtAt, hurtRead>>

-----------------------------------------------------------------------------
(* The second half of a handler: its writes to the tables.                 *)

\* The messages a client has changed on the server, once it has been served.
Changed(r) ==
    CASE Kind(r) \in {"move", "mark", "delete", "discard"} -> {op[r].m}
      [] Kind(r) \in {"empty", "rmdir"} -> {m \in Messages : answer[r][m] # NoRow}
      [] OTHER -> {}

\* Served, but not yet written to the tables: a change of folder, of the flag.
MovesNow(r, m) == pc[r] = "served" /\ Kind(r) # "mark" /\ m \in Changed(r)
FlagsNow(r, m) == pc[r] = "served" /\ Kind(r) = "mark" /\ m \in Changed(r)
Moving(m)   == \E r \in Clients : MovesNow(r, m)
Flagging(m) == \E r \in Clients : FlagsNow(r, m)

Answered(r) == {m \in Messages : Kind(r) \in {"list", "search", "fetch"} /\ answer[r][m] # NoRow}
Created(r)  == {m \in Answered(r) : ~HasRow(m) /\ answer[r][m].at \in folders}

Refreshed(r) == {m \in Answered(r) : HasRow(m) /\ Kind(r) \in {"list", "search"}}

\* Mutant: the refresh of a row also files it where the answer has it.
RefreshFiles(r) == [m \in Messages |-> IF m \in Created(r) \cup Refreshed(r) THEN answer[r][m] ELSE row[m]]

\* The upserts of getMessages, the searches and getMessage and the createMany
\* of the back-fill: a new row takes everything, an old one the flags.
Refresh(r) ==
    [m \in Messages |->
        CASE m \in Created(r)   -> answer[r][m]
          [] m \in Refreshed(r) -> [row[m] EXCEPT !.read = answer[r][m].read]
          [] OTHER -> row[m]]

\* The rows that delete, discard, empty and rmdir remove.
Removed(r) ==
    CASE Kind(r) \in {"delete", "discard"} -> {op[r].m}
      [] Kind(r) \in {"empty", "rmdir"} -> {m \in Messages : HasRow(m) /\ row[m].at = op[r].f}
      [] OTHER -> {}

Written(r) ==
    CASE Kind(r) = "move" -> [row EXCEPT ![op[r].m].at = op[r].f]
      [] Kind(r) = "mark" -> [row EXCEPT ![op[r].m].read = op[r].b]
      [] Kind(r) \in {"list", "search", "fetch"} -> Refresh(r)
      [] OTHER -> [m \in Messages |-> IF m \in Removed(r) THEN NoRow ELSE row[m]]

WroteAt(r)   == Created(r) \cup (IF Kind(r) = "move" THEN {op[r].m} ELSE {})
WroteRead(r) == Created(r) \cup {m \in Answered(r) : HasRow(m) /\ Kind(r) # "fetch"}
                           \cup (IF Kind(r) = "mark" THEN {op[r].m} ELSE {})

\* Destroyed along with a folder above its own: rows are removed by folderId
\* alone, so this one stays.
Orphaned(r) ==
    {m \in Changed(r) \ Removed(r) :
        Kind(r) \in {"empty", "rmdir"} /\ HasRow(m) /\ answer[r][m].at # op[r].f}

\* What update and delete by id do when the row has gone.
Throws(r) ==
    \/ Kind(r) \in {"move", "mark", "delete"} /\ op[r].m \notin held[r]
    \/ Kind(r) = "move" /\ op[r].f \notin folders

Write(r) ==
    /\ pc[r] = "served" /\ ~Throws(r)
    /\ row' = Written(r)
    /\ folders' = IF Kind(r) = "rmdir" THEN folders \ {op[r].f} ELSE folders
    /\ hurtAt' = ((hurtAt \ WroteAt(r)) \cup (WroteAt(r) \cap dirty[r]) \cup Orphaned(r)) \ Removed(r)
    /\ hurtRead' = ((hurtRead \ WroteRead(r)) \cup (WroteRead(r) \cap dirty[r])) \ Removed(r)
    /\ Ends(r, Removed(r))
    /\ UNCHANGED <<server, rules, signedIn, blocked, batch, bounds>>

\* The tables miss the change.
Misses(r) ==
    /\ hurtAt' = IF Kind(r) = "mark" THEN hurtAt ELSE hurtAt \cup {m \in Changed(r) : HasRow(m)}
    /\ hurtRead' = IF Kind(r) = "mark" THEN hurtRead \cup {m \in Changed(r) : HasRow(m)} ELSE hurtRead
    /\ Ends(r, {})
    /\ UNCHANGED <<server, tables, blocked, batch, requests, changes>>

WriteThrows(r) == pc[r] = "served" /\ Throws(r) /\ Misses(r) /\ UNCHANGED trouble

\* The answer is lost, or the write refused.
Fails(r) ==
    /\ pc[r] = "served" /\ trouble < MaxTrouble /\ trouble' = trouble + 1
    /\ Misses(r)

-----------------------------------------------------------------------------
(* Sender rules and their sweep.                                           *)

\* Mutant: a block wins over a permission.
MatchBlockFirst(types) == IF "BLOCK" \in types THEN "BLOCK" ELSE IF "ALLOW" \in types THEN "ALLOW" ELSE "null"

\* matchSenderRule
Match(types) == IF "ALLOW" \in types THEN "ALLOW" ELSE IF "BLOCK" \in types THEN "BLOCK" ELSE "null"

\* createSenderRule, deleteSenderRule
ChangeRule(m, type) ==
    /\ changes < MaxRules /\ changes' = changes + 1
    /\ rules' = [rules EXCEPT ![m] = IF type \in @ THEN @ \ {type} ELSE @ \cup {type}]
    /\ late' = [q \in Clients |-> late[q] \cup ({m} \cap (IF pc[q] = "ruled" THEN blocked[q] ELSE Listed(q)))]
    /\ UNCHANGED <<server, row, folders, signedIn, clients, requests, trouble, dirty, hurtAt, hurtRead>>

\* processTick: everybody's rules at once; the users come one after another.
SweepReads(r) ==
    /\ pc[r] = "idle" /\ \E m \in Messages : rules[m] # {}
    /\ pc' = [pc EXCEPT ![r] = "ruled"]
    /\ blocked' = [blocked EXCEPT ![r] = {m \in Messages : Match(rules[m]) = "BLOCK"}]
    /\ UNCHANGED <<server, tables, op, answer, held, batch, bounds, hist>>

\* The newest rows of the Inbox.
InWindow(m) ==
    LET inbox == {n \in Messages : HasRow(n) /\ row[n].at = Inbox}
    IN  m \in inbox /\ Cardinality({n \in inbox : Received[n] > Received[m]}) < Window

Candidates(r) == {m \in blocked[r] : signedIn /\ InWindow(m)}

\* sweepUser: the token, then the rows.
SweepLists(r) ==
    /\ pc[r] = "ruled"
    /\ pc' = [pc EXCEPT ![r] = IF Candidates(r) = {} THEN "idle" ELSE "sweep"]
    /\ blocked' = [blocked EXCEPT ![r] = {}]
    /\ batch' = [batch EXCEPT ![r] = Candidates(r)]
    /\ held' = [held EXCEPT ![r] = Candidates(r)]
    /\ late' = [late EXCEPT ![r] = {m \in Candidates(r) : m \in @ \/ Moving(m) \/ m \in hurtAt}]
    /\ UNCHANGED <<server, tables, op, answer, bounds, dirty, hurtAt, hurtRead>>

\* Mutant: a candidate of the Inbox is taken for one that is filed already.
SweepSkips(r, m) ==
    /\ pc[r] = "sweep" /\ m \in batch[r]
    /\ batch' = [batch EXCEPT ![r] = @ \ {m}]
    /\ pc' = [pc EXCEPT ![r] = IF batch[r] = {m} THEN "idle" ELSE "sweep"]
    /\ held' = [held EXCEPT ![r] = @ \ {m}] /\ late' = [late EXCEPT ![r] = @ \ {m}]
    /\ UNCHANGED <<server, tables, op, answer, blocked, bounds, dirty, hurtAt, hurtRead>>

\* enforceSenderRules: from here on like a move that the user asked for.
SweepTakes(r, m) ==
    /\ pc[r] = "sweep" /\ m \in batch[r]
    /\ batch' = [batch EXCEPT ![r] = @ \ {m}]
    /\ pc' = [pc EXCEPT ![r] = "asked"]
    /\ op' = [op EXCEPT ![r] = [kind |-> "move", m |-> m, f |-> Junk, sweep |-> TRUE]]
    /\ UNCHANGED <<server, tables, answer, held, blocked, bounds, hist>>

-----------------------------------------------------------------------------
(* Another mail program moves, flags or destroys a message.                *)
Elsewhere(m, new) ==
    /\ trouble < MaxTrouble /\ trouble' = trouble + 1
    /\ srv[m].at # Gone /\ new # srv[m]
    /\ ServerBecomes([srv EXCEPT ![m] = new])
    /\ hurtAt' = IF new.at # srv[m].at /\ HasRow(m) THEN hurtAt \cup {m} ELSE hurtAt
    /\ hurtRead' = IF new.read # srv[m].read /\ HasRow(m) THEN hurtRead \cup {m} ELSE hurtRead
    /\ UNCHANGED <<dirs, tables, clients, requests, changes>>

\* The token expires or the user signs out; a login renews it.
SessionEnds ==
    /\ signedIn /\ signedIn' = FALSE
    /\ trouble < MaxTrouble /\ trouble' = trouble + 1
    /\ UNCHANGED <<server, row, folders, rules, clients, requests, changes, hist>>

SignsIn ==
    /\ ~signedIn /\ signedIn' = TRUE
    /\ UNCHANGED <<server, row, folders, rules, clients, bounds, hist>>

-----------------------------------------------------------------------------
Step(r) == Serve(r) \/ Refused(r) \/ Write(r) \/ WriteThrows(r)
SweepStep(r) == SweepReads(r) \/ SweepLists(r) \/ Step(r) \/ \E m \in Messages : SweepTakes(r, m)

Next ==
    \/ SessionEnds \/ SignsIn
    \/ \E r \in Clients : SweepStep(r) \/ Fails(r) \/ \E o \in Ops : Ask(r, o)
    \/ \E m \in Messages :
          \/ \E type \in Types : ChangeRule(m, type)
          \/ \E f \in dirs \cup {Gone} : Elsewhere(m, [srv[m] EXCEPT !.at = f])
          \/ \E b \in BOOLEAN : Elsewhere(m, [srv[m] EXCEPT !.read = b])

Spec == Init /\ [][Next]_vars

\* The sweep runs every minute and its calls end.
FairSpec == Spec /\ \A r \in Clients : WF_vars(SweepStep(r))

-----------------------------------------------------------------------------
(* A row is in the folder the server has the message in, and a message the *)
(* server has destroyed has no row - whatever listings, searches and other *)
(* requests overlapped - unless another program moved the message, the     *)
(* writing request was cut short, the folder was written from a view that  *)
(* was outdated when it was written (two moves that cross, or a row        *)
(* created by a read that a move overtook), or the message was destroyed   *)
(* along with a folder above its own: the rows of folders below the one    *)
(* emptied or deleted stay (emptyFolder and deleteFolder).                 *)
FolderAgrees ==
    \A m \in Messages : HasRow(m) /\ ~Moving(m) /\ m \notin hurtAt => row[m].at = srv[m].at

(* The read flag likewise; here a listing or a search that nothing         *)
(* overtook also heals what another program or a failure left wrong.       *)
FlagAgrees ==
    \A m \in Messages :
        HasRow(m) /\ ~Flagging(m) /\ m \notin hurtRead => row[m].read = srv[m].read

\* What nothing has overtaken since the server answered is still so.
ViewInv ==
    \A r \in Clients : \A m \in Messages \ dirty[r] :
        pc[r] = "served" =>
            /\ m \in Answered(r) => answer[r][m] = srv[m]
            /\ Kind(r) = "move" /\ op[r].m = m => srv[m].at = op[r].f
            /\ Kind(r) = "mark" /\ op[r].m = m => srv[m].read = op[r].b

\* Emptying a folder misses no row of its own mail but those that are wrong or
\* being moved.
BulkInv ==
    \A r \in Clients, m \in Messages :
        pc[r] = "served" /\ Kind(r) \in {"empty", "rmdir"} /\ m \in Changed(r) =>
            /\ srv[m].at = Gone
            /\ answer[r][m].at = op[r].f /\ HasRow(m) /\ row[m].at # op[r].f /\ m \notin hurtAt =>
                  \E q \in Clients \ {r} : MovesNow(q, m) /\ Kind(q) \in {"move", "delete", "discard"}

\* What a client works on, and what is left of its sweep.
StageInv ==
    \A r \in Clients :
        /\ pc[r] \in {"idle", "ruled", "sweep"} <=> op[r] = None
        /\ pc[r] \in {"idle", "ruled"} => batch[r] = {}
        /\ pc[r] # "served" => answer[r] = Empty

\* An id that is held is that of a row.
HeldInv == \A r \in Clients : \A m \in held[r] : HasRow(m)

\* The rules are as the sweep read them, and what it has listed is where it was.
SweepInv ==
    \A r \in Clients :
        /\ pc[r] = "ruled" => \A m \in blocked[r] \ late[r] : rules[m] = {"BLOCK"}
        /\ \A m \in Listed(r) \ late[r] : srv[m].at = Inbox /\ rules[m] = {"BLOCK"}

IInv == TypeOK /\ StageInv /\ HeldInv /\ ViewInv /\ BulkInv /\ FolderAgrees /\ FlagAgrees /\ SweepInv

(* The mirror is the server's, in folder and flag, but for named causes.   *)
MirrorHolds == IInv /\ FolderAgrees /\ FlagAgrees

(* The sweep files nothing but blocked mail of the Inbox, unless a rule    *)
(* changed after it had read them all, the folder after it had listed the  *)
(* Inbox, or the row was wrong then.                                       *)
SweepHonours ==
    [][\A r \in Clients, m \in Messages :
          Serve(r) /\ op[r] \in Filing /\ op[r].m = m /\ m \notin late[r] =>
             srv[m].at = Inbox /\ rules[m] = {"BLOCK"}]_vars

\* What the sweep should file: blocked, in the window, of a user signed in.
ToFile(m) == signedIn /\ InWindow(m) /\ Match(rules[m]) = "BLOCK"

(* Blocked mail does not stay among the newest of the Inbox, while its     *)
(* user is signed in.                                                      *)
BlockedLeaves == \A m \in Messages : ToFile(m) ~> ~ToFile(m) \/ srv[m].at = Gone
=============================================================================
