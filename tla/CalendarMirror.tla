--------------------------- MODULE CalendarMirror ---------------------------
(***************************************************************************)
(* The events of one calendar at the provider and their rows in            *)
(* calendar_events (calendar.service.ts).  Every request calls the         *)
(* provider first and writes the rows after; nothing else removes a row.   *)
(* An event is its version, 0 when there is none.                          *)
(***************************************************************************)
EXTENDS Naturals, FiniteSets

CONSTANTS Requests,
          MaxIds, MaxEvents \* bounds: events ever made; requests, faults and changes

Ids == 1 .. MaxIds
Versions == 0 .. MaxEvents

VARIABLES
    server, rows,       \* version of each event; the version its row was written from
    made, version,      \* ids and versions given out
    req,                \* the requests in flight
    events,
    disturbed,          \* history: events that more than one request at a time concerned
    refused             \* requests that ended with an error: were they alone?

vars == <<server, rows, made, version, req, events, disturbed, refused>>

NoAnswer == [id \in Ids |-> 0]
Idle == [op |-> "idle", pc |-> "", id |-> 0, v |-> 0, answer |-> NoAnswer, alone |-> FALSE]

TypeOK ==
    /\ server \in [Ids -> Versions] /\ rows \in [Ids -> Versions]
    /\ made \in 0 .. MaxIds /\ version \in Versions
    /\ \A id \in Ids : id > made => server[id] = 0 /\ rows[id] = 0
    /\ req \in [Requests -> [op : {"idle", "sync", "create", "update", "delete"},
                             pc : {"", "ask", "modify", "write"}, id : 0 .. MaxIds, v : Versions,
                             answer : [Ids -> Versions], alone : BOOLEAN]]
    /\ events \in 0 .. MaxEvents /\ disturbed \subseteq Ids /\ refused \subseteq BOOLEAN

Init ==
    /\ server = [id \in Ids |-> 0] /\ rows = server /\ made = 0 /\ version = 0
    /\ req = [r \in Requests |-> Idle] /\ events = 0 /\ disturbed = {} /\ refused = {}

Event == events < MaxEvents /\ events' = events + 1

InFlight == {r \in Requests : req[r].op # "idle"}
Busy(r, op, pc) == req[r].op = op /\ req[r].pc = pc

\* The events a request may read or write; a create does not know its id yet.
Concern(op, id) == IF op \in {"sync", "create"} THEN Ids ELSE {id}

Touches(id) == \E r \in InFlight : id \in Concern(req[r].op, req[r].id)

Shared(reqs) == [r \in Requests |-> [reqs[r] EXCEPT !.alone = FALSE]]

-----------------------------------------------------------------------------
\* updateEvent, deleteEvent: the row is looked up; without it the answer is 404.
Start(r, op, id) ==
    /\ req[r] = Idle /\ Event
    /\ op \in {"update", "delete"} => id # 0 /\ rows[id] # 0
    /\ op \in {"sync", "create"} => id = 0
    /\ LET new == [Idle EXCEPT !.op = op, !.pc = "ask", !.id = id,
                               !.alone = InFlight = {} /\ (id # 0 => server[id] # 0)]
       IN req' = [IF InFlight = {} THEN req ELSE Shared(req) EXCEPT ![r] = new]
    /\ disturbed' = disturbed \cup {i \in Concern(op, id) : Touches(i)}
    /\ UNCHANGED <<server, rows, made, version, refused>>

Done(r) == req' = [req EXCEPT ![r] = Idle]

Refused(r) == Done(r) /\ refused' = refused \cup {req[r].alone}

\* The range asked for holds every event.
SyncAnswered(r) ==
    /\ Busy(r, "sync", "ask")
    /\ req' = [req EXCEPT ![r].pc = "write", ![r].answer = server]
    /\ UNCHANGED <<server, rows, made, version, events, disturbed, refused>>

Upsert(r, id) == req[r].answer[id]

\* One upsert for each event of the answer, one after the other.
SyncWrites(r) ==
    /\ Busy(r, "sync", "write")
    /\ \E id \in Ids :
          /\ req[r].answer[id] # 0
          /\ rows' = [rows EXCEPT ![id] = Upsert(r, id)]
          /\ req' = [req EXCEPT ![r].answer[id] = 0]
          /\ disturbed' = IF req[r].alone THEN disturbed \ {id} ELSE disturbed
    /\ UNCHANGED <<server, made, version, events, refused>>

SyncEnds(r) ==
    /\ Busy(r, "sync", "write") /\ req[r].answer = NoAnswer
    /\ Done(r) /\ UNCHANGED <<server, rows, made, version, events, disturbed, refused>>

Create(r) ==
    /\ Busy(r, "create", "ask") /\ made < MaxIds
    /\ made' = made + 1 /\ version' = version + 1
    /\ server' = [server EXCEPT ![made'] = version']
    /\ req' = [req EXCEPT ![r].pc = "write", ![r].id = made', ![r].v = version']
    /\ UNCHANGED <<rows, events, disturbed, refused>>

\* The pair of user and event is unique: a row written meanwhile makes it fail.
CreateWrites(r) ==
    /\ Busy(r, "create", "write")
    /\ IF rows[req[r].id] = 0
       THEN rows' = [rows EXCEPT ![req[r].id] = req[r].v] /\ Done(r) /\ UNCHANGED refused
       ELSE Refused(r) /\ UNCHANGED rows
    /\ UNCHANGED <<server, made, version, events, disturbed>>

Sequence(id) == server[id]

UpdateReads(r) ==
    /\ Busy(r, "update", "ask")
    /\ req' = [req EXCEPT ![r].pc = "modify", ![r].v = Sequence(req[r].id)]
    /\ UNCHANGED <<server, rows, made, version, events, disturbed, refused>>

\* The provider refuses a sequence number that is not the newest.
Update(r) ==
    /\ Busy(r, "update", "modify")
    /\ LET id == req[r].id IN
       IF server[id] # 0 /\ server[id] = req[r].v
       THEN /\ version' = version + 1 /\ server' = [server EXCEPT ![id] = version']
            /\ req' = [req EXCEPT ![r].pc = "write", ![r].v = version']
            /\ UNCHANGED refused
       ELSE Refused(r) /\ UNCHANGED <<server, version>>
    /\ UNCHANGED <<rows, made, events, disturbed>>

Delete(r) ==
    /\ Busy(r, "delete", "ask")
    /\ IF server[req[r].id] # 0
       THEN /\ server' = [server EXCEPT ![req[r].id] = 0]
            /\ req' = [req EXCEPT ![r].pc = "write"] /\ UNCHANGED refused
       ELSE Refused(r) /\ UNCHANGED server
    /\ UNCHANGED <<rows, made, version, events, disturbed>>

\* A row that is gone makes the write by id fail.
Writes(r) ==
    /\ Busy(r, "update", "write") \/ Busy(r, "delete", "write")
    /\ IF rows[req[r].id] # 0
       THEN /\ rows' = [rows EXCEPT ![req[r].id] = IF req[r].op = "delete" THEN 0 ELSE req[r].v]
            /\ Done(r) /\ UNCHANGED refused
       ELSE Refused(r) /\ UNCHANGED rows
    /\ UNCHANGED <<server, made, version, events, disturbed>>

-----------------------------------------------------------------------------
\* The provider, the process or the database fails: what is done stays done.
Fails(r) ==
    /\ req[r].op # "idle" /\ Event
    /\ Done(r) /\ disturbed' = disturbed \cup Concern(req[r].op, req[r].id)
    /\ UNCHANGED <<server, rows, made, version, refused>>

\* Another calendar program.
Elsewhere ==
    /\ Event /\ version' = version + 1
    /\ \E id \in Ids :
          /\ id <= made + 1
          /\ id <= made => server[id] # 0
          /\ \E v \in {version'} \cup (IF id <= made THEN {0} ELSE {}) :
                server' = [server EXCEPT ![id] = v]
          /\ made' = IF id <= made THEN made ELSE id
          /\ disturbed' = disturbed \cup {id}
    /\ req' = Shared(req)
    /\ UNCHANGED <<rows, refused>>

Serve(r) ==
    \/ \E op \in {"sync", "create", "update", "delete"}, id \in 0 .. MaxIds : Start(r, op, id)
    \/ SyncAnswered(r) \/ SyncWrites(r) \/ SyncEnds(r) \/ Create(r) \/ CreateWrites(r)
    \/ UpdateReads(r) \/ Update(r) \/ Delete(r) \/ Writes(r)

Next == Elsewhere \/ \E r \in Requests : Serve(r) \/ Fails(r)

Spec == Init /\ [][Next]_vars

-----------------------------------------------------------------------------
(* When nothing is in flight a row is what the provider has, unless two    *)
(* requests met on the event, one was cut short, or another program        *)
(* changed it, since the last listing that ran alone.  A row without an    *)
(* event, which no listing removes, is such a case too.                    *)
RowsAgree ==
    InFlight = {} => \A id \in Ids \ disturbed : rows[id] = server[id]

(* A request on an event that exists, that nothing overlaps, succeeds: the *)
(* sequence number is fresh, and its row is free or there to be written.   *)
AloneSucceeds == TRUE \notin refused

(* The rows are the provider's events, and who is alone succeeds           *)
(* (calendar.service.ts).                                                  *)
MirrorAgrees == TypeOK /\ RowsAgree /\ AloneSucceeds
=============================================================================
