-------------------------- MODULE GenerationCache --------------------------
(***************************************************************************)
(* The cached brief about one person: made from the mirrored mail by a     *)
(* model that takes its time, stored with an anchor, the time of the       *)
(* newest mail it was made from, and called stale when there is newer mail *)
(* (generation-cache.service.ts, dossier.service.ts).  A mail is the time  *)
(* it was received; it may be mirrored later than that, and deleted.       *)
(***************************************************************************)
EXTENDS Naturals, FiniteSets

CONSTANTS Requests,
          MailLimit,                  \* MAIL_CONTEXT_LIMIT
          MaxTime, MaxMade, MaxFaults \* bounds

VARIABLES
    clock, mail,  \* mirrored mail: none, with text, or without any
    row,          \* the cached generation
    gen,          \* the generations under way
    requests, faults,
    late          \* history: mail that came to be quoted when time had passed it

vars == <<clock, mail, row, gen, requests, faults, late>>

Times == 1 .. MaxTime
\* since is when its mail was read; made, when the other legs are there too.
Brief == [known : SUBSET Times, since : 0 .. MaxTime, anchor : 0 .. MaxTime,
          degraded : BOOLEAN, made : BOOLEAN]
None == [known |-> {}, since |-> 0, anchor |-> 0, degraded |-> FALSE, made |-> FALSE]

TypeOK ==
    /\ clock \in Times /\ mail \in [Times -> {"none", "text", "empty"}]
    /\ \A t \in Times : mail[t] # "none" => t <= clock
    /\ row \in Brief \cup {None} /\ gen \in [Requests -> Brief \cup {None}]
    /\ row.anchor <= clock /\ row.since <= clock
    /\ requests \in 0 .. MaxMade /\ faults \in 0 .. MaxFaults /\ late \subseteq Times

Init ==
    /\ clock = 1 /\ mail = [t \in Times |-> "none"] /\ row = None
    /\ gen = [r \in Requests |-> None] /\ requests = 0 /\ faults = 0 /\ late = {}

\* The newest mail that involves the person, as many as the limit admits; what
\* has no text to quote is dropped after that.
Involving == {t \in Times : mail[t] # "none"}
Above(ts, t) == {u \in ts : u > t}
Within(ts) == {t \in ts : Cardinality(Above(ts, t)) < MailLimit}
Considered == Within(Involving)
Quotable == {t \in Considered : mail[t] = "text"}

Newest(ts) == IF ts = {} THEN 0 ELSE CHOOSE t \in ts : \A u \in ts : u <= t

\* Mail arrives in time or not at all; or a listing mirrors what is older; or
\* a card brings a gist to mail that has no text of its own.
Arrive ==
    /\ clock < MaxTime /\ clock' = clock + 1
    /\ \E kind \in {"none", "text", "empty"} : mail' = [mail EXCEPT ![clock'] = kind]
    /\ UNCHANGED <<row, gen, requests, faults, late>>

ArriveLate ==
    /\ \E t \in 1 .. clock, kind \in {"text", "empty"} :
          /\ mail[t] = "none" \/ (mail[t] = "empty" /\ kind = "text")
          /\ mail' = [mail EXCEPT ![t] = kind] /\ late' = late \cup {t}
    /\ UNCHANGED <<clock, row, gen, requests, faults>>

\* Deleted mail makes room for mail the limit had left out.
Delete ==
    /\ \E t \in Involving : mail' = [mail EXCEPT ![t] = "none"]
    /\ late' = late \cup (Quotable' \ Quotable)
    /\ UNCHANGED <<clock, row, gen, requests, faults>>

\* Mutant: the anchor is the time the brief is stored.
AnchorAtEnd(r) == clock

Anchor(r) == gen[r].anchor

\* The mail leg is read, or fails and leaves its part out.
ReadMail(r) ==
    /\ gen[r] = None /\ requests < MaxMade /\ requests' = requests + 1
    /\ \E degraded \in BOOLEAN :
          /\ IF degraded THEN faults < MaxFaults /\ faults' = faults + 1 ELSE UNCHANGED faults
          /\ LET known == IF degraded THEN {} ELSE Quotable IN
             gen' = [gen EXCEPT ![r] = [known |-> known, since |-> clock, anchor |-> Newest(known),
                                        degraded |-> degraded, made |-> FALSE]]
    /\ UNCHANGED <<clock, mail, row, late>>

\* No mail anchors at now.
Anchored(b) ==
    [known |-> b.known, since |-> b.since, degraded |-> b.degraded, made |-> TRUE,
     anchor |-> IF b.known = {} THEN clock ELSE b.anchor]

\* The other legs have answered.
Prepare(r) ==
    /\ gen[r] # None /\ ~gen[r].made
    /\ gen' = [gen EXCEPT ![r] = Anchored(gen[r])]
    /\ UNCHANGED <<clock, mail, row, requests, faults, late>>

\* The stream has completed: one row for each person, the last one stays.
Upsert(r) ==
    /\ gen[r].made
    /\ row' = [gen[r] EXCEPT !.anchor = Anchor(r)]
    /\ gen' = [gen EXCEPT ![r] = None]
    /\ UNCHANGED <<clock, mail, requests, faults, late>>

\* The reader closes the stream, the model fails, or no leg found anything: a
\* fixed reply is sent and nothing is stored.
Abort(r) ==
    /\ gen[r] # None /\ gen' = [gen EXCEPT ![r] = None]
    /\ UNCHANGED <<clock, mail, row, requests, faults, late>>

Stale == Newest(Involving) > row.anchor

Next ==
    \/ Arrive \/ ArriveLate \/ Delete
    \/ \E r \in Requests : ReadMail(r) \/ Prepare(r) \/ Upsert(r) \/ Abort(r)

Spec == Init /\ [][Next]_vars

-----------------------------------------------------------------------------
\* Mail that came while a brief that had found none waited for its other legs.
Between(b) == {t \in Times : b.known = {} /\ b.since < t}

(* A brief that is served as fresh knows all the mail the limit admits,    *)
(* although mail came while it was made and slower generations may replace *)
(* newer ones; except mail that was mirrored or got a gist behind its time *)
(* or moved up when other mail was deleted, mail that came between the     *)
(* reads of a brief that had found none, and a brief whose mail could not  *)
(* be read.                                                                *)
FreshKnowsAll ==
    row # None /\ ~Stale /\ ~row.degraded => Quotable \ (late \cup Between(row)) \subseteq row.known

(* A brief that knows all the mail is not called stale.                    *)
KnowingIsFresh == row # None /\ Involving # {} /\ Involving \subseteq row.known => ~Stale

\* What a brief says of the mail it was made from: it knows what there was to
\* quote when it was read, and its anchor is that of the newest.
Faithful(b) ==
    /\ \A t \in b.known : t <= b.anchor
    /\ b.known # {} => b.anchor <= b.since
    /\ ~b.degraded => \A t \in Quotable \ late : t <= b.since => t \in b.known

IInv ==
    /\ TypeOK /\ Faithful(row)
    /\ \A r \in Requests : gen[r].anchor <= clock /\ gen[r].since <= clock /\ Faithful(gen[r])

(* A brief is called fresh exactly when it knows all the mail, and each    *)
(* brief, the cached one and those under way, knows all there was to quote *)
(* when its mail was read.                                                 *)
BriefsFresh == IInv /\ FreshKnowsAll /\ KnowingIsFresh
=============================================================================
