-------------------------- MODULE MailMirrorProofs --------------------------
(***************************************************************************)
(* The mirror of a mailbox for any number of messages, folders, requests   *)
(* and sweeps.  IInv is inductive; there is one lemma per kind of step.    *)
(***************************************************************************)
EXTENDS MailMirror, TLAPS

USE DEF Stages

-----------------------------------------------------------------------------
(* What is known of an op by its kind.                                     *)

LEMMA OpFields ==
  ASSUME NEW o \in Ops \cup Filing
  PROVE  /\ o # None
         /\ o.kind \in {"list", "empty", "search", "rmdir", "fetch", "delete", "discard", "move", "mark"}
         /\ o.kind \in {"list", "empty", "rmdir", "move"} => o.f \in Folders
         /\ o.kind \in {"fetch", "delete", "discard", "move", "mark"} =>
               o.m \in Messages /\ "m" \in DOMAIN o
         /\ o.kind = "mark" => o.b \in BOOLEAN
<1>1. CASE o \in [kind : {"list", "empty"}, f : Folders] \cup [kind : {"search"}]
               \cup [kind : {"rmdir"}, f : UserFolders]
  BY <1>1 DEF None, Folders
<1>2. CASE o \in [kind : {"fetch", "delete", "discard"}, m : Messages]
  BY <1>2 DEF None
<1>3. CASE o \in [kind : {"move"}, m : Messages, f : Folders, sweep : {FALSE}]
  BY <1>3 DEF None
<1>5. CASE o \in Filing
  BY <1>5 DEF None, Filing, Folders, System
<1>4. CASE o \in [kind : {"mark"}, m : Messages, b : BOOLEAN]
  BY <1>4 DEF None
<1> QED
  BY <1>1, <1>2, <1>3, <1>4, <1>5 DEF Ops

LEMMA FilingIsNoOp ==
  /\ \A o \in Ops : o \notin Filing
  /\ \A m \in Messages : [kind |-> "move", m |-> m, f |-> Junk, sweep |-> TRUE] \in Filing
  /\ None \notin Filing /\ None.kind = "none"
<1>1. ASSUME NEW o \in Ops, o \in Filing PROVE FALSE
  <2>1. DOMAIN o = {"kind", "m", "f", "sweep"} /\ o.sweep = TRUE
    BY <1>1 DEF Filing
  <2>2. "sweep" \notin DOMAIN o \/ o.sweep = FALSE
    <3>1. CASE o \in [kind : {"list", "empty"}, f : Folders]
      BY <3>1
    <3>2. CASE o \in [kind : {"search"}]
      BY <3>2
    <3>3. CASE o \in [kind : {"rmdir"}, f : UserFolders]
      BY <3>3
    <3>4. CASE o \in [kind : {"fetch", "delete", "discard"}, m : Messages]
      BY <3>4
    <3>5. CASE o \in [kind : {"move"}, m : Messages, f : Folders, sweep : {FALSE}]
      BY <3>5
    <3>6. CASE o \in [kind : {"mark"}, m : Messages, b : BOOLEAN]
      BY <3>6
    <3> QED
      BY <1>1, <3>1, <3>2, <3>3, <3>4, <3>5, <3>6 DEF Ops
  <2> QED
    BY <2>1, <2>2
<1> QED
  BY <1>1 DEF Filing, None

LEMMA FolderFacts == Gone \notin Folders /\ {Inbox, Junk, Trash} \subseteq Folders
  BY ConstantsAssumption DEF Folders, System

\* Whoever has asked, or has been served, has an op of the user's or the sweep's.
LEMMA OpKnown ==
  ASSUME TypeOK, StageInv, NEW r \in Clients, pc[r] \in {"asked", "served"}
  PROVE  op[r] \in Ops \cup Filing
  BY DEF TypeOK, StageInv

\* What carrying out an op changes on the server.
LEMMA ServedChanges ==
  ASSUME TypeOK, NEW o \in Ops \cup Filing, Accepts(o)
  PROVE  /\ Served(o) \in [Messages -> Mail]
         /\ \A m \in Messages :
               /\ srv[m].at = Gone => Served(o)[m].at = Gone
               /\ Served(o)[m].at # srv[m].at =>
                     \/ o.kind \in {"move", "delete", "discard"} /\ o.m = m
                     \/ o.kind \in {"empty", "rmdir"} /\ srv[m].at \in Tree(o.f)
               /\ Served(o)[m].read # srv[m].read => o.kind = "mark" /\ o.m = m
               /\ o.kind \in {"empty", "rmdir"} /\ srv[m].at \in Tree(o.f) => Served(o)[m].at = Gone
               /\ o.kind \in {"list", "search", "fetch"} => Served(o)[m] = srv[m]
         /\ o.kind = "move" => Served(o)[o.m].at = o.f
         /\ o.kind = "mark" => Served(o)[o.m].read = o.b
<1> DEFINE S(m) == Served(o)[m]
<1>1. /\ o.kind \in {"list", "empty", "search", "rmdir", "fetch", "delete", "discard", "move", "mark"}
      /\ o.kind \in {"list", "empty", "rmdir", "move"} => o.f \in Folders
      /\ o.kind \in {"fetch", "delete", "discard", "move", "mark"} => o.m \in Messages /\ srv[o.m].at # Gone
      /\ o.kind = "mark" => o.b \in BOOLEAN
  BY OpFields DEF Accepts
<1>2. srv \in [Messages -> [at : Folders \cup {Gone}, read : BOOLEAN]]
  BY DEF TypeOK, Mail
<1>3. \A m \in Messages :
        S(m) = CASE o.kind = "move" /\ m = o.m -> [srv[m] EXCEPT !.at = o.f]
                 [] o.kind = "mark" /\ m = o.m -> [srv[m] EXCEPT !.read = o.b]
                 [] o.kind \in {"delete", "discard"} /\ m = o.m -> [srv[m] EXCEPT !.at = Trash]
                 [] o.kind \in {"empty", "rmdir"} /\ srv[m].at \in Tree(o.f) -> [srv[m] EXCEPT !.at = Gone]
                 [] OTHER -> srv[m]
  BY DEF Served
<1>4. \A m \in Messages : o.kind = "move" /\ m = o.m => S(m) = [srv[m] EXCEPT !.at = o.f]
  BY <1>3
<1>5. \A m \in Messages : o.kind = "mark" /\ m = o.m => S(m) = [srv[m] EXCEPT !.read = o.b]
  BY <1>3
<1>6. \A m \in Messages : o.kind \in {"delete", "discard"} /\ m = o.m => S(m) = [srv[m] EXCEPT !.at = Trash]
  BY <1>3
<1>7. \A m \in Messages : o.kind \in {"empty", "rmdir"} /\ srv[m].at \in Tree(o.f) => S(m) = [srv[m] EXCEPT !.at = Gone]
  BY <1>3
<1>8. \A m \in Messages :
        /\ ~(o.kind \in {"move", "mark", "delete", "discard"} /\ m = o.m)
        /\ ~(o.kind \in {"empty", "rmdir"} /\ srv[m].at \in Tree(o.f))
        => S(m) = srv[m]
  BY <1>3
<1> HIDE DEF S
<1>9. \A m \in Messages : S(m) \in [at : Folders \cup {Gone}, read : BOOLEAN]
  <2> TAKE m \in Messages
  <2>1. CASE o.kind = "move" /\ m = o.m
    BY <1>1, <1>2, <1>4, <2>1
  <2>2. CASE o.kind = "mark" /\ m = o.m
    BY <1>1, <1>2, <1>5, <2>2
  <2>3. CASE o.kind \in {"delete", "discard"} /\ m = o.m
    BY <1>2, <1>6, <2>3, FolderFacts
  <2>4. CASE o.kind \in {"empty", "rmdir"} /\ srv[m].at \in Tree(o.f)
    BY <1>2, <1>7, <2>4
  <2>5. CASE /\ ~(o.kind \in {"move", "mark", "delete", "discard"} /\ m = o.m)
             /\ ~(o.kind \in {"empty", "rmdir"} /\ srv[m].at \in Tree(o.f))
    BY <1>2, <1>8, <2>5
  <2> QED
    BY <2>1, <2>2, <2>3, <2>4, <2>5
<1>10. Served(o) = [m \in Messages |-> S(m)]
  BY DEF S, Served
<1>11. Served(o) \in [Messages -> Mail]
  BY <1>9, <1>10 DEF Mail
<1>12. \A m \in Messages : Served(o)[m] = S(m)
  BY DEF S
<1>13. ASSUME NEW m \in Messages
       PROVE  /\ srv[m].at = Gone => S(m).at = Gone
              /\ S(m).at # srv[m].at =>
                    \/ o.kind \in {"move", "delete", "discard"} /\ o.m = m
                    \/ o.kind \in {"empty", "rmdir"} /\ srv[m].at \in Tree(o.f)
              /\ S(m).read # srv[m].read => o.kind = "mark" /\ o.m = m
              /\ o.kind \in {"empty", "rmdir"} /\ srv[m].at \in Tree(o.f) => S(m).at = Gone
              /\ o.kind \in {"list", "search", "fetch"} => S(m) = srv[m]
  BY <1>1, <1>2, <1>4, <1>5, <1>6, <1>7, <1>8
<1>14. /\ o.kind = "move" => S(o.m).at = o.f
       /\ o.kind = "mark" => S(o.m).read = o.b
  BY <1>1, <1>2, <1>4, <1>5
<1> QED
  BY <1>1, <1>11, <1>12, <1>13, <1>14

-----------------------------------------------------------------------------
(* What the steps have in common.                                          *)

LEMMA InitIInv == Init => IInv
<1> SUFFICES ASSUME Init PROVE IInv
  OBVIOUS
<1>1. TypeOK
  <2>1. srv \in [Messages -> Mail]
    BY FolderFacts DEF Init, Mail
  <2>2. row \in [Messages -> Rows \cup {NoRow}]
    <3>1. PICK known \in SUBSET Messages :
             row = [m \in Messages |-> IF m \in known THEN srv[m] ELSE NoRow]
      BY DEF Init
    <3>2. \A m \in Messages : srv[m] \in Rows
      BY FolderFacts DEF Init, Rows
    <3> QED
      BY <3>1, <3>2
  <2>3. /\ dirs \subseteq Folders /\ folders \subseteq Folders
        /\ rules \in [Messages -> SUBSET Types] /\ signedIn \in BOOLEAN
        /\ pc \in [Clients -> Stages] /\ op \in [Clients -> Ops \cup Filing \cup {None}]
    BY ConstantsAssumption DEF Init, Types, Stages
  <2>4. answer \in [Clients -> [Messages -> Rows \cup {NoRow}]]
    BY DEF Init, Empty
  <2>5. /\ {held, blocked, batch} \subseteq [Clients -> SUBSET Messages]
        /\ dirty \in [Clients -> SUBSET Messages] /\ late \in [Clients -> SUBSET Messages]
        /\ hurtAt \subseteq Messages /\ hurtRead \subseteq Messages
    BY DEF Init
  <2>6. /\ requests \in 0 .. MaxRequests /\ changes \in 0 .. MaxRules
        /\ trouble \in 0 .. MaxTrouble
    BY ConstantsAssumption DEF Init
  <2> QED
    BY <2>1, <2>2, <2>3, <2>4, <2>5, <2>6 DEF TypeOK
<1>2. StageInv /\ HeldInv
  BY FilingIsNoOp DEF Init, StageInv, HeldInv
<1>3. ViewInv /\ BulkInv
  BY DEF Init, ViewInv, BulkInv
<1>4. FolderAgrees /\ FlagAgrees
  BY DEF Init, FolderAgrees, FlagAgrees, HasRow, Empty
<1>5. SweepInv
  BY FilingIsNoOp DEF Init, SweepInv, Listed
<1> QED
  BY <1>1, <1>2, <1>3, <1>4, <1>5 DEF IInv

\* A client that is where it was has its messages where they were.
LEMMA SameClient ==
  ASSUME NEW q \in Clients, pc'[q] = pc[q], op'[q] = op[q], answer'[q] = answer[q]
  PROVE  /\ Kind(q)' = Kind(q) /\ Changed(q)' = Changed(q)
         /\ \A m \in Messages : /\ MovesNow(q, m)' <=> MovesNow(q, m)
                                /\ FlagsNow(q, m)' <=> FlagsNow(q, m)
                                /\ (m \in Answered(q))' <=> m \in Answered(q)
  BY DEF Kind, Changed, MovesNow, FlagsNow, Answered

\* A step between the server's answers: what is served stays served.
LEMMA QuietKeepsTables ==
  ASSUME IInv, UNCHANGED <<srv, row, hurtAt, hurtRead>>,
         \A q \in Clients :
            /\ pc'[q] = "served" <=> pc[q] = "served"
            /\ pc[q] = "served" => op'[q] = op[q] /\ answer'[q] = answer[q] /\ dirty'[q] = dirty[q]
  PROVE  ViewInv' /\ BulkInv' /\ FolderAgrees' /\ FlagAgrees'
<1> USE DEF IInv
<1>1. \A q \in Clients, m \in Messages : /\ MovesNow(q, m)' <=> MovesNow(q, m)
                                         /\ FlagsNow(q, m)' <=> FlagsNow(q, m)
  BY SameClient DEF MovesNow, FlagsNow
<1>2. \A q \in Clients : pc[q] = "served" =>
         /\ Kind(q)' = Kind(q) /\ Changed(q)' = Changed(q)
         /\ \A m \in Messages : (m \in Answered(q))' <=> m \in Answered(q)
  BY SameClient
<1>3. \A m \in Messages : HasRow(m)' <=> HasRow(m)
  BY DEF HasRow
<1>4. ViewInv'
  BY <1>2 DEF ViewInv
<1>5. BulkInv'
  <2> SUFFICES ASSUME NEW r \in Clients, NEW m \in Messages,
                      pc'[r] = "served", Kind(r)' \in {"empty", "rmdir"}, m \in Changed(r)'
               PROVE  /\ srv'[m].at = Gone
                      /\ answer'[r][m].at = op'[r].f /\ HasRow(m)' /\ row'[m].at # op'[r].f /\ m \notin hurtAt' =>
                            \E q \in Clients \ {r} : MovesNow(q, m)' /\ Kind(q)' \in {"move", "delete", "discard"}
    BY DEF BulkInv
  <2>1. /\ srv[m].at = Gone
        /\ answer[r][m].at = op[r].f /\ HasRow(m) /\ row[m].at # op[r].f /\ m \notin hurtAt =>
              \E q \in Clients \ {r} : MovesNow(q, m) /\ Kind(q) \in {"move", "delete", "discard"}
    BY <1>2 DEF BulkInv
  <2>2. \A q \in Clients : MovesNow(q, m) => Kind(q)' = Kind(q)
    BY <1>2 DEF MovesNow
  <2> QED
    BY <1>1, <1>3, <2>1, <2>2
<1>6. FolderAgrees' /\ FlagAgrees'
  BY <1>1, <1>3 DEF FolderAgrees, FlagAgrees, Moving, Flagging
<1> QED
  BY <1>4, <1>5, <1>6

\* The end of a request, or of one move of a sweep.
LEMMA EndsLeaves ==
  ASSUME TypeOK, StageInv, NEW r \in Clients, NEW lost \in SUBSET Messages, Ends(r, lost),
         UNCHANGED <<blocked, batch>>
  PROVE  /\ StageInv'
         /\ pc' \in [Clients -> Stages]
         /\ op' \in [Clients -> Ops \cup Filing \cup {None}]
         /\ answer' \in [Clients -> [Messages -> Rows \cup {NoRow}]]
         /\ held' \in [Clients -> SUBSET Messages]
         /\ dirty' \in [Clients -> SUBSET Messages] /\ late' \in [Clients -> SUBSET Messages]
         /\ pc'[r] # "served"
         /\ \A q \in Clients \ {r} :
               pc'[q] = pc[q] /\ op'[q] = op[q] /\ answer'[q] = answer[q] /\ dirty'[q] = dirty[q]
         /\ \A q \in Clients : held'[q] \subseteq held[q] \ lost
         /\ \A q \in Clients : Listed(q)' \ late'[q] \subseteq Listed(q) \ late[q]
         /\ \A q \in Clients : pc'[q] = "ruled" => pc[q] = "ruled" /\ late'[q] = late[q]
<1> USE DEF Ends
<1>1. /\ pc'[r] \in {"idle", "sweep"} /\ op'[r] = None /\ answer'[r] = Empty
      /\ pc'[r] = "idle" => batch'[r] = {}
      /\ late'[r] = late[r] \cap batch[r]
  BY DEF TypeOK
<1>2. \A q \in Clients \ {r} :
         /\ pc'[q] = pc[q] /\ op'[q] = op[q] /\ answer'[q] = answer[q]
         /\ dirty'[q] = dirty[q] /\ late'[q] = late[q]
  BY DEF TypeOK
<1>3. StageInv'
  BY <1>1, <1>2 DEF StageInv, Empty
<1>4. /\ pc' \in [Clients -> Stages]
      /\ op' \in [Clients -> Ops \cup Filing \cup {None}]
      /\ dirty' \in [Clients -> SUBSET Messages] /\ late' \in [Clients -> SUBSET Messages]
  BY DEF TypeOK
<1>5. answer' \in [Clients -> [Messages -> Rows \cup {NoRow}]]
  BY DEF TypeOK, Empty
<1>6. /\ held' \in [Clients -> SUBSET Messages]
      /\ \A q \in Clients : held'[q] \subseteq held[q] \ lost
  BY DEF TypeOK
<1>7. ASSUME NEW q \in Clients PROVE Listed(q)' \ late'[q] \subseteq Listed(q) \ late[q]
  <2>1. CASE q = r
    BY <1>1, <2>1, FilingIsNoOp DEF Listed
  <2>2. CASE q # r
    BY <1>2, <2>2 DEF Listed
  <2> QED
    BY <2>1, <2>2
<1> QED
  BY <1>1, <1>2, <1>3, <1>4, <1>5, <1>6, <1>7

-----------------------------------------------------------------------------
(* The steps before the server's answer.                                   *)

LEMMA AskKeepsIInv ==
  ASSUME IInv, NEW r \in Clients, NEW o \in Ops, Ask(r, o)
  PROVE  IInv'
<1> USE DEF IInv
<1>1. /\ pc[r] = "idle" /\ op[r] = None /\ batch[r] = {} /\ o # None /\ o \notin Filing
      /\ pc'[r] = "asked" /\ op'[r] = o
      /\ \A q \in Clients \ {r} : pc'[q] = pc[q] /\ op'[q] = op[q] /\ held'[q] = held[q]
      /\ UNCHANGED <<server, tables, answer, blocked, batch, changes, trouble, hist>>
  BY OpFields, FilingIsNoOp DEF Ask, TypeOK, StageInv
<1>2. TypeOK'
  <2>1. /\ pc' \in [Clients -> Stages]
        /\ op' \in [Clients -> Ops \cup Filing \cup {None}]
        /\ held' \in [Clients -> SUBSET Messages]
    BY DEF TypeOK, Ask
  <2>2. requests' \in 0 .. MaxRequests
    BY ConstantsAssumption DEF TypeOK, Ask
  <2> QED
    BY <1>1, <2>1, <2>2 DEF TypeOK, server, tables, hist
<1>3. StageInv'
  BY <1>1 DEF StageInv, Empty
<1>4. HeldInv'
  <2>1. \A m \in held'[r] : HasRow(m)
    BY DEF Ask, Needs, TypeOK
  <2> QED
    BY <1>1, <2>1 DEF HeldInv, HasRow, tables
<1>5. ViewInv' /\ BulkInv' /\ FolderAgrees' /\ FlagAgrees'
  <2>1. \A q \in Clients :
          /\ pc'[q] = "served" <=> pc[q] = "served"
          /\ pc[q] = "served" => op'[q] = op[q] /\ answer'[q] = answer[q] /\ dirty'[q] = dirty[q]
    BY <1>1 DEF hist
  <2> QED
    BY <1>1, <2>1, QuietKeepsTables DEF server, tables, hist
<1>6. SweepInv'
  <2>1. \A q \in Clients : Listed(q)' \subseteq Listed(q) /\ late'[q] = late[q]
    BY <1>1 DEF Listed, hist
  <2> QED
    BY <1>1, <2>1 DEF SweepInv, server, tables, TypeOK, Listed
<1> QED
  BY <1>2, <1>3, <1>4, <1>5, <1>6

LEMMA RefusedKeepsIInv ==
  ASSUME IInv, NEW r \in Clients, Refused(r)
  PROVE  IInv'
<1> USE DEF IInv
<1>1. /\ pc[r] = "asked" /\ Ends(r, {})
      /\ UNCHANGED <<server, tables, blocked, batch, bounds, hurtAt, hurtRead>>
  BY DEF Refused
<1>2. /\ StageInv'
      /\ pc' \in [Clients -> Stages]
      /\ op' \in [Clients -> Ops \cup Filing \cup {None}]
      /\ answer' \in [Clients -> [Messages -> Rows \cup {NoRow}]]
      /\ held' \in [Clients -> SUBSET Messages]
      /\ dirty' \in [Clients -> SUBSET Messages] /\ late' \in [Clients -> SUBSET Messages]
      /\ pc'[r] # "served"
      /\ \A q \in Clients \ {r} :
            pc'[q] = pc[q] /\ op'[q] = op[q] /\ answer'[q] = answer[q] /\ dirty'[q] = dirty[q]
      /\ \A q \in Clients : held'[q] \subseteq held[q]
      /\ \A q \in Clients : Listed(q)' \ late'[q] \subseteq Listed(q) \ late[q]
      /\ \A q \in Clients : pc'[q] = "ruled" => pc[q] = "ruled" /\ late'[q] = late[q]
  BY <1>1, EndsLeaves
<1>3. TypeOK'
  BY <1>1, <1>2 DEF TypeOK, server, tables, bounds
<1>4. HeldInv'
  BY <1>1, <1>2 DEF HeldInv, HasRow, tables
<1>5. ViewInv' /\ BulkInv' /\ FolderAgrees' /\ FlagAgrees'
  BY <1>1, <1>2, QuietKeepsTables DEF server, tables
<1>6. SweepInv'
  BY <1>1, <1>2 DEF SweepInv, server, tables
<1> QED
  BY <1>2, <1>3, <1>4, <1>5, <1>6

LEMMA ChangeRuleKeepsIInv ==
  ASSUME IInv, NEW n \in Messages, NEW type \in Types, ChangeRule(n, type)
  PROVE  IInv'
<1> USE DEF IInv
<1>1. /\ changes' \in 0 .. MaxRules /\ rules' \in [Messages -> SUBSET Types]
      /\ \A m \in Messages \ {n} : rules'[m] = rules[m]
      /\ late' = [q \in Clients |->
                    late[q] \cup ({n} \cap (IF pc[q] = "ruled" THEN blocked[q] ELSE Listed(q)))]
      /\ UNCHANGED <<server, row, folders, signedIn, clients, requests, trouble, dirty, hurtAt, hurtRead>>
  BY ConstantsAssumption DEF ChangeRule, TypeOK
<1>2. TypeOK'
  BY <1>1 DEF TypeOK, server, clients
<1>3. StageInv' /\ HeldInv'
  BY <1>1 DEF StageInv, HeldInv, HasRow, clients
<1>4. ViewInv' /\ BulkInv' /\ FolderAgrees' /\ FlagAgrees'
  BY <1>1, QuietKeepsTables DEF server, clients
<1>5. SweepInv'
  <2>1. \A q \in Clients : Listed(q)' = Listed(q)
    BY <1>1 DEF Listed, clients
  <2>2. \A q \in Clients : Listed(q) \subseteq Messages
    BY DEF Listed, TypeOK
  <2>3. \A q \in Clients : pc[q] = "ruled" => Listed(q) = {}
    BY FilingIsNoOp DEF Listed, StageInv
  <2> QED
    BY <1>1, <2>1, <2>2, <2>3 DEF SweepInv, server, clients, TypeOK
<1> QED
  BY <1>2, <1>3, <1>4, <1>5

LEMMA SweepReadsKeepsIInv ==
  ASSUME IInv, NEW r \in Clients, SweepReads(r)
  PROVE  IInv'
<1> DEFINE b == {m \in Messages : Match(rules[m]) = "BLOCK"}
<1> USE DEF IInv
<1>1. /\ pc[r] = "idle" /\ op[r] = None /\ batch[r] = {} /\ pc'[r] = "ruled" /\ blocked'[r] = b
      /\ \A q \in Clients \ {r} : pc'[q] = pc[q] /\ blocked'[q] = blocked[q]
      /\ UNCHANGED <<server, tables, op, answer, held, batch, bounds, hist>>
  BY DEF SweepReads, TypeOK, StageInv
<1>2. TypeOK'
  <2>1. pc' \in [Clients -> Stages] /\ blocked' \in [Clients -> SUBSET Messages]
    BY DEF TypeOK, SweepReads
  <2> QED
    BY <1>1, <2>1 DEF TypeOK, server, tables, bounds, hist
<1>3. StageInv' /\ HeldInv'
  BY <1>1 DEF StageInv, HeldInv, HasRow, tables
<1>4. ViewInv' /\ BulkInv' /\ FolderAgrees' /\ FlagAgrees'
  <2>1. \A q \in Clients :
          /\ pc'[q] = "served" <=> pc[q] = "served"
          /\ pc[q] = "served" => op'[q] = op[q] /\ answer'[q] = answer[q] /\ dirty'[q] = dirty[q]
    BY <1>1 DEF hist
  <2> QED
    BY <1>1, <2>1, QuietKeepsTables DEF server, tables, hist
<1>5. SweepInv'
  <2>1. \A m \in b : rules[m] = {"BLOCK"}
    BY DEF Match, TypeOK, Types
  <2>2. \A q \in Clients : Listed(q)' = Listed(q)
    BY <1>1 DEF Listed
  <2> QED
    BY <1>1, <2>1, <2>2 DEF SweepInv, server, tables, hist
<1> QED
  BY <1>2, <1>3, <1>4, <1>5

\* The candidates are right when their rows are.
LEMMA SweepListsKeepsIInv ==
  ASSUME IInv, NEW r \in Clients, SweepLists(r)
  PROVE  IInv'
<1> DEFINE found == Candidates(r)
<1> USE DEF IInv
<1>1. /\ pc[r] = "ruled" /\ op[r] = None /\ found \subseteq blocked[r] /\ found \subseteq Messages
      /\ \A m \in found : HasRow(m) /\ row[m].at = Inbox
  BY DEF SweepLists, TypeOK, StageInv, Candidates, InWindow
<1>2. /\ pc'[r] = IF found = {} THEN "idle" ELSE "sweep"
      /\ batch'[r] = found /\ held'[r] = found /\ blocked'[r] = {}
      /\ late'[r] = {m \in found : m \in late[r] \/ Moving(m) \/ m \in hurtAt}
      /\ \A q \in Clients \ {r} : /\ pc'[q] = pc[q] /\ batch'[q] = batch[q] /\ blocked'[q] = blocked[q]
                                  /\ held'[q] = held[q] /\ late'[q] = late[q]
      /\ UNCHANGED <<server, tables, op, answer, bounds, dirty, hurtAt, hurtRead>>
  BY DEF SweepLists, TypeOK
<1>3. TypeOK'
  <2>1. /\ pc' \in [Clients -> Stages] /\ batch' \in [Clients -> SUBSET Messages]
        /\ blocked' \in [Clients -> SUBSET Messages]
        /\ held' \in [Clients -> SUBSET Messages] /\ late' \in [Clients -> SUBSET Messages]
    BY <1>1 DEF TypeOK, SweepLists
  <2> QED
    BY <1>2, <2>1 DEF TypeOK, server, tables, bounds
<1> HIDE DEF found
<1>4. StageInv'
  BY <1>1, <1>2 DEF StageInv
<1>5. HeldInv'
  BY <1>1, <1>2 DEF HeldInv, HasRow, tables
<1>6. ViewInv' /\ BulkInv' /\ FolderAgrees' /\ FlagAgrees'
  <2>1. \A q \in Clients :
          /\ pc'[q] = "served" <=> pc[q] = "served"
          /\ pc[q] = "served" => op'[q] = op[q] /\ answer'[q] = answer[q] /\ dirty'[q] = dirty[q]
    BY <1>1, <1>2
  <2> QED
    BY <1>2, <2>1, QuietKeepsTables DEF server, tables
<1>7. SweepInv'
  <2>1. ASSUME NEW m \in found, m \notin late'[r]
        PROVE  srv[m].at = Inbox /\ rules[m] = {"BLOCK"}
    BY <1>1, <1>2, <2>1 DEF FolderAgrees, SweepInv
  <2>2. Listed(r)' = found
    BY <1>1, <1>2, FilingIsNoOp DEF Listed
  <2>3. \A q \in Clients \ {r} : Listed(q)' = Listed(q)
    BY <1>2 DEF Listed
  <2> QED
    BY <1>2, <2>1, <2>2, <2>3 DEF SweepInv, server, tables
<1> QED
  BY <1>3, <1>4, <1>5, <1>6, <1>7

LEMMA SweepTakesKeepsIInv ==
  ASSUME IInv, NEW r \in Clients, NEW n \in Messages, SweepTakes(r, n)
  PROVE  IInv'
<1> DEFINE o == [kind |-> "move", m |-> n, f |-> Junk, sweep |-> TRUE]
<1> USE DEF IInv
<1>1. /\ pc[r] = "sweep" /\ op[r] = None /\ n \in batch[r] /\ o \in Filing /\ o # None
      /\ pc'[r] = "asked" /\ op'[r] = o /\ batch'[r] = batch[r] \ {n}
      /\ \A q \in Clients \ {r} : pc'[q] = pc[q] /\ op'[q] = op[q] /\ batch'[q] = batch[q]
      /\ UNCHANGED <<server, tables, answer, held, blocked, bounds, hist>>
  BY FilingIsNoOp DEF SweepTakes, TypeOK, StageInv, None
<1>2. TypeOK'
  <2>1. /\ pc' \in [Clients -> Stages]
        /\ batch' \in [Clients -> SUBSET Messages]
    BY DEF TypeOK, SweepTakes
  <2>2. op' \in [Clients -> Ops \cup Filing \cup {None}]
    BY <1>1 DEF TypeOK, SweepTakes
  <2> QED
    BY <1>1, <2>1, <2>2 DEF TypeOK, server, tables, bounds, hist
<1>3. StageInv'
  BY <1>1 DEF StageInv, Empty
<1>4. HeldInv'
  BY <1>1 DEF HeldInv, HasRow, tables
<1>5. ViewInv' /\ BulkInv' /\ FolderAgrees' /\ FlagAgrees'
  <2>1. \A q \in Clients :
          /\ pc'[q] = "served" <=> pc[q] = "served"
          /\ pc[q] = "served" => op'[q] = op[q] /\ answer'[q] = answer[q] /\ dirty'[q] = dirty[q]
    BY <1>1 DEF hist
  <2> QED
    BY <1>1, <2>1, QuietKeepsTables DEF server, tables, hist
<1>6. SweepInv'
  <2>1. Listed(r)' \subseteq Listed(r)
    BY <1>1 DEF Listed
  <2>2. \A q \in Clients \ {r} : Listed(q)' = Listed(q)
    BY <1>1 DEF Listed
  <2> QED
    BY <1>1, <2>1, <2>2 DEF SweepInv, server, tables, hist
<1> QED
  BY <1>2, <1>3, <1>4, <1>5, <1>6

-----------------------------------------------------------------------------
(* The steps that change the server.                                       *)

LEMMA ServerBecomesMarks ==
  ASSUME TypeOK, NEW new \in [Messages -> Mail], ServerBecomes(new)
  PROVE  /\ srv' = new
         /\ dirty' \in [Clients -> SUBSET Messages] /\ late' \in [Clients -> SUBSET Messages]
         /\ \A q \in Clients : pc[q] = "served" =>
               \A m \in Messages \ dirty'[q] : m \notin dirty[q] /\ srv'[m] = srv[m]
         /\ \A q \in Clients : \A m \in Listed(q) \ late'[q] :
               m \in Messages /\ m \notin late[q] /\ srv'[m].at = srv[m].at
         /\ \A q \in Clients : late[q] \subseteq late'[q]
<1>1. \A q \in Clients : Listed(q) \subseteq Messages
  BY DEF Listed, TypeOK
<1>2. /\ srv' = new
      /\ dirty' = [q \in Clients |-> IF pc[q] = "served"
                                     THEN dirty[q] \cup {m \in Messages : new[m] # srv[m]} ELSE {}]
      /\ late' = [q \in Clients |-> late[q] \cup ({m \in Messages : new[m].at # srv[m].at} \cap Listed(q))]
  BY DEF ServerBecomes
<1>3. dirty' \in [Clients -> SUBSET Messages] /\ late' \in [Clients -> SUBSET Messages]
  BY <1>2 DEF TypeOK
<1>4. \A q \in Clients : pc[q] = "served" =>
         \A m \in Messages \ dirty'[q] : m \notin dirty[q] /\ srv'[m] = srv[m]
  BY <1>2
<1>5. \A q \in Clients : \A m \in Listed(q) \ late'[q] :
         m \in Messages /\ m \notin late[q] /\ srv'[m].at = srv[m].at
  BY <1>1, <1>2
<1> QED
  BY <1>2, <1>3, <1>4, <1>5

LEMMA ElsewhereKeepsIInv ==
  ASSUME IInv, NEW n \in Messages, NEW new \in Mail, Elsewhere(n, new)
  PROVE  IInv'
<1> DEFINE s == [srv EXCEPT ![n] = new]
<1> USE DEF IInv
<1>1. /\ s \in [Messages -> Mail] /\ ServerBecomes(s)
      /\ srv[n].at # Gone /\ s[n] = new /\ \A m \in Messages \ {n} : s[m] = srv[m]
      /\ trouble' \in 0 .. MaxTrouble
      /\ UNCHANGED <<dirs, tables, clients, requests, changes>>
  BY ConstantsAssumption DEF Elsewhere, TypeOK
<1> HIDE DEF s
<1>2. /\ srv' = s
      /\ dirty' \in [Clients -> SUBSET Messages] /\ late' \in [Clients -> SUBSET Messages]
      /\ \A q \in Clients : pc[q] = "served" =>
            \A m \in Messages \ dirty'[q] : m \notin dirty[q] /\ srv'[m] = srv[m]
      /\ \A q \in Clients : \A m \in Listed(q) \ late'[q] :
            m \in Messages /\ m \notin late[q] /\ srv'[m].at = srv[m].at
      /\ \A q \in Clients : late[q] \subseteq late'[q]
  BY <1>1, ServerBecomesMarks
<1>3. /\ hurtAt \subseteq hurtAt' /\ hurtAt' \subseteq Messages
      /\ hurtRead \subseteq hurtRead' /\ hurtRead' \subseteq Messages
      /\ HasRow(n) /\ new.at # srv[n].at => n \in hurtAt'
      /\ HasRow(n) /\ new.read # srv[n].read => n \in hurtRead'
  BY DEF Elsewhere, TypeOK
<1>4. TypeOK'
  BY <1>1, <1>2, <1>3 DEF TypeOK, tables, clients
<1>5. StageInv' /\ HeldInv'
  BY <1>1 DEF StageInv, HeldInv, HasRow, tables, clients
<1>6. \A q \in Clients : /\ pc'[q] = pc[q] /\ op'[q] = op[q] /\ Kind(q)' = Kind(q)
                         /\ answer'[q] = answer[q] /\ Changed(q)' = Changed(q)
                         /\ \A m \in Messages : /\ MovesNow(q, m)' <=> MovesNow(q, m)
                                                /\ FlagsNow(q, m)' <=> FlagsNow(q, m)
                                                /\ (m \in Answered(q))' <=> m \in Answered(q)
  BY <1>1, SameClient DEF clients
<1>7. \A m \in Messages : (HasRow(m)' <=> HasRow(m)) /\ row' = row
  BY <1>1 DEF HasRow, tables
<1>8. ViewInv'
  BY <1>2, <1>6 DEF ViewInv
<1>9. BulkInv'
  <2> SUFFICES ASSUME NEW r \in Clients, NEW m \in Messages,
                      pc[r] = "served", Kind(r) \in {"empty", "rmdir"}, m \in Changed(r)
               PROVE  /\ srv'[m].at = Gone
                      /\ answer[r][m].at = op[r].f /\ HasRow(m) /\ row[m].at # op[r].f /\ m \notin hurtAt' =>
                            \E q \in Clients \ {r} : MovesNow(q, m) /\ Kind(q) \in {"move", "delete", "discard"}
    BY <1>6, <1>7 DEF BulkInv
  <2>1. /\ srv[m].at = Gone
        /\ answer[r][m].at = op[r].f /\ HasRow(m) /\ row[m].at # op[r].f /\ m \notin hurtAt =>
              \E q \in Clients \ {r} : MovesNow(q, m) /\ Kind(q) \in {"move", "delete", "discard"}
    BY DEF BulkInv
  <2>2. m # n
    BY <1>1, <2>1
  <2> QED
    BY <1>1, <1>2, <1>3, <2>1, <2>2
<1>10. FolderAgrees'
  BY <1>1, <1>2, <1>3, <1>6, <1>7 DEF FolderAgrees, Moving
<1>11. FlagAgrees'
  BY <1>1, <1>2, <1>3, <1>6, <1>7 DEF FlagAgrees, Flagging
<1>12. SweepInv'
  <2>1. \A q \in Clients : Listed(q)' = Listed(q)
    BY <1>1 DEF Listed, clients
  <2> QED
    BY <1>1, <1>2, <2>1 DEF SweepInv, tables, clients
<1> QED
  BY <1>4, <1>5, <1>8, <1>9, <1>10, <1>11, <1>12

LEMMA ServeKeepsIInv ==
  ASSUME IInv, NEW r \in Clients, Serve(r)
  PROVE  IInv'
<1> DEFINE o == op[r]
           s == Served(o)
<1> USE DEF IInv
<1>1. /\ pc[r] = "asked" /\ Accepts(o) /\ o \in Ops \cup Filing
      /\ pc'[r] = "served" /\ \A q \in Clients \ {r} : pc'[q] = pc[q]
      /\ answer'[r] = [m \in Messages |-> IF m \in About(o) THEN srv[m] ELSE NoRow]
      /\ \A q \in Clients \ {r} : answer'[q] = answer[q]
      /\ ServerBecomes(s)
      /\ UNCHANGED <<tables, op, held, blocked, batch, bounds, hurtAt, hurtRead>>
  BY OpKnown DEF Serve, TypeOK
<1>2. /\ s \in [Messages -> Mail]
      /\ \A m \in Messages :
            /\ srv[m].at = Gone => s[m].at = Gone
            /\ s[m].at # srv[m].at =>
                  \/ o.kind \in {"move", "delete", "discard"} /\ o.m = m
                  \/ o.kind \in {"empty", "rmdir"} /\ srv[m].at \in Tree(o.f)
            /\ s[m].read # srv[m].read => o.kind = "mark" /\ o.m = m
            /\ o.kind \in {"empty", "rmdir"} /\ srv[m].at \in Tree(o.f) => s[m].at = Gone
            /\ o.kind \in {"list", "search", "fetch"} => s[m] = srv[m]
      /\ o.kind = "move" => s[o.m].at = o.f
      /\ o.kind = "mark" => s[o.m].read = o.b
  BY <1>1, ServedChanges
<1> HIDE DEF s
<1>3. /\ srv' = s
      /\ dirty' \in [Clients -> SUBSET Messages] /\ late' \in [Clients -> SUBSET Messages]
      /\ \A q \in Clients : pc[q] = "served" =>
            \A m \in Messages \ dirty'[q] : m \notin dirty[q] /\ srv'[m] = srv[m]
      /\ \A q \in Clients : \A m \in Listed(q) \ late'[q] :
            m \in Messages /\ m \notin late[q] /\ srv'[m].at = srv[m].at
      /\ \A q \in Clients : late[q] \subseteq late'[q]
  BY <1>1, <1>2, ServerBecomesMarks
<1>4. /\ o.kind \in {"list", "empty", "search", "rmdir", "fetch", "delete", "discard", "move", "mark"}
      /\ o.kind \in {"list", "empty", "rmdir", "move"} => o.f \in Folders
      /\ o.kind \in {"fetch", "delete", "discard", "move", "mark"} => o.m \in Messages /\ srv[o.m].at # Gone
  BY <1>1, OpFields DEF Accepts
\* Who is about a message is told where it is, which is some folder.
<1>5. \A m \in Messages :
         /\ m \in About(o) => srv[m].at \in Folders
         /\ o.kind \in {"empty", "rmdir"} => (m \in About(o) <=> srv[m].at \in Tree(o.f))
  <2>1. \A m \in Messages : srv[m].at \in Folders \cup {Gone}
    BY DEF TypeOK, Mail
  <2> QED
    <3>1. o.kind \in {"empty", "rmdir"} => Tree(o.f) \subseteq Folders
      BY <1>4, ConstantsAssumption DEF Tree, Folders
    <3> QED
      BY <1>4, <2>1, <3>1, FolderFacts DEF About
<1>6. \A m \in Messages : /\ m \in About(o) => srv[m] \in Rows /\ srv[m] # NoRow
                          /\ answer'[r][m] = IF m \in About(o) THEN srv[m] ELSE NoRow
  BY <1>1, <1>5, ConstantsAssumption DEF TypeOK, Mail, Rows
<1>7. TypeOK'
  <2>1. pc' \in [Clients -> Stages] /\ dirs' \subseteq Folders
    BY <1>1 DEF TypeOK, Serve
  <2>2. answer' \in [Clients -> [Messages -> Rows \cup {NoRow}]]
    <3>1. answer'[r] \in [Messages -> Rows \cup {NoRow}]
      BY <1>1, <1>6
    <3> QED
      BY <3>1 DEF TypeOK, Serve
  <2> QED
    BY <1>1, <1>2, <1>3, <2>1, <2>2 DEF TypeOK, tables, bounds
<1>8. StageInv' /\ HeldInv'
  BY <1>1 DEF StageInv, HeldInv, HasRow, tables, Empty
<1>9. \A q \in Clients \ {r} :
         /\ Kind(q)' = Kind(q) /\ Changed(q)' = Changed(q) /\ op'[q] = op[q]
         /\ \A m \in Messages : /\ MovesNow(q, m)' <=> MovesNow(q, m)
                                /\ FlagsNow(q, m)' <=> FlagsNow(q, m)
                                /\ (m \in Answered(q))' <=> m \in Answered(q)
  BY <1>1, SameClient
<1>10. Kind(r)' = o.kind /\ op'[r] = o /\ row' = row /\ \A m \in Messages : HasRow(m)' <=> HasRow(m)
  BY <1>1 DEF Kind, HasRow, tables
<1>11. ViewInv'
  <2>1. ASSUME NEW m \in Messages \ dirty'[r]
        PROVE  /\ (m \in Answered(r))' => answer'[r][m] = srv'[m]
               /\ o.kind = "move" /\ o.m = m => srv'[m].at = o.f
               /\ o.kind = "mark" /\ o.m = m => srv'[m].read = o.b
    BY <1>2, <1>3, <1>6, <1>10 DEF Answered
  <2>2. ASSUME NEW q \in Clients \ {r}, NEW m \in Messages \ dirty'[q], pc'[q] = "served"
        PROVE  /\ (m \in Answered(q))' => answer'[q][m] = srv'[m]
               /\ Kind(q) = "move" /\ op[q].m = m => srv'[m].at = op[q].f
               /\ Kind(q) = "mark" /\ op[q].m = m => srv'[m].read = op[q].b
    BY <1>1, <1>3, <1>9, <2>2 DEF ViewInv
  <2> QED
    BY <1>9, <1>10, <2>1, <2>2 DEF ViewInv
<1>12. BulkInv'
  <2>1. ASSUME NEW m \in Messages, o.kind \in {"empty", "rmdir"}, srv[m].at \in Tree(o.f)
        PROVE  /\ srv'[m].at = Gone
               /\ srv[m].at = o.f /\ HasRow(m) /\ row[m].at # o.f /\ m \notin hurtAt =>
                     \E q \in Clients \ {r} : MovesNow(q, m) /\ Kind(q) \in {"move", "delete", "discard"}
    <3>1. srv'[m].at = Gone
      BY <1>2, <1>3, <2>1
    <3>2. ASSUME srv[m].at = o.f, HasRow(m), row[m].at # o.f, m \notin hurtAt
          PROVE  \E q \in Clients \ {r} : MovesNow(q, m) /\ Kind(q) \in {"move", "delete", "discard"}
      <4>1. PICK q \in Clients : MovesNow(q, m)
        BY <2>1, <3>2 DEF FolderAgrees, Moving
      <4>2. q # r /\ pc[q] = "served" /\ m \in Changed(q) /\ Kind(q) # "mark"
        BY <1>1, <4>1 DEF MovesNow
      <4>3. Kind(q) \notin {"empty", "rmdir"}
        BY <1>4, <2>1, <3>2, <4>2, FolderFacts DEF BulkInv
      <4>4. Kind(q) \in {"move", "delete", "discard"}
        BY <4>2, <4>3 DEF Changed
      <4> QED
        BY <4>1, <4>2, <4>4
    <3> QED
      BY <3>1, <3>2
  <2>2. ASSUME NEW m \in Messages, o.kind \in {"empty", "rmdir"}, (m \in Changed(r))'
        PROVE  srv[m].at \in Tree(o.f) /\ answer'[r][m] = srv[m]
    BY <1>5, <1>6, <1>10, <2>2 DEF Changed
  <2>3. ASSUME NEW q \in Clients \ {r}, NEW m \in Messages,
               pc[q] = "served", Kind(q) \in {"empty", "rmdir"}, m \in Changed(q)
        PROVE  /\ srv'[m].at = Gone
               /\ answer[q][m].at = op[q].f /\ HasRow(m) /\ row[m].at # op[q].f /\ m \notin hurtAt =>
                     \E p \in Clients \ {r, q} : MovesNow(p, m) /\ Kind(p) \in {"move", "delete", "discard"}
    BY <1>1, <1>2, <1>3, <2>3 DEF BulkInv, MovesNow
  <2> SUFFICES ASSUME NEW q \in Clients, NEW m \in Messages,
                      pc'[q] = "served", Kind(q)' \in {"empty", "rmdir"}, (m \in Changed(q))'
               PROVE  /\ srv'[m].at = Gone
                      /\ answer'[q][m].at = op[q].f /\ HasRow(m) /\ row[m].at # op[q].f /\ m \notin hurtAt =>
                            \E p \in Clients \ {q} : MovesNow(p, m)' /\ Kind(p)' \in {"move", "delete", "discard"}
    BY <1>1, <1>10 DEF BulkInv
  <2>4. CASE q = r
    BY <1>9, <1>10, <2>1, <2>2, <2>4
  <2>5. CASE q # r
    BY <1>1, <1>9, <2>3, <2>5
  <2> QED
    BY <2>4, <2>5
<1>13. FolderAgrees'
  <2>1. ASSUME NEW m \in Messages, s[m].at # srv[m].at PROVE MovesNow(r, m)'
    <3>1. \/ o.kind \in {"move", "delete", "discard"} /\ o.m = m
          \/ o.kind \in {"empty", "rmdir"} /\ answer'[r][m] # NoRow
      BY <1>2, <1>5, <1>6, <2>1
    <3> QED
      BY <1>1, <1>10, <3>1 DEF MovesNow, Changed
  <2>2. ASSUME NEW m \in Messages, Moving(m) PROVE Moving(m)'
    BY <1>1, <1>9, <2>2 DEF Moving, MovesNow
  <2> QED
    BY <1>1, <1>3, <1>10, <2>1, <2>2 DEF FolderAgrees, Moving
<1>14. FlagAgrees'
  <2>1. ASSUME NEW m \in Messages, s[m].read # srv[m].read PROVE FlagsNow(r, m)'
    BY <1>1, <1>2, <1>10, <2>1 DEF FlagsNow, Changed
  <2>2. ASSUME NEW m \in Messages, Flagging(m) PROVE Flagging(m)'
    BY <1>1, <1>9, <2>2 DEF Flagging, FlagsNow
  <2> QED
    BY <1>1, <1>3, <1>10, <2>1, <2>2 DEF FlagAgrees, Flagging
<1>15. SweepInv'
  <2>1. \A q \in Clients : Listed(q)' = Listed(q)
    BY <1>1 DEF Listed
  <2> QED
    BY <1>1, <1>3, <2>1 DEF SweepInv, tables
<1> QED
  BY <1>7, <1>8, <1>11, <1>12, <1>13, <1>14, <1>15

-----------------------------------------------------------------------------
(* The steps that end a request that was served.                           *)

LEMMA MissesKeepsIInv ==
  ASSUME IInv, NEW r \in Clients, pc[r] = "served", Misses(r), trouble' \in 0 .. MaxTrouble
  PROVE  IInv'
<1> USE DEF IInv
<1>1. Ends(r, {}) /\ UNCHANGED <<server, tables, blocked, batch, requests, changes>>
  BY DEF Misses
<1>2. /\ StageInv'
      /\ pc' \in [Clients -> Stages]
      /\ op' \in [Clients -> Ops \cup Filing \cup {None}]
      /\ answer' \in [Clients -> [Messages -> Rows \cup {NoRow}]]
      /\ held' \in [Clients -> SUBSET Messages]
      /\ dirty' \in [Clients -> SUBSET Messages] /\ late' \in [Clients -> SUBSET Messages]
      /\ pc'[r] # "served"
      /\ \A q \in Clients \ {r} :
            pc'[q] = pc[q] /\ op'[q] = op[q] /\ answer'[q] = answer[q] /\ dirty'[q] = dirty[q]
      /\ \A q \in Clients : held'[q] \subseteq held[q]
      /\ \A q \in Clients : Listed(q)' \ late'[q] \subseteq Listed(q) \ late[q]
      /\ \A q \in Clients : pc'[q] = "ruled" => pc[q] = "ruled" /\ late'[q] = late[q]
  BY <1>1, EndsLeaves
<1>3. /\ hurtAt \subseteq hurtAt' /\ hurtAt' \subseteq Messages
      /\ hurtRead \subseteq hurtRead' /\ hurtRead' \subseteq Messages
      /\ \A m \in Messages : /\ MovesNow(r, m) /\ HasRow(m) => m \in hurtAt'
                             /\ FlagsNow(r, m) /\ HasRow(m) => m \in hurtRead'
  <2>1. Changed(r) \subseteq Messages
    BY OpKnown, OpFields DEF Changed, Kind
  <2>2. /\ hurtAt' = IF Kind(r) = "mark" THEN hurtAt ELSE hurtAt \cup {m \in Changed(r) : HasRow(m)}
        /\ hurtRead' = IF Kind(r) = "mark" THEN hurtRead \cup {m \in Changed(r) : HasRow(m)} ELSE hurtRead
    BY DEF Misses
  <2> QED
    BY <2>1, <2>2 DEF TypeOK, MovesNow, FlagsNow
<1>4. /\ srv' = srv /\ row' = row /\ \A m \in Messages : HasRow(m)' <=> HasRow(m)
  BY <1>1 DEF server, tables, HasRow
<1>5. \A q \in Clients \ {r} :
         /\ Kind(q)' = Kind(q) /\ Changed(q)' = Changed(q) /\ op'[q] = op[q]
         /\ \A m \in Messages : /\ MovesNow(q, m)' <=> MovesNow(q, m)
                                /\ FlagsNow(q, m)' <=> FlagsNow(q, m)
                                /\ (m \in Answered(q))' <=> m \in Answered(q)
  BY <1>2, SameClient
<1>6. TypeOK'
  BY <1>1, <1>2, <1>3 DEF TypeOK, server, tables
<1>7. HeldInv'
  BY <1>2, <1>4 DEF HeldInv, TypeOK
<1>8. ViewInv'
  BY <1>2, <1>4, <1>5 DEF ViewInv
<1>9. BulkInv'
  <2> SUFFICES ASSUME NEW q \in Clients, NEW m \in Messages,
                      pc'[q] = "served", Kind(q)' \in {"empty", "rmdir"}, (m \in Changed(q))'
               PROVE  /\ srv[m].at = Gone
                      /\ answer'[q][m].at = op'[q].f /\ HasRow(m) /\ row[m].at # op'[q].f /\ m \notin hurtAt' =>
                            \E p \in Clients \ {q} : MovesNow(p, m)' /\ Kind(p)' \in {"move", "delete", "discard"}
    BY <1>4 DEF BulkInv
  <2>1. q # r /\ pc[q] = "served" /\ op'[q] = op[q] /\ answer'[q] = answer[q] /\ Kind(q) \in {"empty", "rmdir"} /\ m \in Changed(q)
    BY <1>2, <1>5
  <2>2. /\ srv[m].at = Gone
        /\ answer[q][m].at = op[q].f /\ HasRow(m) /\ row[m].at # op[q].f /\ m \notin hurtAt =>
              \E p \in Clients \ {q} : MovesNow(p, m) /\ Kind(p) \in {"move", "delete", "discard"}
    BY <2>1 DEF BulkInv
  <2>3. ASSUME HasRow(m), m \notin hurtAt', NEW p \in Clients, MovesNow(p, m) PROVE p # r
    BY <1>3, <2>3
  <2> QED
    BY <1>3, <1>5, <2>1, <2>2, <2>3
<1>10. FolderAgrees' /\ FlagAgrees'
  <2>1. ASSUME NEW m \in Messages, HasRow(m), Moving(m), m \notin hurtAt' PROVE Moving(m)'
    BY <1>3, <1>5, <2>1 DEF Moving
  <2>2. ASSUME NEW m \in Messages, HasRow(m), Flagging(m), m \notin hurtRead' PROVE Flagging(m)'
    BY <1>3, <1>5, <2>2 DEF Flagging
  <2> QED
    BY <1>3, <1>4, <2>1, <2>2 DEF FolderAgrees, FlagAgrees
<1>11. SweepInv'
  BY <1>1, <1>2, <1>4 DEF SweepInv, tables
<1> QED
  BY <1>2, <1>6, <1>7, <1>8, <1>9, <1>10, <1>11

\* What a write does to the row of each message.
LEMMA WrittenRows ==
  ASSUME IInv, NEW r \in Clients, pc[r] = "served", ~Throws(r)
  PROVE  /\ Written(r) \in [Messages -> Rows \cup {NoRow}] /\ Removed(r) \subseteq Messages
         /\ \A m \in Messages :
               /\ m \in Removed(r) => Written(r)[m] = NoRow
               /\ m \notin Removed(r) /\ HasRow(m) => Written(r)[m] # NoRow
               /\ m \notin WroteAt(r) \cup Removed(r) =>
                     (Written(r)[m] # NoRow => HasRow(m) /\ Written(r)[m].at = row[m].at)
               /\ m \notin WroteRead(r) \cup Removed(r) =>
                     (Written(r)[m] # NoRow => HasRow(m) /\ Written(r)[m].read = row[m].read)
               /\ m \in WroteAt(r) \ dirty[r] => Written(r)[m].at = srv[m].at
               /\ m \in WroteRead(r) \ dirty[r] => Written(r)[m].read = srv[m].read
<1> DEFINE o == op[r]
           W(m) == Written(r)[m]
<1> USE DEF IInv
<1>1. /\ o \in Ops \cup Filing /\ o # None
      /\ o.kind \in {"list", "empty", "search", "rmdir", "fetch", "delete", "discard", "move", "mark"}
      /\ o.kind \in {"list", "empty", "rmdir", "move"} => o.f \in Folders
      /\ o.kind \in {"fetch", "delete", "discard", "move", "mark"} => o.m \in Messages
      /\ o.kind = "mark" => o.b \in BOOLEAN
      /\ o.kind \in {"move", "mark"} => HasRow(o.m)
  BY OpKnown, OpFields DEF Throws, Kind, HeldInv
<1>2. row \in [Messages -> [at : Folders, read : BOOLEAN] \cup {NoRow}]
  BY DEF TypeOK, Rows
<1>3. /\ NoRow \notin [at : Folders, read : BOOLEAN]
      /\ answer[r] \in [Messages -> [at : Folders, read : BOOLEAN] \cup {NoRow}]
  BY ConstantsAssumption DEF TypeOK, Rows
<1>4. CASE o.kind = "move"
  <2>1. /\ Written(r) = [row EXCEPT ![o.m].at = o.f] /\ Removed(r) = {}
        /\ WroteAt(r) = {o.m} /\ WroteRead(r) = {}
    BY <1>4 DEF Written, Removed, WroteAt, WroteRead, Kind, Created, Answered
  <2>2. row[o.m] \in [at : Folders, read : BOOLEAN]
    BY <1>1, <1>2, <1>4 DEF HasRow
  <2>3. W(o.m).at = o.f /\ W(o.m).read = row[o.m].read /\ W(o.m) \in [at : Folders, read : BOOLEAN]
    BY <1>1, <1>2, <1>4, <2>1, <2>2
  <2>4. \A m \in Messages \ {o.m} : W(m) = row[m]
    BY <1>2, <2>1
  <2>5. Written(r) \in [Messages -> Rows \cup {NoRow}]
    BY <1>1, <1>2, <1>4, <2>1, <2>2 DEF Rows
  <2>6. o.m \notin dirty[r] => srv[o.m].at = o.f
    BY <1>1, <1>4 DEF ViewInv, Kind
  <2> QED
    BY <1>1, <1>3, <1>4, <2>1, <2>3, <2>4, <2>5, <2>6 DEF HasRow
<1>5. CASE o.kind = "mark"
  <2>1. /\ Written(r) = [row EXCEPT ![o.m].read = o.b] /\ Removed(r) = {}
        /\ WroteAt(r) = {} /\ WroteRead(r) = {o.m}
    BY <1>5 DEF Written, Removed, WroteAt, WroteRead, Kind, Created, Answered
  <2>2. row[o.m] \in [at : Folders, read : BOOLEAN]
    BY <1>1, <1>2, <1>5 DEF HasRow
  <2>3. W(o.m).read = o.b /\ W(o.m).at = row[o.m].at /\ W(o.m) \in [at : Folders, read : BOOLEAN]
    BY <1>1, <1>2, <1>5, <2>1, <2>2
  <2>4. \A m \in Messages \ {o.m} : W(m) = row[m]
    BY <1>2, <2>1
  <2>5. Written(r) \in [Messages -> Rows \cup {NoRow}]
    BY <1>1, <1>2, <1>5, <2>1, <2>2 DEF Rows
  <2>6. o.m \notin dirty[r] => srv[o.m].read = o.b
    BY <1>1, <1>5 DEF ViewInv, Kind
  <2> QED
    BY <1>1, <1>3, <1>5, <2>1, <2>3, <2>4, <2>5, <2>6 DEF HasRow
<1>6. CASE o.kind \in {"list", "search", "fetch"}
  <2>1. /\ Written(r) = Refresh(r) /\ Removed(r) = {} /\ WroteAt(r) = Created(r)
        /\ WroteRead(r) = Created(r) \cup {m \in Answered(r) : HasRow(m) /\ Kind(r) # "fetch"}
    BY <1>6 DEF Written, Removed, WroteAt, WroteRead, Kind
  <2>2. \A m \in Created(r) : /\ m \in Answered(r) /\ ~HasRow(m) /\ W(m) = answer[r][m]
                              /\ answer[r][m] \in [at : Folders, read : BOOLEAN]
    <3>1. \A m \in Created(r) : m \in Messages /\ m \in Answered(r) /\ ~HasRow(m) /\ answer[r][m] # NoRow
      BY DEF Created, Answered
    <3>2. \A m \in Created(r) : W(m) = answer[r][m]
      <4>1. \A m \in Messages :
               W(m) = CASE m \in Created(r)   -> answer[r][m]
                        [] m \in Refreshed(r) -> [row[m] EXCEPT !.read = answer[r][m].read]
                        [] OTHER -> row[m]
        BY <2>1 DEF Refresh
      <4> HIDE DEF W
      <4> QED
        BY <3>1, <4>1 DEF Refreshed
    <3> QED
      BY <1>3, <3>1, <3>2
  <2>3. \A m \in Refreshed(r) : /\ m \in Answered(r) /\ HasRow(m) /\ Kind(r) # "fetch"
                                /\ W(m) = [row[m] EXCEPT !.read = answer[r][m].read]
                                /\ answer[r][m] \in [at : Folders, read : BOOLEAN]
                                /\ row[m] \in [at : Folders, read : BOOLEAN]
    BY <1>2, <1>3, <2>1 DEF Refresh, Refreshed, Created, Answered, HasRow, Kind
  <2>4. \A m \in Messages \ (Created(r) \cup Refreshed(r)) : W(m) = row[m]
    BY <2>1 DEF Refresh
  <2>5. \A m \in Messages : W(m) \in Rows \cup {NoRow}
    <3> TAKE m \in Messages
    <3>1. CASE m \in Created(r)
      BY <2>2, <3>1 DEF Rows
    <3>2. CASE m \in Refreshed(r)
      BY <2>3, <3>2 DEF Rows
    <3>3. CASE m \notin Created(r) \cup Refreshed(r)
      BY <1>2, <2>4, <3>3 DEF Rows
    <3> QED
      BY <3>1, <3>2, <3>3
  <2>6. Written(r) \in [Messages -> Rows \cup {NoRow}]
    BY <2>1, <2>5 DEF Refresh
  <2>7. \A m \in Answered(r) \ dirty[r] : answer[r][m] = srv[m]
    BY DEF ViewInv, Answered
  <2>8. ASSUME NEW m \in Messages
        PROVE  /\ HasRow(m) => W(m) # NoRow
               /\ m \notin WroteAt(r) => (W(m) # NoRow => HasRow(m) /\ W(m).at = row[m].at)
               /\ m \notin WroteRead(r) => (W(m) # NoRow => HasRow(m) /\ W(m).read = row[m].read)
               /\ m \in WroteAt(r) \ dirty[r] => W(m).at = srv[m].at
               /\ m \in WroteRead(r) \ dirty[r] => W(m).read = srv[m].read
    <3>1. CASE m \in Created(r)
      BY <2>1, <2>2, <2>7, <3>1
    <3>2. CASE m \in Refreshed(r)
      <4>1. m \in Answered(r) /\ HasRow(m) /\ m \in WroteRead(r) /\ m \notin WroteAt(r)
        BY <2>1, <2>3, <3>2 DEF Created
      <4>2. W(m).at = row[m].at /\ W(m).read = answer[r][m].read /\ W(m) \in [at : Folders, read : BOOLEAN]
        BY <2>3, <3>2
      <4> QED
        BY <1>3, <2>7, <4>1, <4>2
    <3>3. CASE m \notin Created(r) \cup Refreshed(r)
      <4>1. W(m) = row[m] /\ m \notin WroteAt(r)
        BY <2>1, <2>4, <3>3
      <4>2. m \notin WroteRead(r)
        BY <1>6, <2>1, <3>3 DEF Refreshed, Kind
      <4> QED
        BY <4>1, <4>2 DEF HasRow
    <3> QED
      BY <3>1, <3>2, <3>3
  <2> QED
    BY <2>1, <2>6, <2>8
<1>7. CASE o.kind \in {"empty", "rmdir", "delete", "discard"}
  <2>1. /\ Written(r) = [m \in Messages |-> IF m \in Removed(r) THEN NoRow ELSE row[m]]
        /\ WroteAt(r) = {} /\ WroteRead(r) = {}
    BY <1>7 DEF Written, WroteAt, WroteRead, Kind, Created, Answered
  <2>2. Removed(r) \subseteq Messages
    BY <1>1 DEF Removed, Kind
  <2> QED
    BY <1>2, <2>1, <2>2 DEF HasRow, Rows
<1> QED
  BY <1>1, <1>4, <1>5, <1>6, <1>7

LEMMA WriteKeepsIInv ==
  ASSUME IInv, NEW r \in Clients, Write(r)
  PROVE  IInv'
<1> DEFINE W == Written(r)
           R == Removed(r)
<1> USE DEF IInv
<1>1. /\ pc[r] = "served" /\ ~Throws(r) /\ Ends(r, R) /\ row' = W
      /\ folders' = IF Kind(r) = "rmdir" THEN folders \ {op[r].f} ELSE folders
      /\ hurtAt' = ((hurtAt \ WroteAt(r)) \cup (WroteAt(r) \cap dirty[r]) \cup Orphaned(r)) \ R
      /\ hurtRead' = ((hurtRead \ WroteRead(r)) \cup (WroteRead(r) \cap dirty[r])) \ R
      /\ UNCHANGED <<server, rules, signedIn, blocked, batch, bounds>>
  BY DEF Write
<1>2. /\ W \in [Messages -> Rows \cup {NoRow}] /\ R \in SUBSET Messages
      /\ \A m \in Messages :
            /\ m \in R => W[m] = NoRow
            /\ m \notin R /\ HasRow(m) => W[m] # NoRow
            /\ m \notin WroteAt(r) \cup R => (W[m] # NoRow => HasRow(m) /\ W[m].at = row[m].at)
            /\ m \notin WroteRead(r) \cup R => (W[m] # NoRow => HasRow(m) /\ W[m].read = row[m].read)
            /\ m \in WroteAt(r) \ dirty[r] => W[m].at = srv[m].at
            /\ m \in WroteRead(r) \ dirty[r] => W[m].read = srv[m].read
  BY <1>1, WrittenRows
<1> HIDE DEF W
<1>3. /\ StageInv'
      /\ pc' \in [Clients -> Stages]
      /\ op' \in [Clients -> Ops \cup Filing \cup {None}]
      /\ answer' \in [Clients -> [Messages -> Rows \cup {NoRow}]]
      /\ held' \in [Clients -> SUBSET Messages]
      /\ dirty' \in [Clients -> SUBSET Messages] /\ late' \in [Clients -> SUBSET Messages]
      /\ pc'[r] # "served"
      /\ \A q \in Clients \ {r} :
            pc'[q] = pc[q] /\ op'[q] = op[q] /\ answer'[q] = answer[q] /\ dirty'[q] = dirty[q]
      /\ \A q \in Clients : held'[q] \subseteq held[q] \ R
      /\ \A q \in Clients : Listed(q)' \ late'[q] \subseteq Listed(q) \ late[q]
      /\ \A q \in Clients : pc'[q] = "ruled" => pc[q] = "ruled" /\ late'[q] = late[q]
  BY <1>1, <1>2, EndsLeaves
<1>4. \A q \in Clients \ {r} :
         /\ Kind(q)' = Kind(q) /\ Changed(q)' = Changed(q) /\ op'[q] = op[q]
         /\ \A m \in Messages : /\ MovesNow(q, m)' <=> MovesNow(q, m)
                                /\ FlagsNow(q, m)' <=> FlagsNow(q, m)
                                /\ (m \in Answered(q))' <=> m \in Answered(q)
  BY <1>3, SameClient
<1>5. srv' = srv /\ row' = W /\ \A m \in Messages : HasRow(m)' <=> W[m] # NoRow
  BY <1>1 DEF server, HasRow
\* What the client has changed on the server, it now writes or removes.
<1>6. ASSUME NEW m \in Messages, MovesNow(r, m), m \notin WroteAt(r) \cup R
      PROVE  /\ Kind(r) \in {"empty", "rmdir"}
             /\ HasRow(m) => row[m].at # op[r].f /\ (m \in hurtAt' \/ answer[r][m].at = op[r].f)
  BY <1>1, <1>6 DEF MovesNow, Changed, WroteAt, Removed, Orphaned
<1>7. \A m \in Messages : FlagsNow(r, m) => m \in WroteRead(r)
  BY DEF FlagsNow, Changed, WroteRead
<1>8. TypeOK'
  <2>1. hurtAt' \subseteq Messages /\ hurtRead' \subseteq Messages /\ folders' \subseteq Folders
    <3>1. Changed(r) \subseteq Messages
      BY <1>1, OpKnown, OpFields DEF Changed, Kind
    <3> QED
      BY <1>1, <3>1 DEF TypeOK, Orphaned
  <2> QED
    BY <1>1, <1>2, <1>3, <2>1 DEF TypeOK, server, bounds
<1>9. HeldInv'
  BY <1>2, <1>3, <1>5 DEF HeldInv, TypeOK
<1>10. ViewInv'
  BY <1>3, <1>4, <1>5 DEF ViewInv
<1>11. ASSUME NEW m \in Messages, W[m] # NoRow, m \notin hurtAt'
       PROVE  /\ m \notin R
              /\ m \in WroteAt(r) => W[m].at = srv[m].at
              /\ m \notin WroteAt(r) => HasRow(m) /\ W[m].at = row[m].at /\ m \notin hurtAt
  BY <1>1, <1>2, <1>11
<1>12. BulkInv'
  <2> SUFFICES ASSUME NEW q \in Clients, NEW m \in Messages,
                      pc'[q] = "served", Kind(q)' \in {"empty", "rmdir"}, (m \in Changed(q))'
               PROVE  /\ srv[m].at = Gone
                      /\ answer'[q][m].at = op'[q].f /\ W[m] # NoRow /\ W[m].at # op'[q].f /\ m \notin hurtAt' =>
                            \E p \in Clients \ {q} : MovesNow(p, m)' /\ Kind(p)' \in {"move", "delete", "discard"}
    BY <1>5 DEF BulkInv
  <2>1. q # r /\ pc[q] = "served" /\ op'[q] = op[q] /\ answer'[q] = answer[q] /\ Kind(q) \in {"empty", "rmdir"} /\ m \in Changed(q)
    BY <1>3, <1>4
  <2>2. /\ srv[m].at = Gone
        /\ answer[q][m].at = op[q].f /\ HasRow(m) /\ row[m].at # op[q].f /\ m \notin hurtAt =>
              \E p \in Clients \ {q} : MovesNow(p, m) /\ Kind(p) \in {"move", "delete", "discard"}
    BY <2>1 DEF BulkInv
  <2>3. ASSUME answer'[q][m].at = op'[q].f, W[m] # NoRow, W[m].at # op'[q].f, m \notin hurtAt'
        PROVE  \E p \in Clients \ {q} : MovesNow(p, m)' /\ Kind(p)' \in {"move", "delete", "discard"}
    <3>1. W[m].at \in Folders
      BY <1>2, <2>3 DEF Rows
    <3>2. m \notin WroteAt(r) \cup R /\ HasRow(m) /\ row[m].at # op[q].f /\ m \notin hurtAt
      BY <1>11, <2>1, <2>2, <2>3, <3>1, FolderFacts
    <3>3. PICK p \in Clients \ {q} : MovesNow(p, m) /\ Kind(p) \in {"move", "delete", "discard"}
      BY <2>1, <2>2, <2>3, <3>2
    <3>4. p # r
      BY <1>6, <3>2, <3>3
    <3> QED
      BY <1>4, <3>3, <3>4
  <2> QED
    BY <2>2, <2>3
<1>13. FolderAgrees'
  <2> SUFFICES ASSUME NEW m \in Messages, W[m] # NoRow, ~Moving(m)', m \notin hurtAt'
               PROVE  W[m].at = srv[m].at
    BY <1>5 DEF FolderAgrees
  <2>1. CASE m \in WroteAt(r)
    BY <1>11, <2>1
  <2>2. CASE m \notin WroteAt(r)
    <3>1. m \notin R /\ HasRow(m) /\ W[m].at = row[m].at /\ m \notin hurtAt
      BY <1>11, <2>2
    <3>2. \A q \in Clients \ {r} : ~MovesNow(q, m)
      BY <1>4 DEF Moving
    <3>3. ~MovesNow(r, m)
      BY <1>1, <1>6, <2>2, <3>1, <3>2 DEF BulkInv, MovesNow
    <3> QED
      BY <3>1, <3>2, <3>3 DEF FolderAgrees, Moving
  <2> QED
    BY <2>1, <2>2
<1>14. FlagAgrees'
  <2> SUFFICES ASSUME NEW m \in Messages, W[m] # NoRow, ~Flagging(m)', m \notin hurtRead'
               PROVE  W[m].read = srv[m].read
    BY <1>5 DEF FlagAgrees
  <2>1. m \notin R
    BY <1>2
  <2>2. CASE m \in WroteRead(r)
    BY <1>1, <1>2, <2>1, <2>2
  <2>3. CASE m \notin WroteRead(r)
    <3>1. HasRow(m) /\ W[m].read = row[m].read /\ m \notin hurtRead
      BY <1>1, <1>2, <2>1, <2>3
    <3>2. ~Flagging(m)
      BY <1>4, <1>7, <2>3 DEF Flagging
    <3> QED
      BY <3>1, <3>2 DEF FlagAgrees
  <2> QED
    BY <2>2, <2>3
<1>15. SweepInv'
  BY <1>1, <1>3, <1>5 DEF SweepInv
<1> QED
  BY <1>3, <1>8, <1>9, <1>10, <1>12, <1>13, <1>14, <1>15

-----------------------------------------------------------------------------
LEMMA SessionKeepsIInv ==
  ASSUME IInv, SessionEnds \/ SignsIn
  PROVE  IInv'
<1> USE DEF IInv
<1>1. /\ signedIn' \in BOOLEAN
      /\ UNCHANGED <<server, row, folders, rules, clients, requests, changes, hist>>
  BY DEF SessionEnds, SignsIn, bounds
<1>t. trouble' \in 0 .. MaxTrouble
  <2>1. trouble \in 0 .. MaxTrouble /\ MaxTrouble \in Nat
    BY ConstantsAssumption DEF TypeOK
  <2> QED
    BY <2>1 DEF SessionEnds, SignsIn, bounds
<1>2. TypeOK' /\ StageInv' /\ HeldInv'
  BY <1>1, <1>t DEF TypeOK, StageInv, HeldInv, HasRow, server, clients, hist
<1>3. ViewInv' /\ BulkInv' /\ FolderAgrees' /\ FlagAgrees'
  BY <1>1, QuietKeepsTables DEF server, clients, hist
<1>4. SweepInv'
  BY <1>1 DEF SweepInv, Listed, server, clients, hist
<1> QED
  BY <1>2, <1>3, <1>4

LEMMA StutterKeepsIInv ==
  ASSUME IInv, UNCHANGED vars
  PROVE  IInv'
<1> USE DEF IInv, vars, server, tables, clients, bounds, hist
<1>1. TypeOK' /\ StageInv' /\ HeldInv'
  BY DEF TypeOK, StageInv, HeldInv, HasRow
<1>2. ViewInv' /\ BulkInv' /\ FolderAgrees' /\ FlagAgrees'
  BY QuietKeepsTables
<1>3. SweepInv'
  BY DEF SweepInv, Listed
<1> QED
  BY <1>1, <1>2, <1>3

LEMMA NextKeepsIInv == IInv /\ [Next]_vars => IInv'
<1> SUFFICES ASSUME IInv, [Next]_vars PROVE IInv'
  OBVIOUS
<1>1. ASSUME NEW r \in Clients, Step(r) PROVE IInv'
  <2>1. WriteThrows(r) => pc[r] = "served" /\ Misses(r) /\ trouble' \in 0 .. MaxTrouble
    BY DEF WriteThrows, IInv, TypeOK
  <2> QED
    BY <1>1, <2>1, ServeKeepsIInv, RefusedKeepsIInv, WriteKeepsIInv, MissesKeepsIInv DEF Step
<1>2. ASSUME NEW r \in Clients, Fails(r) PROVE IInv'
  <2>1. pc[r] = "served" /\ Misses(r) /\ trouble' \in 0 .. MaxTrouble
    BY <1>2, ConstantsAssumption DEF Fails, IInv, TypeOK
  <2> QED
    BY <2>1, MissesKeepsIInv
<1>3. ASSUME NEW m \in Messages,
             \/ \E f \in dirs \cup {Gone} : Elsewhere(m, [srv[m] EXCEPT !.at = f])
             \/ \E b \in BOOLEAN : Elsewhere(m, [srv[m] EXCEPT !.read = b])
      PROVE  IInv'
  <2>1. ASSUME NEW f \in dirs \cup {Gone} PROVE [srv[m] EXCEPT !.at = f] \in Mail
    <3>1. f \in Folders \cup {Gone} /\ srv[m] \in [at : Folders \cup {Gone}, read : BOOLEAN]
      BY DEF IInv, TypeOK, Mail
    <3> QED
      BY <3>1 DEF Mail
  <2>2. ASSUME NEW b \in BOOLEAN PROVE [srv[m] EXCEPT !.read = b] \in Mail
    <3>1. srv[m] \in [at : Folders \cup {Gone}, read : BOOLEAN]
      BY DEF IInv, TypeOK, Mail
    <3> QED
      BY <3>1 DEF Mail
  <2> QED
    BY <1>3, <2>1, <2>2, ElsewhereKeepsIInv
<1>4. CASE UNCHANGED vars
  BY <1>4, StutterKeepsIInv
<1>5. CASE SessionEnds \/ SignsIn
  BY <1>5, SessionKeepsIInv
<1> QED
  BY <1>1, <1>2, <1>3, <1>4, <1>5, AskKeepsIInv, SweepReadsKeepsIInv, SweepListsKeepsIInv, SweepTakesKeepsIInv, ChangeRuleKeepsIInv
     DEF Next, SweepStep

(* Whatever requests, sweeps and other mail programs overlap: a row is in  *)
(* the folder, and has the flag, that the mail server has for its message, *)
(* but for the causes that FolderAgrees and FlagAgrees name; and a client  *)
(* that has been served and that nothing overtook sees the server as it is *)
(* (moveMessage, markRead, getMessages and their like in mail.service.ts). *)
THEOREM MirrorAlwaysHolds == Spec => []MirrorHolds
<1>1. IInv => MirrorHolds
  BY DEF MirrorHolds, IInv
<1> QED
  BY InitIInv, NextKeepsIInv, <1>1, PTL DEF Spec

(* When the mail server files a message for the sweep, the message is in   *)
(* the Inbox and its sender is blocked, and not also allowed, unless the   *)
(* rules changed after the sweep had read them, the folder after it had    *)
(* listed the message, or the row was wrong then (processTick, sweepUser   *)
(* and enforceSenderRules).                                                *)
THEOREM SweepAlwaysHonours == Spec => SweepHonours
<1>1. ASSUME IInv, NEW r \in Clients, NEW m \in Messages,
             Serve(r), op[r] \in Filing, op[r].m = m, m \notin late[r]
      PROVE  srv[m].at = Inbox /\ rules[m] = {"BLOCK"}
  BY <1>1 DEF IInv, SweepInv, Listed
<1>2. IInv /\ [Next]_vars =>
        [\A r \in Clients, m \in Messages :
            Serve(r) /\ op[r] \in Filing /\ op[r].m = m /\ m \notin late[r] =>
               srv[m].at = Inbox /\ rules[m] = {"BLOCK"}]_vars
  BY <1>1
<1> QED
  BY InitIInv, NextKeepsIInv, <1>2, PTL DEF Spec, SweepHonours
=============================================================================
