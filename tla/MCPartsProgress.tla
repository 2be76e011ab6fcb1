-------------------------- MODULE MCPartsProgress -------------------------
(***************************************************************************)
(* The components of Parts with small values.                              *)
(***************************************************************************)
EXTENDS Parts

\* The two newest messages of three belong to one user, so that they fill
\* the query of the card worker and that of the attachment worker.
OwnerDef   == [m \in 1 .. 3 |-> IF m = 1 THEN "ann" ELSE "bob"]
PerUserDef == [cards |-> 1, mail |-> 2, attachments |-> 1]
TotalDef   == [cards |-> 2, mail |-> 3, attachments |-> 1]

\* A search may find what the folder does not list.
FoldersDef == {{"m1", "d"}, {"d"}}
=============================================================================
