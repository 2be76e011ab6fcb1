---------------------------- MODULE MCMailMirror ----------------------------
(* Few messages: requests that overlap meet on one row.  The folder of the *)
(* user's own lies below the trash.                                        *)
EXTENDS MailMirror

CONSTANTS m1, m2

MCSubfolders == [f \in Folders |-> IF f = Trash THEN UserFolders ELSE {}]
MCReceived == [m \in Messages |-> IF m = m1 THEN 1 ELSE 2]
=============================================================================
