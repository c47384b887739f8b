----------------------------- MODULE MCNfsServer ----------------------------
(* Instances of NfsServer for TLC. *)
EXTENDS NfsServer

CONSTANTS c1, c2, a, b

Order == <<a, b>>

(* One client lists, or first removes an entry or sets a mode; the other    *)
(* changes the directory or reads meanwhile.                                *)
Mixed == (c1 :> <<{"READDIRPLUS", "REMOVE", "SETATTR"}, {"READDIRPLUS"}>>) @@
         (c2 :> <<{"CREATE GUARDED", "MKDIR", "LINK", "RENAME"}>>)

(* A file is removed while the directory is being listed. *)
Emptied == (c1 :> <<{"READDIRPLUS"}, {"READDIRPLUS"}>>) @@ (c2 :> <<{"REMOVE"}>>)

(* READDIR without attributes. *)
Plain == (c1 :> <<{"READDIR"}, {"READDIR"}>>) @@ (c2 :> <<{"GETATTR", "LOOKUP", "ACCESS", "READLINK", "FSINFO", "FSSTAT", "READ", "NULL"}>>)

Protected == {{"s"}}
=============================================================================
