----------------------------- MODULE MCOverlay ------------------------------
(* A base with a directory that holds a file, and a file beside it.        *)
EXTENDS Overlay

CONSTANTS a, b

MCBaseDir == {<<>>, <<a>>}
MCBaseFile == {<<a, b>>, <<b>>}

Changed == {[ops |-> {"mkdir", "create", "unlink", "rmdir", "open"}, cuts |-> {}]}
Deleted == {[ops |-> {"unlink", "rmdir", "readdirplus", "remount"}, cuts |-> {"unlink", "rmdir"}]}
Renamed == {[ops |-> {"open", "rename", "unlink"}, cuts |-> {}]}
Steady == Changed \cup Deleted \cup Renamed
RenamedDir == {[ops |-> {"unlink", "rename_dir"}, cuts |-> {}]}
Remounted == {[ops |-> {"mkdir", "create", "open", "remount"}, cuts |-> {}]}
=============================================================================
