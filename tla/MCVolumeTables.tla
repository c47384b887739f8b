--------------------------- MODULE MCVolumeTables ---------------------------
(* The Worker's operations on a volume without mounts. *)
EXTENDS VolumeTables, TLC

NoSessions == {}
AllWork == {"create", "mkdir", "link", "remove", "rename"}
CreateAndRemove == {"create", "remove"}
CONSTANTS n1, n2
Names2 == {n1, n2}
Symmetry == Permutations(Names2)
=============================================================================
