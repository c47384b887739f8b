------------------------ MODULE MCAccessCoordinator ------------------------
(* Locks for TLC: the ones the file operations ask for on a small tree     *)
(* with /a, /a/b and /c.                                                   *)
EXTENDS AccessCoordinator, TLC

CONSTANTS c1, c2, c3, c4

Clients == {c1, c2, c3, c4}
ThreeClients == {c1, c2, c3}
Symmetry == Permutations(Clients)

Wildcard == <<"*">>
A == <<"a">>
AB == <<"a", "b">>
C == <<"c">>

Asks(mode, paths) == [mode |-> mode, paths |-> paths]

Locks ==
    { Asks("read", {A}),         \* list or stat of /a
      Asks("read", {AB}),        \* download of /a/b
      Asks("write", {AB}),       \* upload to /a/b
      Asks("write", {C}),
      Asks("write", {A, C}),     \* rename of /a to /c
      Asks("read", {Wildcard}),    \* archive of the volume
      Asks("write", {Wildcard})} \* a guest's SQL statement
=============================================================================
