---------------------------- MODULE MCRunSession ----------------------------
(* Instances of RunSession. *)
EXTENDS RunSession

CONSTANTS a, b, c

Linux == {<<"run", "run", "prune">>, <<"exec", "prune", "mount">>}
Mac == {<<"nfsrun", "nfsrun", "nfsrun">>}
Scenario(t) == [i \in {a, b, c} |-> CASE i = a -> t[1] [] i = b -> t[2] [] i = c -> t[3]]
MCScenarios == {Scenario(t) : t \in Linux \cup Mac}
=============================================================================
