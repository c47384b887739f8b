----------------------------- MODULE AccessLock -----------------------------
(***************************************************************************)
(* What the volume access coordinator promises, without its queue: a       *)
(* request is waiting or holding, a set of waiting requests may be         *)
(* admitted together with any arrival or departure, and two holders never  *)
(* conflict.  Which waiters are admitted is left open.                     *)
(***************************************************************************)
CONSTANTS Client,          \* the requests in flight
          Lock,            \* what a request may ask for
          Conflict(_, _)   \* two locks that must not be held together

VARIABLES request,   \* the clients with a request, and the lock each asks for
          holders    \* the clients that hold their lock

vars == <<request, holders>>

Init == request = {} /\ holders = {}

Requesting == {r[1] : r \in request}

(* No two different holders have conflicting locks. *)
Compatible(req, set) ==
    \A p, q \in req : 
        p[1] \in set /\ q[1] \in set /\ p[1] # q[1] => ~Conflict(p[2], q[2])

(* The holders after a step: those of `kept` and newly admitted waiters. *)
Admit(kept) ==
    /\ kept \subseteq holders'
    /\ holders' \subseteq {r[1] : r \in request'}
    /\ Compatible(request', holders')

Acquire(c, l) ==
    /\ c \notin Requesting
    /\ request' = request \cup {<<c, l>>}
    /\ Admit(holders)

Release(c) ==
    /\ c \in holders
    /\ request' = {r \in request : r[1] # c}
    /\ Admit(holders \ {c})

Next == \E c \in Client : Release(c) \/ \E l \in Lock : Acquire(c, l)

Spec == Init /\ [][Next]_vars
=============================================================================
