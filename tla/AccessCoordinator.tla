-------------------------- MODULE AccessCoordinator --------------------------
(***************************************************************************)
(* The per-volume path lock (class VolumeAccessCoordinator): every HTTP    *)
(* file operation of a volume and every mutating SQL statement of a guest  *)
(* mount takes one lock on the paths it touches and queues behind          *)
(* conflicting requests.                                                   *)
(*                                                                         *)
(* The array of waiters is kept as the set of waiting clients and, for     *)
(* each of them, the set of clients `ahead` of it in the array: the        *)
(* arrival order without positions.  A path is the sequence of its names   *)
(* (what normalizeLockPath computes), "/" the empty one.  A client that    *)
(* released its lock may come back with another request; calling a         *)
(* release function again is stopped by its `released` flag and changes    *)
(* nothing.                                                                *)
(***************************************************************************)
EXTENDS Naturals, Sequences, FiniteSets

CONSTANTS Client,   \* requests in flight at the same time
          Lock,     \* the locks they may ask for: [mode, paths]
          Wild,     \* the path '*' of a FUSE statement
          NoLock    \* a client without request

ASSUME LockAssumption == NoLock \notin Lock

VARIABLES waiters,   \* clients in the waiting array
          active,    \* clients in the array of granted locks
          lock,      \* the mode and paths of each client's request
          ahead      \* for a waiter, the waiters before it in the array

vars == <<waiters, active, lock, ahead>>

(* A client's request is in one of the two arrays, with its lock. *)
Placed ==
    /\ waiters \cap active = {}
    /\ \A c \in waiters \cup active : lock[c] \in Lock

TypeOK ==
    /\ waiters \subseteq Client
    /\ active \subseteq Client
    /\ lock \in [Client -> Lock \cup {NoLock}]
    /\ ahead \in [Client -> SUBSET Client]
    /\ Placed

-----------------------------------------------------------------------------
(* Conflicts between requests *)

IsPathPrefix(a, b) == Len(a) <= Len(b) /\ SubSeq(b, 1, Len(a)) = a

OverlapsBelowOnly(a, b) == Wild \in {a, b} \/ IsPathPrefix(a, b)

PathsOverlap(a, b) ==
    Wild \in {a, b} \/ IsPathPrefix(a, b) \/ IsPathPrefix(b, a)

Conflicts(a, b) ==
    /\ "write" \in {a.mode, b.mode}
    /\ \E p \in a.paths, q \in b.paths : PathsOverlap(p, q)

-----------------------------------------------------------------------------
(* drain(): scan the waiters in order, grant the first one that conflicts  *)
(* neither with a granted lock nor with a waiter before it, and start      *)
(* over.  A grant never frees a later waiter (the conflict moves from the  *)
(* waiters to the granted locks), so the scans grant this set.             *)

(* Variants of Grantable with a mistake: the waiters after a request are   *)
(* looked at instead of those before it; any earlier waiter blocks, as in  *)
(* a plain queue; granted locks are not looked at.                         *)
GrantableLastFirst(acts, waits, order, lk) ==
    {c \in waits : \A d \in acts \cup (waits \ (order[c] \cup {c})) :
                       ~Conflicts(lk[c], lk[d])}

GrantableInTurn(acts, waits, order, lk) ==
    {c \in waits : order[c] = {} /\ \A d \in acts : ~Conflicts(lk[c], lk[d])}

GrantableUnchecked(acts, waits, order, lk) ==
    {c \in waits : \A d \in order[c] : ~Conflicts(lk[c], lk[d])}

Grantable(acts, waits, order, lk) ==
    {c \in waits : \A d \in acts \cup order[c] : ~Conflicts(lk[c], lk[d])}

(* The scans as the code runs them: each grants the first waiter it can,   *)
(* until one grants nobody.                                                *)
Able(acts, waits, order, lk) ==
    {c \in waits : \A d \in acts \cup (order[c] \cap waits) : ~Conflicts(lk[c], lk[d])}

FirstOf(able, order) == CHOOSE c \in able : order[c] \cap able = {}

DrainLoop(acts, waits, order, lk) ==
    LET granted[n \in 0..Cardinality(waits)] ==
          IF n = 0 THEN {}
          ELSE LET before == granted[n - 1]
                   able == Able(acts \cup before, waits \ before, order, lk)
               IN  IF able = {} THEN before
                   ELSE before \cup {FirstOf(able, order)}
    IN  granted[Cardinality(waits)]

(* Variant of Drain: a granted request stays in the array of waiters. *)
DrainLeavingWaiters(acts, waits, order, lk) ==
    LET granted == Grantable(acts, waits, order, lk)
    IN  /\ active' = acts \cup granted
        /\ waiters' = waits
        /\ ahead' = [c \in Client |-> IF c \in waits \ granted
                                      THEN order[c] \ granted ELSE {}]

Drain(acts, waits, order, lk) ==
    LET granted == Grantable(acts, waits, order, lk)
    IN  /\ active' = acts \cup granted
        /\ waiters' = waits \ granted
        /\ ahead' = [c \in Client |-> IF c \in waits \ granted
                                      THEN order[c] \ granted ELSE {}]

-----------------------------------------------------------------------------
Init ==
    /\ waiters = {}
    /\ active = {}
    /\ lock = [c \in Client |-> NoLock]
    /\ ahead = [c \in Client |-> {}]

(* acquireRead, acquireWrite: join the end of the array, then drain. *)
Acquire(c, l) ==
    /\ c \notin waiters \cup active
    /\ lock' = [lock EXCEPT ![c] = l]
    /\ Drain(active, waiters \cup {c}, [ahead EXCEPT ![c] = waiters], lock')

(* Variant: a release that forgets to drain. *)
ReleaseWithoutDrain(c) ==
    /\ c \in active
    /\ lock' = [lock EXCEPT ![c] = NoLock]
    /\ active' = active \ {c}
    /\ UNCHANGED <<waiters, ahead>>

(* The release function of a granted lock: leave the array, then drain. *)
Release(c) ==
    /\ c \in active
    /\ lock' = [lock EXCEPT ![c] = NoLock]
    /\ Drain(active \ {c}, waiters, ahead, lock')

Next == \E c \in Client : Release(c) \/ \E l \in Lock : Acquire(c, l)

Spec == Init /\ [][Next]_vars

(* Every operation releases in a finally block and a streamed download     *)
(* releases when it ends, fails or is cancelled: assuming that operations  *)
(* end, every granted lock is released.                                    *)
FairSpec == Spec /\ \A c \in Client : WF_vars(Release(c))

-----------------------------------------------------------------------------
(* Properties *)

(* Two requests hold locks together only if they do not conflict: the      *)
(* reason every file operation may assume that its paths do not change     *)
(* under it.                                                               *)
Exclusion ==
    \A c, d \in active : c # d => ~Conflicts(lock[c], lock[d])

(* After every drain, a request that still waits conflicts with a granted  *)
(* lock or with a request before it: no wakeup is lost and no unrelated    *)
(* request waits for nothing.                                              *)
WaitsForAReason ==
    \A c \in waiters : \E d \in active \cup ahead[c] : Conflicts(lock[c], lock[d])

(* The scan reads the waiters in one order: of two waiters exactly one is  *)
(* ahead, whoever is ahead of it is ahead of the other too, and nobody     *)
(* waits behind a request that has left the array.                         *)
OneQueue ==
    \A c, d \in waiters :
        /\ ahead[c] \subseteq waiters
        /\ c # d => (c \in ahead[d] <=> d \notin ahead[c])
        /\ c \in ahead[d] => ahead[c] \subseteq ahead[d] \ {d}

(* Whoever is granted a lock in a step does not conflict with a request    *)
(* that waited before it and still waits: a stream of readers cannot pass  *)
(* a writer ("fair path lock").                                            *)
GrantsInOrder ==
    \A d \in active' \ active, c \in waiters \cap waiters' :
        (d \in waiters => c \in ahead[d]) => ~Conflicts(lock'[d], lock[c])

NoOvertaking == [][GrantsInOrder]_vars

(* What a step grants at once is what the loop of drain() grants one by    *)
(* one, whatever is released or asked for next.                            *)
DrainIsTheLoop ==
    /\ \A c \in active :
          LET locks == [lock EXCEPT ![c] = NoLock]
          IN  DrainLoop(active \ {c}, waiters, ahead, locks)
                = Grantable(active \ {c}, waiters, ahead, locks)
    /\ \A c \in Client \ (waiters \cup active), l \in Lock :
          LET order == [ahead EXCEPT ![c] = waiters]
              locks == [lock EXCEPT ![c] = l]
          IN  DrainLoop(active, waiters \cup {c}, order, locks)
                = Grantable(active, waiters \cup {c}, order, locks)

(* Every request is granted in the end, when granted locks are released. *)
NoStarvation == \A c \in Client : c \in waiters ~> c \in active

(* The coordinator implements the abstract lock. *)
Abstract == INSTANCE AccessLock WITH
    Conflict <- Conflicts,
    request <- {<<c, lock[c]>> : c \in waiters \cup active},
    holders <- active

ImplementsLock == Abstract!Spec
=============================================================================
