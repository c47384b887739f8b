----------------------- MODULE AccessCoordinatorProofs -----------------------
(***************************************************************************)
(* Proofs about the volume access coordinator, for any set of clients and  *)
(* any set of locks.                                                       *)
(*                                                                         *)
(* drain() grants several waiters at once.  They do not conflict with      *)
(* each other because the waiters stand in one queue: of two granted       *)
(* waiters one was ahead of the other, and the later one was compared with *)
(* it.  Exclusion is therefore inductive only together with OneQueue.      *)
(***************************************************************************)
EXTENDS AccessCoordinator, FiniteSetTheorems, TLAPS

IInv == TypeOK /\ OneQueue /\ Exclusion

(* What Drain is given: granted locks that do not conflict and a queue. *)
Drainable(acts, waits, order, lk) ==
    /\ acts \subseteq Client /\ waits \subseteq Client
    /\ acts \cap waits = {}
    /\ order \in [Client -> SUBSET Client]
    /\ \A c, d \in waits :
          /\ order[c] \subseteq waits
          /\ c # d => (c \in order[d] <=> d \notin order[c])
          /\ c \in order[d] => order[c] \subseteq order[d] \ {d}
    /\ \A c, d \in acts : c # d => ~Conflicts(lk[c], lk[d])

-----------------------------------------------------------------------------
(* The order in which two requests are compared does not matter. *)
LEMMA OverlapSymmetric ==
    ASSUME NEW a, NEW b PROVE PathsOverlap(a, b) <=> PathsOverlap(b, a)
BY DEF PathsOverlap

LEMMA ConflictsSymmetric ==
    ASSUME NEW a, NEW b, Conflicts(a, b) PROVE Conflicts(b, a)
<1>1. PICK p \in a.paths, q \in b.paths : PathsOverlap(p, q)
    BY DEF Conflicts
<1>2. PathsOverlap(q, p)
    BY <1>1, OverlapSymmetric
<1> QED
    BY <1>1, <1>2 DEF Conflicts

(* The state after a drain keeps its two arrays apart, is one queue, and   *)
(* has no conflicting grants.                                              *)
LEMMA DrainKeeps ==
    ASSUME NEW acts, NEW waits, NEW order, NEW lk,
           Drainable(acts, waits, order, lk), Drain(acts, waits, order, lk)
    PROVE  /\ active' \subseteq Client /\ waiters' \subseteq Client
           /\ active' \cup waiters' = acts \cup waits
           /\ acts \subseteq active'
           /\ waiters' \cap active' = {}
           /\ ahead' \in [Client -> SUBSET Client]
           /\ OneQueue'
           /\ \A c, d \in active' : c # d => ~Conflicts(lk[c], lk[d])
<1> DEFINE granted == Grantable(acts, waits, order, lk)
<1>1. /\ active' = acts \cup granted
      /\ waiters' = waits \ granted
      /\ ahead' = [c \in Client |-> IF c \in waits \ granted
                                    THEN order[c] \ granted ELSE {}]
    BY DEF Drain
<1>2. granted \subseteq waits
    BY DEF Grantable
<1>3. \A c \in waiters' : ahead'[c] = order[c] \ granted
    BY <1>1 DEF Drainable
<1>4. OneQueue'
  <2> SUFFICES ASSUME NEW c \in waiters', NEW d \in waiters'
               PROVE  /\ ahead'[c] \subseteq waiters'
                      /\ c # d => (c \in ahead'[d] <=> d \notin ahead'[c])
                      /\ c \in ahead'[d] => ahead'[c] \subseteq ahead'[d] \ {d}
      BY DEF OneQueue
  <2>1. c \in waits \ granted /\ d \in waits \ granted
      BY <1>1
  <2>2. /\ order[c] \subseteq waits
        /\ c # d => (c \in order[d] <=> d \notin order[c])
        /\ c \in order[d] => order[c] \subseteq order[d] \ {d}
      BY <2>1 DEF Drainable
  <2> HIDE DEF granted
  <2> QED
      BY <1>1, <1>3, <2>1, <2>2
<1>5. \A c, d \in active' : c # d => ~Conflicts(lk[c], lk[d])
  <2> SUFFICES ASSUME NEW c \in active', NEW d \in active', c # d,
                      Conflicts(lk[c], lk[d])
               PROVE  FALSE
      OBVIOUS
  <2>1. Conflicts(lk[d], lk[c])
      BY ConflictsSymmetric
  <2>2. CASE c \in acts /\ d \in acts
      BY <2>2 DEF Drainable
  <2>3. CASE c \in granted /\ d \in acts
      BY <2>3 DEF Grantable
  <2>4. CASE c \in acts /\ d \in granted
      BY <2>4, <2>1 DEF Grantable
  <2>5. CASE c \in granted /\ d \in granted
    <3>1. c \in order[d] \/ d \in order[c]
        BY <2>5, <1>2 DEF Drainable
    <3> QED
        BY <3>1, <2>5, <2>1 DEF Grantable
  <2> QED
      BY <1>1, <2>2, <2>3, <2>4, <2>5
<1> HIDE DEF granted
<1>6. ahead' \in [Client -> SUBSET Client]
    BY <1>1 DEF Drainable
<1> QED
    BY <1>1, <1>2, <1>4, <1>5, <1>6 DEF Drainable

(* A request drain leaves waiting has a reason to wait. *)
LEMMA DrainLeavesBlocked ==
    ASSUME NEW acts, NEW waits, NEW order, NEW lk, waits \subseteq Client,
           Drain(acts, waits, order, lk)
    PROVE  \A c \in waiters' : \E d \in active' \cup ahead'[c] :
               Conflicts(lk[c], lk[d])
<1> SUFFICES ASSUME NEW c \in waiters'
             PROVE  \E d \in active' \cup ahead'[c] : Conflicts(lk[c], lk[d])
    OBVIOUS
<1> DEFINE granted == Grantable(acts, waits, order, lk)
<1>1. c \in waits /\ c \notin granted
    BY DEF Drain
<1>2. PICK d \in acts \cup order[c] : Conflicts(lk[c], lk[d])
    BY <1>1 DEF Grantable
<1>3. ahead'[c] = order[c] \ granted /\ active' = acts \cup granted
    BY <1>1 DEF Drain
<1> HIDE DEF granted
<1> QED
    BY <1>2, <1>3

-----------------------------------------------------------------------------
(* Both operations give Drain what it needs. *)
LEMMA ArrivalDrainable ==
    ASSUME IInv, NEW c \in Client \ (waiters \cup active), NEW l \in Lock
    PROVE  Drainable(active, waiters \cup {c}, [ahead EXCEPT ![c] = waiters],
                     [lock EXCEPT ![c] = l])
<1> DEFINE order == [ahead EXCEPT ![c] = waiters]
           locks == [lock EXCEPT ![c] = l]
<1> USE DEF IInv, TypeOK
<1>1. \A d \in waiters \cup active : d # c /\ locks[d] = lock[d]
    OBVIOUS
<1>2. order \in [Client -> SUBSET Client]
    OBVIOUS
<1>3. order[c] = waiters /\ \A d \in waiters : order[d] = ahead[d]
    OBVIOUS
<1>4. \A d \in waiters : ahead[d] \subseteq waiters
    BY DEF OneQueue
<1>5. ASSUME NEW d \in waiters \cup {c}, NEW e \in waiters \cup {c}
      PROVE  /\ order[d] \subseteq waiters \cup {c}
             /\ d # e => (d \in order[e] <=> e \notin order[d])
             /\ d \in order[e] => order[d] \subseteq order[e] \ {e}
  <2> HIDE DEF order
  <2>1. CASE d \in waiters /\ e \in waiters
      BY <2>1, <1>3 DEF OneQueue
  <2>2. CASE d = c \/ e = c
      BY <2>2, <1>3, <1>4 DEF OneQueue
  <2> QED
      BY <2>1, <2>2
<1> HIDE DEF order, locks
<1>6. \A d, e \in active : d # e => ~Conflicts(locks[d], locks[e])
    BY <1>1 DEF Exclusion
<1>7. active \cap (waiters \cup {c}) = {}
    BY DEF Placed
<1>8. Drainable(active, waiters \cup {c}, order, locks)
    BY <1>2, <1>5, <1>6, <1>7 DEF Drainable
<1> QED
    BY <1>8 DEF order, locks

LEMMA DepartureDrainable ==
    ASSUME IInv, NEW c \in active
    PROVE  Drainable(active \ {c}, waiters, ahead, [lock EXCEPT ![c] = NoLock])
<1> DEFINE locks == [lock EXCEPT ![c] = NoLock]
<1> USE DEF IInv, TypeOK
<1>1. \A d \in (waiters \cup active) \ {c} : locks[d] = lock[d]
    OBVIOUS
<1> HIDE DEF locks
<1>2. \A d, e \in active \ {c} : d # e => ~Conflicts(locks[d], locks[e])
    BY <1>1 DEF Exclusion
<1>3. Drainable(active \ {c}, waiters, ahead, locks)
    BY <1>2 DEF Drainable, OneQueue, Placed
<1> QED
    BY <1>3 DEF locks

LEMMA AcquireDrains ==
    ASSUME IInv, NEW c \in Client, NEW l \in Lock, Acquire(c, l)
    PROVE  /\ Drainable(active, waiters \cup {c}, [ahead EXCEPT ![c] = waiters], lock')
           /\ lock' \in [Client -> Lock \cup {NoLock}]
           /\ lock'[c] = l
           /\ \A d \in (waiters \cup active) : d # c /\ lock'[d] = lock[d]
<1>1. /\ c \notin waiters \cup active
      /\ lock' = [lock EXCEPT ![c] = l]
    BY DEF Acquire
<1>2. Drainable(active, waiters \cup {c}, [ahead EXCEPT ![c] = waiters], lock')
    BY <1>1, ArrivalDrainable
<1> QED
    BY <1>1, <1>2 DEF IInv, TypeOK

LEMMA ReleaseDrains ==
    ASSUME IInv, NEW c \in Client, Release(c)
    PROVE  /\ Drainable(active \ {c}, waiters, ahead, lock')
           /\ lock' \in [Client -> Lock \cup {NoLock}]
           /\ \A d \in (waiters \cup active) \ {c} : lock'[d] = lock[d]
           /\ c \notin waiters
<1>1. c \in active /\ lock' = [lock EXCEPT ![c] = NoLock]
    BY DEF Release
<1>2. Drainable(active \ {c}, waiters, ahead, lock')
    BY <1>1, DepartureDrainable
<1> QED
    BY <1>1, <1>2 DEF IInv, TypeOK, Placed

-----------------------------------------------------------------------------
(* The state of the coordinator is well formed: the waiters form one       *)
(* queue, a client is in one array at most, and no two granted locks       *)
(* conflict.                                                               *)
THEOREM Invariance == Spec => []IInv
<1>1. Init => IInv
    BY DEF Init, IInv, TypeOK, Placed, OneQueue, Exclusion
<1>2. IInv /\ [Next]_vars => IInv'
  <2> SUFFICES ASSUME IInv, [Next]_vars PROVE IInv'
      OBVIOUS
  <2>1. ASSUME NEW c \in Client, NEW l \in Lock, Acquire(c, l) PROVE IInv'
    <3> DEFINE order == [ahead EXCEPT ![c] = waiters]
    <3>1. Drainable(active, waiters \cup {c}, order, lock')
        BY <2>1, AcquireDrains
    <3>2. Drain(active, waiters \cup {c}, order, lock')
        BY <2>1 DEF Acquire
    <3>3. /\ lock' \in [Client -> Lock \cup {NoLock}]
          /\ lock'[c] = l
          /\ \A d \in (waiters \cup active) : lock'[d] = lock[d]
        BY <2>1, AcquireDrains
    <3> HIDE DEF order
    <3>4. /\ active' \subseteq Client /\ waiters' \subseteq Client
          /\ active' \cup waiters' = active \cup (waiters \cup {c})
          /\ waiters' \cap active' = {}
          /\ ahead' \in [Client -> SUBSET Client]
          /\ OneQueue'
          /\ \A d, e \in active' : d # e => ~Conflicts(lock'[d], lock'[e])
        BY <3>1, <3>2, DrainKeeps
    <3>5. \A d \in waiters' \cup active' : lock'[d] \in Lock
        BY <3>3, <3>4 DEF IInv, TypeOK, Placed
    <3> QED
        BY <3>3, <3>4, <3>5 DEF IInv, TypeOK, Placed, Exclusion
  <2>2. ASSUME NEW c \in Client, Release(c) PROVE IInv'
    <3>1. Drainable(active \ {c}, waiters, ahead, lock')
        BY <2>2, ReleaseDrains
    <3>2. Drain(active \ {c}, waiters, ahead, lock')
        BY <2>2 DEF Release
    <3>3. /\ lock' \in [Client -> Lock \cup {NoLock}]
          /\ \A d \in (waiters \cup active) \ {c} : lock'[d] = lock[d]
          /\ c \notin waiters
        BY <2>2, ReleaseDrains
    <3>4. /\ active' \subseteq Client /\ waiters' \subseteq Client
          /\ active' \cup waiters' = (active \ {c}) \cup waiters
          /\ waiters' \cap active' = {}
          /\ ahead' \in [Client -> SUBSET Client]
          /\ OneQueue'
          /\ \A d, e \in active' : d # e => ~Conflicts(lock'[d], lock'[e])
        BY <3>1, <3>2, DrainKeeps
    <3>5. \A d \in waiters' \cup active' : lock'[d] \in Lock
        BY <3>3, <3>4 DEF IInv, TypeOK, Placed
    <3> QED
        BY <3>3, <3>4, <3>5 DEF IInv, TypeOK, Placed, Exclusion
  <2>3. CASE UNCHANGED vars
      BY <2>3 DEF vars, IInv, TypeOK, Placed, OneQueue, Exclusion
  <2> QED
      BY <2>1, <2>2, <2>3 DEF Next
<1> QED
    BY <1>1, <1>2, PTL DEF Spec

(* The variables keep their types. *)
THEOREM TypeCorrect == Spec => []TypeOK
<1>1. IInv => TypeOK
    BY DEF IInv
<1> QED
    BY <1>1, Invariance, PTL

(* No two conflicting requests hold their locks at the same time. *)
THEOREM MutualExclusion == Spec => []Exclusion
<1>1. IInv => Exclusion
    BY DEF IInv
<1> QED
    BY <1>1, Invariance, PTL

(* The waiters always form one arrival queue, the array drain() scans: of  *)
(* any two, exactly one is ahead of the other.                             *)
THEOREM OneArrivalOrder == Spec => []OneQueue
<1>1. IInv => OneQueue
    BY DEF IInv
<1> QED
    BY <1>1, Invariance, PTL

(* No wakeup is lost: whoever waits conflicts with a granted lock or with  *)
(* an earlier waiter.                                                      *)
THEOREM NoLostWakeup == Spec => []WaitsForAReason
<1>1. Init => WaitsForAReason
    BY DEF Init, WaitsForAReason
<1>2. IInv /\ WaitsForAReason /\ [Next]_vars => WaitsForAReason'
  <2> SUFFICES ASSUME IInv, WaitsForAReason, [Next]_vars PROVE WaitsForAReason'
      OBVIOUS
  <2>1. ASSUME NEW c \in Client, NEW l \in Lock, Acquire(c, l)
        PROVE  WaitsForAReason'
    <3>1. waiters \cup {c} \subseteq Client
        BY DEF IInv, TypeOK
    <3>2. Drain(active, waiters \cup {c}, [ahead EXCEPT ![c] = waiters], lock')
        BY <2>1 DEF Acquire
    <3> QED
        BY <3>1, <3>2, DrainLeavesBlocked DEF WaitsForAReason
  <2>2. ASSUME NEW c \in Client, Release(c) PROVE WaitsForAReason'
    <3>1. waiters \subseteq Client
        BY DEF IInv, TypeOK
    <3>2. Drain(active \ {c}, waiters, ahead, lock')
        BY <2>2 DEF Release
    <3> QED
        BY <3>1, <3>2, DrainLeavesBlocked DEF WaitsForAReason
  <2>3. CASE UNCHANGED vars
      BY <2>3 DEF vars, WaitsForAReason
  <2> QED
      BY <2>1, <2>2, <2>3 DEF Next
<1> QED
    BY <1>1, <1>2, Invariance, PTL DEF Spec

-----------------------------------------------------------------------------
(* A drain grants no request that conflicts with one ahead of it. *)
LEMMA DrainGrantsInOrder ==
    ASSUME NEW acts, NEW waits, NEW order, NEW lk,
           Drain(acts, waits, order, lk)
    PROVE  /\ \A d \in active' \ acts : \A c \in acts \cup order[d] : ~Conflicts(lk[d], lk[c])
           /\ active' \subseteq acts \cup waits
BY DEF Drain, Grantable

(* A request is never granted past an earlier one it conflicts with, so    *)
(* later arrivals cannot keep a waiting writer out.                        *)
THEOREM FirstComeFirstServed == Spec => NoOvertaking
<1>1. IInv /\ [Next]_vars => [GrantsInOrder]_vars
  <2> SUFFICES ASSUME IInv, Next, NEW d \in active' \ active,
                      NEW c \in waiters \cap waiters',
                      d \in waiters => c \in ahead[d]
               PROVE  ~Conflicts(lock'[d], lock[c])
      BY DEF GrantsInOrder
  <2>1. ASSUME NEW e \in Client, NEW l \in Lock, Acquire(e, l)
        PROVE  ~Conflicts(lock'[d], lock[c])
    <3> DEFINE order == [ahead EXCEPT ![e] = waiters]
    <3>1. Drain(active, waiters \cup {e}, order, lock')
        BY <2>1 DEF Acquire
    <3>2. /\ lock'[c] = lock[c]
          /\ e \notin waiters
        BY <2>1, AcquireDrains DEF Acquire
    <3>3. order[e] = waiters /\ \A x \in waiters : order[x] = ahead[x]
        BY <3>2 DEF IInv, TypeOK
    <3> HIDE DEF order
    <3>4. d \in waiters \cup {e}
        BY <3>1, DrainGrantsInOrder
    <3>5. c \in order[d]
        BY <3>3, <3>4
    <3> QED
        BY <3>1, <3>2, <3>5, DrainGrantsInOrder
  <2>2. ASSUME NEW e \in Client, Release(e) PROVE ~Conflicts(lock'[d], lock[c])
    <3>1. Drain(active \ {e}, waiters, ahead, lock')
        BY <2>2 DEF Release
    <3>2. lock'[c] = lock[c]
        BY <2>2, ReleaseDrains
    <3>3. d \in waiters
        BY <3>1, DrainGrantsInOrder
    <3> QED
        BY <3>1, <3>2, <3>3, DrainGrantsInOrder
  <2> QED
      BY <2>1, <2>2 DEF Next
<1> QED
    BY <1>1, Invariance, PTL DEF Spec, NoOvertaking

-----------------------------------------------------------------------------
(* The queue and its drain implement the abstract lock: every operation is *)
(* an abstract arrival or departure that admits a compatible set.          *)
THEOREM Refinement == Spec => ImplementsLock
<1>1. Init => Abstract!Init
    BY DEF Init, Abstract!Init
<1>2. IInv /\ IInv' /\ [Next]_vars => [Abstract!Next]_(Abstract!vars)
  <2> DEFINE request == {<<c, lock[c]>> : c \in waiters \cup active}
  <2> SUFFICES ASSUME IInv, IInv', [Next]_vars
               PROVE  [Abstract!Next]_(Abstract!vars)
      OBVIOUS
  <2>1. Abstract!Compatible(request', active')
    <3>1. \A p, q \in request' :
             p[1] \in active' /\ q[1] \in active' /\ p[1] # q[1]
                => ~Conflicts(p[2], q[2])
        BY DEF IInv, Exclusion
    <3> QED
        BY <3>1 DEF Abstract!Compatible
  <2>2. active' \subseteq {r[1] : r \in request'}
    <3> SUFFICES ASSUME NEW c \in active' PROVE \E r \in request' : c = r[1]
        OBVIOUS
    <3> WITNESS <<c, lock'[c]>> \in request'
    <3> QED
        OBVIOUS
  <2>3. ASSUME NEW c \in Client, NEW l \in Lock, Acquire(c, l)
        PROVE  Abstract!Acquire(c, l)
    <3>1. Drainable(active, waiters \cup {c}, [ahead EXCEPT ![c] = waiters], lock')
        BY <2>3, AcquireDrains
    <3>2. /\ active \subseteq active'
          /\ active' \cup waiters' = active \cup (waiters \cup {c})
        BY <2>3, <3>1, DrainKeeps DEF Acquire
    <3>3. /\ lock'[c] = l
          /\ \A d \in (waiters \cup active) : lock'[d] = lock[d]
          /\ c \notin waiters \cup active
        BY <2>3, AcquireDrains DEF Acquire
    <3>4. request' = request \cup {<<c, l>>}
        BY <3>2, <3>3
    <3>5. c \notin {r[1] : r \in request}
        BY <3>3
    <3> QED
        BY <2>1, <2>2, <3>2, <3>4, <3>5
        DEF Abstract!Acquire, Abstract!Requesting, Abstract!Admit
  <2>4. ASSUME NEW c \in Client, Release(c) PROVE Abstract!Release(c)
    <3>1. Drainable(active \ {c}, waiters, ahead, lock')
        BY <2>4, ReleaseDrains
    <3>2. /\ active \ {c} \subseteq active'
          /\ active' \cup waiters' = (active \ {c}) \cup waiters
        BY <2>4, <3>1, DrainKeeps DEF Release
    <3>3. /\ \A d \in (waiters \cup active) \ {c} : lock'[d] = lock[d]
          /\ c \notin waiters /\ c \in active
        BY <2>4, ReleaseDrains DEF Release
    <3>4. request' = {r \in request : r[1] # c}
        BY <3>2, <3>3
    <3> QED
        BY <2>1, <2>2, <3>2, <3>3, <3>4 DEF Abstract!Release, Abstract!Admit
  <2>5. CASE UNCHANGED vars
      BY <2>5 DEF vars, Abstract!vars
  <2> QED
      BY <2>3, <2>4, <2>5 DEF Next, Abstract!Next
<1> QED
    BY <1>1, <1>2, Invariance, PTL DEF Spec, ImplementsLock, Abstract!Spec

-----------------------------------------------------------------------------
(* Facts about numbers, for the scans of the loop. *)

(* A set of numbers has a least one.                                       *)
LEMMA LeastNumber ==
    ASSUME NEW T \in SUBSET Nat, T # {}
    PROVE  \E x \in T : \A y \in T : x <= y
<1> DEFINE upTo == {0..x : x \in T}
<1>1. upTo \subseteq FiniteSubsetsOf(Nat) /\ upTo # {}
  <2>1. \A x \in T : 0..x \in SUBSET Nat /\ IsFiniteSet(0..x)
      BY FS_Interval
  <2> QED
      BY <2>1 DEF FiniteSubsetsOf
<1>2. PICK least \in upTo : \A y \in upTo : <<y, least>> \notin StrictSubsetOrdering(Nat)
  <2> HIDE DEF upTo
  <2> QED
      BY <1>1, FS_StrictSubsetOrderingWellFounded, WFMin
<1>3. PICK x \in T : least = 0..x
    OBVIOUS
<1>4. ASSUME NEW y \in T PROVE x <= y
  <2> SUFFICES ASSUME y < x PROVE FALSE
      OBVIOUS
  <2>1. 0..y \in upTo /\ 0..y \in SUBSET Nat /\ 0..x \in SUBSET Nat
      OBVIOUS
  <2>2. 0..y \subseteq 0..x /\ x \in 0..x /\ x \notin 0..y
      OBVIOUS
  <2> QED
      BY <1>2, <1>3, <2>1, <2>2 DEF StrictSubsetOrdering
<1> QED
    BY <1>4

(* A set that holds 0 and the successor of each number it holds.           *)
LEMMA AllNumbers ==
    ASSUME NEW T, 0 \in T, \A k \in Nat : k \in T => k + 1 \in T
    PROVE  Nat \subseteq T
<1> SUFFICES ASSUME Nat \ T # {} PROVE FALSE
    OBVIOUS
<1>1. PICK k \in Nat \ T : \A y \in Nat \ T : k <= y
    BY LeastNumber
<1>2. k # 0 /\ k - 1 \in Nat /\ k - 1 \in T
    BY <1>1
<1>3. (k - 1) + 1 \in T
    BY <1>2
<1> QED
    BY <1>3

(* The function that iterates `step` from `base`.                          *)
Iterates(f, V, base, step, last) ==
    /\ f \in [0..last -> V]
    /\ \A k \in 0..last : f[k] = IF k = 0 THEN base ELSE step[f[k - 1]]

LEMMA Iterated ==
    ASSUME NEW V, NEW base \in V, NEW step \in [V -> V], NEW last \in Nat
    PROVE  \E f : Iterates(f, V, base, step, last)
<1> DEFINE Fits(f, k) ==
              /\ f \in [0..k -> V]
              /\ \A j \in 0..k : f[j] = IF j = 0 THEN base ELSE step[f[j - 1]]
           T == {k \in Nat : \E f \in [0..k -> V] : Fits(f, k)}
<1>1. 0 \in T
  <2>1. Fits([j \in 0..0 |-> base], 0)
      OBVIOUS
  <2> QED
      BY <2>1
<1>2. ASSUME NEW k \in Nat, k \in T PROVE k + 1 \in T
  <2>1. PICK f : Fits(f, k)
      BY <1>2
  <2> DEFINE g == [j \in 0..(k + 1) |-> IF j <= k THEN f[j] ELSE step[f[k]]]
  <2>2. g \in [0..(k + 1) -> V]
    <3>1. f[k] \in V
        BY <2>1
    <3>2. \A j \in 0..(k + 1) : j <= k => j \in 0..k
        OBVIOUS
    <3> QED
        BY <2>1, <3>1, <3>2
  <2>3. ASSUME NEW j \in 0..(k + 1)
        PROVE  g[j] = IF j = 0 THEN base ELSE step[g[j - 1]]
    <3>1. CASE j <= k
      <4>1. j \in 0..k /\ (j # 0 => j - 1 \in 0..k /\ j - 1 \in 0..(k + 1))
          BY <3>1
      <4>2. g[j] = f[j] /\ (j # 0 => g[j - 1] = f[j - 1])
          BY <3>1, <4>1
      <4> QED
          BY <2>1, <4>1, <4>2
    <3>2. CASE j = k + 1
      <4>1. j # 0 /\ j - 1 = k /\ k \in 0..(k + 1)
          BY <3>2
      <4>2. g[j] = step[f[k]] /\ g[k] = f[k]
          BY <3>2
      <4> QED
          BY <4>1, <4>2
    <3> QED
        BY <3>1, <3>2
  <2>4. Fits(g, k + 1)
      BY <2>2, <2>3
  <2> HIDE DEF g
  <2> QED
      BY <2>2, <2>4
<1>3. last \in T
  <2> HIDE DEF T
  <2> QED
      BY <1>1, <1>2, AllNumbers
<1> QED
    BY <1>3 DEF Iterates

-----------------------------------------------------------------------------
(* The loop of drain(). *)

(* Some waiter comes first among any of them. *)
LEMMA OneIsFirst ==
    ASSUME NEW acts, NEW waits, NEW order, NEW lk, Drainable(acts, waits, order, lk),
           IsFiniteSet(waits), NEW able \in SUBSET waits, able # {}
    PROVE  \E c \in able : order[c] \cap able = {}
<1> DEFINE before == {order[c] \cap able : c \in able}
<1>1. before # {} /\ before \subseteq FiniteSubsetsOf(waits)
  <2>1. \A c \in able : order[c] \cap able \in SUBSET waits /\ IsFiniteSet(order[c] \cap able)
      BY FS_Subset
  <2> QED
      BY <2>1 DEF FiniteSubsetsOf
<1>2. PICK least \in before : \A y \in before : <<y, least>> \notin StrictSubsetOrdering(waits)
  <2> HIDE DEF before
  <2> QED
      BY <1>1, FS_StrictSubsetOrderingWellFounded, WFMin
<1>3. PICK c \in able : least = order[c] \cap able
    OBVIOUS
<1>4. ASSUME NEW d \in order[c] \cap able PROVE FALSE
  <2>1. order[d] \subseteq order[c] \ {c} /\ d # c /\ d \notin order[d]
    <3>1. c \in waits /\ d \in waits /\ d \in order[c]
        BY <1>4
    <3>2. order[d] \subseteq order[c] \ {c} /\ order[c] \subseteq waits
        BY <3>1 DEF Drainable
    <3>3. d # c
        BY <3>1, <3>2 DEF Drainable
    <3>4. d \notin order[d]
        BY <3>1 DEF Drainable
    <3> QED
        BY <3>2, <3>3, <3>4
  <2>2. order[d] \cap able \in before /\ order[d] \cap able \in SUBSET waits
        /\ order[c] \cap able \in SUBSET waits
      OBVIOUS
  <2>3. order[d] \cap able \subseteq order[c] \cap able /\ d \notin order[d] \cap able
      BY <2>1
  <2>4. order[d] \cap able # order[c] \cap able
      BY <1>4, <2>3
  <2> QED
      BY <1>2, <1>3, <2>2, <2>3, <2>4 DEF StrictSubsetOrdering
<1> QED
    BY <1>3, <1>4

(* A scan can grant exactly what is left of what may be granted: that a    *)
(* waiter before was granted does not change who is in the way of another. *)
LEMMA ScanSees ==
    ASSUME NEW acts, NEW waits, NEW order, NEW lk, Drainable(acts, waits, order, lk),
           NEW granted \in SUBSET Grantable(acts, waits, order, lk)
    PROVE  Able(acts \cup granted, waits \ granted, order, lk)
             = Grantable(acts, waits, order, lk) \ granted
<1> DEFINE all == Grantable(acts, waits, order, lk)
           able == Able(acts \cup granted, waits \ granted, order, lk)
<1>1. ASSUME NEW c \in able PROVE c \in all \ granted
  <2>1. /\ c \in waits \ granted
        /\ \A d \in (acts \cup granted) \cup (order[c] \cap (waits \ granted)) : ~Conflicts(lk[c], lk[d])
      BY DEF Able
  <2>2. order[c] \subseteq waits
      BY <2>1 DEF Drainable
  <2>3. \A d \in acts \cup order[c] : ~Conflicts(lk[c], lk[d])
      BY <2>1, <2>2
  <2> QED
      BY <2>1, <2>3 DEF Grantable
<1>2. ASSUME NEW c \in all \ granted PROVE c \in able
  <2>1. c \in waits \ granted /\ \A d \in acts \cup order[c] : ~Conflicts(lk[c], lk[d])
      BY DEF Grantable
  <2>2. ASSUME NEW d \in granted PROVE ~Conflicts(lk[c], lk[d])
    <3>1. d \in waits /\ (\A e \in acts \cup order[d] : ~Conflicts(lk[d], lk[e])) /\ c # d
        BY <2>1 DEF Grantable
    <3>2. c \in order[d] \/ d \in order[c]
        BY <2>1, <3>1 DEF Drainable
    <3> QED
        BY <2>1, <3>1, <3>2, ConflictsSymmetric
  <2> QED
      BY <2>1, <2>2 DEF Able
<1> QED
    BY <1>1, <1>2

(* The sets of grants the loop goes through. *)
LoopGoes(g, acts, waits, order, lk) ==
    /\ DrainLoop(acts, waits, order, lk) = g[Cardinality(waits)]
    /\ \A n \in 0..Cardinality(waits) :
         g[n] = IF n = 0 THEN {}
                ELSE LET able == Able(acts \cup g[n - 1], waits \ g[n - 1], order, lk)
                     IN  IF able = {} THEN g[n - 1]
                         ELSE g[n - 1] \cup {FirstOf(able, order)}

LEMMA LoopIsSeries ==
    ASSUME NEW acts, NEW waits, NEW order, NEW lk, Drainable(acts, waits, order, lk),
           IsFiniteSet(waits)
    PROVE  \E g : LoopGoes(g, acts, waits, order, lk)
<1>2. PICK last \in Nat : last = Cardinality(waits)
    BY FS_CardinalityType
<1> DEFINE more(S) == LET able == Able(acts \cup S, waits \ S, order, lk)
                      IN  IF able = {} THEN S ELSE S \cup {FirstOf(able, order)}
           step == [S \in SUBSET waits |-> more(S)]
           series(f) == [n \in 0..last |->
                           IF n = 0 THEN {}
                           ELSE LET before == f[n - 1]
                                    able == Able(acts \cup before, waits \ before, order, lk)
                                IN  IF able = {} THEN before
                                    ELSE before \cup {FirstOf(able, order)}]
           g == CHOOSE f : f = series(f)
<1>1. step \in [SUBSET waits -> SUBSET waits]
  <2>1. ASSUME NEW S \in SUBSET waits PROVE more(S) \in SUBSET waits
    <3> DEFINE able == Able(acts \cup S, waits \ S, order, lk)
    <3>1. able \in SUBSET waits
        BY DEF Able
    <3>2. CASE able = {}
        BY <3>2
    <3>3. CASE able # {}
      <4> HIDE DEF able
      <4>1. FirstOf(able, order) \in able
        <5>1. \E c \in able : order[c] \cap able = {}
            BY <3>1, <3>3, OneIsFirst
        <5> QED
            BY <5>1 DEF FirstOf
      <4> QED
          BY <3>1, <3>3, <4>1 DEF able
    <3> QED
        BY <3>2, <3>3
  <2> HIDE DEF more
  <2> QED
      BY <2>1
<1>3. PICK f : Iterates(f, SUBSET waits, {}, step, last)
  <2> HIDE DEF step
  <2> QED
      BY <1>1, Iterated
<1>4. \A k \in 0..last : k # 0 => k - 1 \in 0..last
    BY <1>2
<1>5. f = series(f)
  <2>1. ASSUME NEW k \in 0..last
        PROVE  f[k] = IF k = 0 THEN {} ELSE more(f[k - 1])
    <3>1. f[k] = IF k = 0 THEN {} ELSE step[f[k - 1]]
      <4> HIDE DEF step
      <4> QED
          BY <1>3, <2>1 DEF Iterates
    <3>2. k # 0 => f[k - 1] \in SUBSET waits
      <4> HIDE DEF step
      <4> QED
          BY <1>3, <1>4, <2>1 DEF Iterates
    <3> HIDE DEF more
    <3> QED
      BY <3>1, <3>2
  <2>2. f = [n \in 0..last |-> IF n = 0 THEN {} ELSE more(f[n - 1])]
    <3>1. f \in [0..last -> SUBSET waits]
        BY <1>3 DEF Iterates
    <3> HIDE DEF more
    <3> QED
        BY <2>1, <3>1
  <2> QED
      BY <2>2
<1>6. g = series(g)
  <2> HIDE DEF series
  <2> QED
      BY <1>5
<1>7. DrainLoop(acts, waits, order, lk) = g[last]
    BY <1>2 DEF DrainLoop
<1> HIDE DEF g
<1>8. \A n \in 0..last : g[n] = IF n = 0 THEN {} ELSE more(g[n - 1])
  <2>1. g = [n \in 0..last |-> IF n = 0 THEN {} ELSE more(g[n - 1])]
      BY <1>6
  <2> HIDE DEF more
  <2> QED
      BY <2>1
<1> QED
    BY <1>2, <1>7, <1>8 DEF LoopGoes

(* What the loop grants one by one is what Grantable grants at once. *)
LEMMA LoopGrantsAll ==
    ASSUME NEW acts, NEW waits, NEW order, NEW lk, Drainable(acts, waits, order, lk),
           IsFiniteSet(waits)
    PROVE  DrainLoop(acts, waits, order, lk) = Grantable(acts, waits, order, lk)
<1> DEFINE all == Grantable(acts, waits, order, lk)
<1>0. PICK last \in Nat : last = Cardinality(waits)
    BY FS_CardinalityType
<1>1. PICK g : /\ DrainLoop(acts, waits, order, lk) = g[last]
               /\ \A n \in 0..last :
                    g[n] = IF n = 0 THEN {}
                           ELSE LET able == Able(acts \cup g[n - 1], waits \ g[n - 1], order, lk)
                                IN  IF able = {} THEN g[n - 1]
                                    ELSE g[n - 1] \cup {FirstOf(able, order)}
  <2>1. \E g : LoopGoes(g, acts, waits, order, lk)
      BY LoopIsSeries
  <2> QED
      BY <1>0, <2>1 DEF LoopGoes
<1>2. last \in Nat /\ all \subseteq waits
    BY <1>0 DEF Grantable
<1> DEFINE T == {n \in Nat : n <= last =>
                    g[n] \subseteq all /\ (g[n] = all \/ Cardinality(g[n]) = n)}
<1>3. 0 \in T
  <2>1. 0 \in 0..last
      BY <1>2
  <2>2. g[0] = {}
      BY <1>1, <2>1
  <2>3. Cardinality({}) = 0
      BY FS_EmptySet
  <2> HIDE DEF all
  <2> QED
      BY <2>2, <2>3
<1>4. ASSUME NEW n \in Nat, n \in T PROVE n + 1 \in T
  <2> SUFFICES ASSUME n + 1 <= last
               PROVE  /\ g[n + 1] \subseteq all
                      /\ g[n + 1] = all \/ Cardinality(g[n + 1]) = n + 1
      OBVIOUS
  <2>1. g[n] \subseteq all /\ (g[n] = all \/ Cardinality(g[n]) = n)
      BY <1>2, <1>4
  <2> DEFINE able == Able(acts \cup g[n], waits \ g[n], order, lk)
             first == FirstOf(able, order)
  <2>2. able = all \ g[n]
      BY <2>1, ScanSees
  <2>3. g[n + 1] = IF able = {} THEN g[n] ELSE g[n] \cup {first}
    <3>1. n + 1 \in 0..last /\ n + 1 # 0 /\ (n + 1) - 1 = n
        BY <1>2
    <3>2. \A k \in 0..last : k # 0 =>
             g[k] = LET some == Able(acts \cup g[k - 1], waits \ g[k - 1], order, lk)
                    IN  IF some = {} THEN g[k - 1]
                        ELSE g[k - 1] \cup {FirstOf(some, order)}
        BY <1>1
    <3>3. g[n + 1] = LET some == Able(acts \cup g[(n + 1) - 1], waits \ g[(n + 1) - 1], order, lk)
                     IN  IF some = {} THEN g[(n + 1) - 1]
                         ELSE g[(n + 1) - 1] \cup {FirstOf(some, order)}
        BY <3>1, <3>2
    <3> QED
        BY <3>1, <3>3
  <2> HIDE DEF able
  <2>4. CASE able = {}
      BY <2>1, <2>2, <2>3, <2>4
  <2>5. CASE able # {}
    <3>1. first \in able
      <4>1. \E c \in able : order[c] \cap able = {}
          BY <1>2, <2>2, <2>5, OneIsFirst
      <4> QED
          BY <4>1 DEF FirstOf
    <3>2. IsFiniteSet(g[n])
        BY <1>2, <2>1, FS_Subset
    <3> HIDE DEF first
    <3>3. Cardinality(g[n] \cup {first}) = Cardinality(g[n]) + 1
        BY <2>2, <3>1, <3>2, FS_AddElement
    <3>4. Cardinality(g[n]) = n
        BY <2>1, <2>2, <2>5
    <3> QED
        BY <2>1, <2>2, <2>3, <2>5, <3>1, <3>3, <3>4
  <2> QED
      BY <2>4, <2>5
<1>5. last \in T
  <2> HIDE DEF T
  <2> QED
      BY <1>2, <1>3, <1>4, AllNumbers
<1>6. g[last] \subseteq all /\ (g[last] = all \/ Cardinality(g[last]) = last)
    BY <1>2, <1>5
<1>7. CASE Cardinality(g[last]) = last
  <2>1. g[last] = waits
      BY <1>0, <1>2, <1>6, <1>7, FS_Subset
  <2>2. g[last] = all
    <3> HIDE DEF all
    <3> QED
      BY <1>2, <1>6, <2>1
  <2> QED
      BY <1>1, <2>2
<1> QED
    BY <1>1, <1>6, <1>7

(* The array of waiters is finite, however many clients there may be. *)
LEMMA FinitelyManyWait == Spec => []IsFiniteSet(waiters)
<1>1. Init => IsFiniteSet(waiters)
    BY FS_EmptySet DEF Init
<1>2. IsFiniteSet(waiters) /\ [Next]_vars => IsFiniteSet(waiters)'
  <2> SUFFICES ASSUME IsFiniteSet(waiters), [Next]_vars PROVE IsFiniteSet(waiters')
      OBVIOUS
  <2>1. \E c : waiters' \subseteq waiters \cup {c}
    <3>1. ASSUME NEW c \in Client, Release(c) PROVE waiters' \subseteq waiters
        BY <3>1 DEF Release, Drain
    <3>2. ASSUME NEW c \in Client, NEW l \in Lock, Acquire(c, l)
          PROVE  waiters' \subseteq waiters \cup {c}
        BY <3>2 DEF Acquire, Drain
    <3> QED
        BY <3>1, <3>2 DEF Next, vars
  <2>2. PICK c : waiters' \subseteq waiters \cup {c}
      BY <2>1
  <2> QED
      BY <2>2, FS_AddElement, FS_Subset
<1> QED
    BY <1>1, <1>2, PTL DEF Spec

(* The scans of drain(), which grant the first waiter they can and start   *)
(* over (files-api.ts, drain), end with exactly the grants of one step of  *)
(* this specification, for any queue that can arise.                       *)
THEOREM DrainGrantsAtOnce == Spec => []DrainIsTheLoop
<1>1. IInv /\ IsFiniteSet(waiters) => DrainIsTheLoop
  <2> SUFFICES ASSUME IInv, IsFiniteSet(waiters) PROVE DrainIsTheLoop
      OBVIOUS
  <2>1. ASSUME NEW c \in active
        PROVE  DrainLoop(active \ {c}, waiters, ahead, [lock EXCEPT ![c] = NoLock])
                 = Grantable(active \ {c}, waiters, ahead, [lock EXCEPT ![c] = NoLock])
      BY DepartureDrainable, LoopGrantsAll
  <2>2. ASSUME NEW c \in Client \ (waiters \cup active), NEW l \in Lock
        PROVE  DrainLoop(active, waiters \cup {c}, [ahead EXCEPT ![c] = waiters], [lock EXCEPT ![c] = l])
                 = Grantable(active, waiters \cup {c}, [ahead EXCEPT ![c] = waiters], [lock EXCEPT ![c] = l])
    <3>1. IsFiniteSet(waiters \cup {c})
        BY FS_AddElement
    <3> QED
        BY <3>1, ArrivalDrainable, LoopGrantsAll
  <2> QED
      BY <2>1, <2>2 DEF DrainIsTheLoop
<1> QED
    BY <1>1, Invariance, FinitelyManyWait, PTL

=============================================================================
