------------------------- MODULE MountedVolumeProofs -------------------------
(***************************************************************************)
(* Proofs about the tables of a volume and the mounts that use them, for   *)
(* any number of inodes, names and mounts, any workload, and any bounds.   *)
(*                                                                         *)
(* The first part is about the namespace under the operations of the       *)
(* Worker (WorkerSpec).  What path lookups reach, Below, is defined by     *)
(* recursion.  It is shown to be the least set of inodes that holds its    *)
(* start and is closed under entries.  Induction is over sets of numbers,  *)
(* that is, by their least element.                                        *)
(*                                                                         *)
(* The second part is about open-inode leases (Spec).  A release gives its *)
(* handle up first and its count in the lease row one statement later, so  *)
(* the row may count one handle more than the mount has.  PendingCounted   *)
(* says so.  That the inode itself stays behind an open handle needs more: *)
(* KeptInv says what the requests under way still have right about their   *)
(* inodes.                                                                 *)
(***************************************************************************)
EXTENDS MountedVolume, FiniteSetTheorems, WellFoundedInduction, TLAPS

-----------------------------------------------------------------------------
(* Induction *)

(* A set of numbers has a least one.                                       *)
LEMMA LeastNumber ==
    ASSUME NEW T \in SUBSET Nat, T # {}
    PROVE  \E x \in T : \A y \in T : x <= y
<1> DEFINE upTo == {0..x : x \in T}
<1>1. upTo \subseteq FiniteSubsetsOf(Nat) /\ upTo # {}
  <2>1. \A x \in T : 0..x \in SUBSET Nat /\ IsFiniteSet(0..x)
      BY FS_Interval
  <2> QED
      BY <2>1 DEF FiniteSubsetsOf
<1>2. PICK least \in upTo : \A y \in upTo : <<y, least>> \notin StrictSubsetOrdering(Nat)
  <2> HIDE DEF upTo
  <2> QED
      BY <1>1, FS_StrictSubsetOrderingWellFounded, WFMin
<1>3. PICK x \in T : least = 0..x
    OBVIOUS
<1>4. ASSUME NEW y \in T PROVE x <= y
  <2> SUFFICES ASSUME y < x PROVE FALSE
      OBVIOUS
  <2>1. 0..y \in upTo /\ 0..y \in SUBSET Nat /\ 0..x \in SUBSET Nat
      OBVIOUS
  <2>2. 0..y \subseteq 0..x /\ x \in 0..x /\ x \notin 0..y
      OBVIOUS
  <2> QED
      BY <1>2, <1>3, <2>1, <2>2 DEF StrictSubsetOrdering
<1> QED
    BY <1>4

(* A set that holds 0 and the successor of each number it holds.           *)
LEMMA AllNumbers ==
    ASSUME NEW T, 0 \in T, \A k \in Nat : k \in T => k + 1 \in T
    PROVE  Nat \subseteq T
<1> SUFFICES ASSUME Nat \ T # {} PROVE FALSE
    OBVIOUS
<1>1. PICK k \in Nat \ T : \A y \in Nat \ T : k <= y
    BY LeastNumber
<1>2. k # 0 /\ k - 1 \in Nat /\ k - 1 \in T
    BY <1>1
<1>3. (k - 1) + 1 \in T
    BY <1>2
<1> QED
    BY <1>3

(* The function that iterates `step` from `base`.                          *)
LEMMA Iterated ==
    ASSUME NEW V, NEW base \in V, NEW step \in [V -> V], NEW last \in Nat
    PROVE  \E f \in [0..last -> V] :
               \A k \in 0..last : f[k] = IF k = 0 THEN base ELSE step[f[k - 1]]
<1> DEFINE Fits(f, k) ==
              /\ f \in [0..k -> V]
              /\ \A j \in 0..k : f[j] = IF j = 0 THEN base ELSE step[f[j - 1]]
           T == {k \in Nat : \E f \in [0..k -> V] : Fits(f, k)}
<1>1. 0 \in T
  <2>1. Fits([j \in 0..0 |-> base], 0)
      OBVIOUS
  <2> QED
      BY <2>1
<1>2. ASSUME NEW k \in Nat, k \in T PROVE k + 1 \in T
  <2>1. PICK f : Fits(f, k)
      BY <1>2
  <2> DEFINE g == [j \in 0..(k + 1) |-> IF j <= k THEN f[j] ELSE step[f[k]]]
  <2>2. g \in [0..(k + 1) -> V]
    <3>1. f[k] \in V
        BY <2>1
    <3>2. \A j \in 0..(k + 1) : j <= k => j \in 0..k
        OBVIOUS
    <3> QED
        BY <2>1, <3>1, <3>2
  <2>3. ASSUME NEW j \in 0..(k + 1)
        PROVE  g[j] = IF j = 0 THEN base ELSE step[g[j - 1]]
    <3>1. CASE j <= k
      <4>1. j \in 0..k /\ (j # 0 => j - 1 \in 0..k /\ j - 1 \in 0..(k + 1))
          BY <3>1
      <4>2. g[j] = f[j] /\ (j # 0 => g[j - 1] = f[j - 1])
          BY <3>1, <4>1
      <4> QED
          BY <2>1, <4>1, <4>2
    <3>2. CASE j = k + 1
      <4>1. j # 0 /\ j - 1 = k /\ k \in 0..(k + 1)
          BY <3>2
      <4>2. g[j] = step[f[k]] /\ g[k] = f[k]
          BY <3>2
      <4> QED
          BY <4>1, <4>2
    <3> QED
        BY <3>1, <3>2
  <2>4. Fits(g, k + 1)
      BY <2>2, <2>3
  <2> HIDE DEF g
  <2> QED
      BY <2>2, <2>4
<1>3. last \in T
  <2> HIDE DEF T
  <2> QED
      BY <1>1, <1>2, AllNumbers
<1> QED
    BY <1>3

-----------------------------------------------------------------------------
(* What path lookups reach *)

AnyKind == {"none", "file", "dir"}

(* A lookup that is in S, in an inode of a kind in `kinds`, stays in S.    *)
Closed(S, kinds) ==
    \A x \in Place : x[1] \in S /\ kind[x[1]] \in kinds /\ entry[x] # NoIno
                       => entry[x] \in S

(* Below is the last of a series of sets of inodes, each of them the one   *)
(* before it with what the entries in it lead to.                          *)
LEMMA BelowIsSeries ==
    ASSUME NEW d \in Ino, NEW kinds, entry \in [Place -> Ino \cup {NoIno}]
    PROVE  \E walk \in [0..MaxIno -> SUBSET Ino] :
              /\ Below(d, kinds) = walk[MaxIno]
              /\ \A k \in 0..MaxIno :
                    walk[k] = IF k = 0 THEN {d}
                              ELSE walk[k - 1] \cup
                                   {entry[x] : x \in {y \in {i \in walk[k - 1] : kind[i] \in kinds} \X Name :
                                                        entry[y] # NoIno}}
<1> DEFINE next(from) == {entry[x] : x \in {y \in from \X Name : entry[y] # NoIno}}
           grown(S) == S \cup next({i \in S : kind[i] \in kinds})
           step == [S \in SUBSET Ino |-> grown(S)]
           series(f) == [k \in 0..MaxIno |->
                           IF k = 0 THEN {d}
                           ELSE LET near == f[k - 1]
                                IN  near \cup next({i \in near : kind[i] \in kinds})]
           walk == CHOOSE f : f = series(f)
<1>1. step \in [SUBSET Ino -> SUBSET Ino]
  <2>1. ASSUME NEW S \in SUBSET Ino PROVE grown(S) \in SUBSET Ino
      BY DEF Place
  <2> QED
      BY <2>1
<1>2. {d} \in SUBSET Ino /\ MaxIno \in Nat
    BY VolumeAssumption
<1>3. PICK f \in [0..MaxIno -> SUBSET Ino] :
           \A k \in 0..MaxIno : f[k] = IF k = 0 THEN {d} ELSE step[f[k - 1]]
  <2> DEFINE V == SUBSET Ino
             base == {d}
  <2>1. base \in V /\ step \in [V -> V] /\ MaxIno \in Nat
      BY <1>1, <1>2
  <2> HIDE DEF step, V, base
  <2>2. \E f \in [0..MaxIno -> V] :
            \A k \in 0..MaxIno : f[k] = IF k = 0 THEN base ELSE step[f[k - 1]]
      BY <2>1, Iterated, Z3
  <2> QED
      BY <2>2 DEF V, base
<1>4. \A k \in 0..MaxIno : k # 0 => k - 1 \in 0..MaxIno
    BY <1>2
<1>5. f = series(f)
  <2>1. ASSUME NEW k \in 0..MaxIno
        PROVE  f[k] = IF k = 0 THEN {d} ELSE grown(f[k - 1])
      BY <1>3, <1>4, <2>1
  <2> HIDE DEF next
  <2> QED
      BY <2>1
<1>6. walk = series(walk)
  <2> HIDE DEF series
  <2> QED
      BY <1>5
<1>7. Below(d, kinds) = walk[MaxIno]
    BY DEF Below
<1> HIDE DEF walk
<1>8. \A k \in 0..MaxIno : walk[k] = IF k = 0 THEN {d} ELSE grown(walk[k - 1])
  <2> HIDE DEF next
  <2> QED
      BY <1>6
<1>9. \A k \in Nat : k <= MaxIno => walk[k] \in SUBSET Ino
  <2> DEFINE T == {k \in Nat : k <= MaxIno => walk[k] \in SUBSET Ino}
  <2>1. 0 \in T
    <3>1. 0 \in 0..MaxIno
        BY <1>2
    <3> HIDE DEF grown
    <3>2. walk[0] = {d}
        BY <1>8, <3>1
    <3> QED
        BY <1>2, <3>2
  <2>2. ASSUME NEW k \in Nat, k \in T PROVE k + 1 \in T
    <3> SUFFICES ASSUME k + 1 <= MaxIno PROVE walk[k + 1] \in SUBSET Ino
        OBVIOUS
    <3>1. walk[k] \in SUBSET Ino
        BY <1>2, <2>2
    <3>2. walk[k + 1] = grown(walk[k])
      <4>1. k + 1 \in 0..MaxIno /\ k + 1 # 0 /\ (k + 1) - 1 = k
          BY <1>2
      <4> HIDE DEF grown
      <4> QED
          BY <1>8, <4>1
    <3>3. step[walk[k]] = grown(walk[k])
        BY <3>1
    <3> HIDE DEF step, grown
    <3> QED
        BY <1>1, <3>1, <3>2, <3>3
  <2> HIDE DEF T
  <2>3. Nat \subseteq T
      BY <2>1, <2>2, AllNumbers
  <2> QED
      BY <2>3 DEF T
<1>10. walk \in [0..MaxIno -> SUBSET Ino]
  <2>1. walk = [k \in 0..MaxIno |-> walk[k]]
    <3> HIDE DEF next
    <3> QED
      BY <1>6
  <2>2. \A k \in 0..MaxIno : walk[k] \in SUBSET Ino
      BY <1>2, <1>9
  <2> QED
      BY <2>1, <2>2
<1> QED
    BY <1>7, <1>8, <1>10

(* Below(d, kinds) is the least set of inodes that holds d and is closed.  *)
LEMMA BelowIsLeast ==
    ASSUME NEW d \in Ino, NEW kinds, entry \in [Place -> Ino \cup {NoIno}]
    PROVE  /\ Below(d, kinds) \subseteq Ino /\ d \in Below(d, kinds)
           /\ Closed(Below(d, kinds), kinds)
           /\ \A U : d \in U /\ Closed(U, kinds) => Below(d, kinds) \subseteq U
<1> DEFINE targets(S) == {entry[x] : x \in {y \in {i \in S : kind[i] \in kinds} \X Name : entry[y] # NoIno}}
<1>1. PICK walk \in [0..MaxIno -> SUBSET Ino] :
           /\ Below(d, kinds) = walk[MaxIno]
           /\ \A k \in 0..MaxIno :
                 walk[k] = IF k = 0 THEN {d} ELSE walk[k - 1] \cup targets(walk[k - 1])
    BY BelowIsSeries
<1>2. MaxIno \in Nat \ {0} /\ 0 \in 0..MaxIno /\ MaxIno \in 0..MaxIno
    BY VolumeAssumption
<1>3. IsFiniteSet(Ino) /\ Cardinality(Ino) = MaxIno
    BY <1>2, FS_Interval DEF Ino
<1>4. ASSUME NEW S \in SUBSET Ino
      PROVE  /\ targets(S) \subseteq S => Closed(S, kinds)
             /\ Closed(S, kinds) => targets(S) \subseteq S
  <2>1. ASSUME targets(S) \subseteq S, NEW x \in Place,
               x[1] \in S, kind[x[1]] \in kinds, entry[x] # NoIno
        PROVE  entry[x] \in S
    <3>1. x \in {i \in S : kind[i] \in kinds} \X Name
        BY <2>1 DEF Place
    <3> QED
        BY <2>1, <3>1
  <2>2. ASSUME Closed(S, kinds), NEW x \in {i \in S : kind[i] \in kinds} \X Name, entry[x] # NoIno
        PROVE  entry[x] \in S
      BY <2>2 DEF Closed, Place
  <2> QED
      BY <2>1, <2>2 DEF Closed
<1> HIDE DEF targets
<1>5. walk[0] = {d}
    BY <1>1, <1>2
<1>6. ASSUME NEW k \in Nat, k + 1 <= MaxIno
      PROVE  /\ walk[k] \in SUBSET Ino /\ walk[k + 1] \in SUBSET Ino
             /\ walk[k + 1] = walk[k] \cup targets(walk[k])
  <2>1. k \in 0..MaxIno /\ k + 1 \in 0..MaxIno /\ k + 1 # 0 /\ (k + 1) - 1 = k
      BY <1>2, <1>6
  <2>2. walk[k + 1] = walk[(k + 1) - 1] \cup targets(walk[(k + 1) - 1])
      BY <1>1, <2>1
  <2> QED
      BY <1>1, <2>1, <2>2
<1>7. \A k \in Nat : k <= MaxIno => d \in walk[k]
  <2> DEFINE T == {k \in Nat : k <= MaxIno => d \in walk[k]}
  <2>1. 0 \in T
      BY <1>5
  <2>2. ASSUME NEW k \in Nat, k \in T PROVE k + 1 \in T
      BY <1>2, <1>6, <2>2
  <2> HIDE DEF T
  <2>3. Nat \subseteq T
      BY <2>1, <2>2, AllNumbers
  <2> QED
      BY <2>3 DEF T
<1>8. \A k \in Nat : k <= MaxIno => targets(walk[k]) \subseteq walk[k] \/ Cardinality(walk[k]) >= k + 1
  <2> DEFINE T == {k \in Nat : k <= MaxIno => targets(walk[k]) \subseteq walk[k] \/ Cardinality(walk[k]) >= k + 1}
  <2>1. 0 \in T
    <3>1. Cardinality(walk[0]) = 1
        BY <1>5, FS_Singleton
    <3> QED
        BY <3>1
  <2>2. ASSUME NEW k \in Nat, k \in T PROVE k + 1 \in T
    <3> SUFFICES ASSUME k + 1 <= MaxIno
                 PROVE  \/ targets(walk[k + 1]) \subseteq walk[k + 1]
                        \/ Cardinality(walk[k + 1]) >= k + 2
        OBVIOUS
    <3>1. targets(walk[k]) \subseteq walk[k] \/ Cardinality(walk[k]) >= k + 1
        BY <1>2, <2>2
    <3>2. walk[k] \in SUBSET Ino /\ walk[k + 1] \in SUBSET Ino
          /\ walk[k + 1] = walk[k] \cup targets(walk[k])
        BY <1>6
    <3>3. CASE targets(walk[k]) \subseteq walk[k]
      <4>1. walk[k + 1] = walk[k]
          BY <3>2, <3>3
      <4> QED
          BY <3>3, <4>1
    <3>4. CASE ~(targets(walk[k]) \subseteq walk[k])
      <4>1. IsFiniteSet(walk[k + 1])
          BY <1>3, <3>2, FS_Subset
      <4>2. walk[k] \subseteq walk[k + 1] /\ walk[k] # walk[k + 1]
          BY <3>2, <3>4
      <4>3. /\ IsFiniteSet(walk[k])
            /\ Cardinality(walk[k]) \in Nat /\ Cardinality(walk[k + 1]) \in Nat
            /\ Cardinality(walk[k]) < Cardinality(walk[k + 1])
          BY <4>1, <4>2, FS_Subset, FS_CardinalityType
      <4> QED
          BY <3>1, <3>4, <4>3
    <3> QED
        BY <3>3, <3>4
  <2> HIDE DEF T
  <2>3. Nat \subseteq T
      BY <2>1, <2>2, AllNumbers
  <2> QED
      BY <2>3 DEF T
<1>9. targets(walk[MaxIno]) \subseteq walk[MaxIno]
  <2>1. walk[MaxIno] \subseteq Ino /\ IsFiniteSet(Ino) /\ Cardinality(Ino) = MaxIno
      BY <1>1, <1>2, <1>3
  <2>2. Cardinality(walk[MaxIno]) <= MaxIno
      BY <2>1, FS_Subset
  <2>3. Cardinality(walk[MaxIno]) \in Nat
      BY <2>1, FS_Subset, FS_CardinalityType
  <2> QED
      BY <1>2, <1>8, <2>2, <2>3
<1>10. ASSUME NEW U, d \in U, Closed(U, kinds) PROVE walk[MaxIno] \subseteq U
  <2>0. targets(U \cap Ino) \subseteq U \cap Ino
    <3>1. Closed(U \cap Ino, kinds)
        BY <1>10 DEF Closed
    <3> QED
        BY <1>4, <3>1
  <2> DEFINE T == {k \in Nat : k <= MaxIno => walk[k] \subseteq U \cap Ino}
  <2>1. 0 \in T
      BY <1>5, <1>10
  <2>2. ASSUME NEW k \in Nat, k \in T PROVE k + 1 \in T
    <3> SUFFICES ASSUME k + 1 <= MaxIno PROVE walk[k + 1] \subseteq U \cap Ino
        OBVIOUS
    <3>1. walk[k] \subseteq U \cap Ino
        BY <1>2, <2>2
    <3>2. targets(walk[k]) \subseteq targets(U \cap Ino)
        BY <3>1 DEF targets
    <3> QED
        BY <1>6, <2>0, <3>1, <3>2
  <2> HIDE DEF T
  <2>3. Nat \subseteq T
      BY <2>1, <2>2, AllNumbers
  <2> QED
      BY <1>2, <2>3 DEF T
<1> QED
    BY <1>1, <1>2, <1>4, <1>7, <1>9, <1>10

-----------------------------------------------------------------------------
(* The invariant *)

(* Without mounts there are no leases. *)
Unleased == \A x \in Session \X Ino : lease[x] = NoRow

(* The root has no name and stays a directory. *)
RootStays == kind[Root] = "dir" /\ \A x \in Place : entry[x] # Root

(* An inode goes with its last name. *)
AllNamed == \A i \in Ino \ {Root} : Exists(i) => Names(i) # {}

(* Clients that name no path below a file make entries in directories. *)
InDirectories == \A x \in Place : entry[x] # NoIno => kind[x[1]] = "dir"

TablesInv ==
    /\ TablesTypeOK
    /\ Unleased
    /\ RootStays
    /\ EntriesResolve
    /\ LinksAreNames
    /\ AllNamed

(* What holds the root and all that its entries lead to holds every inode. *)
Kept(S) == \A x \in Place : x[1] \in S /\ entry[x] # NoIno => entry[x] \in S
Reached ==
    \A S \in SUBSET Ino : Root \in S /\ Kept(S) => \A i \in Ino : Exists(i) => i \in S

TreeInv == InDirectories /\ Reached

-----------------------------------------------------------------------------
(* Names are counted *)

LEMMA NamesAreFinite == \A i : IsFiniteSet(Names(i))
<1>1. IsFiniteSet(Ino)
    BY VolumeAssumption, FS_Interval, 1 \in Int DEF Ino
<1>2. IsFiniteSet(Place)
    BY <1>1, VolumeAssumption, FS_Product DEF Place
<1>3. \A i : Names(i) \in SUBSET Place
    BY DEF Names
<1> QED
    BY <1>2, <1>3, FS_Subset

(* What a removal of `names` takes from the names of an inode.             *)
LEMMA NamesLost ==
    ASSUME NEW i, NEW names
    PROVE  /\ Cardinality(Names(i)) \in Nat
           /\ Cardinality(Names(i) \cap names) \in Nat
           /\ Cardinality(Names(i) \ names) = Cardinality(Names(i)) - Cardinality(Names(i) \cap names)
           /\ Names(i) \ names = {} <=> Cardinality(Names(i)) = Cardinality(Names(i) \cap names)
           /\ Names(i) \cap names = {} <=> Cardinality(Names(i) \cap names) = 0
<1>1. IsFiniteSet(Names(i)) /\ IsFiniteSet(Names(i) \cap names)
    BY NamesAreFinite, FS_Intersection
<1>2. /\ IsFiniteSet(Names(i) \ names)
      /\ Cardinality(Names(i) \ names) = Cardinality(Names(i)) - Cardinality(Names(i) \cap names)
    BY <1>1, FS_Difference
<1>3. Cardinality(Names(i)) \in Nat /\ Cardinality(Names(i) \cap names) \in Nat
    BY <1>1, FS_CardinalityType
<1>4. Names(i) \ names = {} <=> Cardinality(Names(i) \ names) = 0
    BY <1>2, FS_EmptySet
<1>5. Names(i) \cap names = {} <=> Cardinality(Names(i) \cap names) = 0
    BY <1>1, FS_EmptySet
<1> QED
    BY <1>2, <1>3, <1>4, <1>5

LEMMA NoLeases == TablesInv => \A i \in Ino : ~HasActiveLease(i)
<1> SUFFICES ASSUME TablesInv, NEW i \in Ino, NEW s \in Session PROVE ~(lease[<<s, i>>] > 0)
    BY DEF HasActiveLease
<1>1. <<s, i>> \in Session \X Ino
    OBVIOUS
<1>2. lease[<<s, i>>] = -1
    BY <1>1 DEF TablesInv, Unleased, NoRow
<1> QED
    BY <1>2

(* A write of fs_inode keeps the invariant when its link counts are those  *)
(* of the new entries, and what it deletes has none of them.               *)
LEMMA StoreKeepsInv ==
    ASSUME TablesInv, NEW kinds, NEW links, NEW gone, Store(kinds, links, gone),
           kinds \in [Ino -> {"none", "file", "dir"}], links \in [Ino -> Int],
           entry' \in [Place -> Ino \cup {NoIno}], lastIno' \in Ino,
           \A i \in Ino : i > lastIno' => kinds[i] = "none",
           kinds[Root] = "dir", Root \notin gone,
           \A x \in Place : entry'[x] # Root,
           \A x \in Place : entry'[x] # NoIno => kinds[entry'[x]] # "none" /\ entry'[x] \notin gone,
           \A i \in Ino \ {Root} : kinds[i] # "none" /\ i \notin gone =>
               Names(i)' # {} /\ links[i] = Cardinality(Names(i)')
    PROVE  TablesInv'
<1>0. Root \in Ino
    BY VolumeAssumption DEF Root, Ino
<1>1. kind' = [i \in Ino |-> IF i \in gone THEN "none" ELSE kinds[i]]
    BY DEF Store
<1>2. nlink' = [i \in Ino |-> IF i \in gone \/ kinds[i] = "none" THEN 0 ELSE links[i]]
    BY DEF Store
<1>3. \A i \in Ino : kind'[i] = (IF i \in gone THEN "none" ELSE kinds[i])
    BY <1>1
<1>4. lease' = [x \in Session \X Ino |-> NoRow] /\ expired' \subseteq expired
    BY DEF Store, TablesInv, Unleased
<1>5. TablesTypeOK'
  <2>1. kind' \in [Ino -> {"none", "file", "dir"}]
      BY <1>1
  <2>2. nlink' \in [Ino -> Int]
      BY <1>2
  <2>3. lease' \in [Session \X Ino -> Int] /\ expired' \subseteq Session \X Ino
      BY <1>4 DEF TablesInv, TablesTypeOK, NoRow
  <2>4. \A i \in Ino : i > lastIno' => kind'[i] = "none"
      BY <1>3
  <2> QED
      BY <2>1, <2>2, <2>3, <2>4 DEF TablesTypeOK, Exists
<1>6. Unleased'
    BY <1>4 DEF Unleased
<1>7. RootStays'
    BY <1>0, <1>3 DEF RootStays
<1>8. EntriesResolve'
    BY <1>3 DEF EntriesResolve, Exists
<1>9. ASSUME NEW i \in Ino \ {Root}, kind'[i] # "none"
      PROVE  nlink'[i] = Cardinality(Names(i)') /\ Names(i)' # {}
  <2>1. kinds[i] # "none" /\ i \notin gone
      BY <1>3, <1>9
  <2>2. nlink'[i] = links[i]
      BY <1>2, <2>1
  <2> QED
      BY <2>1, <2>2
<1>10. LinksAreNames' /\ AllNamed'
    BY <1>9 DEF LinksAreNames, AllNamed, Exists
<1> QED
    BY <1>5, <1>6, <1>7, <1>8, <1>10 DEF TablesInv

(* The new name of an inode is one more.                                   *)
LEMMA NameAdded ==
    ASSUME NEW x \in Place, NEW i, i # NoIno, entry[x] = NoIno,
           entry \in [Place -> Ino \cup {NoIno}], entry' = [entry EXCEPT ![x] = i]
    PROVE  /\ Names(i)' # {} /\ Cardinality(Names(i)') = Cardinality(Names(i)) + 1
           /\ \A j \in Ino : j # i => Names(j)' = Names(j)
<1>1. \A y \in Place : entry'[y] = IF y = x THEN i ELSE entry[y]
    OBVIOUS
<1>2. Names(i)' = Names(i) \cup {x} /\ x \notin Names(i)
    BY <1>1 DEF Names
<1>3. \A j \in Ino : j # i => Names(j)' = Names(j)
    BY <1>1 DEF Names, Ino, NoIno
<1>4. Cardinality(Names(i) \cup {x}) = Cardinality(Names(i)) + 1
    BY <1>2, NamesAreFinite, FS_AddElement
<1> QED
    BY <1>2, <1>3, <1>4

-----------------------------------------------------------------------------
(* The operations keep the invariant *)

(* An inode is made below one that exists.                                 *)
LEMMA NewNodeKeepsInv ==
    ASSUME TablesInv, NEW p \in Ino, NEW n \in Name, Exists(p), NEW type \in {"file", "dir"},
           entry[<<p, n>>] = NoIno, NewNode(p, n, type, 1, 0)
    PROVE  TablesInv'
<1>0. PICK new : new = lastIno + 1
    OBVIOUS
<1> DEFINE kinds == [kind EXCEPT ![new] = type]
           links == [nlink EXCEPT ![p] = @ + 0, ![new] = 1]
<1>1. TablesTypeOK /\ MaxIno \in Nat
    BY VolumeAssumption DEF TablesInv
<1>2. new \in Ino /\ lastIno \in Ino /\ new # Root /\ new # NoIno /\ <<p, n>> \in Place /\ lastIno' = new
    BY <1>0, <1>1 DEF NewNode, TablesTypeOK, Ino, Root, NoIno, Place
<1>3. ~Exists(new)
    BY <1>0, <1>1, <1>2 DEF TablesTypeOK, Ino
<1>4. p # new
    BY <1>3
<1>5. entry' = [entry EXCEPT ![<<p, n>>] = new] /\ Store(kinds, links, {})
    BY <1>0 DEF NewNode
<1>6. \A y \in Place : entry'[y] = IF y = <<p, n>> THEN new ELSE entry[y]
    BY <1>1, <1>5 DEF TablesTypeOK
<1>7. entry' \in [Place -> Ino \cup {NoIno}]
    BY <1>1, <1>2, <1>5 DEF TablesTypeOK
<1>8. kinds \in [Ino -> {"none", "file", "dir"}] /\ links \in [Ino -> Int]
    BY <1>1, <1>2 DEF TablesTypeOK
<1>9. \A i \in Ino : kinds[i] = (IF i = new THEN type ELSE kind[i])
    BY <1>1, <1>2 DEF TablesTypeOK
<1>10. \A i \in Ino : links[i] = IF i = new THEN 1 ELSE nlink[i]
    BY <1>1, <1>2, <1>4 DEF TablesTypeOK
<1> HIDE DEF kinds, links
<1>11. \A i \in Ino : i > new => kinds[i] = "none"
    BY <1>0, <1>1, <1>2, <1>9 DEF TablesTypeOK, Ino, Exists
<1>12. kinds[Root] = "dir" /\ \A x \in Place : entry'[x] # Root
    BY <1>2, <1>6, <1>9, VolumeAssumption DEF TablesInv, RootStays, Root, Ino
<1>13. \A x \in Place : entry'[x] # NoIno => kinds[entry'[x]] # "none"
    BY <1>1, <1>2, <1>6, <1>7, <1>9 DEF TablesInv, EntriesResolve, Exists
<1>14. /\ Names(new)' # {} /\ Cardinality(Names(new)') = Cardinality(Names(new)) + 1
       /\ \A j \in Ino : j # new => Names(j)' = Names(j)
    BY <1>1, <1>2, <1>5, NameAdded DEF TablesTypeOK
<1>15. Cardinality(Names(new)) = 0
  <2>1. Names(new) = {}
      BY <1>2, <1>3 DEF TablesInv, EntriesResolve, Names
  <2> QED
      BY <2>1, FS_EmptySet
<1>16. ASSUME NEW i \in Ino \ {Root}, kinds[i] # "none"
       PROVE  Names(i)' # {} /\ links[i] = Cardinality(Names(i)')
  <2>1. CASE i = new
      BY <1>2, <1>10, <1>14, <1>15, <2>1
  <2>2. CASE i # new
    <3>1. Exists(i) /\ links[i] = nlink[i] /\ Names(i)' = Names(i)
        BY <1>9, <1>10, <1>14, <1>16, <2>2 DEF Exists
    <3>2. Names(i) # {} /\ nlink[i] = Cardinality(Names(i))
        BY <3>1 DEF TablesInv, LinksAreNames, AllNamed
    <3> QED
        BY <3>1, <3>2
  <2> QED
      BY <2>1, <2>2
<1> QED
    BY <1>2, <1>5, <1>7, <1>8, <1>11, <1>12, <1>13, <1>16, StoreKeepsInv

(* Names are removed, whichever they are.                                  *)
LEMMA RemoveNamesKeepsInv ==
    ASSUME TablesInv, NEW names \in SUBSET Place, RemoveNames(names)
    PROVE  TablesInv'
<1> DEFINE lost(i) == Cardinality(Names(i) \cap names)
           links == [i \in Ino |-> nlink[i] - lost(i)]
           gone == {i \in Ino : lost(i) > 0 /\ nlink[i] = lost(i) /\ ~HasActiveLease(i)}
<1>1. TablesTypeOK
    BY DEF TablesInv
<1>2. entry' = [x \in Place |-> IF x \in names THEN NoIno ELSE entry[x]] /\ lastIno' = lastIno
    BY DEF RemoveNames
<1>3. Store(kind, links, gone)
    BY DEF RemoveNames
<1>4. \A i \in Ino : Names(i)' = Names(i) \ names
    BY <1>2 DEF Names, Ino, NoIno
<1>5. ASSUME NEW i
      PROVE  /\ Cardinality(Names(i)) \in Nat /\ lost(i) \in Nat
             /\ Cardinality(Names(i) \ names) = Cardinality(Names(i)) - lost(i)
             /\ Names(i) \ names = {} <=> Cardinality(Names(i)) = lost(i)
             /\ Names(i) \cap names = {} <=> lost(i) = 0
    BY NamesLost, Zenon
<1>6. links \in [Ino -> Int]
  <2>1. \A i \in Ino : nlink[i] \in Int
      BY <1>1 DEF TablesTypeOK
  <2> HIDE DEF lost
  <2>2. ASSUME NEW i PROVE lost(i) \in Int
    <3>1. lost(i) \in Nat
        BY <1>5, Zenon
    <3> QED
        BY <3>1
  <2> QED
      BY <2>1, <2>2
<1>7. \A i \in Ino : links[i] = nlink[i] - lost(i)
    OBVIOUS
<1>8. \A i \in Ino : i \in gone <=> lost(i) > 0 /\ nlink[i] = lost(i)
  <2> HIDE DEF lost
  <2> QED
      BY NoLeases
<1> HIDE DEF lost, links, gone
<1>9. Root \in Ino /\ kind[Root] = "dir" /\ Names(Root) = {}
    BY VolumeAssumption DEF TablesInv, RootStays, Names, Root, Ino
<1>10. Root \notin gone
  <2>1. Names(Root) \cap names = {}
      BY <1>9
  <2>2. lost(Root) = 0
      BY <1>5, <2>1
  <2> QED
      BY <1>8, <1>9, <2>2
<1>11. entry' \in [Place -> Ino \cup {NoIno}] /\ \A x \in Place : entry'[x] # Root
    BY <1>1, <1>2, <1>9 DEF TablesTypeOK, TablesInv, RootStays, NoIno, Root
<1>12. ASSUME NEW i \in Ino \ {Root}, Exists(i)
       PROVE  i \in gone <=> Names(i) \ names = {}
  <2>1. Names(i) # {} /\ nlink[i] = Cardinality(Names(i))
      BY <1>12 DEF TablesInv, AllNamed, LinksAreNames
  <2>2. CASE Names(i) \ names = {}
    <3>1. Names(i) \cap names # {}
        BY <2>1, <2>2
    <3>2. lost(i) # 0 /\ lost(i) \in Nat /\ Cardinality(Names(i)) = lost(i)
        BY <1>5, <2>2, <3>1
    <3> QED
        BY <1>8, <2>1, <2>2, <3>2
  <2>3. CASE Names(i) \ names # {}
    <3>1. Cardinality(Names(i)) # lost(i)
        BY <1>5, <2>3
    <3> QED
        BY <1>8, <2>1, <2>3, <3>1
  <2> QED
      BY <2>2, <2>3
<1>13. ASSUME NEW x \in Place, entry'[x] # NoIno
       PROVE  kind[entry'[x]] # "none" /\ entry'[x] \notin gone
  <2>1. x \notin names /\ entry'[x] = entry[x] /\ entry[x] \in Ino /\ Exists(entry[x])
      BY <1>1, <1>2, <1>13 DEF TablesTypeOK, TablesInv, EntriesResolve
  <2>2. x \in Names(entry[x]) \ names
      BY <2>1 DEF Names
  <2>3. entry[x] # Root
      BY DEF TablesInv, RootStays
  <2> QED
      BY <1>12, <2>1, <2>2, <2>3 DEF Exists
<1>14. ASSUME NEW i \in Ino \ {Root}, kind[i] # "none", i \notin gone
       PROVE  Names(i)' # {} /\ links[i] = Cardinality(Names(i)')
  <2>1. Names(i)' = Names(i) \ names /\ nlink[i] = Cardinality(Names(i))
      BY <1>4, <1>14 DEF TablesInv, LinksAreNames, Exists
  <2>2. Names(i) \ names # {}
      BY <1>12, <1>14 DEF Exists
  <2>3. Cardinality(Names(i) \ names) = Cardinality(Names(i)) - lost(i)
      BY <1>5
  <2>4. links[i] = nlink[i] - lost(i)
      BY <1>7
  <2> QED
      BY <2>1, <2>2, <2>3, <2>4
<1>15. lastIno' \in Ino /\ \A i \in Ino : i > lastIno' => kind[i] = "none"
    BY <1>1, <1>2 DEF TablesTypeOK, Exists
<1>16. kind \in [Ino -> {"none", "file", "dir"}]
    BY <1>1 DEF TablesTypeOK
<1> QED
    BY <1>3, <1>6, <1>9, <1>10, <1>11, <1>13, <1>14, <1>15, <1>16, StoreKeepsInv

(* A file gets a further name.                                             *)
LEMMA LinkKeepsInv ==
    ASSUME TablesInv, NEW x \in Place, NEW p \in Ino, NEW n \in Name, Link(x, p, n)
    PROVE  TablesInv'
<1>0. PICK i : i = entry[x]
    OBVIOUS
<1>1. TablesTypeOK /\ <<p, n>> \in Place
    BY DEF TablesInv, Place
<1>2. /\ i \in Ino /\ i # NoIno /\ kind[i] = "file" /\ i # Root
      /\ entry[<<p, n>>] = NoIno /\ lastIno' = lastIno
      /\ entry' = [entry EXCEPT ![<<p, n>>] = i]
    BY <1>0, <1>1 DEF Link, Linkable, TablesTypeOK, TablesInv, RootStays
<1> DEFINE links == [nlink EXCEPT ![i] = @ + 1]
<1>3. Store(kind, links, {})
    BY <1>0 DEF Link
<1>4. links \in [Ino -> Int] /\ \A k \in Ino : links[k] = IF k = i THEN nlink[k] + 1 ELSE nlink[k]
    BY <1>1, <1>2 DEF TablesTypeOK
<1> HIDE DEF links
<1>5. \A y \in Place : entry'[y] = IF y = <<p, n>> THEN i ELSE entry[y]
    BY <1>1, <1>2 DEF TablesTypeOK
<1>6. entry' \in [Place -> Ino \cup {NoIno}]
    BY <1>1, <1>2 DEF TablesTypeOK
<1>7. kind[Root] = "dir" /\ \A y \in Place : entry'[y] # Root
    BY <1>2, <1>5 DEF TablesInv, RootStays
<1>8. \A y \in Place : entry'[y] # NoIno => kind[entry'[y]] # "none"
    BY <1>2, <1>5 DEF TablesInv, EntriesResolve, Exists
<1>9. /\ Names(i)' # {} /\ Cardinality(Names(i)') = Cardinality(Names(i)) + 1
      /\ \A k \in Ino : k # i => Names(k)' = Names(k)
    BY <1>1, <1>2, NameAdded DEF TablesTypeOK
<1>10. ASSUME NEW k \in Ino \ {Root}, kind[k] # "none"
       PROVE  Names(k)' # {} /\ links[k] = Cardinality(Names(k)')
  <2>1. Names(k) # {} /\ nlink[k] = Cardinality(Names(k))
      BY <1>10 DEF TablesInv, LinksAreNames, AllNamed, Exists
  <2> QED
      BY <1>4, <1>9, <2>1
<1>11. /\ kind \in [Ino -> {"none", "file", "dir"}] /\ lastIno' \in Ino
       /\ \A k \in Ino : k > lastIno' => kind[k] = "none"
    BY <1>1, <1>2 DEF TablesTypeOK, Exists
<1> QED
    BY <1>3, <1>4, <1>6, <1>7, <1>8, <1>10, <1>11, StoreKeepsInv

(* Inode i moves from place x to place y, where j was.                     *)
MovesEntry(x, y, i, j) ==
    /\ x # y /\ i = entry[x] /\ i # NoIno /\ j = entry[y]
    /\ entry \in [Place -> Ino \cup {NoIno}]
    /\ entry' = [entry EXCEPT ![x] = NoIno, ![y] = i]

(* A moved inode has as many names as before; the one whose place it takes *)
(* has one less.                                                           *)
LEMMA NameMoved ==
    ASSUME NEW x \in Place, NEW y \in Place, NEW i, NEW j, MovesEntry(x, y, i, j), NEW k \in Ino
    PROVE  /\ k # j => Cardinality(Names(k)') = Cardinality(Names(k))
           /\ k = j => Cardinality(Names(k)') = Cardinality(Names(k)) - 1
           /\ Names(k)' = {} <=> Cardinality(Names(k)') = 0
<1>1. \A z \in Place : entry'[z] = IF z = y THEN i ELSE IF z = x THEN NoIno ELSE entry[z]
    BY DEF MovesEntry
<1>2. k # NoIno /\ IsFiniteSet(Names(k)) /\ Cardinality(Names(k)) \in Nat
    BY NamesAreFinite, FS_CardinalityType DEF Ino, NoIno
<1>3. CASE k # i /\ k # j
  <2>1. Names(k)' = Names(k)
      BY <1>1, <1>2, <1>3 DEF Names, MovesEntry
  <2> QED
      BY <1>2, <1>3, <2>1, FS_EmptySet
<1>4. CASE k = i /\ k # j
  <2>1. Names(k)' = (Names(k) \ {x}) \cup {y} /\ x \in Names(k) /\ y \notin Names(k) \ {x}
      BY <1>1, <1>2, <1>4 DEF Names, MovesEntry
  <2>2. IsFiniteSet(Names(k) \ {x}) /\ Cardinality(Names(k) \ {x}) = Cardinality(Names(k)) - 1
      BY <1>2, <2>1, FS_RemoveElement
  <2>3. /\ IsFiniteSet((Names(k) \ {x}) \cup {y})
        /\ Cardinality((Names(k) \ {x}) \cup {y}) = Cardinality(Names(k) \ {x}) + 1
      BY <2>1, <2>2, FS_AddElement
  <2>4. Names(k)' = {} <=> Cardinality(Names(k)') = 0
      BY <2>1, <2>3, FS_EmptySet
  <2> QED
      BY <1>2, <1>4, <2>1, <2>2, <2>3, <2>4
<1>5. CASE k = j
  <2>1. PICK z \in {x, y} : z \in Names(k) /\ Names(k)' = Names(k) \ {z}
    <3>1. CASE i = j
      <4>1. x \in Names(k) /\ Names(k)' = Names(k) \ {x}
          BY <1>1, <1>2, <1>5, <3>1 DEF Names, MovesEntry
      <4> QED
          BY <4>1
    <3>2. CASE i # j
      <4>1. y \in Names(k) /\ Names(k)' = Names(k) \ {y}
          BY <1>1, <1>2, <1>5, <3>2 DEF Names, MovesEntry
      <4> QED
          BY <4>1
    <3> QED
        BY <3>1, <3>2
  <2>2. /\ IsFiniteSet(Names(k) \ {z})
        /\ Cardinality(Names(k) \ {z}) = Cardinality(Names(k)) - 1
      BY <1>2, <2>1, FS_RemoveElement
  <2>3. Names(k) \ {z} = {} <=> Cardinality(Names(k) \ {z}) = 0
      BY <2>2, FS_EmptySet
  <2> QED
      BY <1>5, <2>1, <2>2, <2>3
<1> QED
    BY <1>3, <1>4, <1>5

LEMMA RenameKeepsInv ==
    ASSUME TablesInv, NEW p \in Ino, NEW n \in Name, NEW q \in Ino, NEW m \in Name,
           Rename(p, n, q, m)
    PROVE  TablesInv'
<1>0. PICK i, j : i = entry[<<p, n>>] /\ j = entry[<<q, m>>]
    OBVIOUS
<1>1. TablesTypeOK /\ <<p, n>> \in Place /\ <<q, m>> \in Place /\ <<p, n>> # <<q, m>>
    BY DEF TablesInv, Place, Rename
<1>2. /\ i \in Ino /\ i # NoIno /\ Exists(i) /\ i # Root
      /\ j \in Ino \cup {NoIno} /\ j # Root
      /\ entry' = [entry EXCEPT ![<<p, n>>] = NoIno, ![<<q, m>>] = i]
      /\ lastIno' = lastIno
    BY <1>0, <1>1 DEF Rename, TablesTypeOK, TablesInv, RootStays
<1>3. \A z \in Place : entry'[z] = IF z = <<q, m>> THEN i ELSE IF z = <<p, n>> THEN NoIno ELSE entry[z]
    BY <1>1, <1>2 DEF TablesTypeOK
<1>4. entry' \in [Place -> Ino \cup {NoIno}] /\ \A z \in Place : entry'[z] # Root
    BY <1>1, <1>2, <1>3 DEF TablesTypeOK, TablesInv, RootStays, NoIno, Root
<1>5. \A k \in Ino : /\ k # j => Cardinality(Names(k)') = Cardinality(Names(k))
                     /\ k = j => Cardinality(Names(k)') = Cardinality(Names(k)) - 1
                     /\ Names(k)' = {} <=> Cardinality(Names(k)') = 0
  <2>1. MovesEntry(<<p, n>>, <<q, m>>, i, j)
      BY <1>0, <1>1, <1>2 DEF MovesEntry, TablesTypeOK
  <2> QED
      BY <1>1, <2>1, NameMoved
<1>6. \A k \in Ino \ {Root} : Exists(k) => /\ nlink[k] = Cardinality(Names(k))
                                           /\ Cardinality(Names(k)) # 0
  <2>1. \A k : Names(k) = {} <=> Cardinality(Names(k)) = 0
      BY NamesAreFinite, FS_EmptySet
  <2> QED
      BY <2>1 DEF TablesInv, LinksAreNames, AllNamed
<1>7. \A z \in Place : entry'[z] # NoIno => kind[entry'[z]] # "none"
    BY <1>2, <1>3 DEF TablesInv, EntriesResolve, Exists
<1>8. CASE j = NoIno
  <2>1. UNCHANGED <<kind, nlink, lease, expired>>
      BY <1>0, <1>8 DEF Rename
  <2>2. TablesTypeOK'
      BY <1>1, <1>2, <1>4, <2>1 DEF TablesTypeOK, Exists
  <2>3. Unleased' /\ RootStays' /\ EntriesResolve'
      BY <1>4, <1>7, <2>1 DEF TablesInv, Unleased, RootStays, EntriesResolve, Exists
  <2>4. LinksAreNames' /\ AllNamed'
    <3>1. \A k \in Ino : k # j
        BY <1>8 DEF Ino, NoIno
    <3>2. \A k \in Ino : Exists(k)' = Exists(k)
        BY <2>1 DEF Exists
    <3> QED
        BY <1>5, <1>6, <2>1, <3>1, <3>2 DEF LinksAreNames, AllNamed
  <2> QED
      BY <2>2, <2>3, <2>4 DEF TablesInv
<1>9. CASE j # NoIno
  <2> DEFINE links == [nlink EXCEPT ![j] = @ - 1]
             gone == {j} \cap {k \in Ino : nlink[k] = 1 /\ ~HasActiveLease(k)}
  <2>1. Store(kind, links, gone)
      BY <1>0, <1>9 DEF Rename
  <2>2. j \in Ino /\ nlink[j] \in Int /\ Exists(j)
      BY <1>0, <1>1, <1>2, <1>9 DEF TablesTypeOK, Rename
  <2>3. links \in [Ino -> Int] /\ \A k \in Ino : links[k] = IF k = j THEN nlink[k] - 1 ELSE nlink[k]
      BY <1>1, <2>2 DEF TablesTypeOK
  <2>4. \A k \in gone : k = j /\ nlink[j] = 1
      OBVIOUS
  <2>5. j \notin gone => nlink[j] # 1
    <3>1. ~HasActiveLease(j)
        BY <2>2, NoLeases
    <3> QED
        BY <2>2, <3>1
  <2> HIDE DEF links, gone
  <2>6. ASSUME NEW k \in Ino \ {Root}, kind[k] # "none"
        PROVE  /\ links[k] = Cardinality(Names(k)')
               /\ k \in gone <=> Names(k)' = {}
    <3>1. nlink[k] = Cardinality(Names(k)) /\ Cardinality(Names(k)) # 0
        BY <1>6, <2>6 DEF Exists
    <3>2. CASE k = j
        BY <1>5, <2>2, <2>3, <2>4, <2>5, <3>1, <3>2
    <3>3. CASE k # j
        BY <1>5, <2>3, <2>4, <3>1, <3>3
    <3> QED
        BY <3>2, <3>3
  <2>7. \A z \in Place : entry'[z] # NoIno => entry'[z] \notin gone
    <3> SUFFICES ASSUME NEW z \in Place, entry'[z] # NoIno PROVE entry'[z] \notin gone
        OBVIOUS
    <3>1. entry'[z] \in Ino \ {Root} /\ kind[entry'[z]] # "none"
        BY <1>4, <1>7
    <3>2. z \in {y \in Place : entry'[y] = entry'[z]}
        OBVIOUS
    <3>3. PICK k : k = entry'[z]
        OBVIOUS
    <3>4. Names(k)' # {}
        BY <3>2, <3>3 DEF Names
    <3> QED
        BY <2>6, <3>1, <3>3, <3>4
  <2>8. Root \notin gone /\ kind[Root] = "dir"
      BY <1>2, <2>4 DEF TablesInv, RootStays
  <2>9. /\ kind \in [Ino -> {"none", "file", "dir"}] /\ lastIno' \in Ino
        /\ \A k \in Ino : k > lastIno' => kind[k] = "none"
      BY <1>1, <1>2 DEF TablesTypeOK, Exists
  <2> QED
      BY <1>4, <1>7, <2>1, <2>3, <2>6, <2>7, <2>8, <2>9, StoreKeepsInv
<1> QED
    BY <1>8, <1>9

(* A path lookup ends at an inode.                                         *)
LEMMA ResolvableExists == TablesInv => \A p \in Resolvable : p \in Ino /\ Exists(p)
<1> SUFFICES ASSUME TablesInv PROVE Resolvable \subseteq {i \in Ino : Exists(i)}
    OBVIOUS
<1>1. Root \in {i \in Ino : Exists(i)}
    BY VolumeAssumption DEF TablesInv, RootStays, Exists, Root, Ino
<1>2. Closed({i \in Ino : Exists(i)}, {"none", "file", "dir"})
    BY DEF TablesInv, TablesTypeOK, EntriesResolve, Closed
<1> QED
    BY <1>1, <1>2, BelowIsLeast DEF Resolvable, TablesInv, TablesTypeOK

(* rm removes places.                                                      *)
LEMMA TraversedArePlaces ==
    ASSUME NEW top \in Place, NEW names \in Traversed(top)
    PROVE  names \in SUBSET Place
BY DEF Traversed

LEMMA StepKeepsTablesInv == TablesInv /\ [WorkerNext]_tables => TablesInv'
<1> SUFFICES ASSUME TablesInv, [WorkerNext]_tables PROVE TablesInv'
    OBVIOUS
<1>1. CASE UNCHANGED tables
    BY <1>1 DEF tables, TablesInv, TablesTypeOK, Unleased, RootStays, EntriesResolve, LinksAreNames,
                AllNamed, Exists, Names
<1>2. CASE WorkerNext
  <2>1. PICK p \in Ino, n \in Name :
            \/ CreateFile(p, n)
            \/ MakeDir(p, n)
            \/ Unlink(p, n)
            \/ RemoveTree(p, n)
            \/ \E y \in Place : Link(y, p, n) \/ Rename(y[1], y[2], p, n)
      BY <1>2 DEF WorkerNext, Place
  <2>2. CASE CreateFile(p, n)
      BY <2>2, NewNodeKeepsInv, ResolvableExists DEF CreateFile
  <2>3. CASE MakeDir(p, n)
      BY <2>3, NewNodeKeepsInv, ResolvableExists DEF MakeDir
  <2>4. CASE Unlink(p, n)
    <3>1. {<<p, n>>} \in SUBSET Place
        BY DEF Place
    <3> QED
        BY <2>4, <3>1, RemoveNamesKeepsInv DEF Unlink
  <2>5. CASE RemoveTree(p, n)
    <3>1. PICK names \in Traversed(<<p, n>>) : RemoveNames(names)
        BY <2>5 DEF RemoveTree
    <3>2. <<p, n>> \in Place
        BY DEF Place
    <3>3. names \in SUBSET Place
        BY <3>2, TraversedArePlaces
    <3> QED
        BY <3>1, <3>3, RemoveNamesKeepsInv
  <2>6. ASSUME NEW y \in Place, Link(y, p, n) PROVE TablesInv'
      BY <2>6, LinkKeepsInv
  <2>7. ASSUME NEW y \in Place, Rename(y[1], y[2], p, n) PROVE TablesInv'
    <3>1. y[1] \in Ino /\ y[2] \in Name
        BY DEF Place
    <3> QED
        BY <2>7, <3>1, RenameKeepsInv
  <2> QED
      BY <2>1, <2>2, <2>3, <2>4, <2>5, <2>6, <2>7
<1> QED
    BY <1>1, <1>2

LEMMA InitTablesInv == Init => TablesInv
<1> SUFFICES ASSUME Init PROVE TablesInv
    OBVIOUS
<1>1. Root \in Ino
    BY VolumeAssumption DEF Root, Ino
<1>2. TablesTypeOK
    BY <1>1 DEF Init, TablesTypeOK, Exists, Root, Ino, NoRow, NoIno
<1>3. Unleased /\ RootStays /\ EntriesResolve
    BY <1>1 DEF Init, Unleased, RootStays, EntriesResolve, NoIno, Root
<1>4. \A i \in Ino \ {Root} : ~Exists(i)
    BY DEF Init, Exists
<1>5. LinksAreNames /\ AllNamed
    BY <1>4 DEF LinksAreNames, AllNamed
<1> QED
    BY <1>2, <1>3, <1>5 DEF TablesInv

(* The link count of an inode is the number of its names, for any volume   *)
(* and any sequence of Worker operations: each of them finds the last      *)
(* removal by the count (removeDentryAndMaybeInode) and none can delete an *)
(* inode early or leak it.                                                 *)
THEOREM LinksCounted == WorkerSpec => []LinksAreNames
<1>1. TablesInv => LinksAreNames
    BY DEF TablesInv
<1> QED
    BY InitTablesInv, StepKeepsTablesInv, <1>1, PTL DEF WorkerSpec

(* No entry ever leads to a missing inode, whether or not clients name     *)
(* paths below files.                                                      *)
THEOREM EntriesAlwaysResolve == WorkerSpec => []EntriesResolve
<1>1. TablesInv => EntriesResolve
    BY DEF TablesInv
<1> QED
    BY InitTablesInv, StepKeepsTablesInv, <1>1, PTL DEF WorkerSpec

-----------------------------------------------------------------------------
(* The inodes stay one tree *)

(* A new inode hangs below a directory.                                    *)
LEMMA NewNodeKeepsTree ==
    ASSUME TablesInv, TreeInv, NEW p \in Ino, NEW n \in Name, kind[p] = "dir",
           NEW type \in {"file", "dir"}, entry[<<p, n>>] = NoIno, NewNode(p, n, type, 1, 0)
    PROVE  TreeInv'
<1>0. PICK new : new = lastIno + 1
    OBVIOUS
<1>1. TablesTypeOK /\ MaxIno \in Nat
    BY VolumeAssumption DEF TablesInv
<1>2. new \in Ino /\ new # NoIno /\ <<p, n>> \in Place /\ ~Exists(new)
    BY <1>0, <1>1 DEF NewNode, TablesTypeOK, Ino, NoIno, Place
<1>3. \A y \in Place : entry'[y] = IF y = <<p, n>> THEN new ELSE entry[y]
    BY <1>0, <1>1 DEF NewNode, TablesTypeOK
<1>4. \A i \in Ino : i # new => kind'[i] = kind[i]
  <2>1. kind' = [i \in Ino |-> [kind EXCEPT ![new] = type][i]]
      BY <1>0 DEF NewNode, Store
  <2> QED
      BY <1>1, <1>2, <2>1 DEF TablesTypeOK
<1>5. InDirectories'
  <2> SUFFICES ASSUME NEW x \in Place, entry'[x] # NoIno PROVE kind'[x[1]] = "dir"
      BY DEF InDirectories
  <2>1. kind[x[1]] = "dir"
      BY <1>3 DEF TreeInv, InDirectories
  <2> QED
      BY <1>2, <1>4, <2>1 DEF Exists, Place
<1>6. ASSUME NEW S \in SUBSET Ino, Root \in S, Kept(S)', NEW i \in Ino, Exists(i)'
      PROVE  i \in S
  <2>1. Kept(S)
      BY <1>2, <1>3, <1>6 DEF Kept
  <2>2. \A k \in Ino : Exists(k) => k \in S
      BY <1>6, <2>1 DEF TreeInv, Reached
  <2>3. CASE i = new
    <3>1. p \in S
        BY <2>2 DEF Exists
    <3> QED
        BY <1>2, <1>3, <1>6, <2>3, <3>1 DEF Kept
  <2>4. CASE i # new
      BY <1>4, <1>6, <2>2, <2>4 DEF Exists
  <2> QED
      BY <2>3, <2>4
<1> QED
    BY <1>5, <1>6 DEF TreeInv, Reached

LEMMA LinkKeepsTree ==
    ASSUME TablesInv, TreeInv, NEW x \in Place, NEW p \in Ino, NEW n \in Name, Link(x, p, n)
    PROVE  TreeInv'
<1>1. TablesTypeOK /\ <<p, n>> \in Place
    BY DEF TablesInv, Place
<1>2. /\ kind[p] = "dir" /\ kind' = kind
      /\ \A y \in Place : entry'[y] = IF y = <<p, n>> THEN entry[x] ELSE entry[y]
      /\ entry[<<p, n>>] = NoIno
    BY <1>1 DEF Link, ResolvableDirs, Store, TablesTypeOK
<1>3. InDirectories'
  <2> SUFFICES ASSUME NEW z \in Place, entry'[z] # NoIno PROVE kind'[z[1]] = "dir"
      BY DEF InDirectories
  <2> QED
      BY <1>2 DEF TreeInv, InDirectories
<1>4. ASSUME NEW S \in SUBSET Ino, Root \in S, Kept(S)', NEW i \in Ino, Exists(i)'
      PROVE  i \in S
  <2>1. Kept(S)
      BY <1>2, <1>4 DEF Kept
  <2> QED
      BY <1>2, <1>4, <2>1 DEF TreeInv, Reached, Exists
<1> QED
    BY <1>3, <1>4 DEF TreeInv, Reached

(* Names are removed with all that is below them: B holds the inodes they  *)
(* lead to, and every entry in one of B is removed too.                    *)
LEMMA RemoveNamesKeepsTree ==
    ASSUME TablesInv, TreeInv, NEW names \in SUBSET Place, RemoveNames(names), NEW B \in SUBSET Ino,
           \A x \in names : entry[x] # NoIno => entry[x] \in B,
           \A x \in Place : x[1] \in B /\ entry[x] # NoIno => x \in names
    PROVE  TreeInv'
<1> DEFINE lost(i) == Cardinality(Names(i) \cap names)
           gone == {i \in Ino : lost(i) > 0 /\ nlink[i] = lost(i) /\ ~HasActiveLease(i)}
<1>1. TablesTypeOK /\ TablesInv'
    BY RemoveNamesKeepsInv DEF TablesInv
<1>2. \A x \in Place : entry'[x] = IF x \in names THEN NoIno ELSE entry[x]
    BY DEF RemoveNames
<1>3. kind' = [i \in Ino |-> IF i \in gone THEN "none" ELSE kind[i]]
    BY DEF RemoveNames, Store
<1>4. gone \subseteq B
  <2> SUFFICES ASSUME NEW i \in gone PROVE i \in B
      OBVIOUS
  <2>1. lost(i) # 0
      OBVIOUS
  <2>2. Names(i) \cap names # {}
      BY <2>1, FS_EmptySet
  <2> QED
      BY <2>2 DEF Names, Ino, NoIno
<1> HIDE DEF gone
<1>5. \A i \in Ino : kind'[i] = kind[i] \/ (i \in B /\ kind'[i] = "none")
    BY <1>3, <1>4
<1>6. InDirectories'
  <2> SUFFICES ASSUME NEW x \in Place, entry'[x] # NoIno PROVE kind'[x[1]] = "dir"
      BY DEF InDirectories
  <2>1. x \notin names /\ entry[x] # NoIno /\ kind[x[1]] = "dir" /\ x[1] \in Ino
      BY <1>2 DEF TreeInv, InDirectories, Place
  <2> QED
      BY <1>5, <2>1
<1>7. ASSUME NEW S \in SUBSET Ino, Root \in S, Kept(S)', NEW i \in Ino, Exists(i)'
      PROVE  i \in S
  <2>1. Kept(S \cup B)
    <3> SUFFICES ASSUME NEW x \in Place, x[1] \in S \cup B, entry[x] # NoIno
                 PROVE  entry[x] \in S \cup B
        BY DEF Kept
    <3>1. CASE x \in names
        BY <3>1
    <3>2. CASE x \notin names
        BY <1>2, <1>7, <3>2 DEF Kept
    <3> QED
        BY <3>1, <3>2
  <2>2. \A k \in Ino : Exists(k) => k \in S \cup B
      BY <1>7, <2>1 DEF TreeInv, Reached
  <2>3. CASE i = Root
      BY <1>7, <2>3
  <2>4. CASE i # Root
    <3>1. PICK x \in Place : entry'[x] = i
        BY <1>1, <1>7, <2>4 DEF TablesInv, AllNamed, Names
    <3>2. x \notin names /\ entry[x] = i /\ i # NoIno
        BY <1>2, <3>1 DEF Ino, NoIno
    <3>3. x[1] \in Ino /\ kind[x[1]] = "dir" /\ x[1] \notin B
        BY <3>2 DEF TreeInv, InDirectories, Place
    <3>4. x[1] \in S
        BY <2>2, <3>3 DEF Exists
    <3> QED
        BY <1>7, <3>1, <3>2, <3>4 DEF Kept
  <2> QED
      BY <2>3, <2>4
<1> QED
    BY <1>6, <1>7 DEF TreeInv, Reached

(* rm removes every entry at and below a place: an inode there has at      *)
(* least as many links as entries, and no lease.                           *)
LEMMA TraversedIsAll ==
    ASSUME TablesInv, NEW top \in Place, entry[top] # NoIno, NEW names \in Traversed(top),
           NEW x \in Place, entry[x] # NoIno,
           x = top \/ (x[1] \in Below(entry[top], {"dir"}) /\ kind[x[1]] = "dir")
    PROVE  x \in names
<1> DEFINE dirs == {d \in Below(entry[top], {"dir"}) : kind[d] = "dir"}
           all == {top} \cup {y \in Place : y[1] \in dirs /\ entry[y] # NoIno}
           of(i, T) == Cardinality(Names(i) \cap T)
           removed(i) == CASE ~Exists(i) -> 0
                           [] nlink[i] \in 1..of(i, all) /\ ~HasActiveLease(i) -> nlink[i]
                           [] OTHER -> of(i, all)
<1>1. names \in SUBSET all /\ \A i \in Ino : of(i, names) = removed(i)
    BY DEF Traversed
<1>2. x \in all
    OBVIOUS
<1> HIDE DEF all
<1>3. PICK i : i = entry[x]
    OBVIOUS
<1>4. i \in Ino \ {Root} /\ Exists(i) /\ nlink[i] = Cardinality(Names(i)) /\ ~HasActiveLease(i)
    BY <1>3, NoLeases DEF TablesInv, TablesTypeOK, RootStays, EntriesResolve, LinksAreNames
<1>5. IsFiniteSet(Names(i) \cap all) /\ of(i, all) <= Cardinality(Names(i)) /\ of(i, all) \in Nat
    BY NamesAreFinite, FS_Intersection, FS_CardinalityType
<1>6. removed(i) = of(i, all)
  <2>1. Cardinality(Names(i)) \in Nat
      BY NamesAreFinite, FS_CardinalityType
  <2>2. nlink[i] \in 1..of(i, all) => nlink[i] = of(i, all)
      BY <1>4, <1>5, <2>1
  <2> HIDE DEF of
  <2> QED
      BY <1>4, <2>2
<1>7. of(i, names) = of(i, all)
    BY <1>1, <1>4, <1>6
<1>8. Names(i) \cap names = Names(i) \cap all
  <2>1. Names(i) \cap names \in SUBSET (Names(i) \cap all)
      BY <1>1
  <2> QED
      BY <1>5, <1>7, <2>1, FS_Subset
<1>9. x \in Names(i)
    BY <1>3 DEF Names
<1> QED
    BY <1>2, <1>8, <1>9

(* The inode that a rename moves takes what is below it along: the new     *)
(* parent is not below it, so a path to the parent survives.               *)
LEMMA RenameKeepsTree ==
    ASSUME TablesInv, TreeInv, ~IntoFiles, NEW p \in Ino, NEW n \in Name, NEW q \in Ino, NEW m \in Name,
           Rename(p, n, q, m)
    PROVE  TreeInv'
<1>0. PICK i, j, from, to : /\ from = <<p, n>> /\ to = <<q, m>>
                            /\ i = entry[from] /\ j = entry[to]
    OBVIOUS
<1>1. TablesTypeOK /\ from \in Place /\ to \in Place /\ from # to /\ to[1] = q /\ TablesInv'
  <2>1. TablesInv'
      BY RenameKeepsInv
  <2>2. from \in Place /\ to \in Place /\ to[1] = q
      BY <1>0 DEF Place
  <2>3. from # to
      BY <1>0 DEF Rename
  <2> QED
      BY <2>1, <2>2, <2>3 DEF TablesInv
<1>2. i \in Ino /\ i # NoIno /\ Exists(i)
    BY <1>0, <1>1 DEF Rename, TablesTypeOK
<1>3. \A x \in Place : entry'[x] = IF x = to THEN i ELSE IF x = from THEN NoIno ELSE entry[x]
    BY <1>0, <1>1 DEF Rename, TablesTypeOK
<1>4. q \in Ino /\ kind[q] = "dir"
  <2>1. Exists(q) /\ kind[q] # "file"
      BY ResolvableExists DEF Rename
  <2> QED
      BY <1>1, <2>1 DEF TablesTypeOK, Exists
<1>5. \A x \in Place : entry[x] # NoIno => kind[x[1]] = "dir" /\ x[1] # j
  <2> SUFFICES ASSUME NEW x \in Place, entry[x] # NoIno, x[1] = j PROVE FALSE
      BY DEF TreeInv, InDirectories
  <2>1. kind[j] = "dir" /\ j # NoIno
      BY DEF TreeInv, InDirectories, Place, Ino, NoIno
  <2>2. Children(j) = {}
      BY <1>0, <2>1 DEF Rename, Replaceable
  <2> QED
      BY <2>2 DEF Children
<1>6. q # j
    BY <1>0, <1>1, <1>4, <1>5 DEF Ino, NoIno
<1>7. \A k \in Ino : kind'[k] = kind[k] \/ (k = j /\ kind'[k] = "none")
  <2>1. CASE j = NoIno
      BY <1>0, <2>1 DEF Rename
  <2>2. CASE j # NoIno
    <3> DEFINE gone == {j} \cap {k \in Ino : nlink[k] = 1 /\ ~HasActiveLease(k)}
    <3>1. kind' = [k \in Ino |-> IF k \in gone THEN "none" ELSE kind[k]]
        BY <1>0, <2>2 DEF Rename, Store
    <3> QED
        BY <3>1
  <2> QED
      BY <2>1, <2>2
<1>8. InDirectories'
  <2> SUFFICES ASSUME NEW x \in Place, entry'[x] # NoIno PROVE kind'[x[1]] = "dir"
      BY DEF InDirectories
  <2>1. x[1] \in Ino /\ kind[x[1]] = "dir" /\ x[1] # j
      BY <1>1, <1>3, <1>4, <1>5, <1>6 DEF Place
  <2> QED
      BY <1>7, <2>1
<1> DEFINE D == Below(i, {"none", "file", "dir"})
<1>9. /\ D \subseteq Ino /\ i \in D
      /\ Closed(D, {"none", "file", "dir"})
      /\ \A U : i \in U /\ Closed(U, {"none", "file", "dir"}) => D \subseteq U
    BY <1>1, <1>2, BelowIsLeast DEF TablesTypeOK
<1>10. q \notin D
  <2>1. CASE kind[i] = "dir"
      BY <1>0, <2>1 DEF Rename
  <2>2. CASE kind[i] # "dir"
    <3>1. Closed({i}, {"none", "file", "dir"})
        BY <1>5, <2>2 DEF Closed
    <3> QED
        BY <1>4, <1>9, <2>2, <3>1
  <2> QED
      BY <2>1, <2>2
<1> HIDE DEF D
<1>11. \A x \in Place : x[1] \in D /\ entry[x] # NoIno => entry[x] \in D
    BY <1>1, <1>9 DEF Closed, TablesTypeOK, Place
<1>12. ASSUME NEW S \in SUBSET Ino, Root \in S, Kept(S)', NEW k \in Ino, Exists(k)'
       PROVE  k \in S
  <2> DEFINE T == S \cup D \cup ({j} \cap Ino)
  <2>1. Kept(T)
    <3> SUFFICES ASSUME NEW x \in Place, x[1] \in T, entry[x] # NoIno PROVE entry[x] \in T
        BY DEF Kept
    <3>1. entry[x] \in Ino /\ (x[1] \in S \/ x[1] \in D)
        BY <1>1, <1>5 DEF TablesTypeOK
    <3>2. CASE x = from
        BY <1>0, <1>9, <3>2
    <3>3. CASE x = to
        BY <1>0, <3>1, <3>3
    <3>4. CASE x # from /\ x # to /\ x[1] \in S
        BY <1>3, <1>12, <3>4 DEF Kept
    <3>5. CASE x[1] \in D
        BY <1>11, <3>5
    <3> QED
        BY <3>1, <3>2, <3>3, <3>4, <3>5
  <2>2. \A l \in Ino : Exists(l) => l \in T
    <3>1. T \in SUBSET Ino /\ Root \in T
        BY <1>9, <1>12
    <3> HIDE DEF T
    <3> QED
        BY <2>1, <3>1 DEF TreeInv, Reached
  <2>3. q \in S
      BY <1>4, <1>6, <1>10, <2>2 DEF Exists
  <2>4. i \in S
      BY <1>1, <1>2, <1>3, <1>12, <2>3 DEF Kept
  <2>5. D \subseteq S
    <3>1. Closed(S \cap D, {"none", "file", "dir"})
      <4> SUFFICES ASSUME NEW x \in Place, x[1] \in S, x[1] \in D, entry[x] # NoIno
                   PROVE  entry[x] \in S /\ entry[x] \in D
          BY DEF Closed
      <4>1. entry[x] \in D /\ x # to
          BY <1>1, <1>10, <1>11
      <4>2. CASE x = from
          BY <1>0, <2>4, <4>1, <4>2
      <4>3. CASE x # from
          BY <1>3, <1>12, <4>1, <4>3 DEF Kept
      <4> QED
          BY <4>1, <4>2, <4>3
    <3> QED
        BY <1>9, <2>4, <3>1
  <2>6. kind[k] # "none" /\ (k \in S \/ k = j)
      BY <1>7, <1>12, <2>2, <2>5 DEF Exists
  <2>7. CASE k = j /\ k # Root
    <3>1. PICK x \in Place : entry'[x] = k /\ k # NoIno
        BY <1>1, <1>12, <2>7 DEF TablesInv, AllNamed, Names, Ino, NoIno
    <3>2. x[1] \in S
      <4>1. CASE x = to
          BY <1>1, <2>3, <4>1
      <4>2. CASE x # to
        <5>1. entry[x] = k /\ x[1] \in Ino /\ kind[x[1]] = "dir" /\ x[1] # j
            BY <1>3, <1>5, <3>1, <4>2 DEF Place
        <5> QED
            BY <2>2, <2>5, <5>1 DEF Exists
      <4> QED
          BY <4>1, <4>2
    <3> QED
        BY <1>12, <3>1, <3>2 DEF Kept
  <2> QED
      BY <1>12, <2>6, <2>7
<1> QED
    BY <1>8, <1>12 DEF TreeInv, Reached

LEMMA StepKeepsTree ==
    ~IntoFiles /\ TablesInv /\ TreeInv /\ [WorkerNext]_tables => TreeInv'
<1> SUFFICES ASSUME ~IntoFiles, TablesInv, TreeInv, [WorkerNext]_tables PROVE TreeInv'
    OBVIOUS
<1>0. TablesTypeOK
    BY DEF TablesInv
<1>1. CASE UNCHANGED tables
    BY <1>1 DEF tables, TreeInv, InDirectories, Reached, Kept, Exists
<1>2. CASE WorkerNext
  <2>1. PICK p \in Ino, n \in Name :
            \/ CreateFile(p, n)
            \/ MakeDir(p, n)
            \/ Unlink(p, n)
            \/ RemoveTree(p, n)
            \/ \E y \in Place : Link(y, p, n) \/ Rename(y[1], y[2], p, n)
      BY <1>2 DEF WorkerNext, Place
  <2> DEFINE top == <<p, n>>
  <2>2. top \in Place /\ (p \in Resolvable /\ kind[p] # "file" => kind[p] = "dir")
      BY <1>0, ResolvableExists DEF Place, TablesTypeOK, Exists
  <2>3. CASE CreateFile(p, n)
      BY <2>2, <2>3, NewNodeKeepsTree DEF CreateFile
  <2>4. CASE MakeDir(p, n)
      BY <2>2, <2>4, NewNodeKeepsTree DEF MakeDir
  <2>5. CASE Unlink(p, n)
    <3>1. entry[top] \in Ino /\ kind[entry[top]] # "dir" /\ RemoveNames({top}) /\ {top} \in SUBSET Place
        BY <1>0, <2>2, <2>5 DEF Unlink, TablesTypeOK
    <3>2. \A x \in Place : x[1] \in {entry[top]} /\ entry[x] # NoIno => x \in {top}
        BY <3>1 DEF TreeInv, InDirectories
    <3>3. {entry[top]} \in SUBSET Ino /\ \A x \in {top} : entry[x] # NoIno => entry[x] \in {entry[top]}
        BY <3>1
    <3> HIDE DEF top
    <3> QED
        BY <3>1, <3>2, <3>3, RemoveNamesKeepsTree
  <2>6. CASE RemoveTree(p, n)
    <3>1. PICK names \in Traversed(top) : RemoveNames(names)
        BY <2>6 DEF RemoveTree
    <3>2. entry[top] \in Ino /\ entry[top] # NoIno
        BY <1>0, <2>2, <2>6 DEF RemoveTree, TablesTypeOK
    <3> HIDE DEF top
    <3> DEFINE B == Below(entry[top], {"dir"})
    <3>3. names \in SUBSET Place
        BY <2>2, TraversedArePlaces
    <3>4. B \in SUBSET Ino /\ entry[top] \in B /\ Closed(B, {"dir"})
        BY <1>0, <3>2, BelowIsLeast DEF TablesTypeOK
    <3>5. \A x \in names : x = top \/ (x[1] \in B /\ kind[x[1]] = "dir")
        BY DEF Traversed
    <3>6. \A x \in Place : x[1] \in B /\ entry[x] # NoIno => x \in names
        BY <2>2, <3>2, TraversedIsAll DEF TreeInv, InDirectories
    <3> HIDE DEF B
    <3>7. \A x \in names : entry[x] # NoIno => entry[x] \in B
        BY <3>3, <3>4, <3>5 DEF Closed
    <3> QED
        BY <3>1, <3>3, <3>4, <3>6, <3>7, RemoveNamesKeepsTree
  <2>7. ASSUME NEW y \in Place, Link(y, p, n) PROVE TreeInv'
      BY <2>7, LinkKeepsTree
  <2>8. ASSUME NEW y \in Place, Rename(y[1], y[2], p, n) PROVE TreeInv'
    <3>1. y[1] \in Ino /\ y[2] \in Name
        BY DEF Place
    <3> QED
        BY <2>8, <3>1, RenameKeepsTree
  <2> QED
      BY <2>1, <2>3, <2>4, <2>5, <2>6, <2>7, <2>8
<1> QED
    BY <1>1, <1>2

LEMMA InitTree == Init => TreeInv
<1> SUFFICES ASSUME Init PROVE TreeInv
    OBVIOUS
<1>1. InDirectories
    BY DEF Init, InDirectories
<1>2. Reached
    BY DEF Init, Reached, Exists
<1> QED
    BY <1>1, <1>2 DEF TreeInv

(* Every path lookup is defined by recursion; every set it stays in holds  *)
(* what it reaches.                                                        *)
LEMMA TreeIsReachable == TablesInv /\ TreeInv => AllReachable
<1> SUFFICES ASSUME TablesInv, TreeInv, NEW i \in Ino, Exists(i) PROVE i \in Resolvable
    BY DEF AllReachable
<1>1. Root \in Ino /\ TablesTypeOK
    BY VolumeAssumption DEF TablesInv, Root, Ino
<1>2. Resolvable \subseteq Ino /\ Root \in Resolvable /\ Closed(Resolvable, {"none", "file", "dir"})
    BY <1>1, BelowIsLeast DEF Resolvable, TablesTypeOK
<1>3. Kept(Resolvable)
    BY <1>1, <1>2 DEF Kept, Closed, TablesTypeOK, Place
<1> QED
    BY <1>2, <1>3 DEF TreeInv, Reached

(* Nothing is leaked: when clients name no path below a regular file, a    *)
(* path leads to every inode after any sequence of Worker operations.  A   *)
(* rename cuts no directory off, rm leaves nothing of what it removes, and *)
(* the inode that loses its last name goes.                                *)
THEOREM NothingLeaked == ASSUME ~IntoFiles PROVE WorkerSpec => []AllReachable
<1>1. Init => TablesInv /\ TreeInv
    BY InitTablesInv, InitTree
<1>2. TablesInv /\ TreeInv /\ [WorkerNext]_tables => (TablesInv /\ TreeInv)'
    BY StepKeepsTablesInv, StepKeepsTree
<1>3. TablesInv /\ TreeInv => AllReachable
    BY TreeIsReachable
<1> QED
    BY <1>1, <1>2, <1>3, PTL DEF WorkerSpec

(* Under the same condition no entry is left in a directory that is gone.  *)
THEOREM ParentsAlwaysExist == ASSUME ~IntoFiles PROVE WorkerSpec => []ParentsExist
<1>1. Init => TablesInv /\ TreeInv
    BY InitTablesInv, InitTree
<1>2. TablesInv /\ TreeInv /\ [WorkerNext]_tables => (TablesInv /\ TreeInv)'
    BY StepKeepsTablesInv, StepKeepsTree
<1>3. TablesInv /\ TreeInv => ParentsExist
    BY DEF TreeInv, InDirectories, ParentsExist, Exists
<1> QED
    BY <1>1, <1>2, <1>3, PTL DEF WorkerSpec

-----------------------------------------------------------------------------
(* Open-inode leases *)

(* A row counts something or has been counted down to zero, and goes with  *)
(* its inode.                                                              *)
RowsOfInodes ==
    \A s \in Session, i \in Ino :
        /\ lease[<<s, i>>] \in Nat \cup {NoRow}
        /\ ~Exists(i) => lease[<<s, i>>] = NoRow

(* Inode numbers are not reused: no mount has a handle on a number that    *)
(* was never allocated.                                                    *)
HandlesOfInodes ==
    \A s \in Session, i \in Ino : i > lastIno => handles[<<s, i>>] = 0

(* The row a release is about to count down still counts the handle given  *)
(* up, unless it has expired and was dropped.                              *)
PendingCounted ==
    \A s \in up :
        op[s].at = "unpin_count" =>
            /\ op[s].ino <= lastIno
            /\ \/ lease[<<s, op[s].ino>>] = NoRow
               \/ lease[<<s, op[s].ino>>] > handles[<<s, op[s].ino>>]

IInv ==
    /\ TypeOK
    /\ RowsOfInodes
    /\ HandlesOfInodes
    /\ PendingCounted
    /\ HandlesAreLeased

(* What every statement on the tables does: inodes are added above the     *)
(* sequence only and keep their type, and a lease row is lost with its     *)
(* inode.                                                                  *)
TableStep ==
    /\ TablesTypeOK'
    /\ lastIno' >= lastIno
    /\ \A i \in Ino : Exists(i) => kind'[i] \in {kind[i], "none"}
    /\ \A i \in Ino : kind'[i] # "none" => Exists(i) \/ i > lastIno
    /\ \A s \in Session, i \in Ino :
          lease'[<<s, i>>] = IF kind'[i] = "none" THEN NoRow ELSE lease[<<s, i>>]
    /\ expired' \subseteq expired

-----------------------------------------------------------------------------
(* Tables *)

(* The names an operation removes are finitely many.                       *)
LEMMA PlacesCounted ==
    ASSUME NEW i \in Ino, NEW names
    PROVE  Cardinality(Names(i) \cap names) \in Nat
<1>1. IsFiniteSet(Ino)
    BY VolumeAssumption, FS_Interval, 1 \in Int DEF Ino
<1>2. IsFiniteSet(Place)
    BY <1>1, VolumeAssumption, FS_Product DEF Place
<1>3. Names(i) \cap names \in SUBSET Place
    BY DEF Names
<1>4. IsFiniteSet(Names(i) \cap names)
    BY <1>2, <1>3, FS_Subset
<1> QED
    BY <1>4, FS_CardinalityType

(* A write of fs_inode that only adds the inode after the last. *)
LEMMA StoreIsTableStep ==
    ASSUME IInv, NEW gone \in SUBSET Ino,
           NEW kinds \in [Ino -> {"none", "file", "dir"}], NEW links \in [Ino -> Int],
           Store(kinds, links, gone), lastIno' \in Ino, lastIno' >= lastIno,
           entry' \in [Place -> Ino \cup {NoIno}],
           \A i \in Ino : kinds[i] # kind[i] =>
               kind[i] = "none" /\ i > lastIno /\ i <= lastIno'
    PROVE  TableStep
<1>1. kind' = [i \in Ino |-> IF i \in gone THEN "none" ELSE kinds[i]]
    BY DEF Store
<1>2. kind' \in [Ino -> {"none", "file", "dir"}]
    BY <1>1
<1>3. nlink' \in [Ino -> Int]
    BY DEF Store
<1>4. lease' \in [Session \X Ino -> Int]
    BY DEF Store, IInv, TypeOK, TablesTypeOK, NoRow
<1>5. expired' \subseteq expired /\ expired' \subseteq Session \X Ino
    BY DEF Store, IInv, TypeOK, TablesTypeOK
<1>6. \A i \in Ino : i > lastIno' => kind'[i] = "none"
  <2> SUFFICES ASSUME NEW i \in Ino, i > lastIno' PROVE kind'[i] = "none"
      OBVIOUS
  <2>1. lastIno \in Int /\ lastIno' \in Int /\ i \in Int
      BY DEF Ino, IInv, TypeOK, TablesTypeOK
  <2>2. i > lastIno /\ ~(i <= lastIno')
      BY <2>1
  <2>3. kind[i] = "none"
      BY <2>2 DEF IInv, TypeOK, TablesTypeOK, Exists
  <2> QED
      BY <1>1, <2>2, <2>3
<1>7. \A i \in Ino : kind'[i] # "none" => Exists(i) \/ i > lastIno
    BY <1>1 DEF Exists
<1>8. ASSUME NEW s \in Session, NEW i \in Ino
      PROVE  lease'[<<s, i>>] = IF kind'[i] = "none" THEN NoRow ELSE lease[<<s, i>>]
  <2>1. <<s, i>> \in Session \X Ino
      OBVIOUS
  <2>2. lease'[<<s, i>>] = IF i \in gone THEN NoRow ELSE lease[<<s, i>>]
      BY <2>1 DEF Store
  <2>3. i \notin gone /\ kind'[i] = "none" => lease[<<s, i>>] = NoRow
      BY <1>1 DEF IInv, RowsOfInodes, Exists
  <2>4. i \in gone => kind'[i] = "none"
      BY <1>1
  <2> QED
      BY <2>2, <2>3, <2>4
<1>9. \A i \in Ino : Exists(i) => kind'[i] \in {kind[i], "none"}
    BY <1>1 DEF Exists
<1> QED
    BY <1>2, <1>3, <1>4, <1>5, <1>6, <1>7, <1>8, <1>9 DEF TableStep, TablesTypeOK, Exists

(* A write that allocates the next inode number.                           *)
LEMMA NewInodeIsTableStep ==
    ASSUME IInv, lastIno < MaxIno, lastIno' = lastIno + 1,
           NEW type \in {"file", "dir"}, NEW links \in [Ino -> Int],
           Store([kind EXCEPT ![lastIno + 1] = type], links, {}),
           entry' \in [Place -> Ino \cup {NoIno}]
    PROVE  TableStep
<1>1. lastIno \in Int /\ lastIno + 1 \in Ino /\ lastIno' >= lastIno
    BY VolumeAssumption DEF Ino, IInv, TypeOK, TablesTypeOK
<1>2. kind[lastIno + 1] = "none"
    BY <1>1 DEF Ino, IInv, TypeOK, TablesTypeOK, Exists
<1> DEFINE kinds == [kind EXCEPT ![lastIno + 1] = type]
<1>3. kinds \in [Ino -> {"none", "file", "dir"}]
    BY DEF IInv, TypeOK, TablesTypeOK
<1>4. \A i \in Ino : kinds[i] # kind[i] =>
          kind[i] = "none" /\ i > lastIno /\ i <= lastIno'
    BY <1>1, <1>2 DEF IInv, TypeOK, TablesTypeOK
<1>5. Store(kinds, links, {})
    OBVIOUS
<1> HIDE DEF kinds
<1> QED
    BY <1>1, <1>3, <1>4, <1>5, StoreIsTableStep

(* A node and its entry, inserted in one transaction.                      *)
LEMMA NewNodeIsTableStep ==
    ASSUME IInv, NEW p \in Ino, NEW n \in Name, NEW type \in {"file", "dir"},
           NEW links \in Int, NEW parentLinks \in Int,
           NewNode(p, n, type, links, parentLinks)
    PROVE  TableStep
<1> DEFINE counts == [nlink EXCEPT ![p] = @ + parentLinks, ![lastIno + 1] = links]
<1>1. lastIno < MaxIno /\ lastIno' = lastIno + 1
    BY DEF NewNode
<1>2. lastIno + 1 \in Ino
    BY <1>1, VolumeAssumption DEF Ino, IInv, TypeOK, TablesTypeOK
<1>3. entry' \in [Place -> Ino \cup {NoIno}]
    BY <1>2 DEF NewNode, IInv, TypeOK, TablesTypeOK
<1>4. counts \in [Ino -> Int]
  <2>1. nlink \in [Ino -> Int] /\ nlink[p] + parentLinks \in Int
      BY DEF IInv, TypeOK, TablesTypeOK
  <2>2. [nlink EXCEPT ![p] = @ + parentLinks] \in [Ino -> Int]
      BY <2>1
  <2> QED
      BY <2>2
<1>5. Store([kind EXCEPT ![lastIno + 1] = type], counts, {})
    BY DEF NewNode
<1> HIDE DEF counts
<1> QED
    BY <1>1, <1>3, <1>4, <1>5, NewInodeIsTableStep

(* The inode table keeps its inodes, with other link counts. *)
LEMMA CountsAreTableStep ==
    ASSUME IInv, NEW links \in [Ino -> Int], NEW gone \in SUBSET Ino,
           Store(kind, links, gone), lastIno' = lastIno,
           entry' \in [Place -> Ino \cup {NoIno}]
    PROVE  TableStep
<1>1. kind \in [Ino -> {"none", "file", "dir"}] /\ lastIno \in Ino /\ lastIno >= lastIno
    BY DEF IInv, TypeOK, TablesTypeOK, Ino
<1> QED
    BY <1>1, StoreIsTableStep

(* Entries change alone.                                                   *)
LEMMA EntriesAreTableStep ==
    ASSUME IInv, entry' \in [Place -> Ino \cup {NoIno}],
           UNCHANGED <<kind, nlink, lastIno, lease, expired>>
    PROVE  TableStep
<1>1. lastIno' >= lastIno
    BY DEF IInv, TypeOK, TablesTypeOK, Ino
<1>2. TablesTypeOK'
    BY DEF IInv, TypeOK, TablesTypeOK, Exists
<1>3. \A s \in Session, i \in Ino :
          lease'[<<s, i>>] = IF kind'[i] = "none" THEN NoRow ELSE lease[<<s, i>>]
    BY DEF IInv, RowsOfInodes, Exists
<1> QED
    BY <1>1, <1>2, <1>3 DEF TableStep, Exists

(* Removals of the Worker.                                                 *)
LEMMA RemoveNamesIsTableStep ==
    ASSUME IInv, NEW names, RemoveNames(names)
    PROVE  TableStep
<1> DEFINE lost(i) == Cardinality(Names(i) \cap names)
           links == [i \in Ino |-> nlink[i] - lost(i)]
           gone == {i \in Ino : lost(i) > 0 /\ nlink[i] = lost(i) /\ ~HasActiveLease(i)}
<1>1. \A i \in Ino : lost(i) \in Nat
    BY PlacesCounted
<1>2. links \in [Ino -> Int]
  <2>1. \A i \in Ino : nlink[i] \in Int
      BY DEF IInv, TypeOK, TablesTypeOK
  <2> HIDE DEF lost
  <2>2. \A i \in Ino : nlink[i] - lost(i) \in Int
      BY <1>1, <2>1
  <2> QED
      BY <2>2
<1>3. gone \in SUBSET Ino
    OBVIOUS
<1>4. Store(kind, links, gone) /\ lastIno' = lastIno
    BY DEF RemoveNames
<1>5. entry' \in [Place -> Ino \cup {NoIno}]
    BY DEF RemoveNames, IInv, TypeOK, TablesTypeOK
<1> HIDE DEF links, gone
<1> QED
    BY <1>2, <1>3, <1>4, <1>5, CountsAreTableStep

-----------------------------------------------------------------------------
(* The Worker and the transactions of the SQL server *)

(* Every operation of the Worker.                                          *)
LEMMA WorkerIsTableStep == IInv /\ WorkerNext => TableStep
<1> SUFFICES ASSUME IInv, WorkerNext PROVE TableStep
    OBVIOUS
<1> USE DEF IInv, TypeOK, TablesTypeOK
<1>1. ASSUME NEW p \in Ino, NEW n \in Name, CreateFile(p, n) PROVE TableStep
  <2>1. NewNode(p, n, "file", 1, 0)
      BY <1>1 DEF CreateFile
  <2> QED
      BY <2>1, NewNodeIsTableStep
<1>2. ASSUME NEW p \in Ino, NEW n \in Name, MakeDir(p, n) PROVE TableStep
  <2>1. NewNode(p, n, "dir", 1, 0)
      BY <1>2 DEF MakeDir
  <2> QED
      BY <2>1, NewNodeIsTableStep
<1>3. ASSUME NEW p \in Ino, NEW n \in Name, Unlink(p, n) PROVE TableStep
    BY <1>3, RemoveNamesIsTableStep DEF Unlink
<1>4. ASSUME NEW p \in Ino, NEW n \in Name, RemoveTree(p, n) PROVE TableStep
    BY <1>4, RemoveNamesIsTableStep DEF RemoveTree
<1>5. ASSUME NEW x \in Place, NEW p \in Ino, NEW n \in Name, Link(x, p, n)
      PROVE  TableStep
  <2> DEFINE links == [nlink EXCEPT ![entry[x]] = @ + 1]
  <2>1. entry[x] \in Ino
      BY <1>5 DEF Link
  <2>2. links \in [Ino -> Int]
      BY <2>1
  <2>3. entry' \in [Place -> Ino \cup {NoIno}]
      BY <1>5, <2>1 DEF Link
  <2>4. Store(kind, links, {}) /\ lastIno' = lastIno
      BY <1>5 DEF Link
  <2> HIDE DEF links
  <2> QED
      BY <2>2, <2>3, <2>4, CountsAreTableStep
<1>6. ASSUME NEW p \in Ino, NEW n \in Name, NEW q \in Ino, NEW m \in Name,
             Rename(p, n, q, m)
      PROVE  TableStep
  <2> DEFINE i == entry[<<p, n>>]
             j == entry[<<q, m>>]
             links == [nlink EXCEPT ![j] = @ - 1]
             gone == {j} \cap {k \in Ino : nlink[k] = 1 /\ ~HasActiveLease(k)}
  <2>1. <<p, n>> \in Place /\ i \in Ino /\ lastIno' = lastIno
      BY <1>6 DEF Rename, Place
  <2>2. entry' = [entry EXCEPT ![<<p, n>>] = NoIno, ![<<q, m>>] = i]
      BY <1>6 DEF Rename
  <2>3. entry' \in [Place -> Ino \cup {NoIno}]
      BY <2>1, <2>2
  <2>4. CASE j = NoIno
      BY <1>6, <2>4, <2>3, EntriesAreTableStep DEF Rename
  <2>5. CASE j # NoIno
    <3>1. links \in [Ino -> Int]
      <4>1. j \in Ino
          BY <1>6, <2>5 DEF Rename, Place
      <4>2. nlink[j] - 1 \in Int
          BY <4>1
      <4> QED
          BY <4>1, <4>2
    <3>2. Store(kind, links, gone)
        BY <1>6, <2>5 DEF Rename
    <3>3. gone \in SUBSET Ino
        OBVIOUS
    <3> HIDE DEF links, gone
    <3> QED
        BY <2>1, <2>3, <3>1, <3>2, <3>3, CountsAreTableStep
  <2> QED
      BY <2>4, <2>5
<1>7. \A x \in Place : x[1] \in Ino /\ x[2] \in Name
    BY DEF Place
<1> QED
    BY <1>1, <1>2, <1>3, <1>4, <1>5, <1>6, <1>7 DEF WorkerNext

(* Every guest request that is one transaction.                            *)
LEMMA TransactionIsTableStep ==
    ASSUME IInv, NEW s \in Session, NEW p \in Ino, NEW n \in Name,
           \/ MakeNode(s, p, n) \/ GuestMakeDir(s, p, n)
           \/ \E i \in Ino : GuestLink(s, i, p, n)
           \/ \E q \in Ino, m \in Name : GuestRename(s, q, m, p, n)
    PROVE  TableStep
<1> USE DEF IInv, TypeOK, TablesTypeOK
<1>1. CASE MakeNode(s, p, n)
  <2>1. NewNode(p, n, "file", 1, 0)
      BY <1>1 DEF MakeNode
  <2> QED
      BY <2>1, NewNodeIsTableStep
<1>2. CASE GuestMakeDir(s, p, n)
  <2>1. NewNode(p, n, "dir", 2, 1)
      BY <1>2 DEF GuestMakeDir
  <2> QED
      BY <2>1, NewNodeIsTableStep
<1>3. ASSUME NEW i \in Ino, GuestLink(s, i, p, n) PROVE TableStep
  <2> DEFINE links == [nlink EXCEPT ![i] = @ + 1]
  <2>1. links \in [Ino -> Int]
      OBVIOUS
  <2>2. entry' \in [Place -> Ino \cup {NoIno}]
      BY <1>3 DEF GuestLink
  <2>3. Store(kind, links, {}) /\ lastIno' = lastIno
      BY <1>3 DEF GuestLink
  <2> HIDE DEF links
  <2> QED
      BY <2>1, <2>2, <2>3, CountsAreTableStep
<1>4. ASSUME NEW q \in Ino, NEW m \in Name, GuestRename(s, q, m, p, n)
      PROVE  TableStep
  <2> DEFINE i == entry[<<q, m>>]
             j == entry[<<p, n>>]
             replaced == IF j = NoIno \/ ~Exists(j) THEN {} ELSE {j}
             moved == IF kind[i] = "dir" /\ q # p THEN 1 ELSE 0
             left(k) == IF kind[j] = "dir" THEN 0 ELSE nlink[k] - 1
             dotdot(d) == (IF d = p THEN moved ELSE 0) - (IF d = q THEN moved ELSE 0)
                          - (IF d = p /\ replaced # {} /\ kind[j] = "dir" THEN 1 ELSE 0)
             links == [k \in Ino |-> IF k \in replaced THEN left(k)
                                     ELSE nlink[k] + dotdot(k)]
             gone == {k \in replaced : left(k) = 0 /\ ~HasActiveLease(k)}
  <2>1. <<q, m>> \in Place /\ i \in Ino /\ j \in Ino \cup {NoIno} /\ lastIno' = lastIno
      BY <1>4 DEF GuestRename, Place
  <2>2. entry' = [entry EXCEPT ![<<q, m>>] = NoIno, ![<<p, n>>] = i]
      BY <1>4 DEF GuestRename
  <2>3. entry' \in [Place -> Ino \cup {NoIno}]
      BY <2>1, <2>2
  <2>4. \A k \in Ino : left(k) \in Int /\ dotdot(k) \in Int /\ nlink[k] \in Int
      OBVIOUS
  <2>5. Store(kind, links, gone)
      BY <1>4 DEF GuestRename
  <2>6. gone \in SUBSET Ino
      BY <2>1
  <2> HIDE DEF gone, left, dotdot
  <2>7. links \in [Ino -> Int]
      BY <2>4
  <2> HIDE DEF links
  <2> QED
      BY <2>1, <2>3, <2>5, <2>6, <2>7, CountsAreTableStep
<1> QED
    BY <1>1, <1>2, <1>3, <1>4

-----------------------------------------------------------------------------
(* Requests and leases *)

(* A request under way knows its inode, and one that stands before an      *)
(* entry knows the entry's place.                                          *)
LEMMA RequestKnows ==
    ASSUME IInv, NEW s \in Session
    PROVE  /\ op[s].at \in EntrySteps =>
                 /\ op[s].dir \in Ino /\ op[s].name \in Name /\ op[s].ino \in Ino
                 /\ \A step \in EntrySteps :
                       [op EXCEPT ![s].at = step] \in [Session -> Op]
           /\ op[s].at \in InodeSteps =>
                 /\ op[s].ino \in Ino
                 /\ \A step \in InodeSteps :
                       [op EXCEPT ![s].at = step] \in [Session -> Op]
<1>1. op \in [Session -> Op] /\ op[s] \in Op
    BY DEF IInv, TypeOK
<1>2. EntrySteps \cap InodeSteps = {} /\ "idle" \notin EntrySteps \cup InodeSteps
    BY DEF EntrySteps, InodeSteps
<1>3. op[s].at \in EntrySteps => op[s] \in [at : EntrySteps, dir : Ino, name : Name, ino : Ino]
    BY <1>1, <1>2 DEF Op, Idle
<1>4. op[s].at \in InodeSteps => op[s] \in [at : InodeSteps, ino : Ino]
    BY <1>1, <1>2 DEF Op, Idle
<1>5. ASSUME op[s].at \in EntrySteps, NEW step \in EntrySteps
      PROVE  [op EXCEPT ![s].at = step] \in [Session -> Op]
  <2>1. [op[s] EXCEPT !.at = step] \in [at : EntrySteps, dir : Ino, name : Name, ino : Ino]
      BY <1>3, <1>5
  <2> QED
      BY <1>1, <2>1 DEF Op
<1>6. ASSUME op[s].at \in InodeSteps, NEW step \in InodeSteps
      PROVE  [op EXCEPT ![s].at = step] \in [Session -> Op]
  <2>1. [op[s] EXCEPT !.at = step] \in [at : InodeSteps, ino : Ino]
      BY <1>4, <1>6
  <2> QED
      BY <1>1, <2>1 DEF Op
<1> QED
    BY <1>3, <1>4, <1>5, <1>6

(* A request that goes on to a step is then at that step. *)
LEMMA StepTaken ==
    ASSUME IInv, NEW s \in Session, NEW step,
           op[s].at \in EntrySteps \/ op[s].at \in InodeSteps
    PROVE  [op EXCEPT ![s].at = step][s].at = step
<1>1. op \in [Session -> Op] /\ op[s] \in Op
    BY DEF IInv, TypeOK
<1>2. "idle" \notin EntrySteps \cup InodeSteps
    BY DEF EntrySteps, InodeSteps
<1>3. \/ op[s] \in [at : EntrySteps, dir : Ino, name : Name, ino : Ino]
      \/ op[s] \in [at : InodeSteps, ino : Ino]
    BY <1>1, <1>2 DEF Op, Idle
<1>4. CASE op[s] \in [at : EntrySteps, dir : Ino, name : Name, ino : Ino]
  <2>1. [op[s] EXCEPT !.at = step].at = step
      BY <1>4
  <2> QED
      BY <1>1, <2>1
<1>5. CASE op[s] \in [at : InodeSteps, ino : Ino]
  <2>1. [op[s] EXCEPT !.at = step].at = step
      BY <1>5
  <2> QED
      BY <1>1, <2>1
<1> QED
    BY <1>3, <1>4, <1>5

(* Leases may be lost, as long as those of open handles are not. *)
LEMMA LeasesLost ==
    ASSUME IInv, TablesTypeOK', lastIno' >= lastIno, RowsOfInodes',
           up' \subseteq up, handles' \in [Session \X Ino -> Nat],
           op' \in [Session -> Op], beat' \in [Session -> {"drop", "reap", "last", "off"}],
           \A x \in Session \X Ino : handles'[x] \in {0, handles[x]},
           \A s \in up' : op'[s].at = "unpin_count" => op'[s] = op[s],
           \A i \in Ino : kind'[i] # "none" => Exists(i) \/ i > lastIno,
           \A x \in Session \X Ino : lease'[x] \in {NoRow, lease[x]},
           \A s \in up', i \in Ino :
               handles'[<<s, i>>] > 0 /\ Exists(i) /\ kind'[i] # "none" =>
                   lease'[<<s, i>>] = lease[<<s, i>>] /\ <<s, i>> \notin expired'
    PROVE  IInv'
<1>1. TypeOK'
    BY DEF IInv, TypeOK
<1>2. lastIno \in Int /\ lastIno' \in Int /\ \A i \in Ino : i \in Int
    BY DEF Ino, IInv, TypeOK, TablesTypeOK
<1>3. HandlesOfInodes'
    BY <1>2 DEF IInv, HandlesOfInodes
<1>4. PendingCounted'
  <2> SUFFICES ASSUME NEW s \in up', op'[s].at = "unpin_count"
               PROVE  /\ op'[s].ino <= lastIno'
                      /\ \/ lease'[<<s, op'[s].ino>>] = NoRow
                         \/ lease'[<<s, op'[s].ino>>] > handles'[<<s, op'[s].ino>>]
      BY DEF PendingCounted
  <2>1. op'[s] = op[s] /\ s \in up /\ s \in Session
      BY DEF IInv, TypeOK
  <2>2. op[s].ino \in Ino
      BY <2>1, RequestKnows DEF InodeSteps
  <2> DEFINE x == <<s, op[s].ino>>
  <2>3. op[s].ino <= lastIno /\ (lease[x] = NoRow \/ lease[x] > handles[x])
      BY <2>1 DEF IInv, PendingCounted
  <2>4. x \in Session \X Ino
      BY <2>1, <2>2
  <2>5. lease[x] \in Int /\ handles[x] \in Nat
      BY <2>4 DEF IInv, TypeOK, TablesTypeOK
  <2> HIDE DEF x
  <2>6. lease'[x] \in {NoRow, lease[x]} /\ handles'[x] \in {0, handles[x]}
      BY <2>4
  <2>7. lease'[x] = NoRow \/ lease'[x] > handles'[x]
      BY <2>3, <2>5, <2>6 DEF NoRow
  <2>8. op[s].ino <= lastIno'
      BY <1>2, <2>2, <2>3
  <2> QED
      BY <2>1, <2>7, <2>8 DEF x
<1>5. HandlesAreLeased'
  <2> SUFFICES ASSUME NEW s \in up', NEW i \in Ino,
                      handles'[<<s, i>>] > 0, kind'[i] # "none"
               PROVE  lease'[<<s, i>>] >= handles'[<<s, i>>] /\ <<s, i>> \notin expired'
      BY DEF HandlesAreLeased, Exists
  <2>1. s \in up /\ <<s, i>> \in Session \X Ino
      BY DEF IInv, TypeOK
  <2>2. handles'[<<s, i>>] = handles[<<s, i>>] /\ handles[<<s, i>>] > 0
      BY <2>1
  <2>3. Exists(i)
      BY <2>1, <2>2, <1>2 DEF IInv, HandlesOfInodes, TypeOK
  <2>4. lease[<<s, i>>] >= handles[<<s, i>>]
      BY <2>1, <2>2, <2>3 DEF IInv, HandlesAreLeased
  <2> QED
      BY <2>2, <2>3, <2>4
<1> QED
    BY <1>1, <1>3, <1>4, <1>5 DEF IInv

(* A statement on inodes and entries keeps every lease that matters. *)
LEMMA TableStepKeeps ==
    ASSUME IInv, TableStep, UNCHANGED <<up, handles>>,
           op' \in [Session -> Op], beat' \in [Session -> {"drop", "reap", "last", "off"}],
           \A s \in up : op'[s].at = "unpin_count" => op'[s] = op[s]
    PROVE  IInv'
<1>1. handles' \in [Session \X Ino -> Nat]
    BY DEF IInv, TypeOK
<1>2. \A s \in Session, i \in Ino :
          lease'[<<s, i>>] = IF kind'[i] = "none" THEN NoRow ELSE lease[<<s, i>>]
    BY DEF TableStep
<1>3. RowsOfInodes'
    BY <1>2 DEF IInv, RowsOfInodes, Exists
<1>4. \A x \in Session \X Ino : lease'[x] \in {NoRow, lease[x]}
    BY <1>2
<1>5. \A s \in up', i \in Ino :
          handles'[<<s, i>>] > 0 /\ Exists(i) /\ kind'[i] # "none" =>
              lease'[<<s, i>>] = lease[<<s, i>>] /\ <<s, i>> \notin expired'
    BY <1>2 DEF IInv, TypeOK, HandlesAreLeased, TableStep
<1> QED
    BY <1>1, <1>3, <1>4, <1>5, LeasesLost DEF TableStep

-----------------------------------------------------------------------------
(* Steps of a request *)

(* The request of s goes to another step than the first of a release. *)
Moves(s) ==
    /\ op' \in [Session -> Op]
    /\ \A t \in Session : t # s => op'[t] = op[t]
    /\ op'[s].at # "unpin_count"

(* What the ways to go on with a request have in common.                   *)
LEMMA StepMoves ==
    ASSUME IInv, NEW s \in Session
    PROVE  /\ Done(s) => Moves(s)
           /\ \A step \in EntrySteps, p \in Ino, n \in Name, i \in Ino :
                 Start(s, step, p, n, i) => Moves(s)
           /\ \A step \in InodeSteps \ {"unpin_count"}, i \in Ino :
                 OnInode(s, step, i) => Moves(s)
           /\ \A step \in EntrySteps :
                 op[s].at \in EntrySteps /\ GoTo(s, step) => Moves(s)
           /\ \A step \in InodeSteps \ {"unpin_count"} :
                 op[s].at \in InodeSteps /\ GoTo(s, step) => Moves(s)
<1>1. op \in [Session -> Op]
    BY DEF IInv, TypeOK
<1>2. Done(s) => Moves(s)
  <2>1. Idle \in Op /\ Idle.at # "unpin_count"
      BY DEF Idle, Op
  <2> QED
      BY <1>1, <2>1 DEF Done, Moves
<1>3. ASSUME NEW step \in EntrySteps, NEW p \in Ino, NEW n \in Name, NEW i \in Ino,
             Start(s, step, p, n, i)
      PROVE  Moves(s)
  <2> DEFINE new == [at |-> step, dir |-> p, name |-> n, ino |-> i]
  <2>1. new \in Op /\ new.at # "unpin_count"
      BY DEF Op, EntrySteps
  <2>2. op' = [op EXCEPT ![s] = new]
      BY <1>3 DEF Start
  <2> HIDE DEF new
  <2> QED
      BY <1>1, <2>1, <2>2 DEF Moves
<1>4. ASSUME NEW step \in InodeSteps \ {"unpin_count"}, NEW i \in Ino, OnInode(s, step, i)
      PROVE  Moves(s)
  <2> DEFINE new == [at |-> step, ino |-> i]
  <2>1. new \in Op /\ new.at # "unpin_count"
      BY DEF Op
  <2>2. op' = [op EXCEPT ![s] = new]
      BY <1>4 DEF OnInode
  <2> HIDE DEF new
  <2> QED
      BY <1>1, <2>1, <2>2 DEF Moves
<1>5. ASSUME NEW step \in EntrySteps, op[s].at \in EntrySteps, GoTo(s, step)
      PROVE  Moves(s)
  <2>1. op' = [op EXCEPT ![s].at = step] /\ op' \in [Session -> Op]
      BY <1>5, RequestKnows DEF GoTo
  <2>2. op'[s].at = step
    <3>1. [op EXCEPT ![s].at = step][s].at = step
        BY <1>5, StepTaken
    <3> QED
        BY <2>1, <3>1
  <2> QED
      BY <1>1, <2>1, <2>2 DEF Moves, EntrySteps
<1>6. ASSUME NEW step \in InodeSteps \ {"unpin_count"}, op[s].at \in InodeSteps, GoTo(s, step)
      PROVE  Moves(s)
  <2>1. op' = [op EXCEPT ![s].at = step] /\ op' \in [Session -> Op]
      BY <1>6, RequestKnows DEF GoTo
  <2>2. op'[s].at = step
    <3>1. [op EXCEPT ![s].at = step][s].at = step
        BY <1>6, StepTaken
    <3> QED
        BY <2>1, <3>1
  <2> QED
      BY <1>1, <2>1, <2>2 DEF Moves
<1> QED
    BY <1>2, <1>3, <1>4, <1>5, <1>6

(* A request goes on, with a statement on inodes or entries or none.       *)
LEMMA RequestStepKeeps ==
    ASSUME IInv, NEW s \in Session, Moves(s), TableStep, KeepMount
    PROVE  IInv'
<1>1. \A t \in up : op'[t].at = "unpin_count" => op'[t] = op[t]
    BY DEF Moves, IInv, TypeOK
<1>2. UNCHANGED <<up, handles>> /\ beat' \in [Session -> {"drop", "reap", "last", "off"}]
    BY DEF KeepMount, IInv, TypeOK
<1> QED
    BY <1>1, <1>2, TableStepKeeps DEF Moves

(* The statements requests are made of. *)
LEMMA StatementIsTableStep ==
    ASSUME IInv
    PROVE  /\ KeepTables => TableStep
           /\ \A p \in Ino, n \in Name : RemoveEntry(p, n) => TableStep
           /\ \A i \in Ino : CountDown(i) => TableStep
           /\ \A gone \in SUBSET Ino : DeleteInodes(gone) => TableStep
<1>1. /\ entry \in [Place -> Ino \cup {NoIno}] /\ nlink \in [Ino -> Int]
    BY DEF IInv, TypeOK, TablesTypeOK
<1>2. KeepTables => TableStep
    BY <1>1, EntriesAreTableStep DEF KeepTables, tables
<1>3. ASSUME NEW p \in Ino, NEW n \in Name, RemoveEntry(p, n) PROVE TableStep
    BY <1>1, <1>3, EntriesAreTableStep DEF RemoveEntry
<1>4. ASSUME NEW i \in Ino, CountDown(i) PROVE TableStep
  <2> DEFINE links == [nlink EXCEPT ![i] = @ - 1]
  <2>1. links \in [Ino -> Int]
      BY <1>1
  <2>2. Store(kind, links, {}) /\ UNCHANGED <<entry, lastIno>>
      BY <1>4 DEF CountDown
  <2> HIDE DEF links
  <2> QED
      BY <1>1, <2>1, <2>2, CountsAreTableStep
<1>5. ASSUME NEW gone \in SUBSET Ino, DeleteInodes(gone) PROVE TableStep
    BY <1>1, <1>5, CountsAreTableStep DEF DeleteInodes
<1> QED
    BY <1>2, <1>3, <1>4, <1>5

(* unlink.                                                                 *)
LEMMA UnlinkMoves ==
    ASSUME IInv, NEW s \in Session,
           UnlinkStep(s) \/ \E p \in Ino, n \in Name : UnlinkLookup(s, p, n)
    PROVE  Moves(s) /\ TableStep /\ KeepMount
<1>1. ASSUME NEW p \in Ino, NEW n \in Name, UnlinkLookup(s, p, n)
      PROVE  Moves(s) /\ TableStep /\ KeepMount
  <2>1. entry[<<p, n>>] \in Ino
      BY <1>1 DEF UnlinkLookup, IInv, TypeOK, TablesTypeOK, Place
  <2> QED
      BY <1>1, <2>1, StepMoves, StatementIsTableStep DEF UnlinkLookup, EntrySteps
<1>2. CASE UnlinkEntry(s)
    BY <1>2, RequestKnows, StepMoves, StatementIsTableStep
    DEF UnlinkEntry, At, EntrySteps, InodeSteps
<1>3. CASE UnlinkCount(s)
    BY <1>3, RequestKnows, StepMoves, StatementIsTableStep DEF UnlinkCount, At, InodeSteps
<1>4. CASE UnlinkLinks(s)
    BY <1>4, StepMoves, StatementIsTableStep DEF UnlinkLinks, At, InodeSteps
<1>5. CASE UnlinkLease(s)
    BY <1>5, StepMoves, StatementIsTableStep DEF UnlinkLease, At, InodeSteps
<1>6. CASE UnlinkDelete(s)
  <2>1. op[s].at \in InodeSteps
      BY <1>6 DEF UnlinkDelete, At, InodeSteps
  <2>2. {op[s].ino} \in SUBSET Ino
      BY <2>1, RequestKnows
  <2> QED
      BY <1>6, <2>2, StepMoves, StatementIsTableStep DEF UnlinkDelete
<1> QED
    BY <1>1, <1>2, <1>3, <1>4, <1>5, <1>6 DEF UnlinkStep

(* rmdir.                                                                  *)
LEMMA RmdirMoves ==
    ASSUME IInv, NEW s \in Session,
           RmdirStep(s) \/ \E p \in Ino, n \in Name : RmdirLookup(s, p, n)
    PROVE  Moves(s) /\ TableStep /\ KeepMount
<1>1. ASSUME NEW p \in Ino, NEW n \in Name, RmdirLookup(s, p, n)
      PROVE  Moves(s) /\ TableStep /\ KeepMount
  <2>1. entry[<<p, n>>] \in Ino
      BY <1>1 DEF RmdirLookup, IInv, TypeOK, TablesTypeOK, Place
  <2> QED
      BY <1>1, <2>1, StepMoves, StatementIsTableStep DEF RmdirLookup, EntrySteps
<1>2. CASE RmdirChildren(s)
    BY <1>2, StepMoves, StatementIsTableStep DEF RmdirChildren, At, EntrySteps
<1>3. CASE RmdirEntry(s)
    BY <1>3, RequestKnows, StepMoves, StatementIsTableStep DEF RmdirEntry, At, EntrySteps
<1>4. CASE RmdirCount(s)
    BY <1>4, RequestKnows, StepMoves, StatementIsTableStep DEF RmdirCount, At, EntrySteps
<1>5. CASE RmdirParent(s)
    BY <1>5, RequestKnows, StepMoves, StatementIsTableStep
    DEF RmdirParent, At, EntrySteps, InodeSteps
<1>6. CASE RmdirLinks(s)
    BY <1>6, StepMoves, StatementIsTableStep DEF RmdirLinks, At, InodeSteps
<1>7. CASE RmdirDelete(s)
  <2>1. op[s].at \in InodeSteps
      BY <1>7 DEF RmdirDelete, At, InodeSteps
  <2>2. {op[s].ino} \in SUBSET Ino
      BY <2>1, RequestKnows
  <2> QED
      BY <1>7, <2>2, StepMoves, StatementIsTableStep DEF RmdirDelete
<1> QED
    BY <1>1, <1>2, <1>3, <1>4, <1>5, <1>6, <1>7 DEF RmdirStep

(* create and open up to the pin, the last statement of a release, errors. *)
LEMMA CreateMoves ==
    ASSUME IInv, NEW s \in Session,
           \/ \E p \in Ino, n \in Name : Create(s, p, n) \/ Open(s, p, n)
           \/ CreateEntry(s) \/ Rollback(s) \/ Fail(s) \/ UnpinInode(s)
    PROVE  Moves(s) /\ TableStep /\ KeepMount
<1>1. ASSUME NEW p \in Ino, NEW n \in Name, Create(s, p, n)
      PROVE  Moves(s) /\ TableStep /\ KeepMount
  <2> DEFINE links == [nlink EXCEPT ![lastIno + 1] = 1]
  <2>1. lastIno + 1 \in Ino /\ entry' \in [Place -> Ino \cup {NoIno}]
      BY <1>1, VolumeAssumption DEF Create, Ino, IInv, TypeOK, TablesTypeOK
  <2>2. links \in [Ino -> Int]
    <3>1. nlink \in [Ino -> Int] /\ 1 \in Int
        BY DEF IInv, TypeOK, TablesTypeOK
    <3> QED
        BY <3>1, <2>1
  <2>3. Store([kind EXCEPT ![lastIno + 1] = "file"], links, {})
      BY <1>1 DEF Create
  <2> HIDE DEF links
  <2>4. lastIno < MaxIno /\ lastIno' = lastIno + 1
      BY <1>1 DEF Create
  <2>5. TableStep
      BY <2>1, <2>2, <2>3, <2>4, NewInodeIsTableStep
  <2>6. Moves(s)
      BY <1>1, <2>1, StepMoves DEF Create, EntrySteps
  <2> QED
      BY <1>1, <2>5, <2>6 DEF Create
<1>2. ASSUME NEW p \in Ino, NEW n \in Name, Open(s, p, n)
      PROVE  Moves(s) /\ TableStep /\ KeepMount
  <2>1. entry[<<p, n>>] \in Ino
      BY <1>2 DEF Open, IInv, TypeOK, TablesTypeOK, Place
  <2> QED
      BY <1>2, <2>1, StepMoves, StatementIsTableStep DEF Open, InodeSteps
<1>3. CASE CreateEntry(s)
  <2>1. op[s].at \in EntrySteps /\ op[s].ino \in Ino
      BY <1>3, RequestKnows DEF CreateEntry, At, EntrySteps
  <2>2. entry' \in [Place -> Ino \cup {NoIno}]
      BY <1>3, <2>1 DEF CreateEntry, IInv, TypeOK, TablesTypeOK
  <2>3. TableStep
      BY <1>3, <2>2, EntriesAreTableStep DEF CreateEntry
  <2>4. Moves(s)
      BY <1>3, <2>1, StepMoves DEF CreateEntry, EntrySteps
  <2> QED
      BY <1>3, <2>3, <2>4 DEF CreateEntry
<1>4. CASE Rollback(s)
  <2>1. op[s].dir \in Ino /\ op[s].name \in Name
      BY <1>4, RequestKnows DEF Rollback, At, EntrySteps
  <2>2. entry[<<op[s].dir, op[s].name>>] \in Ino \cup {NoIno}
      BY <2>1 DEF IInv, TypeOK, TablesTypeOK, Place
  <2>3. Moves(s)
      BY <1>4, <2>1, <2>2, StepMoves DEF Rollback, EntrySteps
  <2> QED
      BY <1>4, <2>3, StatementIsTableStep DEF Rollback
<1>5. CASE Fail(s)
    BY <1>5, StepMoves, StatementIsTableStep DEF Fail
<1>6. CASE UnpinInode(s)
  <2> DEFINE gone == {i \in {op[s].ino} \ {Root} : nlink[i] = 0 /\ ~HasActiveLease(i)}
  <2>1. gone \in SUBSET Ino
    <3>1. op[s].ino \in Ino
        BY <1>6, RequestKnows DEF UnpinInode, At, InodeSteps
    <3> QED
        BY <3>1
  <2>2. DeleteInodes(gone) /\ Done(s) /\ KeepMount
      BY <1>6 DEF UnpinInode
  <2> HIDE DEF gone
  <2> QED
      BY <2>1, <2>2, StepMoves, StatementIsTableStep
<1> QED
    BY <1>1, <1>2, <1>3, <1>4, <1>5, <1>6

-----------------------------------------------------------------------------
(* Steps on lease rows *)

(* What deleting lease rows leaves.                                        *)
LEMMA DeletedRows ==
    ASSUME IInv, NEW rows, DeleteRows(rows)
    PROVE  /\ TablesTypeOK' /\ RowsOfInodes'
           /\ UNCHANGED <<kind, lastIno>> /\ lastIno' >= lastIno
           /\ expired' \subseteq expired
           /\ \A x \in Session \X Ino :
                 lease'[x] = IF x \in rows THEN NoRow ELSE lease[x]
<1>1. \A x \in Session \X Ino : lease'[x] = IF x \in rows THEN NoRow ELSE lease[x]
    BY DEF DeleteRows
<1>2. lease' \in [Session \X Ino -> Int]
    BY DEF DeleteRows, IInv, TypeOK, TablesTypeOK, NoRow
<1>3. TablesTypeOK'
    BY <1>2 DEF DeleteRows, IInv, TypeOK, TablesTypeOK, Exists
<1>4. RowsOfInodes'
    BY <1>1 DEF DeleteRows, IInv, RowsOfInodes, Exists
<1>5. lastIno' >= lastIno
    BY DEF DeleteRows, IInv, TypeOK, TablesTypeOK, Ino
<1> QED
    BY <1>1, <1>3, <1>4, <1>5 DEF DeleteRows

(* Dropping rows that count nothing or have expired loses no lease of an   *)
(* open handle.                                                            *)
LEMMA DroppingKeeps ==
    ASSUME IInv, NEW rows, DeleteRows(rows),
           \A x \in rows : lease[x] <= 0 \/ x \in expired,
           UNCHANGED <<up, handles>>,
           op' \in [Session -> Op], beat' \in [Session -> {"drop", "reap", "last", "off"}],
           \A s \in up : op'[s].at = "unpin_count" => op'[s] = op[s]
    PROVE  IInv'
<1>1. /\ handles' \in [Session \X Ino -> Nat]
      /\ \A x \in Session \X Ino : handles'[x] \in {0, handles[x]}
    BY DEF IInv, TypeOK
<1>2. \A x \in Session \X Ino : lease'[x] \in {NoRow, lease[x]}
    BY DeletedRows
<1>3. ASSUME NEW s \in up, NEW i \in Ino, handles[<<s, i>>] > 0, Exists(i)
      PROVE  lease'[<<s, i>>] = lease[<<s, i>>] /\ <<s, i>> \notin expired'
  <2>1. <<s, i>> \in Session \X Ino
      BY DEF IInv, TypeOK
  <2>2. lease[<<s, i>>] \in Int /\ handles[<<s, i>>] \in Nat
      BY <2>1 DEF IInv, TypeOK, TablesTypeOK
  <2>3. lease[<<s, i>>] >= handles[<<s, i>>] /\ <<s, i>> \notin expired
      BY <1>3 DEF IInv, HandlesAreLeased
  <2>4. <<s, i>> \notin rows
      BY <1>3, <2>2, <2>3
  <2> QED
      BY <2>1, <2>3, <2>4, DeletedRows
<1>4. \A i \in Ino : kind'[i] # "none" => Exists(i) \/ i > lastIno
    BY DeletedRows DEF Exists
<1> QED
    BY <1>1, <1>2, <1>3, <1>4, DeletedRows, LeasesLost

(* The second statement of a release, and the heartbeat.                   *)
LEMMA RowStepKeeps ==
    ASSUME IInv, NEW s \in Session, UnpinRow(s) \/ Drop(s)
    PROVE  IInv'
<1>1. CASE UnpinRow(s)
  <2> DEFINE rows == {<<s, op[s].ino>>} \cap {x \in Session \X Ino : lease[x] <= 0}
  <2>1. DeleteRows(rows) /\ KeepMount /\ Moves(s)
      BY <1>1, StepMoves DEF UnpinRow, At, InodeSteps
  <2>2. \A x \in rows : lease[x] <= 0
      OBVIOUS
  <2> HIDE DEF rows
  <2> QED
      BY <2>1, <2>2, DroppingKeeps DEF KeepMount, Moves, IInv, TypeOK
<1>2. CASE Drop(s)
  <2> DEFINE rows == {x \in Session \X Ino : lease[x] <= 0 \/ x \in expired}
  <2>1. DeleteRows(rows) /\ UNCHANGED <<up, handles, op>>
      BY <1>2 DEF Drop
  <2>2. beat' \in [Session -> {"drop", "reap", "last", "off"}]
      BY <1>2 DEF Drop, IInv, TypeOK
  <2>3. \A x \in rows : lease[x] <= 0 \/ x \in expired
      OBVIOUS
  <2> HIDE DEF rows
  <2> QED
      BY <2>1, <2>2, <2>3, DroppingKeeps DEF IInv, TypeOK
<1> QED
    BY <1>1, <1>2

(* The reapers of orphan inodes.                                           *)
LEMMA ReapKeeps ==
    ASSUME IInv, NEW s \in Session, Reap(s) \/ LastReap(s)
    PROVE  IInv'
<1>1. Orphans \in SUBSET Ino
    BY DEF Orphans
<1>2. TableStep
    BY <1>1, StatementIsTableStep DEF Reap, LastReap
<1>3. /\ UNCHANGED <<up, handles, op>>
      /\ op' \in [Session -> Op]
      /\ beat' \in [Session -> {"drop", "reap", "last", "off"}]
    BY DEF Reap, LastReap, IInv, TypeOK
<1> QED
    BY <1>2, <1>3, TableStepKeeps

(* A mount that ends takes its handles along; the leases of the others     *)
(* stay.                                                                   *)
LEMMA EndKeeps ==
    ASSUME IInv, NEW s \in Session, Unmount(s) \/ Crash(s)
    PROVE  IInv'
<1>1. PICK rows : /\ rows \subseteq {x \in Session \X Ino : x[1] = s}
                  /\ DeleteRows(rows)
  <2>1. CASE Unmount(s)
      BY <2>1 DEF Unmount
  <2>2. CASE Crash(s)
    <3>1. UNCHANGED tables
        BY <2>2 DEF Crash, KeepTables
    <3>2. lease = [x \in Session \X Ino |-> IF x \in {} THEN NoRow ELSE lease[x]]
        BY DEF IInv, TypeOK, TablesTypeOK
    <3>3. DeleteRows({})
        BY <3>1, <3>2 DEF tables, DeleteRows
    <3> QED
        BY <3>3
  <2> QED
      BY <2>1, <2>2
<1>2. /\ up' = up \ {s}
      /\ handles' = [x \in Session \X Ino |-> IF x[1] = s THEN 0 ELSE handles[x]]
      /\ op' = [op EXCEPT ![s] = Idle]
    BY DEF Unmount, Crash, Gone
<1>3. /\ handles' \in [Session \X Ino -> Nat]
      /\ \A x \in Session \X Ino : handles'[x] \in {0, handles[x]}
    BY <1>2 DEF IInv, TypeOK
<1>4. /\ op' \in [Session -> Op]
      /\ \A t \in up' : op'[t] = op[t]
    BY <1>2 DEF IInv, TypeOK, Op
<1>5. beat' \in [Session -> {"drop", "reap", "last", "off"}]
    BY DEF Unmount, Crash, IInv, TypeOK
<1>6. \A x \in Session \X Ino : lease'[x] \in {NoRow, lease[x]}
    BY <1>1, DeletedRows
<1>7. ASSUME NEW t \in up', NEW i \in Ino, handles'[<<t, i>>] > 0, Exists(i)
      PROVE  lease'[<<t, i>>] = lease[<<t, i>>] /\ <<t, i>> \notin expired'
  <2>1. <<t, i>> \in Session \X Ino /\ t # s /\ t \in up
      BY <1>2 DEF IInv, TypeOK
  <2>2. <<t, i>> \notin rows /\ handles[<<t, i>>] > 0
      BY <1>1, <1>2, <1>7, <2>1
  <2>3. <<t, i>> \notin expired
      BY <1>7, <2>1, <2>2 DEF IInv, HandlesAreLeased
  <2> QED
      BY <1>1, <2>1, <2>2, <2>3, DeletedRows
<1>8. \A i \in Ino : kind'[i] # "none" => Exists(i) \/ i > lastIno
    BY <1>1, DeletedRows DEF Exists
<1> QED
    BY <1>1, <1>2, <1>3, <1>4, <1>5, <1>6, <1>7, <1>8, DeletedRows, LeasesLost

(* Only rows without an open handle expire.                                *)
LEMMA ExpireKeeps ==
    ASSUME IInv, NEW x \in Session \X Ino, Expire(x)
    PROVE  IInv'
<1>1. /\ UNCHANGED <<kind, nlink, entry, lastIno, lease, up, handles, op, beat>>
      /\ expired' = expired \cup {x}
    BY DEF Expire, mounts
<1>2. TablesTypeOK' /\ RowsOfInodes' /\ lastIno' >= lastIno
    BY <1>1 DEF IInv, TypeOK, TablesTypeOK, RowsOfInodes, Exists, Ino
<1>3. ASSUME NEW s \in up, NEW i \in Ino, handles[<<s, i>>] > 0, Exists(i)
      PROVE  <<s, i>> \notin expired'
  <2>1. handles[<<s, i>>] # 0 /\ <<s, i>> \notin expired
      BY <1>3 DEF IInv, HandlesAreLeased
  <2>2. x # <<s, i>>
      BY <2>1 DEF Expire
  <2> QED
      BY <1>1, <2>1, <2>2
<1> QED
    BY <1>1, <1>2, <1>3, LeasesLost DEF IInv, TypeOK, Exists

(* What the upsert of a pin leaves.                                        *)
LEMMA Upserted ==
    ASSUME IInv, NEW s \in Session, NEW i \in Ino, Upsert(s, i)
    PROVE  /\ TablesTypeOK' /\ RowsOfInodes'
           /\ UNCHANGED <<kind, lastIno>>
           /\ i <= lastIno
           /\ lease'[<<s, i>>] = IF lease[<<s, i>>] = NoRow THEN 1 ELSE lease[<<s, i>>] + 1
           /\ \A x \in Session \X Ino : x # <<s, i>> => lease'[x] = lease[x]
           /\ expired' = expired \ {<<s, i>>}
<1> DEFINE row == <<s, i>>
<1>1. /\ row \in Session \X Ino /\ lease \in [Session \X Ino -> Int]
      /\ lease[row] \in Nat \cup {NoRow}
    BY DEF IInv, TypeOK, TablesTypeOK, RowsOfInodes
<1>2. /\ lease' = [lease EXCEPT ![row] = IF @ = NoRow THEN 1 ELSE @ + 1]
      /\ expired' = expired \ {row}
      /\ Exists(i) /\ UNCHANGED <<kind, nlink, entry, lastIno>>
    BY DEF Upsert
<1>3. i <= lastIno
    BY <1>2 DEF IInv, TypeOK, TablesTypeOK, Ino
<1> HIDE DEF row
<1>4. /\ lease' \in [Session \X Ino -> Int]
      /\ lease'[row] = IF lease[row] = NoRow THEN 1 ELSE lease[row] + 1
      /\ \A x \in Session \X Ino : x # row => lease'[x] = lease[x]
    BY <1>1, <1>2
<1>5. lease'[row] \in Nat
    BY <1>1, <1>4 DEF NoRow
<1>6. TablesTypeOK'
    BY <1>2, <1>4 DEF IInv, TypeOK, TablesTypeOK, Exists
<1>7. RowsOfInodes'
  <2> SUFFICES ASSUME NEW t \in Session, NEW j \in Ino
               PROVE  /\ lease'[<<t, j>>] \in Nat \cup {NoRow}
                      /\ kind'[j] = "none" => lease'[<<t, j>>] = NoRow
      BY DEF RowsOfInodes, Exists
  <2>1. CASE <<t, j>> = row
      BY <1>2, <1>5, <2>1 DEF row, Exists
  <2>2. CASE <<t, j>> # row
      BY <1>2, <1>4, <2>2 DEF IInv, RowsOfInodes, Exists
  <2> QED
      BY <2>1, <2>2
<1> QED
    BY <1>2, <1>3, <1>4, <1>6, <1>7 DEF row

(* A pin counts the new handle, or one that never came to be.              *)
LEMMA PinKeeps ==
    ASSUME IInv, NEW s \in Session, Pin(s) \/ PinFails(s)
    PROVE  IInv'
<1> DEFINE i == op[s].ino
           row == <<s, i>>
<1>1. i \in Ino /\ s \in up
    BY RequestKnows DEF Pin, PinFails, Pinning, At, EntrySteps, InodeSteps
<1>2. Moves(s) /\ UNCHANGED <<up, beat>>
    BY StepMoves DEF Pin, PinFails, Pinning, At, KeepMount, EntrySteps, InodeSteps
<1>3. CASE KeepTables /\ PinFails(s)
    BY <1>2, <1>3, RequestStepKeeps, StatementIsTableStep DEF PinFails
<1>4. CASE Upsert(s, i) /\ (Pin(s) \/ UNCHANGED handles)
  <2>1. row \in Session \X Ino /\ handles[row] \in Nat /\ lease[row] \in Nat \cup {NoRow}
      BY <1>1 DEF IInv, TypeOK, RowsOfInodes
  <2>2. /\ handles' \in [Session \X Ino -> Nat]
        /\ handles'[row] \in {handles[row], handles[row] + 1}
        /\ \A x \in Session \X Ino : x # row => handles'[x] = handles[x]
      BY <1>4, <2>1 DEF Pin, IInv, TypeOK
  <2>3. Exists(i)
      BY <1>4 DEF Upsert
  <2>4. handles[row] > 0 => lease[row] >= handles[row]
      BY <1>1, <2>3 DEF IInv, HandlesAreLeased
  <2>5. lease'[row] = IF lease[row] = NoRow THEN 1 ELSE lease[row] + 1
      BY <1>1, <1>4, Upserted
  <2>6. lease'[row] >= handles'[row]
    <3> HIDE DEF row
    <3> QED
        BY <2>1, <2>2, <2>4, <2>5 DEF NoRow
  <2>7. \A x \in Session \X Ino : x # row => lease'[x] = lease[x]
      BY <1>1, <1>4, Upserted
  <2>8. TypeOK' /\ RowsOfInodes' /\ UNCHANGED <<kind, lastIno>> /\ i <= lastIno
      BY <1>1, <1>2, <1>4, <2>2, Upserted DEF Moves, IInv, TypeOK
  <2>9. HandlesOfInodes'
    <3> SUFFICES ASSUME NEW t \in Session, NEW j \in Ino, j > lastIno
                 PROVE  handles'[<<t, j>>] = 0
        BY <2>8 DEF HandlesOfInodes
    <3>1. j # i
        BY <1>1, <2>8 DEF Ino, IInv, TypeOK, TablesTypeOK
    <3>2. handles'[<<t, j>>] = handles[<<t, j>>]
        BY <2>2, <3>1
    <3> QED
        BY <3>2 DEF IInv, HandlesOfInodes
  <2>10. PendingCounted'
    <3> SUFFICES ASSUME NEW t \in up, op'[t].at = "unpin_count"
                 PROVE  /\ op'[t].ino <= lastIno
                        /\ \/ lease'[<<t, op'[t].ino>>] = NoRow
                           \/ lease'[<<t, op'[t].ino>>] > handles'[<<t, op'[t].ino>>]
        BY <1>2, <2>8 DEF PendingCounted
    <3>1. t \in Session /\ t # s /\ op'[t] = op[t]
        BY <1>2 DEF Moves, IInv, TypeOK
    <3>2. op[t].ino \in Ino
        BY <3>1, RequestKnows DEF InodeSteps
    <3>3. <<t, op[t].ino>> # row /\ <<t, op[t].ino>> \in Session \X Ino
        BY <3>1, <3>2
    <3> QED
        BY <2>2, <2>7, <3>1, <3>3 DEF IInv, PendingCounted
  <2>11. HandlesAreLeased'
    <3> SUFFICES ASSUME NEW t \in up, NEW j \in Ino, handles'[<<t, j>>] > 0, Exists(j)
                 PROVE  lease'[<<t, j>>] >= handles'[<<t, j>>] /\ <<t, j>> \notin expired'
        BY <1>2, <2>8 DEF HandlesAreLeased, Exists
    <3>1. <<t, j>> \in Session \X Ino
        BY DEF IInv, TypeOK
    <3>2. expired' = expired \ {row}
        BY <1>1, <1>4, Upserted
    <3>3. CASE <<t, j>> = row
        BY <2>6, <3>2, <3>3
    <3>4. CASE <<t, j>> # row
        BY <2>2, <2>7, <3>1, <3>2, <3>4 DEF IInv, HandlesAreLeased
    <3> QED
        BY <3>3, <3>4
  <2> QED
      BY <2>8, <2>9, <2>10, <2>11 DEF IInv
<1> QED
    BY <1>3, <1>4 DEF Pin, PinFails, KeepMount

-----------------------------------------------------------------------------
(* Release *)

(* A release gives its handle up; the row counts it until the next step.   *)
LEMMA ReleaseKeeps ==
    ASSUME IInv, NEW s \in Session, NEW i \in Ino, Release(s, i)
    PROVE  IInv'
<1> DEFINE row == <<s, i>>
           new == [at |-> "unpin_count", ino |-> i]
<1>1. /\ row \in Session \X Ino /\ handles[row] \in Nat \ {0}
      /\ lease[row] \in Nat \cup {NoRow} /\ handles \in [Session \X Ino -> Nat]
    BY DEF Release, IInv, TypeOK, RowsOfInodes
<1>2. /\ handles' \in [Session \X Ino -> Nat] /\ handles'[row] = handles[row] - 1
      /\ \A x \in Session \X Ino : x # row => handles'[x] = handles[x]
  <2>1. handles' = [handles EXCEPT ![row] = @ - 1]
      BY DEF Release
  <2> HIDE DEF row
  <2> QED
      BY <1>1, <2>1
<1>3. s \in up /\ UNCHANGED <<up, beat, kind, nlink, entry, lastIno, lease, expired>>
    BY DEF Release, Accepts, At, KeepTables, tables
<1>4. /\ op' \in [Session -> Op] /\ op'[s] = new
      /\ \A t \in Session : t # s => op'[t] = op[t]
  <2>1. new \in Op /\ op' = [op EXCEPT ![s] = new]
      BY DEF Op, InodeSteps, Release, OnInode
  <2> HIDE DEF new
  <2> QED
      BY <2>1 DEF IInv, TypeOK
<1>5. TypeOK' /\ RowsOfInodes'
    BY <1>2, <1>3, <1>4 DEF IInv, TypeOK, TablesTypeOK, RowsOfInodes, Exists
<1>6. i <= lastIno /\ (lease[row] = NoRow \/ lease[row] >= handles[row])
  <2>1. lastIno \in Int /\ i \in Int /\ ~(i > lastIno)
      BY <1>1 DEF IInv, TypeOK, TablesTypeOK, HandlesOfInodes, Ino
  <2>2. CASE Exists(i)
      BY <1>1, <1>3, <2>1, <2>2 DEF IInv, HandlesAreLeased
  <2>3. CASE ~Exists(i)
      BY <2>1, <2>3 DEF IInv, RowsOfInodes
  <2> QED
      BY <2>1, <2>2, <2>3
<1>7. lease[row] = NoRow \/ lease[row] > handles'[row]
  <2> HIDE DEF row
  <2> QED
      BY <1>1, <1>2, <1>6 DEF NoRow
<1>8. HandlesOfInodes'
  <2> SUFFICES ASSUME NEW t \in Session, NEW j \in Ino, j > lastIno
               PROVE  handles'[<<t, j>>] = 0
      BY <1>3 DEF HandlesOfInodes
  <2>1. handles[<<t, j>>] = 0
      BY DEF IInv, HandlesOfInodes
  <2>2. <<t, j>> # row
      BY <1>1, <2>1
  <2> QED
      BY <1>2, <2>1, <2>2
<1>9. PendingCounted'
  <2> SUFFICES ASSUME NEW t \in up, op'[t].at = "unpin_count"
               PROVE  /\ op'[t].ino <= lastIno
                      /\ \/ lease[<<t, op'[t].ino>>] = NoRow
                         \/ lease[<<t, op'[t].ino>>] > handles'[<<t, op'[t].ino>>]
      BY <1>3 DEF PendingCounted
  <2>1. CASE t = s
      BY <1>4, <1>6, <1>7, <2>1
  <2>2. CASE t # s
    <3>1. t \in Session /\ op'[t] = op[t]
        BY <1>4, <2>2 DEF IInv, TypeOK
    <3>2. op[t].ino \in Ino
        BY <3>1, RequestKnows DEF InodeSteps
    <3>3. <<t, op[t].ino>> # row /\ <<t, op[t].ino>> \in Session \X Ino
        BY <2>2, <3>1, <3>2
    <3> QED
        BY <1>2, <3>1, <3>3 DEF IInv, PendingCounted
  <2> QED
      BY <2>1, <2>2
<1>10. HandlesAreLeased'
  <2> SUFFICES ASSUME NEW t \in up, NEW j \in Ino, handles'[<<t, j>>] > 0, Exists(j)
               PROVE  lease[<<t, j>>] >= handles'[<<t, j>>] /\ <<t, j>> \notin expired
      BY <1>3 DEF HandlesAreLeased, Exists
  <2>1. <<t, j>> \in Session \X Ino
      BY DEF IInv, TypeOK
  <2>2. CASE <<t, j>> = row
    <3>1. <<t, j>> \notin expired /\ lease[<<t, j>>] >= handles[<<t, j>>]
        BY <1>1, <2>2 DEF IInv, HandlesAreLeased
    <3>2. lease[<<t, j>>] # NoRow
        BY <1>1, <2>2, <3>1 DEF NoRow
    <3>3. lease[row] \in Int /\ handles'[row] \in Int /\ lease[row] > handles'[row]
        BY <1>1, <1>2, <1>7, <2>2, <3>2
    <3> HIDE DEF row
    <3> QED
        BY <2>2, <3>1, <3>3
  <2>3. CASE <<t, j>> # row
      BY <1>2, <2>1, <2>3 DEF IInv, HandlesAreLeased
  <2> QED
      BY <2>2, <2>3
<1> QED
    BY <1>5, <1>8, <1>9, <1>10 DEF IInv

(* The count given back is the one that exceeded the handles. *)
LEMMA UnpinCountKeeps ==
    ASSUME IInv, NEW s \in Session, UnpinCount(s)
    PROVE  IInv'
<1> DEFINE i == op[s].ino
           row == <<s, i>>
<1>1. i \in Ino /\ s \in up /\ op[s].at = "unpin_count"
    BY RequestKnows DEF UnpinCount, At, InodeSteps
<1>2. Moves(s) /\ UNCHANGED <<up, handles, beat, kind, nlink, entry, lastIno, expired>>
    BY <1>1, StepMoves DEF UnpinCount, KeepMount, InodeSteps
<1>3. /\ row \in Session \X Ino /\ handles[row] \in Nat
      /\ lease[row] \in Nat \cup {NoRow} /\ lease \in [Session \X Ino -> Int]
      /\ lease[row] = NoRow \/ lease[row] > handles[row]
    BY <1>1 DEF IInv, TypeOK, TablesTypeOK, RowsOfInodes, PendingCounted
<1>4. lease' = [lease EXCEPT ![row] = IF @ = NoRow THEN NoRow ELSE @ - 1]
    BY DEF UnpinCount
<1>5. /\ lease' \in [Session \X Ino -> Int]
      /\ lease'[row] = NoRow <=> lease[row] = NoRow
      /\ lease'[row] \in Nat \cup {NoRow}
      /\ lease[row] # NoRow => lease'[row] >= handles[row]
      /\ \A x \in Session \X Ino : x # row => lease'[x] = lease[x]
  <2> HIDE DEF row
  <2> QED
      BY <1>3, <1>4 DEF NoRow
<1>6. TypeOK'
    BY <1>2, <1>5 DEF Moves, IInv, TypeOK, TablesTypeOK, Exists
<1>7. RowsOfInodes'
  <2> SUFFICES ASSUME NEW t \in Session, NEW j \in Ino
               PROVE  /\ lease'[<<t, j>>] \in Nat \cup {NoRow}
                      /\ ~Exists(j) => lease'[<<t, j>>] = NoRow
      BY <1>2 DEF RowsOfInodes, Exists
  <2>1. CASE <<t, j>> = row
      BY <1>5, <2>1 DEF IInv, RowsOfInodes
  <2>2. CASE <<t, j>> # row
      BY <1>5, <2>2 DEF IInv, RowsOfInodes
  <2> QED
      BY <2>1, <2>2
<1>8. HandlesOfInodes'
    BY <1>2 DEF IInv, HandlesOfInodes
<1>9. PendingCounted'
  <2> SUFFICES ASSUME NEW t \in up, op'[t].at = "unpin_count"
               PROVE  /\ op'[t].ino <= lastIno
                      /\ \/ lease'[<<t, op'[t].ino>>] = NoRow
                         \/ lease'[<<t, op'[t].ino>>] > handles[<<t, op'[t].ino>>]
      BY <1>2 DEF PendingCounted
  <2>1. t \in Session /\ t # s /\ op'[t] = op[t]
      BY <1>2 DEF Moves, IInv, TypeOK
  <2>2. op[t].ino \in Ino
      BY <2>1, RequestKnows DEF InodeSteps
  <2>3. <<t, op[t].ino>> # row /\ <<t, op[t].ino>> \in Session \X Ino
      BY <2>1, <2>2
  <2> QED
      BY <1>5, <2>1, <2>3 DEF IInv, PendingCounted
<1>10. HandlesAreLeased'
  <2> SUFFICES ASSUME NEW t \in up, NEW j \in Ino, handles[<<t, j>>] > 0, Exists(j)
               PROVE  lease'[<<t, j>>] >= handles[<<t, j>>] /\ <<t, j>> \notin expired
      BY <1>2 DEF HandlesAreLeased, Exists
  <2>1. <<t, j>> \in Session \X Ino
      BY DEF IInv, TypeOK
  <2>2. lease[<<t, j>>] >= handles[<<t, j>>] /\ <<t, j>> \notin expired
      BY DEF IInv, HandlesAreLeased
  <2>3. CASE <<t, j>> = row
    <3>1. lease[row] # NoRow
        BY <1>3, <2>2, <2>3 DEF NoRow
    <3> QED
        BY <1>5, <2>2, <2>3, <3>1
  <2>4. CASE <<t, j>> # row
      BY <1>5, <2>1, <2>2, <2>4
  <2> QED
      BY <2>3, <2>4
<1> QED
    BY <1>6, <1>7, <1>8, <1>9, <1>10 DEF IInv

-----------------------------------------------------------------------------
(* Every step *)

(* The invariant holds at first.                                           *)
LEMMA InitInvariant == MountInit => IInv
<1> SUFFICES ASSUME MountInit PROVE IInv
    OBVIOUS
<1>1. Root \in Ino
    BY VolumeAssumption DEF Root, Ino
<1>2. TablesTypeOK
  <2>1. \A i \in Ino : i > Root => i # Root
      BY DEF Root, Ino
  <2> QED
      BY <1>1, <2>1 DEF MountInit, Init, TablesTypeOK, Exists, NoRow, Root
<1>3. TypeOK
    BY <1>2 DEF MountInit, TypeOK, Op
<1>4. RowsOfInodes /\ HandlesOfInodes
    BY DEF MountInit, Init, RowsOfInodes, HandlesOfInodes
<1>5. PendingCounted
    BY DEF MountInit, PendingCounted, Idle
<1>6. HandlesAreLeased
    BY DEF MountInit, HandlesAreLeased
<1> QED
    BY <1>3, <1>4, <1>5, <1>6 DEF IInv

(* The transactions of the SQL server and of the Worker leave the mounts   *)
(* as they are.                                                            *)
LEMMA TransactionKeeps ==
    ASSUME IInv, TableStep, UNCHANGED mounts
    PROVE  IInv'
<1>1. UNCHANGED <<up, handles, op, beat>>
    BY DEF mounts
<1>2. /\ op' \in [Session -> Op]
      /\ beat' \in [Session -> {"drop", "reap", "last", "off"}]
    BY <1>1 DEF IInv, TypeOK
<1> QED
    BY <1>1, <1>2, TableStepKeeps

(* No step breaks the invariant.                                           *)
LEMMA NextKeeps == IInv /\ [Next]_vars => IInv'
<1> SUFFICES ASSUME IInv, [Next]_vars PROVE IInv'
    OBVIOUS
<1>1. ASSUME NEW s \in Session, NEW x \in Place, RequestAt(s, x[1], x[2])
      PROVE  IInv'
  <2> DEFINE p == x[1]
             n == x[2]
  <2>1. p \in Ino /\ n \in Name
      BY DEF Place
  <2> HIDE DEF p, n
  <2>2. RequestAt(s, p, n)
      BY <1>1 DEF p, n
  <2>3. CASE \/ MakeNode(s, p, n) \/ GuestMakeDir(s, p, n)
             \/ \E i \in Ino : GuestLink(s, i, p, n)
    <3>1. UNCHANGED mounts
        BY <2>3 DEF MakeNode, GuestMakeDir, GuestLink
    <3> QED
        BY <2>1, <2>3, <3>1, TransactionIsTableStep, TransactionKeeps
  <2>4. CASE \E y \in Place : GuestRename(s, y[1], y[2], p, n)
    <3>1. PICK y \in Place : GuestRename(s, y[1], y[2], p, n)
        BY <2>4
    <3>2. y[1] \in Ino /\ y[2] \in Name
        BY DEF Place
    <3>3. \E q \in Ino, m \in Name : GuestRename(s, q, m, p, n)
        BY <3>1, <3>2
    <3>4. UNCHANGED mounts
        BY <3>1 DEF GuestRename
    <3> QED
        BY <2>1, <3>3, <3>4, TransactionIsTableStep, TransactionKeeps
  <2>5. CASE Create(s, p, n) \/ Open(s, p, n)
      BY <2>1, <2>5, CreateMoves, RequestStepKeeps
  <2>6. CASE UnlinkLookup(s, p, n)
      BY <2>1, <2>6, UnlinkMoves, RequestStepKeeps
  <2>7. CASE RmdirLookup(s, p, n)
      BY <2>1, <2>7, RmdirMoves, RequestStepKeeps
  <2> QED
      BY <2>2, <2>3, <2>4, <2>5, <2>6, <2>7 DEF RequestAt
<1>2. ASSUME NEW s \in Session, NEW i \in Ino, Release(s, i)
      PROVE  IInv'
    BY <1>2, ReleaseKeeps
<1>3. ASSUME NEW s \in Session, Step(s)
      PROVE  IInv'
  <2>1. CASE UnlinkStep(s)
      BY <2>1, UnlinkMoves, RequestStepKeeps
  <2>2. CASE RmdirStep(s)
      BY <2>2, RmdirMoves, RequestStepKeeps
  <2>3. CASE CreateEntry(s) \/ Rollback(s) \/ UnpinInode(s)
      BY <2>3, CreateMoves, RequestStepKeeps
  <2>4. CASE Pin(s) \/ PinFails(s)
      BY <2>4, PinKeeps
  <2>5. CASE UnpinCount(s)
      BY <2>5, UnpinCountKeeps
  <2>6. CASE UnpinRow(s)
      BY <2>6, RowStepKeeps
  <2> QED
      BY <1>3, <2>1, <2>2, <2>3, <2>4, <2>5, <2>6 DEF Step, UnpinStep
<1>4. ASSUME NEW s \in Session,
             Fail(s) \/ Heartbeat(s) \/ Unmount(s) \/ LastReap(s) \/ Crash(s)
      PROVE  IInv'
  <2>1. CASE Fail(s)
      BY <2>1, CreateMoves, RequestStepKeeps
  <2>2. CASE Drop(s)
      BY <2>2, RowStepKeeps
  <2>3. CASE Reap(s) \/ LastReap(s)
      BY <2>3, ReapKeeps
  <2>4. CASE Unmount(s) \/ Crash(s)
      BY <2>4, EndKeeps
  <2> QED
      BY <1>4, <2>1, <2>2, <2>3, <2>4 DEF Heartbeat
<1>5. CASE \E x \in Session \X Ino : Expire(x)
    BY <1>5, ExpireKeeps
<1>6. CASE WorkerNext /\ UNCHANGED mounts
    BY <1>6, WorkerIsTableStep, TransactionKeeps
<1>7. CASE UNCHANGED vars
  <2>1. UNCHANGED tables /\ UNCHANGED mounts
      BY <1>7 DEF vars
  <2> QED
      BY <2>1, StatementIsTableStep, TransactionKeeps DEF KeepTables
<1> QED
    BY <1>1, <1>2, <1>3, <1>4, <1>5, <1>6, <1>7 DEF Next, MountNext

(* Lease rows count what the mounts hold, at every step of every request:  *)
(* the invariant the theorems below follow from.                           *)
THEOREM MountInvariance == Spec => []IInv
<1> QED
    BY InitInvariant, NextKeeps, PTL DEF Spec

(* Tables, handles, and requests under way keep their form; in particular  *)
(* a request always knows the inode its next statement is about.           *)
THEOREM TypesKept == Spec => []TypeOK
<1>1. IInv => TypeOK
    BY DEF IInv
<1> QED
    BY <1>1, MountInvariance, PTL

(* Every open handle is counted by an unexpired lease row of its mount, as *)
(* long as the inode is there: pin_open_inode, the three statements of     *)
(* unpin_open_inode, the heartbeats and the ends of all mounts, and the    *)
(* passing of time together never take more than a released hold.          *)
THEOREM OpenFilesLeased == Spec => []HandlesAreLeased
<1>1. IInv => HandlesAreLeased
    BY DEF IInv
<1> QED
    BY <1>1, MountInvariance, PTL

-----------------------------------------------------------------------------
(* Deleting inodes *)

(* No inode with an active lease is deleted. *)
SparesLeased == \A i \in Ino : Exists(i) /\ kind'[i] = "none" => ~HasActiveLease(i)

(* An open handle is an active lease to whoever looks.                     *)
LEMMA OpenIsActive ==
    ASSUME IInv, NEW s \in up, NEW i \in Ino, handles[<<s, i>>] > 0, Exists(i)
    PROVE  HasActiveLease(i)
<1>1. s \in Session /\ <<s, i>> \in Session \X Ino
    BY DEF IInv, TypeOK
<1>2. lease[<<s, i>>] \in Int /\ handles[<<s, i>>] \in Nat
    BY <1>1 DEF IInv, TypeOK, TablesTypeOK
<1>3. lease[<<s, i>>] >= handles[<<s, i>>] /\ <<s, i>> \notin expired
    BY DEF IInv, HandlesAreLeased
<1> QED
    BY <1>1, <1>2, <1>3 DEF HasActiveLease

(* Deleting unleased inodes spares the leased ones.                        *)
LEMMA StoreSpares ==
    ASSUME NEW kinds, NEW links, NEW gone, Store(kinds, links, gone),
           \A i \in Ino : Exists(i) => kinds[i] # "none",
           \A i \in gone : ~HasActiveLease(i)
    PROVE  SparesLeased
BY DEF Store, SparesLeased

(* Inserting a node deletes nothing.                                       *)
LEMMA NewNodeSpares ==
    ASSUME IInv, NEW p \in Ino, NEW n \in Name, NEW type \in {"file", "dir"},
           NEW links, NEW parentLinks, NewNode(p, n, type, links, parentLinks)
    PROVE  SparesLeased
<1> DEFINE kinds == [kind EXCEPT ![lastIno + 1] = type]
<1>1. \A i \in Ino : Exists(i) => kinds[i] # "none"
    BY DEF IInv, TypeOK, TablesTypeOK, Exists
<1>2. PICK counts : Store(kinds, counts, {})
    BY DEF NewNode
<1> HIDE DEF kinds
<1> QED
    BY <1>1, <1>2, StoreSpares

(* Deletions that look at the leases in the same transaction. *)
LEMMA CarefulStoreSpares ==
    ASSUME NEW links, NEW gone, Store(kind, links, gone),
           \A i \in gone : ~HasActiveLease(i)
    PROVE  SparesLeased
BY StoreSpares DEF Exists

(* The removals of the Worker look at the leases.                          *)
LEMMA RemoveNamesSpares ==
    ASSUME NEW names, RemoveNames(names)
    PROVE  SparesLeased
<1> DEFINE lost(i) == Cardinality(Names(i) \cap names)
           links == [i \in Ino |-> nlink[i] - lost(i)]
           gone == {i \in Ino : lost(i) > 0 /\ nlink[i] = lost(i) /\ ~HasActiveLease(i)}
<1>1. Store(kind, links, gone)
    BY DEF RemoveNames
<1>2. \A i \in gone : ~HasActiveLease(i)
    OBVIOUS
<1> HIDE DEF links, gone
<1> QED
    BY <1>1, <1>2, CarefulStoreSpares

(* So does every operation of the Worker.                                  *)
LEMMA WorkerSpares == IInv /\ WorkerNext => SparesLeased
<1> SUFFICES ASSUME IInv, NEW x \in Place,
                    \/ CreateFile(x[1], x[2]) \/ MakeDir(x[1], x[2])
                    \/ Unlink(x[1], x[2]) \/ RemoveTree(x[1], x[2])
                    \/ \E y \in Place : Link(y, x[1], x[2]) \/ Rename(y[1], y[2], x[1], x[2])
             PROVE  SparesLeased
    BY DEF WorkerNext
<1> DEFINE p == x[1]
           n == x[2]
<1>1. p \in Ino /\ n \in Name
    BY DEF Place
<1> HIDE DEF p, n
<1>2. CASE CreateFile(p, n) \/ MakeDir(p, n)
  <2>1. NewNode(p, n, "file", 1, 0) \/ NewNode(p, n, "dir", 1, 0)
      BY <1>2 DEF CreateFile, MakeDir
  <2> QED
      BY <1>1, <2>1, NewNodeSpares
<1>3. CASE Unlink(p, n) \/ RemoveTree(p, n)
    BY <1>3, RemoveNamesSpares DEF Unlink, RemoveTree
<1>4. ASSUME NEW y \in Place, Link(y, p, n) PROVE SparesLeased
  <2>1. PICK links : Store(kind, links, {})
      BY <1>4 DEF Link
  <2> QED
      BY <2>1, CarefulStoreSpares
<1>5. ASSUME NEW y \in Place, Rename(y[1], y[2], p, n) PROVE SparesLeased
  <2> DEFINE j == entry[<<p, n>>]
             gone == {j} \cap {k \in Ino : nlink[k] = 1 /\ ~HasActiveLease(k)}
  <2>1. (\E links : Store(kind, links, gone)) \/ UNCHANGED kind
      BY <1>5 DEF Rename
  <2>2. \A i \in gone : ~HasActiveLease(i)
      OBVIOUS
  <2> HIDE DEF gone
  <2> QED
      BY <2>1, <2>2, CarefulStoreSpares DEF SparesLeased, Exists
<1> QED
    BY <1>2, <1>3, <1>4, <1>5 DEF p, n

(* So does every first step of a guest request.                            *)
LEMMA TransactionSpares ==
    ASSUME IInv, NEW s \in Session, NEW x \in Place, RequestAt(s, x[1], x[2])
    PROVE  SparesLeased
<1> DEFINE p == x[1]
           n == x[2]
<1>1. p \in Ino /\ n \in Name
    BY DEF Place
<1> HIDE DEF p, n
<1>2. CASE MakeNode(s, p, n) \/ GuestMakeDir(s, p, n)
  <2>1. NewNode(p, n, "file", 1, 0) \/ NewNode(p, n, "dir", 2, 1)
      BY <1>2 DEF MakeNode, GuestMakeDir
  <2> QED
      BY <1>1, <2>1, NewNodeSpares
<1>3. ASSUME NEW i \in Ino, GuestLink(s, i, p, n) PROVE SparesLeased
  <2>1. PICK links : Store(kind, links, {})
      BY <1>3 DEF GuestLink
  <2> QED
      BY <2>1, CarefulStoreSpares
<1>4. ASSUME NEW y \in Place, GuestRename(s, y[1], y[2], p, n) PROVE SparesLeased
  <2> DEFINE j == entry[<<p, n>>]
             replaced == IF j = NoIno \/ ~Exists(j) THEN {} ELSE {j}
             left(k) == IF kind[j] = "dir" THEN 0 ELSE nlink[k] - 1
             gone == {k \in replaced : left(k) = 0 /\ ~HasActiveLease(k)}
  <2>1. PICK links : Store(kind, links, gone)
      BY <1>4 DEF GuestRename
  <2>2. \A i \in gone : ~HasActiveLease(i)
      OBVIOUS
  <2> HIDE DEF gone
  <2> QED
      BY <2>1, <2>2, CarefulStoreSpares
<1>5. CASE Create(s, p, n)
  <2> DEFINE kinds == [kind EXCEPT ![lastIno + 1] = "file"]
  <2>1. \A i \in Ino : Exists(i) => kinds[i] # "none"
      BY DEF IInv, TypeOK, TablesTypeOK, Exists
  <2>2. PICK links : Store(kinds, links, {})
      BY <1>5 DEF Create
  <2> HIDE DEF kinds
  <2> QED
      BY <2>1, <2>2, StoreSpares
<1>6. CASE Open(s, p, n) \/ UnlinkLookup(s, p, n) \/ RmdirLookup(s, p, n)
    BY <1>6 DEF Open, UnlinkLookup, RmdirLookup, KeepTables, tables, SparesLeased, Exists
<1> QED
    BY <1>2, <1>3, <1>4, <1>5, <1>6 DEF RequestAt, p, n

(* An orphan has no lease row at all. *)
LEMMA OrphansSpared == \A i \in Orphans : ~HasActiveLease(i)
<1> SUFFICES ASSUME NEW i \in Orphans, NEW s \in Session, lease[<<s, i>>] > 0
             PROVE  FALSE
    BY DEF HasActiveLease
<1>1. lease[<<s, i>>] = -1
    BY DEF Orphans, NoRow
<1> QED
    BY <1>1

(* Only the deleting statements of unlink and rmdir trust an earlier read. *)
LEMMA NextSpares ==
    ASSUME IInv, Next,
           ~ \E t \in Session : UnlinkDelete(t) \/ RmdirDelete(t)
    PROVE  SparesLeased
<1>1. UNCHANGED kind => SparesLeased
    BY DEF SparesLeased, Exists
<1>2. ASSUME NEW s \in Session, Step(s) PROVE SparesLeased
  <2>1. CASE \/ UnlinkCount(s) \/ RmdirCount(s) \/ RmdirParent(s)
    <3>1. PICK links : Store(kind, links, {})
        BY <2>1 DEF UnlinkCount, RmdirCount, RmdirParent, CountDown
    <3> QED
        BY <3>1, CarefulStoreSpares
  <2>2. CASE UnpinInode(s)
    <3> DEFINE gone == {i \in {op[s].ino} \ {Root} : nlink[i] = 0 /\ ~HasActiveLease(i)}
    <3>1. Store(kind, nlink, gone)
        BY <2>2 DEF UnpinInode, DeleteInodes
    <3>2. \A i \in gone : ~HasActiveLease(i)
        OBVIOUS
    <3> HIDE DEF gone
    <3> QED
        BY <3>1, <3>2, CarefulStoreSpares
  <2>3. CASE \/ UnlinkEntry(s) \/ UnlinkLinks(s) \/ UnlinkLease(s)
             \/ RmdirChildren(s) \/ RmdirEntry(s) \/ RmdirLinks(s)
             \/ CreateEntry(s) \/ Rollback(s)
      BY <1>1, <2>3 DEF UnlinkEntry, UnlinkLinks, UnlinkLease, RmdirChildren, RmdirEntry,
                        RmdirLinks, CreateEntry, Rollback, RemoveEntry, KeepTables, tables
  <2>4. CASE Pin(s) \/ PinFails(s) \/ UnpinCount(s) \/ UnpinRow(s)
      BY <1>1, <2>4 DEF Pin, PinFails, Upsert, UnpinCount, UnpinRow, DeleteRows,
                        KeepTables, tables
  <2> QED
      BY <1>2, <2>1, <2>2, <2>3, <2>4 DEF Step, UnlinkStep, RmdirStep, UnpinStep
<1>3. ASSUME NEW s \in Session,
             Fail(s) \/ Heartbeat(s) \/ Unmount(s) \/ LastReap(s) \/ Crash(s)
      PROVE  SparesLeased
  <2>1. CASE Reap(s) \/ LastReap(s)
    <3>1. Store(kind, nlink, Orphans)
        BY <2>1 DEF Reap, LastReap, DeleteInodes
    <3> QED
        BY <3>1, OrphansSpared, CarefulStoreSpares
  <2>2. CASE Fail(s) \/ Drop(s) \/ Unmount(s) \/ Crash(s)
      BY <1>1, <2>2 DEF Fail, Drop, Unmount, Crash, DeleteRows, KeepTables, tables
  <2> QED
      BY <1>3, <2>1, <2>2 DEF Heartbeat
<1>4. ASSUME NEW s \in Session, NEW i \in Ino, Release(s, i) PROVE SparesLeased
    BY <1>1, <1>4 DEF Release, KeepTables, tables
<1>5. ASSUME NEW x \in Session \X Ino, Expire(x) PROVE SparesLeased
    BY <1>1, <1>5 DEF Expire
<1> QED
    BY <1>2, <1>3, <1>4, <1>5, WorkerSpares, TransactionSpares DEF Next, MountNext

(* A step that deletes the inode of an open file is the last of an unlink  *)
(* or a rmdir of it.                                                       *)
LEMMA NextDeletesOnlyUnleased ==
    ASSUME IInv, Next
    PROVE  DeletesOnlyUnleased
<1> SUFFICES ASSUME NEW s \in up, NEW i \in Ino,
                    handles[<<s, i>>] > 0, Exists(i), kind'[i] = "none"
             PROVE  \E t \in up : /\ op[t].at \in {"unlink_delete", "rmdir_delete"}
                                  /\ op[t].ino = i
    BY DEF DeletesOnlyUnleased
<1>1. PICK t \in Session : UnlinkDelete(t) \/ RmdirDelete(t)
    BY OpenIsActive, NextSpares DEF SparesLeased
<1>2. t \in up /\ op[t].at \in {"unlink_delete", "rmdir_delete"}
    BY <1>1 DEF UnlinkDelete, RmdirDelete, At
<1>3. Store(kind, nlink, {op[t].ino})
    BY <1>1 DEF UnlinkDelete, RmdirDelete, DeleteInodes
<1>4. i = op[t].ino
    BY <1>3 DEF Store, Exists
<1> QED
    BY <1>2, <1>4

(* No transaction of the Worker or of the SQL server, no release and no    *)
(* reaper ever deletes the inode of an open file, whatever order they come *)
(* in; only the last statement of an unlink or rmdir can, since it acts on *)
(* leases read earlier (unlink) or not at all (rmdir).                     *)
THEOREM LeasesRetained == Spec => LeasesRetain
<1>1. IInv /\ [Next]_vars => [DeletesOnlyUnleased]_vars
    BY NextDeletesOnlyUnleased
<1> QED
    BY <1>1, MountInvariance, PTL DEF Spec, LeasesRetain

-----------------------------------------------------------------------------
(* The inode behind an open handle *)

(* No mount is about to pin an inode that the last statement of an unlink  *)
(* is about to delete: an open overtaken by an unlink loses its inode, and *)
(* nothing else loses one.                                                 *)
NoOpenDuringUnlink ==
    \A s, t \in up : Pinning(s) /\ op[t].at = "unlink_delete" => op[s].ino # op[t].ino

Opening == {"create_entry", "pin_created", "pin_opened"}
Removing == {"rmdir_children", "rmdir_entry", "rmdir_count", "rmdir_parent",
             "rmdir_links", "rmdir_delete"}

(* Only files are open. *)
FilesOpen == \A s \in up, i \in Ino : handles[<<s, i>>] > 0 => kind[i] = "file"

(* An open was of a file and a rmdir of a directory, and the number is not *)
(* given to anything else.                                                 *)
RequestTyped(s) ==
    /\ op[s].at \in Opening => op[s].ino <= lastIno /\ kind[op[s].ino] # "dir"
    /\ op[s].at \in Removing => op[s].ino <= lastIno /\ kind[op[s].ino] # "file"

(* What an unlink is about to delete nobody has open.                      *)
UnlinkUnopened(t) ==
    op[t].at = "unlink_delete" => \A s \in up : handles[<<s, op[t].ino>>] = 0

KeptInv ==
    /\ FilesOpen
    /\ \A s \in up : RequestTyped(s) /\ UnlinkUnopened(s)

(* Inodes keep their type as long as they last. *)
TypesStay ==
    /\ lastIno' \in Int /\ lastIno' >= lastIno
    /\ \A i \in Ino : i <= lastIno => kind'[i] \in {kind[i], "none"}

(* Every statement on inodes or entries leaves the types alone.             *)
LEMMA TableStepTypes == IInv /\ TableStep => TypesStay
<1> SUFFICES ASSUME IInv, TableStep PROVE TypesStay
    OBVIOUS
<1>1. lastIno' \in Int /\ lastIno' >= lastIno
    BY DEF TableStep, TablesTypeOK, Ino
<1>2. ASSUME NEW i \in Ino, i <= lastIno PROVE kind'[i] \in {kind[i], "none"}
  <2>1. ~(i > lastIno)
      BY <1>2 DEF IInv, TypeOK, TablesTypeOK, Ino
  <2> QED
      BY <2>1 DEF TableStep, Exists
<1> QED
    BY <1>1, <1>2 DEF TypesStay

(* So does a step that has nothing to do with inodes.                      *)
LEMMA SameTypes == IInv /\ UNCHANGED <<kind, lastIno>> => TypesStay
BY DEF TypesStay, IInv, TypeOK, TablesTypeOK, Ino

(* An inode that exists has a number that was allocated.                   *)
LEMMA AllocatedBelow ==
    ASSUME IInv, NEW i \in Ino, Exists(i)
    PROVE  i <= lastIno
BY DEF IInv, TypeOK, TablesTypeOK, Ino

(* The request of another mount, or a request that does not go on.         *)
LEMMA RequestStays ==
    ASSUME IInv, TypesStay, NEW t \in up, op'[t] = op[t],
           RequestTyped(t)
    PROVE  RequestTyped(t)'
<1>1. t \in Session
    BY DEF IInv, TypeOK
<1>2. op[t].at \in Opening \cup Removing => op[t].ino \in Ino
    BY <1>1, RequestKnows DEF Opening, Removing, EntrySteps, InodeSteps
<1>3. lastIno \in Int /\ \A i \in Ino : i \in Int
    BY DEF IInv, TypeOK, TablesTypeOK, Ino
<1>4. op[t].at \in Opening \cup Removing => op[t].ino <= lastIno'
    BY <1>2, <1>3 DEF TypesStay, RequestTyped
<1>5. op[t].at \in Opening => kind'[op[t].ino] # "dir"
    BY <1>2 DEF TypesStay, RequestTyped
<1>6. op[t].at \in Removing => kind'[op[t].ino] # "file"
    BY <1>2 DEF TypesStay, RequestTyped
<1> QED
    BY <1>4, <1>5, <1>6 DEF RequestTyped

(* Steps that open nothing.                                                *)
LEMMA KeptUnlessOpened ==
    ASSUME IInv, KeptInv, TypesStay, DeletesOnlyUnleased, up' \subseteq up,
           NEW s \in Session,
           \A x \in Session \X Ino : handles'[x] \in Nat /\ handles'[x] <= handles[x],
           \A t \in Session : t # s => op'[t] = op[t],
           s \in up' => \/ op'[s] = op[s]
                        \/ RequestTyped(s)' /\ UnlinkUnopened(s)'
    PROVE  KeptInv'
<1>1. up \subseteq Session /\ \A x \in Session \X Ino : handles[x] \in Nat
    BY DEF IInv, TypeOK
<1>2. FilesOpen'
  <2> SUFFICES ASSUME NEW t \in up', NEW i \in Ino, handles'[<<t, i>>] > 0
               PROVE  kind'[i] = "file"
      BY DEF FilesOpen
  <2>1. t \in up /\ <<t, i>> \in Session \X Ino
      BY <1>1
  <2>2. handles[<<t, i>>] > 0
    <3> DEFINE h == handles[<<t, i>>]
               k == handles'[<<t, i>>]
    <3>1. h \in Nat /\ k \in Nat /\ k <= h /\ k > 0
        BY <1>1, <2>1
    <3> HIDE DEF h, k
    <3>2. h > 0
        BY <3>1
    <3> QED
        BY <3>2 DEF h
  <2>3. kind[i] = "file" /\ Exists(i)
      BY <2>1, <2>2 DEF KeptInv, FilesOpen, Exists
  <2>4. kind'[i] \in {"file", "none"}
      BY <2>3, AllocatedBelow DEF TypesStay
  <2>5. kind'[i] # "none"
    <3> SUFFICES ASSUME kind'[i] = "none" PROVE FALSE
        OBVIOUS
    <3>1. PICK r \in up : op[r].at \in {"unlink_delete", "rmdir_delete"} /\ op[r].ino = i
        BY <2>1, <2>2, <2>3 DEF DeletesOnlyUnleased
    <3>2. op[r].at # "unlink_delete"
        BY <2>1, <2>2, <3>1 DEF KeptInv, UnlinkUnopened
    <3> QED
        BY <2>3, <3>1, <3>2 DEF KeptInv, RequestTyped, Removing
  <2> QED
      BY <2>4, <2>5
<1>3. ASSUME NEW t \in up', op'[t] = op[t]
      PROVE  RequestTyped(t)' /\ UnlinkUnopened(t)'
  <2>1. t \in up /\ t \in Session
      BY <1>1
  <2>2. RequestTyped(t)'
      BY <1>3, <2>1, RequestStays DEF KeptInv
  <2>3. ASSUME op[t].at = "unlink_delete", NEW r \in up'
        PROVE  handles'[<<r, op[t].ino>>] = 0
    <3>1. op[t].ino \in Ino /\ r \in up
        BY <2>1, <2>3, RequestKnows DEF InodeSteps
    <3> DEFINE x == <<r, op[t].ino>>
    <3>2. x \in Session \X Ino /\ handles[x] = 0
        BY <1>1, <2>1, <2>3, <3>1 DEF KeptInv, UnlinkUnopened
    <3> HIDE DEF x
    <3>3. handles'[x] = 0
        BY <3>2
    <3> QED
        BY <3>3 DEF x
  <2> QED
      BY <1>3, <2>2, <2>3 DEF UnlinkUnopened
<1>4. \A t \in up' : RequestTyped(t)' /\ UnlinkUnopened(t)'
    BY <1>1, <1>3
<1> QED
    BY <1>2, <1>4 DEF KeptInv

(* A request that stands before no pin, no removal of a directory and no   *)
(* delete has nothing to be right about.                                   *)
LEMMA ElsewhereIsKept ==
    ASSUME NEW s \in Session, op'[s].at \notin Opening \cup Removing \cup {"unlink_delete"}
    PROVE  RequestTyped(s)' /\ UnlinkUnopened(s)'
BY DEF RequestTyped, UnlinkUnopened

(* A request that goes on about the same inode.                            *)
LEMMA OnwardIsKept ==
    ASSUME IInv, KeptInv, TypesStay, NEW s \in up,
           op'[s].at # "unlink_delete",
           op'[s].at \in Opening \cup Removing => op'[s].ino = op[s].ino,
           op'[s].at \in Opening => op[s].at \in Opening,
           op'[s].at \in Removing => op[s].at \in Removing
    PROVE  RequestTyped(s)' /\ UnlinkUnopened(s)'
<1>1. s \in Session /\ RequestTyped(s)
    BY DEF IInv, TypeOK, KeptInv
<1>2. op[s].at \in Opening \cup Removing => op[s].ino \in Ino
    BY <1>1, RequestKnows DEF Opening, Removing, EntrySteps, InodeSteps
<1>3. lastIno \in Int /\ \A i \in Ino : i \in Int
    BY DEF IInv, TypeOK, TablesTypeOK, Ino
<1>4. op'[s].at \in Opening \cup Removing => op'[s].ino <= lastIno'
    BY <1>1, <1>2, <1>3 DEF TypesStay, RequestTyped
<1>5. op'[s].at \in Opening => kind'[op'[s].ino] # "dir"
    BY <1>1, <1>2 DEF TypesStay, RequestTyped
<1>6. op'[s].at \in Removing => kind'[op'[s].ino] # "file"
    BY <1>1, <1>2 DEF TypesStay, RequestTyped
<1> QED
    BY <1>4, <1>5, <1>6 DEF RequestTyped, UnlinkUnopened

(* Where the ways to go on with a request lead.                            *)
LEMMA LeadsTo ==
    ASSUME IInv, NEW s \in Session
    PROVE  /\ Done(s) => op'[s].at = "idle"
           /\ \A step \in EntrySteps, p \in Ino, n \in Name, i \in Ino :
                 Start(s, step, p, n, i) => op'[s].at = step /\ op'[s].ino = i
           /\ \A step \in InodeSteps, i \in Ino :
                 OnInode(s, step, i) => op'[s].at = step /\ op'[s].ino = i
           /\ \A step \in EntrySteps \cup InodeSteps :
                 op[s].at \in EntrySteps \cup InodeSteps /\ GoTo(s, step) =>
                     op'[s].at = step /\ op'[s].ino = op[s].ino
<1>1. op \in [Session -> Op] /\ op[s] \in Op
    BY DEF IInv, TypeOK
<1>2. Done(s) => op'[s].at = "idle"
    BY <1>1 DEF Done, Idle
<1>3. ASSUME NEW step \in EntrySteps, NEW p \in Ino, NEW n \in Name, NEW i \in Ino,
             Start(s, step, p, n, i)
      PROVE  op'[s].at = step /\ op'[s].ino = i
    BY <1>1, <1>3 DEF Start
<1>4. ASSUME NEW step \in InodeSteps, NEW i \in Ino, OnInode(s, step, i)
      PROVE  op'[s].at = step /\ op'[s].ino = i
    BY <1>1, <1>4 DEF OnInode
<1>5. ASSUME NEW step \in EntrySteps \cup InodeSteps,
             op[s].at \in EntrySteps \cup InodeSteps, GoTo(s, step)
      PROVE  op'[s].at = step /\ op'[s].ino = op[s].ino
  <2> DEFINE new == [op[s] EXCEPT !.at = step]
  <2>1. op'[s] = new
      BY <1>1, <1>5 DEF GoTo
  <2>2. op[s] \in [at : EntrySteps, dir : Ino, name : Name, ino : Ino]
                  \cup [at : InodeSteps, ino : Ino]
    <3>1. Idle.at \notin EntrySteps \cup InodeSteps
        BY DEF Idle, EntrySteps, InodeSteps
    <3> QED
        BY <1>1, <1>5, <3>1 DEF Op
  <2>3. new.at = step /\ new.ino = op[s].ino
      BY <2>2
  <2> HIDE DEF new
  <2> QED
      BY <2>1, <2>3
<1> QED
    BY <1>2, <1>3, <1>4, <1>5

(* unlink: its last statement is reached for inodes nobody has open.       *)
LEMMA UnlinkKeepsFiles ==
    ASSUME IInv, KeptInv, DeletesOnlyUnleased, NEW s \in Session,
           UnlinkStep(s) \/ \E p \in Ino, n \in Name : UnlinkLookup(s, p, n)
    PROVE  KeptInv'
<1>1. Moves(s) /\ TypesStay /\ UNCHANGED <<up, handles>> /\ s \in up
    BY UnlinkMoves, TableStepTypes
    DEF KeepMount, UnlinkStep, UnlinkEntry, UnlinkCount, UnlinkLinks, UnlinkLease,
        UnlinkDelete, UnlinkLookup, Accepts, At
<1>2. SUFFICES RequestTyped(s)' /\ UnlinkUnopened(s)'
  <2>1. \A x \in Session \X Ino : handles'[x] \in Nat /\ handles'[x] <= handles[x]
      BY <1>1 DEF IInv, TypeOK
  <2> QED
      BY <1>1, <2>1, KeptUnlessOpened DEF Moves
<1>3. CASE UnlinkLease(s)
  <2>1. op[s].at \in InodeSteps /\ op[s].ino \in Ino
      BY <1>3, RequestKnows DEF UnlinkLease, At, InodeSteps
  <2>2. \/ op'[s].at = "idle"
        \/ ~HasActiveLease(op[s].ino) /\ op'[s].at = "unlink_delete" /\ op'[s].ino = op[s].ino
      BY <1>3, <2>1, LeadsTo DEF UnlinkLease, InodeSteps
  <2>3. CASE op'[s].at = "idle"
      BY <2>3, ElsewhereIsKept DEF Opening, Removing
  <2>4. CASE ~HasActiveLease(op[s].ino) /\ op'[s].at = "unlink_delete" /\ op'[s].ino = op[s].ino
    <3>1. ASSUME NEW t \in up PROVE handles[<<t, op[s].ino>>] = 0
      <4>1. <<t, op[s].ino>> \in Session \X Ino
          BY <2>1 DEF IInv, TypeOK
      <4>2. ~(handles[<<t, op[s].ino>>] > 0)
          BY <2>1, <2>4, OpenIsActive DEF KeptInv, FilesOpen, Exists
      <4> DEFINE h == handles[<<t, op[s].ino>>]
      <4>3. h \in Nat /\ ~(h > 0)
          BY <4>1, <4>2 DEF IInv, TypeOK
      <4> HIDE DEF h
      <4>4. h = 0
          BY <4>3
      <4> QED
          BY <4>4 DEF h
    <3> QED
        BY <1>1, <2>4, <3>1 DEF RequestTyped, UnlinkUnopened, Opening, Removing
  <2> QED
      BY <2>2, <2>3, <2>4
<1>4. ASSUME NEW p \in Ino, NEW n \in Name, UnlinkLookup(s, p, n)
      PROVE  RequestTyped(s)' /\ UnlinkUnopened(s)'
  <2>1. entry[<<p, n>>] \in Ino
      BY <1>4 DEF UnlinkLookup, IInv, TypeOK, TablesTypeOK, Place
  <2>2. op'[s].at = "unlink_entry"
      BY <1>4, <2>1, LeadsTo DEF UnlinkLookup, EntrySteps
  <2> QED
      BY <2>2, ElsewhereIsKept DEF Opening, Removing
<1>5. CASE UnlinkEntry(s) \/ UnlinkCount(s) \/ UnlinkLinks(s) \/ UnlinkDelete(s)
  <2>1. op[s].at \in EntrySteps \cup InodeSteps /\ op[s].ino \in Ino
      BY <1>5, RequestKnows
      DEF UnlinkEntry, UnlinkCount, UnlinkLinks, UnlinkDelete, At, EntrySteps, InodeSteps
  <2>2. op'[s].at \in {"unlink_count", "unlink_links", "unlink_lease", "idle"}
      BY <1>5, <2>1, LeadsTo
      DEF UnlinkEntry, UnlinkCount, UnlinkLinks, UnlinkDelete, InodeSteps
  <2> QED
      BY <2>2, ElsewhereIsKept DEF Opening, Removing
<1> QED
    BY <1>3, <1>4, <1>5 DEF UnlinkStep

(* rmdir: it is of a directory to the end.                                 *)
LEMMA RmdirKeepsFiles ==
    ASSUME IInv, KeptInv, DeletesOnlyUnleased, NEW s \in Session,
           RmdirStep(s) \/ \E p \in Ino, n \in Name : RmdirLookup(s, p, n)
    PROVE  KeptInv'
<1>1. Moves(s) /\ TypesStay /\ UNCHANGED <<up, handles>> /\ s \in up
    BY RmdirMoves, TableStepTypes
    DEF KeepMount, RmdirStep, RmdirChildren, RmdirEntry, RmdirCount, RmdirParent,
        RmdirLinks, RmdirDelete, RmdirLookup, Accepts, At
<1>2. SUFFICES RequestTyped(s)' /\ UnlinkUnopened(s)'
  <2>1. \A x \in Session \X Ino : handles'[x] \in Nat /\ handles'[x] <= handles[x]
      BY <1>1 DEF IInv, TypeOK
  <2> QED
      BY <1>1, <2>1, KeptUnlessOpened DEF Moves
<1>3. ASSUME NEW p \in Ino, NEW n \in Name, RmdirLookup(s, p, n)
      PROVE  RequestTyped(s)' /\ UnlinkUnopened(s)'
  <2> DEFINE d == entry[<<p, n>>]
  <2>1. d \in Ino /\ kind[d] = "dir" /\ d <= lastIno
    <3>1. d \in Ino /\ kind[d] = "dir"
        BY <1>3 DEF RmdirLookup, IInv, TypeOK, TablesTypeOK, Place
    <3> QED
        BY <3>1, AllocatedBelow DEF Exists
  <2>2. op'[s].at = "rmdir_children" /\ op'[s].ino = d
      BY <1>3, <2>1, LeadsTo DEF RmdirLookup, EntrySteps
  <2> HIDE DEF d
  <2>3. d <= lastIno'
      BY <1>1, <2>1 DEF TypesStay, IInv, TypeOK, TablesTypeOK, Ino
  <2>4. kind'[d] # "file"
      BY <1>1, <2>1 DEF TypesStay
  <2> QED
      BY <2>2, <2>3, <2>4 DEF RequestTyped, UnlinkUnopened, Opening
<1>4. CASE RmdirStep(s)
  <2>1. op[s].at \in Removing /\ op[s].at \in EntrySteps \cup InodeSteps /\ op[s].ino \in Ino
      BY <1>4, RequestKnows
      DEF RmdirStep, RmdirChildren, RmdirEntry, RmdirCount, RmdirParent, RmdirLinks,
          RmdirDelete, At, Removing, EntrySteps, InodeSteps
  <2>2. \/ op'[s].at = "idle"
        \/ op'[s].at \in Removing /\ op'[s].ino = op[s].ino
      BY <1>4, <2>1, LeadsTo
      DEF RmdirStep, RmdirChildren, RmdirEntry, RmdirCount, RmdirParent, RmdirLinks,
          RmdirDelete, Removing, EntrySteps, InodeSteps
  <2> QED
      BY <1>1, <2>1, <2>2, OnwardIsKept, ElsewhereIsKept DEF Opening, Removing
<1> QED
    BY <1>3, <1>4

(* create and open up to the pin, and errors.                              *)
LEMMA CreateKeepsFiles ==
    ASSUME IInv, KeptInv, DeletesOnlyUnleased, NEW s \in Session,
           \/ \E p \in Ino, n \in Name : Create(s, p, n) \/ Open(s, p, n)
           \/ CreateEntry(s) \/ Rollback(s) \/ Fail(s) \/ UnpinInode(s)
    PROVE  KeptInv'
<1>1. Moves(s) /\ TypesStay /\ UNCHANGED <<up, handles>> /\ s \in up
    BY CreateMoves, TableStepTypes
    DEF KeepMount, Create, Open, CreateEntry, Rollback, Fail, UnpinInode, Accepts, At
<1>2. SUFFICES RequestTyped(s)' /\ UnlinkUnopened(s)'
  <2>1. \A x \in Session \X Ino : handles'[x] \in Nat /\ handles'[x] <= handles[x]
      BY <1>1 DEF IInv, TypeOK
  <2> QED
      BY <1>1, <2>1, KeptUnlessOpened DEF Moves
<1>3. ASSUME NEW p \in Ino, NEW n \in Name, Create(s, p, n)
      PROVE  RequestTyped(s)' /\ UnlinkUnopened(s)'
  <2> DEFINE i == lastIno + 1
  <2>1. i \in Ino /\ lastIno' = i /\ i <= lastIno'
      BY <1>3, VolumeAssumption DEF Create, Ino, IInv, TypeOK, TablesTypeOK
  <2>2. op'[s].at = "create_entry" /\ op'[s].ino = i
      BY <1>3, <2>1, LeadsTo DEF Create, EntrySteps
  <2>3. kind'[i] = "file"
      BY <1>3, <2>1 DEF Create, Store, IInv, TypeOK, TablesTypeOK
  <2> HIDE DEF i
  <2> QED
      BY <2>1, <2>2, <2>3 DEF RequestTyped, UnlinkUnopened, Removing
<1>4. ASSUME NEW p \in Ino, NEW n \in Name, Open(s, p, n)
      PROVE  RequestTyped(s)' /\ UnlinkUnopened(s)'
  <2> DEFINE i == entry[<<p, n>>]
  <2>1. i \in Ino /\ kind[i] = "file" /\ i <= lastIno
    <3>1. i \in Ino /\ kind[i] = "file"
        BY <1>4 DEF Open, IInv, TypeOK, TablesTypeOK, Place
    <3> QED
        BY <3>1, AllocatedBelow DEF Exists
  <2>2. op'[s].at = "pin_opened" /\ op'[s].ino = i
      BY <1>4, <2>1, LeadsTo DEF Open, InodeSteps
  <2>3. UNCHANGED <<kind, lastIno>>
      BY <1>4 DEF Open, KeepTables, tables
  <2> HIDE DEF i
  <2> QED
      BY <2>1, <2>2, <2>3 DEF RequestTyped, UnlinkUnopened, Removing
<1>5. CASE CreateEntry(s)
  <2>1. op[s].at \in Opening /\ op[s].at \in EntrySteps
      BY <1>5 DEF CreateEntry, At, Opening, EntrySteps
  <2>2. \/ op'[s].at = "idle"
        \/ op'[s].at = "pin_created" /\ op'[s].ino = op[s].ino
      BY <1>5, <2>1, LeadsTo DEF CreateEntry, EntrySteps
  <2> QED
      BY <1>1, <2>1, <2>2, OnwardIsKept, ElsewhereIsKept DEF Opening, Removing
<1>6. CASE Rollback(s)
  <2>1. op[s].dir \in Ino /\ op[s].name \in Name
      BY <1>6, RequestKnows DEF Rollback, At, EntrySteps
  <2>2. entry[<<op[s].dir, op[s].name>>] \in Ino \cup {NoIno}
      BY <2>1 DEF IInv, TypeOK, TablesTypeOK, Place
  <2>3. op'[s].at \in {"idle", "unlink_entry"}
      BY <1>6, <2>1, <2>2, LeadsTo DEF Rollback, EntrySteps
  <2> QED
      BY <2>3, ElsewhereIsKept DEF Opening, Removing
<1>7. CASE Fail(s) \/ UnpinInode(s)
  <2>1. op'[s].at = "idle"
      BY <1>7, LeadsTo DEF Fail, UnpinInode
  <2> QED
      BY <2>1, ElsewhereIsKept DEF Opening, Removing
<1> QED
    BY <1>1, <1>3, <1>4, <1>5, <1>6, <1>7

(* A pin that succeeds opens its inode, which is a file.                   *)
LEMMA PinKeepsFiles ==
    ASSUME IInv, KeptInv, NoOpenDuringUnlink, NEW s \in Session, Pin(s)
    PROVE  KeptInv'
<1> DEFINE i == op[s].ino
           row == <<s, i>>
<1>1. /\ i \in Ino /\ s \in up /\ Pinning(s) /\ UNCHANGED up
      /\ Exists(i) /\ UNCHANGED <<kind, lastIno>>
    BY RequestKnows DEF Pin, Pinning, At, Upsert, EntrySteps, InodeSteps
<1>2. kind[i] = "file"
  <2>1. kind[i] # "dir"
      BY <1>1 DEF KeptInv, RequestTyped, Pinning, At, Opening
  <2> QED
      BY <1>1, <2>1 DEF IInv, TypeOK, TablesTypeOK, Exists
<1>3. op'[s].at = "idle" /\ \A t \in Session : t # s => op'[t] = op[t]
    BY LeadsTo DEF Pin, Done, IInv, TypeOK
<1>4. \A x \in Session \X Ino : x # row => handles'[x] = handles[x]
    BY DEF Pin, IInv, TypeOK
<1>5. FilesOpen'
  <2> SUFFICES ASSUME NEW t \in up, NEW j \in Ino, handles'[<<t, j>>] > 0
               PROVE  kind[j] = "file"
      BY <1>1 DEF FilesOpen
  <2>1. <<t, j>> \in Session \X Ino
      BY DEF IInv, TypeOK
  <2>2. CASE <<t, j>> = row
      BY <1>2, <2>2
  <2>3. CASE <<t, j>> # row
      BY <1>4, <2>1, <2>3 DEF KeptInv, FilesOpen
  <2> QED
      BY <2>2, <2>3
<1>6. ASSUME NEW t \in up PROVE RequestTyped(t)' /\ UnlinkUnopened(t)'
  <2>1. CASE t = s
      BY <1>3, <2>1, ElsewhereIsKept DEF Opening, Removing
  <2>2. CASE t # s
    <3>1. t \in Session /\ op'[t] = op[t]
        BY <1>3, <2>2 DEF IInv, TypeOK
    <3>2. RequestTyped(t)'
        BY <1>1, <3>1 DEF KeptInv, RequestTyped
    <3>3. ASSUME op[t].at = "unlink_delete", NEW r \in up
          PROVE  handles'[<<r, op[t].ino>>] = 0
      <4>1. op[t].ino \in Ino /\ r \in Session
          BY <3>1, <3>3, RequestKnows DEF InodeSteps, IInv, TypeOK
      <4>2. op[t].ino # i
          BY <1>1, <3>3 DEF NoOpenDuringUnlink
      <4>3. handles[<<r, op[t].ino>>] = 0
          BY <3>3 DEF KeptInv, UnlinkUnopened
      <4> QED
          BY <1>4, <4>1, <4>2, <4>3
    <3> QED
        BY <1>1, <3>1, <3>2, <3>3 DEF UnlinkUnopened
  <2> QED
      BY <2>1, <2>2
<1> QED
    BY <1>1, <1>5, <1>6 DEF KeptInv

(* Steps that leave the inodes alone, or are no request of several steps.  *)
LEMMA OthersKeepFiles ==
    ASSUME IInv, KeptInv, DeletesOnlyUnleased, TypesStay, UNCHANGED <<handles, op>>,
           up' = up
    PROVE  KeptInv'
<1>1. \A x \in Session \X Ino : handles'[x] \in Nat /\ handles'[x] <= handles[x]
    BY DEF IInv, TypeOK
<1>2. CASE Session = {}
  <2>1. up' = {}
      BY <1>2 DEF IInv, TypeOK
  <2> QED
      BY <2>1 DEF KeptInv, FilesOpen
<1>3. ASSUME NEW s \in Session PROVE KeptInv'
    BY <1>1, KeptUnlessOpened
<1> QED
    BY <1>2, <1>3

(* The lease statements of a request.                                      *)
LEMMA LeaseStepsKeepFiles ==
    ASSUME IInv, KeptInv, DeletesOnlyUnleased, NEW s \in Session,
           \/ PinFails(s) \/ UnpinCount(s) \/ UnpinRow(s)
           \/ \E i \in Ino : Release(s, i)
    PROVE  KeptInv'
<1>1. /\ UNCHANGED <<kind, lastIno, up>>
      /\ \A t \in Session : t # s => op'[t] = op[t]
    BY DEF PinFails, UnpinCount, UnpinRow, Release, DeleteRows, Upsert, KeepTables,
           tables, KeepMount, GoTo, Done, OnInode, IInv, TypeOK
<1>2. TypesStay
    BY <1>1, SameTypes
<1>3. \A x \in Session \X Ino : handles'[x] \in Nat /\ handles'[x] <= handles[x]
  <2>1. handles \in [Session \X Ino -> Nat]
      BY DEF IInv, TypeOK
  <2>2. CASE handles' = handles
      BY <2>1, <2>2
  <2>3. ASSUME NEW i \in Ino, Release(s, i)
        PROVE  \A x \in Session \X Ino : handles'[x] \in Nat /\ handles'[x] <= handles[x]
    <3> DEFINE row == <<s, i>>
    <3>1. handles[row] > 0 /\ handles' = [handles EXCEPT ![row] = @ - 1]
        BY <2>3 DEF Release
    <3> HIDE DEF row
    <3> QED
        BY <2>1, <3>1
  <2> QED
      BY <2>2, <2>3 DEF PinFails, UnpinCount, UnpinRow, KeepMount
<1>4. op'[s].at \notin Opening \cup Removing \cup {"unlink_delete"}
  <2>1. CASE PinFails(s)
    <3>1. op[s].at \in EntrySteps \cup InodeSteps
        BY <2>1 DEF PinFails, Pinning, At, EntrySteps, InodeSteps
    <3>2. op'[s].at \in {"rollback", "idle"}
        BY <2>1, <3>1, LeadsTo DEF PinFails, EntrySteps
    <3> QED
        BY <3>2 DEF Opening, Removing
  <2>2. CASE UnpinCount(s) \/ UnpinRow(s)
    <3>1. op[s].at \in EntrySteps \cup InodeSteps
        BY <2>2 DEF UnpinCount, UnpinRow, At, InodeSteps
    <3>2. op'[s].at \in {"unpin_row", "unpin_inode"}
        BY <2>2, <3>1, LeadsTo DEF UnpinCount, UnpinRow, InodeSteps
    <3> QED
        BY <3>2 DEF Opening, Removing
  <2>3. ASSUME NEW i \in Ino, Release(s, i)
        PROVE  op'[s].at \notin Opening \cup Removing \cup {"unlink_delete"}
    <3>1. op'[s].at = "unpin_count"
        BY <2>3, LeadsTo DEF Release, InodeSteps
    <3> QED
        BY <3>1 DEF Opening, Removing
  <2> QED
      BY <2>1, <2>2, <2>3
<1> QED
    BY <1>1, <1>2, <1>3, <1>4, ElsewhereIsKept, KeptUnlessOpened

(* Mounts that end.                                                        *)
LEMMA EndKeepsFiles ==
    ASSUME IInv, KeptInv, DeletesOnlyUnleased, NEW s \in Session, Unmount(s) \/ Crash(s)
    PROVE  KeptInv'
<1>1. UNCHANGED <<kind, lastIno>> /\ Gone(s)
    BY DEF Unmount, Crash, DeleteRows, KeepTables, tables
<1>2. up' \subseteq up /\ s \notin up' /\ \A t \in Session : t # s => op'[t] = op[t]
    BY <1>1 DEF Gone, IInv, TypeOK
<1>3. \A x \in Session \X Ino : handles'[x] \in Nat /\ handles'[x] <= handles[x]
    BY <1>1 DEF Gone, IInv, TypeOK
<1> QED
    BY <1>1, <1>2, <1>3, SameTypes, KeptUnlessOpened

(* No step loses an open file or what the next ones need to know of it.    *)
LEMMA NextKeepsFiles ==
    IInv /\ KeptInv /\ NoOpenDuringUnlink /\ [Next]_vars => KeptInv'
<1> SUFFICES ASSUME IInv, KeptInv, NoOpenDuringUnlink, [Next]_vars PROVE KeptInv'
    OBVIOUS
<1>1. DeletesOnlyUnleased
  <2>1. UNCHANGED vars => DeletesOnlyUnleased
      BY DEF vars, tables, DeletesOnlyUnleased, Exists
  <2> QED
      BY <2>1, NextDeletesOnlyUnleased
<1>2. ASSUME TableStep, UNCHANGED <<up, handles, op>> PROVE KeptInv'
    BY <1>1, <1>2, TableStepTypes, OthersKeepFiles
<1>3. ASSUME UNCHANGED <<kind, lastIno, up, handles, op>> PROVE KeptInv'
    BY <1>1, <1>3, SameTypes, OthersKeepFiles
<1>4. ASSUME NEW s \in Session, NEW x \in Place, RequestAt(s, x[1], x[2])
      PROVE  KeptInv'
  <2> DEFINE p == x[1]
             n == x[2]
  <2>1. p \in Ino /\ n \in Name
      BY DEF Place
  <2> HIDE DEF p, n
  <2>2. RequestAt(s, p, n)
      BY <1>4 DEF p, n
  <2>3. CASE \/ MakeNode(s, p, n) \/ GuestMakeDir(s, p, n)
             \/ \E i \in Ino : GuestLink(s, i, p, n)
    <3>1. UNCHANGED mounts
        BY <2>3 DEF MakeNode, GuestMakeDir, GuestLink
    <3> QED
        BY <1>2, <2>1, <2>3, <3>1, TransactionIsTableStep DEF mounts
  <2>4. CASE \E y \in Place : GuestRename(s, y[1], y[2], p, n)
    <3>1. PICK y \in Place : GuestRename(s, y[1], y[2], p, n)
        BY <2>4
    <3>2. y[1] \in Ino /\ y[2] \in Name
        BY DEF Place
    <3>3. \E q \in Ino, m \in Name : GuestRename(s, q, m, p, n)
        BY <3>1, <3>2
    <3>4. UNCHANGED mounts
        BY <3>1 DEF GuestRename
    <3> QED
        BY <1>2, <2>1, <3>3, <3>4, TransactionIsTableStep DEF mounts
  <2>5. CASE Create(s, p, n) \/ Open(s, p, n)
      BY <1>1, <2>1, <2>5, CreateKeepsFiles
  <2>6. CASE UnlinkLookup(s, p, n)
      BY <1>1, <2>1, <2>6, UnlinkKeepsFiles
  <2>7. CASE RmdirLookup(s, p, n)
      BY <1>1, <2>1, <2>7, RmdirKeepsFiles
  <2> QED
      BY <2>2, <2>3, <2>4, <2>5, <2>6, <2>7 DEF RequestAt
<1>5. ASSUME NEW s \in Session, Step(s) PROVE KeptInv'
  <2>1. CASE UnlinkStep(s)
      BY <1>1, <2>1, UnlinkKeepsFiles
  <2>2. CASE RmdirStep(s)
      BY <1>1, <2>2, RmdirKeepsFiles
  <2>3. CASE CreateEntry(s) \/ Rollback(s) \/ UnpinInode(s)
      BY <1>1, <2>3, CreateKeepsFiles
  <2>4. CASE Pin(s)
      BY <2>4, PinKeepsFiles
  <2>5. CASE PinFails(s) \/ UnpinCount(s) \/ UnpinRow(s)
      BY <1>1, <2>5, LeaseStepsKeepFiles
  <2> QED
      BY <1>5, <2>1, <2>2, <2>3, <2>4, <2>5 DEF Step, UnpinStep
<1>6. ASSUME NEW s \in Session,
             Fail(s) \/ Heartbeat(s) \/ Unmount(s) \/ LastReap(s) \/ Crash(s)
      PROVE  KeptInv'
  <2>1. CASE Fail(s)
      BY <1>1, <2>1, CreateKeepsFiles
  <2>2. CASE Drop(s)
      BY <1>3, <2>2 DEF Drop, DeleteRows
  <2>3. CASE Reap(s) \/ LastReap(s)
    <3>1. DeleteInodes(Orphans) /\ UNCHANGED <<up, handles, op>>
        BY <2>3 DEF Reap, LastReap
    <3>2. Orphans \in SUBSET Ino
        BY DEF Orphans
    <3> QED
        BY <1>2, <3>1, <3>2, StatementIsTableStep
  <2>4. CASE Unmount(s) \/ Crash(s)
      BY <1>1, <2>4, EndKeepsFiles
  <2> QED
      BY <1>6, <2>1, <2>2, <2>3, <2>4 DEF Heartbeat
<1>7. ASSUME NEW s \in Session, NEW i \in Ino, Release(s, i) PROVE KeptInv'
    BY <1>1, <1>7, LeaseStepsKeepFiles
<1>8. ASSUME NEW x \in Session \X Ino, Expire(x) PROVE KeptInv'
    BY <1>3, <1>8 DEF Expire, mounts
<1>9. CASE WorkerNext /\ UNCHANGED mounts
    BY <1>2, <1>9, WorkerIsTableStep DEF mounts
<1>10. CASE UNCHANGED vars
    BY <1>3, <1>10 DEF vars, tables, mounts
<1> QED
    BY <1>4, <1>5, <1>6, <1>7, <1>8, <1>9, <1>10 DEF Next, MountNext

(* At first nothing is open.                                               *)
LEMMA InitKeepsFiles == MountInit => KeptInv
<1> SUFFICES ASSUME MountInit PROVE KeptInv
    OBVIOUS
<1>1. FilesOpen
    BY DEF MountInit, FilesOpen
<1>2. \A s \in up : op[s].at = "idle"
    BY DEF MountInit, Idle
<1> QED
    BY <1>1, <1>2 DEF KeptInv, RequestTyped, UnlinkUnopened, Opening, Removing

(* An unlink that has found an inode without lease and an open that has    *)
(* found it by name, each between two of its statements, are the only way  *)
(* a file can be lost behind its handle: where no mount is about to pin    *)
(* what another is about to delete, the inode of every open file stays,    *)
(* whatever the mounts, the Worker, crashes, failing statements and time   *)
(* do.                                                                     *)
THEOREM OpenFilesKeptUnlessOvertaken ==
    Spec /\ []NoOpenDuringUnlink => []OpenFilesKept
<1>1. KeptInv => OpenFilesKept
    BY DEF KeptInv, FilesOpen, OpenFilesKept, Exists
<1> QED
    BY <1>1, InitKeepsFiles, NextKeepsFiles, MountInvariance, PTL DEF Spec

(* One mount serves one request at a time, so beside the Worker it keeps   *)
(* every file it has open.                                                 *)
THEOREM OneMountKeepsOpenFiles ==
    ASSUME \A s, t \in Session : s = t
    PROVE  Spec => []OpenFilesKept
<1>1. IInv => NoOpenDuringUnlink
  <2> SUFFICES ASSUME IInv, NEW s \in up, NEW t \in up, Pinning(s), op[t].at = "unlink_delete"
               PROVE  FALSE
      BY DEF NoOpenDuringUnlink
  <2>1. s = t
      BY DEF IInv, TypeOK
  <2> QED
      BY <2>1 DEF Pinning, At
<1> QED
    BY <1>1, MountInvariance, OpenFilesKeptUnlessOvertaken, PTL
=============================================================================
