----------------------------- MODULE HostFSProofs -----------------------------
(***************************************************************************)
(* Proofs about HostFS, for any number of names, files and inodes, on both *)
(* platforms: the lookup counts, whatever other processes do to the        *)
(* directory between the system calls of a call, and the files the inodes  *)
(* stand for, as long as nobody changes a directory while it is listed.    *)
(***************************************************************************)
EXTENDS HostFS, FiniteSetTheorems, TLAPS

-----------------------------------------------------------------------------
(* The invariant of the counts *)

(* An inode of the cache, with the number of lookups it has answered.      *)
IsInode(e) ==
    /\ e = [at |-> e.at, path |-> e.path, src |-> e.src, nlookup |-> e.nlookup]
    /\ e.nlookup \in Nat

(* A cache in which numbers below `next` were given out. *)
IsCache(c, next) ==
    /\ next \in Nat \ {0}
    /\ c = [i \in DOMAIN c |-> c[i]]
    /\ \A i \in DOMAIN c : i \in 1..(next - 1) /\ IsInode(c[i])

(* Only macOS looks up again after a rename, and nobody is told. *)
RenamesAgain == op.act = "rename" => ~Linux

CountInv ==
    /\ IsCache(inodes, next_ino)
    /\ held \in [Ino -> Nat]
    /\ RenamesAgain
    /\ CountsMatch

-----------------------------------------------------------------------------
(* Counting *)

(* The lookups that inode i of a cache has answered. *)
Lookups(c, i) == IF i \in DOMAIN c THEN c[i].nlookup ELSE 0

(* get_or_create_inode counts one lookup, of the inode it answers with.    *)
LEMMA CountsOneLookup ==
    ASSUME CountInv, NEW f, NEW path, NEW src, NEW o, o = get_or_create_inode(f, path, src)
    PROVE  /\ IsCache(o.inodes, o.next)
           /\ o.ino \in DOMAIN o.inodes
           /\ \A i \in DOMAIN o.inodes : i = o.ino \/ i \in DOMAIN inodes
           /\ DOMAIN inodes \subseteq DOMAIN o.inodes
           /\ \A i \in DOMAIN o.inodes :
                 Lookups(o.inodes, i) = IF i = o.ino THEN Lookups(inodes, i) + 1 ELSE Lookups(inodes, i)
<1> DEFINE i == src_to_ino[src]
           e == [at |-> f, path |-> path, src |-> src, nlookup |-> 1]
<1>1. IsCache(inodes, next_ino)
    BY DEF CountInv
<1>2. CASE i # None /\ i \in DOMAIN inodes
  <2>1. /\ o.ino = i /\ o.next = next_ino
        /\ o.inodes = [inodes EXCEPT ![i].nlookup = @ + 1]
      BY <1>2 DEF get_or_create_inode
  <2>2. IsInode(inodes[i])
      BY <1>1, <1>2 DEF IsCache
  <2>3. /\ DOMAIN o.inodes = DOMAIN inodes
        /\ \A k \in DOMAIN inodes : k # i => o.inodes[k] = inodes[k]
        /\ o.inodes[i] = [inodes[i] EXCEPT !.nlookup = @ + 1]
        /\ o.inodes = [k \in DOMAIN o.inodes |-> o.inodes[k]]
      BY <1>1, <1>2, <2>1 DEF IsCache
  <2>4. IsInode(o.inodes[i]) /\ o.inodes[i].nlookup = inodes[i].nlookup + 1
      BY <2>2, <2>3 DEF IsInode
  <2> HIDE DEF i
  <2>5. IsCache(o.inodes, o.next)
      BY <1>1, <2>1, <2>3, <2>4 DEF IsCache
  <2> QED
      BY <1>2, <2>1, <2>3, <2>4, <2>5 DEF Lookups
<1>3. CASE ~(i # None /\ i \in DOMAIN inodes)
  <2>1. /\ o.ino = next_ino /\ o.next = next_ino + 1
        /\ o.inodes = [k \in DOMAIN inodes \cup {next_ino} |-> IF k = next_ino THEN e ELSE inodes[k]]
      BY <1>3 DEF get_or_create_inode
  <2>2. next_ino \notin DOMAIN inodes /\ next_ino \in 1..next_ino /\ next_ino \in Nat \ {0}
      BY <1>1 DEF IsCache
  <2>3. IsInode(e) /\ e.nlookup = 1
      BY DEF IsInode
  <2> HIDE DEF e
  <2>4. IsCache(o.inodes, o.next)
      BY <1>1, <2>1, <2>2, <2>3 DEF IsCache
  <2> QED
      BY <2>1, <2>2, <2>3, <2>4 DEF Lookups
<1> QED
    BY <1>2, <1>3

-----------------------------------------------------------------------------
(* The steps *)

(* A lookup that the client is told of, or that nobody is told of.         *)
LEMMA AnsweredKeepsCounts ==
    ASSUME CountInv, NEW f, NEW path, NEW src, NEW g, platform' = platform, RenamesAgain',
           Answered(get_or_create_inode(f, path, src), g)
    PROVE  CountInv'
<1>0. PICK o : o = get_or_create_inode(f, path, src)
    OBVIOUS
<1>1. inodes' = o.inodes /\ next_ino' = o.next /\ held' = [held EXCEPT ![o.ino] = @ + 1]
    BY <1>0 DEF Answered, Cached
<1>2. /\ IsCache(o.inodes, o.next)
      /\ o.ino \in DOMAIN o.inodes
      /\ \A i \in DOMAIN o.inodes : i = o.ino \/ i \in DOMAIN inodes
      /\ DOMAIN inodes \subseteq DOMAIN o.inodes
      /\ \A i \in DOMAIN o.inodes :
            Lookups(o.inodes, i) = IF i = o.ino THEN Lookups(inodes, i) + 1 ELSE Lookups(inodes, i)
    BY <1>0, CountsOneLookup
<1>3. held' \in [Ino -> Nat]
  <2>1. CASE o.ino \in Ino
    <3>1. held[o.ino] + 1 \in Nat
        BY <2>1 DEF CountInv
    <3> QED
        BY <1>1, <2>1, <3>1 DEF CountInv
  <2>2. CASE o.ino \notin Ino
    <3>1. held' = held
        BY <1>1, <2>2 DEF CountInv
    <3> QED
        BY <3>1 DEF CountInv
  <2> QED
      BY <2>1, <2>2
<1>4. \A i \in DOMAIN inodes : inodes[i].nlookup \in Nat
    BY DEF CountInv, IsCache, IsInode
<1>5. ASSUME NEW i \in Ino \ {Root}
      PROVE  /\ held'[i] > 0 => i \in DOMAIN inodes' /\ inodes'[i].nlookup >= held'[i]
             /\ Linux /\ i \in DOMAIN inodes' => inodes'[i].nlookup = held'[i]
  <2>1. held'[i] = (IF i = o.ino THEN held[i] + 1 ELSE held[i]) /\ held[i] \in Nat
      BY <1>1 DEF CountInv
  <2>2. /\ held[i] > 0 => i \in DOMAIN inodes /\ inodes[i].nlookup >= held[i]
        /\ Linux /\ i \in DOMAIN inodes => inodes[i].nlookup = held[i]
      BY DEF CountInv, CountsMatch
  <2>3. CASE i \in DOMAIN inodes
      BY <1>1, <1>2, <1>4, <2>1, <2>2, <2>3 DEF Lookups
  <2>4. CASE i \notin DOMAIN inodes
    <3>1. held[i] = 0
        BY <2>1, <2>2, <2>4
    <3> QED
        BY <1>1, <1>2, <2>1, <2>4, <3>1 DEF Lookups
  <2> QED
      BY <2>3, <2>4
<1> QED
    BY <1>1, <1>2, <1>3, <1>5 DEF CountInv, CountsMatch, Linux

(* Steps that leave the cache and the counts alone.                        *)
LEMMA OthersKeepCounts ==
    ASSUME CountInv, inodes' = inodes, next_ino' = next_ino, held' = held,
           platform' = platform, RenamesAgain'
    PROVE  CountInv'
BY DEF CountInv, CountsMatch, Linux

LEMMA FoundKeepsCounts ==
    ASSUME CountInv, NEW p, NEW n, Found(p, n), platform' = platform, RenamesAgain'
    PROVE  CountInv'
<1> DEFINE f == Entry(open(p), n)
<1>1. CASE f = None \/ Hidden(p, f)
    BY <1>1, OthersKeepCounts DEF Found, cache, client
<1>2. CASE ~(f = None \/ Hidden(p, f))
    BY <1>2, AnsweredKeepsCounts DEF Found
<1> QED
    BY <1>1, <1>2

(* The lookup at the end of a rename on macOS counts, and no client is     *)
(* told: the inode may be counted more often than it is held, never less.  *)
LEMMA RenameKeepsCounts ==
    ASSUME CountInv, RenameEnds
    PROVE  CountInv'
<1> DEFINE f == Entry(open(op.dir), op.name)
           path == Path(op.dir, op.name)
<1>0. PICK o : o = get_or_create_inode(f, path, host.number[f])
    OBVIOUS
<1>1. platform' = platform /\ held' = held /\ ~Linux /\ ~Linux' /\ RenamesAgain'
    BY DEF RenameEnds, CountInv, RenamesAgain, Linux, client
<1>2. CASE f = None \/ Hidden(op.dir, f)
    BY <1>1, <1>2, OthersKeepCounts DEF RenameEnds, cache
<1>3. CASE ~(f = None \/ Hidden(op.dir, f))
  <2>0. \A c : /\ [o EXCEPT !.inodes = c].inodes = c
              /\ [o EXCEPT !.inodes = c].next = o.next
      BY <1>0 DEF get_or_create_inode
  <2>1. /\ next_ino' = o.next
        /\ inodes' = [o.inodes EXCEPT ![o.ino].path = path]
    <3>1. Cached([o EXCEPT !.inodes = Repathed(o, path)])
        BY <1>0, <1>3 DEF RenameEnds
    <3> QED
        BY <2>0, <3>1 DEF Cached, Repathed
  <2>2. /\ IsCache(o.inodes, o.next)
        /\ o.ino \in DOMAIN o.inodes
        /\ DOMAIN inodes \subseteq DOMAIN o.inodes
        /\ \A i \in DOMAIN o.inodes :
              Lookups(o.inodes, i) = IF i = o.ino THEN Lookups(inodes, i) + 1 ELSE Lookups(inodes, i)
      BY <1>0, CountsOneLookup
  <2>3. DOMAIN inodes' = DOMAIN o.inodes
      BY <2>1
  <2>4. \A i \in DOMAIN o.inodes : inodes'[i] = IF i = o.ino THEN [o.inodes[i] EXCEPT !.path = path]
                                               ELSE o.inodes[i]
      BY <2>1
  <2>5. ASSUME NEW i \in DOMAIN o.inodes
        PROVE  IsInode(inodes'[i]) /\ inodes'[i].nlookup = o.inodes[i].nlookup
    <3>1. IsInode(o.inodes[i])
        BY <2>2 DEF IsCache
    <3> QED
        BY <2>4, <3>1 DEF IsInode
  <2>6. IsCache(inodes', next_ino')
      BY <2>1, <2>2, <2>3, <2>5 DEF IsCache
  <2>7. ASSUME NEW i \in Ino \ {Root}, held'[i] > 0
        PROVE  i \in DOMAIN inodes' /\ inodes'[i].nlookup >= held'[i]
    <3>1. i \in DOMAIN inodes /\ inodes[i].nlookup >= held[i] /\ held[i] \in Nat
        BY <1>1, <2>7 DEF CountInv, CountsMatch
    <3>2. inodes[i].nlookup \in Nat
        BY <3>1 DEF CountInv, IsCache, IsInode
    <3> QED
        BY <1>1, <2>2, <2>3, <2>5, <3>1, <3>2 DEF Lookups
  <2> QED
      BY <1>1, <2>6, <2>7 DEF CountInv, CountsMatch
<1> QED
    BY <1>2, <1>3

(* forget takes back what the client was told, and drops the inode with    *)
(* the last of it.                                                         *)
LEMMA ForgetKeepsCounts ==
    ASSUME CountInv, NEW i \in Ino, NEW n \in Nat, forget(i, n)
    PROVE  CountInv'
<1>1. /\ i # Root /\ n \in 1..held[i] /\ held[i] \in Nat
      /\ held' = [held EXCEPT ![i] = @ - n] /\ next_ino' = next_ino
      /\ platform' = platform /\ op' = op
    BY DEF forget, CountInv
<1>2. IsCache(inodes, next_ino) /\ held \in [Ino -> Nat]
    BY DEF CountInv
<1>3. i \in DOMAIN inodes /\ inodes[i].nlookup >= held[i] /\ inodes[i].nlookup \in Nat
      /\ (Linux => inodes[i].nlookup = held[i])
    BY <1>1, <1>2 DEF CountInv, CountsMatch, IsCache, IsInode
<1>4. held' \in [Ino -> Nat]
      /\ \A k \in Ino : held'[k] = IF k = i THEN held[i] - n ELSE held[k]
    BY <1>1, <1>2
<1>5. RenamesAgain'
    BY <1>1 DEF CountInv, RenamesAgain, Linux
<1>6. CASE inodes[i].nlookup <= n
  <2>1. inodes' = [k \in DOMAIN inodes \ {i} |-> inodes[k]]
      BY <1>3, <1>6 DEF forget, Restrict
  <2>2. IsCache(inodes', next_ino')
      BY <1>1, <1>2, <2>1 DEF IsCache
  <2>3. held'[i] = 0
      BY <1>1, <1>3, <1>4, <1>6
  <2> QED
      BY <1>1, <1>4, <1>5, <2>1, <2>2, <2>3 DEF CountInv, CountsMatch, Linux
<1>7. CASE ~(inodes[i].nlookup <= n)
  <2>1. inodes' = [inodes EXCEPT ![i].nlookup = @ - n]
      BY <1>3, <1>7 DEF forget
  <2>2. /\ DOMAIN inodes' = DOMAIN inodes
        /\ \A k \in DOMAIN inodes : inodes'[k] = IF k = i THEN [inodes[i] EXCEPT !.nlookup = @ - n]
                                                ELSE inodes[k]
        /\ inodes' = [k \in DOMAIN inodes' |-> inodes'[k]]
      BY <1>2, <1>3, <2>1 DEF IsCache
  <2>3. IsInode(inodes'[i]) /\ inodes'[i].nlookup = inodes[i].nlookup - n
    <3>1. IsInode(inodes[i]) /\ inodes[i].nlookup - n \in Nat
        BY <1>1, <1>2, <1>3, <1>7 DEF IsCache
    <3> QED
        BY <1>3, <2>2, <3>1 DEF IsInode
  <2>4. IsCache(inodes', next_ino')
      BY <1>1, <1>2, <2>2, <2>3 DEF IsCache
  <2>5. CountsMatch'
    <3> SUFFICES ASSUME NEW k \in Ino \ {Root}
                 PROVE  /\ held'[k] > 0 => k \in DOMAIN inodes' /\ inodes'[k].nlookup >= held'[k]
                        /\ Linux /\ k \in DOMAIN inodes' => inodes'[k].nlookup = held'[k]
        BY <1>1 DEF CountsMatch, Linux
    <3>1. CASE k = i
        BY <1>1, <1>3, <1>4, <2>2, <2>3, <3>1
    <3>2. CASE k # i
        BY <1>4, <2>2, <3>2 DEF CountInv, CountsMatch
    <3> QED
        BY <3>1, <3>2
  <2> QED
      BY <1>4, <1>5, <2>4, <2>5 DEF CountInv
<1> QED
    BY <1>6, <1>7

LEMMA StepKeepsCounts == CountInv /\ [Next]_vars => CountInv'
<1> SUFFICES ASSUME CountInv, [Next]_vars PROVE CountInv'
    OBVIOUS
<1>0. Idle.act = "none" /\ RenamesAgain
    BY DEF Idle, CountInv
<1> USE DEF RenamesAgain, Linux, cache, client
<1>1. CASE UNCHANGED vars
    BY <1>0, <1>1, OthersKeepCounts DEF vars
<1>2. ASSUME NEW p \in Ino, NEW n \in Name, lookup(p, n) PROVE CountInv'
    BY <1>0, <1>2, FoundKeepsCounts DEF lookup
<1>3. ASSUME NEW p \in Ino, NEW n \in Name, NEW kind, NEW act \in {"lookup", "create"}, make(p, n, kind, act)
      PROVE  CountInv'
  <2>1. op'.act # "rename"
      BY <1>3 DEF make, Idle
  <2> QED
      BY <1>3, <2>1, OthersKeepCounts DEF make
<1>4. ASSUME NEW p \in Ino, NEW n \in Name, create_file(p, n) PROVE CountInv'
  <2>1. CASE make(p, n, "file", "create")
      BY <1>3, <2>1
  <2>2. CASE ~make(p, n, "file", "create")
    <3>1. op'.act # "rename"
        BY <1>4, <2>2 DEF create_file, Idle
    <3> QED
        BY <1>4, <2>2, <3>1, OthersKeepCounts DEF create_file
  <2> QED
      BY <2>1, <2>2
<1>5. ASSUME NEW p \in Ino, NEW n \in Name, unlink(p, n) \/ rmdir(p, n) PROVE CountInv'
    BY <1>0, <1>5, OthersKeepCounts DEF unlink, rmdir
<1>6. ASSUME NEW i \in Ino, NEW p \in Ino, NEW n \in Name, link(i, p, n) PROVE CountInv'
    BY <1>0, <1>6, OthersKeepCounts DEF link, Linked
<1>7. ASSUME NEW p \in Ino, NEW n \in Name, NEW q \in Ino, NEW m \in Name, rename(p, n, q, m)
      PROVE  CountInv'
  <2>1. Linux => op'.act # "rename"
      BY <1>0, <1>7 DEF rename
  <2> QED
      BY <1>7, <2>1, OthersKeepCounts DEF rename
<1>8. CASE LooksUp
    BY <1>0, <1>8, FoundKeepsCounts DEF LooksUp
<1>9. CASE CreateEnds
  <2> DEFINE f == Entry(open(op.dir), op.name)
  <2>1. op'.act # "rename" /\ platform' = platform
      BY <1>0, <1>9 DEF CreateEnds
  <2>2. CASE f = None
      BY <1>9, <2>1, <2>2, OthersKeepCounts DEF CreateEnds
  <2>3. CASE f # None
      BY <1>9, <2>1, <2>3, AnsweredKeepsCounts DEF CreateEnds
  <2> QED
      BY <2>2, <2>3
<1>10. CASE RenameEnds
    BY <1>10, RenameKeepsCounts
<1>11. ASSUME NEW p \in Ino, readdir_plus(p) PROVE CountInv'
  <2>1. op'.act # "rename"
      BY <1>11 DEF readdir_plus, Idle
  <2> QED
      BY <1>11, <2>1, OthersKeepCounts DEF readdir_plus
<1>12. ASSUME NEW x, ListEntry(x) PROVE CountInv'
  <2>1. op.act = "list" /\ op' = [op EXCEPT !.todo = @ \ {x}] /\ platform' = platform
      BY <1>12 DEF ListEntry
  <2>2. op'.act # "rename"
      BY <2>1
  <2>3. CASE platform = "linux"
    <3> DEFINE f == Entry(open(op.dir), x[1])
    <3>1. CASE f = None
        BY <1>12, <2>1, <2>2, <2>3, <3>1, OthersKeepCounts DEF ListEntry, OpenEntry
    <3>2. CASE f # None
        BY <1>12, <2>1, <2>2, <2>3, <3>2, AnsweredKeepsCounts DEF ListEntry, OpenEntry
    <3> QED
        BY <3>1, <3>2
  <2>4. CASE platform # "linux"
      BY <1>12, <2>1, <2>2, <2>4, AnsweredKeepsCounts DEF ListEntry, PathEntry
  <2> QED
      BY <2>3, <2>4
<1>13. CASE ListEnds
    BY <1>0, <1>13, OthersKeepCounts DEF ListEnds
<1>14. ASSUME NEW i \in Ino, NEW n \in 1..MaxLookups, forget(i, n) PROVE CountInv'
  <2>1. n \in Nat
      BY HostAssumption
  <2> QED
      BY <1>14, <2>1, ForgetKeepsCounts
<1>15. ASSUME NEW d \in File, NEW n \in Name, NEW e \in File, NEW m \in Name,
              \/ \E kind \in {"dir", "file"} : HostMakes(d, n, kind)
              \/ HostRemoves(d, n)
              \/ HostMoves(d, n, e, m)
       PROVE  CountInv'
    BY <1>0, <1>15, OthersKeepCounts DEF HostMakes, HostRemoves, HostMoves
<1>16. CASE \E p \in Ino, n \in Name :
              \/ lookup(p, n) \/ mkdir(p, n) \/ mknod(p, n) \/ symlink(p, n) \/ create_file(p, n)
              \/ unlink(p, n) \/ rmdir(p, n)
              \/ \E i \in Ino : link(i, p, n)
              \/ \E q \in Ino, m \in Name : rename(p, n, q, m)
    BY <1>2, <1>3, <1>4, <1>5, <1>6, <1>7, <1>16 DEF mkdir, mknod, symlink
<1> QED
    BY <1>1, <1>8, <1>9, <1>10, <1>11, <1>12, <1>13, <1>14, <1>15, <1>16 DEF Next

LEMMA InitCounts == Init => CountInv
<1> SUFFICES ASSUME Init PROVE CountInv
    OBVIOUS
<1>1. IsCache(inodes, next_ino)
    BY DEF Init, IsCache, IsInode, Root
<1>2. held \in [Ino -> Nat] /\ \A i \in Ino : held[i] = 0
    BY DEF Init
<1>3. RenamesAgain
    BY DEF Init, RenamesAgain, Idle
<1>4. CountsMatch
    BY <1>2 DEF CountsMatch, Init
<1> QED
    BY <1>1, <1>2, <1>3, <1>4 DEF CountInv

(* get_or_create_inode and forget keep the count of each inode at what the *)
(* client was told and has not forgotten, on Linux exactly: an inode that  *)
(* is held never leaves the cache, and one that is forgotten never keeps   *)
(* its descriptor.                                                         *)
THEOREM LookupsCounted == Spec => []CountsMatch
<1>1. CountInv => CountsMatch
    BY DEF CountInv
<1> QED
    BY InitCounts, StepKeepsCounts, <1>1, PTL DEF Spec

-----------------------------------------------------------------------------
(* Numbers *)

(* A set of numbers that is not empty has a least one: of the intervals    *)
(* from 0 to its members, one contains no other.                           *)
LEMMA HasMin ==
    ASSUME NEW T \in SUBSET Nat, T # {}
    PROVE  Min(T) \in T /\ \A y \in T : Min(T) <= y
<1> DEFINE upTo == {0..x : x \in T}
<1>1. upTo \subseteq FiniteSubsetsOf(Nat) /\ upTo # {}
  <2>1. \A x \in T : 0..x \in SUBSET Nat /\ IsFiniteSet(0..x)
      BY FS_Interval
  <2> QED
      BY <2>1 DEF FiniteSubsetsOf
<1>2. PICK low \in upTo : \A y \in upTo : <<y, low>> \notin StrictSubsetOrdering(Nat)
  <2> HIDE DEF upTo
  <2> QED
      BY <1>1, FS_StrictSubsetOrderingWellFounded, WFMin
<1>3. PICK x \in T : low = 0..x
    OBVIOUS
<1>4. ASSUME NEW y \in T PROVE x <= y
  <2> SUFFICES ASSUME y < x PROVE FALSE
      OBVIOUS
  <2>1. 0..y \in upTo /\ 0..y \in SUBSET Nat /\ 0..x \in SUBSET Nat
      OBVIOUS
  <2>2. 0..y \subseteq 0..x /\ x \in 0..x /\ x \notin 0..y
      OBVIOUS
  <2> QED
      BY <1>2, <1>3, <2>1, <2>2 DEF StrictSubsetOrdering
<1>5. \E z \in T : \A y \in T : z <= y
    BY <1>4
<1> QED
    BY <1>5 DEF Min

(* A set that holds 0 and the successor of each number it holds.           *)
LEMMA AllNumbers ==
    ASSUME NEW T, 0 \in T, \A k \in Nat : k \in T => k + 1 \in T
    PROVE  Nat \subseteq T
<1> SUFFICES ASSUME Nat \ T # {} PROVE FALSE
    OBVIOUS
<1>1. PICK k \in Nat \ T : \A y \in Nat \ T : k <= y
  <2>1. PICK S \in SUBSET Nat : S = Nat \ T
      OBVIOUS
  <2> QED
      BY <2>1, HasMin
<1>2. k # 0 /\ k - 1 \in Nat /\ k - 1 \in T
    BY <1>1
<1>3. (k - 1) + 1 \in T
    BY <1>2
<1> QED
    BY <1>3

-----------------------------------------------------------------------------
(* Paths *)

(* What d leads to under a name, if every entry leads to what T says.      *)
Leads(T, d, n) == IF d = None THEN None ELSE T[<<d, n>>]

Leading(f, T, s, n) ==
    f = [k \in 0..n |-> IF k = 0 THEN Root
                        ELSE IF f[k - 1] = None THEN None ELSE T[<<f[k - 1], s[k]>>]]

(* There is a function that goes n names of s from the root on.            *)
LEMMA LeadingFor ==
    ASSUME NEW T, NEW s, NEW n \in Nat
    PROVE  \E f : Leading(f, T, s, n)
<1> DEFINE X == {k \in Nat : \E f : Leading(f, T, s, k)}
<1>1. 0 \in X
  <2>1. PICK f : f = [k \in 0..0 |-> Root]
      OBVIOUS
  <2>2. Leading(f, T, s, 0)
      BY <2>1 DEF Leading
  <2> QED
      BY <2>2
<1>2. ASSUME NEW k \in Nat, k \in X PROVE k + 1 \in X
  <2>1. PICK f : Leading(f, T, s, k)
      BY <1>2
  <2>2. PICK g : g = [j \in 0..(k + 1) |-> IF j <= k THEN f[j] ELSE Leads(T, f[k], s[k + 1])]
      OBVIOUS
  <2>3. ASSUME NEW j \in 0..(k + 1)
        PROVE  g[j] = IF j = 0 THEN Root ELSE Leads(T, g[j - 1], s[j])
    <3>1. CASE j <= k
      <4>1. j \in 0..k /\ j \in 0..(k + 1) /\ (j # 0 => j - 1 \in 0..(k + 1) /\ j - 1 <= k)
          BY <3>1
      <4>2. g[j] = f[j] /\ (j # 0 => g[j - 1] = f[j - 1])
          BY <2>2, <3>1, <4>1
      <4>3. f[j] = IF j = 0 THEN Root ELSE Leads(T, f[j - 1], s[j])
          BY <2>1, <4>1 DEF Leading, Leads
      <4> QED
          BY <4>2, <4>3
    <3>2. CASE j = k + 1
      <4>1. j # 0 /\ j - 1 = k /\ k \in 0..(k + 1)
          BY <3>2
      <4>2. g[j] = Leads(T, f[k], s[k + 1]) /\ g[k] = f[k]
          BY <2>2, <3>2, <4>1
      <4> QED
          BY <3>2, <4>1, <4>2
    <3> QED
        BY <3>1, <3>2
  <2>4. g = [j \in 0..(k + 1) |-> g[j]]
      BY <2>2
  <2>5. Leading(g, T, s, k + 1)
      BY <2>3, <2>4 DEF Leading, Leads
  <2> QED
      BY <2>5
<1> HIDE DEF X
<1>3. n \in X
    BY <1>1, <1>2, AllNumbers
<1> QED
    BY <1>3 DEF X

(* Follow goes from the root on, one name at a time.                       *)
LEMMA FollowLeads ==
    ASSUME NEW T, NEW s, NEW n \in Nat, n = Len(s)
    PROVE  /\ Follow(T, s)[0] = Root
           /\ \A k \in 1..n : Follow(T, s)[k] = Leads(T, Follow(T, s)[k - 1], s[k])
<1> DEFINE to == CHOOSE f : f = [k \in 0..n |-> IF k = 0 THEN Root
                                  ELSE IF f[k - 1] = None THEN None ELSE T[<<f[k - 1], s[k]>>]]
<1>1. Follow(T, s) = to
    BY DEF Follow
<1>2. \E f : f = [k \in 0..n |-> IF k = 0 THEN Root
                   ELSE IF f[k - 1] = None THEN None ELSE T[<<f[k - 1], s[k]>>]]
  <2>1. PICK f : Leading(f, T, s, n)
      BY LeadingFor
  <2> QED
      BY <2>1 DEF Leading
<1>3. to = [k \in 0..n |-> IF k = 0 THEN Root
              ELSE IF to[k - 1] = None THEN None ELSE T[<<to[k - 1], s[k]>>]]
    BY <1>2
<1> HIDE DEF to
<1>4. to[0] = Root
    BY <1>3
<1>5. ASSUME NEW k \in 1..n PROVE to[k] = Leads(T, to[k - 1], s[k])
  <2>1. k \in 0..n /\ k # 0
      OBVIOUS
  <2> QED
      BY <1>3, <2>1 DEF Leads
<1> QED
    BY <1>1, <1>4, <1>5

(* What entries that lead to files lead to, step by step.                  *)
LEMMA FollowTyped ==
    ASSUME NEW T \in [Place -> File \cup {None}], NEW s \in Seq(Name), NEW k \in 0..Len(s)
    PROVE  Follow(T, s)[k] \in File \cup {None}
<1> DEFINE X == {j \in Nat : j <= Len(s) => Follow(T, s)[j] \in File \cup {None}}
<1>0. Len(s) \in Nat
    OBVIOUS
<1>1. 0 \in X
    BY <1>0, FollowLeads, HostAssumption DEF Root, File
<1>2. ASSUME NEW j \in Nat, j \in X PROVE j + 1 \in X
  <2>1. CASE j + 1 <= Len(s)
    <3>1. j + 1 \in 1..Len(s) /\ (j + 1) - 1 = j /\ j <= Len(s)
        BY <1>0, <2>1
    <3>2. Follow(T, s)[j + 1] = Leads(T, Follow(T, s)[j], s[j + 1])
        BY <1>0, <3>1, FollowLeads
    <3>3. Follow(T, s)[j] \in File \cup {None} /\ s[j + 1] \in Name
        BY <1>2, <3>1
    <3>4. Leads(T, Follow(T, s)[j], s[j + 1]) \in File \cup {None}
        BY <3>3 DEF Leads, Place
    <3> QED
        BY <3>2, <3>4
  <2>2. CASE ~(j + 1 <= Len(s))
      BY <2>2
  <2> QED
      BY <2>1, <2>2
<1> HIDE DEF X
<1>3. k \in X
    BY <1>0, <1>1, <1>2, AllNumbers
<1> QED
    BY <1>0, <1>3 DEF X

(* A path that leads somewhere leads there still when the entries on it    *)
(* do.                                                                     *)
LEMMA FollowStays ==
    ASSUME NEW T \in [Place -> File \cup {None}], NEW U, NEW s \in Seq(Name), NEW n \in Nat, n = Len(s),
           \A k \in 1..n : LET x == <<Follow(T, s)[k - 1], s[k]>>
                           IN  x \in Place /\ T[x] # None => U[x] = T[x],
           Follow(T, s)[n] # None
    PROVE  Follow(U, s)[n] = Follow(T, s)[n]
<1> DEFINE F(k) == Follow(T, s)[k]
           G(k) == Follow(U, s)[k]
           X == {j \in Nat : j <= n /\ F(j) # None => G(j) = F(j)}
<1>1. 0 \in X
    BY FollowLeads
<1>2. ASSUME NEW j \in Nat, j \in X PROVE j + 1 \in X
  <2> SUFFICES ASSUME j + 1 <= n, F(j + 1) # None PROVE G(j + 1) = F(j + 1)
      OBVIOUS
  <2>1. j + 1 \in 1..n /\ (j + 1) - 1 = j /\ j <= n /\ j \in 0..n
      OBVIOUS
  <2>2. F(j + 1) = Leads(T, F(j), s[j + 1])
      BY <2>1, FollowLeads
  <2>2a. G(j + 1) = Leads(U, G(j), s[j + 1])
    <3>1. \A k \in 1..n : Follow(U, s)[k] = Leads(U, Follow(U, s)[k - 1], s[k])
        BY FollowLeads
    <3> QED
        BY <2>1, <3>1
  <2>3. F(j) \in File \cup {None} /\ s[j + 1] \in Name
      BY <2>1, FollowTyped
  <2>4. F(j) # None /\ T[<<F(j), s[j + 1]>>] # None
      BY <2>2 DEF Leads
  <2>5. <<F(j), s[j + 1]>> \in Place
      BY <2>3, <2>4 DEF Place
  <2>6. G(j) = F(j)
      BY <1>2, <2>1, <2>4
  <2>7. U[<<F(j), s[j + 1]>>] = T[<<F(j), s[j + 1]>>]
      BY <2>1, <2>4, <2>5
  <2> QED
      BY <2>2, <2>2a, <2>4, <2>6, <2>7 DEF Leads
<1> HIDE DEF X
<1>3. n \in X
    BY <1>1, <1>2, AllNumbers
<1> QED
    BY <1>3 DEF X

(* One more name.                                                          *)
LEMMA FollowOn ==
    ASSUME NEW T \in [Place -> File \cup {None}], NEW s \in Seq(Name), NEW a \in Name
    PROVE  Follow(T, Append(s, a))[Len(Append(s, a))] = Leads(T, Follow(T, s)[Len(s)], a)
<1>1. PICK n \in Nat : n = Len(s)
    OBVIOUS
<1>2. PICK u : u = Append(s, a)
    OBVIOUS
<1>3. Len(u) = n + 1 /\ u[n + 1] = a /\ \A k \in 1..n : u[k] = s[k]
    BY <1>1, <1>2
<1> DEFINE F(k) == Follow(T, s)[k]
           G(k) == Follow(T, u)[k]
           X == {j \in Nat : j <= n => G(j) = F(j)}
<1>4. G(0) = F(0)
    BY <1>1, <1>3, FollowLeads
<1>5. ASSUME NEW j \in Nat, j \in X PROVE j + 1 \in X
  <2> SUFFICES ASSUME j + 1 <= n PROVE G(j + 1) = F(j + 1)
      OBVIOUS
  <2>1. j + 1 \in 1..n /\ j + 1 \in 1..(n + 1) /\ (j + 1) - 1 = j /\ j <= n
      OBVIOUS
  <2>2. n + 1 \in Nat
      OBVIOUS
  <2>3. F(j + 1) = Leads(T, F(j), s[j + 1])
    <3>1. \A k \in 1..n : Follow(T, s)[k] = Leads(T, Follow(T, s)[k - 1], s[k])
        BY <1>1, FollowLeads
    <3> QED
        BY <2>1, <3>1
  <2>4. G(j + 1) = Leads(T, G(j), u[j + 1])
    <3>1. PICK m \in Nat : m = n + 1
        BY <2>2
    <3>2. \A k \in 1..m : Follow(T, u)[k] = Leads(T, Follow(T, u)[k - 1], u[k])
        BY <1>3, <3>1, FollowLeads
    <3> QED
        BY <2>1, <3>1, <3>2
  <2>5. u[j + 1] = s[j + 1]
      BY <1>3, <2>1
  <2>6. G(j) = F(j)
      BY <1>5, <2>1
  <2> HIDE DEF F, G
  <2> QED
      BY <2>3, <2>4, <2>5, <2>6
<1>6. n \in X
  <2>1. 0 \in X
      BY <1>4
  <2> HIDE DEF X
  <2> QED
      BY <1>5, <2>1, AllNumbers
<1>7. G(n) = F(n)
    BY <1>6
<1>8. n + 1 \in Nat /\ n + 1 \in 1..(n + 1) /\ (n + 1) - 1 = n
    OBVIOUS
<1>9. G(n + 1) = Leads(T, G(n), u[n + 1])
    BY <1>3, <1>8, FollowLeads
<1> QED
    BY <1>1, <1>2, <1>3, <1>7, <1>9

-----------------------------------------------------------------------------
(* The invariant of what inodes stand for.  A file that has a name or, on  *)
(* Linux, a descriptor has its number to itself.  Nobody's number leads to *)
(* an inode of another file: the cache and the numbers agree both ways.    *)

Used == File \ Fresh
Live(f) == Named(f) \/ Pinned(f)

IsHost ==
    /\ host = [kind |-> host.kind, number |-> host.number, entry |-> host.entry]
    /\ host.kind \in [File -> {"none", "dir", "file"}]
    /\ host.number \in [File -> File]
    /\ host.entry \in [Place -> File \cup {None}]
    /\ Root \in Used /\ host.kind[Root] = "dir"
    /\ \A x \in Place : host.entry[x] # None => host.entry[x] \in Used

NumbersDiffer ==
    IF Linux THEN \A f, g \in Used : Live(f) /\ Live(g) /\ host.number[f] = host.number[g] => f = g
    ELSE \A f \in File : host.number[f] = f

(* A cache c, found by the numbers t, except for paths that are gone.      *)
CacheRight(c, t, gone) ==
    /\ t \in [File -> Nat]
    /\ \A s \in File : t[s] # None => t[s] \in DOMAIN c /\ c[t[s]].src = s
    /\ \A i \in DOMAIN c :
          /\ c[i].at \in Used /\ c[i].src \in File /\ c[i].path \in Seq(Name)
          /\ t[c[i].src] = i
          /\ Linux => host.number[c[i].at] = c[i].src
          /\ ~Linux /\ i \notin gone => Walk(c[i].path) = c[i].src

FileOf(c, i) == IF Linux THEN c[i].at ELSE c[i].src

GivenRight ==
    /\ given \in [Ino -> SUBSET File]
    /\ \A i \in Ino : /\ held[i] > 0 => given[i] # {} /\ i \in DOMAIN inodes
                      /\ \A f \in given[i] : held[i] > 0 /\ f = FileOf(inodes, i)

(* While a directory is listed nobody changes it. *)
CallRight ==
    /\ op = [act |-> op.act, dir |-> op.dir, name |-> op.name, todo |-> op.todo]
    /\ op.name \in Name
    /\ op.act = "list" =>
          \A x \in op.todo : x \in Name \X File /\ Entry(open(op.dir), x[1]) = x[2]

ServeInv ==
    /\ IsHost
    /\ NumbersDiffer
    /\ CacheRight(inodes, src_to_ino, displaced)
    /\ GivenRight
    /\ CallRight
    /\ displaced \subseteq 1..(next_ino - 1)
    /\ Root \in DOMAIN inodes

-----------------------------------------------------------------------------
(* What is found *)

LEMMA EntriesRight ==
    ASSUME IsHost
    PROVE  /\ Entries \in [Place -> File \cup {None}]
           /\ \A d \in File \cup {None}, n \in Name : Entry(d, n) = Leads(Entries, d, n)
<1>1. \A d \in File, n \in Name : /\ <<d, n>> \in Place /\ <<d, n>>[1] = d /\ <<d, n>>[2] = n
                                  /\ Entry(d, n) \in File \cup {None}
    BY DEF Entry, IsHost, Place
<1>2. \A x \in Place : x[1] \in File /\ x[2] \in Name /\ x = <<x[1], x[2]>>
    BY DEF Place
<1>3. \A x \in Place : Entry(x[1], x[2]) \in File \cup {None}
    BY <1>1, <1>2
<1>4. Entries \in [Place -> File \cup {None}] /\ \A x \in Place : Entries[x] = Entry(x[1], x[2])
    BY <1>3 DEF Entries
<1>5. None \notin File
    BY HostAssumption DEF None, File
<1>6. \A n \in Name : Entry(None, n) = None
    BY DEF Entry, IsDir
<1>7. ASSUME NEW d \in File \cup {None}, NEW n \in Name PROVE Entry(d, n) = Leads(Entries, d, n)
  <2>1. CASE d = None
      BY <1>6, <2>1 DEF Leads
  <2>2. CASE d # None
    <3>1. <<d, n>> \in Place /\ <<d, n>>[1] = d /\ <<d, n>>[2] = n
        BY <1>1, <2>2
    <3>2. Entries[<<d, n>>] = Entry(<<d, n>>[1], <<d, n>>[2])
        BY <1>4, <3>1
    <3> QED
        BY <2>2, <3>1, <3>2 DEF Leads
  <2> QED
      BY <2>1, <2>2
<1> QED
    BY <1>4, <1>7

LEMMA EntryFound ==
    ASSUME IsHost, NEW d \in File \cup {None}, NEW n \in Name, Entry(d, n) # None
    PROVE  /\ d \in Used /\ host.kind[d] = "dir" /\ <<d, n>> \in Place
           /\ Entry(d, n) = host.entry[<<d, n>>]
           /\ Entry(d, n) \in Used /\ Named(Entry(d, n))
<1>1. IsDir(d) /\ Entry(d, n) = host.entry[<<d, n>>]
    BY DEF Entry
<1>2. d \in File /\ host.kind[d] = "dir" /\ <<d, n>> \in Place
    BY <1>1 DEF IsDir, Place
<1> QED
    BY <1>1, <1>2 DEF IsHost, Used, Fresh, Named

LEMMA OpenTyped ==
    ASSUME IsHost, CacheRight(inodes, src_to_ino, displaced), NEW i
    PROVE  open(i) \in File \cup {None} /\ (open(i) # None => i \in DOMAIN inodes)
<1>1. CASE i \notin DOMAIN inodes
    BY <1>1 DEF open, getattr, lstat_path
<1>2. CASE i \in DOMAIN inodes
  <2>1. inodes[i].at \in File /\ inodes[i].path \in Seq(Name)
      BY <1>2 DEF CacheRight, Used
  <2>2. Len(inodes[i].path) \in 0..Len(inodes[i].path)
      BY <2>1
  <2>3. Walk(inodes[i].path) \in File \cup {None}
      BY <2>1, <2>2, EntriesRight, FollowTyped DEF Walk, Steps
  <2> QED
      BY <1>2, <2>1, <2>3 DEF open, getattr, lstat_path
<1> QED
    BY <1>1, <1>2

LEMMA PathWalks ==
    ASSUME IsHost, CacheRight(inodes, src_to_ino, displaced),
           NEW p, NEW n \in Name, Entry(open(p), n) # None
    PROVE  /\ Path(p, n) \in Seq(Name)
           /\ ~Linux => Walk(Path(p, n)) = Entry(open(p), n)
<1>1. CASE Linux
  <2>1. <<>> \in Seq(Name)
      OBVIOUS
  <2> QED
      BY <1>1, <2>1 DEF Path
<1>2. CASE ~Linux
  <2>0. open(p) # None
      BY DEF Entry, IsDir
  <2>1. open(p) \in File \cup {None} /\ open(p) # None
      BY <2>0, OpenTyped
  <2>2. p \in DOMAIN inodes
      BY <2>1, OpenTyped
  <2>3. PICK s \in Seq(Name) : s = inodes[p].path
      BY <2>2 DEF CacheRight
  <2>4. Path(p, n) = Append(s, n)
      BY <1>2, <2>3 DEF Path
  <2>5. open(p) = Follow(Entries, s)[Len(s)]
      BY <1>2, <2>2, <2>3 DEF open, lstat_path, Walk, Steps
  <2>6. Follow(Entries, Append(s, n))[Len(Append(s, n))] = Leads(Entries, open(p), n)
      BY <2>5, EntriesRight, FollowOn
  <2>7. Walk(Path(p, n)) = Entry(open(p), n)
      BY <2>1, <2>4, <2>6, EntriesRight DEF Walk, Steps
  <2>8. Append(s, n) \in Seq(Name)
      OBVIOUS
  <2> QED
      BY <2>4, <2>7, <2>8
<1> QED
    BY <1>1, <1>2

(* get_or_create_inode answers with the inode of the file, and keeps what  *)
(* the other inodes stand for.                                             *)
LEMMA AnswerRight ==
    ASSUME CountInv, ServeInv, NEW f \in Used, NEW path \in Seq(Name), NEW src, src = host.number[f],
           Linux => Live(f), ~Linux => Walk(path) = f,
           NEW o, o = get_or_create_inode(f, path, src)
    PROVE  /\ CacheRight(o.inodes, o.src, displaced)
           /\ o.ino \in DOMAIN o.inodes /\ FileOf(o.inodes, o.ino) = f
           /\ o.inodes[o.ino].src = src
           /\ \A i \in DOMAIN inodes :
                 /\ i \in DOMAIN o.inodes /\ o.inodes[i].at = inodes[i].at
                 /\ o.inodes[i].src = inodes[i].src /\ o.inodes[i].path = inodes[i].path
           /\ \A i \in DOMAIN o.inodes : i = o.ino \/ i \in DOMAIN inodes
           /\ o.next \in Nat /\ o.next >= next_ino
           /\ o.ino \in 1..(o.next - 1)
<1> DEFINE i == src_to_ino[src]
           e == [at |-> f, path |-> path, src |-> src, nlookup |-> 1]
<1>1. IsCache(inodes, next_ino) /\ src \in File /\ f \in File /\ i \in Nat
    BY DEF CountInv, ServeInv, IsHost, Used, CacheRight
<1>2. CASE i # None /\ i \in DOMAIN inodes
  <2>1. /\ o.ino = i /\ o.next = next_ino /\ o.src = src_to_ino
        /\ o.inodes = [inodes EXCEPT ![i].nlookup = @ + 1]
      BY <1>2 DEF get_or_create_inode
  <2>2. inodes[i] = [at |-> inodes[i].at, path |-> inodes[i].path, src |-> inodes[i].src,
                     nlookup |-> inodes[i].nlookup]
      BY <1>1, <1>2 DEF IsCache, IsInode
  <2> HIDE DEF i
  <2>3. /\ DOMAIN o.inodes = DOMAIN inodes
        /\ \A k \in DOMAIN inodes : k # i => o.inodes[k] = inodes[k]
        /\ o.inodes[i] = [inodes[i] EXCEPT !.nlookup = @ + 1]
      BY <1>1, <1>2, <2>1 DEF IsCache
  <2>4. \A k \in DOMAIN inodes : /\ o.inodes[k].at = inodes[k].at /\ o.inodes[k].src = inodes[k].src
                                 /\ o.inodes[k].path = inodes[k].path
      BY <1>2, <2>2, <2>3
  <2>5. CacheRight(o.inodes, o.src, displaced)
      BY <2>1, <2>3, <2>4 DEF ServeInv, CacheRight
  <2>6. inodes[i].src = src
      BY <1>1, <1>2 DEF i, ServeInv, CacheRight
  <2>7. FileOf(o.inodes, i) = f
    <3>1. CASE Linux
      <4>1. inodes[i].at \in Used /\ host.number[inodes[i].at] = src
          BY <1>2, <2>6, <3>1 DEF ServeInv, CacheRight
      <4>2. Live(inodes[i].at)
          BY <1>2, <3>1 DEF Live, Pinned
      <4>3. inodes[i].at = f
          BY <3>1, <4>1, <4>2 DEF ServeInv, NumbersDiffer
      <4> QED
          BY <1>2, <2>4, <3>1, <4>3 DEF FileOf
    <3>2. CASE ~Linux
      <4>1. src = f
          BY <1>1, <3>2 DEF ServeInv, NumbersDiffer
      <4> QED
          BY <1>2, <2>4, <2>6, <3>2, <4>1 DEF FileOf
    <3> QED
        BY <3>1, <3>2
  <2>8. next_ino \in Nat /\ i \in 1..(next_ino - 1)
      BY <1>1, <1>2 DEF IsCache
  <2>9. o.inodes[o.ino].src = src /\ o.ino \in DOMAIN o.inodes
      BY <1>2, <2>1, <2>3, <2>4, <2>6
  <2>10. o.next \in Nat /\ o.next >= next_ino /\ o.ino \in 1..(o.next - 1)
      BY <2>1, <2>8
  <2>11. CacheRight(o.inodes, o.src, displaced) /\ FileOf(o.inodes, o.ino) = f
      BY <2>1, <2>5, <2>7
  <2> QED
      BY <2>3, <2>4, <2>9, <2>10, <2>11
<1>3. CASE ~(i # None /\ i \in DOMAIN inodes)
  <2>1. /\ o.ino = next_ino /\ o.next = next_ino + 1
        /\ o.src = [src_to_ino EXCEPT ![src] = next_ino]
        /\ o.inodes = [k \in DOMAIN inodes \cup {next_ino} |-> IF k = next_ino THEN e ELSE inodes[k]]
      BY <1>3 DEF get_or_create_inode
  <2>2. next_ino \notin DOMAIN inodes /\ next_ino \in Nat \ {0} /\ \A k \in DOMAIN inodes : k # 0
      BY <1>1 DEF IsCache
  <2>3. e.at = f /\ e.path = path /\ e.src = src
      OBVIOUS
  <2> HIDE DEF e
  <2>4. /\ DOMAIN o.inodes = DOMAIN inodes \cup {next_ino}
        /\ o.inodes[next_ino] = e
        /\ \A k \in DOMAIN inodes : o.inodes[k] = inodes[k]
      BY <2>1, <2>2
  <2>5. CacheRight(inodes, src_to_ino, displaced)
      BY DEF ServeInv
  <2>6. i = None
      BY <1>1, <1>3, <2>5 DEF CacheRight
  <2>7. \A k \in DOMAIN inodes : inodes[k].src \in File /\ inodes[k].src # src
      BY <2>2, <2>5, <2>6 DEF CacheRight, None
  <2>8. o.src \in [File -> Nat] /\ \A s \in File : o.src[s] = IF s = src THEN next_ino ELSE src_to_ino[s]
      BY <1>1, <2>1, <2>2, <2>5 DEF CacheRight
  <2>9. \A s \in File : o.src[s] # None => o.src[s] \in DOMAIN o.inodes /\ o.inodes[o.src[s]].src = s
      BY <2>3, <2>4, <2>5, <2>8 DEF CacheRight
  <2>10. Linux => host.number[f] = src
      OBVIOUS
  <2>11. ~Linux => Walk(path) = src
      BY <1>1 DEF ServeInv, NumbersDiffer
  <2>12. CacheRight(o.inodes, o.src, displaced)
    <3> SUFFICES ASSUME NEW k \in DOMAIN o.inodes
                 PROVE  /\ o.inodes[k].at \in Used /\ o.inodes[k].src \in File
                        /\ o.inodes[k].path \in Seq(Name)
                        /\ o.src[o.inodes[k].src] = k
                        /\ Linux => host.number[o.inodes[k].at] = o.inodes[k].src
                        /\ ~Linux /\ k \notin displaced => Walk(o.inodes[k].path) = o.inodes[k].src
        BY <2>8, <2>9 DEF CacheRight
    <3>1. CASE k = next_ino
      <4>1. o.inodes[k].at = f /\ o.inodes[k].src = src /\ o.inodes[k].path = path
          BY <2>3, <2>4, <3>1
      <4>2. src \in File /\ o.src[src] = next_ino
          BY <1>1, <2>8
      <4> QED
          BY <1>1, <2>3, <2>10, <2>11, <3>1, <4>1, <4>2
    <3>2. CASE k # next_ino
      <4>1. k \in DOMAIN inodes /\ o.inodes[k] = inodes[k]
          BY <2>4, <3>2
      <4>2. /\ inodes[k].at \in Used /\ inodes[k].src \in File /\ inodes[k].path \in Seq(Name)
            /\ src_to_ino[inodes[k].src] = k
            /\ Linux => host.number[inodes[k].at] = inodes[k].src
            /\ ~Linux /\ k \notin displaced => Walk(inodes[k].path) = inodes[k].src
          BY <2>5, <4>1 DEF CacheRight
      <4> QED
          BY <2>7, <2>8, <4>1, <4>2
    <3> QED
        BY <3>1, <3>2
  <2>13. FileOf(o.inodes, next_ino) = f
      BY <1>1, <2>3, <2>4 DEF FileOf, ServeInv, NumbersDiffer
  <2>14. next_ino + 1 \in Nat /\ next_ino + 1 >= next_ino /\ next_ino \in 1..((next_ino + 1) - 1)
      BY <2>2
  <2> QED
      BY <2>1, <2>3, <2>4, <2>12, <2>13, <2>14
<1> QED
    BY <1>2, <1>3

(* Only what is live already is live when such an answer is cached.        *)
LEMMA AnswerKeepsNumbers ==
    ASSUME CountInv, ServeInv, NEW f \in Used, NEW c,
           Linux => Live(f) /\ \A i \in DOMAIN c : c[i].at = f \/ Pinned(c[i].at),
           inodes' = c, UNCHANGED <<platform, host>>
    PROVE  NumbersDiffer'
<1>1. CASE Linux
  <2>1. \A g : Named(g)' = Named(g)
      BY DEF Named
  <2>2. \A g : Pinned(g)' => g = f \/ Pinned(g)
      BY <1>1 DEF Pinned, Linux
  <2>3. \A g : Live(g)' => Live(g)
      BY <1>1, <2>1, <2>2 DEF Live
  <2>4. Used' = Used /\ Linux'
      BY <1>1 DEF Used, Fresh, Linux
  <2> QED
      BY <1>1, <2>3, <2>4 DEF ServeInv, NumbersDiffer
<1>2. CASE ~Linux
    BY <1>2 DEF ServeInv, NumbersDiffer, Linux
<1> QED
    BY <1>1, <1>2

LEMMA SameHost ==
    ASSUME UNCHANGED <<platform, mountpoint, host>>
    PROVE  /\ IsHost' = IsHost /\ Used' = Used /\ Entries' = Entries /\ Linux' = Linux
           /\ \A d, n : Entry(d, n)' = Entry(d, n)
<1>1. /\ IsHost' = IsHost /\ Used' = Used /\ Linux' = Linux
      /\ \A d, n : Entry(d, n)' = Entry(d, n)
    BY DEF IsHost, Used, Fresh, Linux, Entry, IsDir, IsMount
<1> QED
    BY <1>1 DEF Entries

LEMMA CacheStays ==
    ASSUME UNCHANGED <<platform, mountpoint, host>>, NEW c, NEW t, NEW gone, CacheRight(c, t, gone),
           inodes' = c, src_to_ino' = t, displaced' = gone
    PROVE  CacheRight(inodes, src_to_ino, displaced)'
<1>1. Used' = Used /\ Entries' = Entries /\ Linux' = Linux
    BY SameHost
<1> QED
    BY <1>1 DEF CacheRight, Walk, Steps

-----------------------------------------------------------------------------
(* The steps of the client that count a lookup                             *)

(* An answer that is right when it is given. *)
LEMMA AnsweredServes ==
    ASSUME CountInv, CountInv', ServeInv,
           NEW f \in Used, NEW path \in Seq(Name), Linux => Live(f), ~Linux => Walk(path) = f,
           Answered(get_or_create_inode(f, path, host.number[f]), f),
           UNCHANGED <<platform, mountpoint, host, displaced>>,
           CallRight'
    PROVE  ServeInv'
<1>0. PICK o : o = get_or_create_inode(f, path, host.number[f])
    OBVIOUS
<1>1. /\ inodes' = o.inodes /\ src_to_ino' = o.src /\ next_ino' = o.next
      /\ held' = [held EXCEPT ![o.ino] = @ + 1] /\ given' = [given EXCEPT ![o.ino] = @ \cup {f}]
    BY <1>0 DEF Answered, Cached
<1>2. /\ CacheRight(o.inodes, o.src, displaced)
      /\ o.ino \in DOMAIN o.inodes /\ FileOf(o.inodes, o.ino) = f
      /\ \A i \in DOMAIN inodes :
            /\ i \in DOMAIN o.inodes /\ o.inodes[i].at = inodes[i].at
            /\ o.inodes[i].src = inodes[i].src /\ o.inodes[i].path = inodes[i].path
      /\ \A i \in DOMAIN o.inodes : i = o.ino \/ i \in DOMAIN inodes
      /\ o.next \in Nat /\ o.next >= next_ino
    BY <1>0, AnswerRight
<1>3. CacheRight(inodes, src_to_ino, displaced)'
    BY <1>1, <1>2, CacheStays
<1>4. NumbersDiffer'
  <2>1. ASSUME Linux, NEW i \in DOMAIN o.inodes PROVE o.inodes[i].at = f \/ Pinned(o.inodes[i].at)
      BY <1>2, <2>1 DEF FileOf, Pinned
  <2> QED
      BY <1>1, <2>1, AnswerKeepsNumbers
<1>5. IsHost'
    BY SameHost DEF ServeInv
<1>6. displaced' \subseteq 1..(next_ino' - 1) /\ Root \in DOMAIN inodes'
  <2>1. next_ino \in Nat
      BY DEF CountInv, IsCache
  <2> QED
      BY <1>1, <1>2, <2>1 DEF ServeInv
<1>7. GivenRight'
  <2>1. f \in File /\ held \in [Ino -> Nat] /\ given \in [Ino -> SUBSET File]
      BY DEF Used, CountInv, ServeInv, GivenRight
  <2>2. given' \in [Ino -> SUBSET File]
      BY <1>1, <2>1
  <2>3. ASSUME NEW i \in Ino
        PROVE  /\ held'[i] > 0 => given'[i] # {} /\ i \in DOMAIN inodes'
               /\ \A g \in given'[i] : held'[i] > 0 /\ g = FileOf(inodes', i)
    <3>1. /\ held[i] > 0 => given[i] # {} /\ i \in DOMAIN inodes
          /\ \A g \in given[i] : held[i] > 0 /\ g = FileOf(inodes, i)
          /\ held[i] \in Nat
        BY <2>1 DEF ServeInv, GivenRight
    <3>2. i \in DOMAIN inodes => FileOf(o.inodes, i) = FileOf(inodes, i)
        BY <1>2 DEF FileOf
    <3>3. CASE i = o.ino
        BY <1>1, <1>2, <2>1, <3>1, <3>2, <3>3
    <3>4. CASE i # o.ino
        BY <1>1, <1>2, <2>1, <3>1, <3>2, <3>4
    <3> QED
        BY <3>3, <3>4
  <2> QED
      BY <2>2, <2>3 DEF GivenRight, FileOf, Linux
<1> QED
    BY <1>3, <1>4, <1>5, <1>6, <1>7 DEF ServeInv

(* A step that leaves alone the cache, what is held, and the host. *)
LEMMA NothingServes ==
    ASSUME ServeInv, UNCHANGED <<platform, mountpoint, host, cache, client, displaced>>, CallRight'
    PROVE  ServeInv'
<1>1. CacheRight(inodes, src_to_ino, displaced)'
    BY CacheStays DEF ServeInv, cache
<1>2. IsHost' /\ Linux' = Linux /\ Used' = Used
    BY SameHost DEF ServeInv
<1>3. NumbersDiffer'
    BY <1>2 DEF ServeInv, NumbersDiffer, Live, Named, Pinned, cache
<1>4. GivenRight'
    BY SameHost DEF ServeInv, GivenRight, FileOf, Linux, cache, client
<1> QED
    BY <1>1, <1>2, <1>3, <1>4 DEF ServeInv, cache

(* Answers about the entry n of directory p. *)
LEMMA EntryServes ==
    ASSUME CountInv, CountInv', ServeInv, NEW p, NEW n \in Name, NEW f, f = Entry(open(p), n), f # None,
           Answered(get_or_create_inode(f, Path(p, n), host.number[f]), f),
           UNCHANGED <<platform, mountpoint, host, displaced>>,
           CallRight'
    PROVE  ServeInv'
<1>1. IsHost /\ CacheRight(inodes, src_to_ino, displaced)
    BY DEF ServeInv
<1>2. PICK d : d = open(p)
    OBVIOUS
<1>3. d \in File \cup {None}
    BY <1>1, <1>2, OpenTyped
<1>4. f \in Used /\ Live(f)
    BY <1>1, <1>2, <1>3, EntryFound DEF Live
<1>5. Path(p, n) \in Seq(Name) /\ (~Linux => Walk(Path(p, n)) = f)
    BY <1>1, PathWalks
<1> QED
    BY <1>4, <1>5, AnsweredServes

LEMMA FoundServes ==
    ASSUME CountInv, CountInv', ServeInv, NEW p, NEW n \in Name, Found(p, n),
           UNCHANGED <<platform, mountpoint, host, displaced>>,
           CallRight'
    PROVE  ServeInv'
<1>0. PICK f : f = Entry(open(p), n)
    OBVIOUS
<1>1. CASE f = None \/ Hidden(p, f)
    BY <1>0, <1>1, NothingServes DEF Found
<1>2. CASE ~(f = None \/ Hidden(p, f))
  <2>1. Answered(get_or_create_inode(f, Path(p, n), host.number[f]), f) /\ f # None
      BY <1>0, <1>2 DEF Found
  <2> QED
      BY <1>0, <2>1, EntryServes
<1> QED
    BY <1>1, <1>2

(* A call that is not a listing.                                           *)
LEMMA NamedCall ==
    ASSUME NEW act, NEW d, NEW n \in Name, act # "list",
           op' = [Idle EXCEPT !.act = act, !.dir = d, !.name = n]
    PROVE  CallRight'
BY DEF CallRight, Idle

LEMMA IdleCall ==
    ASSUME op' = Idle
    PROVE  CallRight'
BY HostAssumption DEF CallRight, Idle

LEMMA SameCall ==
    ASSUME CallRight, op' = op, op.act # "list"
    PROVE  CallRight'
BY DEF CallRight

(* An entry that is listed is there still.  What the rest of the listing   *)
(* will find does not change.                                              *)
LEMMA ListEntryServes ==
    ASSUME CountInv, CountInv', ServeInv, NEW x, ListEntry(x)
    PROVE  ServeInv'
<1>1. /\ x \in op.todo /\ op.act = "list" /\ op' = [op EXCEPT !.todo = @ \ {x}]
      /\ UNCHANGED <<platform, mountpoint, host, displaced>>
    BY DEF ListEntry
<1>2. x \in Name \X File /\ Entry(open(op.dir), x[1]) = x[2]
    BY <1>1 DEF ServeInv, CallRight
<1>3. PICK f, n, p : f = x[2] /\ n = x[1] /\ p = op.dir
    OBVIOUS
<1>4. f \in File /\ f # None /\ n \in Name /\ f = Entry(open(p), n)
    BY <1>2, <1>3, HostAssumption DEF File, None
<1>5. IsHost /\ CacheRight(inodes, src_to_ino, displaced)
    BY DEF ServeInv
<1>6. PICK d \in File \cup {None} : d = open(p)
    BY <1>5, OpenTyped
<1>7. f \in Used /\ Live(f) /\ d # None
    BY <1>4, <1>5, <1>6, EntryFound DEF Live, Entry, IsDir
<1>8. p \in DOMAIN inodes
    BY <1>5, <1>6, <1>7, OpenTyped
<1>9. PICK path \in Seq(Name) : /\ ~Linux => Walk(path) = f
                                /\ Answered(get_or_create_inode(f, path, host.number[f]), f)
  <2>1. CASE Linux
    <3>1. Answered(get_or_create_inode(f, <<>>, host.number[f]), f)
        BY <1>3, <1>4, <2>1 DEF ListEntry, OpenEntry
    <3>2. <<>> \in Seq(Name)
        OBVIOUS
    <3> QED
        BY <2>1, <3>1, <3>2
  <2>2. CASE ~Linux
    <3>1. Answered(get_or_create_inode(f, Path(p, n), host.number[f]), f)
        BY <1>3, <2>2 DEF ListEntry, PathEntry
    <3>2. Path(p, n) \in Seq(Name) /\ Walk(Path(p, n)) = f
        BY <1>4, <1>5, <2>2, PathWalks
    <3> QED
        BY <3>1, <3>2
  <2> QED
      BY <2>1, <2>2
<1>10. PICK o : o = get_or_create_inode(f, path, host.number[f])
    OBVIOUS
<1>11. CallRight'
  <2>1. op = [act |-> op.act, dir |-> op.dir, name |-> op.name, todo |-> op.todo] /\ op.name \in Name
      BY DEF ServeInv, CallRight
  <2>2. op' = [act |-> op.act, dir |-> op.dir, name |-> op.name, todo |-> op.todo \ {x}]
      BY <1>1, <2>1
  <2>3. op'.act = op.act /\ op'.dir = op.dir /\ op'.name = op.name /\ op'.todo = op.todo \ {x}
      BY <2>2
  <2>4. \A y \in op.todo : y \in Name \X File /\ Entry(open(p), y[1]) = y[2]
      BY <1>1, <1>3 DEF ServeInv, CallRight
  <2>5. p \in DOMAIN o.inodes /\ o.inodes[p].at = inodes[p].at /\ o.inodes[p].path = inodes[p].path
      BY <1>7, <1>8, <1>9, <1>10, AnswerRight
  <2>6. inodes' = o.inodes
      BY <1>9, <1>10 DEF Answered, Cached
  <2>7. Entries' = Entries
      BY <1>1, SameHost
  <2>8. open(op.dir)' = open(op.dir)
      BY <1>1, <1>3, <1>8, <2>3, <2>5, <2>6, <2>7 DEF open, getattr, lstat_path, Walk, Steps, Linux
  <2>9. (\A y \in op.todo : y \in Name \X File /\ Entry(open(op.dir), y[1]) = y[2])'
      BY <1>1, <1>3, <2>3, <2>4, <2>8 DEF Entry, IsDir, IsMount
  <2> QED
      BY <2>1, <2>2, <2>3, <2>9 DEF CallRight
<1> QED
    BY <1>1, <1>7, <1>9, <1>11, AnsweredServes

(* The lookup at the end of a rename on macOS gives the inode of the file  *)
(* its new path, by which it is found again.                               *)
LEMMA RenameServes ==
    ASSUME CountInv, CountInv', ServeInv, RenameEnds
    PROVE  ServeInv'
<1>1. PICK p, n : p = op.dir /\ n = op.name
    OBVIOUS
<1>2. PICK f, path : f = Entry(open(p), n) /\ path = Path(p, n)
    OBVIOUS
<1>3. PICK o : o = get_or_create_inode(f, path, host.number[f])
    OBVIOUS
<1>4. CallRight' /\ ~Linux /\ UNCHANGED <<platform, mountpoint, host, client>> /\ n \in Name
    BY <1>1, IdleCall DEF RenameEnds, CountInv, RenamesAgain, ServeInv, CallRight
<1>5. CASE f = None \/ Hidden(p, f)
    BY <1>1, <1>2, <1>4, <1>5, NothingServes DEF RenameEnds
<1>6. CASE ~(f = None \/ Hidden(p, f))
  <2>1. IsHost /\ CacheRight(inodes, src_to_ino, displaced)
      BY DEF ServeInv
  <2>2. PICK d \in File \cup {None} : d = open(p)
      BY <2>1, OpenTyped
  <2>3. f \in Used
      BY <1>2, <1>4, <1>6, <2>1, <2>2, EntryFound
  <2>4. path \in Seq(Name) /\ Walk(path) = f
      BY <1>2, <1>4, <1>6, <2>1, PathWalks
  <2>5. /\ CacheRight(o.inodes, o.src, displaced)
        /\ o.ino \in DOMAIN o.inodes /\ FileOf(o.inodes, o.ino) = f
        /\ \A i \in DOMAIN inodes :
              /\ i \in DOMAIN o.inodes /\ o.inodes[i].at = inodes[i].at
              /\ o.inodes[i].src = inodes[i].src /\ o.inodes[i].path = inodes[i].path
        /\ \A i \in DOMAIN o.inodes : i = o.ino \/ i \in DOMAIN inodes
        /\ o.next \in Nat /\ o.next >= next_ino
      BY <1>3, <1>4, <2>3, <2>4, AnswerRight
  <2>6. /\ inodes' = [o.inodes EXCEPT ![o.ino].path = path] /\ src_to_ino' = o.src /\ next_ino' = o.next
        /\ displaced' = displaced \ {o.ino}
    <3>1. /\ Cached([o EXCEPT !.inodes = Repathed(o, path)])
          /\ displaced' = displaced \ {o.ino}
        BY <1>1, <1>2, <1>3, <1>6 DEF RenameEnds
    <3>2. \A c : /\ [o EXCEPT !.inodes = c].inodes = c
                 /\ [o EXCEPT !.inodes = c].next = o.next
                 /\ [o EXCEPT !.inodes = c].src = o.src
        BY <1>3 DEF get_or_create_inode
    <3> QED
        BY <3>1, <3>2 DEF Cached, Repathed
  <2>7. IsCache(o.inodes, o.next)
      BY <1>3, CountsOneLookup
  <2>8. /\ DOMAIN inodes' = DOMAIN o.inodes
        /\ \A i \in DOMAIN o.inodes : inodes'[i] = IF i = o.ino THEN [o.inodes[i] EXCEPT !.path = path]
                                                   ELSE o.inodes[i]
      BY <2>6
  <2>9. ASSUME NEW i \in DOMAIN o.inodes
        PROVE  /\ inodes'[i].at = o.inodes[i].at /\ inodes'[i].src = o.inodes[i].src
               /\ inodes'[i].path = IF i = o.ino THEN path ELSE o.inodes[i].path
    <3>1. PICK e : e = o.inodes[i]
        OBVIOUS
    <3>2. IsInode(e)
        BY <2>7, <3>1 DEF IsCache
    <3>3. /\ [e EXCEPT !.path = path].at = e.at /\ [e EXCEPT !.path = path].src = e.src
          /\ [e EXCEPT !.path = path].path = path
        BY <3>2 DEF IsInode
    <3>4. inodes'[i] = IF i = o.ino THEN [e EXCEPT !.path = path] ELSE e
        BY <2>8, <3>1
    <3> QED
        BY <3>1, <3>3, <3>4
  <2>10. o.inodes[o.ino].src = f
      BY <1>4, <2>5 DEF FileOf
  <2>11. CacheRight(inodes', src_to_ino', displaced')
    <3>1. PICK c, g : c = o.inodes /\ g = o.src
        OBVIOUS
    <3>2. CacheRight(c, g, displaced)
        BY <2>5, <3>1
    <3>3. /\ DOMAIN inodes' = DOMAIN c /\ src_to_ino' = g /\ displaced' = displaced \ {o.ino}
          /\ \A i \in DOMAIN c : /\ inodes'[i].at = c[i].at /\ inodes'[i].src = c[i].src
                                 /\ inodes'[i].path = IF i = o.ino THEN path ELSE c[i].path
        BY <2>6, <2>8, <2>9, <3>1
    <3>4. c[o.ino].src = f
        BY <2>10, <3>1
    <3> QED
        BY <1>4, <2>4, <3>2, <3>3, <3>4 DEF CacheRight
  <2>12. CacheRight(inodes, src_to_ino, displaced)'
      BY <1>4, <2>11, CacheStays
  <2>13. IsHost' /\ ~Linux'
      BY <1>4, <2>1, SameHost
  <2>14. NumbersDiffer'
      BY <1>4, <2>13 DEF ServeInv, NumbersDiffer
  <2>15. GivenRight'
    <3>1. \A i \in DOMAIN inodes : i \in DOMAIN inodes' /\ FileOf(inodes, i)' = FileOf(inodes, i)
        BY <1>4, <2>5, <2>8, <2>9, <2>13 DEF FileOf
    <3> QED
        BY <1>4, <3>1 DEF ServeInv, GivenRight, client
  <2>16. displaced' \subseteq 1..(next_ino' - 1) /\ Root \in DOMAIN inodes'
    <3>1. next_ino \in Nat
        BY DEF CountInv, IsCache
    <3> QED
        BY <2>5, <2>6, <2>8, <3>1 DEF ServeInv
  <2> QED
      BY <1>4, <2>12, <2>13, <2>14, <2>15, <2>16 DEF ServeInv
<1> QED
    BY <1>5, <1>6

(* forget drops an inode only when the client holds it no more. *)
LEMMA ForgetServes ==
    ASSUME CountInv, CountInv', ServeInv, NEW i \in Ino, NEW n \in Nat, forget(i, n)
    PROVE  ServeInv'
<1>1. /\ i # Root /\ n \in 1..held[i] /\ held \in [Ino -> Nat] /\ op = Idle
      /\ held' = [held EXCEPT ![i] = @ - n]
      /\ given' = IF held[i] = n THEN [given EXCEPT ![i] = {}] ELSE given
      /\ UNCHANGED <<platform, mountpoint, host, next_ino, displaced, op>>
    BY DEF forget, CountInv
<1>2. i \in DOMAIN inodes /\ inodes[i].nlookup >= held[i] /\ inodes[i].nlookup \in Nat
    BY <1>1 DEF CountInv, CountsMatch, IsCache, IsInode
<1>3. CallRight'
    BY <1>1, IdleCall
<1>4. CacheRight(inodes, src_to_ino, displaced) /\ IsHost /\ given \in [Ino -> SUBSET File]
    BY DEF ServeInv, GivenRight
<1>5. IsHost' /\ Linux' = Linux /\ Used' = Used
    BY <1>1, <1>4, SameHost
<1>6. ASSUME DOMAIN inodes' \subseteq DOMAIN inodes,
             \A k \in DOMAIN inodes' : /\ inodes'[k].at = inodes[k].at /\ inodes'[k].src = inodes[k].src
                                       /\ inodes'[k].path = inodes[k].path,
             CacheRight(inodes', src_to_ino', displaced),
             \A k \in Ino : held'[k] > 0 => k \in DOMAIN inodes',
             Root \in DOMAIN inodes'
      PROVE  ServeInv'
  <2>1. CacheRight(inodes, src_to_ino, displaced)'
      BY <1>1, <1>6, CacheStays
  <2>2. NumbersDiffer'
    <3>1. \A g : Live(g)' => Live(g)
        BY <1>1, <1>5, <1>6 DEF Live, Named, Pinned
    <3> QED
        BY <1>1, <1>5, <3>1 DEF ServeInv, NumbersDiffer
  <2>3. GivenRight'
    <3>1. given' \in [Ino -> SUBSET File]
        BY <1>1, <1>4
    <3>2. ASSUME NEW k \in Ino
          PROVE  /\ held'[k] > 0 => given'[k] # {} /\ k \in DOMAIN inodes'
                 /\ \A f \in given'[k] : held'[k] > 0 /\ f = FileOf(inodes, k)'
      <4>1. /\ held[k] > 0 => given[k] # {}
            /\ \A f \in given[k] : held[k] > 0 /\ f = FileOf(inodes, k)
            /\ held[k] \in Nat
          BY <1>1 DEF ServeInv, GivenRight
      <4>2. CASE k = i /\ held[i] = n
          BY <1>1, <1>4, <4>2
      <4>3. CASE ~(k = i /\ held[i] = n)
        <5>1. given'[k] = given[k] /\ (held'[k] > 0 <=> held[k] > 0)
            BY <1>1, <1>4, <4>1, <4>3
        <5>2. k \in DOMAIN inodes' => FileOf(inodes, k)' = FileOf(inodes, k)
            BY <1>5, <1>6 DEF FileOf
        <5> QED
            BY <1>6, <4>1, <5>1, <5>2
      <4> QED
          BY <4>2, <4>3
    <3> QED
        BY <3>1, <3>2 DEF GivenRight
  <2> QED
      BY <1>1, <1>3, <1>5, <1>6, <2>1, <2>2, <2>3 DEF ServeInv
<1>7. \A k \in Ino : held[k] > 0 => k \in DOMAIN inodes
    BY DEF ServeInv, GivenRight
<1>8. Root \in DOMAIN inodes
    BY DEF ServeInv
<1>9. CASE inodes[i].nlookup <= n
  <2>1. inodes' = [k \in DOMAIN inodes \ {i} |-> inodes[k]]
      BY <1>2, <1>9 DEF forget, Restrict
  <2>2. src_to_ino' = [src_to_ino EXCEPT ![inodes[i].src] = None]
      BY <1>2, <1>9 DEF forget
  <2>3. held'[i] = 0
      BY <1>1, <1>2, <1>9
  <2>4. inodes[i].src \in File /\ src_to_ino[inodes[i].src] = i
      BY <1>2, <1>4 DEF CacheRight
  <2>5. /\ src_to_ino' \in [File -> Nat]
        /\ \A s \in File : src_to_ino'[s] = IF s = inodes[i].src THEN None ELSE src_to_ino[s]
      BY <1>4, <2>2, <2>4 DEF CacheRight, None
  <2>6. DOMAIN inodes' = DOMAIN inodes \ {i} /\ \A k \in DOMAIN inodes' : inodes'[k] = inodes[k]
      BY <2>1
  <2>7. \A s \in File : src_to_ino'[s] # None => /\ src_to_ino'[s] \in DOMAIN inodes'
                                                 /\ inodes'[src_to_ino'[s]].src = s
      BY <1>4, <2>4, <2>5, <2>6 DEF CacheRight
  <2>8. \A k \in DOMAIN inodes' : src_to_ino'[inodes'[k].src] = k
      BY <1>4, <2>4, <2>5, <2>6 DEF CacheRight
  <2>9. CacheRight(inodes', src_to_ino', displaced)
      BY <1>4, <2>5, <2>6, <2>7, <2>8 DEF CacheRight
  <2>10. \A k \in Ino : held'[k] > 0 => k \in DOMAIN inodes'
      BY <1>1, <1>7, <2>3, <2>6
  <2> QED
      BY <1>1, <1>6, <1>8, <2>6, <2>9, <2>10
<1>10. CASE ~(inodes[i].nlookup <= n)
  <2>1. inodes' = [inodes EXCEPT ![i].nlookup = @ - n] /\ src_to_ino' = src_to_ino
      BY <1>2, <1>10 DEF forget
  <2>2. IsCache(inodes, next_ino)
      BY DEF CountInv
  <2>3. ASSUME NEW k \in DOMAIN inodes
        PROVE  /\ inodes'[k].at = inodes[k].at /\ inodes'[k].src = inodes[k].src
               /\ inodes'[k].path = inodes[k].path
    <3>1. IsInode(inodes[k])
        BY <2>2 DEF IsCache
    <3> QED
        BY <2>1, <3>1 DEF IsInode
  <2>4. DOMAIN inodes' = DOMAIN inodes
      BY <2>1
  <2>5. CacheRight(inodes', src_to_ino', displaced)
      BY <1>4, <2>1, <2>3, <2>4 DEF CacheRight
  <2>6. \A k \in Ino : held'[k] > 0 => k \in DOMAIN inodes'
      BY <1>1, <1>2, <1>7, <2>4
  <2> QED
      BY <1>6, <1>8, <2>3, <2>4, <2>5, <2>6
<1> QED
    BY <1>9, <1>10

-----------------------------------------------------------------------------
(* Changes of the host                                                     *)

(* A change that takes no number from a file that is live, and leads no    *)
(* path elsewhere that still counts.                                       *)
LEMMA HostServes ==
    ASSUME CountInv, ServeInv, UNCHANGED <<platform, mountpoint, cache, client>>,
           IsHost', CallRight', NumbersDiffer',
           \A f \in Used : f \in Used' /\ host'.number[f] = host.number[f],
           displaced \subseteq displaced', displaced' \subseteq displaced \cup DOMAIN inodes,
           \A x \in Place : \/ Entries[x] = None \/ Entries'[x] = Entries[x]
                            \/ Over(x) \subseteq displaced'
    PROVE  ServeInv'
<1>1. inodes' = inodes /\ src_to_ino' = src_to_ino /\ next_ino' = next_ino /\ Linux' = Linux
    BY DEF cache, Linux
<1>2. CacheRight(inodes, src_to_ino, displaced) /\ IsHost /\ Entries \in [Place -> File \cup {None}]
    BY EntriesRight DEF ServeInv
<1>3. ASSUME NEW i \in DOMAIN inodes, ~Linux, i \notin displaced'
      PROVE  Walk(inodes[i].path)' = inodes[i].src
  <2>1. PICK s \in Seq(Name) : s = inodes[i].path
      BY <1>2 DEF CacheRight
  <2>2. PICK n \in Nat : n = Len(s)
      BY <2>1
  <2>3. Follow(Entries, s)[n] = inodes[i].src /\ inodes[i].src # None
      BY <1>2, <1>3, <2>1, <2>2, HostAssumption DEF CacheRight, Walk, Steps, File, None
  <2>4. ASSUME NEW k \in 1..n, NEW x, x = <<Follow(Entries, s)[k - 1], s[k]>>, x \in Place, Entries[x] # None
        PROVE  Entries'[x] = Entries[x]
    <3>1. i \in Over(x)
        BY <1>3, <2>1, <2>2, <2>4 DEF Over, Steps
    <3> QED
        BY <1>3, <2>4, <3>1
  <2>5. Follow(Entries', s)[n] = Follow(Entries, s)[n]
      BY <1>2, <2>2, <2>3, <2>4, FollowStays
  <2> QED
      BY <1>1, <2>1, <2>2, <2>3, <2>5 DEF Walk, Steps
<1>4. CacheRight(inodes, src_to_ino, displaced)'
    BY <1>1, <1>2, <1>3 DEF CacheRight
<1>5. GivenRight'
    BY <1>1 DEF ServeInv, GivenRight, FileOf, client
<1>6. displaced' \subseteq 1..(next_ino' - 1) /\ Root \in DOMAIN inodes'
    BY <1>1 DEF ServeInv, CountInv, IsCache
<1> QED
    BY <1>4, <1>5, <1>6 DEF ServeInv

(* There are fewer files than numbers while one can still be made, so that *)
(* the number it gets is of no live file.                                  *)
LEMMA NumberLeft ==
    ASSUME IsHost, Fresh # {}, Linux, NEW f
    PROVE  NewNumber(f) \in File /\ \A g \in Used : Live(g) => host.number[g] # NewNumber(f)
<1> DEFINE live == {h \in File \ Fresh : Named(h) \/ Pinned(h)}
           taken == {host.number[g] : g \in live}
<1>1. PICK fresh \in File : fresh \notin live
    BY DEF Fresh
<1>2. File \ taken # {}
  <2> SUFFICES ASSUME File \subseteq taken PROVE FALSE
      OBVIOUS
  <2>1. IsFiniteSet(File) /\ Cardinality(File) \in Nat
    <3>1. MaxFile \in Nat
        BY HostAssumption
    <3> QED
        BY <3>1, FS_Interval, FS_CardinalityType DEF File
  <2>2. IsFiniteSet(File \ {fresh}) /\ Cardinality(File \ {fresh}) = Cardinality(File) - 1
      BY <2>1, FS_RemoveElement
  <2>3. live \subseteq File \ {fresh}
      BY <1>1
  <2>4. IsFiniteSet(live) /\ Cardinality(live) <= Cardinality(File) - 1 /\ Cardinality(live) \in Nat
    <3> HIDE DEF live
    <3> QED
        BY <2>2, <2>3, FS_Subset, FS_CardinalityType
  <2>5. \A s \in File : \E g \in live : host.number[g] = s
      OBVIOUS
  <2> HIDE DEF live
  <2>6. PICK h : h = [s \in File |-> CHOOSE g \in live : host.number[g] = s]
      OBVIOUS
  <2>7. \A s \in File : h[s] \in live /\ host.number[h[s]] = s
      BY <2>5, <2>6
  <2>8. h \in [File -> live]
      BY <2>6, <2>7
  <2>9. \E s, t \in File : s # t /\ h[s] = h[t]
      BY <2>1, <2>4, <2>8, FS_PigeonHole
  <2> QED
      BY <2>7, <2>9
<1>3. File \ taken \in SUBSET Nat
    BY DEF File
<1>4. NewNumber(f) = Min(File \ taken)
    BY DEF NewNumber
<1>5. NewNumber(f) \in File \ taken
  <2> HIDE DEF taken
  <2> QED
      BY <1>2, <1>3, <1>4, HasMin
<1> QED
    BY <1>5 DEF Used, Live

(* A file is made.                                                         *)
LEMMA MadeServes ==
    ASSUME CountInv, ServeInv, UNCHANGED <<platform, mountpoint, cache, client, displaced>>, CallRight',
           NEW d \in File \cup {None}, NEW n \in Name, NEW kind \in {"dir", "file"},
           Vacant(d, n), Fresh # {}, host' = Made(d, n, kind)
    PROVE  ServeInv'
<1>1. PICK f : f = Min(Fresh)
    OBVIOUS
<1>2. f \in Fresh
  <2>1. Fresh \in SUBSET Nat
      BY DEF Fresh, File
  <2> QED
      BY <1>1, <2>1, HasMin
<1>3. PICK number : number = NewNumber(f)
    OBVIOUS
<1>4. IsHost /\ NumbersDiffer
    BY DEF ServeInv
<1>5. f \in File /\ host.kind[f] = "none" /\ f \notin Used /\ f # None
    BY <1>2, HostAssumption DEF Fresh, Used, File, None
<1>6. d \in File /\ host.kind[d] = "dir" /\ <<d, n>> \in Place /\ host.entry[<<d, n>>] = None
    BY DEF Vacant, IsDir, Entry, Place
<1>7. number \in File
  <2>1. CASE Linux
      BY <1>3, <1>4, <2>1, NumberLeft
  <2>2. CASE ~Linux
      BY <1>3, <1>5, <2>2 DEF NewNumber
  <2> QED
      BY <2>1, <2>2
<1>8. /\ host' = [kind |-> host'.kind, number |-> host'.number, entry |-> host'.entry]
      /\ host'.kind = [host.kind EXCEPT ![f] = kind]
      /\ host'.number = [host.number EXCEPT ![f] = number]
      /\ host'.entry = [host.entry EXCEPT ![<<d, n>>] = f]
    BY <1>1, <1>3 DEF Made
<1>9. /\ host'.kind \in [File -> {"none", "dir", "file"}] /\ host'.number \in [File -> File]
      /\ host'.entry \in [Place -> File \cup {None}]
      /\ \A g \in File : host'.kind[g] = IF g = f THEN kind ELSE host.kind[g]
      /\ \A g \in File : host'.number[g] = IF g = f THEN number ELSE host.number[g]
      /\ \A x \in Place : host'.entry[x] = IF x = <<d, n>> THEN f ELSE host.entry[x]
    BY <1>4, <1>5, <1>6, <1>7, <1>8 DEF IsHost
<1>10. Used' = Used \cup {f}
    BY <1>5, <1>9 DEF Used, Fresh
<1>11. IsHost'
  <2>1. Root \in File /\ Root # f
      BY <1>4, <1>5 DEF IsHost, Used
  <2>2. \A x \in Place : host'.entry[x] # None => host'.entry[x] \in Used'
      BY <1>4, <1>9, <1>10 DEF IsHost
  <2> QED
      BY <1>4, <1>8, <1>9, <1>10, <2>1, <2>2 DEF IsHost
<1>12. \A g \in Used : /\ g \in Used' /\ g # f
                       /\ host'.number[g] = host.number[g] /\ host'.kind[g] = host.kind[g]
    BY <1>5, <1>9, <1>10 DEF Used
<1>13. \A x \in Place : Entries[x] = None \/ Entries'[x] = Entries[x]
  <2> SUFFICES ASSUME NEW x \in Place, Entries[x] # None PROVE Entries'[x] = Entries[x]
      OBVIOUS
  <2>1. x[1] \in File /\ x[2] \in Name /\ x = <<x[1], x[2]>>
      BY DEF Place
  <2>2. Entries[x] = Entry(x[1], x[2]) /\ Entries'[x] = Entry(x[1], x[2])'
      BY DEF Entries
  <2>3. /\ x[1] \in Used /\ IsDir(x[1]) /\ host.kind[x[1]] = "dir" /\ Entry(x[1], x[2]) = host.entry[x]
      BY <1>4, <2>1, <2>2, EntryFound DEF Entry
  <2>4. IsDir(x[1])'
      BY <1>12, <2>3 DEF IsDir, IsMount
  <2>5. Entry(x[1], x[2])' = host'.entry[x]
      BY <2>1, <2>4 DEF Entry
  <2>6. x # <<d, n>>
      BY <1>6, <2>2, <2>3
  <2> QED
      BY <1>9, <2>2, <2>3, <2>5, <2>6
<1>14. NumbersDiffer'
  <2>1. CASE Linux
    <3>1. \A g \in Used : Live(g)' => Live(g)
      <4>1. \A g \in Used : Named(g)' => Named(g)
          BY <1>9, <1>12 DEF Named
      <4>2. \A g : Pinned(g)' => Pinned(g)
          BY DEF Pinned, Linux, cache
      <4> QED
          BY <4>1, <4>2 DEF Live
    <3>2. \A g \in Used : Live(g) => host.number[g] # number
        BY <1>3, <1>4, <2>1, NumberLeft
    <3>3. host'.number[f] = number
        BY <1>5, <1>9
    <3>4. \A g, h \in Used' : Live(g)' /\ Live(h)' /\ host'.number[g] = host'.number[h] => g = h
        BY <1>4, <1>10, <1>12, <2>1, <3>1, <3>2, <3>3 DEF NumbersDiffer
    <3> QED
        BY <2>1, <3>4 DEF NumbersDiffer, Linux
  <2>2. CASE ~Linux
    <3>1. number = f
        BY <1>3, <2>2 DEF NewNumber
    <3> QED
        BY <1>4, <1>9, <2>2, <3>1 DEF NumbersDiffer, Linux
  <2> QED
      BY <2>1, <2>2
<1> QED
    BY <1>11, <1>12, <1>13, <1>14, HostServes

(* Entries are made, removed or moved, of files that have a name: those    *)
(* that led somewhere lead there still, or the paths over them are gone.   *)
LEMMA EntriesServe ==
    ASSUME CountInv, ServeInv, UNCHANGED <<platform, mountpoint, cache, client>>, CallRight',
           NEW entry \in [Place -> File \cup {None}], host' = [host EXCEPT !.entry = entry],
           \A x \in Place : entry[x] # None => \E y \in Place : host.entry[y] = entry[x],
           displaced \subseteq displaced', displaced' \subseteq displaced \cup DOMAIN inodes,
           \A x \in Place : \/ Entries[x] = None \/ entry[x] = host.entry[x]
                            \/ Over(x) \subseteq displaced'
    PROVE  ServeInv'
<1>1. IsHost /\ NumbersDiffer
    BY DEF ServeInv
<1>2. /\ host' = [kind |-> host'.kind, number |-> host'.number, entry |-> host'.entry]
      /\ host'.kind = host.kind /\ host'.number = host.number /\ host'.entry = entry
    BY <1>1 DEF IsHost
<1>3. Used' = Used
    BY <1>2 DEF Used, Fresh
<1>4. IsHost'
    BY <1>1, <1>2, <1>3 DEF IsHost
<1>5. \A x \in Place : \/ Entries[x] = None \/ Entries'[x] = Entries[x]
                       \/ Over(x) \subseteq displaced'
  <2> SUFFICES ASSUME NEW x \in Place, entry[x] = host.entry[x] PROVE Entries'[x] = Entries[x]
      OBVIOUS
  <2>1. x = <<x[1], x[2]>>
      BY DEF Place
  <2>2. Entries[x] = Entry(x[1], x[2]) /\ Entries'[x] = Entry(x[1], x[2])'
      BY DEF Entries
  <2> QED
      BY <1>2, <2>1, <2>2 DEF Entry, IsDir, IsMount
<1>6. NumbersDiffer'
  <2>1. \A g \in Used : Named(g)' => Named(g)
      BY <1>2, HostAssumption DEF Named, Used, File, None
  <2>2. \A g : Pinned(g)' => Pinned(g)
      BY DEF Pinned, Linux, cache
  <2>3. \A g \in Used : Live(g)' => Live(g)
      BY <2>1, <2>2 DEF Live
  <2> QED
      BY <1>1, <1>2, <1>3, <2>3 DEF NumbersDiffer, Linux
<1> QED
    BY <1>2, <1>3, <1>4, <1>5, <1>6, HostServes

LEMMA RemovedServes ==
    ASSUME CountInv, ServeInv, UNCHANGED <<platform, mountpoint, cache, client>>, CallRight',
           NEW d \in File \cup {None}, NEW n \in Name, NEW dir, Removable(d, n, dir), Removes(d, n)
    PROVE  ServeInv'
<1>1. IsHost
    BY DEF ServeInv
<1>2. Entry(d, n) # None
    BY DEF Removable
<1>3. <<d, n>> \in Place
    BY <1>1, <1>2, EntryFound
<1>4. PICK entry : entry = [host.entry EXCEPT ![<<d, n>>] = None]
    OBVIOUS
<1>5. /\ entry \in [Place -> File \cup {None}]
      /\ \A x \in Place : entry[x] = IF x = <<d, n>> THEN None ELSE host.entry[x]
    BY <1>1, <1>3, <1>4 DEF IsHost
<1>6. host' = [host EXCEPT !.entry = entry] /\ displaced' = displaced \cup Over(<<d, n>>)
    BY <1>4 DEF Removes, Removed
<1>7. Over(<<d, n>>) \subseteq DOMAIN inodes
    BY DEF Over
<1>8. \A x \in Place : entry[x] = host.entry[x] \/ Over(x) \subseteq displaced'
    BY <1>5, <1>6
<1> QED
    BY <1>5, <1>6, <1>7, <1>8, EntriesServe

LEMMA MovedServes ==
    ASSUME CountInv, ServeInv, UNCHANGED <<platform, mountpoint, cache, client>>, CallRight',
           NEW d \in File \cup {None}, NEW n \in Name, NEW e \in File \cup {None}, NEW m \in Name,
           Moves(d, n, e, m)
    PROVE  ServeInv'
<1>1. IsHost
    BY DEF ServeInv
<1>2. Entry(d, n) # None /\ IsDir(e)
    BY DEF Moves, Movable
<1>3. /\ <<d, n>> \in Place /\ <<e, m>> \in Place
      /\ host.entry[<<d, n>>] \in File
  <2>1. e \in File
      BY <1>2 DEF IsDir
  <2> QED
      BY <1>1, <1>2, <2>1, EntryFound DEF Place, Used
<1>4. PICK entry : entry = [host.entry EXCEPT ![<<d, n>>] = None, ![<<e, m>>] = host.entry[<<d, n>>]]
    OBVIOUS
<1>5. /\ entry \in [Place -> File \cup {None}]
      /\ \A x \in Place : entry[x] = IF x = <<e, m>> THEN host.entry[<<d, n>>]
                                     ELSE IF x = <<d, n>> THEN None ELSE host.entry[x]
    BY <1>1, <1>3, <1>4 DEF IsHost
<1>6. host' = [host EXCEPT !.entry = entry] /\ displaced' = displaced \cup Over(<<d, n>>) \cup Over(<<e, m>>)
    BY <1>4 DEF Moves, Renamed
<1>7. Over(<<d, n>>) \subseteq DOMAIN inodes /\ Over(<<e, m>>) \subseteq DOMAIN inodes
    BY DEF Over
<1>8. \A x \in Place : entry[x] = host.entry[x] \/ Over(x) \subseteq displaced'
    BY <1>5, <1>6
<1>9. \A x \in Place : entry[x] # None => \E y \in Place : host.entry[y] = entry[x]
    BY <1>3, <1>5
<1>10. displaced \subseteq displaced' /\ displaced' \subseteq displaced \cup DOMAIN inodes
    BY <1>6, <1>7
<1> QED
    BY <1>5, <1>6, <1>8, <1>9, <1>10, EntriesServe

LEMMA LinkedServes ==
    ASSUME CountInv, ServeInv, NEW i, NEW p, NEW n \in Name, link(i, p, n)
    PROVE  ServeInv'
<1>1. IsHost /\ CacheRight(inodes, src_to_ino, displaced) /\ CallRight
    BY DEF ServeInv
<1>2. PICK f, d : f = open(i) /\ d = open(p)
    OBVIOUS
<1>3. /\ f # None /\ Named(f) /\ Vacant(d, n) /\ host.kind[f] # "dir"
      /\ host' = [host EXCEPT !.entry[<<d, n>>] = f]
      /\ op = Idle /\ UNCHANGED <<platform, mountpoint, cache, client, displaced, op>>
    BY <1>2 DEF link, Linked, cache
<1>4. d \in File /\ <<d, n>> \in Place /\ Entry(d, n) = None /\ f \in File
    BY <1>1, <1>2, <1>3, OpenTyped DEF Vacant, IsDir, Place
<1>5. PICK y \in Place : host.entry[y] = f
    BY <1>1, <1>3 DEF Named, IsHost
<1>6. PICK entry : entry = [host.entry EXCEPT ![<<d, n>>] = f]
    OBVIOUS
<1>7. /\ entry \in [Place -> File \cup {None}]
      /\ \A x \in Place : entry[x] = IF x = <<d, n>> THEN f ELSE host.entry[x]
    BY <1>1, <1>4, <1>6 DEF IsHost
<1>8. host' = [host EXCEPT !.entry = entry]
    BY <1>3, <1>6
<1>9. Entries[<<d, n>>] = None
    BY <1>4 DEF Entries
<1>10. \A x \in Place : Entries[x] = None \/ entry[x] = host.entry[x]
    BY <1>7, <1>9
<1>11. CallRight'
    BY <1>3, IdleCall
<1> QED
    BY <1>3, <1>5, <1>7, <1>8, <1>10, <1>11, EntriesServe

-----------------------------------------------------------------------------
(* All steps                                                               *)

LEMMA ListingBegins ==
    ASSUME ServeInv, NEW p, readdir_plus(p)
    PROVE  ServeInv'
<1>1. PICK todo : todo = {x \in Name \X File : Entry(open(p), x[1]) = x[2] /\ ~IsMount(x[2])}
    OBVIOUS
<1>2. /\ op' = [Idle EXCEPT !.act = "list", !.dir = p, !.todo = todo]
      /\ UNCHANGED <<platform, mountpoint, host, cache, client, displaced>>
    BY <1>1 DEF readdir_plus
<1>3. op' = [act |-> "list", dir |-> p, name |-> Idle.name, todo |-> todo] /\ Idle.name \in Name
    BY <1>2, HostAssumption DEF Idle
<1>4. op'.act = "list" /\ op'.dir = p /\ op'.name \in Name /\ op'.todo = todo
    BY <1>3
<1>5. open(op.dir)' = open(p)
    BY <1>2, <1>4, SameHost DEF open, getattr, lstat_path, Walk, Steps, Linux, cache
<1>6. (\A x \in op.todo : x \in Name \X File /\ Entry(open(op.dir), x[1]) = x[2])'
    BY <1>1, <1>2, <1>4, <1>5 DEF Entry, IsDir, IsMount
<1>7. CallRight'
    BY <1>3, <1>4, <1>6 DEF CallRight
<1> QED
    BY <1>2, <1>7, NothingServes

LEMMA ClientServes ==
    ASSUME CountInv, CountInv', ServeInv, NEW p \in Ino, NEW n \in Name,
           \/ lookup(p, n) \/ mkdir(p, n) \/ mknod(p, n) \/ symlink(p, n) \/ create_file(p, n)
           \/ unlink(p, n) \/ rmdir(p, n)
           \/ \E i \in Ino : link(i, p, n)
           \/ \E q \in Ino, m \in Name : rename(p, n, q, m)
    PROVE  ServeInv'
<1>1. IsHost /\ CacheRight(inodes, src_to_ino, displaced)
    BY DEF ServeInv
<1>2. \A i : open(i) \in File \cup {None}
    BY <1>1, OpenTyped
<1>3. CASE lookup(p, n)
  <2>1. CallRight'
      BY <1>3, IdleCall DEF lookup, Begin
  <2> QED
      BY <1>3, <2>1, FoundServes DEF lookup
<1>4. ASSUME NEW kind \in {"dir", "file"}, NEW act \in {"lookup", "create"}, make(p, n, kind, act)
      PROVE  ServeInv'
  <2>1. PICK d \in File \cup {None} : d = open(p)
      BY <1>2
  <2>2. CallRight'
    <3>1. act # "list" /\ op' = [Idle EXCEPT !.act = act, !.dir = p, !.name = n]
        BY <1>4 DEF make
    <3> QED
        BY <3>1, NamedCall
  <2>3. /\ Vacant(d, n) /\ Fresh # {} /\ host' = Made(d, n, kind)
        /\ UNCHANGED <<platform, mountpoint, cache, client, displaced>>
      BY <1>4, <2>1 DEF make
  <2> QED
      BY <2>2, <2>3, MadeServes
<1>5. CASE create_file(p, n)
  <2>1. CASE make(p, n, "file", "create")
      BY <1>4, <2>1
  <2>2. CASE ~make(p, n, "file", "create")
    <3>1. /\ op' = [Idle EXCEPT !.act = "create", !.dir = p, !.name = n]
          /\ UNCHANGED <<platform, mountpoint, host, cache, client, displaced>>
        BY <1>5, <2>2 DEF create_file
    <3>2. CallRight'
        BY <3>1, NamedCall
    <3> QED
        BY <3>1, <3>2, NothingServes
  <2> QED
      BY <2>1, <2>2
<1>6. CASE unlink(p, n) \/ rmdir(p, n)
  <2>1. PICK d \in File \cup {None} : d = open(p)
      BY <1>2
  <2>2. PICK dir \in BOOLEAN : Removable(d, n, dir) /\ Removes(d, n)
      BY <1>6, <2>1 DEF unlink, rmdir
  <2>3. op' = Idle /\ UNCHANGED <<platform, mountpoint, cache, client>>
      BY <1>6 DEF unlink, rmdir
  <2>4. CallRight'
      BY <2>3, IdleCall
  <2> QED
      BY <2>2, <2>3, <2>4, RemovedServes
<1>7. ASSUME NEW i \in Ino, link(i, p, n) PROVE ServeInv'
    BY <1>7, LinkedServes
<1>8. ASSUME NEW q \in Ino, NEW m \in Name, rename(p, n, q, m) PROVE ServeInv'
  <2>1. PICK d \in File \cup {None}, e \in File \cup {None} : d = open(p) /\ e = open(q)
      BY <1>2
  <2>2. Moves(d, n, e, m) /\ UNCHANGED <<platform, mountpoint, cache, client>>
      BY <1>8, <2>1 DEF rename
  <2>3. op' = IF Linux THEN Idle ELSE [Idle EXCEPT !.act = "rename", !.dir = q, !.name = m]
      BY <1>8 DEF rename
  <2>4. CallRight'
      BY <2>3, IdleCall, NamedCall
  <2> QED
      BY <2>2, <2>4, MovedServes
<1> QED
    BY <1>3, <1>4, <1>5, <1>6, <1>7, <1>8 DEF mkdir, mknod, symlink

LEMMA HostChangeServes ==
    ASSUME ~Races, CountInv, ServeInv, NEW d \in File, NEW n \in Name, NEW e \in File, NEW m \in Name,
           \/ \E kind \in {"dir", "file"} : HostMakes(d, n, kind)
           \/ HostRemoves(d, n)
           \/ HostMoves(d, n, e, m)
    PROVE  ServeInv'
<1>1. CallRight'
  <2>1. op.act # "list" /\ op' = op
      BY DEF HostMakes, HostRemoves, HostMoves, Undisturbed
  <2> QED
      BY <2>1, SameCall DEF ServeInv
<1>2. ASSUME NEW kind \in {"dir", "file"}, HostMakes(d, n, kind) PROVE ServeInv'
  <2>1. /\ Vacant(d, n) /\ Fresh # {} /\ host' = Made(d, n, kind)
        /\ UNCHANGED <<platform, mountpoint, cache, client, displaced>>
      BY <1>2 DEF HostMakes
  <2> QED
      BY <1>1, <2>1, MadeServes
<1>3. CASE HostRemoves(d, n)
  <2>1. PICK dir \in BOOLEAN : Removable(d, n, dir)
      BY <1>3 DEF HostRemoves
  <2>2. Removes(d, n) /\ UNCHANGED <<platform, mountpoint, cache, client>>
      BY <1>3 DEF HostRemoves
  <2> QED
      BY <1>1, <2>1, <2>2, RemovedServes
<1>4. CASE HostMoves(d, n, e, m)
    BY <1>1, <1>4, MovedServes DEF HostMoves
<1> QED
    BY <1>2, <1>3, <1>4

LEMMA StepServes == ~Races /\ CountInv /\ ServeInv /\ [Next]_vars => ServeInv'
<1> SUFFICES ASSUME ~Races, CountInv, ServeInv, [Next]_vars PROVE ServeInv'
    OBVIOUS
<1>0. CountInv'
    BY StepKeepsCounts
<1>1. op.name \in Name
    BY DEF ServeInv, CallRight
<1>2. CASE UNCHANGED vars
  <2>1. CallRight'
    <3>1. open(op.dir)' = open(op.dir)
        BY <1>2, SameHost DEF vars, open, getattr, lstat_path, Walk, Steps, Linux
    <3>2. op' = op /\ \A d, n : Entry(d, n)' = Entry(d, n)
        BY <1>2, SameHost DEF vars
    <3>3. (\A x \in op.todo : x \in Name \X File /\ Entry(open(op.dir), x[1]) = x[2])'
            <=> \A x \in op.todo : x \in Name \X File /\ Entry(open(op.dir), x[1]) = x[2]
        BY <1>2, <3>1 DEF vars, Entry, IsDir, IsMount
    <3> QED
        BY <3>2, <3>3 DEF ServeInv, CallRight
  <2> QED
      BY <1>2, <2>1, NothingServes DEF vars, cache, client
<1>3. CASE LooksUp
  <2>1. CallRight'
      BY <1>3, IdleCall DEF LooksUp
  <2> QED
      BY <1>0, <1>1, <1>3, <2>1, FoundServes DEF LooksUp
<1>4. CASE CreateEnds
  <2>1. CallRight' /\ UNCHANGED <<platform, mountpoint, host, displaced>>
      BY <1>4, IdleCall DEF CreateEnds
  <2>2. PICK p, n, f : p = op.dir /\ n = op.name /\ f = Entry(open(p), n)
      OBVIOUS
  <2>3. CASE f = None
      BY <1>4, <2>1, <2>2, <2>3, NothingServes DEF CreateEnds
  <2>4. CASE f # None
    <3>1. Answered(get_or_create_inode(f, Path(p, n), host.number[f]), f)
        BY <1>4, <2>2, <2>4 DEF CreateEnds
    <3> QED
        BY <1>0, <1>1, <2>1, <2>2, <2>4, <3>1, EntryServes
  <2> QED
      BY <2>3, <2>4
<1>5. CASE RenameEnds
    BY <1>0, <1>5, RenameServes
<1>6. ASSUME NEW p \in Ino, readdir_plus(p) PROVE ServeInv'
    BY <1>6, ListingBegins
<1>7. ASSUME NEW x \in op.todo, ListEntry(x) PROVE ServeInv'
    BY <1>0, <1>7, ListEntryServes
<1>8. CASE ListEnds
  <2>1. CallRight'
      BY <1>8, IdleCall DEF ListEnds
  <2> QED
      BY <1>8, <2>1, NothingServes DEF ListEnds
<1>9. ASSUME NEW i \in Ino, NEW n \in 1..MaxLookups, forget(i, n) PROVE ServeInv'
  <2>1. n \in Nat
      BY HostAssumption
  <2> QED
      BY <1>0, <1>9, <2>1, ForgetServes
<1>10. CASE \E p \in Ino, n \in Name :
              \/ lookup(p, n) \/ mkdir(p, n) \/ mknod(p, n) \/ symlink(p, n) \/ create_file(p, n)
              \/ unlink(p, n) \/ rmdir(p, n)
              \/ \E i \in Ino : link(i, p, n)
              \/ \E q \in Ino, m \in Name : rename(p, n, q, m)
    BY <1>0, <1>10, ClientServes
<1>11. CASE \E d \in File, n \in Name :
              \/ \E kind \in {"dir", "file"} : HostMakes(d, n, kind)
              \/ HostRemoves(d, n)
              \/ \E e \in File, m \in Name : HostMoves(d, n, e, m)
    BY <1>11, HostChangeServes
<1> QED
    BY <1>2, <1>3, <1>4, <1>5, <1>6, <1>7, <1>8, <1>9, <1>10, <1>11 DEF Next

LEMMA InitServes == Init => ServeInv
<1> SUFFICES ASSUME Init PROVE ServeInv
    OBVIOUS
<1>1. Root \in File /\ None \notin File
    BY HostAssumption DEF Root, None, File
<1>2. PICK mount \in BOOLEAN, x \in Place :
        /\ mountpoint = IF mount THEN 2 ELSE None
        /\ host = [kind   |-> [f \in File |-> IF f = Root \/ (f = 2 /\ mount) THEN "dir" ELSE "none"],
                   number |-> [f \in File |-> f],
                   entry  |-> [y \in Place |-> IF mount /\ y = x THEN 2 ELSE None]]
  <2>1. <<Root, CHOOSE n \in Name : TRUE>> \in Place
      BY <1>1, HostAssumption DEF Place
  <2> QED
      BY <2>1 DEF Init
<1>3. IsHost
  <2>1. 2 \in File
      BY HostAssumption DEF File
  <2>2. /\ host = [kind |-> host.kind, number |-> host.number, entry |-> host.entry]
        /\ host.kind = [f \in File |-> IF f = Root \/ (f = 2 /\ mount) THEN "dir" ELSE "none"]
        /\ host.number = [f \in File |-> f]
        /\ host.entry = [y \in Place |-> IF mount /\ y = x THEN 2 ELSE None]
      BY <1>2
  <2>3. host.kind \in [File -> {"none", "dir", "file"}] /\ host.entry \in [Place -> File \cup {None}]
      BY <2>1, <2>2
  <2>4. host.kind[Root] = "dir" /\ (mount => host.kind[2] = "dir")
      BY <1>1, <2>1, <2>2
  <2>5. \A y \in Place : host.entry[y] # None => mount /\ host.entry[y] = 2
      BY <2>2
  <2> QED
      BY <1>1, <2>1, <2>2, <2>3, <2>4, <2>5 DEF IsHost, Used, Fresh
<1>4. NumbersDiffer
    BY <1>2 DEF NumbersDiffer, Used
<1>5. /\ DOMAIN inodes = {Root} /\ inodes[Root].at = Root /\ inodes[Root].path = <<>>
      /\ inodes[Root].src = Root
      /\ src_to_ino = [s \in File |-> IF s = Root THEN Root ELSE None]
      /\ displaced = {} /\ next_ino = 2 /\ op = Idle
      /\ held = [i \in Ino |-> 0] /\ given = [i \in Ino |-> {}]
    BY DEF Init
<1>6. CacheRight(inodes, src_to_ino, displaced)
  <2>1. <<>> \in Seq(Name) /\ Len(<<>>) = 0 /\ 0 \in Nat
      OBVIOUS
  <2>2. Walk(<<>>) = Root
      BY <2>1, FollowLeads DEF Walk, Steps
  <2>3. host.number[Root] = Root
      BY <1>1, <1>2
  <2>4. src_to_ino \in [File -> Nat] /\ Root # None
      BY <1>1, <1>5 DEF Root, None
  <2> QED
      BY <1>1, <1>3, <1>5, <2>1, <2>2, <2>3, <2>4 DEF CacheRight, IsHost
<1>7. GivenRight
    BY <1>5 DEF GivenRight
<1>8. CallRight
  <2>1. Idle = [act |-> Idle.act, dir |-> Idle.dir, name |-> Idle.name, todo |-> Idle.todo]
      BY DEF Idle
  <2>2. Idle.act = "none" /\ Idle.name \in Name
      BY HostAssumption DEF Idle
  <2> QED
      BY <1>5, <2>1, <2>2 DEF CallRight
<1> QED
    BY <1>3, <1>4, <1>5, <1>6, <1>7, <1>8 DEF ServeInv

(* An inode that is sure to be reached reaches the file it stands for, and *)
(* files with one number have one inode.                                   *)
LEMMA ServedByInvariant == ServeInv => ServesTheFile
<1> SUFFICES ASSUME ServeInv PROVE ServesTheFile
    OBVIOUS
<1> DEFINE Sure == {i \in Ino \ displaced : held[i] > 0}
<1>1. ASSUME NEW i \in Sure
      PROVE  i \in DOMAIN inodes /\ open(i) = FileOf(inodes, i) /\ given[i] = {open(i)}
  <2>1. /\ i \in DOMAIN inodes /\ given[i] # {} /\ \A f \in given[i] : f = FileOf(inodes, i)
      BY DEF ServeInv, GivenRight
  <2>2. open(i) = FileOf(inodes, i)
      BY <2>1 DEF open, getattr, lstat_path, FileOf, ServeInv, CacheRight
  <2> QED
      BY <2>1, <2>2
<1>2. ASSUME NEW i \in Sure, NEW j \in Sure, open(i) = open(j) PROVE i = j
  <2>1. i \in DOMAIN inodes /\ j \in DOMAIN inodes /\ FileOf(inodes, i) = FileOf(inodes, j)
      BY <1>1, <1>2
  <2>2. inodes[i].src = inodes[j].src
      BY <2>1 DEF FileOf, ServeInv, CacheRight
  <2> QED
      BY <2>1, <2>2 DEF ServeInv, CacheRight
<1> QED
    BY <1>1, <1>2 DEF ServesTheFile

(* Host inode numbers are reused and names come and go, by the client's    *)
(* calls and behind its back: as long as nobody changes a directory while  *)
(* readdir_plus reads it, a held inode reaches the one file it was given   *)
(* for, on macOS if no entry on its path was removed or moved, and two     *)
(* inodes that are held never reach the same file.                         *)
THEOREM InodesServeTheirFiles == ASSUME ~Races PROVE Spec => []ServesTheFile
<1>1. Init => CountInv /\ ServeInv
    BY InitCounts, InitServes
<1>2. CountInv /\ ServeInv /\ [Next]_vars => (CountInv /\ ServeInv)'
    BY StepKeepsCounts, StepServes
<1>3. CountInv /\ ServeInv => ServesTheFile
    BY ServedByInvariant
<1> QED
    BY <1>1, <1>2, <1>3, PTL DEF Spec
=============================================================================
