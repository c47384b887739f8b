----------------------------- MODULE VolumeTables -----------------------------
(***************************************************************************)
(* The namespace of one volume in its SQLite tables, and the operations of *)
(* the Worker on them: fs_inode (kind, nlink), fs_dentry (entry) and       *)
(* fs_open_inode (lease, expired).  Every operation is one transaction of  *)
(* the Durable Object.                                                     *)
(*                                                                         *)
(* A path is the place its last name has, a directory and a name in it:    *)
(* what resolveParent returns.  Data, times, modes other than the type,    *)
(* and symbolic links (files here) are left out.                           *)
(***************************************************************************)
EXTENDS Integers, FiniteSets

CONSTANTS MaxIno,     \* bound: inode numbers ever allocated
          MaxLinks,   \* bound: nlink an inode reaches, down to its negative
          Name,       \* names of entries
          Session,    \* mounts that may hold leases
          Workload,   \* the kinds of operation the clients of a run use
          IntoFiles   \* whether clients name paths below a regular file

ASSUME VolumeAssumption ==
    /\ MaxIno \in Nat \ {0} /\ MaxLinks \in Nat
    /\ IsFiniteSet(Name) /\ IntoFiles \in BOOLEAN

Root == 1
Ino == 1..MaxIno
NoIno == 0      \* no entry with that name
NoRow == -1     \* no lease row; a row has an open_count

Place == Ino \X Name

VARIABLES kind,      \* the row of fs_inode: its type, or "none"
          nlink,     \* its link count
          entry,     \* fs_dentry: the inode at each place
          lastIno,   \* the AUTOINCREMENT sequence of fs_inode
          lease,     \* fs_open_inode: open_count of a session's row
          expired    \* the lease rows whose expires_at has passed

tables == <<kind, nlink, entry, lastIno, lease, expired>>

-----------------------------------------------------------------------------
Exists(i) == kind[i] # "none"

TablesTypeOK ==
    /\ kind \in [Ino -> {"none", "file", "dir"}]
    /\ nlink \in [Ino -> Int]
    /\ entry \in [Place -> Ino \cup {NoIno}]
    /\ lastIno \in Ino
    /\ lease \in [Session \X Ino -> Int]
    /\ expired \subseteq Session \X Ino
    /\ \A i \in Ino : i > lastIno => ~Exists(i)   \* no row above the sequence

Names(i) == {x \in Place : entry[x] = i}
Children(d) == {x \in Place : x[1] = d /\ entry[x] # NoIno}

HasActiveLease(i) ==
    \E s \in Session : lease[<<s, i>>] > 0 /\ <<s, i>> \notin expired

(* The inodes a path lookup from `d` can end at, passing only through      *)
(* inodes of a kind in `kinds`.                                            *)
Below(d, kinds) ==
    LET next(from) == {entry[x] : x \in {y \in from \X Name : entry[y] # NoIno}}
        walk[k \in 0..MaxIno] ==
          IF k = 0 THEN {d}
          ELSE LET near == walk[k - 1]
               IN  near \cup next({i \in near : kind[i] \in kinds})
    IN  walk[MaxIno]

(* The adapter's resolvePath follows entries whatever they lead through;   *)
(* the primitives' resolve insists on directories.                         *)
Resolvable == Below(Root, {"none", "file", "dir"})
ResolvableDirs == {d \in Below(Root, {"dir"}) : kind[d] = "dir"}

(* Write fs_inode.  An update of a missing row changes nothing, and        *)
(* deleting a row takes its leases with it (trg_fs_inode_delete_cleanup).  *)
Store(kinds, links, gone) ==
    /\ kind' = [i \in Ino |-> IF i \in gone THEN "none" ELSE kinds[i]]
    /\ nlink' = [i \in Ino |-> IF i \in gone \/ kinds[i] = "none" THEN 0 ELSE links[i]]
    /\ lease' = [x \in Session \X Ino |-> IF x[2] \in gone THEN NoRow ELSE lease[x]]
    /\ expired' = {x \in expired : x[2] \notin gone}

Linkable(i) == kind[i] = "file" /\ nlink[i] \in (-MaxLinks)..(MaxLinks - 1)

(* Insert a node and its entry. *)
NewNode(p, n, type, links, parentLinks) ==
    /\ lastIno < MaxIno
    /\ lastIno' = lastIno + 1
    /\ entry' = [entry EXCEPT ![<<p, n>>] = lastIno + 1]
    /\ Store([kind EXCEPT ![lastIno + 1] = type],
             [nlink EXCEPT ![p] = @ + parentLinks, ![lastIno + 1] = links], {})

(* Variant: the removal does not look at leases. *)
RemoveNamesUnleased(names) ==
    LET lost(i) == Cardinality(Names(i) \cap names)
    IN  /\ entry' = [x \in Place |-> IF x \in names THEN NoIno ELSE entry[x]]
        /\ Store(kind, [i \in Ino |-> nlink[i] - lost(i)],
                 {i \in Ino : lost(i) > 0 /\ nlink[i] = lost(i)})
        /\ UNCHANGED lastIno

(* removeDentryAndMaybeInode for each of `names`: the inode goes when its  *)
(* link count reaches zero and no live handle leases it.                   *)
RemoveNames(names) ==
    LET lost(i) == Cardinality(Names(i) \cap names)
    IN  /\ entry' = [x \in Place |-> IF x \in names THEN NoIno ELSE entry[x]]
        /\ Store(kind, [i \in Ino |-> nlink[i] - lost(i)],
                 {i \in Ino : lost(i) > 0 /\ nlink[i] = lost(i) /\ ~HasActiveLease(i)})
        /\ UNCHANGED lastIno

-----------------------------------------------------------------------------
Init ==
    /\ kind = [i \in Ino |-> IF i = Root THEN "dir" ELSE "none"]
    /\ nlink = [i \in Ino |-> IF i = Root THEN 1 ELSE 0]
    /\ entry = [x \in Place |-> NoIno]
    /\ lastIno = Root
    /\ lease = [x \in Session \X Ino |-> NoRow]
    /\ expired = {}

(* writeFile, touch, symlink and copyFile at a free place.  The parents    *)
(* writeFile creates first are MakeDir steps of the same transaction.      *)
CreateFile(p, n) ==
    /\ "create" \in Workload
    /\ p \in Resolvable
    /\ kind[p] # "file" \/ IntoFiles
    /\ entry[<<p, n>>] = NoIno
    /\ NewNode(p, n, "file", 1, 0)

(* mkdir: one link for the entry, none for "." and none in the parent. *)
MakeDir(p, n) ==
    /\ "mkdir" \in Workload
    /\ p \in Resolvable
    /\ kind[p] # "file"
    /\ entry[<<p, n>>] = NoIno
    /\ NewNode(p, n, "dir", 1, 0)

Link(x, p, n) ==
    /\ "link" \in Workload
    /\ {x[1], p} \subseteq ResolvableDirs
    /\ entry[x] # NoIno /\ Linkable(entry[x])
    /\ entry[<<p, n>>] = NoIno
    /\ entry' = [entry EXCEPT ![<<p, n>>] = entry[x]]
    /\ Store(kind, [nlink EXCEPT ![entry[x]] = @ + 1], {})
    /\ UNCHANGED lastIno

Unlink(p, n) ==
    /\ "remove" \in Workload
    /\ p \in Resolvable
    /\ entry[<<p, n>>] # NoIno /\ kind[entry[<<p, n>>]] # "dir"
    /\ RemoveNames({<<p, n>>})

(* The entries rm removes under `top`: the traversal skips an entry whose  *)
(* inode has no row, which an inode with fewer links than entries loses    *)
(* on the way; which of its entries come first is left open.               *)
Traversed(top) ==
    LET dirs == {d \in Below(entry[top], {"dir"}) : kind[d] = "dir"}
        all == {top} \cup {x \in Place : x[1] \in dirs /\ entry[x] # NoIno}
        of(i, names) == Cardinality(Names(i) \cap names)
        removed(i) == CASE ~Exists(i) -> 0
                        [] nlink[i] \in 1..of(i, all) /\ ~HasActiveLease(i) -> nlink[i]
                        [] OTHER -> of(i, all)
    IN  {names \in SUBSET all :
            top \in names /\ \A i \in Ino : of(i, names) = removed(i)}

(* rm, recursive on a directory. *)
RemoveTree(p, n) ==
    /\ "remove" \in Workload
    /\ p \in Resolvable
    /\ entry[<<p, n>>] # NoIno /\ Exists(entry[<<p, n>>])
    /\ \E names \in Traversed(<<p, n>>) : RemoveNames(names)

(* The part of both rename operations that compares source and             *)
(* destination.                                                            *)
Replaceable(i, j) ==
    /\ kind[i] = kind[j]
    /\ kind[j] = "dir" => Children(j) = {}

(* Variant: a directory may be moved below itself. *)
RenameIntoItself(p, n, q, m) ==
    LET i == entry[<<p, n>>]
        j == entry[<<q, m>>]
    IN  /\ "rename" \in Workload
        /\ <<p, n>> # <<q, m>> /\ {p, q} \subseteq Resolvable
        /\ i # NoIno /\ Exists(i) /\ j = NoIno
        /\ kind[q] # "file" \/ IntoFiles
        /\ entry' = [entry EXCEPT ![<<p, n>>] = NoIno, ![<<q, m>>] = i]
        /\ UNCHANGED <<kind, nlink, lastIno, lease, expired>>

(* Variant: a replaced file keeps its link. *)
RenameKeepingLinks(p, n, q, m) ==
    LET i == entry[<<p, n>>]
        j == entry[<<q, m>>]
    IN  /\ "rename" \in Workload
        /\ <<p, n>> # <<q, m>> /\ {p, q} \subseteq Resolvable
        /\ i # NoIno /\ Exists(i) /\ kind[i] = "file"
        /\ j # NoIno => Exists(j) /\ Replaceable(i, j)
        /\ entry' = [entry EXCEPT ![<<p, n>>] = NoIno, ![<<q, m>>] = i]
        /\ UNCHANGED <<kind, nlink, lastIno, lease, expired>>

(* rename: the destination loses its entry like an unlinked one; neither   *)
(* the kind of the new parent nor the link counts of the parents are       *)
(* touched.  A destination without inode row fails on the UNIQUE           *)
(* constraint.                                                             *)
Rename(p, n, q, m) ==
    LET i == entry[<<p, n>>]
        j == entry[<<q, m>>]
    IN  /\ "rename" \in Workload
        /\ <<p, n>> # <<q, m>> /\ {p, q} \subseteq Resolvable
        /\ i # NoIno /\ Exists(i)
        /\ kind[i] = "dir" => q \notin Below(i, {"none", "file", "dir"})
        /\ kind[q] # "file" \/ IntoFiles
        /\ j # NoIno => Exists(j) /\ Replaceable(i, j)
        /\ entry' = [entry EXCEPT ![<<p, n>>] = NoIno, ![<<q, m>>] = i]
        /\ IF j = NoIno
           THEN UNCHANGED <<kind, nlink, lease, expired>>
           ELSE Store(kind, [nlink EXCEPT ![j] = @ - 1],
                      {j} \cap {k \in Ino : nlink[k] = 1 /\ ~HasActiveLease(k)})
        /\ UNCHANGED lastIno

WorkerNext ==
    \E x \in Place :
        \/ CreateFile(x[1], x[2])
        \/ MakeDir(x[1], x[2])
        \/ Unlink(x[1], x[2])
        \/ RemoveTree(x[1], x[2])
        \/ \E y \in Place : Link(y, x[1], x[2]) \/ Rename(y[1], y[2], x[1], x[2])

WorkerSpec == Init /\ [][WorkerNext]_tables

-----------------------------------------------------------------------------
(* Properties *)

(* Every entry leads to an inode: no file or directory is deleted while a  *)
(* name still refers to it (SPEC.md, consistency rule 2).                  *)
EntriesResolve == \A x \in Place : entry[x] # NoIno => Exists(entry[x])

(* Every entry is in an inode that exists: whatever is removed, no entry   *)
(* stays behind that no path leads to any more (SPEC.md, rule 3).          *)
ParentsExist == \A x \in Place : entry[x] # NoIno => Exists(x[1])

(* Every inode can be reached from the root: nothing is leaked, and no     *)
(* sequence of renames cuts a directory off into a cycle (SPEC.md, rule 8).*)
AllReachable == \A i \in Ino : Exists(i) => i \in Resolvable

(* The link count of an inode is the number of its names, so that its last *)
(* removal, and no earlier one, deletes it.                                *)
LinksAreNames ==
    \A i \in Ino \ {Root} : Exists(i) => nlink[i] = Cardinality(Names(i))
=============================================================================
