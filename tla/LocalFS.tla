------------------------------ MODULE LocalFS -------------------------------
(***************************************************************************)
(* One process with a local AgentFS: the path API of struct AgentFS and    *)
(* trait FileSystem over the same tables, with the dentry cache the paths  *)
(* are resolved through.  The pool has one connection, so the operations   *)
(* of a process follow one another; what interrupts one is an error of a   *)
(* statement, which leaves the earlier ones committed, or the end of the   *)
(* process, which also loses the cache.                                    *)
(*                                                                         *)
(* A caller of the trait names directories by number and is the kernel: it *)
(* has looked them up, moves no directory below itself, and turns a rename *)
(* of an inode onto itself into nothing.  Paths have at most two names.    *)
(***************************************************************************)
EXTENDS AgentTables

CONSTANTS Interruptible,    \* the operations that may be cut short
          RenameOntoSelf,   \* whether a caller renames a path to itself
          IntoFiles,        \* whether a path names a file as a parent
          MaxCount          \* bound: a link count, which renames of links to
                            \* directories shift between parents

ASSUME InterruptAssumption ==
    /\ Interruptible \subseteq {"mkdir", "mknod", "symlink", "link", "remove"}
    /\ RenameOntoSelf \in BOOLEAN /\ IntoFiles \in BOOLEAN
    /\ MaxCount \in Nat

VARIABLE cache      \* DentryCache: Place -> inode, NoIno when absent

vars == <<db, cache>>

Empty == [x \in Place |-> NoIno]

Init == DbInit /\ cache = Empty

-----------------------------------------------------------------------------
(* Resolution of paths *)

Path == UNION {[1..k -> Name] : k \in 1..2}

Parent(path) == SubSeq(path, 1, Len(path) - 1)

Child(w, n) == IF w.cache[<<w.ino, n>>] # NoIno THEN w.cache[<<w.ino, n>>]
               ELSE At(w.ino, n)

(* One component: from the cache, or from the table into the cache. *)
Into(w, n) ==
    IF w.ino = NoIno THEN w
    ELSE IF Child(w, n) = NoIno THEN [w EXCEPT !.ino = NoIno]
    ELSE [ino |-> Child(w, n), cache |-> [w.cache EXCEPT ![<<w.ino, n>>] = Child(w, n)]]

Resolve(c, path) == FoldLeft(Into, [ino |-> Root, cache |-> c], path)

IsLink(i) == i # NoIno /\ db.kind[i] = "link"

Followed(w, k) ==
    IF IsLink(w.ino) THEN Resolve(w.cache, <<db.target[w.ino]>>) ELSE w

(* stat: links are followed until one does not lead to another; what is    *)
(* still a link after every name is a loop, and an error.                  *)
Stat(c, path) ==
    FoldLeft(Followed, Resolve(c, path), [k \in 1..Cardinality(Name) + 1 |-> k])

Stated(c, path) ==
    LET w == Stat(c, path)
    IN  IF Exists(w.ino) /\ ~IsLink(w.ino) THEN w.ino ELSE NoIno

-----------------------------------------------------------------------------
(* Steps *)

Memo(c, s) == IF s.sql = "cache" THEN [c EXCEPT ![s.at] = s.ino] ELSE c

Cached(c, script) == FoldLeft(Memo, c, FlattenSeq(script))

(* The whole script, the steps before a failing one, or those and the end  *)
(* of the process.  c is the cache its lookups have left.                  *)
Run(kind, c, script) ==
    \E k \in 0..Len(script) :
        /\ k < Len(script) => kind \in Interruptible
        /\ db' = Committed(db, SubSeq(script, 1, k))
        /\ \A i \in Ino : db'.nlink[i] \in -1..MaxCount
        /\ \/ cache' = Cached(c, SubSeq(script, 1, k))
           \/ kind \in Interruptible /\ cache' = Empty

(* The LRU cache drops an entry when it is full. *)
Evict(x) ==
    /\ cache[x] # NoIno
    /\ cache' = [cache EXCEPT ![x] = NoIno]
    /\ UNCHANGED db

-----------------------------------------------------------------------------
(* The path API.  A parent is whatever the path leads to. *)

Holds(i) == i # NoIno /\ (IntoFiles \/ IsDir(i))

PathMkdir(path) ==
    LET w == Resolve(cache, Parent(path))
    IN  /\ Holds(w.ino) /\ Creatable(w.ino, Last(path))
        /\ Run("mkdir", w.cache, MkdirScript(w.ino, Last(path)))

PathMknod(path) ==
    LET w == Resolve(cache, Parent(path))
    IN  /\ Holds(w.ino) /\ Creatable(w.ino, Last(path))
        /\ Run("mknod", w.cache, MknodScript(w.ino, Last(path)))

PathCreate(path) ==
    LET w == Resolve(cache, Parent(path))
    IN  /\ Holds(w.ino) /\ Creatable(w.ino, Last(path))
        /\ Run("create", w.cache, CreateScript(w.ino, Last(path)))

(* pwrite of a path that does not resolve creates the file, and leaves the *)
(* cache alone.                                                            *)
PathWrite(path) ==
    LET w == Resolve(cache, Parent(path))
    IN  /\ Holds(w.ino) /\ Resolve(cache, path).ino = NoIno
        /\ Fresh
        /\ Run("write", w.cache,
               <<<<NewInode("file", 1), SetEntry(w.ino, Last(path), NextIno(db))>>>>)

PathSymlink(path, t) ==
    LET w == Resolve(cache, Parent(path))
    IN  /\ Holds(w.ino) /\ Creatable(w.ino, Last(path))
        /\ Run("symlink", w.cache, SymlinkScript(w.ino, Last(path), t))

PathLink(old, new) ==
    LET i == Resolve(cache, old)
        w == Resolve(i.cache, Parent(new))
    IN  /\ i.ino # NoIno /\ Linkable(i.ino)
        /\ Holds(w.ino) /\ Free(w.ino, Last(new))
        /\ Run("link", w.cache, LinkScript(i.ino, w.ino, Last(new)))

(* The kind is what stat says, the inode what the path resolves to. *)
PathRemove(path) ==
    LET i == Resolve(cache, path)
        c == Stat(i.cache, path).cache
        p == Resolve(c, Parent(path)).ino
    IN  /\ i.ino # NoIno
        /\ Stated(i.cache, path) # NoIno
        /\ Children(i.ino) = {}
        /\ Run("remove", c, RemoveScript(p, Last(path), IsDir(Stated(i.cache, path))))

PathRename(from, to) ==
    LET i == Resolve(cache, from)
        s == Stated(i.cache, from)
        p == Resolve(Stat(i.cache, from).cache, Parent(from))
        q == Resolve(p.cache, Parent(to))
        j == Resolve(q.cache, to)
        t == Stated(j.cache, to)
    IN  /\ from # to \/ RenameOntoSelf
        /\ i.ino # NoIno /\ s # NoIno
        /\ IsDir(s) => ~IsPrefix(from, to)
        /\ Holds(q.ino)
        /\ j.ino # NoIno => /\ t # NoIno
                            /\ IsDir(s) <=> IsDir(t)
                            /\ IsDir(t) => Children(j.ino) = {}
        /\ Run("rename", Stat(j.cache, to).cache,
               RenameScript(p.ino, Last(from), q.ino, Last(to), IsDir(s)))

(* stat and lstat, open, readlink, reads and writes of what exists, and    *)
(* the operations that fail after they have resolved a path.               *)
PathStat(path) ==
    /\ \/ cache' = Resolve(cache, path).cache
       \/ cache' = Stat(cache, path).cache
    /\ UNCHANGED db

-----------------------------------------------------------------------------
(* Trait FileSystem: entries are looked up in the table. *)

Dir == {i \in Ino : IsDir(i)}

Lookup(p, n) ==
    /\ Exists(At(p, n))
    /\ cache' = [cache EXCEPT ![<<p, n>>] = At(p, n)]
    /\ UNCHANGED db

Mkdir(p, n) == Creatable(p, n) /\ Run("mkdir", cache, MkdirScript(p, n))
CreateFile(p, n) == Creatable(p, n) /\ Run("create", cache, CreateScript(p, n))
Mknod(p, n) == Creatable(p, n) /\ Run("mknod", cache, MknodScript(p, n))
Symlink(p, n, t) == Creatable(p, n) /\ Run("symlink", cache, SymlinkScript(p, n, t))
Unlink(p, n) == Unlinkable(p, n) /\ Run("remove", cache, UnlinkScript(p, n))
Rmdir(p, n) == Removable(p, n) /\ Run("remove", cache, RmdirScript(p, n))

Link(i, q, m) ==
    /\ Linkable(i) /\ Free(q, m)
    /\ Run("link", cache, LinkScript(i, q, m))

(* Directories from d to the root, d among them. *)
Lineage(d) ==
    {x \in Dir : \/ x = d
                 \/ \E n \in Name : At(x, n) = d
                 \/ \E n \in Name, y \in Dir : At(x, n) = y /\ \E m \in Name : At(y, m) = d}

Rename(p, n, q, m) ==
    /\ Exists(At(p, n)) /\ At(p, n) # At(q, m)
    /\ At(p, n) \notin Lineage(q)
    /\ Replaceable(At(p, n), At(q, m))
    /\ Run("rename", cache, RenameScript(p, n, q, m, IsDir(At(p, n))))

-----------------------------------------------------------------------------
Next ==
    \/ \E path \in Path : \/ PathMkdir(path) \/ PathMknod(path) \/ PathCreate(path)
                          \/ PathWrite(path) \/ PathRemove(path) \/ PathStat(path)
                          \/ \E t \in Name : PathSymlink(path, t)
                          \/ \E to \in Path : PathLink(path, to) \/ PathRename(path, to)
    \/ \E p \in Dir, n \in Name :
          \/ Lookup(p, n) \/ Mkdir(p, n) \/ CreateFile(p, n) \/ Mknod(p, n)
          \/ Unlink(p, n) \/ Rmdir(p, n)
          \/ \E t \in Name : Symlink(p, n, t)
          \/ \E i \in Ino : Link(i, p, n)
          \/ \E q \in Dir, m \in Name : Rename(p, n, q, m)
    \/ \E x \in Place : Evict(x)

Spec == Init /\ [][Next]_vars

-----------------------------------------------------------------------------
(* Whatever fails or ends in between, a cached entry is the one in the     *)
(* table, so a path leads where it would without the cache.                *)
CacheCoherent == \A x \in Place : cache[x] # NoIno => db.entry[x] = cache[x]

(* SPEC.md: "Every dentry MUST reference a valid inode."  unlink, remove   *)
(* and rename count links down and delete at zero; an operation cut short  *)
(* may leave too many links, never too few.                                *)
EntriesResolve == \A x \in Place : db.entry[x] # NoIno => Exists(db.entry[x])
=============================================================================
