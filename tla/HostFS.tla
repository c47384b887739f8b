-------------------------------- MODULE HostFS ------------------------------
(***************************************************************************)
(* HostFS, a directory of the host as a filesystem: what the overlay has   *)
(* as its base.  A cache maps inode numbers of its own to files of the     *)
(* host, found by the host's inode number, and counts the lookups it has   *)
(* answered.  On Linux an inode is an O_PATH descriptor, on macOS a path.  *)
(*                                                                         *)
(* One client makes one call after another; a call of several system calls *)
(* is several steps, and other processes of the host change the directory  *)
(* between them.  A file keeps its identity here for good.  Its host inode *)
(* number is free again when neither a name nor a descriptor is left, and  *)
(* on Linux the next file takes the lowest; macOS never gives a number     *)
(* out again.  A symbolic link is a file like another.  The FUSE mount may *)
(* be in the tree, and what is below it is not the host's.  Reading calls  *)
(* (getattr, readlink, open, chmod, ...) change nothing in the cache: what *)
(* counts is the file they reach.                                          *)
(***************************************************************************)
EXTENDS Naturals, FiniteSets, SequencesExt

CONSTANTS Name,
          MaxFile,     \* bound: files there ever are, with the root and a mountpoint
          MaxIno,      \* bound: inode numbers HostFS gives out
          MaxLookups,  \* bound: lookups counted for one inode
          MaxChanges,  \* bound: changes by other processes
          Races        \* do others change the directory during readdir_plus

ASSUME HostAssumption ==
    /\ IsFiniteSet(Name) /\ Name # {}
    /\ MaxFile \in Nat \ {0, 1} /\ MaxIno \in Nat \ {0} /\ MaxLookups \in Nat \ {0}
    /\ MaxChanges \in Nat
    /\ Races \in BOOLEAN

Root == 1
None == 0
File == 1..MaxFile
Ino == 1..MaxIno
Place == File \X Name

VARIABLES platform,     \* "linux" or "macos"
          mountpoint,   \* the number of the FUSE mountpoint in the tree, or None
          host,         \* the files: kind, number, and entry [Place -> file or None]
          inodes,       \* cached inodes: [at (file), path, src (number), nlookup]
          src_to_ino,   \* [number -> inode or None]
          next_ino,
          held,         \* [Ino -> lookups the client has not forgotten]
          given,        \* history: [Ino -> the files they were answers for]
          displaced,    \* history, macOS: inodes whose path lost an entry, by others or the client
          op,           \* the call under way
          changes       \* changes by other processes so far

vars == <<platform, mountpoint, host, inodes, src_to_ino, next_ino, held, given, displaced, op,
          changes>>
cache == <<inodes, src_to_ino, next_ino>>
client == <<held, given>>

Linux == platform = "linux"
Idle == [act |-> "none", dir |-> None, name |-> CHOOSE n \in Name : TRUE, todo |-> {}]

-----------------------------------------------------------------------------
(* The host's directory tree *)

IsMount(f) == f # None /\ mountpoint # None /\ host.number[f] = mountpoint
IsDir(d) == d # None /\ host.kind[d] = "dir" /\ ~IsMount(d)
Entry(d, n) == IF IsDir(d) THEN host.entry[<<d, n>>] ELSE None

(* A path leads on from the root by what each entry leads to.              *)
Entries == [x \in Place |-> Entry(x[1], x[2])]
Follow(entries, path) ==
    LET to[k \in 0..Len(path)] ==
            IF k = 0 THEN Root
            ELSE IF to[k - 1] = None THEN None ELSE entries[<<to[k - 1], path[k]>>]
    IN  to
Steps(path) == Follow(Entries, path)
Walk(path) == Steps(path)[Len(path)]

Named(f) == f = Root \/ \E x \in Place : host.entry[x] = f
Pinned(f) == Linux /\ \E i \in DOMAIN inodes : inodes[i].at = f
Fresh == {f \in File : host.kind[f] = "none"}
Empty(d) == \A n \in Name : Entry(d, n) = None
Vacant(d, n) == IsDir(d) /\ Named(d) /\ Entry(d, n) = None
Above(d) == LET Up(S) == S \cup {x[1] : x \in {y \in Place : host.entry[y] \in S}}
            IN  FoldLeft(LAMBDA S, k : Up(S), {d}, [k \in File |-> k])

NewNumber(f) ==
    IF ~Linux THEN f
    ELSE Min(File \ {host.number[g] : g \in {h \in File \ Fresh : Named(h) \/ Pinned(h)}})

Made(d, n, kind) ==
    LET f == Min(Fresh)
    IN  [kind   |-> [host.kind EXCEPT ![f] = kind],
         number |-> [host.number EXCEPT ![f] = NewNumber(f)],
         entry  |-> [host.entry EXCEPT ![<<d, n>>] = f]]
Removed(d, n) == [host EXCEPT !.entry[<<d, n>>] = None]
Renamed(d, n, e, m) == [host EXCEPT !.entry = [@ EXCEPT ![<<d, n>>] = None,
                                                        ![<<e, m>>] = host.entry[<<d, n>>]]]

Removable(d, n, dir) ==
    LET f == Entry(d, n)
    IN  f # None /\ ~IsMount(f) /\ (host.kind[f] = "dir") = dir /\ (dir => Empty(f))
Movable(d, n, e, m) ==
    LET f == Entry(d, n)
        g == Entry(e, m)
    IN  /\ f # None /\ f # g /\ ~IsMount(f)
        /\ IsDir(e) /\ Named(e) /\ f \notin Above(e)
        /\ g = None \/ Removable(e, m, host.kind[f] = "dir")

(* The inodes whose paths lead over an entry. *)
Over(x) == {i \in DOMAIN inodes :
              /\ ~Linux
              /\ LET path == inodes[i].path
                 IN  \E k \in 1..Len(path) : x = <<Steps(path)[k - 1], path[k]>>}

-----------------------------------------------------------------------------
(* The cache.  An answer is what it becomes, with the inode found.         *)

Path(p, n) == IF Linux THEN <<>> ELSE Append(inodes[p].path, n)

get_or_create_inode(f, path, src) ==
    LET i == src_to_ino[src]
    IN  IF i # None /\ i \in DOMAIN inodes
        THEN [ino |-> i, next |-> next_ino, src |-> src_to_ino,
              inodes |-> [inodes EXCEPT ![i].nlookup = @ + 1]]
        ELSE [ino |-> next_ino, next |-> next_ino + 1,
              src |-> [src_to_ino EXCEPT ![src] = next_ino],
              inodes |-> [k \in DOMAIN inodes \cup {next_ino} |->
                            IF k = next_ino
                            THEN [at |-> f, path |-> path, src |-> src, nlookup |-> 1]
                            ELSE inodes[k]]]

Cached(o) == inodes' = o.inodes /\ src_to_ino' = o.src /\ next_ino' = o.next

(* The client is told the inode o.ino, for the file f.                     *)
Answered(o, f) ==
    /\ Cached(o)
    /\ held' = [held EXCEPT ![o.ino] = @ + 1]
    /\ given' = [given EXCEPT ![o.ino] = @ \cup {f}]

(* What a call on an inode reaches: the file of its descriptor, or the one *)
(* its path leads to.                                                      *)
getattr(i) == IF i \notin DOMAIN inodes THEN None ELSE inodes[i].at
lstat_path(i) == IF i \notin DOMAIN inodes THEN None ELSE Walk(inodes[i].path)
open(i) == IF Linux THEN getattr(i) ELSE lstat_path(i)

Known(p) == p = Root \/ held[p] > 0
Hidden(p, f) == IsMount(f) \/ (mountpoint # None /\ inodes[p].src = mountpoint)

Found(p, n) ==
    LET f == Entry(open(p), n)
    IN  IF f = None \/ Hidden(p, f) THEN UNCHANGED <<cache, client>>
        ELSE Answered(get_or_create_inode(f, Path(p, n), host.number[f]), f)

(* Variant with a mistake: link counts a lookup its caller does not know.  *)
LinkCounted(i, d, n) == [inodes EXCEPT ![i].nlookup = @ + 1]

(* link answers with getattr, and counts nothing.                          *)
Linked(i, d, n) == inodes

-----------------------------------------------------------------------------
(* Calls of the client.  The bounds leave room for the answers.            *)

Begin ==
    /\ op = Idle
    /\ \A i \in DOMAIN inodes : inodes[i].nlookup < MaxLookups
    /\ next_ino + Cardinality(Name) <= MaxIno + 1

lookup(p, n) ==
    /\ Begin /\ Known(p)
    /\ Found(p, n)
    /\ UNCHANGED <<platform, mountpoint, host, displaced, op, changes>>

make(p, n, kind, act) ==
    /\ Begin /\ Known(p)
    /\ Vacant(open(p), n) /\ Fresh # {}
    /\ host' = Made(open(p), n, kind)
    /\ op' = [Idle EXCEPT !.act = act, !.dir = p, !.name = n]
    /\ UNCHANGED <<platform, mountpoint, cache, client, displaced, changes>>

mkdir(p, n) == make(p, n, "dir", "lookup")
mknod(p, n) == make(p, n, "file", "lookup")
symlink(p, n) == make(p, n, "file", "lookup")

(* O_CREAT opens what is there. *)
create_file(p, n) ==
    \/ make(p, n, "file", "create")
    \/ /\ Begin /\ Known(p)
       /\ LET f == Entry(open(p), n) IN f # None /\ host.kind[f] # "dir"
       /\ op' = [Idle EXCEPT !.act = "create", !.dir = p, !.name = n]
       /\ UNCHANGED <<platform, mountpoint, host, cache, client, displaced, changes>>

(* The lookup that ends mkdir, mknod and symlink. *)
LooksUp ==
    /\ op.act = "lookup"
    /\ Found(op.dir, op.name)
    /\ op' = Idle
    /\ UNCHANGED <<platform, mountpoint, host, displaced, changes>>

(* create_file opens or stats the name again. *)
CreateEnds ==
    /\ op.act = "create"
    /\ LET f == Entry(open(op.dir), op.name)
       IN  IF f = None THEN UNCHANGED <<cache, client>>
           ELSE Answered(get_or_create_inode(f, Path(op.dir, op.name), host.number[f]), f)
    /\ op' = Idle
    /\ UNCHANGED <<platform, mountpoint, host, displaced, changes>>

Removes(d, n) ==
    /\ host' = Removed(d, n)
    /\ displaced' = displaced \cup Over(<<d, n>>)

unlink(p, n) ==
    /\ op = Idle /\ Known(p)
    /\ Removable(open(p), n, FALSE)
    /\ Removes(open(p), n)
    /\ UNCHANGED <<platform, mountpoint, cache, client, op, changes>>

rmdir(p, n) ==
    /\ op = Idle /\ Known(p)
    /\ Removable(open(p), n, TRUE)
    /\ Removes(open(p), n)
    /\ UNCHANGED <<platform, mountpoint, cache, client, op, changes>>

link(i, p, n) ==
    /\ op = Idle /\ Known(i) /\ Known(p)
    /\ LET f == open(i)
       IN  /\ f # None /\ host.kind[f] # "dir" /\ Named(f)
           /\ Vacant(open(p), n)
           /\ host' = [host EXCEPT !.entry[<<open(p), n>>] = f]
    /\ inodes' = Linked(i, p, n)
    /\ UNCHANGED <<platform, mountpoint, src_to_ino, next_ino, client, displaced, op, changes>>

Moves(d, n, e, m) ==
    /\ Movable(d, n, e, m)
    /\ host' = Renamed(d, n, e, m)
    /\ displaced' = displaced \cup Over(<<d, n>>) \cup Over(<<e, m>>)

rename(p, n, q, m) ==
    /\ Begin /\ Known(p) /\ Known(q)
    /\ Moves(open(p), n, open(q), m)
    /\ op' = IF Linux THEN Idle ELSE [Idle EXCEPT !.act = "rename", !.dir = q, !.name = m]
    /\ UNCHANGED <<platform, mountpoint, cache, client, changes>>

(* Variant with a mistake: the path stays.                                 *)
RepathedNever(o, path) == o.inodes

Repathed(o, path) == [o.inodes EXCEPT ![o.ino].path = path]

(* On macOS rename looks the new name up, which counts as a lookup, and    *)
(* gives the inode its new path.                                           *)
RenameEnds ==
    /\ op.act = "rename"
    /\ LET f == Entry(open(op.dir), op.name)
           path == Path(op.dir, op.name)
           o == get_or_create_inode(f, path, host.number[f])
       IN  IF f = None \/ Hidden(op.dir, f) THEN UNCHANGED <<cache, displaced>>
           ELSE /\ Cached([o EXCEPT !.inodes = Repathed(o, path)])
                /\ displaced' = displaced \ {o.ino}
    /\ op' = Idle
    /\ UNCHANGED <<platform, mountpoint, host, client, changes>>

(* readdir_plus stats all entries, then opens them one by one. *)
readdir_plus(p) ==
    /\ Begin /\ Known(p)
    /\ LET d == open(p)
       IN  /\ IsDir(d)
           /\ op' = [Idle EXCEPT !.act = "list", !.dir = p,
                        !.todo = {x \in Name \X File :
                                    Entry(d, x[1]) = x[2] /\ ~IsMount(x[2])}]
    /\ UNCHANGED <<platform, mountpoint, host, cache, client, displaced, changes>>

ListEnds ==
    /\ op.act = "list" /\ op.todo = {}
    /\ op' = Idle
    /\ UNCHANGED <<platform, mountpoint, host, cache, client, displaced, changes>>

OpenEntry(x) ==
    LET f == Entry(open(op.dir), x[1])
    IN  IF f = None THEN UNCHANGED <<cache, client>>
        ELSE Answered(get_or_create_inode(f, <<>>, host.number[x[2]]), f)

(* On macOS nothing is opened. *)
PathEntry(x) ==
    Answered(get_or_create_inode(x[2], Path(op.dir, x[1]), host.number[x[2]]), x[2])

ListEntry(x) ==
    /\ op.act = "list" /\ x \in op.todo
    /\ IF Linux THEN OpenEntry(x) ELSE PathEntry(x)
    /\ op' = [op EXCEPT !.todo = @ \ {x}]
    /\ UNCHANGED <<platform, mountpoint, host, displaced, changes>>

forget(i, n) ==
    /\ op = Idle /\ i # Root /\ n \in 1..held[i]
    /\ IF i \in DOMAIN inodes /\ inodes[i].nlookup <= n
       THEN /\ inodes' = Restrict(inodes, DOMAIN inodes \ {i})
            /\ src_to_ino' = [src_to_ino EXCEPT ![inodes[i].src] = None]
       ELSE /\ inodes' = IF i \in DOMAIN inodes THEN [inodes EXCEPT ![i].nlookup = @ - n]
                         ELSE inodes
            /\ src_to_ino' = src_to_ino
    /\ held' = [held EXCEPT ![i] = @ - n]
    /\ given' = IF held[i] = n THEN [given EXCEPT ![i] = {}] ELSE given
    /\ UNCHANGED <<platform, mountpoint, host, next_ino, displaced, op, changes>>

-----------------------------------------------------------------------------
(* Other processes of the host *)

Undisturbed == changes < MaxChanges /\ (Races \/ op.act # "list")

HostMakes(d, n, kind) ==
    /\ Undisturbed /\ Fresh # {} /\ Vacant(d, n)
    /\ host' = Made(d, n, kind)
    /\ changes' = changes + 1
    /\ UNCHANGED <<platform, mountpoint, cache, client, displaced, op>>

HostRemoves(d, n) ==
    /\ Undisturbed
    /\ \E dir \in BOOLEAN : Removable(d, n, dir)
    /\ Removes(d, n)
    /\ changes' = changes + 1
    /\ UNCHANGED <<platform, mountpoint, cache, client, op>>

HostMoves(d, n, e, m) ==
    /\ Undisturbed
    /\ Moves(d, n, e, m)
    /\ changes' = changes + 1
    /\ UNCHANGED <<platform, mountpoint, cache, client, op>>

Init ==
    /\ platform \in {"linux", "macos"}
    /\ \E mount \in BOOLEAN :
          LET x == <<Root, CHOOSE n \in Name : TRUE>>
          IN  /\ mountpoint = IF mount THEN 2 ELSE None
              /\ host = [kind   |-> [f \in File |-> IF f = Root \/ (f = 2 /\ mount)
                                                    THEN "dir" ELSE "none"],
                         number |-> [f \in File |-> f],
                         entry  |-> [y \in Place |-> IF mount /\ y = x THEN 2 ELSE None]]
    /\ inodes = [i \in {Root} |-> [at |-> Root, path |-> <<>>, src |-> Root, nlookup |-> 1]]
    /\ src_to_ino = [s \in File |-> IF s = Root THEN Root ELSE None]
    /\ next_ino = 2
    /\ held = [i \in Ino |-> 0] /\ given = [i \in Ino |-> {}]
    /\ displaced = {} /\ op = Idle /\ changes = 0

Next ==
    \/ \E p \in Ino, n \in Name :
          \/ lookup(p, n) \/ mkdir(p, n) \/ mknod(p, n) \/ symlink(p, n) \/ create_file(p, n)
          \/ unlink(p, n) \/ rmdir(p, n)
          \/ \E i \in Ino : link(i, p, n)
          \/ \E q \in Ino, m \in Name : rename(p, n, q, m)
    \/ LooksUp \/ CreateEnds \/ RenameEnds
    \/ \E p \in Ino : readdir_plus(p)
    \/ \E x \in op.todo : ListEntry(x)
    \/ ListEnds
    \/ \E i \in Ino, n \in 1..MaxLookups : forget(i, n)
    \/ \E d \in File, n \in Name :
          \/ \E kind \in {"dir", "file"} : HostMakes(d, n, kind)
          \/ HostRemoves(d, n)
          \/ \E e \in File, m \in Name : HostMoves(d, n, e, m)

Spec == Init /\ [][Next]_vars

-----------------------------------------------------------------------------
(* "this should decrement a reference count and close the fd when it       *)
(* reaches zero": every inode the client holds is cached, with its lookups *)
(* counted, and on Linux one it has forgotten has given its descriptor     *)
(* back.  The counting lookup of a rename on macOS is never given back.    *)
CountsMatch ==
    \A i \in Ino \ {Root} :
        /\ held[i] > 0 => i \in DOMAIN inodes /\ inodes[i].nlookup >= held[i]
        /\ Linux /\ i \in DOMAIN inodes => inodes[i].nlookup = held[i]

(* The inode numbers of the host are reused, names are removed, linked and *)
(* moved, by the client or others: an inode still reaches the file it was  *)
(* answered for, and two of them never the same.  On macOS this holds for  *)
(* inodes whose path is whole: no entry on it was removed or moved, except *)
(* by a rename that gave the inode its new path.                           *)
ServesTheFile ==
    LET Sure == {i \in Ino \ displaced : held[i] > 0}
    IN  /\ \A i \in Sure : given[i] = {open(i)}
        /\ \A i, j \in Sure : open(i) = open(j) => i = j
=============================================================================
