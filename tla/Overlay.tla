------------------------------ MODULE Overlay -------------------------------
(***************************************************************************)
(* OverlayFS: a read-only host directory (HostFS, the base) under an       *)
(* AgentFS database (the delta), mounted through a session that runs one   *)
(* operation at a time.  Operations thread one record `w` through the      *)
(* helpers, as the code does through its maps and tables; `w.got` is what  *)
(* a helper returned, 0 for None or an error.                              *)
(*                                                                         *)
(* A host file is its path in the base, and HostFS numbers it when it is   *)
(* first looked up after a mount: `host` is the list of numbered files.    *)
(* A file's data is the base file it was copied from, Empty or New; mknod  *)
(* and symlink are create; hard links and forgotten inodes are left out.   *)
(***************************************************************************)
EXTENDS Integers, Sequences, SequencesExt, TLC

CONSTANTS Name,          \* names of entries; paths have at most two
          BaseDir,       \* directories of the base, the root among them
          BaseFile,      \* files of the base
          Workloads,     \* [ops, cuts]: the operations of a mount, and those
                         \* that the end of the process may cut short
          MaxOps         \* bound: operations that change something

Path == UNION {[1..k -> Name] : k \in 0..2}
Top == <<>>

ASSUME BaseAssumption ==
    /\ BaseDir \cup BaseFile \subseteq Path /\ BaseDir \cap BaseFile = {}
    /\ Top \in BaseDir /\ \A x \in BaseDir \cup BaseFile : x = Top \/ Front(x) \in BaseDir

VARIABLES ov,      \* the overlay: its tables and maps
          known,   \* the kernel's entries: path -> overlay inode, 0 when absent
          work,    \* the workload of this mount
          done,    \* history: operations so far
          tree     \* history: what the directory tree should be

vars == <<ov, known, work, done, tree>>

NoIno == 0
Root == 1
Dir == <<"dir">>
None == <<"none">>
Empty == <<"empty">>
New == <<"new">>

(* Tables: the delta's entries and inodes, fs_whiteout, fs_origin.  Maps:  *)
(* the numbers of HostFS, inode_map, reverse_map and path_map.  trail has  *)
(* the tables between two statements of the operation.                     *)
Fresh(delta, white, origin) ==
    [delta |-> delta, white |-> white, origin |-> origin,
     host |-> <<Top>>,
     info |-> <<[layer |-> "delta", under |-> Root, path |-> Top]>>,
     rev |-> (<<"delta", Root>> :> Root), paths |-> (Top :> Root),
     got |-> NoIno, ok |-> TRUE, trail |-> {}]

DeltaIno == 1..2 + 3 * MaxOps

Blank == [entry |-> [x \in DeltaIno \X Name |-> NoIno],
          is |-> [i \in DeltaIno |-> IF i = Root THEN Dir ELSE None],
          last |-> Root]

Base(x) == IF x \in BaseDir THEN Dir ELSE IF x \in BaseFile THEN x ELSE None

-----------------------------------------------------------------------------
(* Statements *)

Statement(w, d, wh, o) ==
    [w EXCEPT !.delta = d, !.white = wh, !.origin = o,
              !.trail = @ \cup {<<d, wh, o>>}]

OnDelta(w, d) == Statement(w, d, w.white, w.origin)

Failed(w) == [w EXCEPT !.ok = FALSE]

(* What goes on with a result, and what goes on unless it is an error.     *)
With(w, Do(_)) == Do(w)
Then(w, Do(_)) == IF w.ok THEN Do(w) ELSE w

DeltaMake(w, p, n, data) ==
    LET i == w.delta.last + 1
    IN  IF p = NoIno \/ w.delta.entry[<<p, n>>] # NoIno THEN [w EXCEPT !.ok = FALSE]
        ELSE [OnDelta(w, [w.delta EXCEPT !.last = i, !.entry[<<p, n>>] = i, !.is[i] = data])
              EXCEPT !.got = i]

DeltaWrite(w, i, data) == OnDelta(w, [w.delta EXCEPT !.is[i] = data])

DeltaChildren(w, i) == {n \in Name : w.delta.entry[<<i, n>>] # NoIno}

(* NotFound is no error of the callers'; a directory must be empty.  *)
DeltaDrop(w, p, n) ==
    IF p = NoIno \/ w.delta.entry[<<p, n>>] = NoIno THEN w
    ELSE IF DeltaChildren(w, w.delta.entry[<<p, n>>]) # {} THEN [w EXCEPT !.ok = FALSE]
    ELSE OnDelta(w, [w.delta EXCEPT !.is[w.delta.entry[<<p, n>>]] = None,
                                    !.entry[<<p, n>>] = NoIno])

create_whiteout(w, path) == Statement(w, w.delta, w.white \cup {path}, w.origin)
remove_whiteout(w, path) ==
    IF path \in w.white THEN Statement(w, w.delta, w.white \ {path}, w.origin) ELSE w

add_origin_mapping(w, i, b) == Statement(w, w.delta, w.white, (i :> b) @@ w.origin)

(* The path or an ancestor has been deleted. *)
is_whiteout(w, path) == \E x \in w.white : IsPrefix(x, path)

-----------------------------------------------------------------------------
(* HostFS: get_or_create_inode numbers a file once. *)

Numbered(w, x) ==
    IF \E h \in DOMAIN w.host : w.host[h] = x
    THEN [w EXCEPT !.got = CHOOSE h \in DOMAIN w.host : w.host[h] = x]
    ELSE [w EXCEPT !.host = Append(@, x), !.got = Len(w.host) + 1]

BaseLookup(w, h, n) ==
    IF h \in DOMAIN w.host /\ Base(Append(w.host[h], n)) # None
    THEN Numbered(w, Append(w.host[h], n)) ELSE [w EXCEPT !.got = NoIno]

(* Down from the root, as far as the path leads. *)
BaseWalk(w, path) ==
    FoldLeft(LAMBDA v, n : IF v.got = NoIno THEN v ELSE BaseLookup(v, v.got, n),
             [w EXCEPT !.got = Root], path)

DeltaWalk(w, path) ==
    FoldLeft(LAMBDA i, n : IF i = NoIno THEN i ELSE w.delta.entry[<<i, n>>], Root, path)

-----------------------------------------------------------------------------
(* Inode maps *)

get_or_create_overlay_ino(w, layer, under, path) ==
    LET i == Len(w.info) + 1
    IN  IF <<layer, under>> \in DOMAIN w.rev
        THEN [w EXCEPT !.got = w.rev[<<layer, under>>]]
        ELSE [w EXCEPT !.info = Append(@, [layer |-> layer, under |-> under, path |-> path]),
                       !.rev = (<<layer, under>> :> i) @@ @,
                       !.paths = (path :> i) @@ @,
                       !.got = i]

Without(f, x) == [y \in DOMAIN f \ {x} |-> f[y]]

refresh_overlay_mapping(w, i, under, path) ==
    LET old == w.info[i].path
        rest == IF old \in DOMAIN w.paths /\ w.paths[old] = i THEN Without(w.paths, old)
                ELSE w.paths
    IN  [w EXCEPT !.info[i] = [layer |-> "delta", under |-> under, path |-> path],
                  !.rev = (<<"delta", under>> :> i) @@ @,
                  !.paths = (path :> i) @@ rest,
                  !.got = i]

(* Variant: the inode stays with the base. *)
PromoteNothing(w, path, under) == w

promote_to_delta(w, path, under) ==
    IF path \notin DOMAIN w.paths \/ w.info[w.paths[path]].layer # "base" THEN w
    ELSE LET i == w.paths[path]
         IN  [w EXCEPT !.info[i].layer = "delta", !.info[i].under = under,
                       !.rev = (<<"delta", under>> :> i)
                               @@ Without(@, <<"base", w.info[i].under>>)]

(* The directory of an overlay inode in either layer, 0 when it has none; *)
(* the delta's for what the inode was when the operation began.           *)
resolve_delta_parent(w, x) ==
    IF x.layer = "delta" THEN x.under
    ELSE LET d == DeltaWalk(w, x.path)
         IN  IF d # NoIno /\ w.delta.is[d] = Dir THEN d ELSE NoIno

BaseOf(w, i) ==
    IF w.info[i].layer = "base" THEN [w EXCEPT !.got = w.info[i].under]
    ELSE BaseWalk(w, w.info[i].path)

build_path(w, p, n) == Append(w.info[p].path, n)

-----------------------------------------------------------------------------
(* lookup, getattr and the two forms of readdir *)

DeltaChild(w, d, n) == IF d = NoIno THEN NoIno ELSE w.delta.entry[<<d, n>>]

(* An entry of the delta, which takes the inode of the base's that it was  *)
(* copied from, if that has one.                                           *)
LookupDelta(w, d, path) ==
    LET Origin(v) == <<"base", v.origin[d]>>
        Kept(v) == IF d \in DOMAIN v.origin /\ Origin(v) \in DOMAIN v.rev
                   THEN refresh_overlay_mapping(v, v.rev[Origin(v)], d, path) ELSE v
    IN  Kept(get_or_create_overlay_ino(w, "delta", d, path))

LookupBase(w, n, path) ==
    With(BaseLookup(w, w.got, n),
         LAMBDA v : IF v.got = NoIno THEN v
                    ELSE get_or_create_overlay_ino(v, "base", v.got, path))

lookup(w, p, n) ==
    LET path == build_path(w, p, n)
        In(d) == IF d = NoIno THEN LookupBase(BaseOf(w, p), n, path) ELSE LookupDelta(w, d, path)
    IN  IF is_whiteout(w, path) THEN [w EXCEPT !.got = NoIno]
        ELSE In(DeltaChild(w, resolve_delta_parent(w, w.info[p]), n))

(* What an overlay inode is. *)
getattr(w, i) ==
    LET x == w.info[i]
    IN  CASE is_whiteout(w, x.path) -> None
          [] ~is_whiteout(w, x.path) /\ x.layer = "delta" -> w.delta.is[x.under]
          [] ~is_whiteout(w, x.path) /\ x.layer = "base" ->
                IF x.under \in DOMAIN w.host THEN Base(w.host[x.under]) ELSE None

BaseNames(w, h) ==
    IF h \in DOMAIN w.host THEN {n \in Name : Base(Append(w.host[h], n)) # None} ELSE {}

readdir(w, i) ==
    LET Upper == IF w.info[i].layer = "delta" THEN DeltaChildren(w, w.info[i].under) ELSE {}
        Visible(names) == {n \in names : ~is_whiteout(w, build_path(w, i, n))}
    IN  With(BaseOf(w, i),
             LAMBDA low : [low EXCEPT !.got = Visible(BaseNames(low, low.got) \cup Upper)])

Names == SetToSeq(Name)

(* readdir_plus numbers every entry, hidden ones too in HostFS; it gives   *)
(* what it lists in `listed`, name -> inode.                               *)
ListBase(w, i) ==
    LET Listed(v, n) == [v EXCEPT !.listed = (n :> v.got) @@ @]
        Number(v, n) == Listed(get_or_create_overlay_ino(v, "base", v.got, build_path(v, i, n)), n)
        Visit(v, n) == IF is_whiteout(v, build_path(v, i, n)) THEN v ELSE Number(v, n)
        In(low) == FoldLeft(LAMBDA v, n : Visit(BaseLookup(v, low.got, n), n),
                            low @@ [listed |-> <<>>],
                            SelectSeq(Names, LAMBDA n : n \in BaseNames(low, low.got)))
    IN  In(BaseOf(w, i))

readdir_plus(w, i) ==
    LET Number(v, d, path) ==
            IF d \in DOMAIN v.origin
            THEN get_or_create_overlay_ino(v, "base", v.origin[d], path)
            ELSE get_or_create_overlay_ino(v, "delta", d, path)
        Listed(v, n) == [v EXCEPT !.listed = (n :> v.got) @@ @]
        Visit(v, d, n) == IF d = NoIno \/ is_whiteout(v, build_path(v, i, n)) THEN v
                          ELSE Listed(Number(v, d, build_path(v, i, n)), n)
        Add(v, n) == Visit(v, v.delta.entry[<<w.info[i].under, n>>], n)
    IN  IF w.info[i].layer = "base" THEN ListBase(w, i)
        ELSE FoldLeft(Add, ListBase(w, i), Names)

-----------------------------------------------------------------------------
(* Copying up *)

(* Each directory above the path, in step with the base when it has it. *)
EnsureDir(w, cur) ==
    LET d == w.delta.entry[<<w.dir, Last(cur)>>]
        Into(v, i, h) == [v EXCEPT !.dir = i, !.base = IF h # NoIno THEN h ELSE @]
        Adopt(v, h) == Into(IF h = NoIno THEN v
                            ELSE promote_to_delta(add_origin_mapping(v, v.got, h), cur, v.got),
                            v.got, h)
    IN  IF d # NoIno /\ w.delta.is[d] # Dir THEN Failed(w)
        ELSE With(BaseLookup(w, w.base, Last(cur)),
                  LAMBDA v : IF d # NoIno THEN Into(v, d, v.got)
                             ELSE Adopt(DeltaMake(v, v.dir, Last(cur), Dir), v.got))

ensure_parent_dirs(w, path) ==
    LET Ensured == FoldLeft(LAMBDA v, cur : Then(v, LAMBDA u : EnsureDir(remove_whiteout(u, cur), cur)),
                            w @@ [dir |-> Root, base |-> Root],
                            [k \in 1..Len(path) - 1 |-> SubSeq(path, 1, k)])
    IN  With(Ensured, LAMBDA v : [x \in DOMAIN w |-> v[x]])

(* A directory is made, a file made and then written.                      *)
Copied(w, p, n, src) ==
    IF src \in BaseDir THEN DeltaMake(w, p, n, Dir)
    ELSE Then(DeltaMake(w, p, n, Empty), LAMBDA v : DeltaWrite(v, v.got, src))

copy_up(w, path, h) ==
    IF DeltaWalk(w, path) # NoIno THEN [w EXCEPT !.got = DeltaWalk(w, path)]
    ELSE IF h \notin DOMAIN w.host THEN Failed(w)
    ELSE Then(Then(ensure_parent_dirs(w, path),
                   LAMBDA e : Copied(e, DeltaWalk(e, Front(path)), Last(path), w.host[h])),
              LAMBDA v : add_origin_mapping(v, v.got, h))

(* Variant: the copy is made and the inode still reads the base. *)
CopyUpUnmapped(w, i) ==
    IF w.info[i].layer = "delta" THEN [w EXCEPT !.got = w.info[i].under]
    ELSE copy_up(w, w.info[i].path, w.info[i].under)

copy_up_and_update_mapping(w, i) ==
    LET x == w.info[i]
    IN  IF x.layer = "delta" THEN [w EXCEPT !.got = x.under]
        ELSE Then(copy_up(w, x.path, x.under), LAMBDA c :
                  [c EXCEPT !.info[i] = [x EXCEPT !.layer = "delta", !.under = c.got],
                            !.rev = (<<"delta", c.got>> :> i) @@ @])

-----------------------------------------------------------------------------
(* Operations that change the tables; p is the parent, x the path the      *)
(* kernel means, which the overlay takes from its maps.                    *)

(* What the directory p of the kernel is in the delta, now.                *)
InDelta(w, v, p) == resolve_delta_parent(v, w.info[p])

make(w, p, n, data) ==
    LET path == build_path(w, p, n)
    IN  Then(ensure_parent_dirs(remove_whiteout(w, path), path), LAMBDA e :
             Then(DeltaMake(e, InDelta(w, e, p), n, data), LAMBDA m :
                  get_or_create_overlay_ino(m, "delta", m.got, path)))

mkdir(w, p, n) ==
    With(lookup(w, p, n),
         LAMBDA l : IF l.got # NoIno THEN Failed(l) ELSE make(l, p, n, Dir))

create_file(w, p, n) == make(w, p, n, Empty)

(* Variant: only the delta's entry is removed. *)
WhitedNever(w, p, n) == lookup(w, p, n)

(* What is still visible once it has left the delta is the base's. *)
Whited(w, p, n) ==
    With(lookup(w, p, n),
         LAMBDA s : IF s.got = NoIno THEN s ELSE create_whiteout(s, build_path(s, p, n)))

Removed(w, v, p, n) ==
    Then(DeltaDrop(v, InDelta(w, v, p), n), LAMBDA d : Whited(d, p, n))

unlink(w, p, n) ==
    With(lookup(w, p, n), LAMBDA l :
         IF l.got = NoIno \/ getattr(l, l.got) = Dir THEN Failed(l) ELSE Removed(w, l, p, n))

rmdir(w, p, n) ==
    With(lookup(w, p, n), LAMBDA l :
         IF l.got = NoIno \/ getattr(l, l.got) # Dir THEN Failed(l)
         ELSE With(readdir(l, l.got), LAMBDA r :
                   IF r.got # {} THEN Failed(r) ELSE Removed(w, r, p, n)))

DeltaMove(w, p, n, q, m) ==
    LET i == w.delta.entry[<<p, n>>]
        j == w.delta.entry[<<q, m>>]
        Moved(d) == OnDelta(d, [d.delta EXCEPT !.entry[<<p, n>>] = NoIno, !.entry[<<q, m>>] = i])
    IN  IF p = NoIno \/ q = NoIno \/ i = NoIno THEN Failed(w)
        ELSE IF j # NoIno /\ (w.delta.is[i] = Dir) # (w.delta.is[j] = Dir) THEN Failed(w)
        ELSE Then(DeltaDrop(w, q, m), Moved)

rename(w, p, n, q, m) ==
    LET from == build_path(w, p, n)
        to == build_path(w, q, m)
        Up(l, src) == IF src.layer = "base" THEN copy_up(l, from, src.under) ELSE l
        Ready(c) == ensure_parent_dirs(remove_whiteout(c, to), to)
        Move(e) == DeltaMove(e, InDelta(w, e, p), n, InDelta(w, e, q), m)
    IN  With(lookup(w, p, n), LAMBDA l :
             IF l.got = NoIno THEN Failed(l)
             ELSE Then(Then(Then(Up(l, l.info[l.got]), Ready), Move),
                       LAMBDA v : Whited(v, p, n)))

(* open copies up whatever the flags; chmod, chown and utimens do too.     *)
open(w, i) ==
    IF is_whiteout(w, w.info[i].path) THEN Failed(w) ELSE copy_up_and_update_mapping(w, i)

-----------------------------------------------------------------------------
(* The kernel (external), which resolves paths through what it was told,   *)
(* looks an entry up before it makes one, and drops what was removed or    *)
(* moved: rename and the removals are followed by invalidations.           *)

Settled(w) == [x \in DOMAIN ov |-> CASE x = "got" -> NoIno [] x = "ok" -> TRUE
                                     [] x = "trail" -> {} [] OTHER -> w[x]]

Unknown == [x \in Path |-> IF x = Top THEN Root ELSE NoIno]
Below(x) == {y \in Path : IsPrefix(x, y)}
Drop(xs) == [y \in Path |-> IF \E x \in xs : IsPrefix(x, y) THEN NoIno ELSE known[y]]

Init ==
    /\ ov = Fresh(Blank, {}, <<>>)
    /\ known = Unknown
    /\ work \in Workloads
    /\ done = 0
    /\ tree = [x \in Path |-> Base(x)]

Reached(x) == x # Top /\ known[Front(x)] # NoIno /\ tree[Front(x)] = Dir
IsFile(x) == tree[x] \notin {Dir, None}

Lookup(x) ==
    LET w == lookup(ov, known[Front(x)], Last(x))
    IN  /\ Reached(x)
        /\ ov' = Settled(w)
        /\ known' = [known EXCEPT ![x] = w.got]
        /\ UNCHANGED <<work, done, tree>>

ReaddirPlus(x) ==
    LET w == readdir_plus(ov, known[x])
        At(y) == y # Top /\ Front(y) = x /\ Last(y) \in DOMAIN w.listed
    IN  /\ "readdirplus" \in work.ops
        /\ known[x] # NoIno /\ tree[x] = Dir
        /\ ov' = Settled(w)
        /\ known' = [y \in Path |-> IF At(y) THEN w.listed[Last(y)] ELSE known[y]]
        /\ UNCHANGED <<work, done, tree>>

Expire(x) ==
    /\ x # Top /\ known[x] # NoIno
    /\ known' = Drop({x})
    /\ UNCHANGED <<ov, work, done, tree>>

(* The tree as a walk from the root finds it. *)
Find(w, path) ==
    FoldLeft(LAMBDA v, n : IF v.got = NoIno THEN v ELSE lookup(v, v.got, n),
             [w EXCEPT !.got = Root], path)

Seen(w, path) == With(Find(w, path),
                      LAMBDA v : IF v.got = NoIno THEN None ELSE getattr(v, v.got))

View(w) == [x \in Path |-> Seen(w, x)]

(* An operation, whole or cut short by the end of the process: then the    *)
(* next mount loads the tables as they were between two statements, and    *)
(* the tree is the one before or the one after.                            *)
Operate(op, w, after, entries) ==
    /\ op \in work.ops /\ done < MaxOps
    /\ done' = done + 1
    /\ UNCHANGED work
    /\ \/ /\ ov' = Settled(w)
          /\ known' = IF w.ok THEN entries ELSE known
          /\ tree' = IF w.ok THEN after ELSE tree
       \/ /\ op \in work.cuts
          /\ \E t \in w.trail : ov' = Fresh(t[1], t[2], t[3])
          /\ known' = Unknown
          /\ tree' = IF View(ov') = after THEN after ELSE tree

Mkdir(x) ==
    LET w == mkdir(ov, known[Front(x)], Last(x))
    IN  /\ Reached(x) /\ tree[x] = None
        /\ Operate("mkdir", w, [tree EXCEPT ![x] = Dir], [known EXCEPT ![x] = w.got])

Create(x) ==
    LET w == create_file(lookup(ov, known[Front(x)], Last(x)), known[Front(x)], Last(x))
    IN  /\ Reached(x) /\ tree[x] = None
        /\ Operate("create", w, [tree EXCEPT ![x] = Empty], [known EXCEPT ![x] = w.got])

Unlink(x) ==
    /\ Reached(x) /\ IsFile(x)
    /\ Operate("unlink", unlink(ov, known[Front(x)], Last(x)),
               [tree EXCEPT ![x] = None], Drop({x}))

ChildrenOf(x) == {y \in Path \ {Top} : Front(y) = x /\ tree[y] # None}

Rmdir(x) ==
    /\ Reached(x) /\ tree[x] = Dir
    /\ Operate("rmdir", rmdir(ov, known[Front(x)], Last(x)),
               [tree EXCEPT ![x] = IF ChildrenOf(x) = {} THEN None ELSE Dir], Drop({x}))

(* Where the tree had from, it has to; a non-empty directory stays.        *)
Moved(from, to) ==
    LET Under(y, x) == y \in Below(x)
        Source(y) == from \o SubSeq(y, Len(to) + 1, Len(y))
    IN  IF ChildrenOf(to) # {} THEN tree
        ELSE [y \in Path |-> IF Under(y, to)
                             THEN IF Source(y) \in Path THEN tree[Source(y)] ELSE None
                             ELSE IF Under(y, from) THEN None ELSE tree[y]]

Fits(from, to) == \A y \in Below(from) : tree[y] # None => Len(to) + Len(y) - Len(from) <= 2

Rename(op, x, y) ==
    /\ Reached(x) /\ Reached(y) /\ tree[x] # None
    /\ op = IF tree[x] = Dir THEN "rename_dir" ELSE "rename"
    /\ ~IsPrefix(x, y) /\ ~IsPrefix(y, x) /\ Fits(x, y)
    /\ tree[y] # None => (tree[x] = Dir) = (tree[y] = Dir)
    /\ Operate(op, rename(ov, known[Front(x)], Last(x), known[Front(y)], Last(y)),
               Moved(x, y), Drop({x, y}))

(* A process opens a file, and may write to it. *)
Open(x) ==
    LET w == open(ov, known[x])
    IN  /\ known[x] # NoIno /\ IsFile(x)
        /\ \/ Operate("open", w, tree, known)
           \/ Operate("open", IF w.ok THEN DeltaWrite(w, w.got, New) ELSE w,
                      [tree EXCEPT ![x] = New], known)

(* OverlayFS::load. *)
Remount ==
    /\ "remount" \in work.ops /\ done < MaxOps
    /\ done' = done + 1
    /\ ov' = Fresh(ov.delta, ov.white, ov.origin)
    /\ known' = Unknown
    /\ UNCHANGED <<work, tree>>

Next ==
    \/ \E x \in Path : \/ Lookup(x) \/ ReaddirPlus(x) \/ Expire(x)
                       \/ Mkdir(x) \/ Create(x) \/ Unlink(x) \/ Rmdir(x) \/ Open(x)
                       \/ \E y \in Path, op \in {"rename", "rename_dir"} : Rename(op, x, y)
    \/ Remount

Spec == Init /\ [][Next]_vars

-----------------------------------------------------------------------------
(* What a walk from the root finds is the tree: deleted names stay         *)
(* deleted, made ones are there once, and every file has its data.         *)
ViewIsTree == View(ov) = tree

(* An inode the kernel was told of is what its path leads to.              *)
KnownRight == \A x \in Path \ {Top} : known[x] # NoIno => getattr(ov, known[x]) = tree[x]

(* A directory lists what a lookup finds in it.                            *)
ListsAll ==
    \A x \in Path : known[x] # NoIno /\ tree[x] = Dir =>
        readdir(ov, known[x]).got = {Last(y) : y \in ChildrenOf(x)}
=============================================================================
