---------------------------- MODULE AgentTables -----------------------------
(***************************************************************************)
(* The namespace tables of a local AgentFS database, and the operations of *)
(* trait FileSystem as the SQL statements they execute.  An operation is a *)
(* script: a sequence of steps, each a sequence of statements that the     *)
(* database commits together.  Only create_file and rename open a          *)
(* transaction; in the others every statement commits by itself, so a      *)
(* process that ends in between leaves a prefix of the script behind.      *)
(* Remember and Forget touch the dentry cache of the process and no table; *)
(* nothing is awaited between them and the statement before them.          *)
(*                                                                         *)
(* `db` holds fs_inode (kind, nlink), fs_dentry (entry), fs_symlink        *)
(* (target) and the AUTOINCREMENT sequence (last).  A symbolic link leads  *)
(* to a name in the root directory; sockets and devices are files.         *)
(***************************************************************************)
EXTENDS Integers, FiniteSets, Sequences, SequencesExt

CONSTANTS MaxIno,     \* bound: inode numbers ever allocated
          MaxLinks,   \* bound: links a file is given
          Name        \* names of entries

ASSUME TablesAssumption ==
    MaxIno \in Nat \ {0} /\ MaxLinks \in Nat /\ IsFiniteSet(Name)

Root == 1
Ino == 1..MaxIno
NoIno == 0
Place == Ino \X Name

VARIABLE db

Exists(i) == i # NoIno /\ db.kind[i] # "none"
IsDir(i) == i # NoIno /\ db.kind[i] = "dir"
At(p, n) == db.entry[<<p, n>>]
Names(i) == {x \in Place : db.entry[x] = i}
Children(d) == {x \in Place : x[1] = d /\ db.entry[x] # NoIno}

(* initialize_schema: the root directory has two links. *)
DbInit ==
    db = [kind   |-> [i \in Ino |-> IF i = Root THEN "dir" ELSE "none"],
          nlink  |-> [i \in Ino |-> IF i = Root THEN 2 ELSE 0],
          entry  |-> [x \in Place |-> NoIno],
          target |-> [i \in Ino |-> "none"],
          last   |-> Root]

-----------------------------------------------------------------------------
(* Statements *)

NewInode(type, links) == [sql |-> "inode", type |-> type, links |-> links]
SetTarget(n) == [sql |-> "target", name |-> n]
SetEntry(p, n, i) == [sql |-> "entry", at |-> <<p, n>>, ino |-> i]
DropEntry(p, n) == SetEntry(p, n, NoIno)
MoveEntry(p, n, q, m) == [sql |-> "move", from |-> <<p, n>>, to |-> <<q, m>>]
AddLinks(i, k) == [sql |-> "links", ino |-> i, by |-> k]
SetLinks(i, k) == [sql |-> "count", ino |-> i, to |-> k]
Reap(i) == [sql |-> "reap", ino |-> i]
Remember(p, n, i) == [sql |-> "cache", at |-> <<p, n>>, ino |-> i]
Forget(p, n) == Remember(p, n, NoIno)

(* The inode the next INSERT allocates. *)
NextIno(d) == d.last + 1

(* An UPDATE of a missing row changes nothing; Reap is get_link_count and  *)
(* the deletes that follow when it is zero.                                *)
Execute(d, s) ==
    CASE s.sql = "inode"  -> [d EXCEPT !.last = NextIno(d),
                                       !.kind[NextIno(d)] = s.type,
                                       !.nlink[NextIno(d)] = s.links]
      [] s.sql = "target" -> [d EXCEPT !.target[d.last] = s.name]
      [] s.sql = "entry"  -> [d EXCEPT !.entry[s.at] = s.ino]
      [] s.sql = "move"   -> IF d.entry[s.from] = NoIno THEN d
                             ELSE [d EXCEPT !.entry[s.to] = d.entry[s.from],
                                            !.entry[s.from] = NoIno]
      [] s.sql = "links"  -> IF d.kind[s.ino] = "none" THEN d
                             ELSE [d EXCEPT !.nlink[s.ino] = @ + s.by]
      [] s.sql = "count"  -> [d EXCEPT !.nlink[s.ino] = s.to]
      [] s.sql = "reap"   -> IF d.nlink[s.ino] # 0 THEN d
                             ELSE [d EXCEPT !.kind[s.ino] = "none",
                                            !.target[s.ino] = "none"]
      [] s.sql = "cache"  -> d

Executed(d, step) ==
    LET after[k \in 0..Len(step)] == IF k = 0 THEN d ELSE Execute(after[k - 1], step[k])
    IN  after[Len(step)]

Committed(d, script) ==
    LET after[k \in 0..Len(script)] == IF k = 0 THEN d ELSE Executed(after[k - 1], script[k])
    IN  after[Len(script)]

-----------------------------------------------------------------------------
(* Operations of trait FileSystem *)

Fresh == db.last < MaxIno

MkdirScript(p, n) ==
    LET i == NextIno(db)
    IN  <<<<NewInode("dir", 0)>>, <<SetEntry(p, n, i)>>, <<SetLinks(i, 2)>>,
          <<AddLinks(p, 1), Remember(p, n, i)>>>>

MknodScript(p, n) ==
    LET i == NextIno(db)
    IN  <<<<NewInode("file", 0)>>, <<SetEntry(p, n, i)>>,
          <<AddLinks(i, 1), Remember(p, n, i)>>>>

SymlinkScript(p, n, t) ==
    LET i == NextIno(db)
    IN  <<<<NewInode("link", 0)>>, <<SetTarget(t)>>, <<SetEntry(p, n, i)>>,
          <<AddLinks(i, 1), Remember(p, n, i)>>>>

CreateScript(p, n) ==
    LET i == NextIno(db)
    IN  <<<<NewInode("file", 1), SetEntry(p, n, i), Remember(p, n, i)>>>>

(* Variant of UnlinkScript with a mistake: the inode goes with any name.   *)
UnlinkLastScript(p, n) ==
    LET i == At(p, n)
    IN  <<<<DropEntry(p, n), Forget(p, n)>>, <<SetLinks(i, 0)>>, <<Reap(i)>>>>

UnlinkScript(p, n) ==
    LET i == At(p, n)
    IN  <<<<DropEntry(p, n), Forget(p, n)>>, <<AddLinks(i, -1)>>, <<Reap(i)>>>>

(* asDir: what the stat before it said. *)
RemoveScript(p, n, asDir) ==
    LET i == At(p, n)
    IN  <<<<DropEntry(p, n), Forget(p, n)>>, <<AddLinks(i, -1)>>>>
        \o (IF asDir THEN <<<<AddLinks(p, -1)>>>> ELSE <<>>)
        \o <<<<Reap(i)>>>>

RmdirScript(p, n) == RemoveScript(p, n, TRUE)

LinkScript(i, q, m) == <<<<SetEntry(q, m, i)>>, <<AddLinks(i, 1), Remember(q, m, i)>>>>

(* Variant of RenameScript with a mistake: the old entry stays cached.     *)
RenameCachedScript(p, n, q, m, asDir) ==
    LET i == At(p, n)
        j == At(q, m)
    IN  <<(IF j = NoIno THEN <<>> ELSE <<DropEntry(q, m), AddLinks(j, -1), Reap(j)>>)
          \o <<MoveEntry(p, n, q, m), Remember(q, m, i)>>>>

(* The destination loses its entry and a link first; the parents' counts   *)
(* follow a directory that moves.                                          *)
RenameScript(p, n, q, m, asDir) ==
    LET i == At(p, n)
        j == At(q, m)
    IN  <<(IF j = NoIno THEN <<>> ELSE <<DropEntry(q, m), AddLinks(j, -1), Reap(j)>>)
          \o <<MoveEntry(p, n, q, m)>>
          \o (IF asDir /\ p # q THEN <<AddLinks(p, -1), AddLinks(q, 1)>> ELSE <<>>)
          \o <<Forget(p, n), Forget(q, m), Remember(q, m, i)>>>>

(* What the operations check before they write. *)
Free(p, n) == At(p, n) = NoIno
Creatable(p, n) == Fresh /\ Free(p, n)
Unlinkable(p, n) == ~Free(p, n) /\ ~IsDir(At(p, n))
Removable(p, n) == ~Free(p, n) /\ IsDir(At(p, n)) /\ Children(At(p, n)) = {}
Linkable(i) == Exists(i) /\ ~IsDir(i) /\ db.nlink[i] < MaxLinks
Replaceable(i, j) ==
    j # NoIno => /\ Exists(j)
                 /\ IsDir(i) <=> IsDir(j)
                 /\ IsDir(j) => Children(j) = {}
=============================================================================
