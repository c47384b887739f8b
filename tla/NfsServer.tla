------------------------------ MODULE NfsServer -----------------------------
(***************************************************************************)
(* The NFSv3 server over an AgentFS database: connections, the transaction *)
(* tracker that drops retransmissions, one task per request, and the       *)
(* procedures as the calls they make on the file system.                   *)
(*                                                                         *)
(* AgentNFS holds a lock during each of its methods, so a method is one    *)
(* step here; nothing holds it from one method to the next, so requests    *)
(* interleave between them.  A client has one call outstanding, repeats it *)
(* until it is answered, and reconnects when its connection breaks.        *)
(*                                                                         *)
(* Clients are one unprivileged user that owns and may read everything;    *)
(* `mode` is the rest of a mode: "w", the write permission, and "s", the   *)
(* set-id bits.  Contents and attributes in replies are left out.          *)
(***************************************************************************)
EXTENDS AgentTables

CONSTANTS Client,
          Port,          \* what a client may connect from
          Uses,          \* [Client -> Seq(the procedures of its first call, ...)]
          Modes,         \* what SETATTR sets modes to
          NameOrder,     \* the names, in the order of ORDER BY name
          Given,         \* how many of them are files of the root at first
          PageSize,      \* entries that fit in a READDIRPLUS reply
          MaxFaults      \* bound: broken connections and restarts

Procedures ==
    {"MKDIR", "MKNOD", "SYMLINK", "CREATE UNCHECKED", "CREATE GUARDED", "CREATE EXCLUSIVE", "REMOVE",
     "RENAME", "LINK", "SETATTR", "WRITE", "LOOKUP", "GETATTR", "READ", "READLINK", "ACCESS", "FSSTAT",
     "FSINFO", "PATHCONF", "NULL", "READDIRPLUS", "READDIR", "MNT"}

ASSUME NfsAssumption ==
    /\ Uses \in [Client -> Seq(SUBSET Procedures)]
    /\ IsFiniteSet(Client) /\ IsFiniteSet(Port) /\ Port # {}
    /\ Modes \subseteq SUBSET {"w", "s"}
    /\ NameOrder \in Seq(Name) /\ ToSet(NameOrder) = Name /\ IsInjective(NameOrder)
    /\ Given \in 0..Len(NameOrder) /\ Given < MaxIno
    /\ PageSize \in Nat \ {0}
    /\ MaxFaults \in Nat

VARIABLES mode,      \* [Ino -> SUBSET {"w", "s"}]
          gen,       \* GENERATION_NUMBER: which start of the server this is
          conn,      \* [Client -> [port, up]]
          call,      \* [Client -> its call: number x, request, outstanding or not]
          mounted,   \* [Client -> the generation of the handles it holds]
          wire,      \* requests sent and not yet read by the server
          tracker,   \* transactions: [Client \X call \X Port -> state]
          task,      \* requests being handled
          list,      \* [Client -> the listing it is making]
          past,      \* history: how often a call changed anything, or Excused
          faults     \* faults so far

vars == <<db, mode, gen, conn, call, mounted, wire, tracker, task, list, past, faults>>
server == <<db, mode, gen, tracker, task>>

Request(op, dir, name) ==
    [op |-> op, gen |-> 0, dir |-> dir, name |-> name,
     ino |-> NoIno, to |-> NoIno, toName |-> name, set |-> {}, insync |-> TRUE]

Excused == -1
NoPage == [names |-> <<>>, cookie |-> NoIno, eof |-> TRUE, torn |-> FALSE]
NoList == [dir |-> NoIno, cookie |-> NoIno, got |-> <<>>, stable |-> {},
           torn |-> FALSE, done |-> TRUE]

Calls == UNION {{c} \X DOMAIN Uses[c] : c \in Client}
Key == {<<k[1], k[2], p>> : k \in Calls, p \in Port}
KeyOf(m) == <<m.c, m.x, m.port>>

Init ==
    /\ db = [kind   |-> [i \in Ino |-> IF i = Root THEN "dir"
                                       ELSE IF i <= Given + 1 THEN "file" ELSE "none"],
             nlink  |-> [i \in Ino |-> IF i = Root THEN 2
                                       ELSE IF i <= Given + 1 THEN 1 ELSE 0],
             entry  |-> [x \in Place |-> IF \E k \in 1..Given : x = <<Root, NameOrder[k]>>
                                         THEN 1 + CHOOSE k \in 1..Given : x[2] = NameOrder[k]
                                         ELSE NoIno],
             target |-> [i \in Ino |-> "none"],
             last   |-> Given + 1]
    /\ mode = [i \in Ino |-> {"w"}]
    /\ gen = 0
    /\ conn \in [Client -> [port : {CHOOSE p \in Port : TRUE}, up : {TRUE}]]
    /\ call = [c \in Client |-> [x |-> 0, req |-> Request("NULL", NoIno, NameOrder[1]),
                                 waiting |-> FALSE]]
    /\ mounted = [c \in Client |-> 0]
    /\ wire = {} /\ task = {}
    /\ tracker = [k \in Key |-> "none"]
    /\ list = [c \in Client |-> NoList]
    /\ past = [k \in Calls |-> 0]
    /\ faults = 0

-----------------------------------------------------------------------------
(* What a step of a task does: it moves to `pc` or answers, and may change *)
(* the tables or the modes.                                                *)

Goto(t, pc) == [db |-> db, mode |-> mode, task |-> [t EXCEPT !.pc = pc]]
Answer(t, status) ==
    [db |-> db, mode |-> mode, task |-> [t EXCEPT !.pc = "done", !.status = status]]
Commit(t, script) == [Answer(t, "OK") EXCEPT !.db = Committed(db, script)]
SetMode(t, i, m) == [Answer(t, t.status) EXCEPT !.mode[i] = m]

(* fh_to_id: a handle names the start of the server that gave it out. *)
Stale(t) == t.req.gen < gen

can_modify_directory(d) == "w" \in mode[d]

(* Most procedures on a name begin like this: the handle, the directory's  *)
(* attributes, the permission.  Looking up the owner of an entry of a      *)
(* sticky directory changes nothing for a user that owns everything.       *)
CheckAccess(t, d, next) ==
    CASE Stale(t)                 -> Answer(t, "STALE")
      [] ~Stale(t) /\ ~Exists(d)  -> Answer(t, "NOENT")
      [] ~Stale(t) /\ Exists(d) /\ ~can_modify_directory(d) -> Answer(t, "ACCES")
      [] OTHER -> Goto(t, next)

-----------------------------------------------------------------------------
(* AgentNFS: a method holds the lock from its first call to its last.      *)

(* create_file, mkdir, mknod and symlink of the file system refuse a name  *)
(* that exists.                                                            *)
Make(t, script) == IF Free(t.req.dir, t.req.name) THEN Commit(t, script) ELSE Answer(t, "EXIST")

mkdir(t) == Make(t, MkdirScript(t.req.dir, t.req.name))
mknod(t) == Make(t, MknodScript(t.req.dir, t.req.name))
symlink(t) == Make(t, SymlinkScript(t.req.dir, t.req.name, t.req.toName))
create(t) == Make(t, CreateScript(t.req.dir, t.req.name))
Found(t) == IsDir(t.req.dir) /\ ~Free(t.req.dir, t.req.name)
create_exclusive(t) == IF Found(t) THEN Answer(t, "EXIST") ELSE create(t)

(* What the name turns out to be decides how it goes. *)
remove(t) ==
    LET d == t.req.dir
        n == t.req.name
    IN  CASE Free(d, n)       -> Answer(t, "NOENT")
          [] Unlinkable(d, n) -> Commit(t, UnlinkScript(d, n))
          [] Removable(d, n)  -> Commit(t, RmdirScript(d, n))
          [] OTHER            -> Answer(t, "NOTEMPTY")

rename(t) ==
    LET d == t.req.dir
        n == t.req.name
        e == t.req.to
        m == t.req.toName
    IN  IF Free(d, n) THEN Answer(t, "NOENT")
        ELSE IF ~Replaceable(At(d, n), At(e, m)) THEN Answer(t, "EXIST")
        ELSE Commit(t, RenameScript(d, n, e, m, IsDir(At(d, n))))

link(t) == IF Exists(t.req.ino) THEN Make(t, LinkScript(t.req.ino, t.req.dir, t.req.name))
           ELSE Answer(t, "NOENT")

setattr(t, m) == IF Exists(t.req.ino) THEN SetMode(t, t.req.ino, m) ELSE Answer(t, "NOENT")

lookup(t) == Answer(t, IF Found(t) THEN "OK" ELSE "NOENT")
getattr(t) == Answer(t, IF Exists(t.req.ino) THEN "OK" ELSE "NOENT")
read(t) == getattr(t)
readlink(t) == IF Exists(t.req.ino) /\ db.kind[t.req.ino] # "link" THEN Answer(t, "INVAL")
               ELSE getattr(t)

(* The next step finds the mode that write answered with. *)
write(t) ==
    LET i == t.req.ino
    IN  IF Exists(i) /\ "s" \in mode[i] THEN Goto([t EXCEPT !.saved = mode[i]], "clear")
        ELSE getattr(t)

-----------------------------------------------------------------------------
(* The procedures *)

(* A directory's attributes and permission, then the method. *)
Modifies(t, method) == IF t.pc = "check" THEN CheckAccess(t, t.req.dir, "act") ELSE method

nfsproc3_mkdir(t) == Modifies(t, mkdir(t))
nfsproc3_mknod(t) == Modifies(t, mknod(t))
nfsproc3_symlink(t) == Modifies(t, symlink(t))

(* REMOVE and RMDIR are one procedure. *)
nfsproc3_remove(t) == Modifies(t, remove(t))

(* GUARDED looks the name up first; the verifier of EXCLUSIVE is ignored.  *)
nfsproc3_create(t) ==
    CASE t.pc = "check" ->
           CheckAccess(t, t.req.dir, IF t.req.op = "CREATE GUARDED" THEN "look" ELSE "act")
      [] t.pc = "look" -> IF Found(t) THEN Answer(t, "EXIST") ELSE Goto(t, "act")
      [] t.pc = "act"  -> IF t.req.op = "CREATE EXCLUSIVE" THEN create_exclusive(t)
                          ELSE create(t)

(* The directories' attributes are two calls; then both permissions are    *)
(* looked at.                                                              *)
nfsproc3_rename(t) ==
    LET d == t.req.dir
        e == t.req.to
    IN  CASE t.pc = "check" /\ Stale(t)  -> Answer(t, "STALE")
          [] t.pc = "check" /\ ~Stale(t) ->
               IF Exists(d) THEN Goto([t EXCEPT !.saved = mode[d]], "look")
               ELSE Answer(t, "NOENT")
          [] t.pc = "look" -> IF Exists(e) /\ "w" \notin t.saved THEN Answer(t, "ACCES")
                              ELSE CheckAccess(t, e, "act")
          [] t.pc = "act"  -> rename(t)

nfsproc3_link(t) ==
    LET i == t.req.ino
    IN  CASE t.pc = "check" /\ Stale(t)  -> Answer(t, "STALE")
          [] t.pc = "check" /\ ~Stale(t) -> IF Exists(i) /\ ~IsDir(i) THEN Goto(t, "look")
                                            ELSE Answer(t, "NOENT")
          [] t.pc = "look" -> CheckAccess(t, t.req.dir, "act")
          [] t.pc = "act"  -> link(t)

(* A guard that does not match is answered NOT_SYNC, and the attributes    *)
(* are set all the same.                                                   *)
OutOfSync(t) == [t EXCEPT !.status = IF t.req.insync THEN "OK" ELSE "NOT_SYNC"]

nfsproc3_setattr(t) ==
    CASE t.pc = "check" /\ Stale(t)  -> Answer(t, "STALE")
      [] t.pc = "check" /\ ~Stale(t) -> IF Exists(t.req.ino) THEN Goto(OutOfSync(t), "act")
                                        ELSE Answer(t, "NOENT")
      [] t.pc = "act" -> setattr(t, t.req.set)

(* The set-id bits are cleared by a call of its own that sets the mode     *)
(* that write found without them.                                          *)
nfsproc3_write(t) ==
    CASE t.pc = "check" -> CheckAccess(t, t.req.ino, "act")
      [] t.pc = "act"   -> write(t)
      [] t.pc = "clear" -> IF Exists(t.req.ino) THEN setattr(t, t.saved \ {"s"})
                           ELSE Answer(t, "OK")

(* The attributes of i first, then the method on what may be gone by then. *)
Looks(t, i, method) ==
    CASE t.pc = "check" /\ Stale(t)  -> Answer(t, "STALE")
      [] t.pc = "check" /\ ~Stale(t) -> IF Exists(i) THEN Goto(t, "act") ELSE Answer(t, "NOENT")
      [] t.pc = "act" -> method

nfsproc3_lookup(t) == Looks(t, t.req.dir, lookup(t))
nfsproc3_read(t) == Looks(t, t.req.ino, read(t))
nfsproc3_readlink(t) == Looks(t, t.req.ino, readlink(t))

nfsproc3_getattr(t) == IF Stale(t) THEN Answer(t, "STALE") ELSE getattr(t)

(* What is granted follows from the attributes of one call. *)
nfsproc3_access(t) == IF Stale(t) THEN Answer(t, "STALE") ELSE getattr(t)

(* These answer with constants, for a file that is gone as well. *)
nfsproc3_fsstat(t) == Answer(t, IF Stale(t) THEN "STALE" ELSE "OK")
nfsproc3_fsinfo(t) == nfsproc3_fsstat(t)
nfsproc3_pathconf(t) == nfsproc3_fsstat(t)

nfsproc3_null(t) == Answer(t, "OK")

(* Gives out the root's handle of this start of the server. *)
mountproc3_mnt(t) == Answer(t, "OK")

-----------------------------------------------------------------------------
(* Listings.  AgentNFS.readdir skips entries until it has passed one whose *)
(* inode is the cookie.                                                    *)

Entries(d) == SelectSeq(NameOrder, LAMBDA n : ~Free(d, n))

(* Variant of After with a mistake: the entry of the cookie comes again.   *)
AfterAgain(d, cookie) ==
    LET names == Entries(d)
        found == {k \in 1..Len(names) : At(d, names[k]) = cookie}
    IN  IF cookie = NoIno THEN names
        ELSE IF found = {} THEN <<>>
        ELSE SubSeq(names, Min(found), Len(names))

After(d, cookie) ==
    LET names == Entries(d)
        found == {k \in 1..Len(names) : At(d, names[k]) = cookie}
    IN  IF cookie = NoIno THEN names
        ELSE IF found = {} THEN <<>>
        ELSE SubSeq(names, Min(found) + 1, Len(names))

Page(t, cookie) ==
    LET rest == After(t.req.dir, cookie)
        page == SubSeq(rest, 1, Min({PageSize, Len(rest)}))
        last == IF page = <<>> THEN t.req.ino ELSE At(t.req.dir, page[Len(page)])
    IN  [Answer(t, "OK") EXCEPT
            !.task.page = [names |-> page, cookie |-> last, eof |-> page = rest,
                           torn |-> cookie # NoIno
                                    /\ {n \in Name : At(t.req.dir, n) = cookie} # {t.req.name}]]

(* req.ino is the cookie; req.name, that the listing's last name so far,   *)
(* serves the history only.  The cookie verifier is ignored.               *)
nfsproc3_readdirplus(t) == Looks(t, t.req.dir, Page(t, t.req.ino))

(* READDIR does not pass the cookie on. *)
nfsproc3_readdir(t) == Looks(t, t.req.dir, Page(t, NoIno))

Lists(op) == op \in {"READDIRPLUS", "READDIR"}

handle_nfs(t) ==
    CASE t.req.op = "MKDIR"   -> nfsproc3_mkdir(t)
      [] t.req.op = "MKNOD"   -> nfsproc3_mknod(t)
      [] t.req.op = "SYMLINK" -> nfsproc3_symlink(t)
      [] t.req.op \in {"CREATE UNCHECKED", "CREATE GUARDED", "CREATE EXCLUSIVE"} ->
            nfsproc3_create(t)
      [] t.req.op = "REMOVE"  -> nfsproc3_remove(t)
      [] t.req.op = "RENAME"  -> nfsproc3_rename(t)
      [] t.req.op = "LINK"    -> nfsproc3_link(t)
      [] t.req.op = "SETATTR" -> nfsproc3_setattr(t)
      [] t.req.op = "WRITE"   -> nfsproc3_write(t)
      [] t.req.op = "LOOKUP"  -> nfsproc3_lookup(t)
      [] t.req.op = "GETATTR" -> nfsproc3_getattr(t)
      [] t.req.op = "READ"    -> nfsproc3_read(t)
      [] t.req.op = "READLINK" -> nfsproc3_readlink(t)
      [] t.req.op = "ACCESS"  -> nfsproc3_access(t)
      [] t.req.op = "FSSTAT"  -> nfsproc3_fsstat(t)
      [] t.req.op = "FSINFO"  -> nfsproc3_fsinfo(t)
      [] t.req.op = "PATHCONF" -> nfsproc3_pathconf(t)
      [] t.req.op = "NULL"    -> nfsproc3_null(t)
      [] t.req.op = "READDIRPLUS" -> nfsproc3_readdirplus(t)
      [] t.req.op = "READDIR" -> nfsproc3_readdir(t)
      [] t.req.op = "MNT"     -> mountproc3_mnt(t)

-----------------------------------------------------------------------------
(* The client *)

Dirs == {d \in Ino : IsDir(d)}
Files == {i \in Ino : Exists(i) /\ ~IsDir(i)}

(* What a client may ask for: directories and files that exist when it     *)
(* asks.  Its kernel has looked at the entry it makes, removes or renames, *)
(* and does not move a directory into itself.                              *)
On(op, i) == [Request(op, NoIno, NameOrder[1]) EXCEPT !.ino = i]
Setting(i, s, b) == [On("SETATTR", i) EXCEPT !.set = s, !.insync = b]
Renaming(d, n, e, m) == [Request("RENAME", d, n) EXCEPT !.to = e, !.toName = m]

Settings == {Setting(i, s, b) : i \in Dirs \cup Files, s \in Modes, b \in BOOLEAN}
Linkings == {[Request("LINK", x[1], x[2]) EXCEPT !.ino = i] :
                x \in {y \in Dirs \X Name : Free(y[1], y[2])},
                i \in {j \in Files : db.nlink[j] < MaxLinks}}
Renamings ==
    {r \in {Renaming(d, n, e, m) : d \in Dirs, n \in Name, e \in Dirs, m \in Name} :
        /\ ~Free(r.dir, r.name) /\ At(r.dir, r.name) # r.to
        /\ At(r.dir, r.name) # At(r.to, r.toName)}

Sensible(op) ==
    CASE op = "SETATTR" -> Settings
      [] op = "LINK"    -> Linkings
      [] op = "RENAME"  -> Renamings
      [] op \in {"WRITE", "GETATTR", "READ", "READLINK"} -> {On(op, i) : i \in Files}
      [] op \in {"ACCESS", "FSSTAT", "FSINFO", "PATHCONF"} -> {On(op, i) : i \in Dirs \cup Files}
      [] op \in {"MNT", "NULL"} -> {Request(op, NoIno, NameOrder[1])}
      [] Lists(op) -> {Request(op, d, NameOrder[1]) : d \in Dirs}
      [] OTHER -> {Request(op, x[1], x[2]) : x \in {y \in Dirs \X Name :
                        Free(y[1], y[2]) <=> op \notin {"REMOVE", "LOOKUP"}}}

(* A listing that has begun goes on where its last reply ended. *)
Continued(c, op) ==
    [Request(op, list[c].dir, Last(list[c].got)) EXCEPT !.ino = list[c].cookie]

Asked(c) ==
    IF mounted[c] < gen THEN Sensible("MNT")
    ELSE UNION {IF Lists(op) /\ ~list[c].done THEN {Continued(c, op)} ELSE Sensible(op) :
                   op \in Uses[c][call[c].x + 1]}

Message(c) == [c |-> c, x |-> call'[c].x, port |-> conn[c].port, open |-> TRUE,
               req |-> call'[c].req]

EntriesOf(tables, d) == {x \in Place \X Ino : x[1][1] = d /\ tables.entry[x[1]] = x[2]}

Send(c) ==
    /\ conn[c].up /\ ~call[c].waiting /\ call[c].x < Len(Uses[c])
    /\ \E r \in Asked(c) :
          /\ call' = [call EXCEPT ![c] = [x |-> @.x + 1, waiting |-> TRUE,
                                          req |-> [r EXCEPT !.gen = mounted[c]]]]
          /\ list' = IF Lists(r.op) /\ list[c].done
                     THEN [list EXCEPT ![c] = [NoList EXCEPT !.dir = r.dir, !.done = FALSE,
                                                       !.stable = EntriesOf(db, r.dir)]]
                     ELSE list
    /\ wire' = wire \cup {Message(c)}
    /\ UNCHANGED <<server, conn, mounted, past, faults>>

(* A connection delivers what is sent on it, so a client repeats its call  *)
(* on a new one, and again whenever the repeat has come to nothing.        *)
Retransmit(c) ==
    /\ conn[c].up /\ call[c].waiting
    /\ \A m \in wire \cup task : ~(m.c = c /\ m.open)
    /\ call' = call
    /\ wire' = wire \cup {Message(c)}
    /\ UNCHANGED <<server, conn, mounted, list, past, faults>>

(* A connection breaks: replies to what it brought are lost, and so are    *)
(* requests the server has not yet taken from it.  Tasks run on.           *)
Break(c) ==
    /\ conn[c].up /\ faults < MaxFaults
    /\ faults' = faults + 1
    /\ conn' = [conn EXCEPT ![c].up = FALSE]
    /\ \E kept \in SUBSET {m \in wire : m.c = c} :
          wire' = {m \in wire : m.c # c} \cup {[m EXCEPT !.open = FALSE] : m \in kept}
    /\ task' = {IF t.c = c THEN [t EXCEPT !.open = FALSE] ELSE t : t \in task}
    /\ UNCHANGED <<db, mode, gen, call, mounted, tracker, list, past>>

(* From the port it had, or another. *)
Reconnect(c) ==
    /\ ~conn[c].up
    /\ \E p \in Port :
          /\ conn' = [conn EXCEPT ![c] = [port |-> p, up |-> TRUE]]
          /\ past' = IF call[c].waiting /\ p # conn[c].port
                     THEN [past EXCEPT ![<<c, call[c].x>>] = Excused] ELSE past
    /\ UNCHANGED <<server, call, mounted, wire, list, faults>>

-----------------------------------------------------------------------------
(* The server *)

(* read spawns a task per request; handle_rpc drops one that is running or *)
(* was answered within the retention period.                               *)
Receive(m) ==
    /\ m \in wire
    /\ wire' = wire \ {m}
    /\ IF tracker[KeyOf(m)] # "none"
       THEN UNCHANGED <<tracker, task>>
       ELSE /\ tracker' = [tracker EXCEPT ![KeyOf(m)] = "running"]
            /\ task' = task \cup {[c |-> m.c, x |-> m.x, port |-> m.port, open |-> m.open,
                                   req |-> m.req, pc |-> "check", status |-> "OK",
                                   saved |-> {}, page |-> NoPage]}
    /\ UNCHANGED <<db, mode, gen, conn, call, mounted, list, past, faults>>

Changed(t) == db' # db \/ mode' # mode

Step(t) ==
    /\ t.pc # "done"
    /\ LET o == handle_nfs(t)
       IN  /\ db' = o.db /\ mode' = o.mode
           /\ task' = (task \ {t}) \cup {o.task}
    /\ past' = IF Changed(t) /\ past[<<t.c, t.x>>] # Excused
               THEN [past EXCEPT ![<<t.c, t.x>>] = @ + 1] ELSE past
    /\ list' = [c \in Client |-> [list[c] EXCEPT !.stable = @ \cap EntriesOf(db', list[c].dir)]]
    /\ UNCHANGED <<gen, conn, call, mounted, wire, tracker, faults>>

(* mark_processed, then the reply. *)
Answered(t) == t.open /\ call[t.c].waiting /\ call[t.c].x = t.x

(* Variants of Mark with a mistake: the record is dropped instead; a       *)
(* request that failed is not marked.                                      *)
MarkForgotten(t) == [tracker EXCEPT ![KeyOf(t)] = "none"]
MarkSuccess(t) ==
    [tracker EXCEPT ![KeyOf(t)] = IF t.status = "OK" THEN "done" ELSE "running"]

Mark(t) == [tracker EXCEPT ![KeyOf(t)] = "done"]

Listed(l, t) ==
    IF t.status # "OK" THEN NoList
    ELSE [l EXCEPT !.got = @ \o t.page.names, !.cookie = t.page.cookie,
                   !.torn = @ \/ t.page.torn, !.done = t.page.eof]

Finish(t) ==
    /\ t.pc = "done"
    /\ tracker' = Mark(t)
    /\ task' = task \ {t}
    /\ IF Answered(t)
       THEN /\ call' = [call EXCEPT ![t.c].waiting = FALSE]
            /\ mounted' = IF t.req.op = "MNT" THEN [mounted EXCEPT ![t.c] = gen] ELSE mounted
            /\ list' = IF Lists(t.req.op) THEN [list EXCEPT ![t.c] = Listed(@, t)] ELSE list
       ELSE UNCHANGED <<call, mounted, list>>
    /\ UNCHANGED <<db, mode, gen, conn, wire, past, faults>>

Expired(k) == tracker[k] = "done"

(* The retention period of an answered request ends.  Only a request that  *)
(* may still come finds out.                                               *)
Expire(k) ==
    /\ Expired(k)
    /\ \/ call[k[1]].waiting /\ call[k[1]].x = k[2]
       \/ \E m \in wire : KeyOf(m) = k
    /\ tracker' = [tracker EXCEPT ![k] = "none"]
    /\ past' = [past EXCEPT ![<<k[1], k[2]>>] = Excused]
    /\ UNCHANGED <<db, mode, gen, conn, call, mounted, wire, task, list, faults>>

(* The server ends and starts again: connections, tasks and the tracker    *)
(* are gone, the database stays.                                           *)
Restart ==
    /\ faults < MaxFaults
    /\ faults' = faults + 1
    /\ gen' = gen + 1
    /\ conn' = [c \in Client |-> [conn[c] EXCEPT !.up = FALSE]]
    /\ wire' = {} /\ task' = {}
    /\ tracker' = [k \in Key |-> "none"]
    /\ UNCHANGED <<db, mode, call, mounted, list, past>>

Next ==
    \/ \E c \in Client : Send(c) \/ Retransmit(c) \/ Break(c) \/ Reconnect(c)
    \/ \E m \in wire : Receive(m)
    \/ \E t \in task : Step(t) \/ Finish(t)
    \/ \E k \in Key : Expire(k)
    \/ Restart

(* A client goes on trying, the server handles what it has read, and time  *)
(* passes.                                                                 *)
Fairness ==
    /\ WF_vars(\E c \in Client : Retransmit(c) \/ Reconnect(c))
    /\ WF_vars(\E m \in wire : Receive(m))
    /\ WF_vars(\E t \in task : Step(t) \/ Finish(t))
    /\ WF_vars(\E k \in Key : Expire(k))

Spec == Init /\ [][Next]_vars
FairSpec == Init /\ [][Next]_vars /\ Fairness

-----------------------------------------------------------------------------
(* A call changes the file system once, however often it is sent, as long  *)
(* as the client keeps its port and the record of the call has not         *)
(* expired.  A restart is no exception: the tracker is lost, but handles   *)
(* of the earlier start are refused.                                       *)
AtMostOnce ==
    \A k \in Calls : past[k] <= 1

(* Every call is answered, though the server drops repeats of a call whose *)
(* reply was lost: their record expires.                                   *)
EveryCallAnswered ==
    \A c \in Client : call[c].waiting ~> ~call[c].waiting

(* The entries a directory has all along a listing by READDIRPLUS come up  *)
(* once each, if the entry every reply ended with was still there under    *)
(* its name, and under no other, when the next was asked for.              *)
ListsOnce ==
    \A c \in Client : list[c].torn \/
        /\ IsInjective(list[c].got)
        /\ list[c].done => \A x \in list[c].stable : x[1][2] \in ToSet(list[c].got)

(* "this enumerator is assumed to be valid even across directory           *)
(* modifications": whatever else is removed, a listing that has ended has  *)
(* given every entry that was there all along.                             *)
ListsWhole ==
    \A c \in Client : list[c].done =>
        \A x \in list[c].stable : x[1][2] \in ToSet(list[c].got)
=============================================================================
