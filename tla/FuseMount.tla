----------------------------- MODULE FuseMount ------------------------------
(***************************************************************************)
(* The FUSE session of a mount: processes in the kernel, the one thread    *)
(* that reads their requests and runs the handlers, the thread that writes *)
(* the cache invalidations, and the poller of the mutation journal.        *)
(*                                                                         *)
(* The kernel (external) holds the lock of a directory from before it      *)
(* sends a request about an entry until it has installed the answer,       *)
(* shared for lookups, and keeps entries until it drops or expires them.   *)
(* Invalidating an entry takes the lock of its directory, inside the write *)
(* to /dev/fuse.  A handler's statements are one step here (MountedVolume  *)
(* interleaves them); attributes and data are left out, and a process has  *)
(* one file open at a time.                                                *)
(***************************************************************************)
EXTENDS AgentTables

CONSTANTS Proc,       \* processes that use the mount
          Calls,      \* the operations they call
          Polling,    \* whether the mount polls the journal of its volume
          Batch,      \* rows the poller reads at a time
          MaxRows,    \* bound: rows in the journal
          MaxCalls    \* bound: calls of the processes

ASSUME FuseAssumption ==
    /\ Polling \in BOOLEAN
    /\ Proc \cap Nat = {}   \* the queue holds processes and handles
    /\ Calls \subseteq {"lookup", "readdirplus", "mkdir", "mknod", "create", "symlink",
                       "unlink", "rmdir", "rename", "link", "open", "getattr", "setattr",
                       "readlink", "statfs", "readdir", "read", "write", "flush",
                       "fsync", "ftruncate"}
    /\ Batch \in Nat \ {0} /\ MaxRows \in Nat /\ MaxCalls \in Nat

VARIABLES dcache,    \* the kernel's entries: Place -> inode, NoIno when absent
          call,      \* what each process waits for
          started,   \* history: calls made so far
          queue,     \* requests in /dev/fuse: the process, or the handle to release
          held,      \* the file each process has open: <<handle, inode>>
          open_files, \* handles of the adapter -> inode
          next_fh,   \* the handle it gives next
          session,   \* invalidations the handler that has answered still sends
          notices,   \* channel to the notify thread
          journal,   \* fs_mutation_journal
          poller,    \* whether its thread lives, and holds a sender of notices
          polled,    \* last_seq of the poller, NoBaseline before its first query
          missed,    \* history: entries the first query left stale
          phase      \* of Session::run

files == <<open_files, next_fh>>
vars == <<db, dcache, call, started, queue, held, files, session, notices, journal, poller,
          polled, missed, phase>>

NoBaseline == -1

Shared == {"lookup", "readdir", "readdirplus"}
Making == {"mkdir", "mknod", "create", "symlink"}
OnInode == {"open", "getattr", "setattr", "readlink", "statfs", "readdir"}
OnHandle == {"read", "write", "flush", "fsync", "ftruncate"}
NoFile == <<0, NoIno>>
Nowhere == <<NoIno, NoIno>>

(* A request, what it installs in the kernel's cache when it is answered,  *)
(* and the file the handler opened or found.                               *)
NoCall == [op |-> "none", at |-> Nowhere, to |-> Nowhere, ino |-> NoIno, fh |-> 0,
           answered |-> FALSE, reply |-> {}, file |-> NoFile]

Init ==
    /\ DbInit
    /\ dcache = [x \in Place |-> NoIno]
    /\ call = [p \in Proc |-> NoCall]
    /\ started = 0 /\ queue = <<>> /\ session = <<>> /\ notices = <<>> /\ journal = <<>>
    /\ poller = Polling /\ polled = NoBaseline /\ missed = {}
    /\ held = [p \in Proc |-> NoFile] /\ open_files = <<>> /\ next_fh = 1
    /\ phase = "starting"

-----------------------------------------------------------------------------
(* The kernel (external) *)

Calling == {p \in Proc : call[p] # NoCall}

Locks(r) ==
    CASE r.op \in {"rename", "rmdir"} ->
            {r.at[1], r.to[1]} \cup {i \in {dcache[r.at], dcache[r.to]} : IsDir(i)}
      [] r.op \in {"setattr", "readdir"} -> {i \in {r.ino} : IsDir(i)}
      [] r.op \in OnInode \cup OnHandle -> {}
      [] OTHER -> {r.at[1]}

LockFree(d) == \A p \in Calling : d \notin Locks(call[p])

(* A lock is there for the taking: alone, or by others that share it. *)
Takes(d, r) ==
    \A p \in Calling :
        d \in Locks(call[p]) => {r.op, call[p].op} \subseteq Shared

(* The directory of an entry has been looked up, and is no descendant of   *)
(* the entry that moves.                                                   *)
Known(d) == d = Root \/ \E x \in Place : dcache[x] = d
Outside(x, d) == d # dcache[x] /\ ~\E n \in Name : dcache[<<dcache[x], n>>] = d

Cached(x) == dcache[x] # NoIno

(* Entries that are not, or will not be, what the table has. *)
Lagging(cache, calls) ==
    {x \in Place :
        \E i \in {cache[x]} \cup UNION {{e[2] : e \in {e \in calls[p].reply : e[1] = x}} :
                                       p \in {p \in Proc : calls[p] # NoCall}} :
            i \notin {NoIno, db.entry[x]}}

Sensible(r) ==
    CASE r.op = "lookup"      -> ~Cached(r.at)
      [] r.op = "readdirplus" -> TRUE
      [] r.op \in Making      -> ~Cached(r.at)
      [] r.op = "unlink"      -> Cached(r.at) /\ ~IsDir(dcache[r.at])
      [] r.op = "rmdir"       -> Cached(r.at) /\ IsDir(dcache[r.at])
      [] r.op = "link"        -> ~Cached(r.at) /\ \E x \in Place : Cached(x) /\ dcache[x] = r.ino
      [] r.op = "open"        -> \E x \in Place : Cached(x) /\ dcache[x] = r.ino /\ ~IsDir(r.ino)
      [] r.op \in OnInode \cup OnHandle -> Known(r.ino)
      [] r.op = "rename"      -> /\ Cached(r.at) /\ Outside(r.at, r.to[1])
                                 /\ dcache[r.at] # dcache[r.to]

Call(p, r) ==
    /\ r.op \in Calls
    /\ phase = "serving" /\ call[p] = NoCall
    /\ started < MaxCalls /\ started' = started + 1
    /\ Sensible(r)
    /\ r.op \in {"open", "create"} => held[p] = NoFile
    /\ \A d \in Locks(r) : Takes(d, r)
    /\ call' = [call EXCEPT ![p] = r]
    /\ queue' = Append(queue, p)
    /\ UNCHANGED <<db, dcache, held, files, session, notices, journal, poller, polled,
                   missed, phase>>

Start(p) ==
    \/ \E x, y \in Place :
          /\ Known(x[1]) /\ Known(y[1])
          /\ \/ /\ x = y
                /\ \E op \in {"lookup", "readdirplus"} \cup Making \cup {"unlink", "rmdir"} :
                      Call(p, [NoCall EXCEPT !.op = op, !.at = x, !.to = x])
             \/ x # y /\ Call(p, [NoCall EXCEPT !.op = "rename", !.at = x, !.to = y])
             \/ x = y /\ \E i \in Ino :
                      Call(p, [NoCall EXCEPT !.op = "link", !.at = x, !.to = x, !.ino = i])
    \/ \E op \in OnInode, i \in Ino :
          Call(p, [NoCall EXCEPT !.op = op, !.ino = i])
    \/ \E op \in OnHandle :
          /\ held[p] # NoFile
          /\ Call(p, [NoCall EXCEPT !.op = op, !.fh = held[p][1], !.ino = held[p][2]])

(* A release is sent in the background: nobody waits for its answer.       *)
Close(p) ==
    /\ phase = "serving" /\ call[p] = NoCall /\ held[p] # NoFile
    /\ queue' = Append(queue, held[p][1])
    /\ held' = [held EXCEPT ![p] = NoFile]
    /\ UNCHANGED <<db, dcache, call, started, files, session, notices, journal, poller,
                   polled, missed, phase>>

(* The answer is installed and the locks are released. *)
Installed(reply) ==
    [x \in Place |-> IF \E e \in reply : e[1] = x
                     THEN (CHOOSE e \in reply : e[1] = x)[2] ELSE dcache[x]]

Finish(p) ==
    /\ call[p] # NoCall /\ call[p].answered
    /\ dcache' = Installed(call[p].reply)
    /\ held' = [held EXCEPT ![p] = IF call[p].op \in {"open", "create"}
                                   THEN call[p].file ELSE @]
    /\ call' = [call EXCEPT ![p] = NoCall]
    /\ missed' = missed \cap Lagging(dcache', call')
    /\ UNCHANGED <<db, started, queue, files, session, notices, journal, poller, polled, phase>>

(* Memory pressure, or the end of the entry's lifetime. *)
Expire(x) ==
    /\ Cached(x) /\ LockFree(x[1])
    /\ dcache' = [dcache EXCEPT ![x] = NoIno]
    /\ missed' = missed \cap Lagging(dcache', call)
    /\ UNCHANGED <<db, call, started, queue, held, files, session, notices, journal, poller,
                   polled, phase>>

(* The mount ends under its processes, and reads of /dev/fuse fail. *)
Unmount ==
    /\ phase = "serving" /\ session = <<>>
    /\ phase' = "joining"
    /\ call' = [p \in Proc |-> NoCall] /\ queue' = <<>>
    /\ held' = [p \in Proc |-> NoFile]
    /\ UNCHANGED <<db, dcache, started, files, session, notices, journal, poller, polled, missed>>

-----------------------------------------------------------------------------
(* The session loop: handlers run to their end, one at a time. *)

init ==
    /\ phase = "starting"
    /\ phase' = "serving"
    /\ UNCHANGED <<db, dcache, call, started, queue, held, files, session, notices, journal,
                   poller, polled, missed>>

Answer(r, script, reply, file, invalid) ==
    /\ db' = Committed(db, script)
    /\ call' = [call EXCEPT ![Head(queue)] =
                    [@ EXCEPT !.answered = TRUE, !.reply = reply, !.file = file]]
    /\ session' = invalid

Serve(r, script, reply, invalid) ==
    Answer(r, script, reply, NoFile, invalid) /\ UNCHANGED files

Reply(r, script, reply) == Serve(r, script, reply, <<>>)

(* Variant of alloc_fh with a mistake: the number of open files.           *)
alloc_fh_count == Cardinality(DOMAIN open_files) + 1

alloc_fh == next_fh

Opened(r, script, reply, i) ==
    /\ Answer(r, script, reply, <<alloc_fh, i>>, <<>>)
    /\ open_files' = [fh \in DOMAIN open_files \cup {alloc_fh} |->
                         IF fh = alloc_fh THEN i ELSE open_files[fh]]
    /\ next_fh' = next_fh + 1

lookup(r) == Reply(r, <<>>, {<<r.at, db.entry[r.at]>>})

readdirplus(r) ==
    Reply(r, <<>>, {<<x, db.entry[x]>> : x \in Children(r.at[1])})

Made(r, script) ==
    IF Creatable(r.at[1], r.at[2])
    THEN Reply(r, script, {<<r.at, NextIno(db)>>})
    ELSE Reply(r, <<>>, {})

mkdir(r) == Made(r, MkdirScript(r.at[1], r.at[2]))
mknod(r) == Made(r, MknodScript(r.at[1], r.at[2]))
symlink(r) == Made(r, SymlinkScript(r.at[1], r.at[2], r.at[2]))

create(r) ==
    IF Creatable(r.at[1], r.at[2])
    THEN Opened(r, CreateScript(r.at[1], r.at[2]), {<<r.at, NextIno(db)>>}, NextIno(db))
    ELSE Reply(r, <<>>, {})

link(r) ==
    IF Linkable(r.ino) /\ Free(r.at[1], r.at[2])
    THEN Reply(r, LinkScript(r.ino, r.at[1], r.at[2]), {<<r.at, r.ino>>})
    ELSE Reply(r, <<>>, {})

unlink(r) ==
    IF Unlinkable(r.at[1], r.at[2])
    THEN Serve(r, UnlinkScript(r.at[1], r.at[2]), {<<r.at, NoIno>>}, <<r.at>>)
    ELSE Reply(r, <<>>, {})

rmdir(r) ==
    IF Removable(r.at[1], r.at[2])
    THEN Serve(r, RmdirScript(r.at[1], r.at[2]), {<<r.at, NoIno>>}, <<r.at>>)
    ELSE Reply(r, <<>>, {})

(* The kernel moves the entry it has, whatever inode the table moved. *)
rename(r) ==
    LET i == db.entry[r.at]
        j == db.entry[r.to]
    IN  IF Exists(i) /\ Replaceable(i, j)
        THEN Serve(r, RenameScript(r.at[1], r.at[2], r.to[1], r.to[2], IsDir(i)),
                   {<<r.at, NoIno>>, <<r.to, dcache[r.at]>>}, <<r.at, r.to>>)
        ELSE Reply(r, <<>>, {})

open(r) ==
    IF Exists(r.ino) THEN Opened(r, <<>>, {}, r.ino) ELSE Reply(r, <<>>, {})

(* What these answer or set is attributes, a target or names. *)
getattr(r) == Reply(r, <<>>, {})
setattr(r) == Reply(r, <<>>, {})
readlink(r) == Reply(r, <<>>, {})
statfs(r) == Reply(r, <<>>, {})
readdir(r) == Reply(r, <<>>, {})

(* The file under the handle, or EBADF. *)
OpenFile(fh) == IF fh \in DOMAIN open_files THEN <<fh, open_files[fh]>> ELSE NoFile
Use(r) == Answer(r, <<>>, {}, OpenFile(r.fh), <<>>) /\ UNCHANGED files

read(r) == Use(r)
write(r) == Use(r)
flush(r) == Use(r)
fsync(r) == Use(r)
ftruncate(r) == Use(r)

release(fh) ==
    /\ open_files' = Restrict(open_files, DOMAIN open_files \ {fh})
    /\ UNCHANGED <<db, call, session, next_fh>>

ByName(r) ==
    CASE r.op = "lookup"      -> lookup(r)
      [] r.op = "readdirplus" -> readdirplus(r)
      [] r.op = "mkdir"       -> mkdir(r)
      [] r.op = "mknod"       -> mknod(r)
      [] r.op = "symlink"     -> symlink(r)
      [] r.op = "create"      -> create(r)
      [] r.op = "link"        -> link(r)
      [] r.op = "unlink"      -> unlink(r)
      [] r.op = "rmdir"       -> rmdir(r)
      [] r.op = "rename"      -> rename(r)

ByInode(r) ==
    CASE r.op = "open"     -> open(r)
      [] r.op = "getattr"  -> getattr(r)
      [] r.op = "setattr"  -> setattr(r)
      [] r.op = "readlink" -> readlink(r)
      [] r.op = "statfs"   -> statfs(r)
      [] r.op = "readdir"  -> readdir(r)

ByHandle(r) ==
    CASE r.op = "read"      -> read(r)
      [] r.op = "write"     -> write(r)
      [] r.op = "flush"     -> flush(r)
      [] r.op = "fsync"     -> fsync(r)
      [] r.op = "ftruncate" -> ftruncate(r)

dispatch ==
    /\ phase = "serving" /\ session = <<>> /\ queue # <<>>
    /\ queue' = Tail(queue)
    /\ \/ \E p \in Proc :
             /\ Head(queue) = p
             /\ LET r == call[p]
                IN  IF r.op \in OnInode THEN ByInode(r)
                    ELSE IF r.op \in OnHandle THEN ByHandle(r) ELSE ByName(r)
       \/ \E fh \in 1..MaxCalls : Head(queue) = fh /\ release(fh)
    /\ UNCHANGED <<dcache, started, held, notices, journal, poller, polled, missed, phase>>

(* Variant of Announce with a mistake: the session loop writes the         *)
(* invalidation itself.                                                    *)
AnnounceInline ==
    /\ session # <<>> /\ LockFree(Head(session)[1])
    /\ dcache' = [dcache EXCEPT ![Head(session)] = NoIno]
    /\ missed' = missed \cap Lagging(dcache', call)
    /\ session' = Tail(session)
    /\ UNCHANGED <<db, call, started, queue, held, files, notices, journal, poller, polled, phase>>

(* DeferredNotifier: the answer is out, its invalidations go to a channel. *)
Announce ==
    /\ session # <<>>
    /\ notices' = notices \o session
    /\ session' = <<>>
    /\ UNCHANGED <<db, dcache, call, started, queue, held, files, journal, poller, polled, missed, phase>>

(* The notify thread; on a mount that has ended the write only fails. *)
Invalidate ==
    /\ notices # <<>>
    /\ LockFree(Head(notices)[1])
    /\ dcache' = [dcache EXCEPT ![Head(notices)] = NoIno]
    /\ missed' = missed \cap Lagging(dcache', call)
    /\ notices' = Tail(notices)
    /\ UNCHANGED <<db, call, started, queue, held, files, session, journal, poller, polled, phase>>

(* run returns when the notify thread has ended, which is when every       *)
(* sender of its channel is gone; the poller keeps one until run returns.  *)
Return ==
    /\ phase = "joining" /\ notices = <<>>
    /\ ~poller
    /\ phase' = "returned"
    /\ open_files' = <<>>
    /\ UNCHANGED <<db, dcache, call, started, queue, held, next_fh, session, notices, journal, poller, polled, missed>>

-----------------------------------------------------------------------------
(* The poller, and the Worker that writes the volume and its journal. *)

(* AgentFS::open failed. *)
PollerGivesUp ==
    /\ poller /\ polled = NoBaseline
    /\ poller' = FALSE
    /\ UNCHANGED <<db, dcache, call, started, queue, held, files, session, notices, journal, polled, missed, phase>>

Baseline ==
    /\ poller /\ polled = NoBaseline
    /\ polled' = Len(journal)
    /\ missed' = Lagging(dcache, call)
    /\ UNCHANGED <<db, dcache, call, started, queue, held, files, session, notices, journal, poller, phase>>

(* Variant of Poll with a mistake: the rows beyond the batch count as read. *)
PollAhead ==
    /\ polled \in 0..Len(journal) - 1
    /\ notices' = notices \o SubSeq(journal, polled + 1, polled + Batch)
    /\ polled' = Len(journal)
    /\ UNCHANGED <<db, dcache, call, started, queue, held, files, session, journal, poller, missed, phase>>

Poll ==
    /\ polled \in 0..Len(journal) - 1
    /\ \E last \in polled + 1..Len(journal) :
          /\ last - polled = Batch \/ (last - polled < Batch /\ last = Len(journal))
          /\ notices' = notices \o SubSeq(journal, polled + 1, last)
          /\ polled' = last
    /\ UNCHANGED <<db, dcache, call, started, queue, held, files, session, journal, poller, missed, phase>>

(* A mutation through the object and its journal rows: the paths it names. *)
Write(script, rows) ==
    /\ Polling /\ Len(journal) + Len(rows) <= MaxRows
    /\ db' = Committed(db, script)
    /\ journal' = journal \o rows
    /\ UNCHANGED <<dcache, call, started, queue, held, files, session, notices, poller, polled, missed, phase>>

WorkerCreate(p, n) == Creatable(p, n) /\ Write(CreateScript(p, n), <<<<p, n>>>>)
WorkerRemove(p, n) == Unlinkable(p, n) /\ Write(UnlinkScript(p, n), <<<<p, n>>>>)
WorkerRename(p, n, q, m) ==
    /\ Unlinkable(p, n) /\ At(p, n) # At(q, m) /\ Replaceable(At(p, n), At(q, m))
    /\ Write(RenameScript(p, n, q, m, FALSE), <<<<p, n>>, <<q, m>>>>)

Worker ==
    \E p \in Ino, n \in Name :
        /\ IsDir(p)
        /\ \/ WorkerCreate(p, n) \/ WorkerRemove(p, n)
           \/ \E q \in Ino, m \in Name : IsDir(q) /\ WorkerRename(p, n, q, m)

-----------------------------------------------------------------------------
Next ==
    \/ \E p \in Proc : Start(p) \/ Close(p) \/ Finish(p)
    \/ init \/ dispatch \/ Announce \/ Invalidate \/ Return
    \/ PollerGivesUp \/ Baseline \/ Poll \/ Worker
    \/ \E x \in Place : Expire(x)
    \/ Unmount

(* The threads of the mount keep running, and the kernel takes answers. *)
Fairness ==
    /\ WF_vars(init) /\ WF_vars(dispatch) /\ WF_vars(Announce) /\ WF_vars(Invalidate) /\ WF_vars(Return)
    /\ \A p \in Proc : WF_vars(Finish(p))

Spec == Init /\ [][Next]_vars
FairSpec == Spec /\ Fairness

-----------------------------------------------------------------------------
(* "Keep the dcache consistent": an entry the kernel holds is the one in   *)
(* the table, or its invalidation is under way: it is in the channel or    *)
(* about to be, its journal row is not read yet, or the answer to a call   *)
(* on it is not installed.  What the poller's first query skipped is left  *)
(* to the lifetime of the entry.                                           *)
Due ==
    {x \in Place :
        \/ x \in ToSet(notices \o session) \cup missed
        \/ \E k \in DOMAIN journal : k > polled /\ journal[k] = x
        \/ \E p \in Calling : call[p].answered /\ \E e \in call[p].reply : e[1] = x}

KernelCatchesUp == \A x \in Place : dcache[x] \in {NoIno, db.entry[x]} \/ x \in Due

(* A handle is the file it was given for, in every call, until it is       *)
(* closed; and no file stays open that nobody has.                         *)
HandlesMatch ==
    /\ \A p \in Proc : held[p] # NoFile => OpenFile(held[p][1]) = held[p]
    /\ \A p \in Calling :
          call[p].answered /\ call[p].op \in OnHandle => call[p].file = held[p]
    /\ phase = "serving" =>
          \A fh \in DOMAIN open_files :
             \/ fh \in ToSet(queue)
             \/ \E p \in Proc : fh \in {held[p][1], call[p].file[1]}

(* No thread waits for another for ever: every call is answered, because   *)
(* the session loop never writes an invalidation itself.                   *)
Served == \A p \in Proc : (call[p] # NoCall) ~> (call[p] = NoCall)

(* "Drop all senders to close the channel, then join the notify thread":   *)
(* a mount that has ended returns.                                         *)
Ends == (phase = "joining") ~> (phase = "returned")
=============================================================================
