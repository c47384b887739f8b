----------------------------- MODULE SandboxFds -----------------------------
(***************************************************************************)
(* The ptrace sandbox (agentfs/upstream/sandbox): every system call of a   *)
(* guest stops in a handler that gives file descriptors of its own.  One   *)
(* FdTable per process maps the guest's descriptors to kernel descriptors  *)
(* (passthrough files) or to a buffer held by the sandbox (files of the    *)
(* SQLite volume).  A handler injects kernel calls and awaits them, and at *)
(* every await the handlers of other threads and processes run.            *)
(*                                                                         *)
(* A request is the list of things its handler still has to await or do    *)
(* (req[t].todo); each has an action.  guest[p] is what the guest was told *)
(* its descriptors are: the table POSIX would have.                        *)
(***************************************************************************)
EXTENDS Integers, SequencesExt

CONSTANTS
    Threads,      \* tracee threads
    Of,           \* the process of a thread
    Main,         \* the first thread of the process that is spawned
    Used,         \* the standard descriptors each thread uses
    Paths,        \* files of the SQLite volume
    Stored,       \* those that exist in the database at the start
    Uses,         \* calls a thread makes: <<call, "kernel" or "volume">>
    Budget,       \* how many calls a thread makes
    Minima,       \* arguments of F_DUPFD
    Spare,        \* an unused number a thread may dup2 to
    ForkGap       \* whether others run between a fork and its bookkeeping

Std == 0 .. 2

ASSUME SandboxAssumption ==
    /\ Main \in Threads
    /\ \A t \in Threads : Used[t] \subseteq Std /\ Spare[t] \subseteq Nat
    /\ Minima \subseteq Nat

Procs == {Of[t] : t \in Threads}
FIRST_USER_FD == 3
Terminal == 0
Unset == -1

VARIABLES
    alive,    \* processes that run
    table,    \* FD_TABLES: per process entries, next_vfd, free_fds
    kernel,   \* the kernel's descriptors of a process
    guest,    \* what the guest was told its descriptors are
    mine,     \* the descriptors a thread uses
    req,      \* the handler of a thread
    made,     \* how many open files were made so far
    file,     \* SqliteFileOps: the buffers of open volume files
    exists,   \* files in the database
    stray,    \* whether a kernel call reached another open file than was meant
    calls     \* calls made by a thread

vars == <<alive, table, kernel, guest, mine, req, made, file, exists, stray, calls>>

(* The function f with y at x. *)
Bind(f, x, y) == [z \in DOMAIN f \cup {x} |-> IF z = x THEN y ELSE f[z]]

(* The least number from "from" on that is not in S. *)
Least(S, from) == Min((from .. from + Cardinality(S)) \ S)
-----------------------------------------------------------------------------
(* FdTable.  free_fds is a heap without duplicates, hence a set.           *)

Passthrough(k) == [kernel_fd |-> k, file_ops |-> Unset]
Virtual(d) == [kernel_fd |-> Unset, file_ops |-> d]
IsVirtual(e) == e.kernel_fd = Unset

Fresh == [entries |-> [v \in Std |-> Passthrough(v)], next_vfd |-> FIRST_USER_FD, free_fds |-> {}]

Free(tb) == IF tb.free_fds # {} THEN Min(tb.free_fds) ELSE tb.next_vfd

Put(tb, v, e) == [tb EXCEPT !.entries = Bind(@, v, e)]

allocate(tb, e) ==
    LET v == Free(tb)
    IN  [Put(tb, v, e) EXCEPT !.free_fds = @ \ {v},
                              !.next_vfd = IF tb.free_fds = {} THEN v + 1 ELSE @]

(* Variant: numbers skipped by an allocation are forgotten. *)
SkippedLost(tb, v) == {}

(* The numbers skipped by an allocation beyond next_vfd become free. *)
Skipped(tb, v) == {u \in tb.next_vfd .. v - 1 : u >= FIRST_USER_FD /\ u \notin DOMAIN tb.entries}

allocate_at(tb, v, e) ==
    [Put(tb, v, e) EXCEPT !.free_fds = (@ \cup Skipped(tb, v)) \ {v},
                          !.next_vfd = IF v >= @ THEN v + 1 ELSE @]

AtLeast(tb, min) == Least(DOMAIN tb.entries, min)

allocate_min(tb, min, e) == allocate_at(tb, AtLeast(tb, min), e)

deallocate(tb, v) ==
    [tb EXCEPT !.entries = Restrict(@, DOMAIN @ \ {v}),
               !.free_fds = IF v >= FIRST_USER_FD THEN @ \cup {v} ELSE @]
-----------------------------------------------------------------------------
(* The kernel's side of a process: numbers to open files.                  *)

KernelFd(p) == Least(DOMAIN kernel[p], 0)

KernelOpens(p, d) == kernel' = [kernel EXCEPT ![p] = Bind(@, KernelFd(p), d)]

KernelCloses(p, k) == kernel' = [kernel EXCEPT ![p] = Restrict(@, DOMAIN @ \ {k})]
-----------------------------------------------------------------------------
(* Handlers.  "todo" is what a handler still awaits, "got" the kernel      *)
(* descriptors it has been given, "means" the open files they are for, and *)
(* "copy" the bytes it is writing back.  Arguments and results that are    *)
(* not descriptors are left out.                                           *)

Idle == [todo |-> <<>>, got |-> <<>>, means |-> <<>>, copy |-> 0]

(* Unless ForkGap, nobody else runs from a fork to its bookkeeping. *)
Runs(t) == \/ ForkGap
           \/ \A u \in Threads \ {t} : req[u] # Idle => Head(req[u].todo).do # "insert_fd_table"

Calls(t, call, on) == /\ Of[t] \in alive
                      /\ req[t] = Idle
                      /\ Runs(t)
                      /\ <<call, on>> \in Uses[t]
                      /\ calls[t] < Budget[t]
                      /\ calls' = [calls EXCEPT ![t] = @ + 1]

CallsOn(t, call, e) == Calls(t, call, IF IsVirtual(e) THEN "volume" ELSE "kernel")

Awaits(t, do) == /\ req[t].todo # <<>>
                 /\ Head(req[t].todo).do = do
                 /\ Of[t] \in alive
                 /\ Runs(t)
                 /\ UNCHANGED <<alive, calls>>

Await(todo, means) == [Idle EXCEPT !.todo = todo, !.means = means]

Begin(t, todo, means) == req' = [req EXCEPT ![t] = Await(todo, means)]

Next1(t) == [req[t] EXCEPT !.todo = Tail(@)]

Continue(t) == req' = [req EXCEPT ![t] = IF Len(@.todo) = 1 THEN Idle ELSE Next1(t)]

Return(t) == req' = [req EXCEPT ![t] = Idle]

Entry(t, v) == table[Of[t]].entries[v]

(* The thread is told that v is now the open file d. *)
Told(t, v, d) == /\ guest' = [guest EXCEPT ![Of[t]] = Bind(@, v, d)]
                 /\ mine' = [mine EXCEPT ![t] = @ \cup {v}]

Untouched == UNCHANGED <<alive, table, kernel, guest, mine, made, file, exists, stray>>

(* Kernel files; pipe2 makes two. *)
Opens(t, call) ==
    /\ Calls(t, call, "kernel")
    /\ Begin(t, <<[do |-> "open"], [do |-> "allocate"]>>, <<>>)
    /\ Untouched

handle_openat(t) == Opens(t, "openat")
handle_socket(t) == Opens(t, "socket")

handle_pipe2(t) ==
    /\ Calls(t, "pipe2", "kernel")
    /\ Begin(t, <<[do |-> "open"], [do |-> "open"], [do |-> "allocate"]>>, <<>>)
    /\ Untouched

(* openat of a file of the volume: the buffer is read at once, a new file  *)
(* is only made when it is written back.                                   *)
OpenVirtual(t, f) ==
    /\ Calls(t, "openat", "volume")
    /\ made' = made + 1
    /\ file' = Bind(file, made', [path |-> f, new |-> f \notin exists, data |-> 0, saved |-> 0, told |-> 0,
                                  dirty |-> f \notin exists])
    /\ table' = [table EXCEPT ![Of[t]] = allocate(@, Virtual(made'))]
    /\ Told(t, Free(table[Of[t]]), made')
    /\ UNCHANGED <<alive, kernel, req, exists, stray>>

(* The number a kernel call is given for v, and the open file it is for.   *)
(* translate has no kernel descriptor for a volume file, and the call goes *)
(* to the kernel with the number the guest used.                           *)
Translated(t, v) ==
    LET e == Entry(t, v)
    IN  <<IF IsVirtual(e) THEN v ELSE e.kernel_fd, guest[Of[t]][v]>>

Passes(t, on) == Begin(t, <<[do |-> "call", on |-> on]>>, <<>>)

(* Calls whose descriptor is translated. *)
PassesOn(t, call, v) == CallsOn(t, call, Entry(t, v)) /\ Passes(t, {Translated(t, v)}) /\ Untouched

handle_ioctl(t, v) == PassesOn(t, "ioctl", v)
handle_pread64(t, v) == PassesOn(t, "pread64", v)
handle_pwrite64(t, v) == PassesOn(t, "pwrite64", v)
handle_mmap(t, v) == PassesOn(t, "mmap", v)
handle_readv(t, v) == PassesOn(t, "readv", v)
handle_writev(t, v) == PassesOn(t, "writev", v)
handle_sendto(t, v) == PassesOn(t, "sendto", v)
handle_connect(t, v) == PassesOn(t, "connect", v)
handle_getpeername(t, v) == PassesOn(t, "getpeername", v)
handle_faccessat(t, v) == PassesOn(t, "faccessat", v)
handle_faccessat2(t, v) == PassesOn(t, "faccessat2", v)
handle_fchownat(t, v) == PassesOn(t, "fchownat", v)

(* A volume file answers these itself; its position is left out. *)
AnsweredBy(t, call, v) ==
    LET e == Entry(t, v)
    IN  /\ CallsOn(t, call, e)
        /\ IF IsVirtual(e) THEN req' = req ELSE Passes(t, {Translated(t, v)})
        /\ Untouched

handle_read(t, v) == AnsweredBy(t, "read", v)
handle_lseek(t, v) == AnsweredBy(t, "lseek", v)
handle_getdents64(t, v) == AnsweredBy(t, "getdents64", v)

(* FileOps::write: into the buffer. *)
Write(d) == [file EXCEPT ![d].data = @ + 1, ![d].told = @ + 1, ![d].dirty = TRUE]

handle_write(t, v) ==
    LET e == Entry(t, v)
    IN  /\ CallsOn(t, "write", e)
        /\ IF IsVirtual(e) THEN file' = Write(e.file_ops) /\ req' = req
                           ELSE file' = file /\ Passes(t, {Translated(t, v)})
        /\ UNCHANGED <<alive, table, kernel, guest, mine, made, exists, stray>>

(* poll and pselect6 name several descriptors; pselect6 leaves out those   *)
(* without a kernel descriptor, and looks its answer up in the table again.*)
handle_poll(t, V) ==
    /\ Calls(t, "poll", "kernel")
    /\ Passes(t, {Translated(t, v) : v \in V})
    /\ Untouched

translate_to_kernel(t, V) == {Translated(t, v) : v \in {u \in V : ~IsVirtual(Entry(t, u))}}

handle_pselect6(t, V) ==
    LET on == translate_to_kernel(t, V)
    IN  /\ Calls(t, "pselect6", "kernel")
        /\ Begin(t, <<[do |-> "call", on |-> on], [do |-> "report", on |-> on]>>, <<>>)
        /\ Untouched

(* Relative paths are no mount's, and then statx, newfstatat, readlinkat,  *)
(* symlinkat and linkat go to the kernel as they came.  (With an absolute  *)
(* path the kernel does not look at the descriptor.)                       *)
Relative(t, call, V) ==
    /\ Calls(t, call, "kernel")
    /\ Passes(t, {<<v, guest[Of[t]][v]>> : v \in V})
    /\ Untouched

handle_statx(t, v) == Relative(t, "statx", {v})
handle_newfstatat(t, v) == Relative(t, "newfstatat", {v})
handle_readlinkat(t, v) == Relative(t, "readlinkat", {v})
handle_symlinkat(t, v) == Relative(t, "symlinkat", {v})
handle_linkat(t, v, u) == Relative(t, "linkat", {v, u})

(* In the volume, symlink, symlinkat and linkat make names. *)
Names(t, call, f, possible) ==
    /\ Calls(t, call, "volume")
    /\ exists' = IF possible THEN exists \cup {f} ELSE exists
    /\ UNCHANGED <<alive, table, kernel, guest, mine, req, made, file, stray>>

handle_symlink(t, f) == Names(t, "symlink", f, TRUE)
Link(t, g, f) == Names(t, "linkat", f, g \in exists)

(* get_or_create_ino of fstat makes a new file and forgets that it did. *)
handle_fstat(t, v) ==
    LET e == Entry(t, v)
    IN  /\ CallsOn(t, "fstat", e)
        /\ IF IsVirtual(e)
           THEN /\ req' = req
                /\ exists' = IF file[e.file_ops].new THEN exists \cup {file[e.file_ops].path} ELSE exists
           ELSE exists' = exists /\ Passes(t, {Translated(t, v)})
        /\ UNCHANGED <<alive, table, kernel, guest, mine, made, file, stray>>

(* FileOps::close writes the buffer back. *)
Closing(e) == IF IsVirtual(e) THEN <<[do |-> "fsync", of |-> e.file_ops]>>
                              ELSE <<[do |-> "close", fd |-> e.kernel_fd]>>

handle_close(t, v) ==
    LET e == Entry(t, v)
        p == Of[t]
    IN  /\ CallsOn(t, "close", e)
        /\ table' = [table EXCEPT ![p] = deallocate(@, v)]
        /\ guest' = [guest EXCEPT ![p] = Restrict(@, DOMAIN @ \ {v})]
        /\ mine' = [mine EXCEPT ![t] = @ \ {v}]
        /\ Begin(t, Closing(e), <<>>)
        /\ UNCHANGED <<alive, kernel, made, file, exists, stray>>

handle_dup(t, v) ==
    LET e == Entry(t, v)
        d == guest[Of[t]][v]
    IN  /\ CallsOn(t, "dup", e)
        /\ IF IsVirtual(e)
           THEN /\ table' = [table EXCEPT ![Of[t]] = allocate(@, e)]
                /\ Told(t, Free(table[Of[t]]), d)
                /\ req' = req
           ELSE /\ Begin(t, <<[do |-> "dup", fd |-> e.kernel_fd], [do |-> "allocate"]>>, <<d>>)
                /\ UNCHANGED <<table, guest, mine>>
        /\ UNCHANGED <<alive, kernel, made, file, exists, stray>>

(* F_DUPFD of a kernel file. *)
handle_fcntl(t, v, min) ==
    LET e == Entry(t, v)
    IN  /\ Calls(t, "fcntl", "kernel")
        /\ ~IsVirtual(e)
        /\ Begin(t, <<[do |-> "dup", fd |-> e.kernel_fd], [do |-> "allocate_min", min |-> min]>>,
                 <<guest[Of[t]][v]>>)
        /\ Untouched

(* Variant: only what the kernel has is closed. *)
ReplacedSilently(t, to) == IF /\ to \in DOMAIN table[Of[t]].entries
                              /\ ~IsVirtual(Entry(t, to)) THEN Closing(Entry(t, to)) ELSE <<>>

(* dup2 and dup3: what "to" was is looked up before the first await, closed *)
(* after the kernel's dup, and replaced last.                              *)
Replaced(t, to) == IF to \in DOMAIN table[Of[t]].entries THEN Closing(Entry(t, to)) ELSE <<>>

(* Variant: the target is closed before the source is duplicated. *)
Dup2ClosesFirst(t, v, to) ==
    LET e == Entry(t, v)
    IN  /\ CallsOn(t, "dup2", e)
        /\ Begin(t, Replaced(t, to)
                    \o (IF IsVirtual(e) THEN <<>> ELSE <<[do |-> "dup", fd |-> e.kernel_fd]>>)
                    \o <<[do |-> "allocate_at", fd |-> to, entry |-> e]>>,
                 <<guest[Of[t]][v]>>)
        /\ Untouched

handle_dup2(t, v, to) ==
    LET e == Entry(t, v)
    IN  /\ CallsOn(t, "dup2", e)
        /\ Begin(t, (IF IsVirtual(e) THEN <<>> ELSE <<[do |-> "dup", fd |-> e.kernel_fd]>>)
                    \o Replaced(t, to) \o <<[do |-> "allocate_at", fd |-> to, entry |-> e]>>,
                 <<guest[Of[t]][v]>>)
        /\ Untouched

(* fork, vfork and clone without CLONE_FILES. *)
handle_fork(t, p) ==
    /\ Calls(t, "fork", "kernel")
    /\ p \notin alive
    /\ Begin(t, <<[do |-> "fork", to |-> p], [do |-> "insert_fd_table", to |-> p]>>, <<>>)
    /\ Untouched

(* No handler: the kernel closes its descriptors, the table stays. *)
Exit(t) ==
    LET p == Of[t]
    IN  /\ \A u \in Threads : Of[u] = p => req[u] = Idle
        /\ Calls(t, "exit", IF \E u \in Threads : \E v \in mine[u] : Of[u] = p /\ guest[p][v] \in DOMAIN file
                            THEN "volume" ELSE "kernel")
        /\ alive' = alive \ {p}
        /\ kernel' = [kernel EXCEPT ![p] = <<>>]
        /\ guest' = [guest EXCEPT ![p] = <<>>]
        /\ mine' = [u \in Threads |-> IF Of[u] = p THEN {} ELSE mine[u]]
        /\ UNCHANGED <<table, req, made, file, exists, stray>>
-----------------------------------------------------------------------------
(* What handlers await. *)

Open(t) ==
    /\ Awaits(t, "open")
    /\ made' = made + 1
    /\ KernelOpens(Of[t], made')
    /\ req' = [req EXCEPT ![t] = [Next1(t) EXCEPT !.got = Append(@, KernelFd(Of[t])),
                                                  !.means = Append(@, made')]]
    /\ UNCHANGED <<table, guest, mine, file, exists, stray>>

Dup(t) ==
    LET k == Head(req[t].todo).fd
    IN  /\ Awaits(t, "dup")
        /\ IF k \in DOMAIN kernel[Of[t]]
           THEN /\ KernelOpens(Of[t], kernel[Of[t]][k])
                /\ req' = [req EXCEPT ![t] = [Next1(t) EXCEPT !.got = <<KernelFd(Of[t])>>]]
           ELSE Return(t) /\ kernel' = kernel
        /\ UNCHANGED <<table, guest, mine, made, file, exists, stray>>

Close(t) ==
    /\ Awaits(t, "close")
    /\ KernelCloses(Of[t], Head(req[t].todo).fd)
    /\ Continue(t)
    /\ UNCHANGED <<table, guest, mine, made, file, exists, stray>>

(* The calls that reach another open file than the one they are for. *)
Call(t) ==
    LET open == kernel[Of[t]]
    IN  /\ Awaits(t, "call")
        /\ stray' = (stray \/ \E x \in Head(req[t].todo).on : x[1] \in DOMAIN open /\ open[x[1]] # x[2])
        /\ Continue(t)
        /\ UNCHANGED <<table, kernel, guest, mine, made, file, exists>>

(* The thread is told of descriptors that have the kernel's by now. *)
translate_to_virtual(t) ==
    {v \in DOMAIN table[Of[t]].entries :
        \E x \in Head(req[t].todo).on : x[1] = Entry(t, v).kernel_fd}

Report(t) ==
    LET meant == {x[2] : x \in Head(req[t].todo).on}
        told == {guest[Of[t]][v] : v \in translate_to_virtual(t) \cap DOMAIN guest[Of[t]]}
    IN  /\ Awaits(t, "report")
        /\ stray' = (stray \/ ~(told \subseteq meant))
        /\ Return(t)
        /\ UNCHANGED <<table, kernel, guest, mine, made, file, exists>>

Allocate(t) ==
    LET got == req[t].got
        means == req[t].means
        first == table[Of[t]]
        second == allocate(first, Passthrough(got[1]))
    IN  /\ Awaits(t, "allocate")
        /\ IF Len(got) = 1
           THEN /\ table' = [table EXCEPT ![Of[t]] = second]
                /\ Told(t, Free(first), means[1])
           ELSE /\ table' = [table EXCEPT ![Of[t]] = allocate(second, Passthrough(got[2]))]
                /\ guest' = [guest EXCEPT ![Of[t]] =
                                Bind(Bind(@, Free(first), means[1]), Free(second), means[2])]
                /\ mine' = [mine EXCEPT ![t] = @ \cup {Free(first), Free(second)}]
        /\ Return(t)
        /\ UNCHANGED <<kernel, made, file, exists, stray>>

AllocateMin(t) ==
    LET min == Head(req[t].todo).min
        tb == table[Of[t]]
    IN  /\ Awaits(t, "allocate_min")
        /\ table' = [table EXCEPT ![Of[t]] = allocate_min(@, min, Passthrough(req[t].got[1]))]
        /\ Told(t, AtLeast(tb, min), req[t].means[1])
        /\ Return(t)
        /\ UNCHANGED <<kernel, made, file, exists, stray>>

AllocateAt(t) ==
    LET do == Head(req[t].todo)
        e == IF IsVirtual(do.entry) THEN do.entry ELSE Passthrough(req[t].got[1])
    IN  /\ Awaits(t, "allocate_at")
        /\ table' = [table EXCEPT ![Of[t]] = allocate_at(@, do.fd, e)]
        /\ Told(t, do.fd, req[t].means[1])
        /\ Return(t)
        /\ UNCHANGED <<kernel, made, file, exists, stray>>

(* fsync: a clean buffer needs nothing; a dirty one is copied, *)
Fsync(t) ==
    LET d == Head(req[t].todo).of
    IN  /\ Awaits(t, "fsync")
        /\ IF file[d].dirty
           THEN req' = [req EXCEPT ![t].copy = file[d].data, ![t].todo[1].do = "create"]
           ELSE Continue(t)
        /\ UNCHANGED <<table, kernel, guest, mine, made, file, exists, stray>>

(* get_or_create_ino makes the file if the buffer was opened without one,   *)
(* and fails if the file is there by now,                                  *)
Create(t) ==
    LET d == Head(req[t].todo).of
    IN  /\ Awaits(t, "create")
        /\ IF file[d].new /\ file[d].path \in exists
           THEN Continue(t) /\ exists' = exists
           ELSE /\ req' = [req EXCEPT ![t].todo[1].do = "store"]
                /\ exists' = exists \cup {file[d].path}
        /\ UNCHANGED <<table, kernel, guest, mine, made, file, stray>>

(* and the copy is written; the buffer is clean when that returns. *)
Store(t) ==
    LET d == Head(req[t].todo).of
    IN  /\ Awaits(t, "store")
        /\ file' = [file EXCEPT ![d].saved = req[t].copy, ![d].dirty = FALSE]
        /\ Continue(t)
        /\ UNCHANGED <<table, kernel, guest, mine, made, exists, stray>>

(* The child starts with copies of the kernel's descriptors and uses those *)
(* of the forking thread, volume files only if "inherit" is among its uses. *)
Fork(t) ==
    LET p == Of[t]
        c == Head(req[t].todo).to
        Takes(u) == {v \in mine[t] : \/ ~IsVirtual(table[p].entries[v])
                                     \/ <<"inherit", "volume">> \in Uses[u]}
    IN  /\ req[t].todo # <<>> /\ Head(req[t].todo).do = "fork"
        /\ p \in alive
        /\ ForkGap \/ \A u \in Threads \ {t} : req[u] = Idle
        /\ alive' = alive \cup {c}
        /\ kernel' = [kernel EXCEPT ![c] = kernel[p]]
        /\ guest' = [guest EXCEPT ![c] = guest[p]]
        /\ mine' = [u \in Threads |-> IF Of[u] = c THEN Takes(u) ELSE mine[u]]
        /\ Continue(t)
        /\ UNCHANGED <<table, made, file, exists, stray, calls>>

InsertTable(t) ==
    /\ Awaits(t, "insert_fd_table")
    /\ table' = [table EXCEPT ![Head(req[t].todo).to] = table[Of[t]]]
    /\ Continue(t)
    /\ UNCHANGED <<kernel, guest, mine, made, file, exists, stray>>
-----------------------------------------------------------------------------
Init ==
    /\ alive = {Of[Main]}
    /\ table = [p \in Procs |-> Fresh]
    /\ kernel = [p \in Procs |-> IF p = Of[Main] THEN [k \in Std |-> Terminal] ELSE <<>>]
    /\ guest = kernel
    /\ mine = [t \in Threads |-> IF Of[t] = Of[Main] THEN Used[t] ELSE {}]
    /\ req = [t \in Threads |-> Idle]
    /\ made = 0
    /\ file = <<>>
    /\ exists = Stored
    /\ stray = FALSE
    /\ calls = [t \in Threads |-> 0]

(* A thread names descriptors it has; dup2 may also name a spare number. *)
Known(t) == mine[t] \cap DOMAIN table[Of[t]].entries

OnOwn(t) == \E v \in Known(t) :
    \/ handle_write(t, v) \/ handle_fstat(t, v) \/ handle_close(t, v) \/ handle_dup(t, v)
    \/ \E min \in Minima : handle_fcntl(t, v, min)
    \/ \E to \in mine[t] \cup Spare[t] : handle_dup2(t, v, to)
    \/ handle_read(t, v) \/ handle_lseek(t, v) \/ handle_getdents64(t, v)
    \/ handle_ioctl(t, v) \/ handle_pread64(t, v) \/ handle_pwrite64(t, v) \/ handle_mmap(t, v)
    \/ handle_readv(t, v) \/ handle_writev(t, v)
    \/ handle_sendto(t, v) \/ handle_connect(t, v) \/ handle_getpeername(t, v)

OnPath(t) ==
    \/ \E v \in Known(t) : \/ handle_statx(t, v) \/ handle_newfstatat(t, v) \/ handle_readlinkat(t, v)
                           \/ handle_faccessat(t, v) \/ handle_faccessat2(t, v) \/ handle_fchownat(t, v)
                           \/ handle_symlinkat(t, v) \/ \E u \in Known(t) : handle_linkat(t, v, u)
    \/ \E f \in Paths : handle_symlink(t, f) \/ \E g \in Paths : Link(t, g, f)

OnSeveral(t) == \E v, u \in Known(t) : handle_poll(t, {v, u}) \/ handle_pselect6(t, {v, u})

Handle(t) == \/ handle_openat(t) \/ handle_socket(t) \/ handle_pipe2(t)
             \/ \E f \in Paths : OpenVirtual(t, f)
             \/ OnOwn(t) \/ OnPath(t) \/ OnSeveral(t)
             \/ \E p \in Procs : handle_fork(t, p)
             \/ Exit(t)

Resume(t) == \/ Open(t) \/ Dup(t) \/ Close(t) \/ Call(t) \/ Report(t)
             \/ Allocate(t) \/ AllocateMin(t) \/ AllocateAt(t)
             \/ Fsync(t) \/ Create(t) \/ Store(t)
             \/ Fork(t) \/ InsertTable(t)

Next == \E t \in Threads : Handle(t) \/ Resume(t)

Spec == Init /\ [][Next]_vars
-----------------------------------------------------------------------------
(* What a descriptor of the guest reaches through the table. *)
Reaches(p, v) ==
    LET e == table[p].entries[v]
    IN  IF IsVirtual(e) THEN e.file_ops
        ELSE IF e.kernel_fd \in DOMAIN kernel[p] THEN kernel[p][e.kernel_fd] ELSE Unset

(* Descriptors a dup2 of the process is about to replace, and the kernel    *)
(* descriptors its handlers hold in hand.                                  *)
Pending(p) == UNION {Range(req[t].todo) : t \in {u \in Threads : Of[u] = p}}
BeingReplaced(p) == {do.fd : do \in {x \in Pending(p) : x.do = "allocate_at"}}
InHand(p) == {do.fd : do \in {x \in Pending(p) : x.do = "close"}}
             \cup UNION {Range(req[t].got) : t \in {u \in Threads : Of[u] = p}}

Settling == {do.to : do \in {x \in UNION {Pending(p) : p \in alive} : x.do = "insert_fd_table"}}

(* The guest sees the descriptors POSIX would give it: through the table    *)
(* each reaches the open file it was made for, none is lost or invented,    *)
(* and every kernel descriptor belongs to an entry or to a handler in       *)
(* progress.  Handlers of two threads interleave at each kernel call, while *)
(* numbers on both sides are closed and given out again.                   *)
TableIsPosix ==
    \A p \in alive \ Settling :
        /\ DOMAIN guest[p] = DOMAIN table[p].entries
        /\ \A v \in DOMAIN guest[p] \ BeingReplaced(p) : Reaches(p, v) = guest[p][v]
        /\ \A k \in DOMAIN kernel[p] \ InHand(p) :
               \E v \in DOMAIN table[p].entries : table[p].entries[v].kernel_fd = k

(* allocate gives out the lowest user descriptor without an entry, however  *)
(* entries were closed, moved and skipped before (the table keeps only a    *)
(* heap of freed numbers and a high-water mark).                           *)
LowestFirst == \A p \in Procs : Free(table[p]) = Least(DOMAIN table[p].entries, FIRST_USER_FD)

(* Once nobody has a volume file open and no handler is at work on it, the  *)
(* database has all that was written to it.                                *)
Released(d) == /\ \A p \in alive : d \notin Range(guest[p])
               /\ \A t \in Threads : d \notin {do.of : do \in {x \in Range(req[t].todo) : "of" \in DOMAIN x}}

WrittenIsStored == \A d \in DOMAIN file : Released(d) => file[d].saved = file[d].told

(* A call reaches the open file its descriptor stands for, or none. *)
CallsLand == ~stray
=============================================================================
