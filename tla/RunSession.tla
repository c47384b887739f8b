----------------------------- MODULE RunSession -----------------------------
(* Invocations of the agentfs command that share one machine: `run` and the
   runs that join its session, `exec`, the `mount` daemon, `mount prune`, and
   `run` with NFS as macOS does it.  A run mounts its overlay with a FUSE
   server in its own process, forks, and makes the child's namespaces together
   with it over two pipes; the last step of an owner unmounts and removes the
   mountpoint.  Sources: cli/src/sandbox/linux.rs, mount/mod.rs, mount/fuse.rs,
   cmd/ps.rs, cmd/exec.rs, cmd/mount.rs, cmd/run_darwin.rs, daemon.rs and
   fuser/mnt/fuse_pure.rs. *)
EXTENDS Naturals, Sequences, FiniteSets, SequencesExt

CONSTANTS
  Cmd,        \* invocations
  Scenarios,  \* what each of them is: a set of functions from Cmd
  Session,    \* the mountpoint of the one session of all runs
  Plain,      \* a directory without a mount
  Fails,      \* the steps that may fail
  Apart,      \* no run of the session starts or ends while another does
  MaxKills    \* processes that are killed

Programs == {"run", "exec", "mount", "prune", "nfsrun"}
Steps == {"open", "slow", "thread", "fork", "unshare", "map", "register",
          "bind", "seal", "exec", "unmount", "umount"}

ASSUME SessionAssumption ==
  /\ Session \notin Cmd /\ Plain \notin Cmd
  /\ Scenarios \subseteq [Cmd -> Programs]
  /\ \A s \in Scenarios : \A i, j \in Cmd :  \* prune is of one invocation
       s[i] = "prune" /\ s[j] = "prune" => i = j
  /\ Fails \subseteq Steps
  /\ Apart \in BOOLEAN
  /\ MaxKills \in Nat

VARIABLES
  program,  \* the scenario
  pc,       \* what the main thread of an invocation does next
  role,     \* whether a run owns the session or joins it
  fate,     \* how an invocation ended
  thread,   \* its server: the FUSE thread or the NFS task
  child,    \* the process it forked
  pipe,     \* up to the parent and down to the child: a byte, who can write
  view,     \* the mounts in the child's namespace once they are private
  cwd,      \* what the command's working directory is on
  signals,  \* TERM_SIGNAL_COUNT
  stack,    \* the mounts at each mountpoint of the initial namespace
  dir,      \* the mountpoints that exist
  proc,     \* invocations with a proc file
  prune,    \* what a prune has read
  reported, \* what the parent of a mount daemon told the user
  kills,
  erased,   \* servers whose tree a clean-up removed
  pruned    \* servers whose mount a prune took away

parent == <<pc, role, fate>>
kids == <<child, pipe, view, cwd>>
history == <<reported, kills, erased, pruned>>
vars == <<program, pc, role, fate, thread, child, pipe, view, cwd, signals,
          stack, dir, proc, prune, reported, kills, erased, pruned>>

Places == Cmd \cup {Session}
NoMounts == [p \in Places |-> <<>>]
Place(i) == IF program[i] \in {"run", "nfsrun"} THEN Session ELSE i
Alive(i) == pc[i] \notin {"idle", "over"}
Serves(m) == thread[m] = "serving"
TopOf(mounts, p) == IF mounts[p] = <<>> THEN Plain ELSE Last(mounts[p])
Top(p) == TopOf(stack, p)
Dead(p) == Top(p) # Plain /\ ~Serves(Top(p))

(* A stat of a mount whose server is gone fails, so that it is none. *)
is_mountpoint(p) == dir[p] /\ Top(p) # Plain /\ Serves(Top(p))

Popped(p) == [stack EXCEPT ![p] = IF @ = <<>> THEN @ ELSE Front(@)]
MayFail(step) == step \in Fails
Eof(p) == ~p.byte /\ p.ends = {}

(* When a run starts and ends, as seen by the others. *)
Starting(i) ==
  \/ pc[i] \in {"setup", "opening", "mounting", "mounted", "joining", "sync",
                "mapping", "mapped", "registered", "readying"}
  \/ child[i] \in {"new", "unshared", "ready", "private", "bound", "sealed"}
Ending(i) == \/ pc[i] \in {"aborting", "dropping", "unmount", "clean"}
             \/ pc[i] = "waiting" /\ child[i] = "exited"
Others(i) == {j \in Cmd \ {i} : Place(j) = Place(i)}
MayStart(i) == Apart => \A j \in Others(i) : ~Starting(j) /\ ~Ending(j)
MayEnd(i) == Apart /\ role[i] = "owner" => \A j \in Others(i) : ~Starting(j)

-----------------------------------------------------------------------------
(* The end of a process closes its pipe ends and takes its server along.  A
   child it forked lives on. *)
End(i, how) ==
  /\ pc' = [pc EXCEPT ![i] = "over"]
  /\ fate' = [fate EXCEPT ![i] = how]
  /\ thread' = [thread EXCEPT ![i] =
                  IF @ \in {"serving", "ended"} THEN "gone" ELSE "none"]
  /\ pipe' = [pipe EXCEPT ![i].down.ends = @ \ {"parent"},
                          ![i].up.ends = @ \ {"parent"}]

Goto(i, next) == /\ pc' = [pc EXCEPT ![i] = next]
                 /\ UNCHANGED <<fate, thread, pipe>>

(* Directories are made; create_dir_all fails where a dead mount is.  macOS
   may still have the attributes of one. *)
setup_run_directory(i) ==
  /\ pc[i] = "idle" /\ program[i] \in {"run", "nfsrun"} /\ MayStart(i)
  /\ \/ /\ Dead(Session) => program[i] = "nfsrun"
        /\ dir' = [dir EXCEPT ![Session] = TRUE]
        /\ Goto(i, "setup")
     \/ Dead(Session) /\ End(i, "failed") /\ UNCHANGED dir
  /\ UNCHANGED <<program, role, child, view, cwd, signals, stack, proc, prune,
                 history>>

(* Variant: a session is joined if one of its processes is registered. *)
join_or_ownRegistered(i) ==
  /\ pc[i] = "setup" /\ program[i] = "run"
  /\ IF proc # {}
       THEN Goto(i, "joining") /\ role' = [role EXCEPT ![i] = "joiner"]
       ELSE Goto(i, "opening") /\ role' = [role EXCEPT ![i] = "owner"]
  /\ UNCHANGED <<program, child, view, cwd, signals, stack, dir, proc, prune,
                 history>>
(* Variant: a session is joined if its directory exists. *)
join_or_ownAny(i) ==
  /\ pc[i] = "setup" /\ program[i] = "run"
  /\ IF dir[Session]
       THEN Goto(i, "joining") /\ role' = [role EXCEPT ![i] = "joiner"]
       ELSE Goto(i, "opening") /\ role' = [role EXCEPT ![i] = "owner"]
  /\ UNCHANGED <<program, child, view, cwd, signals, stack, dir, proc, prune,
                 history>>
(* A live mount is joined, anything else mounted on. *)
join_or_own(i) ==
  /\ pc[i] = "setup" /\ program[i] = "run"
  /\ IF is_mountpoint(Session)
       THEN Goto(i, "joining") /\ role' = [role EXCEPT ![i] = "joiner"]
       ELSE Goto(i, "opening") /\ role' = [role EXCEPT ![i] = "owner"]
  /\ UNCHANGED <<program, child, view, cwd, signals, stack, dir, proc, prune,
                 history>>

(* A dead mount is unmounted if the attributes of its root are still cached. *)
nfs_join_or_own(i) ==
  /\ pc[i] = "setup" /\ program[i] = "nfsrun"
  /\ IF is_mountpoint(Session)
       THEN /\ Goto(i, "mounted") /\ role' = [role EXCEPT ![i] = "joiner"]
            /\ UNCHANGED stack
       ELSE /\ Goto(i, "opening") /\ role' = [role EXCEPT ![i] = "owner"]
            /\ \/ UNCHANGED stack
               \/ Dead(Session) /\ stack' = Popped(Session)
  /\ UNCHANGED <<program, child, view, cwd, signals, dir, proc, prune, history>>

(* The database and its overlay are opened, then the server is started. *)
open_overlay(i) ==
  /\ pc[i] = "opening" /\ program[i] = "run"
  /\ \/ /\ pc' = [pc EXCEPT ![i] = "mounting"]
        /\ thread' = [thread EXCEPT ![i] = "mounting"]
        /\ UNCHANGED <<fate, pipe>>
     \/ MayFail("open") /\ End(i, "failed")
  /\ UNCHANGED <<program, role, child, view, cwd, signals, stack, dir, proc,
                 prune, history>>

(* macOS: the server listens before anything is mounted. *)
nfs_open_overlay(i) ==
  /\ pc[i] = "opening" /\ program[i] = "nfsrun"
  /\ \/ /\ pc' = [pc EXCEPT ![i] = "mounting"]
        /\ thread' = [thread EXCEPT ![i] = "serving"]
        /\ UNCHANGED <<fate, pipe>>
     \/ MayFail("open") /\ End(i, "failed")
  /\ UNCHANGED <<program, role, child, view, cwd, signals, stack, dir, proc,
                 prune, history>>

handle_exec_command(i) ==
  /\ pc[i] = "idle" /\ program[i] = "exec"
  /\ \/ /\ pc' = [pc EXCEPT ![i] = "mounting"]
        /\ thread' = [thread EXCEPT ![i] = "mounting"]
        /\ role' = [role EXCEPT ![i] = "owner"]
        /\ dir' = [dir EXCEPT ![i] = TRUE]
        /\ UNCHANGED <<fate, pipe>>
     \/ MayFail("open") /\ End(i, "failed") /\ UNCHANGED <<role, dir>>
  /\ UNCHANGED <<program, child, view, cwd, signals, stack, proc, prune, history>>

(* The daemon is forked off; its end of the pipe is the only one to write. *)
daemonize(i) ==
  /\ pc[i] = "idle" /\ program[i] = "mount"
  /\ pc' = [pc EXCEPT ![i] = "readying"]
  /\ thread' = [thread EXCEPT ![i] = "mounting"]
  /\ pipe' = [pipe EXCEPT ![i].up = [byte |-> FALSE, ends |-> {"parent"}]]
  /\ UNCHANGED <<program, role, fate, child, view, cwd, signals, stack, dir, proc,
                 prune, history>>

(* The FUSE thread mounts on what the path resolves to. *)
Mountable(p) == dir[p] /\ ~Dead(p)
fuse_mount_pure(i) ==
  /\ thread[i] = "mounting"
  /\ LET p == Place(i)
     IN \/ /\ Mountable(p)
           /\ thread' = [thread EXCEPT ![i] = "serving"]
           /\ stack' = [stack EXCEPT ![p] = Append(@, i)]
        \/ /\ MayFail("thread") \/ ~Mountable(p)
           /\ thread' = [thread EXCEPT ![i] = "failed"]
           /\ UNCHANGED stack
  /\ UNCHANGED <<program, parent, kids, signals, dir, proc, prune, history>>

(* The session loop ends when no namespace has the mount any more. *)
Pinned(m) == \E p \in Places :
  m \in ToSet(stack[p]) \/ \E i \in Cmd : cwd[i] = m \/ m \in ToSet(view[i][p])
session_ends(m) ==
  /\ Serves(m) /\ program[m] # "nfsrun" /\ ~Pinned(m)
  /\ thread' = [thread EXCEPT ![m] = "ended"]
  /\ UNCHANGED <<program, parent, kids, signals, stack, dir, proc, prune, history>>

wait_for_mount(i) ==
  /\ pc[i] = "mounting" /\ program[i] \in {"run", "exec"}
  /\ \/ is_mountpoint(Place(i)) /\ Goto(i, "mounted")
     \/ /\ ~is_mountpoint(Place(i))
        /\ thread[i] = "mounting" => MayFail("slow")
        /\ End(i, "late")
  /\ UNCHANGED <<program, role, child, view, cwd, signals, stack, dir, proc,
                 prune, history>>

mount_nfs(i) ==
  /\ pc[i] = "mounting" /\ program[i] = "nfsrun"
  /\ \/ /\ Mountable(Session)
        /\ stack' = [stack EXCEPT ![Session] = Append(@, i)]
        /\ Goto(i, "mounted")
     \/ /\ MayFail("thread") \/ ~Mountable(Session)
        /\ End(i, "failed") /\ UNCHANGED stack
  /\ UNCHANGED <<program, role, child, view, cwd, signals, dir, proc, prune, history>>

(* One byte tells the parent of a daemon that it is mounted. *)
signal_parent(i) ==
  /\ pc' = [pc EXCEPT ![i] = "serving"]
  /\ pipe' = [pipe EXCEPT ![i].up = [byte |-> TRUE, ends |-> {}]]

(* The daemon waits for its mount, and gives up with its thread or in time. *)
daemon_ready(i) ==
  /\ pc[i] = "readying"
  /\ \/ is_mountpoint(i) /\ signal_parent(i) /\ UNCHANGED <<fate, thread>>
     \/ /\ ~is_mountpoint(i)
        /\ thread[i] = "mounting" => MayFail("slow")
        /\ End(i, "late")
  /\ UNCHANGED <<program, role, child, view, cwd, signals, stack, dir, proc,
                 prune, history>>

(* The parent of the daemon takes the end of the pipe for a failure. *)
wait_for_signal(i) ==
  /\ program[i] = "mount" /\ pc[i] # "idle" /\ reported[i] = "none"
  /\ \/ pipe[i].up.byte /\ reported' = [reported EXCEPT ![i] = "ok"]
     \/ Eof(pipe[i].up) /\ reported' = [reported EXCEPT ![i] = "failed"]
  /\ UNCHANGED <<program, parent, thread, kids, signals, stack, dir, proc, prune,
                 kills, erased, pruned>>

daemon_joins(i) ==
  /\ pc[i] = "serving" /\ thread[i] \in {"ended", "failed"}
  /\ End(i, "done")
  /\ UNCHANGED <<program, role, child, view, cwd, signals, stack, dir, proc,
                 prune, history>>

-----------------------------------------------------------------------------
(* Parent and child of a run.  Each closes the ends it does not use. *)
(* Variant: the child keeps its copy of the end its parent writes to. *)
PipesKept == [up   |-> [byte |-> FALSE, ends |-> {"child"}],
              down |-> [byte |-> FALSE, ends |-> {"parent", "child"}]]
Pipes == [up   |-> [byte |-> FALSE, ends |-> {"child"}],
          down |-> [byte |-> FALSE, ends |-> {"parent"}]]
(* Variant: an owner that cannot fork exits at once. *)
forkExiting(i) ==
  /\ program[i] = "run"
  /\ pc[i] \in {"mounted", "joining"}
  /\ \/ /\ pc' = [pc EXCEPT ![i] = "sync"]
        /\ child' = [child EXCEPT ![i] = "new"]
        /\ pipe' = [pipe EXCEPT ![i] = Pipes]
        /\ UNCHANGED <<fate, thread>>
     \/ MayFail("fork") /\ End(i, "failed") /\ UNCHANGED child
  /\ UNCHANGED <<program, role, view, cwd, signals, stack, dir, proc, prune, history>>
fork(i) ==
  /\ program[i] = "run"
  /\ pc[i] \in {"mounted", "joining"}
  /\ \/ /\ pc' = [pc EXCEPT ![i] = "sync"]
        /\ child' = [child EXCEPT ![i] = "new"]
        /\ pipe' = [pipe EXCEPT ![i] = Pipes]
        /\ UNCHANGED <<fate, thread>>
     \/ /\ MayFail("fork") /\ UNCHANGED child
        /\ IF role[i] = "owner" THEN Goto(i, "dropping") ELSE End(i, "failed")
  /\ UNCHANGED <<program, role, view, cwd, signals, stack, dir, proc, prune, history>>

wait_for_pipe_signal(i) ==
  /\ pc[i] = "sync"
  /\ \/ pipe[i].up.byte /\ Goto(i, "mapping")
     \/ /\ Eof(pipe[i].up)
        /\ pc' = [pc EXCEPT ![i] = "aborting"]
        /\ pipe' = [pipe EXCEPT ![i].down.ends = @ \ {"parent"}]
        /\ UNCHANGED <<fate, thread>>
  /\ UNCHANGED <<program, role, child, view, cwd, signals, stack, dir, proc,
                 prune, history>>

(* The mappings are written and the child is told, or it is let go. *)
write_namespace_mappings(i) ==
  /\ pc[i] = "mapping"
  /\ \/ /\ child[i] # "exited"
        /\ pc' = [pc EXCEPT ![i] = "mapped"]
        /\ pipe' = [pipe EXCEPT ![i].down = [byte |-> TRUE, ends |-> @.ends \ {"parent"}]]
     \/ /\ MayFail("map") \/ child[i] = "exited"
        /\ pc' = [pc EXCEPT ![i] = "aborting"]
        /\ pipe' = [pipe EXCEPT ![i].down.ends = @ \ {"parent"}]
  /\ UNCHANGED <<program, role, fate, thread, child, view, cwd, signals, stack,
                 dir, proc, prune, history>>

(* The process exits, and with it its server; its mount handle is not dropped. *)
abort_child(i) ==
  /\ pc[i] = "aborting" /\ child[i] = "exited"
  /\ End(i, "aborted")
  /\ UNCHANGED <<program, role, child, view, cwd, signals, stack, dir, proc,
                 prune, history>>

write_proc_file(i) ==
  /\ pc[i] = "mapped" /\ Goto(i, "registered")
  /\ \/ proc' = proc \cup {i}
     \/ MayFail("register") /\ UNCHANGED proc
  /\ UNCHANGED <<program, role, child, view, cwd, signals, stack, dir, prune, history>>

install_signal_handlers(i) ==
  /\ pc[i] = "registered" /\ Goto(i, "waiting")
  /\ signals' = [signals EXCEPT ![i] = 0]
  /\ UNCHANGED <<program, role, child, view, cwd, stack, dir, proc, prune, history>>

(* Variant: every run that ends clears the session's proc files. *)
wait_for_childAll(i) ==
  /\ pc[i] = "waiting" /\ child[i] = "exited"
  /\ proc' = {}
  /\ IF role[i] = "joiner" THEN End(i, "done") ELSE Goto(i, "unmount")
  /\ UNCHANGED <<program, role, child, view, cwd, signals, stack, dir, prune, history>>
(* A run removes its proc file when the command has ended; only the owner
   goes on to unmount. *)
wait_for_child(i) ==
  /\ pc[i] = "waiting" /\ child[i] = "exited"
  /\ proc' = proc \ {i}
  /\ IF role[i] = "joiner" THEN End(i, "done") ELSE Goto(i, "unmount")
  /\ UNCHANGED <<program, role, child, view, cwd, signals, stack, dir, prune, history>>

(* Variant: the handle is still held when the mountpoint is removed. *)
drop_mount_handleLate(i) ==
  /\ pc[i] \in {"unmount", "dropping"} /\ program[i] # "nfsrun"
  /\ stack' = IF pc[i] = "dropping" THEN Popped(Place(i)) ELSE stack
  /\ IF pc[i] = "dropping" THEN End(i, "failed") ELSE Goto(i, "clean")
  /\ UNCHANGED <<program, role, child, view, cwd, signals, dir, proc, prune, history>>
(* Dropping the handle detaches what is mounted last. *)
drop_mount_handle(i) ==
  /\ pc[i] \in {"unmount", "dropping"} /\ program[i] # "nfsrun"
  /\ stack' \in {Popped(Place(i))} \cup {stack : step \in Fails \cap {"unmount"}}
  /\ IF pc[i] = "dropping" THEN End(i, "failed") ELSE Goto(i, "clean")
  /\ UNCHANGED <<program, role, child, view, cwd, signals, dir, proc, prune, history>>

(* remove_dir_all goes through a mount that is still there. *)
clean_up(i) ==
  /\ pc[i] = "clean" /\ program[i] # "nfsrun"
  /\ LET p == Place(i)
     IN /\ dir' = [dir EXCEPT ![p] = @ /\ stack[p] # <<>>]
        /\ erased' = erased \cup (IF is_mountpoint(p) THEN {Top(p)} ELSE {})
  /\ End(i, "done")
  /\ UNCHANGED <<program, role, child, view, cwd, signals, stack, proc, prune,
                 reported, kills, pruned>>

(* macOS: the mount goes, or the process ends with an error; rmdir is not
   recursive. *)
nfs_unmount(i) ==
  /\ pc[i] = "unmount" /\ program[i] = "nfsrun"
  /\ \/ stack' = Popped(Session) /\ Goto(i, "clean")
     \/ MayFail("umount") /\ End(i, "late") /\ UNCHANGED stack
  /\ UNCHANGED <<program, role, child, view, cwd, signals, dir, proc, prune, history>>
nfs_clean_up(i) ==
  /\ pc[i] = "clean" /\ program[i] = "nfsrun"
  /\ dir' = [dir EXCEPT ![Session] = @ /\ stack[Session] # <<>>]
  /\ End(i, "done")
  /\ UNCHANGED <<program, role, child, view, cwd, signals, stack, proc, prune, history>>

(* exec and macOS start the command in the mountpoint of this namespace. *)
run_command_in_mount(i) ==
  /\ pc[i] = "mounted" /\ program[i] \in {"exec", "nfsrun"}
  /\ LET p == Place(i)
     IN \/ /\ dir[p] /\ ~Dead(p)
           /\ child' = [child EXCEPT ![i] = "running"]
           /\ cwd' = [cwd EXCEPT ![i] = Top(p)]
           /\ Goto(i, "waiting")
        \/ /\ MayFail("exec") \/ ~dir[p] \/ Dead(p)
           /\ IF program[i] = "exec" THEN Goto(i, "dropping") ELSE End(i, "late")
           /\ UNCHANGED <<child, cwd>>
  /\ UNCHANGED <<program, role, view, signals, stack, dir, proc, prune, history>>

-----------------------------------------------------------------------------
(* The child of a run. *)
Child(i, from, to) == child[i] = from /\ child' = [child EXCEPT ![i] = to]
ChildExits(i) ==
  /\ child' = [child EXCEPT ![i] = "exited"]
  /\ pipe' = [pipe EXCEPT ![i].up.ends = @ \ {"child"}, ![i].down.ends = @ \ {"child"}]
  /\ view' = [view EXCEPT ![i] = NoMounts]
  /\ cwd' = [cwd EXCEPT ![i] = "none"]
ChildOnly == UNCHANGED <<program, parent, thread, signals, stack, dir, proc,
                         prune, history>>

unshare(i) ==
  /\ \/ /\ Child(i, "new", "unshared")
        /\ pipe' = [pipe EXCEPT ![i].up = [byte |-> TRUE, ends |-> @.ends \ {"child"}]]
        /\ UNCHANGED <<view, cwd>>
     \/ child[i] = "new" /\ MayFail("unshare") /\ ChildExits(i)
  /\ ChildOnly

proceed(i) ==
  /\ \/ Child(i, "unshared", "ready") /\ pipe[i].down.byte /\ UNCHANGED <<pipe, view, cwd>>
     \/ child[i] = "unshared" /\ Eof(pipe[i].down) /\ ChildExits(i)
  /\ ChildOnly

make_private(i) ==
  /\ Child(i, "ready", "private")
  /\ view' = [view EXCEPT ![i] = stack]
  /\ UNCHANGED <<pipe, cwd>> /\ ChildOnly

(* The overlay over the working directory; a mountpoint that is not there any
   more cannot be bound. *)
bind_overlay(i) ==
  /\ \/ /\ Child(i, "private", "bound") /\ dir[Session]
        /\ cwd' = [cwd EXCEPT ![i] = TopOf(view[i], Session)]
        /\ UNCHANGED <<pipe, view>>
     \/ /\ child[i] = "private" /\ ChildExits(i)
        /\ MayFail("bind") \/ ~dir[Session]
  /\ ChildOnly

(* chdir into the overlay, and the other mounts read-only where they let. *)
remount_all_readonly_except(i) ==
  /\ \/ /\ Child(i, "bound", "sealed") /\ (cwd[i] \in Cmd => Serves(cwd[i]))
        /\ UNCHANGED <<pipe, view, cwd>>
     \/ /\ child[i] = "bound" /\ ChildExits(i)
        /\ MayFail("seal") \/ (cwd[i] \in Cmd /\ ~Serves(cwd[i]))
  /\ ChildOnly

exec_command(i) ==
  /\ \/ Child(i, "sealed", "running") /\ UNCHANGED <<pipe, view, cwd>>
     \/ child[i] = "sealed" /\ MayFail("exec") /\ ChildExits(i)
  /\ ChildOnly

command_ends(i) ==
  /\ child[i] = "running" /\ MayEnd(i)
  /\ ChildExits(i) /\ ChildOnly

-----------------------------------------------------------------------------
(* prune: mounts, then sessions with a live process, then who uses a mount. *)
Listed == {x \in Places \X (1..Cardinality(Cmd)) :
             /\ x[2] <= Len(stack[x[1]])
             /\ program[stack[x[1]][x[2]]] # "nfsrun"}
get_mounts(i) ==
  /\ pc[i] = "idle" /\ program[i] = "prune"
  /\ prune' = [prune EXCEPT !.listed = Listed,
       !.before = {m \in Cmd :
                      /\ Serves(m) /\ Alive(m)
                      /\ m \in proc \/ (program[m] = "exec" /\ child[m] = "running")}]
  /\ Goto(i, "listed")
  /\ UNCHANGED <<program, role, child, view, cwd, signals, stack, dir, proc, history>>

(* Proc files of processes that are gone are removed on the way. *)
active_session_ids(i) ==
  /\ pc[i] = "listed"
  /\ proc' = {j \in proc : Alive(j)}
  /\ prune' = [prune EXCEPT !.active = proc' # {}]
  /\ Goto(i, "active")
  /\ UNCHANGED <<program, role, child, view, cwd, signals, stack, dir, history>>

(* A working directory below the mountpoint; what a run's command has is a
   bind mount elsewhere, and a dead mountpoint has no path. *)
is_mount_in_use(p) ==
  ~Dead(p) /\ \E j \in Cmd : child[j] = "running" /\ program[j] = "exec" /\ Place(j) = p

(* The user may say no to the list. *)
select_unused(i) ==
  /\ pc[i] = "active"
  /\ LET unused == {x \in prune.listed : /\ ~is_mount_in_use(x[1])
                                         /\ ~(x[1] = Session /\ prune.active)}
     IN \E todo \in {unused, {}} : prune' = [prune EXCEPT !.todo = todo]
  /\ Goto(i, "selected")
  /\ UNCHANGED <<program, role, child, view, cwd, signals, stack, dir, proc, history>>

(* A plain unmount of the path, refused while something is in it. *)
unmount_fuse(i) ==
  /\ pc[i] = "selected"
  /\ \E x \in prune.todo :
       LET p == x[1]
           goes == Top(p) # Plain /\ ~\E j \in Cmd : program[j] = "exec" /\ cwd[j] = Top(p)
       IN /\ prune' = [prune EXCEPT !.todo = @ \ {x}]
          /\ stack' = IF goes THEN Popped(p) ELSE stack
          /\ pruned' = IF goes THEN pruned \cup {Top(p)} ELSE pruned
  /\ UNCHANGED <<program, parent, thread, kids, signals, dir, proc, reported,
                 kills, erased>>

prune_ends(i) ==
  /\ pc[i] = "selected" /\ prune.todo = {} /\ End(i, "done")
  /\ UNCHANGED <<program, role, child, view, cwd, signals, stack, dir, proc,
                 prune, history>>

-----------------------------------------------------------------------------
(* SIGKILL, or a signal without a handler. *)
Kill(i) ==
  /\ Alive(i) /\ kills < MaxKills
  /\ kills' = kills + 1
  /\ End(i, "killed")
  /\ UNCHANGED <<program, role, child, view, cwd, signals, stack, dir, proc,
                 prune, reported, erased, pruned>>

(* The first signal is the child's to heed, the second kills it. *)
forward_signal_to_child(i) ==
  /\ pc[i] = "waiting" /\ program[i] = "run" /\ child[i] # "exited"
  /\ signals[i] < 2 /\ MayEnd(i)
  /\ signals' = [signals EXCEPT ![i] = @ + 1]
  /\ \/ ChildExits(i)
     \/ signals[i] = 0 /\ UNCHANGED kids
  /\ UNCHANGED <<program, parent, thread, stack, dir, proc, prune, history>>

-----------------------------------------------------------------------------
Init ==
  /\ program \in Scenarios
  /\ pc = [i \in Cmd |-> "idle"] /\ role = [i \in Cmd |-> "none"]
  /\ fate = [i \in Cmd |-> "none"] /\ thread = [i \in Cmd |-> "none"]
  /\ child = [i \in Cmd |-> "none"] /\ pipe = [i \in Cmd |-> Pipes]
  /\ view = [i \in Cmd |-> NoMounts] /\ cwd = [i \in Cmd |-> "none"]
  /\ signals = [i \in Cmd |-> 0]
  /\ stack = NoMounts
  /\ dir = [p \in Places |-> p \in Cmd /\ program[p] = "mount"]
  /\ proc = {}
  /\ prune = [listed |-> {}, active |-> FALSE, todo |-> {}, before |-> {}]
  /\ reported = [i \in Cmd |-> "none"]
  /\ kills = 0 /\ erased = {} /\ pruned = {}

Begins(i) == setup_run_directory(i) \/ handle_exec_command(i) \/ daemonize(i)
             \/ get_mounts(i)
Main(i) ==
  \/ join_or_own(i) \/ nfs_join_or_own(i) \/ open_overlay(i) \/ nfs_open_overlay(i)
  \/ wait_for_mount(i)
  \/ mount_nfs(i) \/ daemon_ready(i) \/ daemon_joins(i) \/ wait_for_signal(i) \/ fork(i)
  \/ wait_for_pipe_signal(i) \/ write_namespace_mappings(i) \/ abort_child(i)
  \/ write_proc_file(i) \/ install_signal_handlers(i) \/ wait_for_child(i)
  \/ drop_mount_handle(i) \/ clean_up(i) \/ nfs_unmount(i) \/ nfs_clean_up(i)
  \/ run_command_in_mount(i)
Looks(i) == active_session_ids(i) \/ select_unused(i) \/ unmount_fuse(i) \/ prune_ends(i)
Server(i) == fuse_mount_pure(i) \/ session_ends(i)
Kid(i) == unshare(i) \/ proceed(i) \/ make_private(i) \/ bind_overlay(i)
          \/ remount_all_readonly_except(i) \/ exec_command(i)
Next == \E i \in Cmd : \/ Begins(i) \/ Main(i) \/ Looks(i) \/ Server(i) \/ Kid(i)
                       \/ command_ends(i) \/ Kill(i) \/ forward_signal_to_child(i)

(* A thread that can run does; commands, users and kills take their time. *)
Fairness == \A i \in Cmd : /\ WF_vars(Main(i)) /\ WF_vars(Looks(i))
                           /\ WF_vars(Server(i)) /\ WF_vars(Kid(i))
Spec == Init /\ [][Next]_vars /\ Fairness

-----------------------------------------------------------------------------
(* The command of a run, and of exec, runs on a server of its mountpoint, never
   on the bare directory below it -- unless a prune took the mount away. *)
CommandsSeeOverlay ==
  \A i \in Cmd : child[i] = "running" =>
    \/ cwd[i] \in Cmd /\ Place(cwd[i]) = Place(i)
    \/ cwd[i] = Plain /\ \E m \in pruned : Place(m) = Place(i)

(* "keep the delta database": removing a mountpoint does not remove the tree
   that is mounted there (linux.rs, run_parent; cmd/exec.rs). *)
NothingErased == erased = {}

(* A mount without a server is left only by a process that was killed or gave
   up half-way: an invocation that ends in order has unmounted. *)
LeftByFailure ==
  \A p \in Places : \A m \in ToSet(stack[p]) :
    Serves(m) \/ fate[m] \in {"killed", "aborted", "late"}

(* One server at a time has the delta of the session, unless a prune took its
   mount away -- and until a run that was pruned is over: what it unmounts at
   its end is the mount of the next one. *)
OneServer ==
  \/ \E m \in pruned : Place(m) = Session /\ pc[m] = "over"
  \/ Cardinality({m \in Cmd : Place(m) = Session /\ Serves(m) /\ m \notin pruned}) <= 1

(* A run that was registered, or an exec that was running, when prune listed
   the mounts loses its mount to it only when its command is over. *)
PrunedIsUnused ==
  [][\A m \in (pruned' \ pruned) \cap prune.before :
       ~Serves(m) \/ child[m] = "exited"]_vars

(* "Automatically unmounts when dropped": only a kill leaves a dead mount
   (mount/mod.rs, MountHandle).  Not so when the child is given up. *)
LeftByKill ==
  \A p \in Places : \A m \in ToSet(stack[p]) : Serves(m) \/ fate[m] = "killed"

(* "Finds all mounted agentfs filesystems that are not in use" (cmd/mount.rs):
   no mount goes while its server works for a command to come or under way. *)
PruneSparesStarting ==
  [][\A m \in pruned' \ pruned :
       program[m] = "mount" \/ ~Serves(m) \/ child[m] = "exited"]_vars

(* Starting and ending come to an end, whatever fails or is killed, and the
   user of a mount daemon is told how it went. *)
Settles ==
  \A i \in Cmd :
    /\ Starting(i) \/ Ending(i) ~> ~Starting(i) /\ ~Ending(i)
    /\ program[i] = "mount" /\ pc[i] # "idle" ~> reported[i] # "none"
=============================================================================
