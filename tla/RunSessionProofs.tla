-------------------------- MODULE RunSessionProofs --------------------------
(***************************************************************************)
(* Proofs about RunSession, for any number of invocations of every kind,   *)
(* whatever step of them fails and whichever process is killed.            *)
(***************************************************************************)
EXTENDS RunSession, FiniteSetTheorems, SequenceTheorems, TLAPS

-----------------------------------------------------------------------------
(* Types *)

PcStates ==
  {"idle", "setup", "opening", "mounting", "mounted", "joining", "sync",
   "mapping", "mapped", "registered", "waiting", "aborting", "dropping",
   "unmount", "clean", "readying", "serving", "listed", "active", "selected",
   "over"}

ThreadStates == {"none", "mounting", "serving", "failed", "ended", "gone"}

(* The states of a child before its command. *)
Begun == {"new", "unshared", "ready", "private", "bound", "sealed"}
ChildStates == Begun \cup {"none", "running", "exited"}

ProgramType ==
  /\ program \in [Cmd -> Programs]
  /\ \A i, j \in Cmd : program[i] = "prune" /\ program[j] = "prune" => i = j

ControlType ==
  /\ pc \in [Cmd -> PcStates]
  /\ role \in [Cmd -> {"none", "owner", "joiner"}]
  /\ fate \in [Cmd -> {"none", "failed", "late", "aborted", "killed", "done"}]
  /\ thread \in [Cmd -> ThreadStates]
  /\ child \in [Cmd -> ChildStates]

MountType ==
  /\ view \in [Cmd -> [Places -> Seq(Cmd)]]
  /\ cwd \in [Cmd -> Cmd \cup {Plain, "none"}]
  /\ stack \in [Places -> Seq(Cmd)]
  /\ dir \in [Places -> BOOLEAN]

PruneType ==
  /\ prune = [listed |-> prune.listed, active |-> prune.active,
              todo |-> prune.todo, before |-> prune.before]
  /\ \A x \in prune.listed \cup prune.todo : x[1] \in Places
  /\ prune.before \subseteq Cmd
  /\ proc \subseteq Cmd
  /\ pruned \subseteq Cmd

-----------------------------------------------------------------------------
(* What is true of an invocation by itself *)

(* The steps a program takes, and the role in which a run takes them. *)
Steering(i) ==
  /\ pc[i] \in {"setup", "opening"} => program[i] \in {"run", "nfsrun"}
  /\ pc[i] \in {"joining", "sync", "mapping", "mapped", "registered", "aborting"}
       => program[i] = "run"
  /\ pc[i] \in {"mounting", "mounted", "waiting", "unmount", "clean"}
       => program[i] \in {"run", "nfsrun", "exec"}
  /\ pc[i] = "dropping" => program[i] \in {"run", "exec"}
  /\ pc[i] \in {"readying", "serving"} => program[i] = "mount"
  /\ pc[i] \in {"listed", "active", "selected"} => program[i] = "prune"
  /\ pc[i] \in {"opening", "mounting", "dropping", "unmount", "clean"}
       => role[i] = "owner"
  /\ pc[i] = "mounted" /\ program[i] # "nfsrun" => role[i] = "owner"
  /\ pc[i] \in {"mounted", "joining", "sync", "mapping", "mapped", "registered",
                "waiting", "aborting"} => role[i] # "none"
  /\ pc[i] = "joining" => role[i] = "joiner"
  /\ program[i] = "exec" => role[i] # "joiner"
  /\ program[i] \in {"mount", "prune"} => role[i] = "none"

(* The server and the child go with it. *)
Kin(i) ==
  /\ fate[i] = "none" <=> pc[i] # "over"
  /\ pc[i] \in {"idle", "setup", "opening"} => thread[i] = "none"
  /\ pc[i] = "over" => thread[i] \in {"gone", "none"}
  /\ thread[i] \in {"mounting", "failed"} => program[i] # "nfsrun"
  /\ pc[i] = "mounting" /\ program[i] = "nfsrun" => Serves(i)
  /\ thread[i] # "none" => program[i] # "prune"
  /\ pc[i] \in {"idle", "setup", "opening", "mounting", "mounted", "joining",
                "dropping", "readying", "serving", "listed", "active", "selected"}
       => child[i] = "none"
  /\ pc[i] \in {"unmount", "clean"} => child[i] = "exited"
  /\ child[i] \in Begun => program[i] = "run"
  /\ child[i] # "none" => program[i] \in {"run", "nfsrun", "exec"}

Control(i) == Steering(i) /\ Kin(i)

(* A step of one invocation moves no other. *)
Alone(i) ==
  \A j \in Cmd \ {i} : /\ pc'[j] = pc[j] /\ role'[j] = role[j]
                       /\ fate'[j] = fate[j] /\ thread'[j] = thread[j]
                       /\ child'[j] = child[j]

(* The steps that an invocation does not take of its own accord. *)
Outside(i) == command_ends(i) \/ Kill(i) \/ forward_signal_to_child(i)

(* The first step of an invocation. *)
LEMMA BeginsControl ==
  ASSUME ControlType, NEW i \in Cmd, Control(i), program' = program, Begins(i)
  PROVE  ControlType' /\ Alone(i) /\ Control(i)'
<1> USE DEF ControlType, PcStates, ThreadStates, ChildStates, Begun, Control, Steering, Kin, Serves, Alone,
           Goto, End, parent, kids
<1>1. CASE setup_run_directory(i)
    BY <1>1 DEF setup_run_directory
<1>2. CASE handle_exec_command(i)
    BY <1>2 DEF handle_exec_command
<1>3. CASE daemonize(i)
    BY <1>3 DEF daemonize
<1>4. CASE get_mounts(i)
    BY <1>4 DEF get_mounts
<1> QED
    BY <1>1, <1>2, <1>3, <1>4 DEF Begins

(* The steps of its main thread. *)
LEMMA MainControl ==
  ASSUME ControlType, NEW i \in Cmd, Control(i), program' = program, Main(i)
  PROVE  ControlType' /\ Alone(i) /\ Control(i)'
<1> USE DEF ControlType, PcStates, ThreadStates, ChildStates, Begun, Control, Steering, Kin, Serves, Alone,
           Goto, End, parent, kids
<1>1. CASE join_or_own(i)
    BY <1>1 DEF join_or_own
<1>2. CASE nfs_join_or_own(i)
    BY <1>2 DEF nfs_join_or_own
<1>3. CASE open_overlay(i)
    BY <1>3 DEF open_overlay
<1>4. CASE nfs_open_overlay(i)
    BY <1>4 DEF nfs_open_overlay
<1>5. CASE wait_for_mount(i)
  <2>1. /\ pc[i] = "mounting" /\ role'[i] = role[i]
        /\ \/ /\ pc'[i] = "mounted" /\ fate'[i] = fate[i]
              /\ thread'[i] = thread[i] /\ child'[i] = child[i]
           \/ /\ pc'[i] = "over" /\ fate'[i] # "none"
              /\ thread'[i] \in {"gone", "none"} /\ child'[i] = child[i]
      BY <1>5 DEF wait_for_mount
  <2>2. ControlType'
      BY <1>5 DEF wait_for_mount
  <2>3. Alone(i)
      BY <1>5 DEF wait_for_mount
  <2>4. Steering(i)'
      BY <1>5, <2>1
  <2>5. Kin(i)'
      BY <1>5, <2>1
  <2> QED
      BY <2>2, <2>3, <2>4, <2>5
<1>6. CASE mount_nfs(i)
  <2>1. /\ pc[i] = "mounting"  /\ program[i] = "nfsrun" /\ role'[i] = role[i]
        /\ \/ /\ pc'[i] = "mounted" /\ fate'[i] = fate[i]
              /\ thread'[i] = thread[i] /\ child'[i] = child[i]
           \/ /\ pc'[i] = "over" /\ fate'[i] # "none"
              /\ thread'[i] \in {"gone", "none"} /\ child'[i] = child[i]
      BY <1>6 DEF mount_nfs
  <2>2. ControlType'
      BY <1>6 DEF mount_nfs
  <2>3. Alone(i)
      BY <1>6 DEF mount_nfs
  <2>4. Steering(i)'
      BY <1>6, <2>1
  <2>5. Kin(i)'
      BY <1>6, <2>1
  <2> QED
      BY <2>2, <2>3, <2>4, <2>5
<1>7. CASE daemon_ready(i)
  <2>1. /\ pc[i] = "readying" /\ role'[i] = role[i]
        /\ \/ /\ pc'[i] = "serving" /\ fate'[i] = fate[i]
              /\ thread'[i] = thread[i] /\ child'[i] = child[i]
           \/ /\ pc'[i] = "over" /\ fate'[i] # "none"
              /\ thread'[i] \in {"gone", "none"} /\ child'[i] = child[i]
      BY <1>7 DEF daemon_ready, signal_parent
  <2>2. ControlType'
      BY <1>7 DEF daemon_ready, signal_parent
  <2>3. Alone(i)
      BY <1>7 DEF daemon_ready, signal_parent
  <2>4. Steering(i)'
      BY <1>7, <2>1
  <2>5. Kin(i)'
      BY <1>7, <2>1
  <2> QED
      BY <2>2, <2>3, <2>4, <2>5
<1>8. CASE daemon_joins(i)
    BY <1>8 DEF daemon_joins
<1>9. CASE wait_for_signal(i)
    BY <1>9 DEF wait_for_signal
<1>10. CASE fork(i)
    BY <1>10 DEF fork
<1>11. CASE wait_for_pipe_signal(i)
    BY <1>11 DEF wait_for_pipe_signal
<1>12. CASE write_namespace_mappings(i)
    BY <1>12 DEF write_namespace_mappings
<1>13. CASE abort_child(i)
    BY <1>13 DEF abort_child
<1>14. CASE write_proc_file(i)
    BY <1>14 DEF write_proc_file
<1>15. CASE install_signal_handlers(i)
    BY <1>15 DEF install_signal_handlers
<1>16. CASE wait_for_child(i)
  <2>1. /\ pc[i] = "waiting" /\ child[i] = "exited" /\ role'[i] = role[i]
        /\ \/ /\ pc'[i] = "unmount" /\ fate'[i] = fate[i] /\ role[i] # "joiner"
              /\ thread'[i] = thread[i] /\ child'[i] = child[i]
           \/ /\ pc'[i] = "over" /\ fate'[i] # "none"
              /\ thread'[i] \in {"gone", "none"} /\ child'[i] = child[i]
      BY <1>16 DEF wait_for_child
  <2>2. ControlType'
      BY <1>16 DEF wait_for_child
  <2>3. Alone(i)
      BY <1>16 DEF wait_for_child
  <2>4. Steering(i)'
      BY <1>16, <2>1
  <2>5. Kin(i)'
      BY <1>16, <2>1
  <2> QED
      BY <2>2, <2>3, <2>4, <2>5
<1>17. CASE drop_mount_handle(i)
    BY <1>17 DEF drop_mount_handle
<1>18. CASE clean_up(i)
    BY <1>18 DEF clean_up
<1>19. CASE nfs_unmount(i)
    BY <1>19 DEF nfs_unmount
<1>20. CASE nfs_clean_up(i)
    BY <1>20 DEF nfs_clean_up
<1>21. CASE run_command_in_mount(i)
  <2>1. /\ pc[i] = "mounted" /\ role'[i] = role[i]
        /\ \/ /\ pc'[i] = "waiting" /\ fate'[i] = fate[i]
              /\ thread'[i] = thread[i] /\ child'[i] = "running"
           \/ /\ pc'[i] = "dropping" /\ fate'[i] = fate[i]
              /\ thread'[i] = thread[i] /\ child'[i] = child[i] /\ program[i] = "exec"
           \/ /\ pc'[i] = "over" /\ fate'[i] # "none"
              /\ thread'[i] \in {"gone", "none"} /\ child'[i] = child[i]
      BY <1>21 DEF run_command_in_mount
  <2>2. ControlType'
      BY <1>21 DEF run_command_in_mount
  <2>3. Alone(i)
      BY <1>21 DEF run_command_in_mount
  <2>4. Steering(i)'
      BY <1>21, <2>1
  <2>5. Kin(i)'
      BY <1>21, <2>1
  <2> QED
      BY <2>2, <2>3, <2>4, <2>5
<1> QED
    BY <1>1, <1>2, <1>3, <1>4, <1>5, <1>6, <1>7, <1>8, <1>9, <1>10, <1>11,
       <1>12, <1>13, <1>14, <1>15, <1>16, <1>17, <1>18, <1>19, <1>20, <1>21
       DEF Main

(* The steps of a prune. *)
LEMMA LooksControl ==
  ASSUME ControlType, NEW i \in Cmd, Control(i), program' = program, Looks(i)
  PROVE  ControlType' /\ Alone(i) /\ Control(i)'
<1> USE DEF ControlType, PcStates, ThreadStates, ChildStates, Begun, Control, Steering, Kin, Serves, Alone,
           Goto, End, parent, kids
<1>1. CASE active_session_ids(i)
    BY <1>1 DEF active_session_ids
<1>2. CASE select_unused(i)
    BY <1>2 DEF select_unused
<1>3. CASE unmount_fuse(i)
    BY <1>3 DEF unmount_fuse
<1>4. CASE prune_ends(i)
    BY <1>4 DEF prune_ends
<1> QED
    BY <1>1, <1>2, <1>3, <1>4 DEF Looks

(* Those of its server. *)
LEMMA ServerControl ==
  ASSUME ControlType, NEW i \in Cmd, Control(i), program' = program, Server(i)
  PROVE  ControlType' /\ Alone(i) /\ Control(i)'
<1> USE DEF ControlType, PcStates, ThreadStates, ChildStates, Begun, Control, Steering, Kin, Serves, Alone,
           Goto, End, parent, kids
<1>1. CASE fuse_mount_pure(i)
    BY <1>1 DEF fuse_mount_pure
<1>2. CASE session_ends(i)
    BY <1>2 DEF session_ends
<1> QED
    BY <1>1, <1>2 DEF Server

(* Those of the child of a run. *)
LEMMA KidControl ==
  ASSUME ControlType, NEW i \in Cmd, Control(i), program' = program, Kid(i)
  PROVE  ControlType' /\ Alone(i) /\ Control(i)'
<1> USE DEF ControlType, PcStates, ThreadStates, ChildStates, Begun, Control, Steering, Kin, Serves, Alone,
           Goto, End, Child, ChildExits, ChildOnly, parent, kids
<1>1. CASE unshare(i)
    BY <1>1 DEF unshare
<1>2. CASE proceed(i)
    BY <1>2 DEF proceed
<1>3. CASE make_private(i)
    BY <1>3 DEF make_private
<1>4. CASE bind_overlay(i)
    BY <1>4 DEF bind_overlay
<1>5. CASE remount_all_readonly_except(i)
    BY <1>5 DEF remount_all_readonly_except
<1>6. CASE exec_command(i)
    BY <1>6 DEF exec_command
<1> QED
    BY <1>1, <1>2, <1>3, <1>4, <1>5, <1>6 DEF Kid

(* The end of a command, signals and kills. *)
LEMMA OutsideControl ==
  ASSUME ControlType, NEW i \in Cmd, Control(i), program' = program, Outside(i)
  PROVE  ControlType' /\ Alone(i) /\ Control(i)'
<1> USE DEF ControlType, PcStates, ThreadStates, ChildStates, Begun, Control, Steering, Kin, Serves, Alone,
           Goto, End, Child, ChildExits, ChildOnly, parent, kids
<1>1. CASE command_ends(i)
    BY <1>1 DEF command_ends
<1>2. CASE Kill(i)
    BY <1>2 DEF Kill
<1>3. CASE forward_signal_to_child(i)
    BY <1>3 DEF forward_signal_to_child
<1> QED
    BY <1>1, <1>2, <1>3 DEF Outside

-----------------------------------------------------------------------------
(* What a step does to the mounts *)

Step(i) == \/ Begins(i) \/ Main(i) \/ Looks(i) \/ Server(i) \/ Kid(i) \/ Outside(i)

LEMMA ProgramSame ==
  ASSUME NEW i \in Cmd, Step(i)
  PROVE  program' = program
<1> USE DEF ChildOnly
<1>1. CASE Begins(i)
    BY <1>1 DEF Begins, setup_run_directory, handle_exec_command,
       daemonize, get_mounts
<1>2. CASE Main(i)
    BY <1>2 DEF Main, join_or_own, nfs_join_or_own, open_overlay,
       nfs_open_overlay, wait_for_mount, mount_nfs, daemon_ready,
       daemon_joins, wait_for_signal, fork, wait_for_pipe_signal,
       write_namespace_mappings, abort_child, write_proc_file,
       install_signal_handlers, wait_for_child, drop_mount_handle,
       clean_up, nfs_unmount, nfs_clean_up, run_command_in_mount
<1>3. CASE Looks(i)
    BY <1>3 DEF Looks, active_session_ids, select_unused, unmount_fuse,
       prune_ends
<1>4. CASE Server(i)
    BY <1>4 DEF Server, fuse_mount_pure, session_ends
<1>5. CASE Kid(i)
    BY <1>5 DEF Kid, unshare, proceed, make_private, bind_overlay,
       remount_all_readonly_except, exec_command
<1>6. CASE Outside(i)
    BY <1>6 DEF Outside, command_ends, Kill, forward_signal_to_child
<1> QED
    BY <1>1, <1>2, <1>3, <1>4, <1>5, <1>6 DEF Step

(* A server mounts, a mount goes, or neither. *)
Pushes(i) ==
  /\ \/ thread[i] = "mounting"
     \/ pc[i] = "mounting" /\ program[i] = "nfsrun" /\ pc'[i] = "mounted"
  /\ Mountable(Place(i))
  /\ thread'[i] = IF thread[i] = "mounting" THEN "serving" ELSE thread[i]
  /\ stack' = [stack EXCEPT ![Place(i)] = Append(@, i)]
Pops == \E p \in Places : stack' = Popped(p)
StackStep(i) == stack' = stack \/ Pushes(i) \/ Pops

(* The directories and the child of one invocation. *)
Inside(i) ==
  /\ \A p \in Places \ {Place(i)} : dir'[p] = dir[p]
  /\ \A j \in Cmd \ {i} : view'[j] = view[j] /\ cwd'[j] = cwd[j]

(* Sequences of mounts. *)
LEMMA StackFacts ==
  ASSUME NEW S, NEW s \in Seq(S)
  PROVE  /\ s # <<>> => Front(s) \in Seq(S) /\ Last(s) \in S
         /\ \A m \in S : Append(s, m) \in Seq(S)
<1>1. ASSUME s # <<>> PROVE Front(s) \in Seq(S) /\ Last(s) \in S
  <2>1. Len(s) \in Nat \ {0} /\ \A k \in 1..Len(s) : s[k] \in S
      BY <1>1
  <2> QED
      BY <2>1 DEF Front, Last
<1> QED
    BY <1>1

LEMMA TopType ==
  ASSUME NEW mounts \in [Places -> Seq(Cmd)], NEW p \in Places
  PROVE  /\ TopOf(mounts, p) \in Cmd \cup {Plain}
         /\ TopOf(mounts, p) = Plain <=> mounts[p] = <<>>
<1>1. mounts[p] \in Seq(Cmd)
    OBVIOUS
<1> QED
    BY <1>1, StackFacts, SessionAssumption DEF TopOf

LEMMA StackTypes ==
  ASSUME NEW i \in Cmd, stack \in [Places -> Seq(Cmd)]
  PROVE  /\ Place(i) \in Places /\ Session \in Places /\ i \in Places
         /\ \A p \in Places : Popped(p) \in [Places -> Seq(Cmd)]
         /\ \A p \in Places : [stack EXCEPT ![p] = Append(@, i)] \in [Places -> Seq(Cmd)]
         /\ \A p \in Places : Top(p) \in Cmd \cup {Plain}
<1>1. Place(i) \in Places /\ Session \in Places /\ i \in Places
    BY DEF Place, Places
<1>2. \A p \in Places : stack[p] \in Seq(Cmd)
    OBVIOUS
<1>3. ASSUME NEW p \in Places
      PROVE  /\ Popped(p) \in [Places -> Seq(Cmd)]
             /\ [stack EXCEPT ![p] = Append(@, i)] \in [Places -> Seq(Cmd)]
             /\ Top(p) \in Cmd \cup {Plain}
  <2>1. /\ stack[p] # <<>> => Front(stack[p]) \in Seq(Cmd) /\ Last(stack[p]) \in Cmd
        /\ Append(stack[p], i) \in Seq(Cmd)
      BY <1>2, StackFacts
  <2>2. (IF stack[p] = <<>> THEN stack[p] ELSE Front(stack[p])) \in Seq(Cmd)
      BY <1>2, <2>1
  <2> QED
      BY <2>1, <2>2 DEF Popped, Top, TopOf
<1> QED
    BY <1>1, <1>3

(* One of them changes. *)
LEMMA OneChange ==
  ASSUME NEW i \in Cmd, MountType
  PROVE  /\ UNCHANGED <<stack, dir, view, cwd>> => MountType' /\ StackStep(i) /\ Inside(i)
         /\ \A b \in BOOLEAN : /\ UNCHANGED <<stack, view, cwd>>
                               /\ dir' = [dir EXCEPT ![Place(i)] = b]
                => MountType' /\ StackStep(i) /\ Inside(i)
         /\ \A p \in Places : UNCHANGED <<dir, view, cwd>> /\ stack' = Popped(p)
                => MountType' /\ StackStep(i) /\ Inside(i)
         /\ UNCHANGED <<dir, view, cwd>> /\ Pushes(i)
                => MountType' /\ StackStep(i) /\ Inside(i)
         /\ \A c \in Cmd \cup {Plain, "none"} :
                 UNCHANGED <<stack, dir, view>> /\ cwd' = [cwd EXCEPT ![i] = c]
                => MountType' /\ StackStep(i) /\ Inside(i)
<1> USE DEF MountType
<1>1. Place(i) \in Places
    BY StackTypes
<1>2. ASSUME UNCHANGED <<stack, dir, view, cwd>> PROVE MountType' /\ StackStep(i) /\ Inside(i)
    BY <1>2 DEF StackStep, Inside
<1>3. ASSUME NEW b \in BOOLEAN, UNCHANGED <<stack, view, cwd>>, dir' = [dir EXCEPT ![Place(i)] = b]
      PROVE  MountType' /\ StackStep(i) /\ Inside(i)
    BY <1>1, <1>3 DEF StackStep, Inside
<1>4. ASSUME NEW p \in Places, UNCHANGED <<dir, view, cwd>>, stack' = Popped(p)
      PROVE  MountType' /\ StackStep(i) /\ Inside(i)
    BY <1>4, StackTypes DEF StackStep, Inside, Pops
<1>5. ASSUME UNCHANGED <<dir, view, cwd>>, Pushes(i)
      PROVE  MountType' /\ StackStep(i) /\ Inside(i)
    BY <1>1, <1>5, StackTypes DEF StackStep, Inside, Pushes
<1>6. ASSUME NEW c \in Cmd \cup {Plain, "none"}, UNCHANGED <<stack, dir, view>>, cwd' = [cwd EXCEPT ![i] = c]
      PROVE  MountType' /\ StackStep(i) /\ Inside(i)
    BY <1>6 DEF StackStep, Inside
<1> QED
    BY <1>2, <1>3, <1>4, <1>5, <1>6

LEMMA MountsKept ==
  ASSUME NEW i \in Cmd, MountType, ControlType, PruneType, Control(i), Step(i)
  PROVE  MountType' /\ StackStep(i) /\ Inside(i)
<1> USE DEF kids
<1>0. /\ Place(i) \in Places /\ Session \in Places
      /\ program[i] \in {"run", "nfsrun"} => Place(i) = Session
      /\ program[i] = "exec" => Place(i) = i
    BY StackTypes DEF MountType, Place
<1>00. ASSUME ChildExits(i), UNCHANGED <<stack, dir>> PROVE MountType' /\ StackStep(i) /\ Inside(i)
  <2>1. NoMounts \in [Places -> Seq(Cmd)]
      BY DEF NoMounts
  <2> QED
      BY <1>00, <2>1 DEF ChildExits, MountType, StackStep, Inside
<1>1. CASE Begins(i)
  <2>1. CASE setup_run_directory(i)
    <3>1. dir' = dir \/ dir' = [dir EXCEPT ![Place(i)] = TRUE]
        BY <1>0, <2>1 DEF setup_run_directory, Steering, Control
    <3>2. UNCHANGED <<stack, view, cwd>>
        BY <2>1 DEF setup_run_directory
    <3> QED
        BY <1>0, <3>1, <3>2, OneChange
  <2>2. CASE handle_exec_command(i)
    <3>1. dir' = dir \/ dir' = [dir EXCEPT ![Place(i)] = TRUE]
        BY <1>0, <2>2 DEF handle_exec_command
    <3>2. UNCHANGED <<stack, view, cwd>>
        BY <2>2 DEF handle_exec_command
    <3> QED
        BY <1>0, <3>1, <3>2, OneChange
  <2> QED
      BY <1>1, OneChange, <2>1, <2>2 DEF Begins, daemonize, get_mounts
<1>2. CASE Main(i)
  <2>1. CASE nfs_join_or_own(i)
    <3>1. stack' = stack \/ stack' = Popped(Session)
        BY <1>0, <2>1 DEF nfs_join_or_own
    <3>2. UNCHANGED <<dir, view, cwd>>
        BY <2>1 DEF nfs_join_or_own
    <3> QED
        BY <1>0, <3>1, <3>2, OneChange
  <2>2. CASE mount_nfs(i)
    <3>1. stack' = stack \/ Pushes(i)
        BY <1>0, <2>2 DEF mount_nfs, Pushes, Goto, ControlType, Kin,
           Control
    <3>2. UNCHANGED <<dir, view, cwd>>
        BY <2>2 DEF mount_nfs
    <3> QED
        BY <1>0, <3>1, <3>2, OneChange
  <2>3. CASE drop_mount_handle(i)
    <3>1. stack' = stack \/ stack' = Popped(Place(i))
        BY <1>0, <2>3 DEF drop_mount_handle
    <3>2. UNCHANGED <<dir, view, cwd>>
        BY <2>3 DEF drop_mount_handle
    <3> QED
        BY <1>0, <3>1, <3>2, OneChange
  <2>4. CASE clean_up(i)
    <3>1. dir' = [dir EXCEPT ![Place(i)] = dir[Place(i)] /\ stack[Place(i)] # <<>>]
        BY <1>0, <2>4 DEF clean_up
    <3>2. UNCHANGED <<stack, view, cwd>>
        BY <2>4 DEF clean_up
    <3> QED
        BY <1>0, <3>1, <3>2, OneChange DEF MountType
  <2>5. CASE nfs_unmount(i)
    <3>1. stack' = stack \/ stack' = Popped(Session)
        BY <1>0, <2>5 DEF nfs_unmount
    <3>2. UNCHANGED <<dir, view, cwd>>
        BY <2>5 DEF nfs_unmount
    <3> QED
        BY <1>0, <3>1, <3>2, OneChange
  <2>6. CASE nfs_clean_up(i)
    <3>1. dir' = [dir EXCEPT ![Place(i)] = dir[Place(i)] /\ stack[Place(i)] # <<>>]
        BY <1>0, <2>6 DEF nfs_clean_up
    <3>2. UNCHANGED <<stack, view, cwd>>
        BY <2>6 DEF nfs_clean_up
    <3> QED
        BY <1>0, <3>1, <3>2, OneChange DEF MountType
  <2>7. CASE run_command_in_mount(i)
    <3>1. cwd' = cwd \/ cwd' = [cwd EXCEPT ![i] = Top(Place(i))]
        BY <1>0, <2>7 DEF run_command_in_mount
    <3>2. UNCHANGED <<stack, dir, view>>
        BY <2>7 DEF run_command_in_mount
    <3> QED
        BY <1>0, <3>1, <3>2, OneChange, StackTypes DEF MountType
  <2> QED
      BY <1>2, OneChange, <2>1, <2>2, <2>3, <2>4, <2>5, <2>6, <2>7 DEF
         Main, join_or_own, open_overlay, nfs_open_overlay, wait_for_mount,
         daemon_ready, daemon_joins, wait_for_signal, fork,
         wait_for_pipe_signal, write_namespace_mappings, abort_child,
         write_proc_file, install_signal_handlers, wait_for_child
<1>3. CASE Looks(i)
  <2>1. CASE unmount_fuse(i)
    <3>1. stack' = stack \/ \E p \in Places : stack' = Popped(p)
        BY <1>0, <2>1 DEF unmount_fuse, PruneType
    <3>2. UNCHANGED <<dir, view, cwd>>
        BY <2>1 DEF unmount_fuse
    <3> QED
        BY <1>0, <3>1, <3>2, OneChange
  <2> QED
      BY <1>3, OneChange, <2>1 DEF Looks, active_session_ids,
         select_unused, prune_ends
<1>4. CASE Server(i)
  <2>1. CASE fuse_mount_pure(i)
    <3>1. stack' = stack \/ Pushes(i)
        BY <1>0, <2>1 DEF fuse_mount_pure, Pushes, ControlType
    <3>2. UNCHANGED <<dir, view, cwd>>
        BY <2>1 DEF fuse_mount_pure
    <3> QED
        BY <1>0, <3>1, <3>2, OneChange
  <2> QED
      BY <1>4, OneChange, <2>1 DEF Server, session_ends
<1>5. CASE Kid(i)
  <2>1. CASE unshare(i)
      BY <1>00, <2>1, OneChange DEF unshare, Child, ChildOnly
  <2>2. CASE proceed(i)
      BY <1>00, <2>2, OneChange DEF proceed, Child, ChildOnly
  <2>3. CASE make_private(i)
      BY <1>00, <2>3, OneChange DEF make_private, Child, ChildOnly, MountType, StackStep, Inside
  <2>4. CASE bind_overlay(i)
    <3>1. ChildExits(i) \/ (view' = view /\ cwd' = [cwd EXCEPT ![i] = TopOf(view[i], Session)])
        BY <1>0, <2>4 DEF bind_overlay, Child, ChildOnly
    <3>2. UNCHANGED <<stack, dir>>
        BY <2>4 DEF bind_overlay, ChildOnly
    <3> QED
        BY <1>0, <3>1, <3>2, OneChange, <1>00, TopType DEF MountType
  <2>5. CASE remount_all_readonly_except(i)
      BY <1>00, <2>5, OneChange DEF remount_all_readonly_except, Child, ChildOnly
  <2>6. CASE exec_command(i)
      BY <1>00, <2>6, OneChange DEF exec_command, Child, ChildOnly
  <2> QED
      BY <1>5, OneChange, <2>1, <2>2, <2>3, <2>4, <2>5, <2>6 DEF Kid
<1>6. CASE Outside(i)
  <2>1. CASE command_ends(i)
      BY <1>00, <2>1, OneChange DEF command_ends, Child, ChildOnly
  <2>2. CASE forward_signal_to_child(i)
      BY <1>00, <2>2, OneChange DEF forward_signal_to_child, Child, ChildOnly
  <2> QED
      BY <1>6, OneChange, <2>1, <2>2 DEF Outside, Kill
<1> QED
    BY <1>1, <1>2, <1>3, <1>4, <1>5, <1>6 DEF Step

(* Only a prune and the proc files of the runs are left. *)
LEMMA PruneTypesKept ==
  ASSUME NEW i \in Cmd, PruneType, MountType, Step(i)
  PROVE  PruneType'
<1> USE DEF history, ChildOnly
<1>0. UNCHANGED <<prune, proc, pruned>> => PruneType'
    BY DEF PruneType
<1>1. CASE Begins(i)
  <2>1. CASE get_mounts(i)
    <3>1. PICK B \in SUBSET Cmd : prune' = [prune EXCEPT !.listed = Listed, !.before = B]
        BY <2>1 DEF get_mounts
    <3>2. UNCHANGED <<proc, pruned>>
        BY <2>1 DEF get_mounts
    <3>3. \A x \in Listed : x[1] \in Places
        BY DEF Listed
    <3> HIDE DEF Listed
    <3> QED
        BY <3>1, <3>2, <3>3 DEF PruneType
  <2> QED
      BY <1>0, <1>1, <2>1 DEF Begins, setup_run_directory, handle_exec_command, daemonize
<1>2. CASE Main(i)
  <2>1. CASE write_proc_file(i)
      BY <2>1 DEF write_proc_file, PruneType
  <2>2. CASE wait_for_child(i)
      BY <2>2 DEF wait_for_child, PruneType
  <2> QED
      BY <1>0, <1>2, <2>1, <2>2 DEF Main, join_or_own, nfs_join_or_own,
         open_overlay, nfs_open_overlay, wait_for_mount, mount_nfs,
         daemon_ready, daemon_joins, wait_for_signal, fork,
         wait_for_pipe_signal, write_namespace_mappings, abort_child,
         install_signal_handlers, drop_mount_handle, clean_up, nfs_unmount,
         nfs_clean_up, run_command_in_mount
<1>3. CASE Looks(i)
  <2>1. CASE active_session_ids(i)
    <3>1. PICK b : prune' = [prune EXCEPT !.active = b]
        BY <2>1 DEF active_session_ids
    <3>2. UNCHANGED pruned /\ proc' \subseteq proc
        BY <2>1 DEF active_session_ids
    <3> QED
        BY <3>1, <3>2 DEF PruneType
  <2>2. CASE select_unused(i)
    <3>1. PICK todo \in SUBSET prune.listed : prune' = [prune EXCEPT !.todo = todo]
        BY <2>2 DEF select_unused
    <3>2. UNCHANGED <<proc, pruned>>
        BY <2>2 DEF select_unused
    <3> QED
        BY <3>1, <3>2 DEF PruneType
  <2>3. CASE unmount_fuse(i)
    <3>1. PICK x \in prune.todo : /\ prune' = [prune EXCEPT !.todo = @ \ {x}]
                                  /\ pruned' = pruned \/ (pruned' = pruned \cup {Top(x[1])} /\ Top(x[1]) # Plain)
        BY <2>3 DEF unmount_fuse
    <3>2. proc' = proc /\ x[1] \in Places
        BY <2>3 DEF unmount_fuse, PruneType
    <3>3. Top(x[1]) \in Cmd \cup {Plain}
        BY <3>2, TopType DEF MountType, Top
    <3> QED
        BY <3>1, <3>2, <3>3 DEF PruneType
  <2> QED
      BY <1>0, <1>3, <2>1, <2>2, <2>3 DEF Looks, prune_ends
<1>4. CASE Server(i)
    BY <1>0, <1>4 DEF Server, fuse_mount_pure, session_ends
<1>5. CASE Kid(i)
    BY <1>0, <1>5 DEF Kid, unshare, proceed, make_private, bind_overlay,
       remount_all_readonly_except, exec_command
<1>6. CASE Outside(i)
    BY <1>0, <1>6 DEF Outside, command_ends, Kill, forward_signal_to_child
<1> QED
    BY <1>1, <1>2, <1>3, <1>4, <1>5, <1>6 DEF Step

-----------------------------------------------------------------------------
(* Types and control *)

Local ==
  /\ ProgramType /\ ControlType /\ MountType /\ PruneType
  /\ \A i \in Cmd : Control(i)

LEMMA LocalInit == Init => Local
<1> SUFFICES ASSUME Init PROVE Local
    OBVIOUS
<1>1. ProgramType
    BY SessionAssumption DEF Init, ProgramType
<1>2. ControlType
    BY DEF Init, ControlType, PcStates, ThreadStates, ChildStates
<1>3. MountType
  <2>1. NoMounts \in [Places -> Seq(Cmd)]
      BY DEF NoMounts
  <2> QED
      BY <2>1 DEF Init, MountType
<1>4. PruneType
    BY DEF Init, PruneType
<1>5. \A i \in Cmd : Control(i)
    BY <1>1 DEF Init, Control, Steering, Kin, Serves, Begun, ProgramType
<1> QED
    BY <1>1, <1>2, <1>3, <1>4, <1>5 DEF Local

(* What every step has in common. *)
LEMMA StepKeepsLocal ==
  ASSUME Local, NEW i \in Cmd, Step(i)
  PROVE  Local' /\ program' = program /\ Alone(i) /\ Inside(i) /\ StackStep(i)
<1>1. program' = program
    BY ProgramSame
<1>2. ControlType' /\ Alone(i) /\ Control(i)'
    BY <1>1, BeginsControl, MainControl, LooksControl, ServerControl, KidControl,
       OutsideControl DEF Local, Step
<1>3. MountType' /\ StackStep(i) /\ Inside(i)
    BY MountsKept DEF Local
<1>4. PruneType'
    BY PruneTypesKept DEF Local
<1>5. ASSUME NEW j \in Cmd \ {i} PROVE Control(j)'
    BY <1>1, <1>2 DEF Alone, Local, Control, Steering, Kin, Serves
<1>6. ProgramType'
    BY <1>1 DEF Local, ProgramType
<1> QED
    BY <1>1, <1>2, <1>3, <1>4, <1>5, <1>6 DEF Local

LEMMA NextIsStep ==
  ASSUME [Next]_vars
  PROVE  (\E i \in Cmd : Step(i)) \/ UNCHANGED vars
BY DEF Next, Step, Outside

LEMMA StutterKeepsLocal ==
  ASSUME Local, UNCHANGED vars
  PROVE  Local'
<1>1. ProgramType' /\ ControlType' /\ MountType' /\ PruneType'
    BY DEF vars, Local, ProgramType, ControlType, MountType, PruneType
<1>2. \A i \in Cmd : Control(i)'
    BY DEF vars, Local, Control, Steering, Kin, Serves
<1> QED
    BY <1>1, <1>2 DEF Local

-----------------------------------------------------------------------------
(* What a prune knows *)

OnStack(m, p) == \E k \in 1..Len(stack[p]) : stack[p][k] = m

(* A mount is at the place of its server, which will not mount again. *)
OwnMounts ==
  \A m \in Cmd, p \in Places : OnStack(m, p) =>
    /\ Place(m) = p /\ pc[m] \notin {"idle", "setup", "opening"}
    /\ thread[m] # "mounting"
    /\ program[m] = "nfsrun" => pc[m] # "mounting"

(* The command of an exec is in the mount of its own server, or in none, and
   then there is none to come. *)
Settled == {"mounted", "waiting", "dropping", "unmount", "clean"}
ExecHere ==
  \A m \in Cmd : program[m] = "exec" =>
    /\ pc[m] \in Settled \/ child[m] = "running" => thread[m] # "mounting"
    /\ child[m] = "running" => cwd[m] = m \/ stack[m] = <<>>

Over(m) == ~Serves(m) \/ child[m] = "exited"

Looking == {"listed", "active", "selected"}

(* An exec whose command runs or has ended, a run that has mounted. *)
Started(m) ==
  \/ program[m] = "exec" /\ child[m] \in {"running", "exited"}
  \/ /\ program[m] = "run" /\ thread[m] # "mounting"
     /\ pc[m] \notin {"idle", "setup", "opening"}

(* What was in use when the mounts were listed: execs, and runs that are
   registered, or counted, or over. *)
KnownInUse ==
  \A i \in Cmd : pc[i] \in Looking =>
    \A m \in prune.before :
      /\ Started(m)
      /\ \/ program[m] = "exec" \/ Over(m)
         \/ IF pc[i] = "listed" THEN m \in proc ELSE prune.active

(* A session with a live process is not on the list, and only runs register. *)
SessionSpared ==
  \A i \in Cmd : pc[i] = "selected" /\ prune.active =>
    \A x \in prune.todo : x[1] # Session
RunsRegister == \A m \in proc : program[m] = "run"

UsesInv == Local /\ OwnMounts /\ ExecHere /\ KnownInUse /\ SessionSpared /\ RunsRegister

(* A mount that goes was there, and the other stacks stay. *)
LEMMA PopFacts ==
  ASSUME MountType, NEW p \in Places
  PROVE  /\ \A q \in Places \ {p} : Popped(p)[q] = stack[q]
         /\ stack[p] = <<>> => Popped(p)[p] = <<>>
         /\ stack[p] # <<>> =>
              /\ Len(Popped(p)[p]) = Len(stack[p]) - 1
              /\ \A k \in 1..(Len(stack[p]) - 1) : Popped(p)[p][k] = stack[p][k]
              /\ OnStack(Top(p), p)
         /\ Top(p) # Plain => stack[p] # <<>>
<1>1. stack[p] \in Seq(Cmd) /\ stack \in [Places -> Seq(Cmd)]
    BY DEF MountType
<1>2. ASSUME stack[p] # <<>>
      PROVE  /\ Len(Front(stack[p])) = Len(stack[p]) - 1
             /\ \A k \in 1..(Len(stack[p]) - 1) : Front(stack[p])[k] = stack[p][k]
             /\ OnStack(Last(stack[p]), p)
  <2>1. Len(stack[p]) \in Nat \ {0}
      BY <1>1, <1>2
  <2>2. /\ Len(Front(stack[p])) = Len(stack[p]) - 1
        /\ \A k \in 1..(Len(stack[p]) - 1) : Front(stack[p])[k] = stack[p][k]
    <3> DEFINE n == Len(stack[p]) - 1
    <3>1. n \in Nat /\ \A k \in 1..n : stack[p][k] \in Cmd
        BY <1>1, <2>1
    <3> HIDE DEF n
    <3>2. /\ Len(SubSeq(stack[p], 1, n)) = IF 1 <= n THEN n - 1 + 1 ELSE 0
          /\ \A k \in 1..(n - 1 + 1) : SubSeq(stack[p], 1, n)[k] = stack[p][1 + k - 1]
        BY <3>1, SubSeqProperties
    <3>3. Len(SubSeq(stack[p], 1, n)) = n /\ \A k \in 1..n : SubSeq(stack[p], 1, n)[k] = stack[p][k]
        BY <3>1, <3>2
    <3> QED
        BY <3>3 DEF Front, n
  <2>3. Len(stack[p]) \in 1..Len(stack[p]) /\ stack[p][Len(stack[p])] = Last(stack[p])
      BY <2>1 DEF Last
  <2> QED
      BY <2>2, <2>3 DEF OnStack
<1> QED
    BY <1>1, <1>2 DEF Popped, Top, TopOf

LEMMA StackStepFacts ==
  ASSUME MountType, NEW i \in Cmd, StackStep(i), NEW m \in Cmd, NEW p \in Places, OnStack(m, p)'
  PROVE  OnStack(m, p) \/ (m = i /\ p = Place(i) /\ Pushes(i))
<1>1. CASE stack' = stack
    BY <1>1 DEF OnStack
<1>2. CASE Pushes(i)
  <2>1. stack[p] \in Seq(Cmd) /\ stack \in [Places -> Seq(Cmd)] /\ Place(i) \in Places
      BY StackTypes DEF MountType
  <2>2. CASE p # Place(i)
      BY <1>2, <2>1, <2>2 DEF Pushes, OnStack
  <2>3. CASE p = Place(i)
      BY <1>2, <2>1, <2>3 DEF Pushes, OnStack
  <2> QED
      BY <2>2, <2>3
<1>3. CASE Pops
  <2>1. PICK q \in Places : stack' = Popped(q)
      BY <1>3 DEF Pops
  <2>2. stack[p] \in Seq(Cmd)
      BY DEF MountType
  <2>3. CASE stack[p] = <<>> \/ q # p
      BY <2>1, <2>3, PopFacts DEF OnStack
  <2>4. CASE stack[p] # <<>> /\ q = p
    <3>1. /\ Len(stack'[p]) = Len(stack[p]) - 1
          /\ \A k \in 1..(Len(stack[p]) - 1) : stack'[p][k] = stack[p][k]
        BY <2>1, <2>4, PopFacts
    <3> QED
        BY <2>2, <3>1 DEF OnStack
  <2> QED
      BY <2>3, <2>4
<1> QED
    BY <1>1, <1>2, <1>3 DEF StackStep

(* How one invocation goes on, as far as its mount and its command go. *)
GoesOn(i) ==
  /\ pc'[i] \in {"idle", "setup", "opening"} => pc[i] \in {"idle", "setup", "opening"}
  /\ pc'[i] = "mounting" => pc[i] \in {"idle", "setup", "opening", "mounting"}
  /\ thread'[i] = "mounting" =>
       \/ thread[i] = "mounting"
       \/ pc[i] \in {"idle", "opening"} /\ pc'[i] \in {"mounting", "readying"}
          /\ child'[i] = "none"
  /\ Over(i) => Over(i)' \/ thread[i] = "mounting" \/ pc[i] = "opening"
  /\ child[i] \in {"running", "exited"} => child'[i] \in {"running", "exited"}
  /\ child[i] = "running" /\ child'[i] = "running" => cwd'[i] = cwd[i]
  /\ program[i] = "exec" /\ pc'[i] \in Settled => pc[i] \in Settled \/ is_mountpoint(i)
  /\ program[i] = "exec" /\ child'[i] = "running" /\ child[i] # "running" =>
       pc[i] = "mounted" /\ cwd'[i] = Top(i) /\ stack' = stack

LEMMA GoingOn ==
  ASSUME Local, NEW i \in Cmd, Step(i)
  PROVE  GoesOn(i)
<1>0. ControlType /\ Control(i) /\ cwd \in [Cmd -> Cmd \cup {Plain, "none"}]
    BY DEF Local, MountType
<1> USE DEF ControlType, Control, Steering, Kin, Serves, Over, GoesOn, Settled, Place, Goto, End, parent, kids
<1>1. CASE Begins(i)
  <2>1. CASE setup_run_directory(i)
      BY <1>0, <2>1 DEF setup_run_directory
  <2>2. CASE handle_exec_command(i)
      BY <1>0, <2>2 DEF handle_exec_command
  <2>3. CASE daemonize(i)
      BY <1>0, <2>3 DEF daemonize
  <2>4. CASE get_mounts(i)
      BY <1>0, <2>4 DEF get_mounts
  <2> QED
      BY <1>1, <2>1, <2>2, <2>3, <2>4 DEF Begins
<1>2. CASE Main(i)
  <2>1. CASE join_or_own(i)
      BY <1>0, <2>1 DEF join_or_own
  <2>2. CASE nfs_join_or_own(i)
      BY <1>0, <2>2 DEF nfs_join_or_own
  <2>3. CASE open_overlay(i)
      BY <1>0, <2>3 DEF open_overlay
  <2>4. CASE nfs_open_overlay(i)
      BY <1>0, <2>4 DEF nfs_open_overlay
  <2>5. CASE wait_for_mount(i)
      BY <1>0, <2>5 DEF wait_for_mount
  <2>6. CASE mount_nfs(i)
      BY <1>0, <2>6 DEF mount_nfs
  <2>7. CASE daemon_ready(i)
      BY <1>0, <2>7 DEF daemon_ready, signal_parent
  <2>8. CASE daemon_joins(i)
      BY <1>0, <2>8 DEF daemon_joins
  <2>9. CASE wait_for_signal(i)
      BY <1>0, <2>9 DEF wait_for_signal
  <2>10. CASE fork(i)
      BY <1>0, <2>10 DEF fork
  <2>11. CASE wait_for_pipe_signal(i)
      BY <1>0, <2>11 DEF wait_for_pipe_signal
  <2>12. CASE write_namespace_mappings(i)
      BY <1>0, <2>12 DEF write_namespace_mappings
  <2>13. CASE abort_child(i)
      BY <1>0, <2>13 DEF abort_child
  <2>14. CASE write_proc_file(i)
      BY <1>0, <2>14 DEF write_proc_file
  <2>15. CASE install_signal_handlers(i)
      BY <1>0, <2>15 DEF install_signal_handlers
  <2>16. CASE wait_for_child(i)
      BY <1>0, <2>16 DEF wait_for_child
  <2>17. CASE drop_mount_handle(i)
      BY <1>0, <2>17 DEF drop_mount_handle
  <2>18. CASE clean_up(i)
      BY <1>0, <2>18 DEF clean_up
  <2>19. CASE nfs_unmount(i)
      BY <1>0, <2>19 DEF nfs_unmount
  <2>20. CASE nfs_clean_up(i)
      BY <1>0, <2>20 DEF nfs_clean_up
  <2>21. CASE run_command_in_mount(i)
      BY <1>0, <2>21 DEF run_command_in_mount
  <2> QED
      BY <1>2, <2>1, <2>2, <2>3, <2>4, <2>5, <2>6, <2>7, <2>8, <2>9, <2>10,
         <2>11, <2>12, <2>13, <2>14, <2>15, <2>16, <2>17, <2>18, <2>19,
         <2>20, <2>21 DEF Main
<1>3. CASE Looks(i)
  <2>1. CASE active_session_ids(i)
      BY <1>0, <2>1 DEF active_session_ids
  <2>2. CASE select_unused(i)
      BY <1>0, <2>2 DEF select_unused
  <2>3. CASE unmount_fuse(i)
      BY <1>0, <2>3 DEF unmount_fuse
  <2>4. CASE prune_ends(i)
      BY <1>0, <2>4 DEF prune_ends
  <2> QED
      BY <1>3, <2>1, <2>2, <2>3, <2>4 DEF Looks
<1>4. CASE Server(i)
  <2>1. CASE fuse_mount_pure(i)
      BY <1>0, <2>1 DEF fuse_mount_pure
  <2>2. CASE session_ends(i)
      BY <1>0, <2>2 DEF session_ends
  <2> QED
      BY <1>4, <2>1, <2>2 DEF Server
<1>5. CASE Kid(i)
  <2> USE DEF Child, ChildExits, ChildOnly, Begun
  <2>1. CASE unshare(i)
      BY <1>0, <2>1 DEF unshare
  <2>2. CASE proceed(i)
      BY <1>0, <2>2 DEF proceed
  <2>3. CASE make_private(i)
      BY <1>0, <2>3 DEF make_private
  <2>4. CASE bind_overlay(i)
      BY <1>0, <2>4 DEF bind_overlay
  <2>5. CASE remount_all_readonly_except(i)
      BY <1>0, <2>5 DEF remount_all_readonly_except
  <2>6. CASE exec_command(i)
      BY <1>0, <2>6 DEF exec_command
  <2> QED
      BY <1>5, <2>1, <2>2, <2>3, <2>4, <2>5, <2>6 DEF Kid
<1>6. CASE Outside(i)
  <2> USE DEF Child, ChildExits, ChildOnly, Begun
  <2>1. CASE command_ends(i)
      BY <1>0, <2>1 DEF command_ends
  <2>2. CASE Kill(i)
      BY <1>0, <2>2 DEF Kill
  <2>3. CASE forward_signal_to_child(i)
      BY <1>0, <2>3 DEF forward_signal_to_child
  <2> QED
      BY <1>6, <2>1, <2>2, <2>3 DEF Outside
<1> QED
    BY <1>1, <1>2, <1>3, <1>4, <1>5, <1>6 DEF Step

LEMMA OwnMountsKept ==
  ASSUME Local, OwnMounts, NEW i \in Cmd, Step(i)
  PROVE  OwnMounts'
<1>1. /\ Local' /\ program' = program /\ Alone(i) /\ StackStep(i) /\ GoesOn(i)
      /\ Control(i) /\ Control(i)' /\ MountType
    BY StepKeepsLocal, GoingOn DEF Local
<1> SUFFICES ASSUME NEW m \in Cmd, NEW p \in Places, OnStack(m, p)'
             PROVE  /\ (Place(m) = p)' /\ pc'[m] \notin {"idle", "setup", "opening"}
                    /\ thread'[m] # "mounting"
                    /\ program'[m] = "nfsrun" => pc'[m] # "mounting"
    BY DEF OwnMounts
<1>2. Place(m)' = Place(m)
    BY <1>1 DEF Place
<1>3. CASE OnStack(m, p)
  <2>1. /\ Place(m) = p /\ pc[m] \notin {"idle", "setup", "opening"}
        /\ thread[m] # "mounting" /\ (program[m] = "nfsrun" => pc[m] # "mounting")
      BY <1>3 DEF OwnMounts
  <2>2. CASE m = i
      BY <1>1, <1>2, <2>1, <2>2 DEF GoesOn
  <2>3. CASE m # i
      BY <1>1, <1>2, <2>1, <2>3 DEF Alone
  <2> QED
      BY <2>2, <2>3
<1>4. CASE m = i /\ p = Place(i) /\ Pushes(i)
  <2>1. thread'[i] # "none" /\ thread'[i] # "mounting"
      BY <1>1, <1>4 DEF Pushes, Control, Kin, Serves
  <2>2. pc'[i] \notin {"idle", "setup", "opening"}
      BY <1>1, <2>1 DEF Control, Kin
  <2>3. program[i] = "nfsrun" => pc'[i] # "mounting"
      BY <1>1, <1>4 DEF Pushes, Control, Kin
  <2> QED
      BY <1>1, <1>2, <1>4, <2>1, <2>2, <2>3
<1> QED
    BY <1>1, <1>3, <1>4, StackStepFacts

(* A live mount is on the stack. *)
LEMMA TopIsOn ==
  ASSUME Local, OwnMounts, NEW p \in Places, Top(p) # Plain
  PROVE  Top(p) \in Cmd /\ OnStack(Top(p), p) /\ Place(Top(p)) = p
<1>1. MountType
    BY DEF Local
<1>2. OnStack(Top(p), p)
    BY <1>1, PopFacts
<1>3. Top(p) \in Cmd
    BY <1>1, TopType DEF MountType, Top
<1> QED
    BY <1>2, <1>3 DEF OwnMounts

LEMMA ExecHereKept ==
  ASSUME Local, OwnMounts, ExecHere, NEW i \in Cmd, Step(i)
  PROVE  ExecHere'
<1>1. /\ Local' /\ program' = program /\ Alone(i) /\ Inside(i) /\ StackStep(i) /\ GoesOn(i)
      /\ MountType
    BY StepKeepsLocal, GoingOn DEF Local
<1> SUFFICES ASSUME NEW m \in Cmd, program[m] = "exec"
             PROVE  /\ pc'[m] \in Settled \/ child'[m] = "running" => thread'[m] # "mounting"
                    /\ child'[m] = "running" => cwd'[m] = m \/ stack'[m] = <<>>
    BY <1>1 DEF ExecHere
<1>2. m \in Places /\ Place(m) = m /\ \A j \in Cmd : Place(j) = m => j = m
    BY SessionAssumption DEF Places, Place
<1>3. /\ pc[m] \in Settled \/ child[m] = "running" => thread[m] # "mounting"
      /\ child[m] = "running" => cwd[m] = m \/ stack[m] = <<>>
    BY DEF ExecHere
<1>4. Control(m)
    BY DEF Local
<1>5. pc'[m] \in Settled \/ child'[m] = "running" => thread'[m] # "mounting"
  <2>1. CASE m # i
      BY <1>1, <1>3, <2>1 DEF Alone
  <2>2. CASE m = i
    <3>1. ASSUME is_mountpoint(i) PROVE thread[i] # "mounting"
      <4>1. Top(i) # Plain
          BY <3>1 DEF is_mountpoint
      <4>2. Top(i) \in Cmd /\ OnStack(Top(i), i) /\ Top(i) = i
          BY <1>2, <2>2, <4>1, TopIsOn
      <4> QED
          BY <1>2, <2>2, <4>2 DEF OwnMounts
    <3>3. /\ thread'[i] = "mounting" =>
                \/ thread[i] = "mounting"
                \/ pc'[i] \notin Settled /\ child'[i] # "running"
          /\ pc'[i] \in Settled => pc[i] \in Settled \/ is_mountpoint(i)
          /\ child'[i] = "running" => child[i] = "running" \/ pc[i] \in Settled
        BY <1>1, <2>2 DEF GoesOn, Settled
    <3> QED
        BY <1>3, <2>2, <3>1, <3>3
  <2> QED
      BY <2>1, <2>2
<1>6. ASSUME child'[m] = "running" PROVE cwd'[m] = m \/ stack'[m] = <<>>
  <2>1. CASE child[m] = "running"
    <3>1. cwd'[m] = cwd[m]
        BY <1>1, <1>6, <2>1 DEF Inside, GoesOn
    <3>2. ASSUME stack[m] = <<>> PROVE stack'[m] = <<>>
      <4>1. CASE Pushes(i)
        <5>1. i # m
            BY <1>3, <2>1, <4>1 DEF Pushes
        <5> QED
            BY <1>1, <1>2, <3>2, <4>1, <5>1 DEF Pushes, MountType
      <4>2. CASE Pops
          BY <1>1, <1>2, <3>2, <4>2, PopFacts DEF Pops
      <4> QED
          BY <1>1, <3>2, <4>1, <4>2 DEF StackStep
    <3> QED
        BY <1>3, <2>1, <3>1, <3>2
  <2>2. CASE child[m] # "running"
    <3>1. m = i
        BY <1>1, <1>6, <2>2 DEF Alone
    <3>2. cwd'[i] = Top(i) /\ stack' = stack
        BY <1>1, <1>6, <2>2, <3>1 DEF GoesOn
    <3>3. CASE Top(i) = Plain
        BY <1>1, <1>2, <3>1, <3>2, <3>3, TopType DEF MountType, Top
    <3>4. CASE Top(i) # Plain
        BY <1>2, <3>1, <3>2, <3>4, TopIsOn
    <3> QED
        BY <3>3, <3>4
  <2> QED
      BY <2>1, <2>2
<1> QED
    BY <1>5, <1>6

(* All but the steps of a prune leave what it knows, but for runs that end. *)
Ignores(i) ==
  /\ prune' = prune
  /\ \A j \in Cmd : pc'[j] \in Looking => pc[j] = pc'[j]
  /\ \A m \in proc : m \in proc' \/ child'[m] = "exited"
(* The steps in which a prune finds something out. *)
Finds(i) == get_mounts(i) \/ active_session_ids(i) \/ select_unused(i) \/ unmount_fuse(i)

LEMMA OthersIgnore ==
  ASSUME Local, NEW i \in Cmd, Step(i)
  PROVE  Finds(i) \/ Ignores(i)
<1>0. ControlType
    BY DEF Local
<1> USE DEF ControlType, Ignores, Looking, Goto, End, parent, kids, history
<1>1. CASE Begins(i)
  <2>1. CASE setup_run_directory(i)
      BY <1>0, <2>1 DEF setup_run_directory
  <2>2. CASE handle_exec_command(i)
      BY <1>0, <2>2 DEF handle_exec_command
  <2>3. CASE daemonize(i)
      BY <1>0, <2>3 DEF daemonize
  <2> QED
      BY <1>1, <2>1, <2>2, <2>3 DEF Begins, Finds
<1>2. CASE Main(i)
  <2>1. CASE join_or_own(i)
      BY <1>0, <2>1 DEF join_or_own
  <2>2. CASE nfs_join_or_own(i)
      BY <1>0, <2>2 DEF nfs_join_or_own
  <2>3. CASE open_overlay(i)
      BY <1>0, <2>3 DEF open_overlay
  <2>4. CASE nfs_open_overlay(i)
      BY <1>0, <2>4 DEF nfs_open_overlay
  <2>5. CASE wait_for_mount(i)
      BY <1>0, <2>5 DEF wait_for_mount
  <2>6. CASE mount_nfs(i)
      BY <1>0, <2>6 DEF mount_nfs
  <2>7. CASE daemon_ready(i)
      BY <1>0, <2>7 DEF daemon_ready, signal_parent
  <2>8. CASE daemon_joins(i)
      BY <1>0, <2>8 DEF daemon_joins
  <2>9. CASE wait_for_signal(i)
      BY <1>0, <2>9 DEF wait_for_signal
  <2>10. CASE fork(i)
      BY <1>0, <2>10 DEF fork
  <2>11. CASE wait_for_pipe_signal(i)
      BY <1>0, <2>11 DEF wait_for_pipe_signal
  <2>12. CASE write_namespace_mappings(i)
      BY <1>0, <2>12 DEF write_namespace_mappings
  <2>13. CASE abort_child(i)
      BY <1>0, <2>13 DEF abort_child
  <2>14. CASE write_proc_file(i)
      BY <1>0, <2>14 DEF write_proc_file
  <2>15. CASE install_signal_handlers(i)
      BY <1>0, <2>15 DEF install_signal_handlers
  <2>16. CASE wait_for_child(i)
      BY <1>0, <2>16 DEF wait_for_child
  <2>17. CASE drop_mount_handle(i)
      BY <1>0, <2>17 DEF drop_mount_handle
  <2>18. CASE clean_up(i)
      BY <1>0, <2>18 DEF clean_up
  <2>19. CASE nfs_unmount(i)
      BY <1>0, <2>19 DEF nfs_unmount
  <2>20. CASE nfs_clean_up(i)
      BY <1>0, <2>20 DEF nfs_clean_up
  <2>21. CASE run_command_in_mount(i)
      BY <1>0, <2>21 DEF run_command_in_mount
  <2> QED
      BY <1>2, <2>1, <2>2, <2>3, <2>4, <2>5, <2>6, <2>7, <2>8, <2>9, <2>10,
         <2>11, <2>12, <2>13, <2>14, <2>15, <2>16, <2>17, <2>18, <2>19,
         <2>20, <2>21 DEF Main
<1>3. CASE Looks(i)
  <2>1. CASE prune_ends(i)
      BY <1>0, <2>1 DEF prune_ends
  <2> QED
      BY <1>3, <2>1 DEF Looks, Finds
<1>4. CASE Server(i)
  <2>1. CASE fuse_mount_pure(i)
      BY <1>0, <2>1 DEF fuse_mount_pure
  <2>2. CASE session_ends(i)
      BY <1>0, <2>2 DEF session_ends
  <2> QED
      BY <1>4, <2>1, <2>2 DEF Server
<1>5. CASE Kid(i)
  <2> USE DEF Child, ChildExits, ChildOnly
  <2>1. CASE unshare(i)
      BY <1>0, <2>1 DEF unshare
  <2>2. CASE proceed(i)
      BY <1>0, <2>2 DEF proceed
  <2>3. CASE make_private(i)
      BY <1>0, <2>3 DEF make_private
  <2>4. CASE bind_overlay(i)
      BY <1>0, <2>4 DEF bind_overlay
  <2>5. CASE remount_all_readonly_except(i)
      BY <1>0, <2>5 DEF remount_all_readonly_except
  <2>6. CASE exec_command(i)
      BY <1>0, <2>6 DEF exec_command
  <2> QED
      BY <1>5, <2>1, <2>2, <2>3, <2>4, <2>5, <2>6 DEF Kid
<1>6. CASE Outside(i)
  <2> USE DEF Child, ChildExits, ChildOnly
  <2>1. CASE command_ends(i)
      BY <1>0, <2>1 DEF command_ends
  <2>2. CASE Kill(i)
      BY <1>0, <2>2 DEF Kill
  <2>3. CASE forward_signal_to_child(i)
      BY <1>0, <2>3 DEF forward_signal_to_child
  <2> QED
      BY <1>6, <2>1, <2>2, <2>3 DEF Outside
<1> QED
    BY <1>1, <1>2, <1>3, <1>4, <1>5, <1>6 DEF Step

LEMMA RunsRegisterKept ==
  ASSUME Local, RunsRegister, NEW i \in Cmd, Step(i)
  PROVE  RunsRegister'
<1>1. program' = program /\ Control(i)
    BY StepKeepsLocal DEF Local
<1>2. proc' \subseteq proc \cup {i} /\ (i \in proc' \ proc => pc[i] = "mapped")
  <2> USE DEF history, ChildOnly
  <2>1. CASE Begins(i)
      BY <2>1 DEF Begins, setup_run_directory, handle_exec_command, daemonize, get_mounts
  <2>2. CASE Main(i)
      BY <2>2 DEF Main, join_or_own, nfs_join_or_own,
         open_overlay, nfs_open_overlay, wait_for_mount, mount_nfs,
         daemon_ready, daemon_joins, wait_for_signal, fork,
         wait_for_pipe_signal, write_namespace_mappings, abort_child,
         install_signal_handlers, drop_mount_handle, clean_up, nfs_unmount,
         nfs_clean_up, run_command_in_mount, write_proc_file, wait_for_child
  <2>3. CASE Looks(i)
      BY <2>3 DEF Looks, active_session_ids, select_unused, unmount_fuse, prune_ends
  <2>4. CASE Server(i)
      BY <2>4 DEF Server, fuse_mount_pure, session_ends
  <2>5. CASE Kid(i)
      BY <2>5 DEF Kid, unshare, proceed, make_private, bind_overlay,
         remount_all_readonly_except, exec_command
  <2>6. CASE Outside(i)
      BY <2>6 DEF Outside, command_ends, Kill, forward_signal_to_child
  <2> QED
      BY <2>1, <2>2, <2>3, <2>4, <2>5, <2>6 DEF Step
<1> QED
    BY <1>1, <1>2 DEF RunsRegister, Control, Steering

LEMMA StartedStays ==
  ASSUME Local, NEW i \in Cmd, Step(i), NEW m \in Cmd, Started(m)
  PROVE  /\ Started(m)'
         /\ program[m] = "run" /\ Over(m) => Over(m)'
<1>1. program' = program /\ Alone(i) /\ GoesOn(i)
    BY StepKeepsLocal, GoingOn
<1>2. CASE m # i
    BY <1>1, <1>2 DEF Alone, Started, Over, Serves
<1>3. CASE m = i
    BY <1>1, <1>3 DEF GoesOn, Started
<1> QED
    BY <1>2, <1>3

LEMMA KnownKept ==
  ASSUME Local, KnownInUse, RunsRegister, NEW i \in Cmd, Step(i)
  PROVE  KnownInUse'
<1>1. /\ Local' /\ program' = program /\ Alone(i)
      /\ ControlType /\ ControlType' /\ ProgramType /\ PruneType /\ Control(i)
      /\ \A j \in Cmd : Control(j) /\ Control(j)'
    BY StepKeepsLocal DEF Local
<1>2. \A j \in Cmd : pc'[j] \in Looking => program[j] = "prune"
    BY <1>1 DEF Looking, Control, Steering
<1> SUFFICES ASSUME NEW j \in Cmd, pc'[j] \in Looking, NEW m \in prune'.before
             PROVE  /\ Started(m)'
                    /\ \/ program[m] = "exec" \/ Over(m)'
                       \/ IF pc'[j] = "listed" THEN m \in proc' ELSE prune'.active
    BY <1>1 DEF KnownInUse
<1>3. m \in Cmd
    BY <1>1 DEF Local, PruneType
<1>4. ASSUME pc[i] \in Looking \/ pc'[i] \in Looking PROVE i = j
    BY <1>1, <1>2, <1>4 DEF Looking, Control, Steering, ProgramType
(* As long as what a prune has read is unchanged. *)
<1>5. ASSUME pc[j] \in Looking, m \in prune.before
      PROVE  /\ Started(m)'
             /\ \/ program[m] = "exec" \/ Over(m)'
                \/ IF pc[j] = "listed" THEN m \in proc ELSE prune.active
    BY <1>3, <1>5, StartedStays DEF KnownInUse, Started
<1>6. CASE Ignores(i)
  <2>1. pc[j] = pc'[j] /\ m \in prune.before /\ prune'.active = prune.active
      BY <1>6 DEF Ignores
  <2>2. m \in proc => m \in proc' \/ Over(m)'
      BY <1>6 DEF Ignores, Over
  <2> QED
      BY <1>5, <2>1, <2>2
<1>7. CASE get_mounts(i)
  <2>1. /\ pc'[i] = "listed" /\ proc' = proc /\ thread' = thread /\ child' = child
        /\ pc' = [pc EXCEPT ![i] = "listed"]
      BY <1>1, <1>7 DEF get_mounts, Goto, kids, ControlType
  <2>2. i = j
      BY <1>4, <2>1 DEF Looking
  <2>3. /\ Serves(m) /\ Alive(m)
        /\ m \in proc \/ (program[m] = "exec" /\ child[m] = "running")
      BY <1>1, <1>7 DEF get_mounts, PruneType
  <2>4. pc[m] \notin {"idle", "setup", "opening"} /\ m # i
      BY <1>1, <1>3, <1>7, <2>3 DEF Control, Kin, Serves, get_mounts
  <2>5. pc'[m] = pc[m]
      BY <1>1, <1>3, <2>1, <2>4 DEF ControlType
  <2>6. Started(m)'
      BY <1>1, <2>1, <2>3, <2>4, <2>5 DEF Started, Serves, RunsRegister
  <2> QED
      BY <2>1, <2>2, <2>3, <2>6
<1>8. CASE active_session_ids(i)
  <2>1. /\ pc[i] = "listed" /\ pc'[i] = "active" /\ proc' = {k \in proc : Alive(k)}
        /\ prune'.before = prune.before /\ prune'.active = (proc' # {})
      BY <1>1, <1>8 DEF active_session_ids, Goto, ControlType, PruneType
  <2>2. i = j
      BY <1>4, <2>1 DEF Looking
  <2>3. /\ Started(m)'
        /\ program[m] = "exec" \/ Over(m)' \/ m \in proc
      BY <1>5, <2>1, <2>2 DEF Looking
  <2>4. m \in proc => prune'.active \/ pc[m] \in {"idle", "over"}
      BY <2>1 DEF Alive
  <2>5. thread' = thread
      BY <1>8 DEF active_session_ids, Goto
  <2>6. pc[m] \in {"idle", "over"} => Over(m)'
      BY <1>1, <1>3, <2>5 DEF Control, Kin, Over, Serves
  <2> QED
      BY <2>1, <2>2, <2>3, <2>4, <2>6
<1>9. CASE select_unused(i)
  <2>1. /\ pc[i] = "active" /\ pc'[i] = "selected"
        /\ prune'.before = prune.before /\ prune'.active = prune.active
      BY <1>1, <1>9 DEF select_unused, Goto, ControlType, PruneType
  <2>2. i = j
      BY <1>4, <2>1 DEF Looking
  <2> QED
      BY <1>5, <2>1, <2>2 DEF Looking
<1>10. CASE unmount_fuse(i)
  <2>1. /\ pc[i] = "selected" /\ pc' = pc
        /\ prune'.before = prune.before /\ prune'.active = prune.active
      BY <1>1, <1>10 DEF unmount_fuse, parent, PruneType
  <2>2. i = j
      BY <1>4, <2>1 DEF Looking
  <2> QED
      BY <1>5, <2>1, <2>2 DEF Looking
<1> QED
    BY <1>6, <1>7, <1>8, <1>9, <1>10, OthersIgnore DEF Finds

LEMMA SparedKept ==
  ASSUME Local, SessionSpared, NEW i \in Cmd, Step(i)
  PROVE  SessionSpared'
<1>1. /\ program' = program /\ ControlType /\ ProgramType /\ PruneType
      /\ \A j \in Cmd : Control(j) /\ Control(j)'
    BY StepKeepsLocal DEF Local
<1> SUFFICES ASSUME NEW j \in Cmd, pc'[j] = "selected", prune'.active, NEW x \in prune'.todo
             PROVE  x[1] # Session
    BY DEF SessionSpared
<1>2. ASSUME pc[i] \in Looking \/ pc'[i] \in Looking PROVE i = j
    BY <1>1, <1>2 DEF Looking, Control, Steering, ProgramType
<1>3. CASE Ignores(i)
    BY <1>3 DEF Ignores, Looking, SessionSpared
<1>4. CASE get_mounts(i) \/ active_session_ids(i)
    BY <1>1, <1>2, <1>4 DEF get_mounts, active_session_ids, Goto, ControlType, Looking
<1>5. CASE select_unused(i)
    BY <1>1, <1>5 DEF select_unused, PruneType
<1>6. CASE unmount_fuse(i)
  <2>1. pc' = pc /\ prune'.active = prune.active /\ prune'.todo \subseteq prune.todo
      BY <1>1, <1>6 DEF unmount_fuse, parent, PruneType
  <2> QED
      BY <2>1 DEF SessionSpared
<1> QED
    BY <1>3, <1>4, <1>5, <1>6, OthersIgnore DEF Finds

LEMMA UsesInit == Init => UsesInv
<1> SUFFICES ASSUME Init PROVE UsesInv
    OBVIOUS
<1>1. Local
    BY LocalInit
<1>2. \A p \in Places : stack[p] = <<>>
    BY DEF Init, NoMounts
<1>3. OwnMounts
    BY <1>2 DEF OwnMounts, OnStack
<1>4. ExecHere /\ KnownInUse /\ SessionSpared /\ RunsRegister
    BY DEF Init, ExecHere, KnownInUse, SessionSpared, RunsRegister, Looking
<1> QED
    BY <1>1, <1>3, <1>4 DEF UsesInv

LEMMA UsesKept ==
  ASSUME UsesInv, [Next]_vars
  PROVE  UsesInv'
<1>1. CASE UNCHANGED vars
  <2>1. Local'
      BY <1>1, StutterKeepsLocal DEF UsesInv
  <2>2. OwnMounts' /\ ExecHere'
      BY <1>1 DEF vars, UsesInv, OwnMounts, OnStack, Place, ExecHere
  <2>3. KnownInUse' /\ SessionSpared' /\ RunsRegister'
      BY <1>1 DEF vars, UsesInv, KnownInUse, Started, Over, Serves, SessionSpared, RunsRegister
  <2> QED
      BY <2>1, <2>2, <2>3 DEF UsesInv
<1>2. ASSUME NEW i \in Cmd, Step(i) PROVE UsesInv'
    BY <1>2, StepKeepsLocal, OwnMountsKept, ExecHereKept, KnownKept, SparedKept,
       RunsRegisterKept DEF UsesInv
<1> QED
    BY <1>1, <1>2, NextIsStep

(* What goes from the pruned is nothing that was in use. *)
LEMMA PrunesUnused ==
  ASSUME UsesInv, [Next]_vars, NEW m \in (pruned' \ pruned) \cap prune.before
  PROVE  ~Serves(m) \/ child[m] = "exited"
<1>1. Local /\ OwnMounts /\ ExecHere /\ KnownInUse /\ SessionSpared
    BY DEF UsesInv
<1>2. PICK i \in Cmd : unmount_fuse(i)
  <2>1. pruned' # pruned
      OBVIOUS
  <2>2. PICK i \in Cmd : Step(i)
      BY <2>1, NextIsStep DEF vars
  <2> USE DEF history, ChildOnly
  <2>3. unmount_fuse(i)
    <3>1. ~Begins(i)
        BY <2>1 DEF Begins, setup_run_directory, handle_exec_command, daemonize, get_mounts
    <3>2. ~Main(i)
        BY <2>1 DEF Main, join_or_own, nfs_join_or_own,
           open_overlay, nfs_open_overlay, wait_for_mount, mount_nfs,
           daemon_ready, daemon_joins, wait_for_signal, fork,
           wait_for_pipe_signal, write_namespace_mappings, abort_child,
           install_signal_handlers, drop_mount_handle, clean_up, nfs_unmount,
           nfs_clean_up, run_command_in_mount, write_proc_file, wait_for_child
    <3>3. Looks(i) => unmount_fuse(i)
        BY <2>1 DEF Looks, active_session_ids, select_unused, prune_ends
    <3>4. ~Server(i) /\ ~Kid(i) /\ ~Outside(i)
        BY <2>1 DEF Server, fuse_mount_pure, session_ends, Kid, unshare, proceed,
           make_private, bind_overlay, remount_all_readonly_except, exec_command,
           Outside, command_ends, Kill, forward_signal_to_child
    <3> QED
        BY <2>2, <3>1, <3>2, <3>3, <3>4 DEF Step
  <2> QED
      BY <2>3
<1>3. PICK x \in prune.todo :
        /\ m = Top(x[1]) /\ Top(x[1]) # Plain
        /\ ~\E j \in Cmd : program[j] = "exec" /\ cwd[j] = Top(x[1])
    BY <1>2 DEF unmount_fuse
<1>4. x[1] \in Places /\ m \in Cmd
    BY <1>1 DEF Local, PruneType
<1>5. OnStack(m, x[1]) /\ Place(m) = x[1]
    BY <1>1, <1>3, <1>4, TopIsOn
<1>6. Started(m) /\ (program[m] = "exec" \/ Over(m) \/ prune.active)
    BY <1>1, <1>2 DEF KnownInUse, unmount_fuse, Looking
<1>7. CASE program[m] = "exec"
  <2>1. x[1] = m /\ stack[m] # <<>>
    <3>1. x[1] = m
        BY <1>5, <1>7 DEF Place
    <3>2. stack[m] # <<>>
        BY <1>1, <1>3, <1>4, <3>1, PopFacts DEF Local
    <3> QED
        BY <3>1, <3>2
  <2>2. child[m] # "running"
      BY <1>1, <1>3, <1>4, <1>7, <2>1 DEF ExecHere
  <2> QED
      BY <1>6, <1>7, <2>2 DEF Started
<1>8. CASE program[m] = "run"
  <2>1. x[1] = Session
      BY <1>5, <1>8 DEF Place
  <2>2. ~prune.active
      BY <1>1, <1>2, <2>1 DEF SessionSpared, unmount_fuse
  <2> QED
      BY <1>6, <1>8, <2>2 DEF Over
<1> QED
    BY <1>6, <1>7, <1>8 DEF Started

(* A run that was registered, or an exec that was running, when prune listed
   the mounts loses its mount to it only when its command is over: the proc
   files are read after the mounts, and an unmount is refused while a command
   is in it (cmd/mount.rs, cmd/ps.rs).  Whoever starts or ends at that time,
   fails or is killed. *)
THEOREM PruneSparesUsed == Spec => PrunedIsUnused
<1>1. UsesInv /\ [Next]_vars =>
        [\A m \in (pruned' \ pruned) \cap prune.before : ~Serves(m) \/ child[m] = "exited"]_vars
    BY PrunesUnused
<1> QED
    BY <1>1, UsesInit, UsesKept, PTL DEF Spec, PrunedIsUnused

-----------------------------------------------------------------------------
(* One run at a time starts *)

InSession(i) == program[i] \in {"run", "nfsrun"}

(* A run that starts, or ends and may yet unmount. *)
Busy(i) == Starting(i) \/ (Ending(i) /\ ~(role[i] = "joiner" /\ pc[i] = "waiting"))

OneStarts ==
  \A i, j \in Cmd : InSession(i) /\ InSession(j) /\ i # j /\ Starting(i) => ~Busy(j)

(* What is mounted somewhere is one mount, of a server that serves or was not
   ended in order. *)
Mounted(m) ==
  /\ role[m] # "joiner" /\ program[m] # "prune"
  /\ pc[m] \notin {"idle", "setup", "opening"}
  /\ program[m] = "nfsrun" => pc[m] # "mounting"
  /\ Serves(m) \/ fate[m] \in {"killed", "aborted", "late"}

OneMount ==
  \A p \in Places : stack[p] # <<>> =>
    \E m \in Cmd : stack[p] = <<m>> /\ Place(m) = p /\ Mounted(m)

(* A run that is to mount finds no live mount of another. *)
Fresh ==
  \A i \in Cmd : InSession(i) =>
    /\ pc[i] = "setup" => dir[Session]
    /\ pc[i] \in {"opening", "mounting"} =>
         \A m \in Cmd \ {i} : stack[Session] = <<m>> => ~Serves(m)
    /\ thread[i] = "mounting" => pc[i] = "mounting"

PrunedAt(p) == \E m \in pruned : Place(m) = p

(* Between the mount and the namespace of the command. *)
Past(i) ==
  \/ pc[i] \in {"mounted", "joining", "sync", "mapping", "mapped", "registered"}
  \/ child[i] \in {"new", "unshared", "ready"}

Covered ==
  \A i \in Cmd :
    /\ Past(i) => stack[Place(i)] # <<>> \/ PrunedAt(Place(i))
    /\ child[i] = "private" =>
         \/ view[i][Session] = <<>> /\ PrunedAt(Session)
         \/ \E m \in Cmd : view[i][Session] = <<m>> /\ Place(m) = Session
    /\ child[i] \in {"bound", "sealed", "running"} =>
         \/ cwd[i] \in Cmd /\ Place(cwd[i]) = Place(i)
         \/ cwd[i] = Plain /\ PrunedAt(Place(i))

Cleaned == \A i \in Cmd : pc[i] = "clean" => stack[Place(i)] = <<>>

(* An owner has its mount, unless a pruned one has ended and taken it along. *)
Holding(i) ==
  /\ role[i] = "owner"
  /\ pc[i] \in {"mounted", "sync", "mapping", "mapped", "registered", "waiting",
                "unmount", "dropping", "aborting"}

Undone == \E m \in pruned : InSession(m) /\ pc[m] \in {"clean", "over"}

Held ==
  Undone \/
  \A i \in Cmd : InSession(i) /\ i \notin pruned =>
    /\ Holding(i) => stack[Session] = <<i>>
    /\ Serves(i) => \/ stack[Session] = <<i>> \/ pc[i] = "clean"
                    \/ pc[i] = "mounting" /\ program[i] = "nfsrun"

OneServes ==
  \/ \E m \in pruned : InSession(m) /\ pc[m] = "over"
  \/ \A m, n \in Cmd :
       InSession(m) /\ Serves(m) /\ m \notin pruned
       /\ InSession(n) /\ Serves(n) /\ n \notin pruned => m = n

SessionInv ==
  /\ UsesInv /\ OneStarts /\ OneMount /\ Fresh /\ Covered /\ Cleaned /\ Held
  /\ OneServes /\ NothingErased

-----------------------------------------------------------------------------
(* How an invocation goes on in its session. *)
Unshared(i) == \A j \in Others(i) : ~Starting(j)

Follows(i) ==
  /\ InSession(i) =>
       /\ Starting(i)' => Starting(i) \/ (Unshared(i) /\ \A j \in Others(i) : ~Ending(j))
       /\ Busy(i)' => Busy(i) \/ Unshared(i)
       /\ pc'[i] = "setup" => pc[i] = "setup" \/ dir'[Session]
       /\ pc'[i] \in {"opening", "mounting"} =>
            pc[i] \in {"opening", "mounting"} \/ (pc[i] = "setup" /\ ~is_mountpoint(Session))
       /\ thread'[i] = "mounting" =>
            \/ pc'[i] = "mounting"
            \/ thread[i] = "mounting" /\ (pc[i] = "mounting" => is_mountpoint(Session))
       /\ Holding(i)' => \/ Holding(i)
                         \/ Pushes(i)
                         \/ is_mountpoint(Session) /\ pc[i] = "mounting" /\ stack' = stack
  /\ Serves(i)' => \/ Serves(i) /\ (pc[i] = "clean" => pc'[i] = "clean")
                                /\ (pc[i] = "mounting" /\ program[i] = "nfsrun" =>
                                      pc'[i] = "mounting" \/ Pushes(i))
                   \/ Pushes(i) /\ thread[i] = "mounting"
                   \/ pc[i] = "opening" /\ pc'[i] = "mounting" /\ program[i] = "nfsrun"
  /\ Mounted(i) => \/ Mounted(i)' \/ pc[i] = "clean"
                   \/ stack' = Popped(Place(i)) \/ ~Pinned(i)
  /\ Past(i)' => Past(i) \/ (is_mountpoint(Place(i)) /\ stack' = stack) \/ Pushes(i)
  /\ child'[i] = "private" =>
       \/ child[i] = "private" /\ view'[i] = view[i]
       \/ child[i] = "ready" /\ view'[i] = stack
  /\ child'[i] \in {"bound", "sealed", "running"} =>
       \/ child[i] \in {"bound", "sealed", "running"} /\ cwd'[i] = cwd[i]
       \/ child[i] = "private" /\ cwd'[i] = TopOf(view[i], Session)
       \/ pc[i] = "mounted" /\ cwd'[i] = Top(Place(i))
  /\ pc'[i] = "clean" => \/ pc[i] = "clean"
                         \/ pc[i] = "unmount" /\ stack' = Popped(Place(i))
  /\ pc[i] \in {"clean", "over"} => pc'[i] \in {pc[i], "over"}

LEMMA Following ==
  ASSUME Apart, "unmount" \notin Fails, Local, NEW i \in Cmd, Step(i)
  PROVE  Follows(i)
<1>0. /\ ControlType /\ Control(i) /\ cwd \in [Cmd -> Cmd \cup {Plain, "none"}]
      /\ view \in [Cmd -> [Places -> Seq(Cmd)]] /\ dir \in [Places -> BOOLEAN]
      /\ Session \in Places
    BY StackTypes DEF Local, MountType
<1> USE DEF ControlType, Control, Steering, Kin, Serves, Follows, Goto, End, parent, kids,
           InSession, Starting, Ending, Busy, Unshared, Holding, Mounted, Past
<1>1. CASE Begins(i)
  <2>1. CASE setup_run_directory(i)
      BY <1>0, <2>1 DEF setup_run_directory, MayStart, Place
  <2>2. CASE handle_exec_command(i)
      BY <1>0, <2>2 DEF handle_exec_command
  <2>3. CASE daemonize(i)
      BY <1>0, <2>3 DEF daemonize
  <2>4. CASE get_mounts(i)
      BY <1>0, <2>4 DEF get_mounts
  <2> QED
      BY <1>1, <2>1, <2>2, <2>3, <2>4 DEF Begins
<1>2. CASE Main(i)
  <2>1. CASE join_or_own(i)
      BY <1>0, <2>1 DEF join_or_own, Place
  <2>2. CASE nfs_join_or_own(i)
      BY <1>0, <2>2 DEF nfs_join_or_own, Place
  <2>3. CASE open_overlay(i)
      BY <1>0, <2>3 DEF open_overlay
  <2>4. CASE nfs_open_overlay(i)
      BY <1>0, <2>4 DEF nfs_open_overlay
  <2>5. CASE wait_for_mount(i)
      BY <1>0, <2>5 DEF wait_for_mount, Place
  <2>6. CASE mount_nfs(i)
    <3>1. CASE Goto(i, "mounted")
      <4>1. Pushes(i) /\ pc'[i] = "mounted" /\ thread'[i] = thread[i] /\ fate'[i] = fate[i]
          BY <1>0, <2>6, <3>1 DEF mount_nfs, Pushes, Place
      <4>2. UNCHANGED <<program, role, child, view, cwd>> /\ pc[i] = "mounting" /\ program[i] = "nfsrun"
          BY <2>6 DEF mount_nfs
      <4> QED
          BY <1>0, <4>1, <4>2
    <3>2. CASE End(i, "failed")
      <4>1. /\ pc'[i] = "over" /\ thread'[i] \in {"gone", "none"} /\ stack' = stack
            /\ UNCHANGED <<program, role, child, view, cwd>>
            /\ pc[i] = "mounting" /\ program[i] = "nfsrun"
          BY <1>0, <2>6, <3>2 DEF mount_nfs
      <4> QED
          BY <1>0, <4>1
    <3> QED
        BY <2>6, <3>1, <3>2 DEF mount_nfs
  <2>7. CASE daemon_ready(i)
      BY <1>0, <2>7 DEF daemon_ready, signal_parent
  <2>8. CASE daemon_joins(i)
      BY <1>0, <2>8 DEF daemon_joins
  <2>9. CASE wait_for_signal(i)
      BY <1>0, <2>9 DEF wait_for_signal
  <2>10. CASE fork(i)
    <3>1. /\ pc[i] \in {"mounted", "joining"} /\ program[i] = "run"
          /\ UNCHANGED <<program, role, view, cwd, stack, dir>>
        BY <2>10 DEF fork
    <3>2. \/ /\ pc'[i] = "sync" /\ child'[i] = "new" /\ thread'[i] = thread[i] /\ fate'[i] = fate[i]
          \/ /\ pc'[i] = "dropping" /\ child'[i] = child[i] /\ thread'[i] = thread[i]
             /\ fate'[i] = fate[i] /\ role[i] = "owner"
          \/ /\ pc'[i] = "over" /\ child'[i] = child[i] /\ thread'[i] \in {"gone", "none"}
             /\ role[i] # "owner"
        BY <1>0, <2>10 DEF fork
    <3>3. role[i] = "joiner" \/ role[i] = "owner"
        BY <1>0, <3>1
    <3> QED
        BY <1>0, <3>1, <3>2, <3>3
  <2>11. CASE wait_for_pipe_signal(i)
      BY <1>0, <2>11 DEF wait_for_pipe_signal
  <2>12. CASE write_namespace_mappings(i)
      BY <1>0, <2>12 DEF write_namespace_mappings
  <2>13. CASE abort_child(i)
      BY <1>0, <2>13 DEF abort_child
  <2>14. CASE write_proc_file(i)
      BY <1>0, <2>14 DEF write_proc_file
  <2>15. CASE install_signal_handlers(i)
      BY <1>0, <2>15 DEF install_signal_handlers
  <2>16. CASE wait_for_child(i)
      BY <1>0, <2>16 DEF wait_for_child
  <2>17. CASE drop_mount_handle(i)
      BY <1>0, <2>17 DEF drop_mount_handle
  <2>18. CASE clean_up(i)
      BY <1>0, <2>18 DEF clean_up
  <2>19. CASE nfs_unmount(i)
      BY <1>0, <2>19 DEF nfs_unmount, Place
  <2>20. CASE nfs_clean_up(i)
      BY <1>0, <2>20 DEF nfs_clean_up
  <2>21. CASE run_command_in_mount(i)
      BY <1>0, <2>21 DEF run_command_in_mount
  <2> QED
      BY <1>2, <2>1, <2>2, <2>3, <2>4, <2>5, <2>6, <2>7, <2>8, <2>9, <2>10,
         <2>11, <2>12, <2>13, <2>14, <2>15, <2>16, <2>17, <2>18, <2>19,
         <2>20, <2>21 DEF Main
<1>3. CASE Looks(i)
  <2>1. CASE active_session_ids(i)
      BY <1>0, <2>1 DEF active_session_ids
  <2>2. CASE select_unused(i)
      BY <1>0, <2>2 DEF select_unused
  <2>3. CASE unmount_fuse(i)
      BY <1>0, <2>3 DEF unmount_fuse
  <2>4. CASE prune_ends(i)
      BY <1>0, <2>4 DEF prune_ends
  <2> QED
      BY <1>3, <2>1, <2>2, <2>3, <2>4 DEF Looks
<1>4. CASE Server(i)
  <2>1. CASE fuse_mount_pure(i)
      BY <1>0, <2>1 DEF fuse_mount_pure, Pushes
  <2>2. CASE session_ends(i)
      BY <1>0, <2>2 DEF session_ends
  <2> QED
      BY <1>4, <2>1, <2>2 DEF Server
<1>5. CASE Kid(i)
  <2> USE DEF Child, ChildExits, ChildOnly
  <2>1. CASE unshare(i)
      BY <1>0, <2>1 DEF unshare
  <2>2. CASE proceed(i)
      BY <1>0, <2>2 DEF proceed
  <2>3. CASE make_private(i)
      BY <1>0, <2>3 DEF make_private
  <2>4. CASE bind_overlay(i)
      BY <1>0, <2>4 DEF bind_overlay
  <2>5. CASE remount_all_readonly_except(i)
      BY <1>0, <2>5 DEF remount_all_readonly_except
  <2>6. CASE exec_command(i)
      BY <1>0, <2>6 DEF exec_command
  <2> QED
      BY <1>5, <2>1, <2>2, <2>3, <2>4, <2>5, <2>6 DEF Kid
<1>6. CASE Outside(i)
  <2> USE DEF Child, ChildExits, ChildOnly
  <2>1. CASE command_ends(i)
      BY <1>0, <2>1 DEF command_ends, MayEnd
  <2>2. CASE Kill(i)
      BY <1>0, <2>2 DEF Kill
  <2>3. CASE forward_signal_to_child(i)
      BY <1>0, <2>3 DEF forward_signal_to_child, MayEnd
  <2> QED
      BY <1>6, <2>1, <2>2, <2>3 DEF Outside
<1> QED
    BY <1>1, <1>2, <1>3, <1>4, <1>5, <1>6 DEF Step


-----------------------------------------------------------------------------
(* What a step does to what the invocations share. *)
Unmounts(i) == pc[i] \in {"unmount", "dropping"} /\ pc'[i] \in {"clean", "over"}

Affects(i) ==
  /\ \/ stack' = stack
     \/ /\ Pushes(i) /\ role'[i] = role[i]
        /\ thread[i] = "mounting" => pc'[i] = pc[i]
     \/ Unmounts(i) /\ stack' = Popped(Place(i))
     \/ pc[i] = "setup" /\ Dead(Session) /\ stack' = Popped(Session)
     \/ \E p \in Places : Top(p) \in pruned' /\ stack' = Popped(p)
  /\ dir[Session] => dir'[Session] \/ (pc[i] = "clean" /\ InSession(i))
  /\ pruned \subseteq pruned'
  /\ pc[i] = "clean" /\ stack[Place(i)] = <<>> => erased' = erased
  /\ pc[i] # "clean" => erased' = erased

LEMMA Affecting ==
  ASSUME "unmount" \notin Fails, Local, NEW i \in Cmd, Step(i)
  PROVE  Affects(i)
<1>0. /\ ControlType /\ Control(i) /\ dir \in [Places -> BOOLEAN]
      /\ Session \in Places /\ Session \notin Cmd /\ Place(i) \in Places
      /\ stack \in [Places -> Seq(Cmd)]
    BY StackTypes, SessionAssumption DEF Local, MountType
<1> USE DEF ControlType, Control, Steering, Kin, Affects, Goto, End, parent, kids, history,
           InSession, Unmounts
<1>1. CASE Begins(i)
  <2>1. CASE setup_run_directory(i)
      BY <1>0, <2>1 DEF setup_run_directory
  <2>2. CASE handle_exec_command(i)
      BY <1>0, <2>2 DEF handle_exec_command
  <2>3. CASE daemonize(i)
      BY <1>0, <2>3 DEF daemonize
  <2>4. CASE get_mounts(i)
      BY <1>0, <2>4 DEF get_mounts
  <2> QED
      BY <1>1, <2>1, <2>2, <2>3, <2>4 DEF Begins
<1>2. CASE Main(i)
  <2>1. CASE join_or_own(i)
      BY <1>0, <2>1 DEF join_or_own
  <2>2. CASE nfs_join_or_own(i)
      BY <1>0, <2>2 DEF nfs_join_or_own
  <2>3. CASE open_overlay(i)
      BY <1>0, <2>3 DEF open_overlay
  <2>4. CASE nfs_open_overlay(i)
      BY <1>0, <2>4 DEF nfs_open_overlay
  <2>5. CASE wait_for_mount(i)
      BY <1>0, <2>5 DEF wait_for_mount
  <2>6. CASE mount_nfs(i)
      BY <1>0, <2>6 DEF mount_nfs, Pushes, Place
  <2>7. CASE daemon_ready(i)
      BY <1>0, <2>7 DEF daemon_ready, signal_parent
  <2>8. CASE daemon_joins(i)
      BY <1>0, <2>8 DEF daemon_joins
  <2>9. CASE wait_for_signal(i)
      BY <1>0, <2>9 DEF wait_for_signal
  <2>10. CASE fork(i)
      BY <1>0, <2>10 DEF fork
  <2>11. CASE wait_for_pipe_signal(i)
      BY <1>0, <2>11 DEF wait_for_pipe_signal
  <2>12. CASE write_namespace_mappings(i)
      BY <1>0, <2>12 DEF write_namespace_mappings
  <2>13. CASE abort_child(i)
      BY <1>0, <2>13 DEF abort_child
  <2>14. CASE write_proc_file(i)
      BY <1>0, <2>14 DEF write_proc_file
  <2>15. CASE install_signal_handlers(i)
      BY <1>0, <2>15 DEF install_signal_handlers
  <2>16. CASE wait_for_child(i)
      BY <1>0, <2>16 DEF wait_for_child
  <2>17. CASE drop_mount_handle(i)
      BY <1>0, <2>17 DEF drop_mount_handle
  <2>18. CASE clean_up(i)
    <3>1. /\ dir' = [dir EXCEPT ![Place(i)] = @ /\ stack[Place(i)] # <<>>]
          /\ erased' = erased \cup (IF is_mountpoint(Place(i)) THEN {Top(Place(i))} ELSE {})
          /\ pc[i] = "clean" /\ UNCHANGED <<stack, pruned>>
        BY <2>18 DEF clean_up
    <3>2. stack[Place(i)] = <<>> => ~is_mountpoint(Place(i))
        BY DEF is_mountpoint, Top, TopOf
    <3>3. Place(i) = Session => InSession(i)
        BY <1>0 DEF Place
    <3>4. dir[Session] => dir'[Session] \/ InSession(i)
        BY <1>0, <3>1, <3>3
    <3> QED
        BY <3>1, <3>2, <3>4
  <2>19. CASE nfs_unmount(i)
      BY <1>0, <2>19 DEF nfs_unmount, Place
  <2>20. CASE nfs_clean_up(i)
      BY <1>0, <2>20 DEF nfs_clean_up
  <2>21. CASE run_command_in_mount(i)
      BY <1>0, <2>21 DEF run_command_in_mount
  <2> QED
      BY <1>2, <2>1, <2>2, <2>3, <2>4, <2>5, <2>6, <2>7, <2>8, <2>9, <2>10,
         <2>11, <2>12, <2>13, <2>14, <2>15, <2>16, <2>17, <2>18, <2>19,
         <2>20, <2>21 DEF Main
<1>3. CASE Looks(i)
  <2>1. CASE active_session_ids(i)
      BY <1>0, <2>1 DEF active_session_ids
  <2>2. CASE select_unused(i)
      BY <1>0, <2>2 DEF select_unused
  <2>3. CASE unmount_fuse(i)
    <3>1. PICK x \in prune.todo :
            LET p == x[1]
                goes == Top(p) # Plain /\ ~\E j \in Cmd : program[j] = "exec" /\ cwd[j] = Top(p)
            IN /\ stack' = IF goes THEN Popped(p) ELSE stack
               /\ pruned' = IF goes THEN pruned \cup {Top(p)} ELSE pruned
        BY <2>3 DEF unmount_fuse
    <3>2. x[1] \in Places
        BY DEF Local, PruneType
    <3>3. pruned \subseteq pruned' /\ (stack' = stack \/ \E p \in Places : Top(p) \in pruned' /\ stack' = Popped(p))
        BY <3>1, <3>2
    <3>4. pc[i] = "selected" /\ UNCHANGED <<dir, erased>>
        BY <2>3 DEF unmount_fuse
    <3> QED
        BY <3>3, <3>4
  <2>4. CASE prune_ends(i)
      BY <1>0, <2>4 DEF prune_ends
  <2> QED
      BY <1>3, <2>1, <2>2, <2>3, <2>4 DEF Looks
<1>4. CASE Server(i)
  <2>1. CASE fuse_mount_pure(i)
      BY <1>0, <2>1 DEF fuse_mount_pure, Pushes
  <2>2. CASE session_ends(i)
      BY <1>0, <2>2 DEF session_ends
  <2> QED
      BY <1>4, <2>1, <2>2 DEF Server
<1>5. CASE Kid(i)
  <2> USE DEF Child, ChildExits, ChildOnly
  <2>1. CASE unshare(i)
      BY <1>0, <2>1 DEF unshare
  <2>2. CASE proceed(i)
      BY <1>0, <2>2 DEF proceed
  <2>3. CASE make_private(i)
      BY <1>0, <2>3 DEF make_private
  <2>4. CASE bind_overlay(i)
      BY <1>0, <2>4 DEF bind_overlay
  <2>5. CASE remount_all_readonly_except(i)
      BY <1>0, <2>5 DEF remount_all_readonly_except
  <2>6. CASE exec_command(i)
      BY <1>0, <2>6 DEF exec_command
  <2> QED
      BY <1>5, <2>1, <2>2, <2>3, <2>4, <2>5, <2>6 DEF Kid
<1>6. CASE Outside(i)
  <2> USE DEF Child, ChildExits, ChildOnly
  <2>1. CASE command_ends(i)
      BY <1>0, <2>1 DEF command_ends
  <2>2. CASE Kill(i)
      BY <1>0, <2>2 DEF Kill
  <2>3. CASE forward_signal_to_child(i)
      BY <1>0, <2>3 DEF forward_signal_to_child
  <2> QED
      BY <1>6, <2>1, <2>2, <2>3 DEF Outside
<1> QED
    BY <1>1, <1>2, <1>3, <1>4, <1>5, <1>6 DEF Step

LEMMA SessionPlace ==
  ASSUME NEW i \in Cmd
  PROVE  /\ InSession(i) <=> Place(i) = Session
         /\ \A j \in Cmd : i # j /\ Place(i) = Place(j) => InSession(i) /\ InSession(j)
BY SessionAssumption DEF InSession, Place

(* The one mount of a place. *)
LEMMA TheMount ==
  ASSUME MountType, NEW m \in Cmd, NEW p \in Places, stack[p] = <<m>>
  PROVE  /\ Top(p) = m /\ m # Plain /\ OnStack(m, p)
         /\ Popped(p)[p] = <<>>
         /\ ToSet(stack[p]) = {m}
<1>1. Len(stack[p]) = 1 /\ stack[p][1] = m /\ stack[p] # <<>>
    OBVIOUS
<1>2. Top(p) = m /\ m # Plain
    BY <1>1, SessionAssumption DEF Top, TopOf, Last
<1>3. OnStack(m, p)
    BY <1>1 DEF OnStack
<1>4. Popped(p)[p] = <<>>
  <2>1. Front(stack[p]) = <<>>
      BY <1>1 DEF Front
  <2> QED
      BY <1>1, <2>1 DEF Popped, MountType
<1>5. ToSet(stack[p]) = {m}
    BY <1>1 DEF ToSet
<1> QED
    BY <1>2, <1>3, <1>4, <1>5

(* Why the mount at a place goes. *)
Loses(i, p) ==
  \/ p = Place(i) /\ Unmounts(i)
  \/ p = Session /\ pc[i] = "setup" /\ Dead(Session)
  \/ Top(p) \in pruned'

(* A server mounts only where nothing is mounted. *)
LEMMA MountsOnNothing ==
  ASSUME Local, OwnMounts, OneMount, Fresh, NEW i \in Cmd, Pushes(i)
  PROVE  stack[Place(i)] = <<>> /\ stack'[Place(i)] = <<i>>
<1>1. /\ MountType /\ Control(i) /\ Place(i) \in Places
      /\ stack \in [Places -> Seq(Cmd)]
    BY StackTypes DEF Local, MountType
<1>2. stack[Place(i)] = <<>>
  <2> SUFFICES ASSUME stack[Place(i)] # <<>> PROVE FALSE
      OBVIOUS
  <2>1. PICK m \in Cmd : stack[Place(i)] = <<m>> /\ Place(m) = Place(i)
      BY <1>1 DEF OneMount
  <2>2. OnStack(m, Place(i)) /\ Top(Place(i)) = m /\ m # Plain
      BY <1>1, <2>1, TheMount
  <2>3. Serves(m)
      BY <2>2 DEF Pushes, Mountable, Dead
  <2>4. m # i
      BY <1>1, <2>2 DEF OwnMounts, Pushes
  <2>5. InSession(i) /\ Place(i) = Session
      BY <2>1, <2>4, SessionPlace
  <2>6. pc[i] = "mounting"
      BY <2>5 DEF Pushes, Fresh
  <2> QED
      BY <2>1, <2>3, <2>4, <2>5, <2>6 DEF Fresh
<1> QED
    BY <1>1, <1>2 DEF Pushes

LEMMA Shifting ==
  ASSUME Local, OwnMounts, OneMount, Fresh, NEW i \in Cmd, Affects(i), NEW p \in Places
  PROVE  \/ stack'[p] = stack[p]
         \/ stack'[p] = <<>> /\ Loses(i, p)
         \/ p = Place(i) /\ Pushes(i) /\ stack[p] = <<>> /\ stack'[p] = <<i>>
<1>1. MountType /\ Place(i) \in Places /\ Session \in Places /\ stack \in [Places -> Seq(Cmd)]
    BY StackTypes DEF Local, MountType
<1>2. ASSUME NEW q \in Places, stack' = Popped(q), Loses(i, q)
      PROVE  stack'[p] = stack[p] \/ (stack'[p] = <<>> /\ Loses(i, p))
  <2>1. CASE p # q \/ stack[p] = <<>>
      BY <1>1, <1>2, <2>1, PopFacts
  <2>2. CASE p = q /\ stack[p] # <<>>
    <3>1. PICK m \in Cmd : stack[p] = <<m>>
        BY <2>2 DEF OneMount
    <3> QED
        BY <1>1, <1>2, <2>2, <3>1, TheMount
  <2> QED
      BY <2>1, <2>2
<1>3. CASE stack' = stack
    BY <1>3
<1>4. CASE Pushes(i)
  <2>1. p # Place(i) => stack'[p] = stack[p]
      BY <1>1, <1>4 DEF Pushes
  <2> QED
      BY <1>4, <2>1, MountsOnNothing
<1>5. CASE Unmounts(i) /\ stack' = Popped(Place(i))
    BY <1>1, <1>2, <1>5 DEF Loses
<1>6. CASE pc[i] = "setup" /\ Dead(Session) /\ stack' = Popped(Session)
    BY <1>1, <1>2, <1>6 DEF Loses
<1>7. CASE \E q \in Places : Top(q) \in pruned' /\ stack' = Popped(q)
    BY <1>2, <1>7 DEF Loses
<1> QED
    BY <1>3, <1>4, <1>5, <1>6, <1>7 DEF Affects

(* What an invariant is told of a step. *)
Moves(i) ==
  /\ Local /\ Local' /\ UsesInv /\ program' = program
  /\ Alone(i) /\ Inside(i) /\ Follows(i) /\ Affects(i)

LEMMA Moving ==
  ASSUME Apart, "unmount" \notin Fails, UsesInv, NEW i \in Cmd, Step(i)
  PROVE  Moves(i)
<1>1. Local
    BY DEF UsesInv
<1>2. Local' /\ program' = program /\ Alone(i) /\ Inside(i)
    BY <1>1, StepKeepsLocal
<1> QED
    BY <1>1, <1>2, Following, Affecting DEF Moves

LEMMA OthersSame ==
  ASSUME NEW i \in Cmd, Moves(i), NEW j \in Cmd, j # i
  PROVE  /\ pc'[j] = pc[j] /\ role'[j] = role[j] /\ thread'[j] = thread[j]
         /\ child'[j] = child[j] /\ view'[j] = view[j] /\ cwd'[j] = cwd[j]
         /\ Starting(j)' = Starting(j) /\ Ending(j)' = Ending(j) /\ Busy(j)' = Busy(j)
         /\ Serves(j)' = Serves(j) /\ Mounted(j)' = Mounted(j) /\ Past(j)' = Past(j)
         /\ Holding(j)' = Holding(j) /\ InSession(j)' = InSession(j)
         /\ Place(j)' = Place(j)
<1>1. /\ pc'[j] = pc[j] /\ role'[j] = role[j] /\ thread'[j] = thread[j] /\ fate'[j] = fate[j]
      /\ child'[j] = child[j] /\ view'[j] = view[j] /\ cwd'[j] = cwd[j]
      /\ program' = program
    BY DEF Moves, Alone, Inside
<1> QED
    BY <1>1 DEF Starting, Ending, Busy, Serves, Mounted, Past, Holding, InSession, Place

LEMMA OneStartsKept ==
  ASSUME OneStarts, NEW i \in Cmd, Moves(i)
  PROVE  OneStarts'
<1>1. Follows(i) /\ InSession(i)' = InSession(i)
    BY DEF Moves, InSession
<1> SUFFICES ASSUME NEW a \in Cmd, NEW b \in Cmd, InSession(a)', InSession(b)', a # b,
                    Starting(a)', Busy(b)'
             PROVE  FALSE
    BY DEF OneStarts
<1>2. InSession(a) /\ InSession(b) /\ Place(a) = Place(b)
    BY <1>1, OthersSame, SessionPlace
<1>3. Starting(a) => ~Busy(b)
    BY <1>2 DEF OneStarts
<1>4. CASE a = i
  <2>1. Busy(b) /\ b \in Others(i)
      BY <1>2, <1>4, OthersSame DEF Others
  <2>2. Starting(i) \/ (~Starting(b) /\ ~Ending(b))
      BY <1>1, <1>2, <1>4, <2>1 DEF Follows, Unshared
  <2> QED
      BY <1>3, <1>4, <2>1, <2>2 DEF Busy
<1>5. CASE b = i
  <2>1. Starting(a) /\ a \in Others(i)
      BY <1>2, <1>5, OthersSame DEF Others
  <2>2. Busy(i) \/ ~Starting(a)
      BY <1>1, <1>2, <1>5, <2>1 DEF Follows, Unshared
  <2> QED
      BY <1>3, <1>5, <2>1, <2>2
<1>6. CASE a # i /\ b # i
    BY <1>3, <1>6, OthersSame
<1> QED
    BY <1>4, <1>5, <1>6

(* A server that mounts goes on to serve. *)
LEMMA PushesMounted ==
  ASSUME Fresh, NEW i \in Cmd, Moves(i), Pushes(i), stack' # stack
  PROVE  Mounted(i)' /\ Serves(i)'
<1>1. ControlType /\ Control(i) /\ Control(i)' /\ program' = program
    BY DEF Moves, Local
<1>2. Serves(i)'
    BY <1>1 DEF Pushes, Control, Kin, Serves, ControlType
<1>3. role[i] # "joiner"
  <2>1. CASE InSession(i)
    <3>1. pc[i] = "mounting"
        BY <2>1 DEF Pushes, Fresh
    <3> QED
        BY <1>1, <3>1 DEF Control, Steering
  <2>2. CASE ~InSession(i)
    <3>1. program[i] \in {"exec", "mount", "prune"}
        BY <2>2 DEF Moves, Local, ProgramType, InSession, Programs
    <3> QED
        BY <1>1, <3>1 DEF Control, Steering
  <2> QED
      BY <2>1, <2>2
<1>4. role'[i] = role[i]
  <2>1. \A p \in Places : stack' = Popped(p) => stack'[Place(i)] = <<>> \/ Len(stack'[Place(i)]) <= Len(stack[Place(i)])
    <3> SUFFICES ASSUME NEW p \in Places, stack' = Popped(p)
                 PROVE  stack'[Place(i)] = <<>> \/ Len(stack'[Place(i)]) <= Len(stack[Place(i)])
        OBVIOUS
    <3>1. MountType /\ Place(i) \in Places /\ stack[Place(i)] \in Seq(Cmd)
        BY StackTypes DEF Moves, Local, MountType
    <3>2. Len(stack[Place(i)]) \in Nat
        BY <3>1
    <3> QED
        BY <3>1, <3>2, PopFacts
  <2>2. stack'[Place(i)] = Append(stack[Place(i)], i) /\ stack[Place(i)] \in Seq(Cmd)
      BY StackTypes DEF Moves, Local, MountType, Pushes
  <2>3. Len(stack'[Place(i)]) = Len(stack[Place(i)]) + 1 /\ Len(stack[Place(i)]) \in Nat
      BY <2>2
  <2>4. \A p \in Places : stack' # Popped(p)
      BY <2>1, <2>3
  <2>5. Session \in Places /\ Place(i) \in Places
      BY StackTypes DEF Moves, Local, MountType
  <2> QED
      BY <2>4, <2>5 DEF Moves, Affects
<1>5. pc'[i] \notin {"idle", "setup", "opening"} /\ program[i] # "prune"
      /\ (program[i] = "nfsrun" => pc'[i] # "mounting")
    BY <1>1, <1>2 DEF Pushes, Control, Kin, Serves
<1> QED
    BY <1>1, <1>2, <1>3, <1>4, <1>5 DEF Mounted

LEMMA OneMountKept ==
  ASSUME OneMount, Fresh, Cleaned, NEW i \in Cmd, Moves(i)
  PROVE  OneMount'
<1>1. /\ MountType /\ Local /\ OwnMounts /\ Affects(i) /\ Follows(i)
      /\ Place(i)' = Place(i) /\ Place(i) \in Places
    BY StackTypes DEF Moves, Local, UsesInv, MountType, Place
<1> SUFFICES ASSUME NEW p \in Places, stack'[p] # <<>>
             PROVE  \E m \in Cmd : stack'[p] = <<m>> /\ Place(m)' = p /\ Mounted(m)'
    BY DEF OneMount
<1>2. CASE stack'[p] = stack[p]
  <2>1. PICK m \in Cmd : stack[p] = <<m>> /\ Place(m) = p /\ Mounted(m)
      BY <1>2 DEF OneMount
  <2>2. CASE m # i
      BY <1>2, <2>1, <2>2, OthersSame
  <2>3. CASE m = i
    <3>1. i \in ToSet(stack[p]) /\ Popped(p)[p] = <<>>
        BY <1>1, <2>1, <2>3, TheMount
    <3>2. Pinned(i)
        BY <3>1 DEF Pinned
    <3>3. pc[i] # "clean"
        BY <1>2, <2>1, <2>3 DEF Cleaned
    <3>4. stack' # Popped(Place(i))
        BY <2>1, <2>3, <3>1
    <3>5. Mounted(i)'
        BY <1>1, <2>1, <2>3, <3>2, <3>3, <3>4 DEF Follows
    <3> QED
        BY <1>1, <1>2, <2>1, <2>3, <3>5
  <2> QED
      BY <2>2, <2>3
<1>3. CASE p = Place(i) /\ Pushes(i) /\ stack[p] = <<>> /\ stack'[p] = <<i>>
  <2>1. Mounted(i)'
      BY <1>3, PushesMounted
  <2> QED
      BY <1>1, <1>3, <2>1
<1> QED
    BY <1>1, <1>2, <1>3, Shifting

(* The session's one mount is live exactly when its directory is found so. *)
LEMMA LiveMount ==
  ASSUME MountType, OneMount, is_mountpoint(Session)
  PROVE  \E m \in Cmd : stack[Session] = <<m>> /\ Serves(m) /\ Top(Session) = m
<1>1. Session \in Places
    BY DEF Places
<1>2. stack[Session] # <<>> /\ Serves(Top(Session))
    BY <1>1, PopFacts DEF is_mountpoint
<1>3. PICK m \in Cmd : stack[Session] = <<m>>
    BY <1>1, <1>2 DEF OneMount
<1>4. Top(Session) = m
    BY <1>1, <1>3, TheMount
<1> QED
    BY <1>2, <1>3, <1>4

LEMMA FreshKept ==
  ASSUME OneStarts, OneMount, Fresh, NEW i \in Cmd, Moves(i)
  PROVE  Fresh'
<1>1. /\ MountType /\ Local /\ OwnMounts /\ Affects(i) /\ Follows(i) /\ program' = program
      /\ Control(i) /\ Session \in Places
    BY DEF Moves, Local, UsesInv, Places
<1> SUFFICES ASSUME NEW c \in Cmd, InSession(c)
             PROVE  /\ pc'[c] = "setup" => dir'[Session]
                    /\ pc'[c] \in {"opening", "mounting"} =>
                         \A m \in Cmd \ {c} : stack'[Session] = <<m>> => ~Serves(m)'
                    /\ thread'[c] = "mounting" => pc'[c] = "mounting"
    BY <1>1 DEF Fresh, InSession
<1>2. ASSUME pc'[c] = "setup" PROVE dir'[Session]
  <2>1. CASE c = i
    <3>1. pc[i] = "setup" \/ dir'[Session]
        BY <1>1, <1>2, <2>1 DEF Follows
    <3> QED
        BY <1>1, <2>1, <3>1 DEF Fresh, Affects
  <2>2. CASE c # i
    <3>1. pc[c] = "setup" /\ dir[Session]
        BY <1>2, <2>2, OthersSame DEF Fresh
    <3>2. ~(pc[i] = "clean" /\ InSession(i))
        BY <1>1, <2>2, <3>1 DEF OneStarts, Starting, Ending, Busy
    <3> QED
        BY <1>1, <3>1, <3>2 DEF Affects
  <2> QED
      BY <2>1, <2>2
<1>3. ASSUME pc'[c] \in {"opening", "mounting"}, NEW m \in Cmd \ {c}, stack'[Session] = <<m>>, Serves(m)'
      PROVE  FALSE
  <2>1. CASE stack'[Session] = stack[Session]
    <3>1. stack[Session] = <<m>> /\ OnStack(m, Session) /\ Top(Session) = m /\ m # Plain
        BY <1>1, <1>3, <2>1, TheMount
    <3>2. /\ Place(m) = Session /\ thread[m] # "mounting"
          /\ pc[m] \notin {"idle", "setup", "opening"}
        BY <1>1, <3>1 DEF OwnMounts
    <3>3. Serves(m)
      <4>1. CASE m # i
          BY <1>3, <4>1, OthersSame
      <4>2. CASE m = i
          BY <1>1, <1>3, <3>2, <4>2 DEF Follows
      <4> QED
          BY <4>1, <4>2
    <3>4. pc[c] \notin {"opening", "mounting"}
        BY <1>3, <3>1, <3>3 DEF Fresh
    <3>5. c = i /\ pc[i] = "setup" /\ ~is_mountpoint(Session)
        BY <1>1, <1>3, <3>4, OthersSame DEF Follows
    <3> QED
        BY <3>1, <3>3, <3>5 DEF Fresh, is_mountpoint
  <2>2. CASE Session = Place(i) /\ Pushes(i) /\ stack'[Session] = <<i>>
    <3>1. m = i /\ c # i
        BY <1>3, <2>2
    <3>2. InSession(i) /\ pc[i] = "mounting"
        BY <2>2, SessionPlace DEF Pushes, Fresh
    <3>3. pc[c] \in {"opening", "mounting"}
        BY <1>3, <3>1, OthersSame
    <3> QED
        BY <3>1, <3>2, <3>3 DEF OneStarts, Starting, Busy
  <2>3. stack'[Session] # <<>>
      BY <1>3
  <2> QED
      BY <1>1, <2>1, <2>2, <2>3, Shifting
<1>4. ASSUME thread'[c] = "mounting" PROVE pc'[c] = "mounting"
  <2>1. CASE c = i
    <3> SUFFICES ASSUME pc'[i] # "mounting" PROVE FALSE
        BY <2>1
    <3>1. thread[i] = "mounting" /\ (pc[i] = "mounting" => is_mountpoint(Session))
        BY <1>1, <1>4, <2>1 DEF Follows
    <3>2. pc[i] = "mounting"
        BY <2>1, <3>1 DEF Fresh
    <3>3. PICK m \in Cmd : stack[Session] = <<m>> /\ Serves(m)
        BY <1>1, <3>1, <3>2, LiveMount
    <3>4. m # i
        BY <3>1, <3>3 DEF Serves
    <3> QED
        BY <2>1, <3>2, <3>3, <3>4 DEF Fresh
  <2>2. CASE c # i
      BY <1>4, <2>2, OthersSame DEF Fresh
  <2> QED
      BY <2>1, <2>2
<1> QED
    BY <1>2, <1>3, <1>4

LEMMA PrunedAtStays ==
  ASSUME NEW i \in Cmd, Moves(i), NEW p \in Places, PrunedAt(p)
  PROVE  PrunedAt(p)'
BY DEF Moves, Affects, PrunedAt, Place

LEMMA CoveredKept ==
  ASSUME OneStarts, OneMount, Fresh, Covered, NEW i \in Cmd, Moves(i)
  PROVE  Covered'
<1>1. /\ MountType /\ Local /\ OwnMounts /\ Affects(i) /\ Follows(i) /\ program' = program
      /\ Control(i) /\ Control(i)' /\ Session \in Places /\ stack \in [Places -> Seq(Cmd)]
      /\ \A j \in Cmd : Place(j) \in Places /\ Place(j)' = Place(j)
    BY StackTypes DEF Moves, Local, UsesInv, Places, MountType, Place
<1>2. ASSUME NEW c \in Cmd, Past(c)'
      PROVE  stack'[Place(c)] # <<>> \/ PrunedAt(Place(c))'
  <2>1. CASE Past(c)
    <3> SUFFICES ASSUME stack'[Place(c)] = <<>>, stack[Place(c)] # <<>>
                 PROVE  PrunedAt(Place(c))'
        BY <1>1, <2>1, PrunedAtStays DEF Covered
    <3>1. PICK m \in Cmd : stack[Place(c)] = <<m>> /\ Place(m) = Place(c)
        BY <1>1 DEF OneMount
    <3>2. Top(Place(c)) = m
        BY <1>1, <3>1, TheMount
    <3>3. Loses(i, Place(c))
        BY <1>1, Shifting
    <3>4. CASE Top(Place(c)) \in pruned'
        BY <1>1, <3>1, <3>2, <3>4 DEF PrunedAt
    <3>5. CASE Place(c) = Place(i) /\ Unmounts(i)
      <4>1. c # i
          BY <1>1, <2>1, <3>5 DEF Unmounts, Past, Control, Kin
      <4>2. InSession(c) /\ InSession(i)
          BY <3>5, <4>1, SessionPlace
      <4>3. Starting(c) /\ Busy(i)
          BY <2>1, <3>5 DEF Past, Starting, Unmounts, Busy, Ending
      <4> QED
          BY <4>1, <4>2, <4>3 DEF OneStarts
    <3>6. CASE Place(c) = Session /\ pc[i] = "setup"
      <4>1. c # i
          BY <1>1, <2>1, <3>6 DEF Past, Control, Kin
      <4>2. InSession(c) /\ InSession(i)
          BY <1>1, <3>6, SessionPlace DEF InSession, Control, Steering
      <4>3. Starting(c) /\ Starting(i)
          BY <2>1, <3>6 DEF Past, Starting
      <4> QED
          BY <4>1, <4>2, <4>3 DEF OneStarts, Busy
    <3> QED
        BY <3>3, <3>4, <3>5, <3>6 DEF Loses
  <2>2. CASE ~Past(c)
    <3>1. c = i
        BY <1>2, <2>2, OthersSame
    <3>2. (is_mountpoint(Place(i)) /\ stack' = stack) \/ Pushes(i)
        BY <1>1, <1>2, <2>2, <3>1 DEF Follows
    <3>3. CASE Pushes(i)
      <4>1. stack'[Place(i)] = <<i>>
          BY <1>1, <3>3, MountsOnNothing
      <4> QED
          BY <3>1, <4>1
    <3>4. CASE is_mountpoint(Place(i)) /\ stack' = stack
      <4>1. stack[Place(i)] # <<>>
          BY <1>1, <3>4, PopFacts DEF is_mountpoint
      <4> QED
          BY <3>1, <3>4, <4>1
    <3> QED
        BY <3>2, <3>3, <3>4
  <2> QED
      BY <2>1, <2>2
<1>3. Past(i) => \/ stack[Place(i)] = <<>> /\ Top(Place(i)) = Plain /\ PrunedAt(Place(i))'
                 \/ \E m \in Cmd : /\ stack[Place(i)] = <<m>> /\ Place(m) = Place(i)
                                   /\ Top(Place(i)) = m
  <2>1. CASE stack[Place(i)] = <<>>
      BY <1>1, <2>1, PrunedAtStays DEF Covered, Top, TopOf
  <2>2. CASE stack[Place(i)] # <<>>
    <3>1. PICK m \in Cmd : stack[Place(i)] = <<m>> /\ Place(m) = Place(i)
        BY <1>1, <2>2 DEF OneMount
    <3>2. Top(Place(i)) = m
        BY <1>1, <3>1, TheMount
    <3> QED
        BY <3>1, <3>2
  <2> QED
      BY <2>1, <2>2
<1>4. ASSUME NEW c \in Cmd, child'[c] = "private"
      PROVE  \/ view'[c][Session] = <<>> /\ PrunedAt(Session)'
             \/ \E m \in Cmd : view'[c][Session] = <<m>> /\ Place(m)' = Session
  <2>1. CASE child[c] = "private" /\ view'[c] = view[c]
      BY <1>1, <2>1, PrunedAtStays DEF Covered
  <2>2. CASE ~(child[c] = "private" /\ view'[c] = view[c])
    <3>1. c = i /\ child[i] = "ready" /\ view'[i] = stack
        BY <1>1, <1>4, <2>2, OthersSame DEF Follows
    <3>2. Place(i) = Session /\ Past(i)
        BY <1>1, <3>1 DEF Control, Kin, Begun, Past, Place
    <3> QED
        BY <1>1, <1>3, <3>1, <3>2
  <2> QED
      BY <2>1, <2>2
<1>5. ASSUME NEW c \in Cmd, child'[c] \in {"bound", "sealed", "running"}
      PROVE  \/ cwd'[c] \in Cmd /\ Place(cwd'[c]) = Place(c)
             \/ cwd'[c] = Plain /\ PrunedAt(Place(c))'
  <2>1. CASE child[c] \in {"bound", "sealed", "running"} /\ cwd'[c] = cwd[c]
      BY <1>1, <2>1, PrunedAtStays DEF Covered
  <2>2. CASE ~(child[c] \in {"bound", "sealed", "running"} /\ cwd'[c] = cwd[c])
    <3>1. /\ c = i
          /\ \/ child[i] = "private" /\ cwd'[i] = TopOf(view[i], Session)
             \/ pc[i] = "mounted" /\ cwd'[i] = Top(Place(i))
        BY <1>1, <1>5, <2>2, OthersSame DEF Follows
    <3>2. CASE pc[i] = "mounted" /\ cwd'[i] = Top(Place(i))
      <4>1. Past(i)
          BY <3>2 DEF Past
      <4> QED
          BY <1>1, <1>3, <3>1, <3>2, <4>1
    <3>3. CASE child[i] = "private" /\ cwd'[i] = TopOf(view[i], Session)
      <4>1. Place(i) = Session
          BY <1>1, <3>3 DEF Control, Kin, Begun, Place
      <4>2. CASE view[i][Session] = <<>> /\ PrunedAt(Session)
          BY <1>1, <3>1, <3>3, <4>1, <4>2, PrunedAtStays DEF TopOf
      <4>3. CASE \E m \in Cmd : view[i][Session] = <<m>> /\ Place(m) = Session
        <5>1. PICK m \in Cmd : view[i][Session] = <<m>> /\ Place(m) = Session
            BY <4>3
        <5>2. TopOf(view[i], Session) = m
            BY <5>1 DEF TopOf, Last
        <5> QED
            BY <1>1, <3>1, <3>3, <4>1, <5>1, <5>2
      <4> QED
          BY <3>3, <4>2, <4>3 DEF Covered
    <3> QED
        BY <3>1, <3>2, <3>3
  <2> QED
      BY <2>1, <2>2
<1>6. \A c \in Cmd : Place(cwd[c])' = Place(cwd'[c])
    BY <1>1 DEF Place
<1> QED
    BY <1>1, <1>2, <1>4, <1>5, <1>6 DEF Covered

LEMMA CleanedKept ==
  ASSUME OneStarts, OneMount, Fresh, Cleaned, NEW i \in Cmd, Moves(i)
  PROVE  Cleaned'
<1>1. /\ MountType /\ Local /\ OwnMounts /\ ExecHere /\ Affects(i) /\ Follows(i)
      /\ Control(i) /\ ProgramType /\ stack \in [Places -> Seq(Cmd)]
      /\ \A j \in Cmd : Place(j) \in Places /\ Place(j)' = Place(j)
    BY StackTypes DEF Moves, Local, UsesInv, MountType, Place
<1> SUFFICES ASSUME NEW c \in Cmd, pc'[c] = "clean"
             PROVE  stack'[Place(c)] = <<>>
    BY <1>1 DEF Cleaned
<1>2. CASE pc[c] = "clean"
  <2>1. stack[Place(c)] = <<>>
      BY <1>2 DEF Cleaned
  <2>2. ~(Place(c) = Place(i) /\ Pushes(i))
    <3> SUFFICES ASSUME Place(c) = Place(i), Pushes(i) PROVE FALSE
        OBVIOUS
    <3>1. CASE c # i
      <4>1. InSession(c) /\ InSession(i)
          BY <3>1, SessionPlace
      <4>2. Starting(i) /\ Busy(c)
          BY <1>2, <4>1 DEF Pushes, Fresh, Starting, Busy, Ending
      <4> QED
          BY <3>1, <4>1, <4>2 DEF OneStarts
    <3>2. CASE c = i
      <4>1. thread[i] = "mounting"
          BY <1>2, <3>2 DEF Pushes
      <4>2. program[i] = "exec"
          BY <1>1, <1>2, <3>2, <4>1 DEF Fresh, Control, Steering, InSession
      <4> QED
          BY <1>1, <1>2, <3>2, <4>1, <4>2 DEF ExecHere, Settled
    <3> QED
        BY <3>1, <3>2
  <2> QED
      BY <1>1, <2>1, <2>2, Shifting
<1>3. CASE pc[c] # "clean"
  <2>1. c = i /\ stack' = Popped(Place(i))
      BY <1>1, <1>3, OthersSame DEF Follows
  <2>2. CASE stack[Place(i)] = <<>>
      BY <1>1, <2>1, <2>2, PopFacts
  <2>3. CASE stack[Place(i)] # <<>>
    <3>1. PICK m \in Cmd : stack[Place(i)] = <<m>>
        BY <1>1, <2>3 DEF OneMount
    <3> QED
        BY <1>1, <2>1, <3>1, TheMount
  <2> QED
      BY <2>1, <2>2, <2>3
<1> QED
    BY <1>2, <1>3

LEMMA UndoneStays ==
  ASSUME NEW i \in Cmd, Moves(i), Undone
  PROVE  Undone'
<1>1. PICK m \in pruned : InSession(m) /\ pc[m] \in {"clean", "over"}
    BY DEF Undone
<1>2. m \in Cmd /\ m \in pruned' /\ InSession(m)'
    BY <1>1 DEF Moves, Local, PruneType, Affects, InSession
<1>3. pc'[m] \in {"clean", "over"}
    BY <1>1, <1>2, OthersSame DEF Moves, Follows
<1> QED
    BY <1>2, <1>3 DEF Undone

(* The mount of a run that was not pruned goes only with the run. *)
LEMMA HeldMount ==
  ASSUME OneStarts, OneMount, Fresh, Held, NEW i \in Cmd, Moves(i), ~Undone',
         NEW c \in Cmd, InSession(c), c \notin pruned', stack[Session] = <<c>>,
         Serves(c) \/ fate[c] = "none"
  PROVE  stack'[Session] = <<c>> \/ (c = i /\ Unmounts(i))
<1>1. /\ MountType /\ Local /\ OwnMounts /\ Affects(i) /\ Session \in Places
      /\ Control(i) /\ program' = program
    BY DEF Moves, Local, UsesInv, Places
<1>2. Top(Session) = c /\ stack[Session] # <<>>
    BY <1>1, TheMount
<1>3. PICK m \in Cmd : stack[Session] = <<m>> /\ Mounted(m)
    BY <1>1, <1>2 DEF OneMount
<1>4. m = c
    BY <1>1, <1>2, <1>3, TheMount
<1>5. Serves(c)
    BY <1>3, <1>4 DEF Mounted
<1>6. stack'[Session] = stack[Session] \/ Loses(i, Session)
    BY <1>1, <1>2, Shifting
<1>7. ~Dead(Session)
    BY <1>2, <1>5 DEF Dead
<1>8. ASSUME Session = Place(i), Unmounts(i), c # i PROVE FALSE
  <2>1. InSession(i) /\ Holding(i)
      BY <1>1, <1>8, SessionPlace DEF Unmounts, Holding, Control, Steering
  <2>2. i \notin pruned
    <3>1. InSession(i)' /\ pruned \subseteq pruned'
        BY <1>1, <2>1 DEF InSession, Affects
    <3> QED
        BY <1>8, <3>1 DEF Undone, Unmounts
  <2>3. ~Undone
      BY UndoneStays
  <2>4. stack[Session] = <<i>>
      BY <2>1, <2>2, <2>3 DEF Held
  <2> QED
      BY <1>1, <1>2, <1>8, <2>4, TheMount
<1> QED
    BY <1>2, <1>6, <1>7, <1>8 DEF Loses

LEMMA HeldKept ==
  ASSUME OneStarts, OneMount, Fresh, Held, NEW i \in Cmd, Moves(i)
  PROVE  Held'
<1>1. /\ MountType /\ Local /\ OwnMounts /\ Affects(i) /\ Follows(i) /\ program' = program
      /\ Control(i) /\ Control(i)' /\ Session \in Places
      /\ \A j \in Cmd : Control(j)
    BY DEF Moves, Local, UsesInv, Places
<1> SUFFICES ASSUME ~Undone', NEW c \in Cmd, InSession(c), c \notin pruned'
             PROVE  /\ Holding(c)' => stack'[Session] = <<c>>
                    /\ Serves(c)' => \/ stack'[Session] = <<c>> \/ pc'[c] = "clean"
                                     \/ pc'[c] = "mounting" /\ program'[c] = "nfsrun"
    BY <1>1 DEF Held, InSession
<1>2. ~Undone /\ c \notin pruned
    BY <1>1, UndoneStays DEF Affects
<1>3. /\ Holding(c) => stack[Session] = <<c>>
      /\ Serves(c) => \/ stack[Session] = <<c>> \/ pc[c] = "clean"
                      \/ pc[c] = "mounting" /\ program[c] = "nfsrun"
    BY <1>2 DEF Held
<1>4. Place(c) = Session
    BY SessionPlace
<1>5. c = i /\ Pushes(i) => stack'[Session] = <<c>>
    BY <1>1, <1>4, MountsOnNothing
<1>6. ASSUME Holding(c)' PROVE stack'[Session] = <<c>>
  <2>1. CASE Holding(c)
    <3>1. fate[c] = "none"
        BY <1>1, <2>1 DEF Holding, Control, Kin
    <3>2. ~(c = i /\ Unmounts(i))
        BY <1>6 DEF Unmounts, Holding
    <3> QED
        BY <1>3, <2>1, <3>1, <3>2, HeldMount
  <2>2. CASE ~Holding(c)
    <3>1. c = i
        BY <1>6, <2>2, OthersSame
    <3>2. CASE Pushes(i)
        BY <1>5, <3>1, <3>2
    <3>3. CASE is_mountpoint(Session) /\ pc[i] = "mounting" /\ stack' = stack
      <4>1. PICK m \in Cmd : stack[Session] = <<m>> /\ Serves(m)
          BY <1>1, <3>3, LiveMount
      <4>2. m = i
          BY <3>1, <3>3, <4>1 DEF Fresh
      <4> QED
          BY <3>1, <3>3, <4>1, <4>2
    <3> QED
        BY <1>1, <1>6, <2>2, <3>1, <3>2, <3>3 DEF Follows
  <2> QED
      BY <2>1, <2>2
<1>7. ASSUME Serves(c)'
      PROVE  \/ stack'[Session] = <<c>> \/ pc'[c] = "clean"
             \/ pc'[c] = "mounting" /\ program'[c] = "nfsrun"
  <2>1. CASE Serves(c) /\ stack[Session] = <<c>>
    <3>1. c = i /\ Unmounts(i) => pc'[c] = "clean"
        BY <1>1, <1>7 DEF Unmounts, Control, Kin, Serves
    <3> QED
        BY <2>1, <3>1, HeldMount
  <2>2. CASE c # i
      BY <1>1, <1>3, <1>7, <2>1, <2>2, OthersSame
  <2>3. CASE c = i
    <3>1. CASE Serves(i)
        BY <1>1, <1>3, <1>5, <1>7, <2>1, <2>3, <3>1 DEF Follows
    <3>2. CASE ~Serves(i)
        BY <1>1, <1>5, <1>7, <2>3, <3>2 DEF Follows
    <3> QED
        BY <3>1, <3>2
  <2> QED
      BY <2>2, <2>3
<1> QED
    BY <1>6, <1>7

LEMMA OneServesKept ==
  ASSUME OneStarts, OneMount, Fresh, Held, OneServes, NEW i \in Cmd, Moves(i)
  PROVE  OneServes'
<1>1. /\ MountType /\ Local /\ OwnMounts /\ Affects(i) /\ Follows(i) /\ program' = program
      /\ Session \in Places /\ pruned \subseteq Cmd
      /\ \A j \in Cmd : Control(j)
    BY DEF Moves, Local, UsesInv, Places, PruneType
<1>2. \A j \in Cmd : InSession(j)' = InSession(j)
    BY <1>1 DEF InSession
<1> SUFFICES ASSUME ~\E m \in pruned' : InSession(m)' /\ pc'[m] = "over"
             PROVE  \A m, n \in Cmd :
               InSession(m) /\ Serves(m)' /\ m \notin pruned'
               /\ InSession(n) /\ Serves(n)' /\ n \notin pruned' => m = n
    BY <1>2 DEF OneServes
<1>3. ASSUME NEW m \in pruned, InSession(m) PROVE pc[m] # "over"
  <2>1. m \in Cmd /\ m \in pruned' /\ pc'[m] # "over"
      BY <1>1, <1>2, <1>3 DEF Affects
  <2> QED
      BY <1>1, <2>1, OthersSame DEF Follows
<1>4. \A m, n \in Cmd : InSession(m) /\ Serves(m) /\ m \notin pruned
                       /\ InSession(n) /\ Serves(n) /\ n \notin pruned => m = n
    BY <1>1, <1>3 DEF OneServes
<1>5. ASSUME NEW n \in Cmd, n # i, InSession(i), Serves(i)', i \notin pruned',
             InSession(n), Serves(n), n \notin pruned
      PROVE  FALSE
  <2>1. ~Serves(i)
      BY <1>1, <1>4, <1>5 DEF Affects
  <2>2. pc[i] \in {"opening", "mounting"}
      BY <1>1, <1>5, <2>1 DEF Follows, Fresh
  <2>3. ASSUME NEW x \in Cmd, InSession(x), pc[x] \in {"clean", "mounting"}, x # i PROVE FALSE
      BY <1>5, <2>2, <2>3 DEF OneStarts, Starting, Busy, Ending, Control, Steering
  <2>4. ~Undone
    <3> SUFFICES ASSUME NEW x \in pruned, InSession(x), pc[x] \in {"clean", "over"}
                 PROVE  FALSE
        BY DEF Undone
    <3>1. pc[x] = "clean" /\ x \in Cmd
        BY <1>1, <1>3
    <3> QED
        BY <2>2, <2>3, <3>1
  <2>5. stack[Session] = <<n>> \/ pc[n] \in {"clean", "mounting"}
      BY <1>5, <2>4 DEF Held
  <2>6. stack[Session] # <<n>>
      BY <1>5, <2>2 DEF Fresh
  <2> QED
      BY <1>5, <2>3, <2>5, <2>6
<1>6. ASSUME NEW m \in Cmd, NEW n \in Cmd,
             InSession(m), Serves(m)', m \notin pruned',
             InSession(n), Serves(n)', n \notin pruned'
      PROVE  m = n
  <2>1. m \notin pruned /\ n \notin pruned
      BY <1>1, <1>6 DEF Affects
  <2>2. CASE m = i /\ n # i
      BY <1>5, <1>6, <2>1, <2>2, OthersSame
  <2>3. CASE n = i /\ m # i
      BY <1>5, <1>6, <2>1, <2>3, OthersSame
  <2>4. CASE m # i /\ n # i
      BY <1>4, <1>6, <2>1, <2>4, OthersSame
  <2> QED
      BY <2>2, <2>3, <2>4
<1> QED
    BY <1>6

-----------------------------------------------------------------------------
(* The invariant of sessions that start and end one at a time *)

LEMMA SessionInit == Init => SessionInv
<1> SUFFICES ASSUME Init PROVE SessionInv
    OBVIOUS
<1>1. UsesInv
    BY UsesInit
<1>2. \A i \in Cmd : pc[i] = "idle" /\ child[i] = "none" /\ thread[i] = "none"
    BY DEF Init
<1>3. OneStarts /\ Fresh /\ Covered /\ Cleaned
    BY <1>2 DEF OneStarts, Starting, Fresh, Covered, Past, Cleaned
<1>4. \A i \in Cmd : ~Serves(i) /\ ~Holding(i)
    BY <1>2 DEF Holding, Serves
<1>7. Held
    BY <1>4 DEF Held
<1>8. OneServes
    BY <1>4 DEF OneServes
<1>5. OneMount
    BY DEF Init, OneMount, NoMounts
<1>6. NothingErased
    BY DEF Init, NothingErased
<1> QED
    BY <1>1, <1>3, <1>5, <1>6, <1>7, <1>8 DEF SessionInv

LEMMA SessionKept ==
  ASSUME Apart, "unmount" \notin Fails, SessionInv, [Next]_vars
  PROVE  SessionInv'
<1>1. UsesInv /\ UsesInv'
    BY UsesKept DEF SessionInv
<1>2. ASSUME NEW i \in Cmd, Step(i) PROVE SessionInv'
  <2>1. Moves(i)
      BY <1>1, <1>2, Moving
  <2>2. NothingErased'
      BY <2>1 DEF SessionInv, NothingErased, Moves, Affects, Cleaned
  <2> QED
      BY <1>1, <2>1, <2>2, OneStartsKept, OneMountKept, FreshKept, CoveredKept,
         CleanedKept, HeldKept, OneServesKept DEF SessionInv
<1>3. CASE UNCHANGED vars
  <2>1. OneStarts' /\ OneMount' /\ Fresh'
      BY <1>3 DEF vars, SessionInv, OneStarts, OneMount, Fresh, InSession, Starting,
         Busy, Ending, Place, Mounted, Serves
  <2>2. Covered' /\ Cleaned' /\ NothingErased'
      BY <1>3 DEF vars, SessionInv, Covered, Past, PrunedAt, Cleaned, Place, NothingErased
  <2>3. Held' /\ OneServes'
      BY <1>3 DEF vars, SessionInv, Held, Undone, Holding, OneServes, InSession, Serves
  <2> QED
      BY <1>1, <2>1, <2>2, <2>3 DEF SessionInv
<1> QED
    BY <1>2, <1>3, NextIsStep

LEMMA SessionAlways ==
  ASSUME Apart, "unmount" \notin Fails
  PROVE  Spec => []SessionInv
<1>1. SessionInv /\ [Next]_vars => SessionInv'
    BY SessionKept
<1> QED
    BY <1>1, SessionInit, PTL DEF Spec

(* The command of a run or an exec never works on the bare directory below the
   mountpoint, unless a prune took the mount away (linux.rs, run_child and
   run_parent; cmd/exec.rs): whatever fails but an unmount, whoever is killed,
   as long as runs of the session do not start or end while another does. *)
THEOREM OverlaySeen ==
  ASSUME Apart, "unmount" \notin Fails
  PROVE  Spec => []CommandsSeeOverlay
<1>1. SessionInv => CommandsSeeOverlay
    BY DEF SessionInv, Covered, PrunedAt, CommandsSeeOverlay
<1> QED
    BY <1>1, SessionAlways, PTL

(* The remove_dir_all at the end of a run and of exec never goes through a
   mount, so that the delta is kept (linux.rs, run_parent; cmd/exec.rs). *)
THEOREM DeltaKept ==
  ASSUME Apart, "unmount" \notin Fails
  PROVE  Spec => []NothingErased
<1>1. SessionInv => NothingErased
    BY DEF SessionInv
<1> QED
    BY <1>1, SessionAlways, PTL

(* A mount whose server is gone was left by a process that was killed, or gave
   up between the fork and the command (mount/mod.rs, MountHandle). *)
THEOREM DeadMountsExplained ==
  ASSUME Apart, "unmount" \notin Fails
  PROVE  Spec => []LeftByFailure
<1>1. SessionInv => LeftByFailure
  <2> SUFFICES ASSUME SessionInv, NEW p \in Places, NEW m \in ToSet(stack[p])
               PROVE  Serves(m) \/ fate[m] \in {"killed", "aborted", "late"}
      BY DEF LeftByFailure
  <2>1. MountType
      BY DEF SessionInv, UsesInv, Local
  <2>2. stack[p] # <<>>
      BY DEF ToSet
  <2>3. PICK n \in Cmd : stack[p] = <<n>> /\ Mounted(n)
      BY <2>2 DEF SessionInv, OneMount
  <2>4. m = n
      BY <2>1, <2>3, TheMount
  <2> QED
      BY <2>3, <2>4 DEF Mounted
<1> QED
    BY <1>1, SessionAlways, PTL

(* Two servers never have the session's delta at once: the next run joins the
   mount it finds, and mounts again only when there is none (linux.rs,
   run_linux; mount/mod.rs, is_mountpoint). *)
THEOREM SingleServer ==
  ASSUME Apart, "unmount" \notin Fails
  PROVE  Spec => []OneServer
<1>1. SessionInv => OneServer
  <2> SUFFICES ASSUME SessionInv, ~\E m \in pruned : Place(m) = Session /\ pc[m] = "over"
               PROVE  Cardinality({m \in Cmd : Place(m) = Session /\ Serves(m) /\ m \notin pruned}) <= 1
      BY DEF OneServer
  <2> DEFINE S == {m \in Cmd : Place(m) = Session /\ Serves(m) /\ m \notin pruned}
  <2>1. pruned \subseteq Cmd
      BY DEF SessionInv, UsesInv, Local, PruneType
  <2>2. \A m, n \in S : m = n
      BY <2>1, SessionPlace DEF SessionInv, OneServes
  <2>3. CASE S = {}
      BY <2>3, FS_EmptySet
  <2>4. CASE S # {}
    <3>1. PICK m \in S : TRUE
        BY <2>4
    <3>2. S = {m}
        BY <2>2, <3>1
    <3>3. Cardinality({m}) = 1
        BY FS_Singleton
    <3> QED
        BY <3>2, <3>3
  <2> QED
      BY <2>3, <2>4
<1> QED
    BY <1>1, SessionAlways, PTL
=============================================================================
