---------------------------- MODULE MountedVolume ----------------------------
(***************************************************************************)
(* A volume with FUSE mounts beside the Worker.  A mount serves one guest  *)
(* request at a time, but a request may be several SQL statements, and     *)
(* between two of them the Worker, the other mounts, and the mount's own   *)
(* lease heartbeat go on.  unlink, rmdir, open, create, and release are    *)
(* such sequences; the other requests are single transactions of the       *)
(* remote SQL server.                                                      *)
(*                                                                         *)
(* A mount leases the inodes of its open files.  Time passes only for      *)
(* leases nobody renews: those of a mount that is gone, and those of an    *)
(* inode the mount has no handle for.                                      *)
(***************************************************************************)
EXTENDS VolumeTables

CONSTANTS MaxOpen   \* bound: open_count of a lease row

ASSUME MaxOpenAssumption == MaxOpen \in Nat \ {0}

VARIABLES up,        \* the mounts that run
          handles,   \* open file handles of a mount on an inode
          op,        \* the request a mount is serving: where it is, and
                     \* the directory, name and inode it has read
          beat       \* what the heartbeat thread of a mount does next

mounts == <<up, handles, op, beat>>
vars == <<tables, mounts>>

(* The statements a request may stand before, by what it still knows.      *)
EntrySteps == {"unlink_entry", "rmdir_children", "rmdir_entry", "rmdir_count", "rmdir_parent",
               "create_entry", "pin_created", "rollback"}
InodeSteps == {"unlink_count", "unlink_links", "unlink_lease", "unlink_delete",
               "rmdir_links", "rmdir_delete", "pin_opened",
               "unpin_count", "unpin_row", "unpin_inode"}

Idle == [at |-> "idle"]
Op == [at : EntrySteps, dir : Ino, name : Name, ino : Ino]
      \cup [at : InodeSteps, ino : Ino] \cup {Idle}

TypeOK ==
    /\ TablesTypeOK
    /\ up \subseteq Session
    /\ handles \in [Session \X Ino -> Nat]
    /\ op \in [Session -> Op]
    /\ beat \in [Session -> {"drop", "reap", "last", "off"}]

MountInit ==
    /\ Init
    /\ up = Session
    /\ handles = [x \in Session \X Ino |-> 0]
    /\ op = [s \in Session |-> Idle]
    /\ beat = [s \in Session |-> "drop"]

-----------------------------------------------------------------------------
(* Progress of a request *)

At(s, step) == s \in up /\ op[s].at = step
Accepts(s, request) == At(s, "idle") /\ request \in Workload

Start(s, step, p, n, i) ==
    op' = [op EXCEPT ![s] = [at |-> step, dir |-> p, name |-> n, ino |-> i]]
GoTo(s, step) == op' = [op EXCEPT ![s].at = step]
OnInode(s, step, i) == op' = [op EXCEPT ![s] = [at |-> step, ino |-> i]]
Done(s) == op' = [op EXCEPT ![s] = Idle]

KeepTables == UNCHANGED tables
KeepMount == UNCHANGED <<up, handles, beat>>

RemoveEntry(p, n) ==
    /\ entry' = [entry EXCEPT ![<<p, n>>] = NoIno]
    /\ UNCHANGED <<kind, nlink, lastIno, lease, expired>>

CountDown(i) ==
    /\ Store(kind, [nlink EXCEPT ![i] = @ - 1], {})
    /\ UNCHANGED <<entry, lastIno>>

DeleteInodes(gone) ==
    /\ Store(kind, nlink, gone)
    /\ UNCHANGED <<entry, lastIno>>

-----------------------------------------------------------------------------
(* Requests that are one transaction (hrana-server.ts) *)

(* airyfs_create_node_v1 for a node without handle: mknod and symlink. *)
MakeNode(s, p, n) ==
    /\ Accepts(s, "guest_create")
    /\ entry[<<p, n>>] = NoIno /\ kind[p] = "dir"
    /\ NewNode(p, n, "file", 1, 0)
    /\ UNCHANGED mounts

(* mkdir: a link for the entry and one for ".", and ".." in the parent. *)
GuestMakeDir(s, p, n) ==
    /\ Accepts(s, "guest_mkdir")
    /\ entry[<<p, n>>] = NoIno /\ kind[p] = "dir"
    /\ NewNode(p, n, "dir", 2, 1)
    /\ UNCHANGED mounts

(* Variant: the link is not counted. *)
GuestLinkUncounted(s, i, p, n) ==
    /\ Accepts(s, "guest_link")
    /\ entry[<<p, n>>] = NoIno /\ Linkable(i) /\ kind[p] = "dir"
    /\ entry' = [entry EXCEPT ![<<p, n>>] = i]
    /\ UNCHANGED <<kind, nlink, lastIno, lease, expired, mounts>>

(* airyfs_link_v1. *)
GuestLink(s, i, p, n) ==
    /\ Accepts(s, "guest_link")
    /\ entry[<<p, n>>] = NoIno /\ Linkable(i) /\ kind[p] = "dir"
    /\ entry' = [entry EXCEPT ![<<p, n>>] = i]
    /\ Store(kind, [nlink EXCEPT ![i] = @ + 1], {})
    /\ UNCHANGED <<lastIno, mounts>>

(* airyfs_rename_v1: a replaced directory loses both its links and its     *)
(* parent's "..", a moved one takes its ".." along.                        *)
GuestRename(s, p, n, q, m) ==
    LET i == entry[<<p, n>>]
        j == entry[<<q, m>>]
        replaced == IF j = NoIno \/ ~Exists(j) THEN {} ELSE {j}
        moved == IF kind[i] = "dir" /\ p # q THEN 1 ELSE 0
        left(k) == IF kind[j] = "dir" THEN 0 ELSE nlink[k] - 1
        dotdot(d) == (IF d = q THEN moved ELSE 0) - (IF d = p THEN moved ELSE 0)
                     - (IF d = q /\ replaced # {} /\ kind[j] = "dir" THEN 1 ELSE 0)
    IN  /\ Accepts(s, "guest_rename")
        /\ kind[p] = "dir" /\ kind[q] = "dir" /\ <<p, n>> # <<q, m>>
        /\ i # NoIno /\ Exists(i) /\ i # j
        /\ kind[i] = "dir" => q \notin Below(i, {"none", "file", "dir"})
        /\ j # NoIno => Exists(j) /\ Replaceable(i, j)
        /\ entry' = [entry EXCEPT ![<<p, n>>] = NoIno, ![<<q, m>>] = i]
        /\ Store(kind,
                 [k \in Ino |-> IF k \in replaced THEN left(k) ELSE nlink[k] + dotdot(k)],
                 {k \in replaced : left(k) = 0 /\ ~HasActiveLease(k)})
        /\ UNCHANGED <<lastIno, mounts>>

-----------------------------------------------------------------------------
(* unlink: entry, link count, and inode, after reading them *)

(* lookup_child and the type check; the inode row may be gone already.     *)
(* MaxLinks bounds how often a link is taken from one inode.               *)
UnlinkLookup(s, p, n) ==
    /\ Accepts(s, "guest_unlink")
    /\ entry[<<p, n>>] # NoIno /\ kind[entry[<<p, n>>]] # "dir"
    /\ nlink[entry[<<p, n>>]] > -MaxLinks
    /\ Start(s, "unlink_entry", p, n, entry[<<p, n>>])
    /\ KeepTables /\ KeepMount

UnlinkEntry(s) ==
    /\ At(s, "unlink_entry")
    /\ RemoveEntry(op[s].dir, op[s].name)
    /\ OnInode(s, "unlink_count", op[s].ino) /\ KeepMount

UnlinkCount(s) ==
    /\ At(s, "unlink_count")
    /\ CountDown(op[s].ino)
    /\ GoTo(s, "unlink_links") /\ KeepMount

UnlinkLinks(s) ==
    /\ At(s, "unlink_links")
    /\ IF nlink[op[s].ino] = 0 THEN GoTo(s, "unlink_lease") ELSE Done(s)
    /\ KeepTables /\ KeepMount

(* Variant: the leases are not looked at. *)
UnlinkLeaseIgnored(s) ==
    /\ At(s, "unlink_lease")
    /\ GoTo(s, "unlink_delete")
    /\ KeepTables /\ KeepMount

UnlinkLease(s) ==
    /\ At(s, "unlink_lease")
    /\ IF HasActiveLease(op[s].ino) THEN Done(s) ELSE GoTo(s, "unlink_delete")
    /\ KeepTables /\ KeepMount

UnlinkDelete(s) ==
    /\ At(s, "unlink_delete")
    /\ DeleteInodes({op[s].ino})
    /\ Done(s) /\ KeepMount

UnlinkStep(s) ==
    UnlinkEntry(s) \/ UnlinkCount(s) \/ UnlinkLinks(s) \/ UnlinkLease(s) \/ UnlinkDelete(s)

-----------------------------------------------------------------------------
(* rmdir: the directory loses one link and its parent one *)

RmdirLookup(s, p, n) ==
    /\ Accepts(s, "guest_rmdir")
    /\ entry[<<p, n>>] \notin {NoIno, Root} /\ kind[entry[<<p, n>>]] = "dir"
    /\ nlink[entry[<<p, n>>]] > -MaxLinks /\ nlink[p] > -MaxLinks
    /\ Start(s, "rmdir_children", p, n, entry[<<p, n>>])
    /\ KeepTables /\ KeepMount

RmdirChildren(s) ==
    /\ At(s, "rmdir_children")
    /\ IF Children(op[s].ino) = {} THEN GoTo(s, "rmdir_entry") ELSE Done(s)
    /\ KeepTables /\ KeepMount

RmdirEntry(s) ==
    /\ At(s, "rmdir_entry")
    /\ RemoveEntry(op[s].dir, op[s].name)
    /\ GoTo(s, "rmdir_count") /\ KeepMount

RmdirCount(s) ==
    /\ At(s, "rmdir_count")
    /\ CountDown(op[s].ino)
    /\ GoTo(s, "rmdir_parent") /\ KeepMount

RmdirParent(s) ==
    /\ At(s, "rmdir_parent")
    /\ CountDown(op[s].dir)
    /\ OnInode(s, "rmdir_links", op[s].ino) /\ KeepMount

RmdirLinks(s) ==
    /\ At(s, "rmdir_links")
    /\ IF nlink[op[s].ino] = 0 THEN GoTo(s, "rmdir_delete") ELSE Done(s)
    /\ KeepTables /\ KeepMount

RmdirDelete(s) ==
    /\ At(s, "rmdir_delete")
    /\ DeleteInodes({op[s].ino})
    /\ Done(s) /\ KeepMount

RmdirStep(s) ==
    \/ RmdirChildren(s) \/ RmdirEntry(s) \/ RmdirCount(s)
    \/ RmdirParent(s) \/ RmdirLinks(s) \/ RmdirDelete(s)

-----------------------------------------------------------------------------
(* open and create: pin the inode before the handle is reported *)

(* create: after the kernel's lookup, the inode, its entry and its lease.  *)
(* BEGIN and COMMIT around the first two do nothing on the remote server.  *)
(* No statement looks at the directory: it may be gone by the second.      *)
Create(s, p, n) ==
    /\ Accepts(s, "guest_create")
    /\ entry[<<p, n>>] = NoIno /\ kind[p] = "dir"
    /\ lastIno < MaxIno
    /\ lastIno' = lastIno + 1
    /\ Store([kind EXCEPT ![lastIno + 1] = "file"], [nlink EXCEPT ![lastIno + 1] = 1], {})
    /\ Start(s, "create_entry", p, n, lastIno + 1)
    /\ UNCHANGED entry /\ KeepMount

(* INSERT ... ON CONFLICT DO NOTHING: a name that was taken meanwhile is   *)
(* EEXIST.                                                                 *)
CreateEntry(s) ==
    LET place == <<op[s].dir, op[s].name>>
    IN  /\ At(s, "create_entry")
        /\ IF entry[place] = NoIno
           THEN entry' = [entry EXCEPT ![place] = op[s].ino] /\ GoTo(s, "pin_created")
           ELSE UNCHANGED entry /\ Done(s)
        /\ UNCHANGED <<kind, nlink, lastIno, lease, expired>> /\ KeepMount

Open(s, p, n) ==
    /\ Accepts(s, "guest_open")
    /\ entry[<<p, n>>] # NoIno /\ kind[entry[<<p, n>>]] = "file"
    /\ OnInode(s, "pin_opened", entry[<<p, n>>])
    /\ KeepTables /\ KeepMount

Pinning(s) == At(s, "pin_created") \/ At(s, "pin_opened")

(* pin_open_inode: one upsert, conditional on the inode row. *)
Upsert(s, i) ==
    /\ Exists(i) /\ lease[<<s, i>>] < MaxOpen
    /\ lease' = [lease EXCEPT ![<<s, i>>] = IF @ = NoRow THEN 1 ELSE @ + 1]
    /\ expired' = expired \ {<<s, i>>}
    /\ UNCHANGED <<kind, nlink, entry, lastIno>>

Pin(s) ==
    /\ Pinning(s)
    /\ Upsert(s, op[s].ino)
    /\ handles' = [handles EXCEPT ![<<s, op[s].ino>>] = @ + 1]
    /\ Done(s) /\ UNCHANGED <<up, beat>>

(* The inode is gone, or the statement fails, with or without effect: the  *)
(* handle is dropped, and a file just created is unlinked by its name.     *)
PinFails(s) ==
    /\ Pinning(s)
    /\ \/ ~Exists(op[s].ino) /\ KeepTables
       \/ "fail_pin" \in Workload /\ (KeepTables \/ Upsert(s, op[s].ino))
    /\ IF op[s].at = "pin_created" THEN GoTo(s, "rollback") ELSE Done(s)
    /\ KeepMount

Rollback(s) ==
    LET p == op[s].dir
        n == op[s].name
    IN  /\ At(s, "rollback")
        /\ IF entry[<<p, n>>] # NoIno /\ kind[entry[<<p, n>>]] # "dir"
           THEN Start(s, "unlink_entry", p, n, entry[<<p, n>>])
           ELSE Done(s)
        /\ KeepTables /\ KeepMount

-----------------------------------------------------------------------------
(* release: give the lease back in three statements *)

(* Variant: a handle may be released twice. *)
ReleaseTwice(s, i) ==
    /\ Accepts(s, "guest_open")
    /\ handles' = [handles EXCEPT ![<<s, i>>] = @ - 1]
    /\ OnInode(s, "unpin_count", i)
    /\ KeepTables /\ UNCHANGED <<up, beat>>

Release(s, i) ==
    /\ Accepts(s, "guest_open")
    /\ handles[<<s, i>>] > 0
    /\ handles' = [handles EXCEPT ![<<s, i>>] = @ - 1]
    /\ OnInode(s, "unpin_count", i)
    /\ KeepTables /\ UNCHANGED <<up, beat>>

UnpinCount(s) ==
    LET row == <<s, op[s].ino>>
    IN  /\ At(s, "unpin_count")
        /\ lease' = [lease EXCEPT ![row] = IF @ = NoRow THEN NoRow ELSE @ - 1]
        /\ GoTo(s, "unpin_row") /\ KeepMount
        /\ UNCHANGED <<kind, nlink, entry, lastIno, expired>>

DeleteRows(rows) ==
    /\ lease' = [x \in Session \X Ino |-> IF x \in rows THEN NoRow ELSE lease[x]]
    /\ expired' = expired \ rows
    /\ UNCHANGED <<kind, nlink, entry, lastIno>>

(* Variant: the row goes with the first of its handles. *)
UnpinRowAlways(s) ==
    /\ At(s, "unpin_row")
    /\ DeleteRows({<<s, op[s].ino>>})
    /\ GoTo(s, "unpin_inode") /\ KeepMount

UnpinRow(s) ==
    /\ At(s, "unpin_row")
    /\ DeleteRows({<<s, op[s].ino>>} \cap {x \in Session \X Ino : lease[x] <= 0})
    /\ GoTo(s, "unpin_inode") /\ KeepMount

UnpinInode(s) ==
    /\ At(s, "unpin_inode")
    /\ DeleteInodes({i \in {op[s].ino} \ {Root} : nlink[i] = 0 /\ ~HasActiveLease(i)})
    /\ Done(s) /\ KeepMount

UnpinStep(s) == UnpinCount(s) \/ UnpinRow(s) \/ UnpinInode(s)

-----------------------------------------------------------------------------
(* The heartbeat thread, mounts that end, and time *)

(* reap_orphan_inodes. *)
Orphans ==
    {i \in Ino \ {Root} : Exists(i) /\ nlink[i] = 0
                          /\ \A s \in Session : lease[<<s, i>>] = NoRow}

(* Variant: only the rows of the mount itself are dropped. *)
DropOwn(s) ==
    /\ s \in up /\ beat[s] = "drop"
    /\ DeleteRows({x \in {s} \X Ino : lease[x] <= 0 \/ x \in expired})
    /\ beat' = [beat EXCEPT ![s] = "reap"]
    /\ UNCHANGED <<up, handles, op>>

(* reap_expired_open_inodes: drop the rows that lease nothing, then reap.  *)
(* The renewal before it keeps the leases of open handles unexpired.       *)
Drop(s) ==
    /\ s \in up /\ beat[s] = "drop"
    /\ DeleteRows({x \in Session \X Ino : lease[x] <= 0 \/ x \in expired})
    /\ beat' = [beat EXCEPT ![s] = "reap"]
    /\ UNCHANGED <<up, handles, op>>

Reap(s) ==
    /\ s \in up /\ beat[s] = "reap"
    /\ DeleteInodes(Orphans)
    /\ beat' = [beat EXCEPT ![s] = "drop"]
    /\ UNCHANGED <<up, handles, op>>

Gone(s) ==
    /\ up' = up \ {s}
    /\ handles' = [x \in Session \X Ino |-> IF x[1] = s THEN 0 ELSE handles[x]]
    /\ op' = [op EXCEPT ![s] = Idle]

(* Graceful unmount: cleanup_open_session drops the session's rows, then   *)
(* reaps.                                                                  *)
Unmount(s) ==
    /\ "unmount" \in Workload /\ At(s, "idle")
    /\ DeleteRows({x \in Session \X Ino : x[1] = s})
    /\ Gone(s)
    /\ beat' = [beat EXCEPT ![s] = "last"]

LastReap(s) ==
    /\ beat[s] = "last"
    /\ DeleteInodes(Orphans)
    /\ beat' = [beat EXCEPT ![s] = "off"]
    /\ UNCHANGED <<up, handles, op>>

(* The container or the mount process dies. *)
Crash(s) ==
    /\ "crash" \in Workload /\ s \in up
    /\ Gone(s)
    /\ beat' = [beat EXCEPT ![s] = "off"]
    /\ KeepTables

(* A statement of the request fails; the request is answered with an error.*)
Fail(s) ==
    /\ "fail" \in Workload /\ s \in up
    /\ op[s].at # "idle" /\ ~Pinning(s)
    /\ Done(s)
    /\ KeepTables /\ KeepMount

(* expires_at of a row passes that no heartbeat renews. *)
Expire(x) ==
    /\ lease[x] # NoRow /\ x \notin expired
    /\ x[1] \notin up \/ handles[x] = 0
    /\ expired' = expired \cup {x}
    /\ UNCHANGED <<kind, nlink, entry, lastIno, lease, mounts>>

-----------------------------------------------------------------------------
RequestAt(s, p, n) ==
    \/ MakeNode(s, p, n) \/ GuestMakeDir(s, p, n) \/ Create(s, p, n) \/ Open(s, p, n)
    \/ UnlinkLookup(s, p, n) \/ RmdirLookup(s, p, n)
    \/ \E i \in Ino : GuestLink(s, i, p, n)
    \/ \E y \in Place : GuestRename(s, y[1], y[2], p, n)

(* The next statement of a request under way. *)
Step(s) ==
    \/ UnlinkStep(s) \/ RmdirStep(s) \/ CreateEntry(s)
    \/ Pin(s) \/ PinFails(s) \/ Rollback(s) \/ UnpinStep(s)

Heartbeat(s) == Drop(s) \/ Reap(s)

MountNext ==
    \/ \E s \in Session :
          \/ \E x \in Place : RequestAt(s, x[1], x[2])
          \/ \E i \in Ino : Release(s, i)
          \/ Step(s) \/ Fail(s) \/ Heartbeat(s)
          \/ Unmount(s) \/ LastReap(s) \/ Crash(s)
    \/ \E x \in Session \X Ino : Expire(x)

Next == MountNext \/ (WorkerNext /\ UNCHANGED mounts)

Spec == MountInit /\ [][Next]_vars

(* Requests under way and heartbeats go on while their mount runs, and     *)
(* time passes.                                                            *)
Fairness ==
    /\ \A s \in Session : WF_vars(Step(s)) /\ WF_vars(Drop(s)) /\ WF_vars(Reap(s))
    /\ \A x \in Session \X Ino : WF_vars(Expire(x))

FairSpec == Spec /\ Fairness

-----------------------------------------------------------------------------
(* Properties *)

(* Whatever the Worker and the mounts remove, the inode behind an open     *)
(* file handle stays until the handle is closed.                           *)
OpenFilesKept == \A s \in up, i \in Ino : handles[<<s, i>>] > 0 => Exists(i)

(* Every open handle is counted by an unexpired lease row of its mount, as *)
(* long as the inode is there: no step of a release, a heartbeat or        *)
(* another mount takes more than its own hold.                             *)
HandlesAreLeased ==
    \A s \in up, i \in Ino :
        handles[<<s, i>>] > 0 /\ Exists(i) =>
            lease[<<s, i>>] >= handles[<<s, i>>] /\ <<s, i>> \notin expired

(* The inode of an open file is deleted by no transaction of the Worker or *)
(* of the SQL server, no release and no heartbeat; only the last statement *)
(* of an unlink or rmdir, which acts on a lease read before, can do it.    *)
DeletesOnlyUnleased ==
    \A s \in up, i \in Ino :
        handles[<<s, i>>] > 0 /\ Exists(i) /\ kind'[i] = "none" =>
            \E t \in up : op[t].at \in {"unlink_delete", "rmdir_delete"} /\ op[t].ino = i

LeasesRetain == [][DeletesOnlyUnleased]_vars

Reapable(i) ==
    Names(i) = {} => nlink[i] = 0 \/ \E s \in up : op[s].at # "idle" /\ op[s].ino = i

(* A file without name that no request is working on has link count zero,  *)
(* which is what the reapers look for.                                     *)
UnnamedIsReapable == \A i \in Ino \ {Root} : kind[i] = "file" => Reapable(i)

(* The same of directories (SPEC.md, rule 8).                              *)
UnnamedDirIsReapable == \A i \in Ino \ {Root} : kind[i] = "dir" => Reapable(i)

(* A named inode exists and has no more names than links: removing all but *)
(* one of its names never deletes it (SPEC.md, rules 2 and 8).             *)
NamesCounted ==
    \A i \in Ino \ {Root} :
        Names(i) # {} => Exists(i) /\ nlink[i] >= Cardinality(Names(i))

(* A rolled back create removes the file it made, not one that took its    *)
(* name.                                                                   *)
RollbackIsOwn ==
    \A s \in up : At(s, "rollback") /\ At(s, "unlink_entry")' => op'[s].ino = op[s].ino

RollbackUnlinksOwnFile == [][RollbackIsOwn]_vars

(* An unlinked file that no mount has open is reclaimed while a mount runs,*)
(* whichever mounts held it before and however they ended.                 *)
Reclaimed ==
    \A i \in Ino \ {Root} :
        kind[i] = "file" /\ Names(i) = {} ~>
            \/ ~Exists(i) \/ Names(i) # {} \/ up = {}
            \/ \E s \in up : handles[<<s, i>>] > 0
=============================================================================
