--------------------------- MODULE MCMountedVolume ---------------------------
(* Workloads for TLC: which kinds of operation the clients of a run use. *)
EXTENDS MountedVolume, TLC

CONSTANTS n1, n2, m1, m2

Names2 == {n1, n2}
OneMount == {m1}
TwoMounts == {m1, m2}

Symmetry == Permutations(Names2)

(* Every operation of a mount, failing pins, and how a mount ends. *)
GuestOnly == {"guest_create", "guest_mkdir", "guest_link", "guest_rename", "guest_unlink",
              "guest_rmdir", "guest_open", "crash", "fail_pin", "unmount"}

(* The Worker unlinks and replaces files that mounts have open, and mounts *)
(* remove its directories.                                                 *)
Leases == {"create", "mkdir", "link", "remove", "rename", "guest_open", "guest_rmdir",
           "unmount", "crash", "fail", "fail_pin"}

(* Directories made by the Worker and removed by a guest. *)
RmdirOfWorkerDirs == {"mkdir", "guest_rmdir"}

(* A file renamed by the Worker while a guest unlinks it. *)
UnlinkDuringRename == {"create", "rename", "guest_unlink"}

(* Directories made and removed by a guest. *)
GuestDirs == {"guest_mkdir", "guest_rmdir"}

(* A file opened by one mount while another unlinks it. *)
OpenDuringUnlink == {"create", "guest_open", "guest_unlink"}

(* A file written by the Worker while a guest creates it. *)
CreateDuringWrite == {"create", "guest_create"}

(* A file replaced by the Worker while a guest creates it. *)
CreateDuringUpload == {"create", "remove", "guest_create"}
=============================================================================
