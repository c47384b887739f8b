---------------------------- MODULE MCSandboxFds ----------------------------
(* Instances of SandboxFds for TLC. *)
EXTENDS SandboxFds

CONSTANTS p1, p2, t1, t2, t3, f

(* Two threads of a process and the process it forks. *)
ThreeThreads == (t1 :> p1) @@ (t2 :> p1) @@ (t3 :> p2)

Kernel(C) == C \X {"kernel"}
Volume(C) == C \X {"volume"}

OnDescriptors == {"write", "pwrite64", "pread64", "fstat", "read", "lseek", "getdents64", "ioctl", "mmap",
                  "readv", "writev", "sendto", "connect", "getpeername", "poll", "pselect6",
                  "faccessat", "faccessat2", "fchownat"}
OnRelative == {"statx", "newfstatat", "readlinkat", "symlinkat", "linkat"}

Mixed == (t1 :> Kernel({"close", "dup", "fcntl", "dup2", "fork"})
                \cup Volume({"openat", "write", "close", "dup", "dup2"})) @@
         (t2 :> Kernel({"pipe2", "close", "dup", "pselect6"})) @@
         (t3 :> Kernel({"openat", "socket", "exit"} \cup OnDescriptors \cup OnRelative)
                \cup Volume({"symlink", "linkat"}))
MixedBudget == (t1 :> 3) @@ (t2 :> 1) @@ (t3 :> 1)
Apart == (t1 :> {1}) @@ (t2 :> {0}) @@ (t3 :> {})

Far == (t1 :> {12}) @@ (t2 :> {}) @@ (t3 :> {})

(* One thread: a new file is duplicated, as a shell redirects to it. *)
Redirect == (t1 :> Volume({"openat", "write", "dup", "close"}))
Alone == (t1 :> p1)
AloneBudget == (t1 :> 5)
NoSpare == (t1 :> {})
Output == (t1 :> {1})

(* A kernel file beside a volume file; a directory beside kernel files. *)
Positioned == (t1 :> Kernel({"openat"}) \cup Volume({"openat", "pwrite64"}))
Lists == (t1 :> Kernel({"openat", "close", "newfstatat"}) \cup Volume({"openat"}))

(* Two processes share an open volume file. *)
TwoProcesses == (t1 :> p1) @@ (t3 :> p2)
Sharing == (t1 :> Kernel({"fork"}) \cup Volume({"openat", "write", "close"})) @@
           (t3 :> Volume({"inherit", "close"}))
(* A child opens a file as soon as it runs. *)
Early == (t1 :> Kernel({"fork"})) @@ (t3 :> Kernel({"openat"}))
SharingBudget == (t1 :> 5) @@ (t3 :> 1)
NoSpares == (t1 :> {}) @@ (t3 :> {})
Outputs == (t1 :> {1}) @@ (t3 :> {})
=============================================================================
