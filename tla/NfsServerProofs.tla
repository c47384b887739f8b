---------------------------- MODULE NfsServerProofs ---------------------------
(***************************************************************************)
(* Proof that a call on the NFS server changes the file system at most     *)
(* once, for any clients, ports, calls, retransmissions, broken            *)
(* connections and restarts.                                               *)
(***************************************************************************)
EXTENDS NfsServer, TLAPS

-----------------------------------------------------------------------------
(* Requests, messages and tasks *)

IsRequest(r) ==
    /\ r = [op |-> r.op, gen |-> r.gen, dir |-> r.dir, name |-> r.name, ino |-> r.ino,
            to |-> r.to, toName |-> r.toName, set |-> r.set, insync |-> r.insync]
    /\ r.op \in Procedures

IsMessage(m) ==
    m = [c |-> m.c, x |-> m.x, port |-> m.port, open |-> m.open, req |-> m.req]

IsTask(t) ==
    t = [c |-> t.c, x |-> t.x, port |-> t.port, open |-> t.open, req |-> t.req,
         pc |-> t.pc, status |-> t.status, saved |-> t.saved, page |-> t.page]

(* What m, a message or a task, is about. *)
About(m) == <<m.c, m.x>>
SameCall(m, n) == m.c = n.c /\ m.x = n.x /\ m.port = n.port /\ m.req = n.req

(* The steps of a procedure after the check of the handle. *)
Later(op) ==
    IF op = "WRITE" THEN {"act", "clear"}
    ELSE IF op \in {"CREATE UNCHECKED", "CREATE GUARDED", "CREATE EXCLUSIVE", "RENAME", "LINK"}
         THEN {"look", "act"}
    ELSE {"act"}

(* A task is past the check only with a handle of this start. *)
IsAt(t) == t.pc \in {"check", "done"} \/ (t.pc \in Later(t.req.op) /\ ~Stale(t))

-----------------------------------------------------------------------------
(* A step of a task.  Whatever the procedure, the tables change only with  *)
(* the step that answers, and never under a handle of an earlier start.    *)

IsOutcome(o, t) ==
    /\ IsTask(o.task) /\ SameCall(o.task, t)
    /\ o.task.pc = "done" \/ (o.task.pc \in Later(t.req.op) /\ ~Stale(t))
    /\ o.db # db \/ o.mode # mode => o.task.pc = "done" /\ ~Stale(t)

LEMMA Answers ==
    ASSUME NEW t, IsTask(t), NEW status
    PROVE  IsOutcome(Answer(t, status), t) /\ IsTask(Answer(t, status).task)
BY DEF Answer, IsOutcome, IsTask, SameCall

LEMMA Goes ==
    ASSUME NEW t, IsTask(t), ~Stale(t), NEW u, IsTask(u), SameCall(u, t), NEW pc \in Later(t.req.op)
    PROVE  IsOutcome(Goto(u, pc), t)
BY DEF Goto, IsOutcome, IsTask, SameCall

LEMMA Commits ==
    ASSUME NEW t, IsTask(t), ~Stale(t), NEW script
    PROVE  IsOutcome(Commit(t, script), t)
<1> DEFINE a == Answer(t, "OK")
<1>1. IsOutcome(a, t) /\ a.task.pc = "done"
    BY Answers DEF Answer, IsTask
<1>2. Commit(t, script).task = a.task
    BY DEF Commit, Answer
<1> QED
    BY <1>1, <1>2 DEF IsOutcome

LEMMA SetsMode ==
    ASSUME NEW t, IsTask(t), ~Stale(t), NEW i, NEW m
    PROVE  IsOutcome(SetMode(t, i, m), t)
<1> DEFINE a == Answer(t, t.status)
<1>1. IsOutcome(a, t) /\ a.task.pc = "done"
    BY Answers DEF Answer, IsTask
<1>2. SetMode(t, i, m).task = a.task
    BY DEF SetMode, Answer
<1> QED
    BY <1>1, <1>2 DEF IsOutcome

LEMMA Pages ==
    ASSUME NEW t, IsTask(t), NEW cookie
    PROVE  IsOutcome(Page(t, cookie), t)
<1>1. PICK page : Page(t, cookie) = [Answer(t, "OK") EXCEPT !.task.page = page]
    BY DEF Page
<1>2. PICK o, u : o = Page(t, cookie) /\ u = [t EXCEPT !.pc = "done", !.status = "OK"]
    OBVIOUS
<1>3. o = [[db |-> db, mode |-> mode, task |-> u] EXCEPT !.task.page = page]
    BY <1>1, <1>2 DEF Answer
<1>4. o.db = db /\ o.mode = mode /\ o.task = [u EXCEPT !.page = page]
    BY <1>3
<1>5. IsTask(u) /\ SameCall(u, t) /\ u.pc = "done"
    BY <1>2 DEF IsTask, SameCall
<1>6. IsTask(o.task) /\ SameCall(o.task, t) /\ o.task.pc = "done"
    BY <1>4, <1>5 DEF IsTask, SameCall
<1> QED
    BY <1>2, <1>4, <1>6 DEF IsOutcome

(* The methods of AgentNFS. *)
LEMMA Methods ==
    ASSUME NEW t, IsTask(t), ~Stale(t), NEW script
    PROVE  /\ IsOutcome(Make(t, script), t)
           /\ IsOutcome(mkdir(t), t) /\ IsOutcome(mknod(t), t) /\ IsOutcome(symlink(t), t)
           /\ IsOutcome(create(t), t) /\ IsOutcome(create_exclusive(t), t)
           /\ IsOutcome(remove(t), t) /\ IsOutcome(rename(t), t) /\ IsOutcome(link(t), t)
<1>1. ASSUME NEW s PROVE IsOutcome(Make(t, s), t)
    BY Answers, Commits DEF Make
<1>2. IsOutcome(create(t), t)
    BY <1>1 DEF create
<1>3. IsOutcome(create_exclusive(t), t)
    BY <1>2, Answers DEF create_exclusive
<1>4. IsOutcome(mkdir(t), t) /\ IsOutcome(mknod(t), t) /\ IsOutcome(symlink(t), t)
    BY <1>1 DEF mkdir, mknod, symlink
<1>5. IsOutcome(link(t), t)
    BY <1>1, Answers DEF link
<1>6. IsOutcome(remove(t), t)
    BY Answers, Commits DEF remove
<1>7. IsOutcome(rename(t), t)
    BY Answers, Commits DEF rename
<1> QED
    BY <1>1, <1>2, <1>3, <1>4, <1>5, <1>6, <1>7

LEMMA SetAttributes ==
    ASSUME NEW t, IsTask(t), ~Stale(t), NEW m
    PROVE  IsOutcome(setattr(t, m), t)
BY Answers, SetsMode DEF setattr

(* Those that change nothing. *)
LEMMA Reads ==
    ASSUME NEW t, IsTask(t)
    PROVE  /\ IsOutcome(lookup(t), t) /\ IsOutcome(getattr(t), t) /\ IsOutcome(read(t), t)
           /\ IsOutcome(readlink(t), t) /\ IsOutcome(nfsproc3_fsstat(t), t)
<1>1. IsOutcome(lookup(t), t) /\ IsOutcome(getattr(t), t)
    BY Answers DEF lookup, getattr
<1>2. IsOutcome(readlink(t), t)
    BY <1>1, Answers DEF readlink
<1>3. IsOutcome(nfsproc3_fsstat(t), t)
    BY Answers DEF nfsproc3_fsstat
<1> QED
    BY <1>1, <1>2, <1>3 DEF read

LEMMA Checks ==
    ASSUME NEW t, IsTask(t), NEW d, NEW next \in Later(t.req.op)
    PROVE  IsOutcome(CheckAccess(t, d, next), t)
<1>1. CASE Stale(t)
    BY <1>1, Answers DEF CheckAccess
<1>2. CASE ~Stale(t)
  <2>1. IsOutcome(Goto(t, next), t)
      BY <1>2, Goes DEF SameCall
  <2> QED
      BY <1>2, <2>1, Answers DEF CheckAccess
<1> QED
    BY <1>1, <1>2

LEMMA Lookings ==
    ASSUME NEW t, IsTask(t), IsAt(t), t.pc # "done", "act" \in Later(t.req.op), NEW i,
           NEW method, IsOutcome(method, t), t.req.op \notin {"WRITE", "RENAME", "LINK"},
           t.req.op \notin {"CREATE UNCHECKED", "CREATE GUARDED", "CREATE EXCLUSIVE"}
    PROVE  IsOutcome(Looks(t, i, method), t)
<1>1. t.pc = "check" \/ t.pc = "act"
    BY DEF IsAt, Later
<1>2. CASE t.pc = "check" /\ Stale(t)
    BY <1>2, Answers DEF Looks
<1>3. CASE t.pc = "check" /\ ~Stale(t)
  <2>1. IsOutcome(Goto(t, "act"), t)
      BY <1>3, Goes DEF SameCall
  <2> QED
      BY <1>3, <2>1, Answers DEF Looks
<1>4. CASE t.pc = "act"
    BY <1>4 DEF Looks
<1> QED
    BY <1>1, <1>2, <1>3, <1>4

LEMMA Modifications ==
    ASSUME NEW t, IsTask(t), IsAt(t), t.pc # "done", "act" \in Later(t.req.op),
           NEW method, ~Stale(t) => IsOutcome(method, t)
    PROVE  IsOutcome(Modifies(t, method), t)
<1>1. CASE t.pc = "check"
    BY <1>1, Checks DEF Modifies
<1>2. CASE t.pc # "check"
    BY <1>2 DEF Modifies, IsAt
<1> QED
    BY <1>1, <1>2

LEMMA Procedure ==
    ASSUME NEW t, IsTask(t), IsRequest(t.req), IsAt(t), t.pc # "done"
    PROVE  IsOutcome(handle_nfs(t), t)
<1> DEFINE op == t.req.op
<1>1. op \in Procedures /\ "act" \in Later(op)
    BY DEF IsRequest, Later
<1>2. t.pc = "check" \/ (t.pc \in Later(op) /\ ~Stale(t))
    BY DEF IsAt
<1>3. CASE op \in {"MKDIR", "MKNOD", "SYMLINK", "REMOVE"}
  <2>1. /\ IsOutcome(Modifies(t, mkdir(t)), t) /\ IsOutcome(Modifies(t, mknod(t)), t)
        /\ IsOutcome(Modifies(t, symlink(t)), t) /\ IsOutcome(Modifies(t, remove(t)), t)
      BY <1>1, Modifications, Methods
  <2> QED
      BY <1>3, <2>1 DEF handle_nfs, nfsproc3_mkdir, nfsproc3_mknod, nfsproc3_symlink, nfsproc3_remove
<1>4. CASE op \in {"CREATE UNCHECKED", "CREATE GUARDED", "CREATE EXCLUSIVE"}
  <2>1. handle_nfs(t) = nfsproc3_create(t) /\ Later(op) = {"look", "act"}
      BY <1>4 DEF handle_nfs, Later
  <2>2. CASE t.pc = "check"
      BY <2>1, <2>2, Checks DEF nfsproc3_create
  <2>3. CASE t.pc = "look"
    <3>1. ~Stale(t) /\ IsOutcome(Goto(t, "act"), t)
        BY <1>1, <1>2, <2>3, Goes DEF SameCall
    <3> QED
        BY <2>1, <2>3, <3>1, Answers DEF nfsproc3_create
  <2>4. CASE t.pc = "act"
      BY <1>2, <2>1, <2>4, Methods DEF nfsproc3_create
  <2> QED
      BY <1>2, <2>1, <2>2, <2>3, <2>4
<1>5. CASE op = "RENAME"
  <2>1. handle_nfs(t) = nfsproc3_rename(t) /\ Later(op) = {"look", "act"}
      BY <1>5 DEF handle_nfs, Later
  <2>2. CASE t.pc = "check" /\ Stale(t)
      BY <2>1, <2>2, Answers DEF nfsproc3_rename
  <2>3. CASE t.pc = "check" /\ ~Stale(t)
    <3>1. ASSUME NEW saved PROVE IsOutcome(Goto([t EXCEPT !.saved = saved], "look"), t)
      <4>1. IsTask([t EXCEPT !.saved = saved]) /\ SameCall([t EXCEPT !.saved = saved], t)
          BY DEF IsTask, SameCall
      <4> QED
          BY <2>1, <2>3, <4>1, Goes
    <3> QED
        BY <2>1, <2>3, <3>1, Answers DEF nfsproc3_rename
  <2>4. CASE t.pc = "look"
      BY <2>1, <2>4, Answers, Checks DEF nfsproc3_rename
  <2>5. CASE t.pc = "act"
      BY <1>2, <2>1, <2>5, Methods DEF nfsproc3_rename
  <2> QED
      BY <1>2, <2>1, <2>2, <2>3, <2>4, <2>5
<1>6. CASE op = "LINK"
  <2>1. handle_nfs(t) = nfsproc3_link(t) /\ Later(op) = {"look", "act"}
      BY <1>6 DEF handle_nfs, Later
  <2>2. CASE t.pc = "check" /\ Stale(t)
      BY <2>1, <2>2, Answers DEF nfsproc3_link
  <2>3. CASE t.pc = "check" /\ ~Stale(t)
    <3>1. IsOutcome(Goto(t, "look"), t)
        BY <2>1, <2>3, Goes DEF SameCall
    <3> QED
        BY <2>1, <2>3, <3>1, Answers DEF nfsproc3_link
  <2>4. CASE t.pc = "look"
      BY <2>1, <2>4, Checks DEF nfsproc3_link
  <2>5. CASE t.pc = "act"
      BY <1>2, <2>1, <2>5, Methods DEF nfsproc3_link
  <2> QED
      BY <1>2, <2>1, <2>2, <2>3, <2>4, <2>5
<1>7. CASE op = "SETATTR"
  <2>1. handle_nfs(t) = nfsproc3_setattr(t) /\ Later(op) = {"act"}
      BY <1>7 DEF handle_nfs, Later
  <2>2. CASE t.pc = "check" /\ Stale(t)
      BY <2>1, <2>2, Answers DEF nfsproc3_setattr
  <2>3. CASE t.pc = "check" /\ ~Stale(t)
    <3>1. IsTask(OutOfSync(t)) /\ SameCall(OutOfSync(t), t)
        BY DEF OutOfSync, IsTask, SameCall
    <3>2. IsOutcome(Goto(OutOfSync(t), "act"), t)
        BY <2>1, <2>3, <3>1, Goes
    <3> QED
        BY <2>1, <2>3, <3>2, Answers DEF nfsproc3_setattr
  <2>4. CASE t.pc = "act"
      BY <1>2, <2>1, <2>4, SetAttributes DEF nfsproc3_setattr
  <2> QED
      BY <1>2, <2>1, <2>2, <2>3, <2>4
<1>8. CASE op = "WRITE"
  <2>1. handle_nfs(t) = nfsproc3_write(t) /\ Later(op) = {"act", "clear"}
      BY <1>8 DEF handle_nfs, Later
  <2>2. CASE t.pc = "check"
      BY <2>1, <2>2, Checks DEF nfsproc3_write
  <2>3. CASE t.pc = "act"
    <3>1. ASSUME NEW saved PROVE IsOutcome(Goto([t EXCEPT !.saved = saved], "clear"), t)
      <4>1. IsTask([t EXCEPT !.saved = saved]) /\ SameCall([t EXCEPT !.saved = saved], t)
          BY DEF IsTask, SameCall
      <4> QED
          BY <1>2, <2>1, <2>3, <4>1, Goes
    <3>2. IsOutcome(write(t), t)
        BY <3>1, Reads DEF write
    <3> QED
        BY <2>1, <2>3, <3>2 DEF nfsproc3_write
  <2>4. CASE t.pc = "clear"
      BY <1>2, <2>1, <2>4, SetAttributes, Answers DEF nfsproc3_write
  <2> QED
      BY <1>2, <2>1, <2>2, <2>3, <2>4
<1>9. CASE op \in {"LOOKUP", "READ", "READLINK", "READDIRPLUS", "READDIR"}
  <2>1. ASSUME NEW i, NEW method, IsOutcome(method, t) PROVE IsOutcome(Looks(t, i, method), t)
      BY <1>1, <1>9, <2>1, Lookings
  <2>2. /\ IsOutcome(nfsproc3_lookup(t), t) /\ IsOutcome(nfsproc3_read(t), t)
        /\ IsOutcome(nfsproc3_readlink(t), t)
      BY <2>1, Reads DEF nfsproc3_lookup, nfsproc3_read, nfsproc3_readlink
  <2>3. IsOutcome(nfsproc3_readdirplus(t), t) /\ IsOutcome(nfsproc3_readdir(t), t)
      BY <2>1, Pages DEF nfsproc3_readdirplus, nfsproc3_readdir
  <2> QED
      BY <1>9, <2>2, <2>3 DEF handle_nfs
<1>10. CASE op \in {"GETATTR", "ACCESS", "FSSTAT", "FSINFO", "PATHCONF", "NULL", "MNT"}
  <2>1. IsOutcome(nfsproc3_getattr(t), t) /\ IsOutcome(nfsproc3_access(t), t)
      BY Answers, Reads DEF nfsproc3_getattr, nfsproc3_access
  <2>2. IsOutcome(nfsproc3_null(t), t) /\ IsOutcome(mountproc3_mnt(t), t)
      BY Answers DEF nfsproc3_null, mountproc3_mnt
  <2> QED
      BY <1>10, <2>1, <2>2, Reads DEF handle_nfs, nfsproc3_fsinfo, nfsproc3_pathconf
<1> QED
    BY <1>1, <1>3, <1>4, <1>5, <1>6, <1>7, <1>8, <1>9, <1>10 DEF Procedures

-----------------------------------------------------------------------------
(* The inductive invariant.  That a call has changed nothing, or once, is  *)
(* kept by the record of it in the tracker, and the record is found only   *)
(* by what came from the same port: so it says where all that is left of a *)
(* call comes from, and that one task at most has its record.              *)

Pending == wire \cup task

Recorded(key) == tracker[key] # "none"

(* The client of m, a message or a task, waits for what m is about. *)
Awaited(m) == call[m.c].waiting /\ call[m.c].x = m.x

IsCall(v) ==
    /\ v = [x |-> v.x, req |-> v.req, waiting |-> v.waiting]
    /\ v.x \in Nat /\ IsRequest(v.req) /\ v.req.gen \in Nat

IsPending(m) ==
    /\ m.c \in Client /\ m.x \in Nat /\ m.port \in Port
    /\ About(m) \in Calls /\ m.x <= call[m.c].x
    /\ IsRequest(m.req) /\ m.req.gen \in Nat

StateTyped ==
    /\ gen \in Nat
    /\ mounted \in [Client -> Nat]
    /\ conn \in [Client -> [port : Port, up : BOOLEAN]]
    /\ tracker \in [Key -> {"none", "running", "done"}]
    /\ past \in [Calls -> {Excused, 0, 1}]

CallsTyped ==
    /\ call = [c \in Client |-> call[c]]
    /\ \A c \in Client : IsCall(call[c]) /\ call[c].req.gen <= gen /\ mounted[c] <= gen
    /\ \A c \in Client : call[c].x <= Len(Uses[c]) /\ (call[c].waiting => call[c].x # 0)

PendingTyped ==
    /\ \A m \in wire : IsMessage(m) /\ IsPending(m)
    /\ \A t \in task : IsTask(t) /\ IsPending(t) /\ IsAt(t)

(* A task is recorded as running, and has its record to itself. *)
OneTask ==
    \A t \in task :
        /\ tracker[KeyOf(t)] = "running"
        /\ \A u \in task : KeyOf(u) = KeyOf(t) => u = t

(* All that is left of a call comes from one port, and while its client    *)
(* waits, that is the client's.                                            *)
OnePort ==
    \A m \in Pending : past[About(m)] # Excused =>
        /\ \A n \in Pending : About(n) = About(m) => n.port = m.port
        /\ Awaited(m) => m.port = conn[m.c].port

(* What is left of a call that has changed something can change nothing:   *)
(* it is refused as a repeat, or its handle is of an earlier start, or it  *)
(* is a task that has done its work.  So is what its client may yet repeat.*)
Settled ==
    /\ \A k \in Calls : past[k] = 1 => k[2] <= call[k[1]].x
    /\ \A m \in wire : past[About(m)] = 1 => m.req.gen < gen \/ Recorded(KeyOf(m))
    /\ \A t \in task : past[About(t)] = 1 => Stale(t) \/ t.pc = "done"
    /\ \A c \in Client : call[c].waiting /\ past[<<c, call[c].x>>] = 1 =>
          call[c].req.gen < gen \/ Recorded(<<c, call[c].x, conn[c].port>>)

OnceInv == StateTyped /\ CallsTyped /\ PendingTyped /\ OneTask /\ OnePort /\ Settled

-----------------------------------------------------------------------------
(* Initially *)

LEMMA CallsNumbered ==
    ASSUME NEW c \in Client, NEW x \in Nat \ {0}, x <= Len(Uses[c])
    PROVE  <<c, x>> \in Calls
<1>1. DOMAIN Uses[c] = 1..Len(Uses[c]) /\ Len(Uses[c]) \in Nat
    BY NfsAssumption
<1>2. x \in DOMAIN Uses[c]
    BY <1>1
<1> QED
    BY <1>2 DEF Calls

LEMMA CallsAre ==
    ASSUME NEW k \in Calls
    PROVE  k[1] \in Client /\ k[2] \in Nat /\ k = <<k[1], k[2]>>
<1>1. PICK c \in Client : k \in {c} \X DOMAIN Uses[c]
    BY DEF Calls
<1>2. DOMAIN Uses[c] = 1..Len(Uses[c])
    BY NfsAssumption
<1> QED
    BY <1>1, <1>2

LEMMA FirstRequest ==
    ASSUME NEW op \in Procedures, NEW d, NEW n
    PROVE  IsRequest(Request(op, d, n)) /\ Request(op, d, n).gen = 0 /\ Request(op, d, n).op = op
BY DEF IsRequest, Request

LEMMA InitOnceInv == Init => OnceInv
<1> SUFFICES ASSUME Init PROVE OnceInv
    OBVIOUS
<1>1. (CHOOSE p \in Port : TRUE) \in Port
    BY NfsAssumption
<1>2. StateTyped
  <2>1. conn \in [Client -> [port : Port, up : BOOLEAN]]
      BY <1>1 DEF Init
  <2> QED
      BY <2>1 DEF Init, StateTyped
<1>3. CallsTyped
  <2> PICK q : q = Request("NULL", NoIno, NameOrder[1])
      OBVIOUS
  <2>1. IsRequest(q) /\ q.gen = 0
    <3>1. "NULL" \in Procedures
        BY DEF Procedures
    <3> QED
        BY <3>1, FirstRequest
  <2>2. call = [c \in Client |-> [x |-> 0, req |-> q, waiting |-> FALSE]]
      BY DEF Init
  <2>3. call = [c \in Client |-> call[c]] /\ \A c \in Client : ~call[c].waiting
      BY <2>2
  <2>4. \A c \in Client : IsCall(call[c]) /\ call[c].req.gen = 0 /\ call[c].x = 0
    <3>1. \A c \in Client : call[c] = [x |-> 0, req |-> q, waiting |-> FALSE]
        BY <2>2
    <3>2. \A c \in Client : call[c].x = 0 /\ call[c].req = q /\ ~call[c].waiting
        BY <3>1
    <3> QED
        BY <2>1, <3>1, <3>2 DEF IsCall
  <2>5. \A c \in Client : 0 <= Len(Uses[c])
      BY NfsAssumption
  <2>6. gen = 0 /\ \A c \in Client : mounted[c] = 0
      BY DEF Init
  <2> QED
      BY <2>3, <2>4, <2>5, <2>6 DEF CallsTyped
<1>4. PendingTyped /\ OneTask
    BY DEF Init, PendingTyped, OneTask
<1>5. OnePort
    BY DEF Init, OnePort, Pending
<1>6. Settled
  <2>1. wire = {} /\ task = {} /\ \A k \in Calls : past[k] = 0
      BY DEF Init
  <2>2. \A c \in Client : ~call[c].waiting
      BY DEF Init
  <2> QED
      BY <2>1, <2>2 DEF Settled
<1> QED
    BY <1>2, <1>3, <1>4, <1>5, <1>6 DEF OnceInv

-----------------------------------------------------------------------------
(* What a client asks for *)

LEMMA SensibleRequests ==
    ASSUME NEW op \in Procedures, NEW r \in Sensible(op)
    PROVE  IsRequest(r)
<1>1. ASSUME NEW p \in Procedures, NEW d, NEW n PROVE IsRequest(Request(p, d, n))
    BY FirstRequest
<1>2. ASSUME NEW q, IsRequest(q), NEW v
      PROVE  /\ IsRequest([q EXCEPT !.ino = v]) /\ IsRequest([q EXCEPT !.set = v])
             /\ IsRequest([q EXCEPT !.insync = v]) /\ IsRequest([q EXCEPT !.to = v])
             /\ IsRequest([q EXCEPT !.toName = v])
    BY <1>2 DEF IsRequest
<1>3. ASSUME NEW p \in Procedures, NEW i PROVE IsRequest(On(p, i))
    BY <1>1, <1>2 DEF On
<1>4. CASE op = "SETATTR"
  <2>1. PICK i, s, b : r = Setting(i, s, b)
      BY <1>4 DEF Sensible, Lists, Settings
  <2>2. r = [[On("SETATTR", i) EXCEPT !.set = s] EXCEPT !.insync = b]
      BY <2>1 DEF Setting
  <2> QED
      BY <1>2, <1>3, <1>4, <2>2
<1>5. CASE op = "LINK"
  <2>1. PICK d, n, i : r = [Request("LINK", d, n) EXCEPT !.ino = i]
      BY <1>5 DEF Sensible, Lists, Linkings
  <2>2. IsRequest(Request("LINK", d, n))
      BY <1>1, <1>5
  <2> QED
      BY <1>2, <2>1, <2>2
<1>6. CASE op = "RENAME"
  <2>1. PICK d, n, e, m : r = Renaming(d, n, e, m)
      BY <1>6 DEF Sensible, Lists, Renamings
  <2>2. r = [[Request("RENAME", d, n) EXCEPT !.to = e] EXCEPT !.toName = m]
      BY <2>1 DEF Renaming
  <2> QED
      BY <1>1, <1>2, <1>6, <2>2
<1>7. CASE op \in {"WRITE", "GETATTR", "READ", "READLINK", "ACCESS", "FSSTAT", "FSINFO", "PATHCONF"}
  <2>1. \E i : r = On(op, i)
      BY <1>7 DEF Sensible, Lists
  <2> QED
      BY <1>3, <2>1
<1>8. CASE op \in {"MNT", "NULL"}
    BY <1>1, <1>8 DEF Sensible, Lists
<1>9. CASE Lists(op)
    BY <1>1, <1>9 DEF Sensible, Lists
<1>10. CASE op \in {"MKDIR", "MKNOD", "SYMLINK", "CREATE UNCHECKED", "CREATE GUARDED",
                    "CREATE EXCLUSIVE", "REMOVE", "LOOKUP"}
  <2>1. \E d, n : r = Request(op, d, n)
      BY <1>10 DEF Sensible, Lists
  <2> QED
      BY <1>1, <2>1
<1> QED
    BY <1>4, <1>5, <1>6, <1>7, <1>8, <1>9, <1>10 DEF Procedures, Lists

LEMMA AskedRequests ==
    ASSUME CallsTyped, NEW c \in Client, call[c].x < Len(Uses[c]), NEW r \in Asked(c)
    PROVE  IsRequest(r)
<1>1. CASE mounted[c] < gen
    BY <1>1, SensibleRequests DEF Asked, Procedures
<1>2. CASE ~(mounted[c] < gen)
  <2>1. PICK op \in Uses[c][call[c].x + 1] :
            r \in (IF Lists(op) /\ ~list[c].done THEN {Continued(c, op)} ELSE Sensible(op))
      BY <1>2 DEF Asked
  <2>2. op \in Procedures
    <3>1. Uses[c] \in Seq(SUBSET Procedures) /\ call[c].x + 1 \in 1..Len(Uses[c])
        BY NfsAssumption DEF CallsTyped, IsCall
    <3> QED
        BY <3>1
  <2>3. IsRequest(Continued(c, op))
    <3> DEFINE q == Request(op, list[c].dir, Last(list[c].got))
    <3>1. IsRequest(q)
        BY <2>2, FirstRequest
    <3>2. Continued(c, op) = [q EXCEPT !.ino = list[c].cookie]
        BY DEF Continued
    <3> QED
        BY <3>1, <3>2 DEF IsRequest
  <2> QED
      BY <2>1, <2>2, <2>3, SensibleRequests
<1> QED
    BY <1>1, <1>2

-----------------------------------------------------------------------------
(* The client's steps *)

(* A record belongs to one call and one port. *)
LEMMA KeyOfPending ==
    ASSUME NEW m, m.c \in Client, m.port \in Port, About(m) \in Calls
    PROVE  /\ KeyOf(m) \in Key
           /\ \A n : KeyOf(n) = KeyOf(m) <=> About(n) = About(m) /\ n.port = m.port
BY DEF KeyOf, About, Key

LEMMA KeyOfCall ==
    ASSUME NEW c, NEW x, <<c, x>> \in Calls, NEW p \in Port
    PROVE  <<c, x, p>> \in Key
<1>1. <<<<c, x>>[1], <<c, x>>[2], p>> \in Key
    BY DEF Key
<1> QED
    BY <1>1

LEMMA LastCall ==
    ASSUME CallsTyped, NEW c \in Client, call[c].x # 0
    PROVE  <<c, call[c].x>> \in Calls
BY CallsNumbered DEF CallsTyped, IsCall

(* A message of call v of client c. *)
MessageOf(c, v, port) == [c |-> c, x |-> v.x, port |-> port, open |-> TRUE, req |-> v.req]

LEMMA SendOnce ==
    ASSUME OnceInv, NEW c \in Client, Send(c)
    PROVE  OnceInv'
<1>1. PICK r \in Asked(c) :
          call' = [call EXCEPT ![c] = [x |-> call[c].x + 1, waiting |-> TRUE,
                                       req |-> [r EXCEPT !.gen = mounted[c]]]]
    BY DEF Send
<1>2. PICK v : v = [x |-> call[c].x + 1, waiting |-> TRUE, req |-> [r EXCEPT !.gen = mounted[c]]]
    OBVIOUS
<1>3. PICK m : m = MessageOf(c, v, conn[c].port)
    OBVIOUS
<1>4. /\ ~call[c].waiting /\ call[c].x < Len(Uses[c]) /\ call[c].x \in Nat /\ mounted[c] \in Nat
      /\ mounted[c] <= gen /\ gen \in Nat /\ conn[c].port \in Port
    BY DEF OnceInv, StateTyped, CallsTyped, IsCall, Send
<1>5. IsCall(v) /\ v.req.gen = mounted[c] /\ v.x = call[c].x + 1 /\ v.waiting
  <2>1. IsRequest(r)
      BY <1>4, AskedRequests DEF OnceInv
  <2>2. IsRequest([r EXCEPT !.gen = mounted[c]]) /\ [r EXCEPT !.gen = mounted[c]].gen = mounted[c]
      BY <2>1 DEF IsRequest
  <2>3. PICK q : q = [r EXCEPT !.gen = mounted[c]]
      OBVIOUS
  <2>4. v = [x |-> call[c].x + 1, waiting |-> TRUE, req |-> q]
      BY <1>2, <2>3
  <2>5. v.x = call[c].x + 1 /\ v.req = q /\ v.waiting
      BY <2>4
  <2>6. v = [x |-> v.x, req |-> v.req, waiting |-> v.waiting]
      BY <2>4
  <2>7. v.x \in Nat /\ IsRequest(v.req) /\ v.req.gen = mounted[c]
      BY <1>4, <2>2, <2>3, <2>5
  <2> QED
      BY <1>4, <2>5, <2>6, <2>7 DEF IsCall
<1>6. /\ call' = [call EXCEPT ![c] = v] /\ call'[c] = v
      /\ \A b \in Client : b # c => call'[b] = call[b]
    BY <1>1, <1>2 DEF OnceInv, CallsTyped
<1>7. /\ IsMessage(m) /\ m.c = c /\ m.x = v.x /\ m.port = conn[c].port /\ m.req = v.req
      /\ wire' = wire \cup {m}
    BY <1>3, <1>6 DEF MessageOf, IsMessage, Send, Message
<1>8. UNCHANGED <<gen, tracker, task, conn, mounted, past>>
    BY DEF Send, server
<1>9. About(m) \in Calls /\ About(m) = <<c, v.x>>
    BY <1>4, <1>5, <1>7, CallsNumbered DEF About
<1>10. \A n \in Pending : n.c \in Client /\ n.x \in Nat /\ n.x <= call[n.c].x /\ About(n) # About(m)
  <2>1. \A n \in Pending : n.c \in Client /\ n.x \in Nat /\ n.x <= call[n.c].x
      BY DEF OnceInv, PendingTyped, IsPending, Pending
  <2>2. \A n \in Pending : ~(n.c = c /\ n.x = v.x)
      BY <1>4, <1>5, <2>1
  <2> QED
      BY <1>9, <2>1, <2>2 DEF About
<1>11. past[About(m)] # 1
    BY <1>4, <1>5, <1>9 DEF OnceInv, Settled
<1>12. \A b \in Client : call[b].x <= call'[b].x /\ call[b].x \in Nat /\ call'[b].x \in Nat
    BY <1>4, <1>5, <1>6 DEF OnceInv, CallsTyped, IsCall
<1>13. StateTyped'
    BY <1>8 DEF OnceInv, StateTyped
<1>14. CallsTyped'
    BY <1>4, <1>5, <1>6, <1>8 DEF OnceInv, CallsTyped, IsCall
<1>15. PendingTyped'
  <2>1. IsPending(m)'
      BY <1>4, <1>5, <1>6, <1>7, <1>9 DEF IsPending, IsCall
  <2>2. \A n \in wire \cup task : IsPending(n)'
      BY <1>10, <1>12 DEF OnceInv, PendingTyped, IsPending
  <2>3. \A t \in task : IsAt(t)'
      BY <1>8 DEF OnceInv, PendingTyped, IsAt, Stale
  <2> QED
      BY <1>7, <1>8, <2>1, <2>2, <2>3 DEF OnceInv, PendingTyped
<1>16. OneTask'
    BY <1>8 DEF OnceInv, OneTask
<1>17. OnePort'
  <2>1. Pending' = Pending \cup {m}
      BY <1>7, <1>8 DEF Pending
  <2>2. \A n \in Pending : Awaited(n)' => Awaited(n)
      BY <1>4, <1>5, <1>6, <1>10 DEF Awaited
  <2> QED
      BY <1>7, <1>8, <1>10, <2>1, <2>2 DEF OnceInv, OnePort
<1>18. Settled'
  <2>2. \A k \in Calls : (past[k] = 1 => k[2] <= call[k[1]].x)'
    <3>1. \A k \in Calls : past'[k] = 1 => k[2] <= call[k[1]].x
        BY <1>8 DEF OnceInv, Settled
    <3> QED
        BY <1>12, <3>1, CallsAre
  <2>3. \A n \in wire' : (past[About(n)] = 1 => n.req.gen < gen \/ Recorded(KeyOf(n)))'
      BY <1>7, <1>8, <1>11 DEF OnceInv, Settled, Recorded
  <2>4. \A b \in Client : (call[b].waiting /\ past[<<b, call[b].x>>] = 1 =>
            call[b].req.gen < gen \/ Recorded(<<b, call[b].x, conn[b].port>>))'
      BY <1>6, <1>8, <1>9, <1>11 DEF OnceInv, Settled, Recorded
  <2> QED
      BY <1>8, <2>2, <2>3, <2>4 DEF OnceInv, Settled, Stale
<1> QED
    BY <1>13, <1>14, <1>15, <1>16, <1>17, <1>18 DEF OnceInv

LEMMA RetransmitOnce ==
    ASSUME OnceInv, NEW c \in Client, Retransmit(c)
    PROVE  OnceInv'
<1>1. PICK m : m = MessageOf(c, call[c], conn[c].port)
    OBVIOUS
<1>2. UNCHANGED <<call, gen, tracker, task, conn, mounted, past>>
    BY DEF Retransmit, server
<1>3. /\ IsMessage(m) /\ m.c = c /\ m.x = call[c].x /\ m.port = conn[c].port /\ m.req = call[c].req
      /\ wire' = wire \cup {m}
    BY <1>1, <1>2 DEF MessageOf, IsMessage, Retransmit, Message
<1>4. call[c].waiting /\ call[c].x # 0 /\ call[c].x \in Nat /\ conn[c].port \in Port
    BY DEF OnceInv, StateTyped, CallsTyped, IsCall, Retransmit
<1>5. About(m) \in Calls /\ About(m) = <<c, call[c].x>> /\ KeyOf(m) = <<c, call[c].x, conn[c].port>>
    BY <1>3, <1>4, LastCall DEF OnceInv, About, KeyOf
<1>6. IsPending(m)
    BY <1>3, <1>4, <1>5 DEF OnceInv, CallsTyped, IsCall, IsPending
<1>7. StateTyped' /\ CallsTyped' /\ OneTask'
    BY <1>2 DEF OnceInv, StateTyped, CallsTyped, OneTask
<1>8. PendingTyped'
    BY <1>2, <1>3, <1>6 DEF OnceInv, PendingTyped, IsPending, IsAt, Stale
<1>9. OnePort'
  <2>1. Pending' = Pending \cup {m}
      BY <1>2, <1>3 DEF Pending
  <2>2. \A n \in Pending : About(n) = About(m) => n.c = c /\ Awaited(n)
      BY <1>3, <1>4 DEF About, Awaited
  <2>3. \A n \in Pending : past[About(m)] # Excused /\ About(n) = About(m) => n.port = m.port
      BY <1>3, <2>2 DEF OnceInv, OnePort
  <2> QED
      BY <1>2, <1>3, <2>1, <2>3 DEF OnceInv, OnePort, Awaited
<1>10. Settled'
  <2>1. past[About(m)] = 1 => m.req.gen < gen \/ Recorded(KeyOf(m))
      BY <1>3, <1>4, <1>5 DEF OnceInv, Settled
  <2> QED
      BY <1>2, <1>3, <2>1 DEF OnceInv, Settled, Stale, Recorded
<1> QED
    BY <1>7, <1>8, <1>9, <1>10 DEF OnceInv

LEMMA BreakOnce ==
    ASSUME OnceInv, NEW c \in Client, Break(c)
    PROVE  OnceInv'
<1>1. PICK kept \in SUBSET {m \in wire : m.c = c} :
          wire' = {m \in wire : m.c # c} \cup {[m EXCEPT !.open = FALSE] : m \in kept}
    BY DEF Break
<1>2. task' = {IF t.c = c THEN [t EXCEPT !.open = FALSE] ELSE t : t \in task}
    BY DEF Break
<1>3. UNCHANGED <<call, gen, tracker, mounted, past>>
    BY DEF Break
<1>4. /\ conn' \in [Client -> [port : Port, up : BOOLEAN]]
      /\ \A b \in Client : conn'[b].port = conn[b].port
    BY DEF Break, OnceInv, StateTyped
<1>5. ASSUME NEW m \in wire'
      PROVE  IsMessage(m) /\ \E n \in wire : SameCall(m, n)
  <2>1. CASE m \in wire
      BY <2>1 DEF OnceInv, PendingTyped, SameCall
  <2>2. ASSUME NEW n \in wire, m = [n EXCEPT !.open = FALSE]
        PROVE  IsMessage(m) /\ SameCall(m, n)
    <3>1. IsMessage(n)
        BY DEF OnceInv, PendingTyped
    <3>2. IsMessage(m)
        BY <2>2, <3>1 DEF IsMessage
    <3>3. SameCall(m, n)
        BY <2>2, <3>1 DEF IsMessage, SameCall
    <3> QED
        BY <3>2, <3>3
  <2> QED
      BY <1>1, <2>1, <2>2
<1>6. ASSUME NEW t \in task'
      PROVE  \E u \in task : /\ IsTask(t) /\ SameCall(t, u) /\ t.pc = u.pc
                             /\ t = IF u.c = c THEN [u EXCEPT !.open = FALSE] ELSE u
  <2>1. PICK u \in task : t = IF u.c = c THEN [u EXCEPT !.open = FALSE] ELSE u
      BY <1>2
  <2>2. IsTask(u)
      BY DEF OnceInv, PendingTyped
  <2>3. IsTask(t) /\ SameCall(t, u) /\ t.pc = u.pc
      BY <2>1, <2>2 DEF IsTask, SameCall
  <2> QED
      BY <2>1, <2>3
<1>7. \A m \in Pending' : \E n \in Pending : SameCall(m, n)
    BY <1>5, <1>6 DEF Pending
<1>8. \A m, n : SameCall(m, n) => About(m) = About(n) /\ KeyOf(m) = KeyOf(n) /\ m.c = n.c /\ m.x = n.x
                                  /\ m.port = n.port /\ m.req = n.req
    BY DEF SameCall, About, KeyOf
<1>9. StateTyped' /\ CallsTyped'
    BY <1>3, <1>4 DEF OnceInv, StateTyped, CallsTyped
<1>10. PendingTyped'
  <2>1. \A m, n : SameCall(m, n) /\ IsPending(n) => IsPending(m)'
      BY <1>3, <1>8 DEF IsPending
  <2>2. \A t, u : SameCall(t, u) /\ t.pc = u.pc /\ IsAt(u) => IsAt(t)'
      BY <1>3, <1>8 DEF IsAt, Stale
  <2> QED
      BY <1>5, <1>6, <2>1, <2>2 DEF OnceInv, PendingTyped
<1>11. OneTask'
  <2>1. \A t \in task' : tracker[KeyOf(t)] = "running"
      BY <1>6, <1>8 DEF OnceInv, OneTask
  <2>2. ASSUME NEW t \in task', NEW u \in task', KeyOf(u) = KeyOf(t) PROVE u = t
    <3>1. PICK v \in task : SameCall(t, v) /\ t = IF v.c = c THEN [v EXCEPT !.open = FALSE] ELSE v
        BY <1>6
    <3>2. PICK w \in task : SameCall(u, w) /\ u = IF w.c = c THEN [w EXCEPT !.open = FALSE] ELSE w
        BY <1>6
    <3>3. KeyOf(v) = KeyOf(w)
        BY <1>8, <2>2, <3>1, <3>2
    <3>4. v = w
        BY <3>3 DEF OnceInv, OneTask
    <3> QED
        BY <3>1, <3>2, <3>4
  <2> QED
      BY <1>3, <2>1, <2>2 DEF OneTask
<1>12. OnePort'
  <2> SUFFICES ASSUME NEW m \in Pending', past[About(m)] # Excused
               PROVE  /\ \A n \in Pending' : About(n) = About(m) => n.port = m.port
                      /\ Awaited(m) => m.port = conn[m.c].port /\ m.c \in Client
      BY <1>3, <1>4 DEF OnePort, Awaited
  <2>1. PICK u \in Pending : SameCall(m, u)
      BY <1>7
  <2>2. u.c \in Client
      BY DEF OnceInv, PendingTyped, IsPending, Pending
  <2>3. past[About(u)] # Excused
      BY <1>8, <2>1
  <2>4. Awaited(m) => m.port = conn[m.c].port /\ m.c \in Client
      BY <1>8, <2>1, <2>2, <2>3 DEF OnceInv, OnePort, Awaited
  <2>5. ASSUME NEW n \in Pending', About(n) = About(m) PROVE n.port = m.port
    <3>1. PICK w \in Pending : SameCall(n, w)
        BY <1>7
    <3>2. w.port = u.port
        BY <1>8, <2>1, <2>3, <2>5, <3>1 DEF OnceInv, OnePort
    <3> QED
        BY <1>8, <2>1, <3>1, <3>2
  <2> QED
      BY <2>4, <2>5
<1>13. Settled'
  <2>1. \A m \in wire' : past[About(m)] = 1 => m.req.gen < gen \/ Recorded(KeyOf(m))
      BY <1>5, <1>8 DEF OnceInv, Settled
  <2>2. \A t \in task' : past[About(t)] = 1 => Stale(t) \/ t.pc = "done"
      BY <1>6, <1>8 DEF OnceInv, Settled, Stale
  <2> QED
      BY <1>3, <1>4, <2>1, <2>2 DEF OnceInv, Settled, Stale, Recorded
<1> QED
    BY <1>9, <1>10, <1>11, <1>12, <1>13 DEF OnceInv

LEMMA ReconnectOnce ==
    ASSUME OnceInv, NEW c \in Client, Reconnect(c)
    PROVE  OnceInv'
<1>1. PICK p \in Port :
          /\ conn' = [conn EXCEPT ![c] = [port |-> p, up |-> TRUE]]
          /\ past' = IF call[c].waiting /\ p # conn[c].port
                     THEN [past EXCEPT ![<<c, call[c].x>>] = Excused] ELSE past
    BY DEF Reconnect
<1>2. UNCHANGED <<call, gen, tracker, mounted, wire, task>>
    BY DEF Reconnect, server
<1>3. /\ conn' \in [Client -> [port : Port, up : BOOLEAN]]
      /\ conn'[c].port = p /\ \A b \in Client : b # c => conn'[b].port = conn[b].port
    BY <1>1 DEF OnceInv, StateTyped
<1>4. call[c].waiting => <<c, call[c].x>> \in Calls
    BY LastCall DEF OnceInv, CallsTyped
<1>5. past' \in [Calls -> {Excused, 0, 1}]
    BY <1>1 DEF OnceInv, StateTyped
<1>6. ASSUME NEW k \in Calls, past'[k] # Excused
      PROVE  /\ past'[k] = past[k]
             /\ call[k[1]].waiting /\ call[k[1]].x = k[2] => conn'[k[1]].port = conn[k[1]].port
  <2>1. k[1] \in Client /\ k = <<k[1], k[2]>>
      BY CallsAre
  <2>2. past'[k] = past[k]
      BY <1>1, <1>4, <1>6 DEF OnceInv, StateTyped
  <2>3. ASSUME k[1] = c, call[c].waiting, call[c].x = k[2] PROVE p = conn[c].port
      BY <1>1, <1>4, <1>6, <2>1, <2>3 DEF OnceInv, StateTyped
  <2> QED
      BY <1>3, <2>1, <2>2, <2>3
<1>7. Excused # 1
    BY DEF Excused
<1>8. StateTyped' /\ CallsTyped' /\ PendingTyped' /\ OneTask'
    BY <1>2, <1>3, <1>5 DEF OnceInv, StateTyped, CallsTyped, PendingTyped, OneTask, IsPending, IsAt, Stale
<1>9. OnePort'
  <2>1. \A m \in Pending : About(m) \in Calls /\ About(m)[1] = m.c /\ About(m)[2] = m.x
      BY DEF OnceInv, PendingTyped, IsPending, Pending, About
  <2>2. Pending' = Pending
      BY <1>2 DEF Pending
  <2> QED
      BY <1>2, <1>6, <2>1, <2>2 DEF OnceInv, OnePort, Awaited
<1>10. Settled'
  <2>1. \A m \in Pending : About(m) \in Calls
      BY DEF OnceInv, PendingTyped, IsPending, Pending
  <2>2. \A k \in Calls : past'[k] = 1 => past[k] = 1
      BY <1>6, <1>7
  <2>3. \A b \in Client : call[b].waiting /\ past'[<<b, call[b].x>>] = 1 =>
            call[b].req.gen < gen \/ Recorded(<<b, call[b].x, conn'[b].port>>)
    <3>1. \A b \in Client : call[b].waiting => <<b, call[b].x>> \in Calls
        BY LastCall DEF OnceInv, CallsTyped
    <3>2. \A b \in Client : call[b].waiting /\ past'[<<b, call[b].x>>] = 1 => conn'[b].port = conn[b].port
        BY <1>6, <1>7, <3>1
    <3> QED
        BY <2>2, <3>1, <3>2 DEF OnceInv, Settled
  <2>4. \A m \in wire : past'[About(m)] = 1 => m.req.gen < gen \/ Recorded(KeyOf(m))
      BY <2>1, <2>2 DEF OnceInv, Settled, Pending
  <2>5. \A t \in task : past'[About(t)] = 1 => Stale(t) \/ t.pc = "done"
      BY <2>1, <2>2 DEF OnceInv, Settled, Pending
  <2> QED
      BY <1>2, <2>2, <2>3, <2>4, <2>5 DEF OnceInv, Settled, Stale, Recorded
<1> QED
    BY <1>8, <1>9, <1>10 DEF OnceInv

-----------------------------------------------------------------------------
(* The server's steps *)

(* The task that handles message m. *)
TaskOf(m) == [c |-> m.c, x |-> m.x, port |-> m.port, open |-> m.open, req |-> m.req,
              pc |-> "check", status |-> "OK", saved |-> {}, page |-> NoPage]

LEMMA ReceiveOnce ==
    ASSUME OnceInv, NEW m \in wire, Receive(m)
    PROVE  OnceInv'
<1>1. UNCHANGED <<call, gen, conn, mounted, past>> /\ wire' = wire \ {m}
    BY DEF Receive
<1>2. IsMessage(m) /\ IsPending(m)
    BY DEF OnceInv, PendingTyped
<1>3. CASE tracker[KeyOf(m)] # "none"
  <2>1. UNCHANGED <<tracker, task>>
      BY <1>3 DEF Receive
  <2>2. StateTyped' /\ CallsTyped' /\ PendingTyped' /\ OneTask'
      BY <1>1, <2>1 DEF OnceInv, StateTyped, CallsTyped, PendingTyped, OneTask, IsPending, IsAt, Stale
  <2>3. OnePort'
    <3>1. Pending' \subseteq Pending
        BY <1>1, <2>1 DEF Pending
    <3> QED
        BY <1>1, <3>1 DEF OnceInv, OnePort, Awaited
  <2>4. Settled'
      BY <1>1, <2>1 DEF OnceInv, Settled, Stale, Recorded
  <2> QED
      BY <2>2, <2>3, <2>4 DEF OnceInv
<1>4. CASE tracker[KeyOf(m)] = "none"
  <2>1. PICK t : t = TaskOf(m)
      OBVIOUS
  <2>2. task' = task \cup {t} /\ tracker' = [tracker EXCEPT ![KeyOf(m)] = "running"]
      BY <1>4, <2>1 DEF Receive, TaskOf
  <2>3. IsTask(t) /\ SameCall(t, m) /\ t.pc = "check"
      BY <2>1 DEF TaskOf, IsTask, SameCall
  <2>4. KeyOf(t) = KeyOf(m) /\ About(t) = About(m) /\ KeyOf(m) \in Key /\ t.port = m.port
        /\ t.req = m.req /\ t.c = m.c /\ t.x = m.x
      BY <1>2, <2>3, KeyOfPending DEF IsPending, SameCall, KeyOf, About
  <2>5. tracker'[KeyOf(t)] = "running" /\ \A key \in Key : key # KeyOf(t) => tracker'[key] = tracker[key]
      BY <2>2, <2>4 DEF OnceInv, StateTyped
  <2>6. \A n \in Pending : KeyOf(n) \in Key
      BY KeyOfPending DEF OnceInv, PendingTyped, IsPending, Pending
  <2>7. \A u \in task : KeyOf(u) # KeyOf(t)
      BY <1>4, <2>4 DEF OnceInv, OneTask
  <2>8. StateTyped' /\ CallsTyped'
      BY <1>1, <2>2 DEF OnceInv, StateTyped, CallsTyped
  <2>9. PendingTyped'
    <3>1. IsPending(t)
        BY <1>2, <2>4 DEF IsPending
    <3> QED
        BY <1>1, <2>2, <2>3, <3>1 DEF OnceInv, PendingTyped, IsPending, IsAt, Stale
  <2>10. OneTask'
      BY <2>2, <2>5, <2>6, <2>7 DEF OnceInv, OneTask, Pending
  <2>11. OnePort'
    <3>1. \A n \in Pending' : \E w \in Pending : About(n) = About(w) /\ n.port = w.port /\ n.c = w.c /\ n.x = w.x
        BY <1>1, <2>2, <2>4 DEF Pending
    <3> SUFFICES ASSUME NEW n \in Pending', past[About(n)] # Excused
                 PROVE  /\ \A w \in Pending' : About(w) = About(n) => w.port = n.port
                        /\ Awaited(n) => n.port = conn[n.c].port
        BY <1>1 DEF OnePort, Awaited
    <3>2. PICK u \in Pending : About(n) = About(u) /\ n.port = u.port /\ n.c = u.c /\ n.x = u.x
        BY <3>1
    <3>3. Awaited(n) => n.port = conn[n.c].port
        BY <3>2 DEF OnceInv, OnePort, Awaited
    <3>4. ASSUME NEW w \in Pending', About(w) = About(n) PROVE w.port = n.port
      <4>1. PICK v \in Pending : About(w) = About(v) /\ w.port = v.port
          BY <3>1
      <4> QED
          BY <3>2, <3>4, <4>1 DEF OnceInv, OnePort
    <3> QED
        BY <3>3, <3>4
  <2>12. Settled'
    <3>1. \A key \in Key : Recorded(key) => Recorded(key)'
        BY <2>5 DEF Recorded
    <3>2. past[About(t)] = 1 => Stale(t)
        BY <1>4, <2>4 DEF OnceInv, Settled, Stale, Recorded
    <3>3. \A b \in Client : call[b].waiting => <<b, call[b].x, conn[b].port>> \in Key
      <4>1. \A b \in Client : call[b].waiting => <<b, call[b].x>> \in Calls
          BY LastCall DEF OnceInv, CallsTyped
      <4>2. \A b \in Client : conn[b].port \in Port
          BY DEF OnceInv, StateTyped
      <4> QED
          BY <4>1, <4>2, KeyOfCall
    <3>4. \A n \in wire' : (past[About(n)] = 1 => n.req.gen < gen \/ Recorded(KeyOf(n)))'
        BY <1>1, <2>6, <3>1 DEF OnceInv, Settled, Pending
    <3>5. \A u \in task' : (past[About(u)] = 1 => Stale(u) \/ u.pc = "done")'
        BY <1>1, <2>2, <3>2 DEF OnceInv, Settled, Stale
    <3>6. \A b \in Client : (call[b].waiting /\ past[<<b, call[b].x>>] = 1 =>
            call[b].req.gen < gen \/ Recorded(<<b, call[b].x, conn[b].port>>))'
        BY <1>1, <3>1, <3>3 DEF OnceInv, Settled
    <3> QED
        BY <1>1, <3>4, <3>5, <3>6 DEF OnceInv, Settled
  <2> QED
      BY <2>8, <2>9, <2>10, <2>11, <2>12 DEF OnceInv
<1> QED
    BY <1>3, <1>4

LEMMA StepOnce ==
    ASSUME OnceInv, NEW t \in task, Step(t)
    PROVE  OnceInv'
<1>1. PICK o : o = handle_nfs(t)
    OBVIOUS
<1>2. db' = o.db /\ mode' = o.mode /\ task' = (task \ {t}) \cup {o.task} /\ t.pc # "done"
    BY <1>1 DEF Step
<1>3. UNCHANGED <<gen, conn, call, mounted, wire, tracker>>
    BY DEF Step
<1>4. IsTask(t) /\ IsPending(t) /\ IsAt(t) /\ IsRequest(t.req) /\ About(t) \in Calls
    BY DEF OnceInv, PendingTyped, IsPending
<1>5. IsOutcome(o, t)
    BY <1>1, <1>2, <1>4, Procedure
<1>6. PICK u : u = o.task
    OBVIOUS
<1>7. IsTask(u) /\ SameCall(u, t) /\ (u.pc = "done" \/ (u.pc \in Later(t.req.op) /\ ~Stale(t)))
    BY <1>5, <1>6 DEF IsOutcome
<1>8. /\ About(u) = About(t) /\ KeyOf(u) = KeyOf(t) /\ u.c = t.c /\ u.x = t.x /\ u.port = t.port
      /\ u.req = t.req
    BY <1>7 DEF SameCall, About, KeyOf
<1>9. Changed(t) => u.pc = "done" /\ ~Stale(t)
    BY <1>2, <1>5, <1>6 DEF Changed, IsOutcome
<1>10. Changed(t) => past[About(t)] # 1
    BY <1>2, <1>9 DEF OnceInv, Settled
<1>11. past' = IF Changed(t) /\ past[About(t)] # Excused THEN [past EXCEPT ![About(t)] = @ + 1] ELSE past
    BY DEF Step, About
<1>12. /\ past' \in [Calls -> {Excused, 0, 1}]
       /\ \A k \in Calls : k # About(t) => past'[k] = past[k]
       /\ past'[About(t)] = Excused <=> past[About(t)] = Excused
       /\ past'[About(t)] = 1 => past[About(t)] = 1 \/ Changed(t)
    <2>1. Excused = -1 /\ past[About(t)] \in {Excused, 0, 1} /\ past \in [Calls -> {Excused, 0, 1}]
        BY <1>4 DEF OnceInv, StateTyped, Excused
    <2>2. CASE Changed(t) /\ past[About(t)] # Excused
      <3>1. past[About(t)] = 0
          BY <1>10, <2>1, <2>2
      <3>2. past' = [past EXCEPT ![About(t)] = past[About(t)] + 1]
          BY <1>11, <2>2
      <3>3. past' = [past EXCEPT ![About(t)] = 1]
          BY <3>1, <3>2
      <3> QED
          BY <1>4, <2>1, <2>2, <3>1, <3>3
    <2>3. CASE ~(Changed(t) /\ past[About(t)] # Excused)
      <3>1. past' = past
          BY <1>11, <2>3
      <3> QED
          BY <2>1, <3>1
    <2> QED
        BY <2>2, <2>3
<1>13. \A n \in Pending : About(n) \in Calls /\ n.c \in Client /\ n.port \in Port
    BY DEF OnceInv, PendingTyped, IsPending, Pending
<1>14. StateTyped' /\ CallsTyped'
    BY <1>3, <1>12 DEF OnceInv, StateTyped, CallsTyped
<1>15. PendingTyped'
  <2>1. IsPending(u) /\ IsAt(u)
      BY <1>4, <1>7, <1>8 DEF IsPending, IsAt, Stale
  <2> QED
      BY <1>2, <1>3, <1>6, <1>7, <2>1 DEF OnceInv, PendingTyped, IsPending, IsAt, Stale
<1>16. OneTask'
    BY <1>2, <1>3, <1>6, <1>8 DEF OnceInv, OneTask
<1>17. OnePort'
  <2>1. \A n \in Pending' : \E w \in Pending : About(n) = About(w) /\ n.port = w.port /\ n.c = w.c /\ n.x = w.x
      BY <1>2, <1>3, <1>6, <1>8 DEF Pending
  <2> SUFFICES ASSUME NEW n \in Pending', past'[About(n)] # Excused
               PROVE  /\ \A w \in Pending' : About(w) = About(n) => w.port = n.port
                      /\ Awaited(n) => n.port = conn[n.c].port
      BY <1>3 DEF OnePort, Awaited
  <2>2. PICK v \in Pending : About(n) = About(v) /\ n.port = v.port /\ n.c = v.c /\ n.x = v.x
      BY <2>1
  <2>3. past[About(v)] # Excused
      BY <1>12, <1>13, <2>2
  <2>4. Awaited(n) => n.port = conn[n.c].port
      BY <2>2, <2>3 DEF OnceInv, OnePort, Awaited
  <2>5. ASSUME NEW w \in Pending', About(w) = About(n) PROVE w.port = n.port
    <3>1. PICK z \in Pending : About(w) = About(z) /\ w.port = z.port
        BY <2>1
    <3> QED
        BY <2>2, <2>3, <2>5, <3>1 DEF OnceInv, OnePort
  <2> QED
      BY <2>4, <2>5
<1>18. Settled'
  <2>1. CASE Changed(t) /\ past'[About(t)] = 1
    <3>1. past[About(t)] # Excused /\ tracker[KeyOf(t)] = "running" /\ t \in Pending
        BY <1>12, <2>1 DEF OnceInv, OneTask, Pending, Excused
    <3>2. \A n \in Pending : About(n) = About(t) => n.port = t.port /\ KeyOf(n) = KeyOf(t)
        BY <3>1 DEF OnceInv, OnePort, KeyOf, About
    <3>3. \A k \in Calls : past'[k] = 1 => k[2] <= call[k[1]].x
      <4>1. t.x <= call[t.c].x /\ About(t)[1] = t.c /\ About(t)[2] = t.x
          BY <1>4 DEF IsPending, About
      <4> QED
          BY <1>12, <4>1 DEF OnceInv, Settled
    <3>4. \A n \in wire : past'[About(n)] = 1 => n.req.gen < gen \/ Recorded(KeyOf(n))
        BY <1>12, <1>13, <3>1, <3>2 DEF OnceInv, Settled, Recorded, Pending
    <3>5. \A v \in task' : past'[About(v)] = 1 => Stale(v) \/ v.pc = "done"
      <4>1. \A v \in task : About(v) = About(t) => v = t
          BY <3>2 DEF OnceInv, OneTask, Pending
      <4>2. \A v \in task \ {t} : past'[About(v)] = past[About(v)]
          BY <1>12, <1>13, <4>1 DEF Pending
      <4> QED
          BY <1>2, <1>6, <1>9, <2>1, <4>2 DEF OnceInv, Settled
    <3>6. \A b \in Client : call[b].waiting /\ past'[<<b, call[b].x>>] = 1 =>
              call[b].req.gen < gen \/ Recorded(<<b, call[b].x, conn[b].port>>)
      <4> SUFFICES ASSUME NEW b \in Client, call[b].waiting, past'[<<b, call[b].x>>] = 1
                   PROVE  call[b].req.gen < gen \/ Recorded(<<b, call[b].x, conn[b].port>>)
          OBVIOUS
      <4>1. <<b, call[b].x>> \in Calls
          BY LastCall DEF OnceInv, CallsTyped
      <4>2. CASE <<b, call[b].x>> = About(t)
        <5>1. b = t.c /\ call[b].x = t.x /\ Awaited(t)
            BY <4>2 DEF About, Awaited
        <5>2. t.port = conn[b].port
            BY <3>1, <5>1 DEF OnceInv, OnePort
        <5> QED
            BY <3>1, <5>1, <5>2 DEF Recorded, KeyOf
      <4>3. CASE <<b, call[b].x>> # About(t)
          BY <1>12, <4>1, <4>3 DEF OnceInv, Settled
      <4> QED
          BY <4>2, <4>3
    <3> QED
        BY <1>3, <3>3, <3>4, <3>5, <3>6 DEF Settled, Stale, Recorded
  <2>2. CASE ~(Changed(t) /\ past'[About(t)] = 1)
    <3>1. \A k \in Calls : past'[k] = 1 => past[k] = 1
        BY <1>12, <2>2
    <3>2. \A v \in task' : past'[About(v)] = 1 => Stale(v) \/ v.pc = "done"
      <4>1. \A v \in task \ {t} : past'[About(v)] = 1 => Stale(v) \/ v.pc = "done"
          BY <1>13, <3>1 DEF OnceInv, Settled, Pending
      <4>2. past'[About(u)] = 1 => Stale(u)
          BY <1>2, <1>4, <1>8, <3>1 DEF OnceInv, Settled, Stale
      <4> QED
          BY <1>2, <1>6, <4>1, <4>2
    <3>3. \A n \in wire : past'[About(n)] = 1 => n.req.gen < gen \/ Recorded(KeyOf(n))
        BY <1>13, <3>1 DEF OnceInv, Settled, Pending
    <3>4. \A b \in Client : call[b].waiting => <<b, call[b].x>> \in Calls
        BY LastCall DEF OnceInv, CallsTyped
    <3> QED
        BY <1>3, <3>1, <3>2, <3>3, <3>4 DEF OnceInv, Settled, Stale, Recorded
  <2> QED
      BY <2>1, <2>2
<1> QED
    BY <1>14, <1>15, <1>16, <1>17, <1>18 DEF OnceInv

LEMMA FinishOnce ==
    ASSUME OnceInv, NEW t \in task, Finish(t)
    PROVE  OnceInv'
<1>1. /\ UNCHANGED <<gen, conn, wire, past>> /\ task' = task \ {t} /\ t.pc = "done"
      /\ tracker' = [tracker EXCEPT ![KeyOf(t)] = "done"]
    BY DEF Finish, Mark
<1>2. call' = call \/ call' = [call EXCEPT ![t.c].waiting = FALSE]
    BY DEF Finish
<1>3. mounted' = mounted \/ mounted' = [mounted EXCEPT ![t.c] = gen]
    BY DEF Finish
<1>4. t.c \in Client /\ KeyOf(t) \in Key
    BY KeyOfPending DEF OnceInv, PendingTyped, IsPending
<1>5. \A n \in Pending : KeyOf(n) \in Key
    BY KeyOfPending DEF OnceInv, PendingTyped, IsPending, Pending
<1>6. /\ \A b \in Client : /\ IsCall(call'[b]) /\ call'[b].x = call[b].x /\ call'[b].req = call[b].req
                           /\ call'[b].waiting => call[b].waiting
      /\ call' = [b \in Client |-> call'[b]]
  <2>1. \A b \in Client : IsCall(call[b])
      BY DEF OnceInv, CallsTyped
  <2>2. CASE call' = call
      BY <2>1, <2>2 DEF OnceInv, CallsTyped
  <2>3. CASE call' = [call EXCEPT ![t.c].waiting = FALSE]
    <3>1. PICK v : v = call[t.c]
        OBVIOUS
    <3>2. PICK w : w = [v EXCEPT !.waiting = FALSE]
        OBVIOUS
    <3>3. IsCall(w) /\ w.x = v.x /\ w.req = v.req /\ ~w.waiting
      <4>1. IsCall(v) /\ v = [x |-> v.x, req |-> v.req, waiting |-> v.waiting]
          BY <1>4, <2>1, <3>1 DEF IsCall
      <4>2. w = [x |-> v.x, req |-> v.req, waiting |-> FALSE]
          BY <3>2, <4>1
      <4>3. w.x = v.x /\ w.req = v.req /\ ~w.waiting
          BY <4>2
      <4>4. w = [x |-> w.x, req |-> w.req, waiting |-> w.waiting]
          BY <4>2
      <4> QED
          BY <4>1, <4>3, <4>4 DEF IsCall
    <3>4. call' = [call EXCEPT ![t.c] = w] /\ DOMAIN call = Client
        BY <2>3, <3>1, <3>2 DEF OnceInv, CallsTyped
    <3>5. call'[t.c] = w /\ \A b \in Client : b # t.c => call'[b] = call[b]
        BY <1>4, <3>4
    <3>6. call' = [b \in Client |-> call'[b]]
        BY <3>4
    <3> QED
        BY <2>1, <3>1, <3>3, <3>5, <3>6
  <2> QED
      BY <1>2, <2>2, <2>3
<1>7. StateTyped'
    BY <1>1, <1>3 DEF OnceInv, StateTyped
<1>8. CallsTyped'
  <2>1. \A b \in Client : mounted'[b] <= gen
    <3>1. gen \in Nat /\ \A b \in Client : mounted[b] \in Nat /\ mounted[b] <= gen
        BY DEF OnceInv, StateTyped, CallsTyped
    <3>2. \A b \in Client : mounted'[b] = mounted[b] \/ mounted'[b] = gen
        BY <1>3, <1>4 DEF OnceInv, StateTyped
    <3> QED
        BY <3>1, <3>2
  <2> QED
      BY <1>1, <1>6, <2>1 DEF OnceInv, CallsTyped
<1>9. PendingTyped'
    BY <1>1, <1>6 DEF OnceInv, PendingTyped, IsPending, IsAt, Stale
<1>10. OneTask'
  <2>1. \A u \in task' : KeyOf(u) # KeyOf(t) /\ KeyOf(u) \in Key
      BY <1>1, <1>5 DEF OnceInv, OneTask, Pending
  <2> QED
      BY <1>1, <1>4, <2>1 DEF OnceInv, OneTask, StateTyped
<1>11. OnePort'
  <2>1. Pending' \subseteq Pending
      BY <1>1 DEF Pending
  <2>2. \A n \in Pending : Awaited(n)' => Awaited(n)
      BY <1>6 DEF OnceInv, PendingTyped, IsPending, Awaited, Pending
  <2> QED
      BY <1>1, <2>1, <2>2 DEF OnceInv, OnePort
<1>12. Settled'
  <2>1. \A j \in Key : tracker[j] # "none" => tracker'[j] # "none"
      BY <1>1, <1>4 DEF OnceInv, StateTyped
  <2>2. \A k \in Calls : past[k] = 1 => k[2] <= call'[k[1]].x
      BY <1>6, CallsAre DEF OnceInv, Settled
  <2>3. \A n \in wire : past[About(n)] = 1 => n.req.gen < gen \/ tracker'[KeyOf(n)] # "none"
      BY <1>5, <2>1 DEF OnceInv, Settled, Recorded, Pending
  <2>4. ASSUME NEW b \in Client, call'[b].waiting, past[<<b, call'[b].x>>] = 1
        PROVE  call'[b].req.gen < gen \/ tracker'[<<b, call'[b].x, conn[b].port>>] # "none"
    <3>1. call[b].waiting /\ past[<<b, call[b].x>>] = 1 /\ conn[b].port \in Port
        BY <1>6, <2>4 DEF OnceInv, StateTyped
    <3>2. PICK j : j = <<b, call[b].x, conn[b].port>>
        OBVIOUS
    <3>3. j \in Key
        BY <3>1, <3>2, LastCall, KeyOfCall DEF OnceInv, CallsTyped
    <3>4. call[b].req.gen < gen \/ tracker[j] # "none"
        BY <3>1, <3>2 DEF OnceInv, Settled, Recorded
    <3> QED
        BY <1>6, <2>1, <3>2, <3>3, <3>4
  <2> QED
      BY <1>1, <2>2, <2>3, <2>4 DEF OnceInv, Settled, Stale, Recorded
<1> QED
    BY <1>7, <1>8, <1>9, <1>10, <1>11, <1>12 DEF OnceInv

LEMMA ExpireOnce ==
    ASSUME OnceInv, NEW key \in Key, Expire(key)
    PROVE  OnceInv'
<1>1. PICK k : k = <<key[1], key[2]>>
    OBVIOUS
<1>2. /\ UNCHANGED <<gen, conn, call, mounted, wire, task>> /\ tracker[key] = "done"
      /\ tracker' = [tracker EXCEPT ![key] = "none"] /\ past' = [past EXCEPT ![k] = Excused]
    BY <1>1 DEF Expire, Expired
<1>3. k \in Calls
  <2>1. PICK j \in Calls, p \in Port : key = <<j[1], j[2], p>>
      BY DEF Key
  <2>2. j = <<j[1], j[2]>>
      BY CallsAre
  <2>3. key[1] = j[1] /\ key[2] = j[2]
      BY <2>1
  <2> QED
      BY <1>1, <2>2, <2>3
<1>4. past'[k] = Excused /\ \A j \in Calls : j # k => past'[j] = past[j]
    BY <1>2, <1>3 DEF OnceInv, StateTyped
<1>5. \A c, x, p : <<c, x, p>> = key => <<c, x>> = k
    BY <1>1
<1>6. \A j \in Key : j # key => tracker'[j] = tracker[j]
    BY <1>2 DEF OnceInv, StateTyped
<1>7. \A n \in Pending : About(n) \in Calls /\ KeyOf(n) \in Key /\ (KeyOf(n) = key => About(n) = k)
    BY <1>5, KeyOfPending DEF OnceInv, PendingTyped, IsPending, Pending, About, KeyOf
<1>8. \A j \in Calls : past'[j] = 1 => past[j] = 1 /\ j # k
    BY <1>4 DEF Excused
<1>9. StateTyped' /\ CallsTyped' /\ PendingTyped'
    BY <1>2 DEF OnceInv, StateTyped, CallsTyped, PendingTyped, IsPending, IsAt, Stale
<1>10. OneTask'
  <2>1. \A t \in task : KeyOf(t) # key /\ KeyOf(t) \in Key
      BY <1>2, <1>7 DEF OnceInv, OneTask, Pending
  <2> QED
      BY <1>2, <1>6, <2>1 DEF OnceInv, OneTask
<1>11. OnePort'
  <2>1. Pending' = Pending
      BY <1>2 DEF Pending
  <2> QED
      BY <1>2, <1>4, <1>7, <2>1 DEF OnceInv, OnePort, Awaited
<1>12. Settled'
  <2>1. \A n \in wire : past'[About(n)] = 1 => n.req.gen < gen \/ tracker'[KeyOf(n)] # "none"
      BY <1>6, <1>7, <1>8 DEF OnceInv, Settled, Recorded, Pending
  <2>2. \A t \in task : past'[About(t)] = 1 => Stale(t) \/ t.pc = "done"
      BY <1>7, <1>8 DEF OnceInv, Settled, Pending
  <2>3. ASSUME NEW b \in Client, call[b].waiting, past'[<<b, call[b].x>>] = 1
        PROVE  call[b].req.gen < gen \/ tracker'[<<b, call[b].x, conn[b].port>>] # "none"
    <3>1. <<b, call[b].x>> \in Calls /\ conn[b].port \in Port
        BY <2>3, LastCall DEF OnceInv, StateTyped, CallsTyped
    <3>2. PICK j : j = <<b, call[b].x, conn[b].port>>
        OBVIOUS
    <3>3. j \in Key /\ j # key
        BY <1>5, <1>8, <2>3, <3>1, <3>2, KeyOfCall
    <3>4. call[b].req.gen < gen \/ tracker[j] # "none"
        BY <1>8, <2>3, <3>1, <3>2 DEF OnceInv, Settled, Recorded
    <3> QED
        BY <1>6, <3>2, <3>3, <3>4
  <2>4. \A j \in Calls : past'[j] = 1 => j[2] <= call[j[1]].x
      BY <1>8 DEF OnceInv, Settled
  <2> QED
      BY <1>2, <2>1, <2>2, <2>3, <2>4 DEF Settled, Stale, Recorded
<1> QED
    BY <1>9, <1>10, <1>11, <1>12 DEF OnceInv

LEMMA RestartOnce ==
    ASSUME OnceInv, Restart
    PROVE  OnceInv'
<1>1. /\ UNCHANGED <<call, mounted, past>> /\ wire' = {} /\ task' = {} /\ gen' = gen + 1
      /\ conn' = [c \in Client |-> [conn[c] EXCEPT !.up = FALSE]]
      /\ tracker' = [k \in Key |-> "none"]
    BY DEF Restart
<1>2. gen \in Nat /\ gen' \in Nat /\ gen < gen' /\ gen <= gen'
    BY <1>1 DEF OnceInv, StateTyped
<1>3. StateTyped'
    BY <1>1, <1>2 DEF OnceInv, StateTyped
<1>4. \A c \in Client : call[c].req.gen < gen' /\ call[c].req.gen <= gen' /\ mounted[c] <= gen'
    BY <1>1, <1>2 DEF OnceInv, StateTyped, CallsTyped, IsCall
<1>5. CallsTyped'
    BY <1>1, <1>4 DEF OnceInv, CallsTyped
<1>6. PendingTyped' /\ OneTask' /\ OnePort'
    BY <1>1 DEF PendingTyped, OneTask, OnePort, Pending
<1>7. Settled'
    BY <1>1, <1>4 DEF OnceInv, Settled
<1> QED
    BY <1>3, <1>5, <1>6, <1>7 DEF OnceInv

-----------------------------------------------------------------------------
LEMMA NextOnce == OnceInv /\ [Next]_vars => OnceInv'
<1> SUFFICES ASSUME OnceInv, [Next]_vars PROVE OnceInv'
    OBVIOUS
<1>1. CASE UNCHANGED vars
    BY <1>1 DEF vars, OnceInv, StateTyped, CallsTyped, PendingTyped, IsPending, IsAt, Stale, OneTask,
                OnePort, Pending, Awaited, Settled, Recorded
<1>2. ASSUME NEW c \in Client, Send(c) \/ Retransmit(c) \/ Break(c) \/ Reconnect(c) PROVE OnceInv'
    BY <1>2, SendOnce, RetransmitOnce, BreakOnce, ReconnectOnce
<1>3. ASSUME NEW m \in wire, Receive(m) PROVE OnceInv'
    BY <1>3, ReceiveOnce
<1>4. ASSUME NEW t \in task, Step(t) \/ Finish(t) PROVE OnceInv'
    BY <1>4, StepOnce, FinishOnce
<1>5. ASSUME NEW k \in Key, Expire(k) PROVE OnceInv'
    BY <1>5, ExpireOnce
<1>6. CASE Restart
    BY <1>6, RestartOnce
<1> QED
    BY <1>1, <1>2, <1>3, <1>4, <1>5, <1>6 DEF Next

(* A call changes the file system once, however often it is sent and       *)
(* whatever breaks meanwhile: TransactionTracker drops what comes again    *)
(* from the same port while its record lasts, and fh_to_id refuses the     *)
(* handles of an earlier start, whose tracker is lost.                     *)
THEOREM CallsChangeOnce == Spec => []AtMostOnce
<1>1. OnceInv => AtMostOnce
    BY DEF OnceInv, StateTyped, AtMostOnce, Excused
<1> QED
    BY <1>1, InitOnceInv, NextOnce, PTL DEF Spec
=============================================================================
