--------------------------- MODULE SandboxFdsProofs ---------------------------
(***************************************************************************)
(* Proofs that the sandbox gives out the lowest free descriptor, and that  *)
(* the guest's descriptors are those POSIX would give it, for any threads  *)
(* and processes, whatever they open, close, move and fork, and in         *)
(* whatever order their handlers run between kernel calls.                 *)
(***************************************************************************)
EXTENDS SandboxFds, FiniteSetTheorems, SequenceTheorems, TLAPS

-----------------------------------------------------------------------------
(* The least number from some number on that is not in a finite set.       *)

IsLeast(x, S, from) ==
    /\ x \in Nat /\ x >= from /\ x \notin S
    /\ \A u \in Nat : u >= from /\ u \notin S => x <= u

(* A set of numbers that is not empty has a least one: of the intervals    *)
(* from 0 to its members, one contains no other.                           *)
LEMMA HasMin ==
    ASSUME NEW T \in SUBSET Nat, T # {}
    PROVE  Min(T) \in T /\ \A y \in T : Min(T) <= y
<1> DEFINE upTo == {0 .. x : x \in T}
<1>1. upTo \subseteq FiniteSubsetsOf(Nat) /\ upTo # {}
  <2>1. \A x \in T : 0 .. x \in SUBSET Nat /\ IsFiniteSet(0 .. x)
      BY FS_Interval
  <2> QED
      BY <2>1 DEF FiniteSubsetsOf
<1>2. PICK low \in upTo : \A y \in upTo : <<y, low>> \notin StrictSubsetOrdering(Nat)
  <2> HIDE DEF upTo
  <2> QED
      BY <1>1, FS_StrictSubsetOrderingWellFounded, WFMin
<1>3. PICK x \in T : low = 0 .. x
    OBVIOUS
<1>4. ASSUME NEW y \in T PROVE x <= y
  <2> SUFFICES ASSUME y < x PROVE FALSE
      OBVIOUS
  <2>1. 0 .. y \in upTo /\ 0 .. y \in SUBSET Nat /\ 0 .. x \in SUBSET Nat
      OBVIOUS
  <2>2. 0 .. y \subseteq 0 .. x /\ x \in 0 .. x /\ x \notin 0 .. y
      OBVIOUS
  <2> QED
      BY <1>2, <1>3, <2>1, <2>2 DEF StrictSubsetOrdering
<1>5. \E z \in T : \A y \in T : z <= y
    BY <1>4
<1> QED
    BY <1>5 DEF Min

LEMMA LeastIsLeast ==
    ASSUME NEW S \in SUBSET Nat, IsFiniteSet(S), NEW from \in Nat
    PROVE  IsLeast(Least(S, from), S, from)
<1> DEFINE n == Cardinality(S)
           candidates == (from .. from + n) \ S
<1>1. n \in Nat
    BY FS_CardinalityType
<1>2. candidates # {} /\ candidates \in SUBSET Nat
  <2>1. CASE from .. from + n \subseteq S
    <3>1. Cardinality(from .. from + n) = n + 1
        BY <1>1, FS_Interval
    <3>2. Cardinality(from .. from + n) <= n
        BY <2>1, FS_Subset
    <3> QED
        BY <1>1, <3>1, <3>2
  <2> QED
      BY <1>1, <2>1
<1>3. Least(S, from) \in candidates /\ \A y \in candidates : Least(S, from) <= y
    BY <1>2, HasMin DEF Least
<1>4. PICK x : x = Least(S, from)
    OBVIOUS
<1>5. x \in Nat /\ x >= from /\ x <= from + n /\ x \notin S
    BY <1>1, <1>3, <1>4
<1>6. ASSUME NEW u \in Nat, u >= from, u \notin S PROVE x <= u
  <2>1. CASE u <= from + n
    <3>1. u \in candidates
        BY <1>1, <1>6, <2>1
    <3> QED
        BY <1>3, <1>4, <3>1
  <2>2. CASE u > from + n
      BY <1>1, <1>5, <2>2
  <2> QED
      BY <1>1, <2>1, <2>2
<1> QED
    BY <1>4, <1>5, <1>6 DEF IsLeast

-----------------------------------------------------------------------------
(* The table of a process.  That its heap and its high-water mark together *)
(* stand for the descriptors without an entry takes both directions: all   *)
(* numbers in the heap are free, and all free ones below the mark are in   *)
(* the heap.                                                               *)

IsTable(tb) ==
    /\ tb = [entries |-> tb.entries, next_vfd |-> tb.next_vfd, free_fds |-> tb.free_fds]
    /\ tb.next_vfd \in Nat /\ tb.next_vfd >= FIRST_USER_FD
    /\ DOMAIN tb.entries \subseteq 0 .. tb.next_vfd - 1
    /\ tb.free_fds = {u \in FIRST_USER_FD .. tb.next_vfd - 1 : u \notin DOMAIN tb.entries}

LEMMA FreshIsTable == IsTable(Fresh)
<1>1. /\ Fresh.next_vfd = 3 /\ Fresh.free_fds = {} /\ DOMAIN Fresh.entries = 0 .. 2
      /\ Fresh = [entries |-> Fresh.entries, next_vfd |-> 3, free_fds |-> {}]
    BY DEF Fresh, Std, FIRST_USER_FD
<1> QED
    BY <1>1 DEF IsTable, FIRST_USER_FD

LEMMA FreeIsLeast ==
    ASSUME NEW tb, IsTable(tb)
    PROVE  /\ IsLeast(Free(tb), DOMAIN tb.entries, FIRST_USER_FD)
           /\ IF tb.free_fds = {} THEN Free(tb) = tb.next_vfd ELSE Free(tb) \in tb.free_fds
<1>1. CASE tb.free_fds = {}
  <2>1. Free(tb) = tb.next_vfd
      BY <1>1 DEF Free
  <2>2. \A u \in Nat : u >= FIRST_USER_FD /\ u \notin DOMAIN tb.entries => tb.next_vfd <= u
      BY <1>1 DEF IsTable, FIRST_USER_FD
  <2> QED
      BY <1>1, <2>1, <2>2 DEF IsLeast, IsTable
<1>2. CASE tb.free_fds # {}
  <2>1. tb.free_fds \in SUBSET Nat
      BY DEF IsTable, FIRST_USER_FD
  <2>2. Free(tb) \in tb.free_fds /\ \A y \in tb.free_fds : Free(tb) <= y
      BY <1>2, <2>1, HasMin DEF Free
  <2>3. PICK v : v = Free(tb)
      OBVIOUS
  <2>4. v \in Nat /\ v >= FIRST_USER_FD /\ v < tb.next_vfd /\ v \notin DOMAIN tb.entries
      BY <2>2, <2>3 DEF IsTable, FIRST_USER_FD
  <2>5. ASSUME NEW u \in Nat, u >= FIRST_USER_FD, u \notin DOMAIN tb.entries PROVE v <= u
    <3>1. CASE u < tb.next_vfd
      <4>1. u \in tb.free_fds
          BY <2>5, <3>1 DEF IsTable, FIRST_USER_FD
      <4> QED
          BY <2>2, <2>3, <4>1
    <3>2. CASE ~(u < tb.next_vfd)
        BY <2>4, <3>2 DEF IsTable
    <3> QED
        BY <3>1, <3>2
  <2> QED
      BY <1>2, <2>2, <2>3, <2>4, <2>5 DEF IsLeast
<1> QED
    BY <1>1, <1>2

LEMMA Puts ==
    ASSUME NEW tb, IsTable(tb), NEW v, NEW e
    PROVE  /\ DOMAIN Put(tb, v, e).entries = DOMAIN tb.entries \cup {v}
           /\ Put(tb, v, e).next_vfd = tb.next_vfd /\ Put(tb, v, e).free_fds = tb.free_fds
           /\ Put(tb, v, e) = [entries |-> Put(tb, v, e).entries, next_vfd |-> tb.next_vfd,
                               free_fds |-> tb.free_fds]
<1>1. PICK s : s = [u \in DOMAIN tb.entries \cup {v} |-> IF u = v THEN e ELSE tb.entries[u]]
    OBVIOUS
<1>2. Put(tb, v, e) = [tb EXCEPT !.entries = s]
    BY <1>1 DEF Put, Bind
<1>3. Put(tb, v, e) = [entries |-> s, next_vfd |-> tb.next_vfd, free_fds |-> tb.free_fds]
    BY <1>2 DEF IsTable
<1> QED
    BY <1>1, <1>3

(* The operations of FdTable. *)
LEMMA Allocates ==
    ASSUME NEW tb, IsTable(tb), NEW e
    PROVE  IsTable(allocate(tb, e)) /\ Free(tb) \in Nat
<1>1. PICK v : v = Free(tb)
    OBVIOUS
<1>2. PICK q : q = Put(tb, v, e)
    OBVIOUS
<1>3. PICK n : n = IF tb.free_fds = {} THEN v + 1 ELSE tb.next_vfd
    OBVIOUS
<1>4. allocate(tb, e) = [entries |-> q.entries, next_vfd |-> n, free_fds |-> tb.free_fds \ {v}]
  <2>1. /\ q = [entries |-> q.entries, next_vfd |-> tb.next_vfd, free_fds |-> tb.free_fds]
        /\ q.next_vfd = tb.next_vfd /\ q.free_fds = tb.free_fds
      BY <1>2, Puts
  <2>2. allocate(tb, e) = [q EXCEPT !.free_fds = q.free_fds \ {v},
                                    !.next_vfd = IF tb.free_fds = {} THEN v + 1 ELSE q.next_vfd]
      BY <1>1, <1>2, Zenon DEF allocate
  <2>3. allocate(tb, e) = [q EXCEPT !.free_fds = tb.free_fds \ {v}, !.next_vfd = n]
      BY <1>3, <2>1, <2>2
  <2> QED
      BY <2>1, <2>3
<1>5. DOMAIN q.entries = DOMAIN tb.entries \cup {v}
    BY <1>2, Puts
<1>6. v \in Nat /\ v >= 3 /\ v \notin DOMAIN tb.entries
    BY <1>1, FreeIsLeast DEF IsLeast, FIRST_USER_FD
<1>7. v < n /\ n \in Nat /\ n >= 3 /\ (n = tb.next_vfd \/ (v = tb.next_vfd /\ n = v + 1))
    BY <1>1, <1>3, <1>6, FreeIsLeast DEF IsTable, FIRST_USER_FD
<1>8. DOMAIN q.entries \subseteq 0 .. n - 1
    BY <1>5, <1>6, <1>7 DEF IsTable
<1>9. tb.free_fds \ {v} = {u \in 3 .. n - 1 : u \notin DOMAIN q.entries}
    BY <1>5, <1>6, <1>7 DEF IsTable, FIRST_USER_FD
<1> QED
    BY <1>1, <1>4, <1>6, <1>7, <1>8, <1>9 DEF IsTable, FIRST_USER_FD

LEMMA AllocatesAt ==
    ASSUME NEW tb, IsTable(tb), NEW v \in Nat, NEW e
    PROVE  IsTable(allocate_at(tb, v, e))
<1>1. PICK q : q = Put(tb, v, e)
    OBVIOUS
<1>2. PICK n : n = IF v >= tb.next_vfd THEN v + 1 ELSE tb.next_vfd
    OBVIOUS
<1>3. PICK h : h = (tb.free_fds \cup Skipped(tb, v)) \ {v}
    OBVIOUS
<1>4. allocate_at(tb, v, e) = [entries |-> q.entries, next_vfd |-> n, free_fds |-> h]
  <2>1. /\ q = [entries |-> q.entries, next_vfd |-> tb.next_vfd, free_fds |-> tb.free_fds]
        /\ q.next_vfd = tb.next_vfd /\ q.free_fds = tb.free_fds
      BY <1>1, Puts
  <2>2. allocate_at(tb, v, e) = [q EXCEPT !.free_fds = (q.free_fds \cup Skipped(tb, v)) \ {v},
                                          !.next_vfd = IF v >= q.next_vfd THEN v + 1 ELSE q.next_vfd]
      BY <1>1, Zenon DEF allocate_at
  <2>3. allocate_at(tb, v, e) = [q EXCEPT !.free_fds = h, !.next_vfd = n]
      BY <1>2, <1>3, <2>1, <2>2
  <2> QED
      BY <2>1, <2>3
<1>5. DOMAIN q.entries = DOMAIN tb.entries \cup {v}
    BY <1>1, Puts
<1>6. n \in Nat /\ n >= 3 /\ v < n /\ tb.next_vfd <= n
    BY <1>2 DEF IsTable, FIRST_USER_FD
<1>7. DOMAIN q.entries \subseteq 0 .. n - 1
    BY <1>5, <1>6 DEF IsTable
<1>8. ASSUME NEW u PROVE u \in h <=> u \in 3 .. n - 1 /\ u \notin DOMAIN q.entries
  <2>1. u \in h <=> (u \in tb.free_fds \/ u \in Skipped(tb, v)) /\ u # v
      BY <1>3
  <2>2. u \in Skipped(tb, v) <=> u \in tb.next_vfd .. v - 1 /\ u >= 3 /\ u \notin DOMAIN tb.entries
      BY DEF Skipped, FIRST_USER_FD
  <2>3. u \in tb.free_fds <=> u \in 3 .. tb.next_vfd - 1 /\ u \notin DOMAIN tb.entries
      BY DEF IsTable, FIRST_USER_FD
  <2>4. u \in 3 .. n - 1 /\ u # v <=> u # v /\ (u \in 3 .. tb.next_vfd - 1 \/ (u \in tb.next_vfd .. v - 1 /\ u >= 3))
      BY <1>2, <1>6 DEF IsTable, FIRST_USER_FD
  <2> QED
      BY <1>5, <2>1, <2>2, <2>3, <2>4
<1>9. h = {u \in 3 .. n - 1 : u \notin DOMAIN q.entries}
    BY <1>8
<1> QED
    BY <1>4, <1>6, <1>7, <1>9 DEF IsTable, FIRST_USER_FD

LEMMA AllocatesMin ==
    ASSUME NEW tb, IsTable(tb), NEW min \in Nat, NEW e
    PROVE  IsTable(allocate_min(tb, min, e)) /\ AtLeast(tb, min) \in Nat
<1>1. DOMAIN tb.entries \in SUBSET Nat /\ IsFiniteSet(DOMAIN tb.entries)
  <2>1. PICK n, D : n = tb.next_vfd - 1 /\ D = DOMAIN tb.entries /\ n \in Int
      BY DEF IsTable
  <2>2. D \subseteq 0 .. n
      BY <2>1 DEF IsTable
  <2>3. IsFiniteSet(0 .. n)
      BY <2>1, FS_Interval
  <2>4. IsFiniteSet(D)
      BY <2>2, <2>3, FS_Subset
  <2> QED
      BY <2>1, <2>2, <2>4
<1>2. AtLeast(tb, min) \in Nat
    BY <1>1, LeastIsLeast DEF AtLeast, IsLeast
<1> QED
    BY <1>2, AllocatesAt DEF allocate_min

LEMMA Deallocates ==
    ASSUME NEW tb, IsTable(tb), NEW v \in DOMAIN tb.entries
    PROVE  IsTable(deallocate(tb, v))
<1>1. PICK s : s = Restrict(tb.entries, DOMAIN tb.entries \ {v})
    OBVIOUS
<1>2. PICK h : h = IF v >= FIRST_USER_FD THEN tb.free_fds \cup {v} ELSE tb.free_fds
    OBVIOUS
<1>3. deallocate(tb, v) = [entries |-> s, next_vfd |-> tb.next_vfd, free_fds |-> h]
  <2>1. deallocate(tb, v) =
            [tb EXCEPT !.entries = Restrict(tb.entries, DOMAIN tb.entries \ {v}),
                       !.free_fds = IF v >= FIRST_USER_FD THEN tb.free_fds \cup {v} ELSE tb.free_fds]
      BY Zenon DEF deallocate
  <2>2. deallocate(tb, v) = [tb EXCEPT !.entries = s, !.free_fds = h]
      BY <1>1, <1>2, <2>1
  <2> QED
      BY <2>2 DEF IsTable
<1>4. DOMAIN s = DOMAIN tb.entries \ {v}
    BY <1>1 DEF Restrict
<1>5. v \in 0 .. tb.next_vfd - 1
    BY DEF IsTable
<1>6. h = {u \in 3 .. tb.next_vfd - 1 : u \notin DOMAIN s}
    BY <1>2, <1>4, <1>5 DEF IsTable, FIRST_USER_FD
<1> QED
    BY <1>3, <1>4, <1>6 DEF IsTable, FIRST_USER_FD

-----------------------------------------------------------------------------
(* The inductive invariant.  The number a handler puts an entry at is in   *)
(* what it has still to do: it was a number when the guest named it.       *)

Sound(do) ==
    /\ "do" \in DOMAIN do
    /\ do.do = "allocate_at" => do.fd \in Nat
    /\ do.do = "allocate_min" => do.min \in Nat

IsTodo(s) == s \in Seq({do \in Range(s) : Sound(do)})

IsHandler(r) ==
    /\ r = [todo |-> r.todo, got |-> r.got, means |-> r.means, copy |-> r.copy]
    /\ IsTodo(r.todo)

TablesSound == DOMAIN table = Procs /\ \A p \in Procs : IsTable(table[p])
HandlersSound == DOMAIN req = Threads /\ \A t \in Threads : IsHandler(req[t])
FdInv == TablesSound /\ HandlersSound /\ mine \in [Threads -> SUBSET Nat]

(* What handlers have to do. *)
AllSound(G) == \A do \in G : Sound(do)

LEMMA TodoOf == \A G : \A s \in Seq(G) : AllSound(G) => IsTodo(s)
<1> SUFFICES ASSUME NEW G, NEW s \in Seq(G), AllSound(G) PROVE IsTodo(s)
    OBVIOUS
<1>1. DOMAIN s = 1 .. Len(s) /\ \A i \in DOMAIN s : s[i] \in G
    OBVIOUS
<1>2. \A i \in 1 .. Len(s) : s[i] \in {do \in Range(s) : Sound(do)}
    BY <1>1 DEF Range, AllSound
<1> QED
    BY <1>2 DEF IsTodo

LEMMA TodoIs ==
    ASSUME NEW s, IsTodo(s)
    PROVE  \E G : s \in Seq(G) /\ AllSound(G)
<1>1. AllSound({do \in Range(s) : Sound(do)})
    BY DEF AllSound
<1> QED
    BY <1>1 DEF IsTodo

LEMMA Todos ==
    /\ IsTodo(<<>>)
    /\ \A a : Sound(a) => IsTodo(<<a>>)
    /\ \A a, b : Sound(a) /\ Sound(b) => IsTodo(<<a, b>>)
    /\ \A a, b, c : Sound(a) /\ Sound(b) /\ Sound(c) => IsTodo(<<a, b, c>>)
<1>1. IsTodo(<<>>)
  <2>1. <<>> \in Seq({}) /\ AllSound({})
      BY DEF AllSound
  <2> QED
      BY <2>1, TodoOf
<1>2. ASSUME NEW a, Sound(a) PROVE IsTodo(<<a>>)
  <2>1. <<a>> \in Seq({a}) /\ AllSound({a})
      BY <1>2 DEF AllSound
  <2> QED
      BY <2>1, TodoOf
<1>3. ASSUME NEW a, NEW b, Sound(a), Sound(b) PROVE IsTodo(<<a, b>>)
  <2>1. <<a, b>> \in Seq({a, b}) /\ AllSound({a, b})
      BY <1>3 DEF AllSound
  <2> QED
      BY <2>1, TodoOf
<1>4. ASSUME NEW a, NEW b, NEW c, Sound(a), Sound(b), Sound(c) PROVE IsTodo(<<a, b, c>>)
  <2>1. <<a, b, c>> \in Seq({a, b, c}) /\ AllSound({a, b, c})
      BY <1>4 DEF AllSound
  <2> QED
      BY <2>1, TodoOf
<1> QED
    BY <1>1, <1>2, <1>3, <1>4

LEMMA TodoJoined ==
    ASSUME NEW s, IsTodo(s), NEW u, IsTodo(u)
    PROVE  IsTodo(s \o u)
<1>1. PICK G : s \in Seq(G) /\ AllSound(G)
    BY TodoIs
<1>2. PICK H : u \in Seq(H) /\ AllSound(H)
    BY TodoIs
<1>3. s \in Seq(G \cup H) /\ u \in Seq(G \cup H)
    BY <1>1, <1>2
<1>4. s \o u \in Seq(G \cup H)
    BY <1>3
<1>5. AllSound(G \cup H)
    BY <1>1, <1>2 DEF AllSound
<1> QED
    BY <1>4, <1>5, TodoOf

LEMMA TodoLeft ==
    ASSUME NEW s, IsTodo(s), s # <<>>
    PROVE  IsTodo(Tail(s)) /\ Sound(Head(s))
<1>1. PICK G : s \in Seq(G) /\ AllSound(G)
    BY TodoIs
<1>2. Tail(s) \in Seq(G) /\ Head(s) \in G
    BY <1>1
<1>3. IsTodo(Tail(s))
    BY <1>1, <1>2, TodoOf
<1> QED
    BY <1>1, <1>2, <1>3 DEF AllSound

(* A step that is renamed is as sound as before. *)
LEMMA TodoRenamed ==
    ASSUME NEW s, IsTodo(s), s # <<>>, NEW do \in {"create", "store"}
    PROVE  IsTodo([s EXCEPT ![1].do = do])
<1>1. PICK G : s \in Seq(G) /\ AllSound(G)
    BY TodoIs
<1>2. PICK y : y = [s[1] EXCEPT !.do = do]
    OBVIOUS
<1>3. Sound(s[1])
    BY <1>1 DEF AllSound
<1>4. Sound(y)
    BY <1>2, <1>3 DEF Sound
<1>5. [s EXCEPT ![1].do = do] = [s EXCEPT ![1] = y]
    BY <1>2
<1>6. [s EXCEPT ![1] = y] \in Seq(G \cup {y})
    BY <1>1
<1>7. AllSound(G \cup {y})
    BY <1>1, <1>4 DEF AllSound
<1> QED
    BY <1>5, <1>6, <1>7, TodoOf

-----------------------------------------------------------------------------
(* What a step does to the handler of its thread. *)

Handled(t) == \E r : IsHandler(r) /\ (req' = req \/ req' = [req EXCEPT ![t] = r])

LEMMA Begins ==
    ASSUME NEW t \in Threads, NEW todo, IsTodo(todo), NEW means, Begin(t, todo, means)
    PROVE  Handled(t)
<1>1. PICK r : r = [todo |-> todo, got |-> <<>>, means |-> means, copy |-> 0]
    OBVIOUS
<1>2. Await(todo, means) = r
  <2>1. PICK idle : idle = Idle
      OBVIOUS
  <2>2. idle = [todo |-> <<>>, got |-> <<>>, means |-> <<>>, copy |-> 0]
      BY <2>1 DEF Idle
  <2>3. Await(todo, means) = [[idle EXCEPT !.todo = todo] EXCEPT !.means = means]
      BY <2>1 DEF Await
  <2>4. [idle EXCEPT !.todo = todo] = [todo |-> todo, got |-> <<>>, means |-> <<>>, copy |-> 0]
      BY <2>2
  <2> QED
      BY <1>1, <2>3, <2>4
<1>3. IsHandler(r)
    BY <1>1 DEF IsHandler
<1> QED
    BY <1>2, <1>3 DEF Handled, Begin

LEMMA IdleIsHandler == IsHandler(Idle)
BY Todos DEF IsHandler, Idle

LEMMA Stays ==
    ASSUME NEW t, req' = req
    PROVE  Handled(t)
BY IdleIsHandler DEF Handled

LEMMA Returns ==
    ASSUME NEW t, Return(t)
    PROVE  Handled(t)
BY IdleIsHandler DEF Handled, Return

(* What is left to do once the first of it is done. *)
LEMMA NextIsHandler ==
    ASSUME HandlersSound, NEW t \in Threads, req[t].todo # <<>>
    PROVE  /\ IsHandler(Next1(t))
           /\ \A got, means : IsHandler([Next1(t) EXCEPT !.got = got, !.means = means])
           /\ \A got : IsHandler([Next1(t) EXCEPT !.got = got])
<1>1. PICK r : r = req[t]
    OBVIOUS
<1>2. IsHandler(r) /\ r.todo # <<>>
    BY <1>1 DEF HandlersSound
<1>3. PICK rest : rest = Tail(r.todo)
    OBVIOUS
<1>4. IsTodo(rest)
    BY <1>2, <1>3, TodoLeft DEF IsHandler
<1>5. PICK n : n = [r EXCEPT !.todo = rest]
    OBVIOUS
<1>6. Next1(t) = n
    BY <1>1, <1>3, <1>5 DEF Next1
<1>7. n = [todo |-> rest, got |-> r.got, means |-> r.means, copy |-> r.copy]
    BY <1>2, <1>5 DEF IsHandler
<1>8. IsHandler(n)
    BY <1>4, <1>7 DEF IsHandler
<1>9. ASSUME NEW got, NEW means PROVE IsHandler([n EXCEPT !.got = got, !.means = means])
  <2>1. [n EXCEPT !.got = got, !.means = means] =
            [todo |-> rest, got |-> got, means |-> means, copy |-> r.copy]
    <3>1. PICK q : q = [n EXCEPT !.got = got]
        OBVIOUS
    <3>2. q = [todo |-> rest, got |-> got, means |-> r.means, copy |-> r.copy]
        BY <1>7, <3>1
    <3>3. [q EXCEPT !.means = means] = [todo |-> rest, got |-> got, means |-> means, copy |-> r.copy]
        BY <3>2
    <3>4. [n EXCEPT !.got = got, !.means = means] = [q EXCEPT !.means = means]
        BY <3>1
    <3> QED
        BY <3>3, <3>4, Zenon
  <2> QED
      BY <1>4, <2>1 DEF IsHandler
<1>10. ASSUME NEW got PROVE IsHandler([n EXCEPT !.got = got])
  <2>1. [n EXCEPT !.got = got] = [todo |-> rest, got |-> got, means |-> r.means, copy |-> r.copy]
      BY <1>7
  <2> QED
      BY <1>4, <2>1 DEF IsHandler
<1> QED
    BY <1>6, <1>8, <1>9, <1>10

LEMMA Continues ==
    ASSUME HandlersSound, NEW t \in Threads, req[t].todo # <<>>, Continue(t)
    PROVE  Handled(t)
<1>1. PICK r : r = IF Len(req[t].todo) = 1 THEN Idle ELSE Next1(t)
    OBVIOUS
<1>2. req' = [req EXCEPT ![t] = r]
    BY <1>1 DEF Continue, HandlersSound, Next1
<1>3. IsHandler(r)
    BY <1>1, IdleIsHandler, NextIsHandler
<1> QED
    BY <1>2, <1>3 DEF Handled

LEMMA HandlersStaySound ==
    ASSUME HandlersSound, NEW t \in Threads, Handled(t)
    PROVE  HandlersSound'
BY DEF HandlersSound, Handled

(* A step that touches no table and no descriptors of threads. *)
LEMMA Passive ==
    ASSUME FdInv, NEW t \in Threads, Handled(t), UNCHANGED <<table, mine>>
    PROVE  FdInv'
BY HandlersStaySound DEF FdInv, TablesSound

LEMMA TablesStaySound ==
    ASSUME TablesSound, NEW p \in Procs, NEW tb, IsTable(tb), table' = [table EXCEPT ![p] = tb]
    PROVE  TablesSound'
BY DEF TablesSound

(* The thread is told of a number. *)
LEMMA Tells ==
    ASSUME FdInv, NEW t \in Threads, NEW v \in Nat, NEW d, Told(t, v, d)
    PROVE  mine' \in [Threads -> SUBSET Nat]
BY DEF FdInv, Told

LEMMA OwnProcess ==
    ASSUME FdInv, NEW t \in Threads
    PROVE  Of[t] \in Procs /\ IsTable(table[Of[t]])
BY DEF FdInv, TablesSound, Procs

-----------------------------------------------------------------------------
(* Handlers *)

LEMMA SoundSteps ==
    /\ \A on : Sound([do |-> "call", on |-> on]) /\ Sound([do |-> "report", on |-> on])
    /\ Sound([do |-> "open"]) /\ Sound([do |-> "allocate"])
    /\ \A d : Sound([do |-> "fsync", of |-> d])
    /\ \A k : Sound([do |-> "close", fd |-> k]) /\ Sound([do |-> "dup", fd |-> k])
    /\ \A min \in Nat : Sound([do |-> "allocate_min", min |-> min])
    /\ \A to \in Nat : \A e : Sound([do |-> "allocate_at", fd |-> to, entry |-> e])
    /\ \A p : Sound([do |-> "fork", to |-> p]) /\ Sound([do |-> "insert_fd_table", to |-> p])
BY DEF Sound

LEMMA PassesHandled ==
    ASSUME NEW t \in Threads, NEW on, Passes(t, on)
    PROVE  Handled(t)
<1>1. IsTodo(<<[do |-> "call", on |-> on]>>)
    BY SoundSteps, Todos
<1> QED
    BY <1>1, Begins DEF Passes

(* Calls that only look at the table. *)
LEMMA LooksOnly ==
    ASSUME FdInv, NEW t \in Threads,
           \/ \E call : Opens(t, call)
           \/ handle_pipe2(t)
           \/ \E call, v : PassesOn(t, call, v) \/ AnsweredBy(t, call, v)
           \/ \E v : handle_write(t, v) \/ handle_fstat(t, v)
           \/ \E V : handle_poll(t, V) \/ handle_pselect6(t, V)
           \/ \E call, V : Relative(t, call, V)
           \/ \E call, f, possible : Names(t, call, f, possible)
           \/ \E v \in Nat, min \in Nat : handle_fcntl(t, v, min)
           \/ \E p : handle_fork(t, p)
    PROVE  FdInv'
<1>1. ASSUME NEW call, Opens(t, call) PROVE FdInv'
  <2>1. IsTodo(<<[do |-> "open"], [do |-> "allocate"]>>)
      BY SoundSteps, Todos
  <2> QED
      BY <1>1, <2>1, Begins, Passive DEF Opens, Untouched
<1>2. CASE handle_pipe2(t)
  <2>1. IsTodo(<<[do |-> "open"], [do |-> "open"], [do |-> "allocate"]>>)
      BY SoundSteps, Todos
  <2> QED
      BY <1>2, <2>1, Begins, Passive DEF handle_pipe2, Untouched
<1>3. ASSUME NEW call, NEW v, PassesOn(t, call, v) \/ AnsweredBy(t, call, v) PROVE FdInv'
    BY <1>3, PassesHandled, Stays, Passive DEF PassesOn, AnsweredBy, Untouched
<1>4. ASSUME NEW v, handle_write(t, v) \/ handle_fstat(t, v) PROVE FdInv'
    BY <1>4, PassesHandled, Stays, Passive DEF handle_write, handle_fstat
<1>5. ASSUME NEW V, handle_poll(t, V) PROVE FdInv'
    BY <1>5, PassesHandled, Passive DEF handle_poll, Untouched
<1>6. ASSUME NEW V, handle_pselect6(t, V) PROVE FdInv'
  <2>1. PICK on : on = translate_to_kernel(t, V)
      OBVIOUS
  <2>2. IsTodo(<<[do |-> "call", on |-> on], [do |-> "report", on |-> on]>>)
      BY SoundSteps, Todos
  <2>3. Begin(t, <<[do |-> "call", on |-> on], [do |-> "report", on |-> on]>>, <<>>) /\ Untouched
      BY <1>6, <2>1 DEF handle_pselect6
  <2> QED
      BY <2>2, <2>3, Begins, Passive DEF Untouched
<1>7. ASSUME NEW call, NEW V, Relative(t, call, V) PROVE FdInv'
    BY <1>7, PassesHandled, Passive DEF Relative, Untouched
<1>8. ASSUME NEW call, NEW f, NEW possible, Names(t, call, f, possible) PROVE FdInv'
    BY <1>8, Stays, Passive DEF Names
<1>9. ASSUME NEW v \in Nat, NEW min \in Nat, handle_fcntl(t, v, min) PROVE FdInv'
  <2>1. PICK k : k = Entry(t, v).kernel_fd
      OBVIOUS
  <2>2. IsTodo(<<[do |-> "dup", fd |-> k], [do |-> "allocate_min", min |-> min]>>)
      BY SoundSteps, Todos
  <2> QED
      BY <1>9, <2>1, <2>2, Begins, Passive DEF handle_fcntl, Untouched
<1>10. ASSUME NEW p, handle_fork(t, p) PROVE FdInv'
  <2>1. IsTodo(<<[do |-> "fork", to |-> p], [do |-> "insert_fd_table", to |-> p]>>)
      BY SoundSteps, Todos
  <2> QED
      BY <1>10, <2>1, Begins, Passive DEF handle_fork, Untouched
<1> QED
    BY <1>1, <1>2, <1>3, <1>4, <1>5, <1>6, <1>7, <1>8, <1>9, <1>10

LEMMA OpenVirtualKeeps ==
    ASSUME FdInv, NEW t \in Threads, NEW f, OpenVirtual(t, f)
    PROVE  FdInv'
<1>1. PICK tb : tb = table[Of[t]]
    OBVIOUS
<1>2. PICK e : e = Virtual(made')
    OBVIOUS
<1>3. table' = [table EXCEPT ![Of[t]] = allocate(tb, e)] /\ Told(t, Free(tb), made') /\ req' = req
    BY <1>1, <1>2, OwnProcess DEF OpenVirtual, FdInv, TablesSound
<1>4. IsTable(allocate(tb, e)) /\ Free(tb) \in Nat
    BY <1>1, OwnProcess, Allocates
<1>5. mine' \in [Threads -> SUBSET Nat]
    BY <1>3, <1>4, Tells
<1> QED
    BY <1>3, <1>4, <1>5, OwnProcess, Stays, HandlersStaySound, TablesStaySound DEF FdInv

LEMMA ClosingIsTodo ==
    ASSUME NEW e
    PROVE  IsTodo(Closing(e))
BY SoundSteps, Todos DEF Closing

LEMMA CloseKeeps ==
    ASSUME FdInv, NEW t \in Threads, NEW v \in Known(t), handle_close(t, v)
    PROVE  FdInv'
<1>1. PICK tb : tb = table[Of[t]]
    OBVIOUS
<1>2. PICK todo : todo = Closing(Entry(t, v))
    OBVIOUS
<1>3. /\ table' = [table EXCEPT ![Of[t]] = deallocate(tb, v)] /\ Begin(t, todo, <<>>)
      /\ mine' = [mine EXCEPT ![t] = mine[t] \ {v}]
    BY <1>1, <1>2, OwnProcess DEF handle_close, FdInv, TablesSound
<1>4. IsTable(deallocate(tb, v))
    BY <1>1, OwnProcess, Deallocates DEF Known
<1>5. Handled(t)
    BY <1>2, <1>3, ClosingIsTodo, Begins
<1>6. mine' \in [Threads -> SUBSET Nat]
    BY <1>3 DEF FdInv
<1> QED
    BY <1>3, <1>4, <1>5, <1>6, OwnProcess, HandlersStaySound, TablesStaySound DEF FdInv

LEMMA DupKeeps ==
    ASSUME FdInv, NEW t \in Threads, NEW v, handle_dup(t, v)
    PROVE  FdInv'
<1>1. PICK tb : tb = table[Of[t]]
    OBVIOUS
<1>2. PICK e : e = Entry(t, v)
    OBVIOUS
<1>3. CASE IsVirtual(e)
  <2>1. table' = [table EXCEPT ![Of[t]] = allocate(tb, e)] /\ Told(t, Free(tb), guest[Of[t]][v]) /\ req' = req
      BY <1>1, <1>2, <1>3, OwnProcess DEF handle_dup, FdInv, TablesSound
  <2>2. IsTable(allocate(tb, e)) /\ Free(tb) \in Nat
      BY <1>1, OwnProcess, Allocates
  <2>3. mine' \in [Threads -> SUBSET Nat]
      BY <2>1, <2>2, Tells
  <2> QED
      BY <2>1, <2>2, <2>3, OwnProcess, Stays, HandlersStaySound, TablesStaySound DEF FdInv
<1>4. CASE ~IsVirtual(e)
  <2>1. PICK d : d = guest[Of[t]][v]
      OBVIOUS
  <2>2. IsTodo(<<[do |-> "dup", fd |-> e.kernel_fd], [do |-> "allocate"]>>)
      BY SoundSteps, Todos
  <2>3. /\ Begin(t, <<[do |-> "dup", fd |-> e.kernel_fd], [do |-> "allocate"]>>, <<d>>)
        /\ UNCHANGED <<table, mine>>
      BY <1>2, <1>4, <2>1 DEF handle_dup
  <2> QED
      BY <2>2, <2>3, Begins, Passive
<1> QED
    BY <1>3, <1>4

LEMMA Dup2Keeps ==
    ASSUME FdInv, NEW t \in Threads, NEW v, NEW to \in Nat, handle_dup2(t, v, to)
    PROVE  FdInv'
<1>1. PICK e : e = Entry(t, v)
    OBVIOUS
<1>2. PICK dup : dup = IF IsVirtual(e) THEN <<>> ELSE <<[do |-> "dup", fd |-> e.kernel_fd]>>
    OBVIOUS
<1>3. PICK closes : closes = Replaced(t, to)
    OBVIOUS
<1>4. PICK last : last = <<[do |-> "allocate_at", fd |-> to, entry |-> e]>>
    OBVIOUS
<1>5. IsTodo(dup)
    BY <1>2, SoundSteps, Todos
<1>6. IsTodo(closes)
    BY <1>3, ClosingIsTodo, Todos DEF Replaced
<1>7. IsTodo(last)
    BY <1>4, SoundSteps, Todos
<1>8. PICK todo : todo = dup \o closes \o last
    OBVIOUS
<1>9. IsTodo(todo)
    BY <1>5, <1>6, <1>7, <1>8, TodoJoined
<1>10. PICK means : means = <<guest[Of[t]][v]>>
    OBVIOUS
<1>11. Begin(t, todo, means) /\ UNCHANGED <<table, mine>>
    BY <1>1, <1>2, <1>3, <1>4, <1>8, <1>10 DEF handle_dup2, Untouched
<1> QED
    BY <1>9, <1>11, Begins, Passive

LEMMA ExitKeeps ==
    ASSUME FdInv, NEW t \in Threads, Exit(t)
    PROVE  FdInv'
<1>1. mine' = [u \in Threads |-> IF Of[u] = Of[t] THEN {} ELSE mine[u]] /\ UNCHANGED <<table, req>>
    BY DEF Exit
<1> QED
    BY <1>1 DEF FdInv, TablesSound, HandlersSound

LEMMA HandleKeeps ==
    ASSUME FdInv, NEW t \in Threads, Handle(t)
    PROVE  FdInv'
<1>1. Known(t) \subseteq Nat /\ mine[t] \cup Spare[t] \subseteq Nat /\ Minima \subseteq Nat
    BY SandboxAssumption DEF Known, FdInv
<1>2. CASE handle_openat(t) \/ handle_socket(t) \/ handle_pipe2(t)
    BY <1>2, LooksOnly DEF handle_openat, handle_socket
<1>3. ASSUME NEW f \in Paths, OpenVirtual(t, f) PROVE FdInv'
    BY <1>3, OpenVirtualKeeps
<1>4. CASE OnOwn(t)
  <2>1. PICK v \in Known(t) :
            \/ handle_write(t, v) \/ handle_fstat(t, v) \/ handle_close(t, v) \/ handle_dup(t, v)
            \/ \E min \in Minima : handle_fcntl(t, v, min)
            \/ \E to \in mine[t] \cup Spare[t] : handle_dup2(t, v, to)
            \/ \E call : PassesOn(t, call, v) \/ AnsweredBy(t, call, v)
      BY <1>4 DEF OnOwn, handle_read, handle_lseek, handle_getdents64, handle_ioctl, handle_pread64,
                  handle_pwrite64, handle_mmap, handle_readv, handle_writev, handle_sendto,
                  handle_connect, handle_getpeername
  <2>2. CASE \/ handle_write(t, v) \/ handle_fstat(t, v)
             \/ \E call : PassesOn(t, call, v) \/ AnsweredBy(t, call, v)
      BY <2>2, LooksOnly
  <2>3. CASE handle_close(t, v) \/ handle_dup(t, v)
      BY <2>3, CloseKeeps, DupKeeps
  <2>4. CASE \E min \in Minima : handle_fcntl(t, v, min)
      BY <1>1, <2>4, LooksOnly
  <2>5. CASE \E to \in mine[t] \cup Spare[t] : handle_dup2(t, v, to)
      BY <1>1, <2>5, Dup2Keeps
  <2> QED
      BY <2>1, <2>2, <2>3, <2>4, <2>5
<1>5. CASE OnPath(t)
  <2>1. \/ \E call, V : Relative(t, call, V)
        \/ \E call, v : PassesOn(t, call, v)
        \/ \E call, f, possible : Names(t, call, f, possible)
      BY <1>5 DEF OnPath, handle_statx, handle_newfstatat, handle_readlinkat, handle_faccessat,
                  handle_faccessat2, handle_fchownat, handle_symlinkat, handle_linkat,
                  handle_symlink, Link
  <2> QED
      BY <2>1, LooksOnly
<1>6. CASE OnSeveral(t)
  <2>1. \E V : handle_poll(t, V) \/ handle_pselect6(t, V)
      BY <1>6 DEF OnSeveral
  <2> QED
      BY <2>1, LooksOnly
<1>7. CASE \E p \in Procs : handle_fork(t, p)
    BY <1>7, LooksOnly
<1>8. CASE Exit(t)
    BY <1>8, ExitKeeps
<1> QED
    BY <1>2, <1>3, <1>4, <1>5, <1>6, <1>7, <1>8 DEF Handle

-----------------------------------------------------------------------------
(* What handlers await *)

LEMMA Awaiting ==
    ASSUME FdInv, NEW t \in Threads, NEW do, Awaits(t, do)
    PROVE  /\ HandlersSound /\ req[t].todo # <<>> /\ Sound(Head(req[t].todo))
           /\ IsHandler(req[t]) /\ Head(req[t].todo).do = do
BY TodoLeft DEF FdInv, Awaits, HandlersSound, IsHandler

(* Steps between kernel calls that touch no table. *)
LEMMA WaitsOnly ==
    ASSUME FdInv, NEW t \in Threads,
           Open(t) \/ Dup(t) \/ Close(t) \/ Call(t) \/ Report(t) \/ Store(t)
    PROVE  FdInv'
<1>1. CASE Open(t)
  <2>1. PICK got, means : got = Append(Next1(t).got, KernelFd(Of[t])) /\ means = Append(Next1(t).means, made')
      OBVIOUS
  <2>2. req' = [req EXCEPT ![t] = [Next1(t) EXCEPT !.got = got, !.means = means]] /\ UNCHANGED <<table, mine>>
      BY <1>1, <2>1 DEF Open
  <2>3. IsHandler([Next1(t) EXCEPT !.got = got, !.means = means])
      BY <1>1, Awaiting, NextIsHandler DEF Open
  <2> QED
      BY <2>2, <2>3, Passive DEF Handled
<1>2. CASE Dup(t)
  <2>1. UNCHANGED <<table, mine>>
      BY <1>2 DEF Dup
  <2>2. CASE Return(t)
      BY <2>1, <2>2, Returns, Passive
  <2>3. CASE ~Return(t)
    <3>1. PICK got : got = <<KernelFd(Of[t])>>
        OBVIOUS
    <3>2. req' = [req EXCEPT ![t] = [Next1(t) EXCEPT !.got = got]]
        BY <1>2, <2>3, <3>1 DEF Dup
    <3>3. IsHandler([Next1(t) EXCEPT !.got = got])
        BY <1>2, Awaiting, NextIsHandler DEF Dup
    <3> QED
        BY <2>1, <3>2, <3>3, Passive DEF Handled
  <2> QED
      BY <2>2, <2>3
<1>3. CASE Close(t) \/ Call(t) \/ Store(t)
    BY <1>3, Awaiting, Continues, Passive DEF Close, Call, Store
<1>4. CASE Report(t)
    BY <1>4, Returns, Passive DEF Report
<1> QED
    BY <1>1, <1>2, <1>3, <1>4

LEMMA WriteBackKeeps ==
    ASSUME FdInv, NEW t \in Threads, Fsync(t) \/ Create(t)
    PROVE  FdInv'
<1>1. UNCHANGED <<table, mine>> /\ HandlersSound /\ req[t].todo # <<>> /\ DOMAIN req = Threads
    BY Awaiting DEF Fsync, Create, HandlersSound
<1>2. PICK r : r = req[t]
    OBVIOUS
<1>3. r = [todo |-> r.todo, got |-> r.got, means |-> r.means, copy |-> r.copy] /\ IsTodo(r.todo)
    BY <1>1, <1>2 DEF HandlersSound, IsHandler
<1>4. ASSUME NEW do \in {"create", "store"}, NEW copy,
             NEW s, s = [r.todo EXCEPT ![1].do = do]
      PROVE  IsHandler([todo |-> s, got |-> r.got, means |-> r.means, copy |-> copy])
    BY <1>1, <1>2, <1>3, <1>4, TodoRenamed DEF IsHandler
<1>5. CASE Continue(t)
    BY <1>1, <1>5, Continues, Passive
<1>6. CASE Fsync(t) /\ ~Continue(t)
  <2>1. PICK copy : copy = file[Head(req[t].todo).of].data
      OBVIOUS
  <2>2. req' = [req EXCEPT ![t].copy = copy, ![t].todo[1].do = "create"]
      BY <1>6, <2>1 DEF Fsync
  <2>3. PICK s : s = [r.todo EXCEPT ![1].do = "create"]
      OBVIOUS
  <2>4. PICK q : q = [r EXCEPT !.copy = copy]
      OBVIOUS
  <2>5. q = [todo |-> r.todo, got |-> r.got, means |-> r.means, copy |-> copy] /\ q.todo = r.todo
      BY <1>3, <2>4
  <2>6. PICK one : one = [req EXCEPT ![t] = q]
      OBVIOUS
  <2>7. one[t] = q /\ [req EXCEPT ![t].copy = copy] = one
      BY <1>1, <1>2, <2>4, <2>6
  <2>8. req' = [one EXCEPT ![t].todo[1].do = "create"]
      BY <2>2, <2>7
  <2>9. req' = [one EXCEPT ![t] = [q EXCEPT !.todo = s]]
      BY <2>3, <2>5, <2>7, <2>8
  <2>10. [q EXCEPT !.todo = s] = [todo |-> s, got |-> r.got, means |-> r.means, copy |-> copy]
      BY <2>5
  <2>11. req' = [req EXCEPT ![t] = [todo |-> s, got |-> r.got, means |-> r.means, copy |-> copy]]
      BY <2>6, <2>9, <2>10
  <2> QED
      BY <1>1, <1>4, <2>3, <2>11, Passive DEF Handled
<1>7. CASE Create(t) /\ ~Continue(t)
  <2>1. req' = [req EXCEPT ![t].todo[1].do = "store"]
      BY <1>7 DEF Create
  <2>2. PICK s : s = [r.todo EXCEPT ![1].do = "store"]
      OBVIOUS
  <2>3. req' = [req EXCEPT ![t] = [r EXCEPT !.todo = s]]
      BY <1>2, <2>1, <2>2
  <2>4. [r EXCEPT !.todo = s] = [todo |-> s, got |-> r.got, means |-> r.means, copy |-> r.copy]
      BY <1>3
  <2>5. req' = [req EXCEPT ![t] = [todo |-> s, got |-> r.got, means |-> r.means, copy |-> r.copy]]
      BY <2>3, <2>4
  <2> QED
      BY <1>1, <1>4, <2>2, <2>5, Passive DEF Handled
<1> QED
    BY <1>5, <1>6, <1>7

LEMMA AllocateKeeps ==
    ASSUME FdInv, NEW t \in Threads, Allocate(t)
    PROVE  FdInv'
<1>1. PICK first : first = table[Of[t]]
    OBVIOUS
<1>2. PICK second : second = allocate(first, Passthrough(req[t].got[1]))
    OBVIOUS
<1>3. PICK third : third = allocate(second, Passthrough(req[t].got[2]))
    OBVIOUS
<1>4. IsTable(second) /\ Free(first) \in Nat /\ IsTable(third) /\ Free(second) \in Nat
    BY <1>1, <1>2, <1>3, OwnProcess, Allocates
<1>5. Handled(t)
    BY Returns DEF Allocate
<1>6. CASE Len(req[t].got) = 1
  <2>1. table' = [table EXCEPT ![Of[t]] = second] /\ Told(t, Free(first), req[t].means[1])
      BY <1>1, <1>2, <1>6 DEF Allocate
  <2>2. mine' \in [Threads -> SUBSET Nat]
      BY <1>4, <2>1, Tells
  <2> QED
      BY <1>4, <1>5, <2>1, <2>2, OwnProcess, HandlersStaySound, TablesStaySound DEF FdInv
<1>7. CASE Len(req[t].got) # 1
  <2>1. /\ table' = [table EXCEPT ![Of[t]] = third]
        /\ mine' = [mine EXCEPT ![t] = mine[t] \cup {Free(first), Free(second)}]
      BY <1>1, <1>2, <1>3, <1>7 DEF Allocate, FdInv
  <2>2. mine' \in [Threads -> SUBSET Nat]
      BY <1>4, <2>1 DEF FdInv
  <2> QED
      BY <1>4, <1>5, <2>1, <2>2, OwnProcess, HandlersStaySound, TablesStaySound DEF FdInv
<1> QED
    BY <1>6, <1>7

LEMMA AllocateMinKeeps ==
    ASSUME FdInv, NEW t \in Threads, AllocateMin(t)
    PROVE  FdInv'
<1>1. PICK tb : tb = table[Of[t]]
    OBVIOUS
<1>2. PICK min : min = Head(req[t].todo).min
    OBVIOUS
<1>3. PICK e : e = Passthrough(req[t].got[1])
    OBVIOUS
<1>4. min \in Nat
    BY <1>2, Awaiting DEF AllocateMin, Sound
<1>5. /\ table' = [table EXCEPT ![Of[t]] = allocate_min(tb, min, e)]
      /\ Told(t, AtLeast(tb, min), req[t].means[1]) /\ Return(t)
    BY <1>1, <1>2, <1>3, OwnProcess DEF AllocateMin, FdInv, TablesSound
<1>6. IsTable(allocate_min(tb, min, e)) /\ AtLeast(tb, min) \in Nat
    BY <1>1, <1>4, OwnProcess, AllocatesMin
<1>7. mine' \in [Threads -> SUBSET Nat]
    BY <1>5, <1>6, Tells
<1> QED
    BY <1>5, <1>6, <1>7, OwnProcess, Returns, HandlersStaySound, TablesStaySound DEF FdInv

LEMMA AllocateAtKeeps ==
    ASSUME FdInv, NEW t \in Threads, AllocateAt(t)
    PROVE  FdInv'
<1>1. PICK tb : tb = table[Of[t]]
    OBVIOUS
<1>2. PICK v : v = Head(req[t].todo).fd
    OBVIOUS
<1>3. PICK e : e = IF IsVirtual(Head(req[t].todo).entry) THEN Head(req[t].todo).entry
                   ELSE Passthrough(req[t].got[1])
    OBVIOUS
<1>4. v \in Nat
    BY <1>2, Awaiting DEF AllocateAt, Sound
<1>5. /\ table' = [table EXCEPT ![Of[t]] = allocate_at(tb, v, e)]
      /\ Told(t, v, req[t].means[1]) /\ Return(t)
    BY <1>1, <1>2, <1>3, OwnProcess DEF AllocateAt, FdInv, TablesSound
<1>6. IsTable(allocate_at(tb, v, e))
    BY <1>1, <1>4, OwnProcess, AllocatesAt
<1>7. mine' \in [Threads -> SUBSET Nat]
    BY <1>4, <1>5, Tells
<1> QED
    BY <1>5, <1>6, <1>7, OwnProcess, Returns, HandlersStaySound, TablesStaySound DEF FdInv

(* The child's thread uses descriptors of the parent's, and its process is *)
(* given a copy of the parent's table.                                     *)
LEMMA ForkKeeps ==
    ASSUME FdInv, NEW t \in Threads, Fork(t) \/ InsertTable(t)
    PROVE  FdInv'
<1>1. CASE Fork(t)
  <2>1. HandlersSound /\ req[t].todo # <<>> /\ Continue(t) /\ table' = table
      BY <1>1 DEF Fork, FdInv
  <2>2. \A u \in Threads : mine'[u] \subseteq mine[t] \/ mine'[u] = mine[u]
      BY <1>1 DEF Fork
  <2>3. mine' = [u \in Threads |-> mine'[u]]
      BY <1>1 DEF Fork
  <2>4. mine' \in [Threads -> SUBSET Nat]
      BY <2>2, <2>3 DEF FdInv
  <2> QED
      BY <2>1, <2>4, Continues, HandlersStaySound DEF FdInv, TablesSound
<1>2. CASE InsertTable(t)
  <2>1. HandlersSound /\ req[t].todo # <<>> /\ Continue(t) /\ mine' = mine
      BY <1>2, Awaiting DEF InsertTable
  <2>2. table' = [table EXCEPT ![Head(req[t].todo).to] = table[Of[t]]]
      BY <1>2 DEF InsertTable
  <2>3. TablesSound'
      BY <2>2, OwnProcess DEF FdInv, TablesSound
  <2> QED
      BY <2>1, <2>3, Continues, HandlersStaySound DEF FdInv
<1> QED
    BY <1>1, <1>2

-----------------------------------------------------------------------------
LEMMA InitFdInv == Init => FdInv
<1> SUFFICES ASSUME Init PROVE FdInv
    OBVIOUS
<1>1. TablesSound
    BY FreshIsTable DEF Init, TablesSound
<1>2. HandlersSound
    BY IdleIsHandler DEF Init, HandlersSound
<1>3. mine \in [Threads -> SUBSET Nat]
    BY SandboxAssumption DEF Init, Std
<1> QED
    BY <1>1, <1>2, <1>3 DEF FdInv

LEMMA NextFdInv == FdInv /\ [Next]_vars => FdInv'
<1> SUFFICES ASSUME FdInv, [Next]_vars PROVE FdInv'
    OBVIOUS
<1>1. CASE UNCHANGED vars
    BY <1>1 DEF vars, FdInv, TablesSound, HandlersSound
<1>2. ASSUME NEW t \in Threads, Handle(t) PROVE FdInv'
    BY <1>2, HandleKeeps
<1>3. ASSUME NEW t \in Threads, Resume(t) PROVE FdInv'
    BY <1>3, WaitsOnly, WriteBackKeeps, AllocateKeeps, AllocateMinKeeps, AllocateAtKeeps, ForkKeeps
       DEF Resume
<1> QED
    BY <1>1, <1>2, <1>3 DEF Next

(* FdTable::allocate finds the lowest user descriptor that has no entry,   *)
(* though it looks at its heap and its high-water mark only.               *)
THEOREM LowestIsGivenOut == Spec => []LowestFirst
<1>1. FdInv => LowestFirst
  <2> SUFFICES ASSUME FdInv, NEW p \in Procs
               PROVE  Free(table[p]) = Least(DOMAIN table[p].entries, FIRST_USER_FD)
      BY DEF LowestFirst
  <2>1. PICK tb, D : tb = table[p] /\ D = DOMAIN tb.entries
      OBVIOUS
  <2>2. IsTable(tb) /\ FIRST_USER_FD \in Nat
      BY <2>1 DEF FdInv, TablesSound, FIRST_USER_FD
  <2>3. D \in SUBSET Nat /\ IsFiniteSet(D)
    <3>1. PICK n \in Int : n = tb.next_vfd - 1
        BY <2>2 DEF IsTable
    <3>2. D \subseteq 0 .. n
        BY <2>1, <2>2, <3>1 DEF IsTable
    <3>3. IsFiniteSet(0 .. n)
        BY FS_Interval
    <3>4. IsFiniteSet(D)
        BY <3>2, <3>3, FS_Subset
    <3> QED
        BY <3>2, <3>4
  <2>4. IsLeast(Free(tb), D, FIRST_USER_FD) /\ IsLeast(Least(D, FIRST_USER_FD), D, FIRST_USER_FD)
      BY <2>1, <2>2, <2>3, FreeIsLeast, LeastIsLeast
  <2>5. \A x, y : IsLeast(x, D, FIRST_USER_FD) /\ IsLeast(y, D, FIRST_USER_FD) => x = y
      BY DEF IsLeast
  <2> QED
      BY <2>1, <2>4, <2>5
<1> QED
    BY <1>1, InitFdInv, NextFdInv, PTL DEF Spec

-----------------------------------------------------------------------------
(* The second invariant, of one process: E are the entries of its table, K *)
(* its kernel descriptors, G what the guest was told, T its threads, R the *)
(* handlers and M the descriptors each thread uses.                        *)

Fds(s, kind) == {do.fd : do \in {x \in Range(s) : x.do = kind}}

Dups(r) == Fds(r.todo, "dup")
Closes(r) == Fds(r.todo, "close")
Targets(r) == Fds(r.todo, "allocate_at")

(* The kernel descriptors that are only in a handler's hand. *)
Hand(r) == Closes(r) \cup Range(r.got)

(* The entries that no dup2 is about to replace. *)
Kept(E, T, R) == DOMAIN E \ UNION {Targets(R[t]) : t \in T}

Serves(e, K, d) == IF IsVirtual(e) THEN e.file_ops = d
                   ELSE e.kernel_fd \in DOMAIN K /\ K[e.kernel_fd] = d

(* Nobody aims a dup2 at a descriptor of another thread of the process.    *)
Unraced(T, R, M) ==
    \A t, u \in T : t # u => Targets(R[t]) \cap (M[u] \cup Targets(R[u])) = {}

(* A kernel descriptor has one owner: an entry or the hand of a handler.   *)
KeptServe(E, K, G, T, R) == \A v \in Kept(E, T, R) : Serves(E[v], K, G[v])
KeptApart(E, T, R) ==
    \A v, w \in Kept(E, T, R) : ~IsVirtual(E[v]) /\ E[v].kernel_fd = E[w].kernel_fd => v = w
AllOwned(E, K, T, R) ==
    \A k \in DOMAIN K : \/ \E v \in Kept(E, T, R) : E[v].kernel_fd = k
                        \/ \E t \in T : k \in Hand(R[t])
HandsOwn(E, K, T, R) ==
    \A t \in T : \A k \in Hand(R[t]) : k \in DOMAIN K /\ \A v \in Kept(E, T, R) : E[v].kernel_fd # k
Separate(T, R, M) ==
    \A t, u \in T : t # u => Hand(R[t]) \cap Hand(R[u]) = {} /\ M[t] \cap M[u] = {}

(* What a handler has in hand is what it was asked for; what it is to      *)
(* duplicate will be there, since it is its thread's or its own to close.  *)
Works(E, K, r, m) ==
    /\ m \subseteq DOMAIN E
    /\ Closes(r) \cap Range(r.got) = {}
    /\ \A i, j \in DOMAIN r.got : r.got[i] = r.got[j] => i = j
    /\ \A i \in DOMAIN r.got : K[r.got[i]] = r.means[i]
    /\ \A k \in Dups(r) :
          /\ k \in DOMAIN K /\ K[k] = r.means[1]
          /\ k \in Closes(r) \/ \E v \in m \ Targets(r) : E[v].kernel_fd = k

Consistent(E, K, G, T, R, M) ==
    /\ DOMAIN K \subseteq Nat
    /\ DOMAIN G = DOMAIN E
    /\ KeptServe(E, K, G, T, R)
    /\ KeptApart(E, T, R)
    /\ AllOwned(E, K, T, R)
    /\ HandsOwn(E, K, T, R)
    /\ Separate(T, R, M)
    /\ \A t \in T : Works(E, K, R[t], M[t])

(* A handler goes on with the same descriptors in hand. *)
LEMMA SameHand ==
    ASSUME NEW E, NEW K, NEW G, NEW T, NEW R, NEW M, Consistent(E, K, G, T, R, M),
           NEW t \in T, NEW Q, \A u \in T \ {t} : Q[u] = R[u],
           Hand(Q[t]) = Hand(R[t]), Targets(Q[t]) = Targets(R[t]), Works(E, K, Q[t], M[t])
    PROVE  Consistent(E, K, G, T, Q, M)
<1>1. \A u \in T : Hand(Q[u]) = Hand(R[u]) /\ Targets(Q[u]) = Targets(R[u])
    OBVIOUS
<1>2. Kept(E, T, Q) = Kept(E, T, R)
    BY <1>1 DEF Kept
<1>3. KeptServe(E, K, G, T, Q) /\ KeptApart(E, T, Q)
    BY <1>2 DEF Consistent, KeptServe, KeptApart
<1>4. AllOwned(E, K, T, Q) /\ HandsOwn(E, K, T, Q)
    BY <1>1, <1>2 DEF Consistent, AllOwned, HandsOwn
<1>5. Separate(T, Q, M)
    BY <1>1 DEF Consistent, Separate
<1>6. \A u \in T : Works(E, K, Q[u], M[u])
    BY DEF Consistent
<1> QED
    BY <1>3, <1>4, <1>5, <1>6 DEF Consistent

(* A handler is given a new kernel descriptor. *)
GivesOne(E, K, T, R, M, t, k, L, Q) ==
    /\ t \in T /\ \A u \in T \ {t} : Q[u] = R[u]
    /\ k \in Nat \ DOMAIN K
    /\ DOMAIN L = DOMAIN K \cup {k} /\ \A j \in DOMAIN K : L[j] = K[j]
    /\ Hand(Q[t]) = Hand(R[t]) \cup {k} /\ Targets(Q[t]) = Targets(R[t])
    /\ Works(E, L, Q[t], M[t])

LEMMA GivenOne ==
    ASSUME NEW E, NEW K, NEW G, NEW T, NEW R, NEW M, Consistent(E, K, G, T, R, M),
           NEW t, NEW k, NEW L, NEW Q, GivesOne(E, K, T, R, M, t, k, L, Q)
    PROVE  Consistent(E, L, G, T, Q, M)
<1> USE DEF GivesOne
<1>1. \A u \in T : /\ Targets(Q[u]) = Targets(R[u])
                   /\ Hand(Q[u]) = IF u = t THEN Hand(R[t]) \cup {k} ELSE Hand(R[u])
    OBVIOUS
<1>2. Kept(E, T, Q) = Kept(E, T, R)
    BY <1>1 DEF Kept
<1>3. \A v \in Kept(E, T, R) : E[v].kernel_fd # k
    BY DEF Consistent, KeptServe, Serves, IsVirtual, Unset
<1>4. KeptServe(E, L, G, T, Q) /\ KeptApart(E, T, Q)
    BY <1>2 DEF Consistent, KeptServe, KeptApart, Serves
<1>5. AllOwned(E, L, T, Q)
    BY <1>1, <1>2 DEF Consistent, AllOwned
<1>6. HandsOwn(E, L, T, Q)
    BY <1>1, <1>2, <1>3 DEF Consistent, HandsOwn
<1>7. Separate(T, Q, M)
    BY <1>1 DEF Consistent, Separate, HandsOwn
<1>8. ASSUME NEW u \in T \ {t} PROVE Works(E, L, Q[u], M[u])
  <2>1. Works(E, K, Q[u], M[u]) /\ Range(Q[u].got) \subseteq DOMAIN K
      BY DEF Consistent, HandsOwn, Hand
  <2>2. \A i \in DOMAIN Q[u].got : Q[u].got[i] \in DOMAIN K
      BY <2>1 DEF Range
  <2> QED
      BY <2>1, <2>2 DEF Works
<1> QED
    BY <1>4, <1>5, <1>6, <1>7, <1>8 DEF Consistent

(* A handler closes a kernel descriptor it has in hand. *)
ClosesIt(E, K, T, R, M, t, k, L, Q) ==
    /\ Unraced(T, R, M) /\ t \in T /\ \A u \in T \ {t} : Q[u] = R[u]
    /\ k \in Hand(R[t])
    /\ DOMAIN L = DOMAIN K \ {k} /\ \A j \in DOMAIN L : L[j] = K[j]
    /\ Hand(Q[t]) = Hand(R[t]) \ {k} /\ Targets(Q[t]) = Targets(R[t])
    /\ Works(E, L, Q[t], M[t])

LEMMA ClosesOne ==
    ASSUME NEW E, NEW K, NEW G, NEW T, NEW R, NEW M, Consistent(E, K, G, T, R, M),
           NEW t, NEW k, NEW L, NEW Q, ClosesIt(E, K, T, R, M, t, k, L, Q)
    PROVE  Consistent(E, L, G, T, Q, M)
<1> USE DEF ClosesIt
<1>1. \A u \in T : /\ Targets(Q[u]) = Targets(R[u])
                   /\ Hand(Q[u]) = IF u = t THEN Hand(R[t]) \ {k} ELSE Hand(R[u])
    OBVIOUS
<1>2. Kept(E, T, Q) = Kept(E, T, R)
    BY <1>1 DEF Kept
<1>3. \A v \in Kept(E, T, R) : E[v].kernel_fd # k
    BY DEF Consistent, HandsOwn
<1>4. KeptServe(E, L, G, T, Q) /\ KeptApart(E, T, Q)
    BY <1>2, <1>3 DEF Consistent, KeptServe, KeptApart, Serves
<1>5. AllOwned(E, L, T, Q)
    BY <1>1, <1>2 DEF Consistent, AllOwned
<1>6. HandsOwn(E, L, T, Q)
    BY <1>1, <1>2 DEF Consistent, HandsOwn, Separate
<1>7. Separate(T, Q, M)
    BY <1>1 DEF Consistent, Separate
<1>8. ASSUME NEW u \in T \ {t} PROVE Works(E, L, Q[u], M[u])
  <2>1. Works(E, K, Q[u], M[u]) /\ Hand(Q[u]) \subseteq DOMAIN L
      BY <1>1 DEF Consistent, HandsOwn, Separate
  <2>2. \A i \in DOMAIN Q[u].got : Q[u].got[i] \in DOMAIN L
      BY <2>1 DEF Range, Hand
  <2>3. ASSUME NEW j \in Dups(Q[u]) PROVE j \in DOMAIN L
    <3>1. CASE j \in Closes(Q[u])
        BY <2>1, <3>1 DEF Hand
    <3>2. ASSUME NEW v \in M[u] \ Targets(Q[u]), E[v].kernel_fd = j PROVE j \in DOMAIN L
      <4>1. v \in Kept(E, T, R)
        <5>1. v \in DOMAIN E
            BY <2>1 DEF Works
        <5>2. \A w \in T : v \notin Targets(R[w])
            BY DEF Unraced
        <5> QED
            BY <5>1, <5>2 DEF Kept
      <4> QED
          BY <1>3, <2>1, <3>2, <4>1 DEF Works
    <3> QED
        BY <2>1, <3>1, <3>2 DEF Works
  <2> QED
      BY <2>1, <2>2, <2>3 DEF Works
<1> QED
    BY <1>4, <1>5, <1>6, <1>7, <1>8 DEF Consistent

(* The kernel descriptor of an entry. *)
KernelOf(e) == IF IsVirtual(e) THEN {} ELSE {e.kernel_fd}

(* A dup2 aims at a descriptor: what that is becomes its own to close.     *)
LEMMA AimsAt ==
    ASSUME NEW E, NEW K, NEW G, NEW T, NEW R, NEW M, Consistent(E, K, G, T, R, M),
           NEW t \in T, NEW Q, \A u \in T \ {t} : Q[u] = R[u], Unraced(T, Q, M),
           NEW to, Hand(R[t]) = {}, Targets(R[t]) = {}, Targets(Q[t]) = {to},
           Hand(Q[t]) = IF to \in DOMAIN E THEN KernelOf(E[to]) ELSE {},
           Works(E, K, Q[t], M[t])
    PROVE  Consistent(E, K, G, T, Q, M)
<1>1. \A u \in T : u # t => to \notin Targets(Q[u]) /\ Targets(Q[u]) = Targets(R[u])
    BY DEF Unraced
<1>2. to \in DOMAIN E => to \in Kept(E, T, R)
    BY <1>1 DEF Kept
<1>3. Kept(E, T, Q) = Kept(E, T, R) \ {to}
    BY <1>1 DEF Kept
<1>4. KeptServe(E, K, G, T, Q) /\ KeptApart(E, T, Q)
    BY <1>3 DEF Consistent, KeptServe, KeptApart
<1>5. ASSUME NEW k \in DOMAIN K
      PROVE  (\E v \in Kept(E, T, Q) : E[v].kernel_fd = k) \/ \E u \in T : k \in Hand(Q[u])
  <2>1. CASE \E u \in T : k \in Hand(R[u])
      BY <2>1
  <2>2. ASSUME NEW v \in Kept(E, T, R), E[v].kernel_fd = k
        PROVE  (\E w \in Kept(E, T, Q) : E[w].kernel_fd = k) \/ \E u \in T : k \in Hand(Q[u])
    <3>1. CASE v = to
      <4>1. ~IsVirtual(E[v]) /\ v \in DOMAIN E
          BY <2>2 DEF Consistent, IsVirtual, Unset, Kept
      <4> QED
          BY <2>2, <3>1, <4>1 DEF KernelOf
    <3> QED
        BY <1>3, <2>2, <3>1
  <2> QED
      BY <2>1, <2>2 DEF Consistent, AllOwned
<1>6. \A u \in T \ {t} : Hand(Q[u]) = Hand(R[u])
    OBVIOUS
<1>7. ASSUME NEW k \in Hand(Q[t])
      PROVE  /\ k \in DOMAIN K /\ \A v \in Kept(E, T, Q) : E[v].kernel_fd # k
             /\ \A u \in T \ {t} : k \notin Hand(R[u])
  <2>1. to \in Kept(E, T, R) /\ ~IsVirtual(E[to]) /\ k = E[to].kernel_fd
      BY <1>2, <1>7 DEF KernelOf
  <2> QED
      BY <1>3, <2>1 DEF Consistent, KeptServe, KeptApart, HandsOwn, Serves
<1>8. HandsOwn(E, K, T, Q)
    BY <1>3, <1>6, <1>7 DEF Consistent, HandsOwn
<1>9. Separate(T, Q, M)
    BY <1>6, <1>7 DEF Consistent, Separate
<1> QED
    BY <1>4, <1>5, <1>8, <1>9 DEF Consistent, AllOwned

(* A thread closes one of its descriptors. *)
DroppedFrom(E, F, v) == DOMAIN F = DOMAIN E \ {v} /\ \A w \in DOMAIN F : F[w] = E[w]

DropsOne(E, K, G, T, R, M, t, v, F, H, Q, N) ==
    /\ Unraced(T, R, M) /\ t \in T
    /\ v \in M[t] /\ N[t] = M[t] \ {v}
    /\ \A u \in T \ {t} : Q[u] = R[u] /\ N[u] = M[u]
    /\ DroppedFrom(E, F, v) /\ DroppedFrom(G, H, v)
    /\ Hand(R[t]) = {} /\ Targets(R[t]) = {} /\ Targets(Q[t]) = {} /\ Hand(Q[t]) = KernelOf(E[v])
    /\ Works(F, K, Q[t], N[t])

LEMMA Drops ==
    ASSUME NEW E, NEW K, NEW G, NEW T, NEW R, NEW M, Consistent(E, K, G, T, R, M),
           NEW t, NEW v, NEW F, NEW H, NEW Q, NEW N,
           DropsOne(E, K, G, T, R, M, t, v, F, H, Q, N)
    PROVE  Consistent(F, K, H, T, Q, N)
<1> USE DEF DropsOne, DroppedFrom
<1>1. \A u \in T : Targets(Q[u]) = Targets(R[u]) /\ v \notin Targets(R[u])
    BY DEF Unraced
<1>2. v \in DOMAIN E
    BY DEF Consistent, Works
<1>3. v \in Kept(E, T, R) /\ Kept(F, T, Q) = Kept(E, T, R) \ {v}
    BY <1>1, <1>2 DEF Kept
<1>4. DOMAIN H = DOMAIN F /\ \A w \in Kept(F, T, Q) : F[w] = E[w] /\ H[w] = G[w]
    BY DEF Consistent, Kept
<1>5. KeptServe(F, K, H, T, Q) /\ KeptApart(F, T, Q)
    BY <1>3, <1>4 DEF Consistent, KeptServe, KeptApart
<1>6. ASSUME NEW k \in DOMAIN K
      PROVE  (\E w \in Kept(F, T, Q) : F[w].kernel_fd = k) \/ \E u \in T : k \in Hand(Q[u])
  <2>1. CASE \E u \in T : k \in Hand(R[u])
      BY <2>1
  <2>2. ASSUME NEW w \in Kept(E, T, R), E[w].kernel_fd = k
        PROVE  (\E x \in Kept(F, T, Q) : F[x].kernel_fd = k) \/ \E u \in T : k \in Hand(Q[u])
    <3>1. CASE w = v
      <4>1. ~IsVirtual(E[v])
          BY <2>2, <3>1 DEF Consistent, IsVirtual, Unset
      <4> QED
          BY <2>2, <3>1, <4>1 DEF KernelOf
    <3> QED
        BY <1>3, <1>4, <2>2, <3>1
  <2> QED
      BY <2>1, <2>2 DEF Consistent, AllOwned
<1>7. ASSUME NEW k \in Hand(Q[t])
      PROVE  /\ k \in DOMAIN K /\ \A w \in Kept(F, T, Q) : F[w].kernel_fd # k
             /\ \A u \in T \ {t} : k \notin Hand(R[u])
  <2>1. ~IsVirtual(E[v]) /\ k = E[v].kernel_fd
      BY <1>7 DEF KernelOf
  <2> QED
      BY <1>3, <1>4, <2>1 DEF Consistent, KeptServe, KeptApart, HandsOwn, Serves
<1>8. HandsOwn(F, K, T, Q)
    BY <1>3, <1>4, <1>7 DEF Consistent, HandsOwn
<1>9. Separate(T, Q, N)
    BY <1>7 DEF Consistent, Separate
<1>10. ASSUME NEW u \in T \ {t} PROVE Works(F, K, Q[u], N[u])
  <2>1. Works(E, K, Q[u], N[u]) /\ v \notin N[u]
      BY DEF Consistent, Separate
  <2>2. N[u] \subseteq DOMAIN F /\ \A w \in N[u] : F[w] = E[w]
      BY <2>1 DEF Works
  <2> QED
      BY <2>1, <2>2 DEF Works
<1> QED
    BY <1>4, <1>5, <1>6, <1>8, <1>9, <1>10 DEF Consistent, AllOwned

(* A thread is given v, for e and so for d, or its dup2 arrives there.     *)
PlacedIn(E, F, v, e) ==
    DOMAIN F = DOMAIN E \cup {v} /\ F[v] = e /\ \A w \in DOMAIN E \ {v} : F[w] = E[w]

PlacesOne(E, K, G, T, R, M, t, v, e, d, F, H, Q, N) ==
    /\ Unraced(T, Q, N) /\ t \in T
    /\ N[t] = M[t] \cup {v}
    /\ \A u \in T \ {t} : Q[u] = R[u] /\ N[u] = M[u]
    /\ \A u \in T \ {t} : v \notin M[u] \cup Targets(R[u])
    /\ v \notin DOMAIN E \/ Targets(R[t]) = {v}
    /\ Targets(R[t]) \subseteq {v} /\ Targets(Q[t]) = {}
    /\ PlacedIn(E, F, v, e) /\ PlacedIn(G, H, v, d)
    /\ Serves(e, K, d) /\ KernelOf(e) \subseteq Hand(R[t]) /\ Hand(Q[t]) = Hand(R[t]) \ KernelOf(e)
    /\ Works(F, K, Q[t], N[t])

LEMMA Places ==
    ASSUME NEW E, NEW K, NEW G, NEW T, NEW R, NEW M, Consistent(E, K, G, T, R, M),
           NEW t, NEW v, NEW e, NEW d, NEW F, NEW H, NEW Q, NEW N,
           PlacesOne(E, K, G, T, R, M, t, v, e, d, F, H, Q, N)
    PROVE  Consistent(F, K, H, T, Q, N)
<1> USE DEF PlacesOne, PlacedIn
<1>1. \A u \in T \ {t} : Targets(Q[u]) = Targets(R[u]) /\ Hand(Q[u]) = Hand(R[u])
    OBVIOUS
<1>2. v \notin Kept(E, T, R)
    BY DEF Kept
<1>3. Kept(F, T, Q) = Kept(E, T, R) \cup {v}
  <2>1. ASSUME NEW w \in Kept(F, T, Q), w # v PROVE w \in Kept(E, T, R)
    <3>1. w \in DOMAIN E /\ \A u \in T \ {t} : w \notin Targets(R[u])
        BY <1>1, <2>1 DEF Kept
    <3> QED
        BY <2>1, <3>1 DEF Kept
  <2>2. ASSUME NEW w \in Kept(E, T, R) PROVE w \in Kept(F, T, Q)
      BY <1>1, <2>2 DEF Kept
  <2>3. v \in Kept(F, T, Q)
      BY <1>1 DEF Kept
  <2> QED
      BY <2>1, <2>2, <2>3
<1>4. DOMAIN H = DOMAIN F /\ \A w \in Kept(E, T, R) : F[w] = E[w] /\ H[w] = G[w]
    BY <1>2 DEF Consistent, Kept
<1>5. KeptServe(F, K, H, T, Q)
    BY <1>3, <1>4 DEF Consistent, KeptServe
<1>6. ~IsVirtual(e) => \A w \in Kept(E, T, R) : E[w].kernel_fd # e.kernel_fd
    BY DEF Consistent, HandsOwn, KernelOf
<1>7. KeptApart(F, T, Q)
  <2> SUFFICES ASSUME NEW x \in Kept(F, T, Q), NEW w \in Kept(F, T, Q),
                      ~IsVirtual(F[x]), F[x].kernel_fd = F[w].kernel_fd
               PROVE  x = w
      BY DEF KeptApart
  <2>1. CASE x = v /\ w # v
      BY <1>3, <1>4, <1>6, <2>1
  <2>2. CASE x # v /\ w = v
      BY <1>3, <1>4, <1>6, <2>2 DEF IsVirtual
  <2>3. CASE x # v /\ w # v
      BY <1>3, <1>4, <2>3 DEF Consistent, KeptApart
  <2> QED
      BY <2>1, <2>2, <2>3
<1>8. ASSUME NEW k \in DOMAIN K
      PROVE  (\E w \in Kept(F, T, Q) : F[w].kernel_fd = k) \/ \E u \in T : k \in Hand(Q[u])
  <2>1. CASE \E w \in Kept(E, T, R) : E[w].kernel_fd = k
      BY <1>3, <1>4, <2>1
  <2>2. ASSUME NEW u \in T, k \in Hand(R[u])
        PROVE  (\E w \in Kept(F, T, Q) : F[w].kernel_fd = k) \/ \E x \in T : k \in Hand(Q[x])
    <3>1. CASE k \in KernelOf(e)
        BY <1>3, <3>1 DEF KernelOf
    <3> QED
        BY <1>1, <2>2, <3>1
  <2> QED
      BY <2>1, <2>2 DEF Consistent, AllOwned
<1>9. HandsOwn(F, K, T, Q)
  <2> SUFFICES ASSUME NEW u \in T, NEW k \in Hand(Q[u])
               PROVE  k \in DOMAIN K /\ \A w \in Kept(F, T, Q) : F[w].kernel_fd # k
      BY DEF HandsOwn
  <2>1. k \in Hand(R[u]) /\ k \notin KernelOf(e)
      BY <1>1 DEF Consistent, Separate
  <2>2. k \in DOMAIN K /\ k # Unset /\ \A w \in Kept(E, T, R) : E[w].kernel_fd # k
      BY <2>1 DEF Consistent, HandsOwn, Unset
  <2>3. F[v].kernel_fd # k
      BY <2>1, <2>2 DEF KernelOf, IsVirtual
  <2> QED
      BY <1>3, <1>4, <2>2, <2>3
<1>10. Separate(T, Q, N)
    BY <1>1 DEF Consistent, Separate
<1>11. ASSUME NEW u \in T \ {t} PROVE Works(F, K, Q[u], N[u])
  <2>1. Works(E, K, Q[u], N[u]) /\ v \notin N[u]
      BY DEF Consistent
  <2>2. N[u] \subseteq DOMAIN F /\ \A w \in N[u] : F[w] = E[w]
      BY <2>1 DEF Works
  <2> QED
      BY <2>1, <2>2 DEF Works
<1> QED
    BY <1>4, <1>5, <1>7, <1>8, <1>9, <1>10, <1>11 DEF Consistent, AllOwned

(* A handler with nothing in hand and nothing to duplicate. *)
EmptyHanded(r) == r.got = <<>> /\ Closes(r) = {} /\ Dups(r) = {} /\ Targets(r) = {}

(* A process is given a copy of everything, while nothing is under way.    *)
LEMMA Copies ==
    ASSUME NEW E, NEW K, NEW G, NEW T, NEW R, NEW M, Consistent(E, K, G, T, R, M),
           NEW S, NEW Q, NEW N,
           \A u \in T : EmptyHanded(R[u]), \A u \in S : EmptyHanded(Q[u]),
           \A u \in S : N[u] \subseteq DOMAIN E, \A u, w \in S : u = w
    PROVE  Consistent(E, K, G, S, Q, N)
<1>1. \A r : EmptyHanded(r) => Hand(r) = {} /\ DOMAIN r.got = {}
    BY DEF EmptyHanded, Hand, Range
<1>2. Kept(E, T, R) = DOMAIN E /\ Kept(E, S, Q) = DOMAIN E
  <2>1. UNION {Targets(R[u]) : u \in T} = {}
      BY DEF EmptyHanded
  <2>2. UNION {Targets(Q[u]) : u \in S} = {}
      BY DEF EmptyHanded
  <2> QED
      BY <2>1, <2>2 DEF Kept
<1>3. KeptServe(E, K, G, S, Q) /\ KeptApart(E, S, Q)
    BY <1>2 DEF Consistent, KeptServe, KeptApart
<1>4. AllOwned(E, K, S, Q)
    BY <1>1, <1>2 DEF Consistent, AllOwned
<1>5. HandsOwn(E, K, S, Q) /\ Separate(S, Q, N)
    BY <1>1 DEF HandsOwn, Separate
<1>6. \A u \in S : Works(E, K, Q[u], N[u])
    BY <1>1 DEF Works, EmptyHanded
<1> QED
    BY <1>3, <1>4, <1>5, <1>6 DEF Consistent

(* What other processes do is not seen. *)
LEMMA OtherProcess ==
    ASSUME NEW E, NEW K, NEW G, NEW T, NEW R, NEW M, Consistent(E, K, G, T, R, M),
           NEW Q, NEW N, \A u \in T : Q[u] = R[u] /\ N[u] = M[u]
    PROVE  Consistent(E, K, G, T, Q, N)
<1>1. Kept(E, T, Q) = Kept(E, T, R)
    BY DEF Kept
<1>2. KeptServe(E, K, G, T, Q) /\ KeptApart(E, T, Q)
    BY <1>1 DEF Consistent, KeptServe, KeptApart
<1>3. AllOwned(E, K, T, Q) /\ HandsOwn(E, K, T, Q) /\ Separate(T, Q, N)
    BY <1>1 DEF Consistent, AllOwned, HandsOwn, Separate
<1> QED
    BY <1>2, <1>3 DEF Consistent

-----------------------------------------------------------------------------
(* What a handler can have to do. *)

ToOpen == [do |-> "open"]
ToAllocate == [do |-> "allocate"]
ToAllocateMin(min) == [do |-> "allocate_min", min |-> min]
ToAllocateAt(to, e) == [do |-> "allocate_at", fd |-> to, entry |-> e]
ToDup(k) == [do |-> "dup", fd |-> k]
ToClose(k) == [do |-> "close", fd |-> k]
ToFork(p) == [do |-> "fork", to |-> p]
ToInsert(p) == [do |-> "insert_fd_table", to |-> p]

Quiet == {"call", "report", "fsync", "create", "store"}
IsQuiet(s) == \E a, b : a.do \in Quiet /\ b.do \in Quiet /\ (s = <<a>> \/ s = <<a, b>>)

Gives(x) == x = ToAllocate \/ \E min : x = ToAllocateMin(min)
Closing1(m) == \/ \E k : m = ToClose(k)
               \/ \E w \in {"fsync", "create", "store"} : \E d : m = [do |-> w, of |-> d]

Forking(r) == r.got = <<>> /\ \E p : r.todo = <<ToFork(p), ToInsert(p)>> \/ r.todo = <<ToInsert(p)>>

Opening(r) ==
    \/ r.todo = <<ToOpen, ToOpen, ToAllocate>> /\ r.got = <<>> /\ r.means = <<>>
    \/ r.todo = <<ToOpen, ToAllocate>> /\ r.got = <<>> /\ r.means = <<>>
    \/ r.todo = <<ToOpen, ToAllocate>> /\ \E k, d : r.got = <<k>> /\ r.means = <<d>>

Placing(r) ==
    \/ \E x, k, d : Gives(x) /\ r.todo = <<x>> /\ r.got = <<k>> /\ r.means = <<d>>
    \/ r.todo = <<ToAllocate>> /\ \E k, d, j, c : r.got = <<k, j>> /\ r.means = <<d, c>>

Duplicating(r) ==
    \E x, k, d : Gives(x) /\ r.todo = <<ToDup(k), x>> /\ r.got = <<>> /\ r.means = <<d>>

Moving(r) ==
    \E to, e, m, d, k :
        /\ Closing1(m) /\ r.means = <<d>>
        /\ \/ /\ r.todo = <<ToAllocateAt(to, e)>> \/ r.todo = <<m, ToAllocateAt(to, e)>>
              /\ IF IsVirtual(e) THEN e.file_ops = d /\ r.got = <<>> ELSE r.got = <<k>>
           \/ /\ ~IsVirtual(e) /\ r.got = <<>>
              /\ \/ r.todo = <<ToDup(k), ToAllocateAt(to, e)>>
                 \/ r.todo = <<ToDup(k), m, ToAllocateAt(to, e)>>

Shape(r) ==
    \/ r.todo = <<>> /\ r.got = <<>>
    \/ IsQuiet(r.todo) /\ r.got = <<>>
    \/ Forking(r)
    \/ r.got = <<>> /\ \E k : r.todo = <<ToClose(k)>>
    \/ Opening(r) \/ Placing(r) \/ Duplicating(r) \/ Moving(r)

One(a, kind) == IF a.do = kind THEN {a.fd} ELSE {}

LEMMA FdsOf ==
    /\ \A kind : Fds(<<>>, kind) = {}
    /\ \A kind, a : Fds(<<a>>, kind) = One(a, kind)
    /\ \A kind, a, b : Fds(<<a, b>>, kind) = One(a, kind) \cup One(b, kind)
<1>1. /\ Range(<<>>) = {}
      /\ \A a : Range(<<a>>) = {a}
      /\ \A a, b : Range(<<a, b>>) = {a, b}
    BY DEF Range
<1>2. \A kind : Fds(<<>>, kind) = {}
    BY <1>1 DEF Fds
<1>3. \A kind, a : Fds(<<a>>, kind) = One(a, kind)
    BY <1>1 DEF Fds, One
<1>4. \A kind, a, b : Fds(<<a, b>>, kind) = One(a, kind) \cup One(b, kind)
    BY <1>1 DEF Fds, One
<1> QED
    BY <1>2, <1>3, <1>4

LEMMA FdsOfThree ==
    ASSUME NEW kind, NEW a, NEW b, NEW c
    PROVE  Fds(<<a, b, c>>, kind) = One(a, kind) \cup One(b, kind) \cup One(c, kind)
<1>1. Range(<<a, b, c>>) = {a, b, c}
    BY DEF Range
<1> QED
    BY <1>1 DEF Fds, One

LEMMA Tuples ==
    /\ Range(<<>>) = {}
    /\ \A a : /\ Range(<<a>>) = {a} /\ <<a>> # <<>> /\ Head(<<a>>) = a /\ Len(<<a>>) = 1 /\ <<a>>[1] = a
              /\ DOMAIN <<a>> = {1}
    /\ \A a, b : /\ Range(<<a, b>>) = {a, b} /\ <<a, b>> # <<>> /\ Head(<<a, b>>) = a /\ Len(<<a, b>>) = 2
                 /\ Tail(<<a, b>>) = <<b>> /\ <<a, b>>[1] = a /\ <<a, b>>[2] = b /\ DOMAIN <<a, b>> = {1, 2}
    /\ \A a, b, c : /\ <<a, b, c>> # <<>> /\ Head(<<a, b, c>>) = a /\ Len(<<a, b, c>>) = 3
                    /\ Tail(<<a, b, c>>) = <<b, c>>
    /\ \A a, b, c, d : <<a>> = <<b>> => a = b
    /\ \A a, b, c, d : <<a, b>> = <<c, d>> => a = c /\ b = d
BY DEF Range

(* The descriptors that what a handler has to do is about. *)
LEMMA OneOf ==
    /\ \A kind \in {"dup", "close", "allocate_at"} :
          /\ One(ToOpen, kind) = {} /\ One(ToAllocate, kind) = {}
          /\ \A x : Gives(x) => One(x, kind) = {}
          /\ \A a : a.do \in Quiet => One(a, kind) = {}
          /\ \A p : One(ToFork(p), kind) = {} /\ One(ToInsert(p), kind) = {}
    /\ \A k : One(ToDup(k), "dup") = {k} /\ One(ToDup(k), "close") = {} /\ One(ToDup(k), "allocate_at") = {}
    /\ \A k : One(ToClose(k), "dup") = {} /\ One(ToClose(k), "close") = {k} /\ One(ToClose(k), "allocate_at") = {}
    /\ \A to, e : /\ One(ToAllocateAt(to, e), "dup") = {} /\ One(ToAllocateAt(to, e), "close") = {}
                  /\ One(ToAllocateAt(to, e), "allocate_at") = {to}
    /\ \A m : Closing1(m) => One(m, "dup") = {} /\ One(m, "allocate_at") = {}
BY DEF One, ToOpen, ToAllocate, ToAllocateMin, ToAllocateAt, ToDup, ToClose, ToFork, ToInsert, Quiet, Gives,
       Closing1

LEMMA NothingToDo ==
    /\ \A r : r.todo = <<>> /\ r.got = <<>> => EmptyHanded(r) /\ Hand(r) = {}
    /\ \A r : IsQuiet(r.todo) /\ r.got = <<>> => EmptyHanded(r) /\ Hand(r) = {}
    /\ \A r : Forking(r) => EmptyHanded(r) /\ Hand(r) = {}
    /\ Idle.todo = <<>> /\ Idle.got = <<>> /\ Idle.means = <<>> /\ Shape(Idle) /\ EmptyHanded(Idle) /\ Hand(Idle) = {}
<1>1. \A r : r.got = <<>> /\ Closes(r) = {} => Hand(r) = {}
    BY Tuples DEF Hand
<1>2. \A r : r.todo = <<>> /\ r.got = <<>> => EmptyHanded(r)
    BY FdsOf DEF EmptyHanded, Closes, Dups, Targets
<1>3. ASSUME NEW r, IsQuiet(r.todo), r.got = <<>> PROVE EmptyHanded(r)
  <2>1. PICK a, b : a.do \in Quiet /\ b.do \in Quiet /\ (r.todo = <<a>> \/ r.todo = <<a, b>>)
      BY <1>3 DEF IsQuiet
  <2>2. \A kind \in {"dup", "close", "allocate_at"} : One(a, kind) = {} /\ One(b, kind) = {}
      BY <2>1, OneOf
  <2>3. ASSUME NEW kind \in {"dup", "close", "allocate_at"} PROVE Fds(r.todo, kind) = {}
    <3>1. Fds(<<a>>, kind) = One(a, kind) /\ Fds(<<a, b>>, kind) = One(a, kind) \cup One(b, kind)
        BY FdsOf, Zenon
    <3>2. One(a, kind) = {} /\ One(b, kind) = {}
        BY <2>2
    <3> QED
        BY <2>1, <3>1, <3>2
  <2> QED
      BY <1>3, <2>3 DEF EmptyHanded, Closes, Dups, Targets
<1>4. ASSUME NEW r, Forking(r) PROVE EmptyHanded(r)
  <2>1. PICK p : r.todo = <<ToFork(p), ToInsert(p)>> \/ r.todo = <<ToInsert(p)>>
      BY <1>4 DEF Forking
  <2>2. \A kind \in {"dup", "close", "allocate_at"} : One(ToFork(p), kind) = {} /\ One(ToInsert(p), kind) = {}
      BY OneOf
  <2>3. ASSUME NEW kind \in {"dup", "close", "allocate_at"} PROVE Fds(r.todo, kind) = {}
    <3>1. /\ Fds(<<ToInsert(p)>>, kind) = One(ToInsert(p), kind)
          /\ Fds(<<ToFork(p), ToInsert(p)>>, kind) = One(ToFork(p), kind) \cup One(ToInsert(p), kind)
        BY FdsOf, Zenon
    <3>2. One(ToFork(p), kind) = {} /\ One(ToInsert(p), kind) = {}
        BY <2>2
    <3> QED
        BY <2>1, <3>1, <3>2
  <2> QED
      BY <1>4, <2>3 DEF EmptyHanded, Closes, Dups, Targets, Forking
<1>5. Idle.todo = <<>> /\ Idle.got = <<>> /\ Idle.means = <<>>
    BY DEF Idle
<1> QED
    BY <1>1, <1>2, <1>3, <1>4, <1>5 DEF EmptyHanded, Shape

-----------------------------------------------------------------------------
(* The invariant. *)

ThreadsOf(p) == {t \in Threads : Of[t] = p}

Posix(p) == Consistent(table[p].entries, kernel[p], guest[p], ThreadsOf(p), req, mine)

KernelSound ==
    /\ alive \subseteq Procs
    /\ DOMAIN kernel = Procs /\ DOMAIN guest = Procs
    /\ \A p \in Procs : DOMAIN kernel[p] \in SUBSET Nat /\ IsFiniteSet(DOMAIN kernel[p])

(* From a fork to its bookkeeping the child has what its parent has, and   *)
(* nobody else runs.                                                       *)
ForksSound ==
    \A t \in Threads : \A p :
        /\ req[t].todo = <<ToFork(p), ToInsert(p)>> => p \in Procs \ alive /\ Of[t] = Of[Main]
        /\ req[t].todo = <<ToInsert(p)>> =>
              /\ p \in alive /\ p # Of[t] /\ Of[t] = Of[Main]
              /\ \A u \in Threads \ {t} : req[u] = Idle
              /\ kernel[p] = kernel[Of[t]] /\ guest[p] = guest[Of[t]]
              /\ \A u \in ThreadsOf(p) : mine[u] \subseteq mine[t]

Inserting(p) == \E t \in Threads : req[t].todo = <<ToInsert(p)>>

PosixInv ==
    /\ FdInv
    /\ KernelSound
    /\ \A t \in Threads : Shape(req[t])
    /\ \A t \in Threads : req[t].todo # <<>> => Of[t] \in alive
    /\ ForksSound
    /\ \A p \in alive : Inserting(p) \/ Posix(p)

(* What the guest may be expected to do: its threads use descriptors of    *)
(* their own, only the first process forks or has several threads,         *)
OwnDescriptors ==
    /\ \A t, u \in Threads : t # u /\ Of[t] = Of[u] => Of[t] = Of[Main] /\ Used[t] \cap Used[u] = {}
    /\ \A t \in Threads : Of[t] # Of[Main] => <<"fork", "kernel">> \notin Uses[t]

(* and no thread takes the number that a dup2 of another is on its way to. *)
TargetsApart == \A p \in Procs : Unraced(ThreadsOf(p), req, mine)

(* A step of a thread that changes only what is its own and its process's. *)
Alone(t) ==
    /\ alive' = alive
    /\ \A u \in Threads \ {t} : req'[u] = req[u] /\ mine'[u] = mine[u]
    /\ \A q \in Procs \ {Of[t]} : table'[q] = table[q] /\ kernel'[q] = kernel[q] /\ guest'[q] = guest[q]
    /\ DOMAIN kernel' = Procs /\ DOMAIN guest' = Procs
    /\ DOMAIN kernel'[Of[t]] \in SUBSET Nat /\ IsFiniteSet(DOMAIN kernel'[Of[t]])

Running(t) ==
    /\ Of[t] \in alive
    /\ \A u \in Threads : \A q : req[u].todo # <<ToInsert(q)>>

LEMMA AloneKeeps ==
    ASSUME PosixInv, FdInv', NEW t \in Threads, Running(t), Alone(t), Shape(req'[t]), Posix(Of[t])',
           \A q : req'[t].todo # <<ToInsert(q)>>,
           \A q : req'[t].todo = <<ToFork(q), ToInsert(q)>> => q \in Procs \ alive /\ Of[t] = Of[Main]
    PROVE  PosixInv'
<1>1. KernelSound'
    BY DEF Alone, PosixInv, KernelSound
<1>2. \A u \in Threads : Shape(req'[u])
    BY DEF Alone, PosixInv
<1>3. \A u \in Threads : req'[u].todo # <<>> => Of[u] \in alive'
    BY DEF Alone, PosixInv, Running
<1>4. \A u \in Threads : \A q : req'[u].todo # <<ToInsert(q)>>
    BY DEF Alone, Running
<1>5. ForksSound'
    BY <1>4 DEF Alone, PosixInv, ForksSound
<1>6. ASSUME NEW p \in alive' PROVE Posix(p)'
  <2>1. CASE p = Of[t]
      BY <2>1
  <2>2. CASE p # Of[t]
    <3>1. p \in Procs /\ p \in alive
        BY DEF Alone, PosixInv, KernelSound
    <3>2. table'[p] = table[p] /\ kernel'[p] = kernel[p] /\ guest'[p] = guest[p]
        BY <2>2, <3>1 DEF Alone
    <3>3. \A u \in ThreadsOf(p) : req'[u] = req[u] /\ mine'[u] = mine[u]
        BY <2>2 DEF Alone, ThreadsOf
    <3>4. Posix(p)
        BY <3>1 DEF PosixInv, Running, Inserting
    <3> QED
        BY <3>2, <3>3, <3>4, OtherProcess DEF Posix
  <2> QED
      BY <2>1, <2>2
<1> QED
    BY <1>1, <1>2, <1>3, <1>5, <1>6 DEF PosixInv

LEMMA Views ==
    /\ \A r, a : r.todo = <<a>> =>
          Dups(r) = One(a, "dup") /\ Closes(r) = One(a, "close") /\ Targets(r) = One(a, "allocate_at")
    /\ \A r, a, b : r.todo = <<a, b>> =>
          /\ Dups(r) = One(a, "dup") \cup One(b, "dup")
          /\ Closes(r) = One(a, "close") \cup One(b, "close")
          /\ Targets(r) = One(a, "allocate_at") \cup One(b, "allocate_at")
    /\ \A r, a, b, c : r.todo = <<a, b, c>> =>
          /\ Dups(r) = One(a, "dup") \cup One(b, "dup") \cup One(c, "dup")
          /\ Closes(r) = One(a, "close") \cup One(b, "close") \cup One(c, "close")
          /\ Targets(r) = One(a, "allocate_at") \cup One(b, "allocate_at") \cup One(c, "allocate_at")
<1>1. ASSUME NEW r, NEW a, r.todo = <<a>>
      PROVE  Dups(r) = One(a, "dup") /\ Closes(r) = One(a, "close") /\ Targets(r) = One(a, "allocate_at")
  <2>1. \A kind : Fds(<<a>>, kind) = One(a, kind)
      BY FdsOf, Zenon
  <2> QED
      BY <1>1, <2>1 DEF Dups, Closes, Targets
<1>2. ASSUME NEW r, NEW a, NEW b, r.todo = <<a, b>>
      PROVE  /\ Dups(r) = One(a, "dup") \cup One(b, "dup")
             /\ Closes(r) = One(a, "close") \cup One(b, "close")
             /\ Targets(r) = One(a, "allocate_at") \cup One(b, "allocate_at")
  <2>1. \A kind : Fds(<<a, b>>, kind) = One(a, kind) \cup One(b, kind)
      BY FdsOf, Zenon
  <2> QED
      BY <1>2, <2>1 DEF Dups, Closes, Targets
<1>3. ASSUME NEW r, NEW a, NEW b, NEW c, r.todo = <<a, b, c>>
      PROVE  /\ Dups(r) = One(a, "dup") \cup One(b, "dup") \cup One(c, "dup")
             /\ Closes(r) = One(a, "close") \cup One(b, "close") \cup One(c, "close")
             /\ Targets(r) = One(a, "allocate_at") \cup One(b, "allocate_at") \cup One(c, "allocate_at")
  <2>1. \A kind : Fds(<<a, b, c>>, kind) = One(a, kind) \cup One(b, kind) \cup One(c, kind)
      BY FdsOfThree
  <2> QED
      BY <1>3, <2>1 DEF Dups, Closes, Targets
<1> QED
    BY <1>1, <1>2, <1>3

LEMMA EmptyWorks ==
    ASSUME NEW E, NEW K, NEW r, NEW m, EmptyHanded(r), m \subseteq DOMAIN E
    PROVE  Works(E, K, r, m)
<1>1. DOMAIN r.got = {} /\ Range(r.got) = {}
    BY DEF EmptyHanded, Range
<1> QED
    BY <1>1 DEF Works, EmptyHanded

-----------------------------------------------------------------------------
(* A thread that calls or goes on. *)

LEMMA Starting ==
    ASSUME PosixInv, ~ForkGap, NEW t \in Threads, NEW call, NEW on, Calls(t, call, on)
    PROVE  Running(t) /\ Posix(Of[t]) /\ req[t] = Idle
<1>1. Of[t] \in alive /\ req[t] = Idle
    BY DEF Calls
<1>2. ASSUME NEW u \in Threads, NEW q, req[u].todo = <<ToInsert(q)>> PROVE FALSE
  <2>1. req[u] # Idle /\ Head(req[u].todo).do = "insert_fd_table"
      BY <1>2, Tuples, NothingToDo DEF ToInsert
  <2>2. u # t
      BY <1>1, <2>1
  <2> QED
      BY <2>1, <2>2 DEF Calls, Runs
<1> QED
    BY <1>1, <1>2 DEF Running, PosixInv, Inserting

LEMMA GoingOn ==
    ASSUME PosixInv, ~ForkGap, NEW t \in Threads, NEW do, do # "insert_fd_table", Awaits(t, do)
    PROVE  Running(t) /\ Posix(Of[t]) /\ req[t].todo # <<>> /\ Head(req[t].todo).do = do
<1>1. Of[t] \in alive /\ req[t].todo # <<>> /\ Head(req[t].todo).do = do
    BY DEF Awaits
<1>2. ASSUME NEW u \in Threads, NEW q, req[u].todo = <<ToInsert(q)>> PROVE FALSE
  <2>1. req[u] # Idle /\ Head(req[u].todo).do = "insert_fd_table"
      BY <1>2, Tuples, NothingToDo DEF ToInsert
  <2>2. u # t
      BY <1>1, <2>1
  <2> QED
      BY <2>1, <2>2 DEF Awaits, Runs
<1> QED
    BY <1>1, <1>2 DEF Running, PosixInv, Inserting

LEMMA Begun ==
    ASSUME FdInv, NEW t \in Threads, NEW todo, NEW means, Begin(t, todo, means)
    PROVE  /\ req'[t].todo = todo /\ req'[t].got = <<>> /\ req'[t].means = means
           /\ \A u \in Threads \ {t} : req'[u] = req[u]
<1>1. PICK r : r = Await(todo, means)
    OBVIOUS
<1>2. r.todo = todo /\ r.got = <<>> /\ r.means = means
  <2>1. PICK idle : idle = Idle
      OBVIOUS
  <2>2. idle = [todo |-> <<>>, got |-> <<>>, means |-> <<>>, copy |-> 0]
      BY <2>1 DEF Idle
  <2>3. r = [[idle EXCEPT !.todo = todo] EXCEPT !.means = means]
      BY <1>1, <2>1 DEF Await
  <2>4. [idle EXCEPT !.todo = todo] = [todo |-> todo, got |-> <<>>, means |-> <<>>, copy |-> 0]
      BY <2>2
  <2> QED
      BY <2>3, <2>4
<1>3. req' = [req EXCEPT ![t] = r] /\ DOMAIN req = Threads
    BY <1>1 DEF Begin, FdInv, HandlersSound
<1> QED
    BY <1>2, <1>3

LEMMA Returned ==
    ASSUME FdInv, NEW t \in Threads, Return(t)
    PROVE  req'[t] = Idle /\ \A u \in Threads \ {t} : req'[u] = req[u]
BY DEF Return, FdInv, HandlersSound

LEMMA Continued ==
    ASSUME FdInv, NEW t \in Threads, req[t].todo # <<>>, Continue(t)
    PROVE  /\ IF Len(req[t].todo) = 1 THEN req'[t] = Idle
              ELSE /\ req'[t].todo = Tail(req[t].todo)
                   /\ req'[t].got = req[t].got /\ req'[t].means = req[t].means
           /\ \A u \in Threads \ {t} : req'[u] = req[u]
<1>1. PICK r : r = req[t]
    OBVIOUS
<1>2. r = [todo |-> r.todo, got |-> r.got, means |-> r.means, copy |-> r.copy] /\ DOMAIN req = Threads
    BY <1>1 DEF FdInv, HandlersSound, IsHandler
<1>3. PICK n : n = [r EXCEPT !.todo = Tail(r.todo)]
    OBVIOUS
<1>4. n.todo = Tail(r.todo) /\ n.got = r.got /\ n.means = r.means
    BY <1>2, <1>3
<1>5. req' = [req EXCEPT ![t] = IF Len(r.todo) = 1 THEN Idle ELSE n]
    BY <1>1, <1>2, <1>3 DEF Continue, Next1
<1> QED
    BY <1>1, <1>2, <1>4, <1>5

(* A step after which nothing of this has changed. *)
LEMMA SameKeeps ==
    ASSUME PosixInv, FdInv', UNCHANGED <<alive, table, kernel, guest, mine, req>>
    PROVE  PosixInv'
<1>1. KernelSound' /\ ForksSound'
    BY DEF PosixInv, KernelSound, ForksSound
<1>2. ASSUME NEW p \in alive' PROVE (Inserting(p) \/ Posix(p))'
    BY DEF PosixInv, Inserting, Posix
<1> QED
    BY <1>1, <1>2 DEF PosixInv

(* A step of one thread that changes nothing but its handler. *)
LEMMA HandlerOnly ==
    ASSUME PosixInv, FdInv', NEW t \in Threads, Running(t), Posix(Of[t]),
           UNCHANGED <<alive, table, kernel, guest, mine>>,
           \A u \in Threads \ {t} : req'[u] = req[u],
           Shape(req'[t]), Hand(req'[t]) = Hand(req[t]), Targets(req'[t]) = Targets(req[t]),
           Works(table[Of[t]].entries, kernel[Of[t]], req'[t], mine[t]),
           \A q : req'[t].todo # <<ToInsert(q)>>,
           \A q : req'[t].todo = <<ToFork(q), ToInsert(q)>> => q \in Procs \ alive /\ Of[t] = Of[Main]
    PROVE  PosixInv'
<1>1. Of[t] \in Procs
    BY DEF Procs
<1>2. Alone(t)
    BY <1>1 DEF Alone, PosixInv, KernelSound
<1>3. t \in ThreadsOf(Of[t]) /\ \A u \in ThreadsOf(Of[t]) \ {t} : req'[u] = req[u]
    BY DEF ThreadsOf
<1>4. Consistent(table[Of[t]].entries, kernel[Of[t]], guest[Of[t]], ThreadsOf(Of[t]), req', mine)
    BY <1>3, SameHand DEF Posix
<1>5. Posix(Of[t])'
    BY <1>4 DEF Posix
<1> QED
    BY <1>2, <1>5, AloneKeeps

LEMMA BeginsEmptyHanded ==
    ASSUME PosixInv, FdInv', ~ForkGap, NEW t \in Threads, NEW call, NEW on, Calls(t, call, on),
           NEW todo, NEW means, Begin(t, todo, means), UNCHANGED <<alive, table, kernel, guest, mine>>,
           \A r : r.todo = todo /\ r.got = <<>> /\ r.means = means => Shape(r) /\ EmptyHanded(r),
           \A q : todo # <<ToInsert(q)>>,
           \A q : todo = <<ToFork(q), ToInsert(q)>> => q \in Procs \ alive /\ Of[t] = Of[Main]
    PROVE  PosixInv'
<1>1. Running(t) /\ Posix(Of[t]) /\ req[t] = Idle
    BY Starting
<1>2. /\ req'[t].todo = todo /\ req'[t].got = <<>> /\ req'[t].means = means
      /\ \A u \in Threads \ {t} : req'[u] = req[u]
    BY Begun DEF PosixInv
<1>3. Shape(req'[t]) /\ EmptyHanded(req'[t])
    BY <1>2
<1>4. \A r : EmptyHanded(r) => Hand(r) = {} /\ Targets(r) = {}
    BY Tuples DEF EmptyHanded, Hand
<1>5. Hand(req'[t]) = Hand(req[t]) /\ Targets(req'[t]) = Targets(req[t])
    BY <1>1, <1>3, <1>4, NothingToDo
<1>6. mine[t] \subseteq DOMAIN table[Of[t]].entries
    BY <1>1 DEF Posix, Consistent, Works, ThreadsOf
<1>7. Works(table[Of[t]].entries, kernel[Of[t]], req'[t], mine[t])
    BY <1>3, <1>6, EmptyWorks
<1> QED
    BY <1>1, <1>2, <1>3, <1>5, <1>7, HandlerOnly

-----------------------------------------------------------------------------
(* Calls that take nothing in hand. *)

LEMMA QuietPlan ==
    ASSUME NEW s, IsQuiet(s)
    PROVE  /\ \A r : r.todo = s /\ r.got = <<>> => Shape(r) /\ EmptyHanded(r)
           /\ \A q : s # <<ToInsert(q)>> /\ s # <<ToFork(q), ToInsert(q)>>
<1>1. PICK a, b : a.do \in Quiet /\ b.do \in Quiet /\ (s = <<a>> \/ s = <<a, b>>)
    BY DEF IsQuiet
<1>2. \A q : s # <<ToInsert(q)>> /\ s # <<ToFork(q), ToInsert(q)>>
    BY <1>1, Tuples DEF ToInsert, ToFork, Quiet
<1> QED
    BY <1>2, NothingToDo DEF Shape

LEMMA OpeningPlan ==
    ASSUME NEW s, s = <<ToOpen, ToAllocate>> \/ s = <<ToOpen, ToOpen, ToAllocate>>
    PROVE  /\ \A r : r.todo = s /\ r.got = <<>> /\ r.means = <<>> => Shape(r) /\ EmptyHanded(r)
           /\ \A q : s # <<ToInsert(q)>> /\ s # <<ToFork(q), ToInsert(q)>>
<1>1. ASSUME NEW r, r.todo = s, r.got = <<>>, r.means = <<>> PROVE Shape(r) /\ EmptyHanded(r)
  <2>1. Shape(r)
      BY <1>1 DEF Shape, Opening
  <2>2. \A kind \in {"dup", "close", "allocate_at"} : One(ToOpen, kind) = {} /\ One(ToAllocate, kind) = {}
      BY OneOf
  <2> QED
      BY <1>1, <2>1, <2>2, Views DEF EmptyHanded
<1>2. Head(s) = ToOpen
    BY Tuples
<1>3. \A q : Head(<<ToInsert(q)>>) # ToOpen /\ Head(<<ToFork(q), ToInsert(q)>>) # ToOpen
    BY Tuples DEF ToInsert, ToFork, ToOpen
<1> QED
    BY <1>1, <1>2, <1>3

LEMMA PassesPosix ==
    ASSUME PosixInv, FdInv', ~ForkGap, NEW t \in Threads, NEW call, NEW on, Calls(t, call, on),
           NEW what, Passes(t, what), UNCHANGED <<alive, table, kernel, guest, mine>>
    PROVE  PosixInv'
<1>1. PICK s : s = <<[do |-> "call", on |-> what]>>
    OBVIOUS
<1>2. IsQuiet(s)
  <2>1. PICK a : a = [do |-> "call", on |-> what]
      OBVIOUS
  <2>2. a.do \in Quiet /\ s = <<a>>
      BY <1>1, <2>1 DEF Quiet
  <2> QED
      BY <2>2 DEF IsQuiet
<1>3. Begin(t, s, <<>>)
    BY <1>1 DEF Passes
<1>4. /\ \A r : r.todo = s /\ r.got = <<>> => Shape(r) /\ EmptyHanded(r)
      /\ \A q : s # <<ToInsert(q)>> /\ s # <<ToFork(q), ToInsert(q)>>
    BY <1>2, QuietPlan
<1> QED
    BY <1>3, <1>4, BeginsEmptyHanded

LEMMA LooksPosix ==
    ASSUME PosixInv, FdInv', ~ForkGap, OwnDescriptors, NEW t \in Threads,
           \/ \E call : Opens(t, call)
           \/ handle_pipe2(t)
           \/ \E call, v : PassesOn(t, call, v) \/ AnsweredBy(t, call, v)
           \/ \E v : handle_write(t, v) \/ handle_fstat(t, v)
           \/ \E V : handle_poll(t, V) \/ handle_pselect6(t, V)
           \/ \E call, V : Relative(t, call, V)
           \/ \E call, f, possible : Names(t, call, f, possible)
           \/ \E p \in Procs : handle_fork(t, p)
    PROVE  PosixInv'
<1>1. ASSUME NEW call, Opens(t, call) PROVE PosixInv'
  <2>1. PICK s : s = <<ToOpen, ToAllocate>>
      OBVIOUS
  <2>2. Calls(t, call, "kernel") /\ Begin(t, s, <<>>) /\ UNCHANGED <<alive, table, kernel, guest, mine>>
      BY <1>1, <2>1 DEF Opens, Untouched, ToOpen, ToAllocate
  <2>3. /\ \A r : r.todo = s /\ r.got = <<>> /\ r.means = <<>> => Shape(r) /\ EmptyHanded(r)
        /\ \A q : s # <<ToInsert(q)>> /\ s # <<ToFork(q), ToInsert(q)>>
      BY <2>1, OpeningPlan
  <2> QED
      BY <2>2, <2>3, BeginsEmptyHanded
<1>2. CASE handle_pipe2(t)
  <2>1. PICK s : s = <<ToOpen, ToOpen, ToAllocate>>
      OBVIOUS
  <2>2. Calls(t, "pipe2", "kernel") /\ Begin(t, s, <<>>) /\ UNCHANGED <<alive, table, kernel, guest, mine>>
      BY <1>2, <2>1 DEF handle_pipe2, Untouched, ToOpen, ToAllocate
  <2>3. /\ \A r : r.todo = s /\ r.got = <<>> /\ r.means = <<>> => Shape(r) /\ EmptyHanded(r)
        /\ \A q : s # <<ToInsert(q)>> /\ s # <<ToFork(q), ToInsert(q)>>
      BY <2>1, OpeningPlan
  <2> QED
      BY <2>2, <2>3, BeginsEmptyHanded
<1>3. ASSUME NEW call, NEW v, PassesOn(t, call, v) PROVE PosixInv'
    BY <1>3, PassesPosix DEF PassesOn, CallsOn, Untouched
<1>4. ASSUME NEW call, NEW v, AnsweredBy(t, call, v) PROVE PosixInv'
  <2>1. CASE req' = req
      BY <1>4, <2>1, SameKeeps DEF AnsweredBy, Untouched
  <2>2. CASE Passes(t, {Translated(t, v)})
      BY <1>4, <2>2, PassesPosix DEF AnsweredBy, CallsOn, Untouched
  <2> QED
      BY <1>4, <2>1, <2>2 DEF AnsweredBy
<1>5. ASSUME NEW v, handle_write(t, v) \/ handle_fstat(t, v) PROVE PosixInv'
  <2>1. PICK call, on : Calls(t, call, on) /\ UNCHANGED <<alive, table, kernel, guest, mine>>
      BY <1>5 DEF handle_write, handle_fstat, CallsOn
  <2>2. CASE req' = req
      BY <2>1, <2>2, SameKeeps
  <2>3. CASE Passes(t, {Translated(t, v)})
      BY <2>1, <2>3, PassesPosix
  <2> QED
      BY <1>5, <2>2, <2>3 DEF handle_write, handle_fstat
<1>6. ASSUME NEW V, handle_poll(t, V) PROVE PosixInv'
    BY <1>6, PassesPosix DEF handle_poll, Untouched
<1>7. ASSUME NEW V, handle_pselect6(t, V) PROVE PosixInv'
  <2>1. PICK on : on = translate_to_kernel(t, V)
      OBVIOUS
  <2>2. PICK a, b : a = [do |-> "call", on |-> on] /\ b = [do |-> "report", on |-> on]
      OBVIOUS
  <2>3. PICK s : s = <<a, b>>
      OBVIOUS
  <2>4. IsQuiet(s)
      BY <2>2, <2>3 DEF IsQuiet, Quiet
  <2>5. /\ Calls(t, "pselect6", "kernel") /\ Begin(t, s, <<>>)
        /\ UNCHANGED <<alive, table, kernel, guest, mine>>
      BY <1>7, <2>1, <2>2, <2>3 DEF handle_pselect6, Untouched
  <2>6. /\ \A r : r.todo = s /\ r.got = <<>> => Shape(r) /\ EmptyHanded(r)
        /\ \A q : s # <<ToInsert(q)>> /\ s # <<ToFork(q), ToInsert(q)>>
      BY <2>4, QuietPlan
  <2> QED
      BY <2>5, <2>6, BeginsEmptyHanded
<1>8. ASSUME NEW call, NEW V, Relative(t, call, V) PROVE PosixInv'
    BY <1>8, PassesPosix DEF Relative, Untouched
<1>9. ASSUME NEW call, NEW f, NEW possible, Names(t, call, f, possible) PROVE PosixInv'
    BY <1>9, SameKeeps DEF Names
<1>10. ASSUME NEW p \in Procs, handle_fork(t, p) PROVE PosixInv'
  <2>1. PICK s : s = <<ToFork(p), ToInsert(p)>>
      OBVIOUS
  <2>2. /\ Calls(t, "fork", "kernel") /\ Begin(t, s, <<>>) /\ p \notin alive
        /\ UNCHANGED <<alive, table, kernel, guest, mine>>
      BY <1>10, <2>1 DEF handle_fork, Untouched, ToFork, ToInsert
  <2>3. \A r : r.todo = s /\ r.got = <<>> => Shape(r) /\ EmptyHanded(r)
      BY <2>1, NothingToDo DEF Shape, Forking
  <2>4. \A q : s # <<ToInsert(q)>> /\ (s = <<ToFork(q), ToInsert(q)>> => q = p)
    <3>1. \A q : Len(s) = 2 /\ Len(<<ToInsert(q)>>) = 1
        BY <2>1, Tuples
    <3>2. \A q : s = <<ToFork(q), ToInsert(q)>> => ToInsert(q) = ToInsert(p)
        BY <2>1, Tuples
    <3>3. \A q : ToInsert(q) = ToInsert(p) => q = p
        BY DEF ToInsert
    <3> QED
        BY <3>1, <3>2, <3>3
  <2>5. Of[t] = Of[Main]
      BY <2>2 DEF Calls, OwnDescriptors
  <2> QED
      BY <2>2, <2>3, <2>4, <2>5, BeginsEmptyHanded
<1> QED
    BY <1>1, <1>2, <1>3, <1>4, <1>5, <1>6, <1>7, <1>8, <1>9, <1>10

-----------------------------------------------------------------------------
(* Calls that duplicate. *)

LEMMA OwnIsKept ==
    ASSUME TargetsApart, NEW t \in Threads, Posix(Of[t]), Targets(req[t]) = {}, NEW v \in mine[t]
    PROVE  /\ v \in DOMAIN table[Of[t]].entries
           /\ v \in Kept(table[Of[t]].entries, ThreadsOf(Of[t]), req)
           /\ Serves(table[Of[t]].entries[v], kernel[Of[t]], guest[Of[t]][v])
           /\ \A u \in ThreadsOf(Of[t]) \ {t} : v \notin mine[u] \cup Targets(req[u])
<1>1. t \in ThreadsOf(Of[t]) /\ Of[t] \in Procs
    BY DEF ThreadsOf, Procs
<1>2. v \in DOMAIN table[Of[t]].entries
    BY <1>1 DEF Posix, Consistent, Works
<1>3. \A u \in ThreadsOf(Of[t]) : v \notin Targets(req[u])
    BY <1>1 DEF TargetsApart, Unraced
<1>4. v \in Kept(table[Of[t]].entries, ThreadsOf(Of[t]), req)
    BY <1>2, <1>3 DEF Kept
<1> QED
    BY <1>1, <1>2, <1>3, <1>4 DEF Posix, Consistent, KeptServe, Separate

LEMMA DupBegins ==
    ASSUME PosixInv, FdInv', ~ForkGap, TargetsApart, NEW t \in Threads, NEW v \in mine[t],
           NEW call, NEW on, Calls(t, call, on), ~IsVirtual(Entry(t, v)),
           NEW x, Gives(x), Begin(t, <<ToDup(Entry(t, v).kernel_fd), x>>, <<guest[Of[t]][v]>>),
           UNCHANGED <<alive, table, kernel, guest, mine>>
    PROVE  PosixInv'
<1>1. Running(t) /\ Posix(Of[t]) /\ req[t] = Idle
    BY Starting
<1>2. PICK k, d : k = Entry(t, v).kernel_fd /\ d = guest[Of[t]][v]
    OBVIOUS
<1>3. PICK r : r = req'[t]
    OBVIOUS
<1>4. /\ r.todo = <<ToDup(k), x>> /\ r.got = <<>> /\ r.means = <<d>>
      /\ \A u \in Threads \ {t} : req'[u] = req[u]
    BY <1>2, <1>3, Begun DEF PosixInv
<1>5. Hand(req[t]) = {} /\ Targets(req[t]) = {}
    BY <1>1, NothingToDo DEF EmptyHanded
<1>6. /\ One(ToDup(k), "dup") = {k} /\ One(ToDup(k), "close") = {} /\ One(ToDup(k), "allocate_at") = {}
      /\ One(x, "dup") = {} /\ One(x, "close") = {} /\ One(x, "allocate_at") = {}
    BY OneOf
<1>7. Dups(r) = {k} /\ Closes(r) = {} /\ Targets(r) = {} /\ Hand(r) = {}
    BY <1>4, <1>6, Views, Tuples DEF Hand
<1>8. k \in DOMAIN kernel[Of[t]] /\ kernel[Of[t]][k] = d /\ mine[t] \subseteq DOMAIN table[Of[t]].entries
    BY <1>1, <1>2, <1>5, OwnIsKept DEF Entry, Serves
<1>9. DOMAIN r.got = {} /\ Range(r.got) = {} /\ r.means[1] = d
    BY <1>4, Tuples
<1>10. Works(table[Of[t]].entries, kernel[Of[t]], r, mine[t])
    BY <1>2, <1>7, <1>8, <1>9 DEF Works, Entry
<1>11. Shape(r)
    BY <1>4 DEF Shape, Duplicating
<1>12. \A q : r.todo # <<ToInsert(q)>> /\ r.todo # <<ToFork(q), ToInsert(q)>>
  <2>1. Head(r.todo) = ToDup(k)
      BY <1>4, Tuples
  <2>2. \A q : Head(<<ToInsert(q)>>) # ToDup(k) /\ Head(<<ToFork(q), ToInsert(q)>>) # ToDup(k)
      BY Tuples DEF ToInsert, ToFork, ToDup
  <2> QED
      BY <2>1, <2>2
<1> QED
    BY <1>1, <1>3, <1>4, <1>5, <1>7, <1>10, <1>11, <1>12, HandlerOnly

LEMMA JoinedTwo ==
    ASSUME NEW a, NEW b
    PROVE  <<a>> \o <<b>> = <<a, b>>
<1>1. PICK S : S = {a, b}
    OBVIOUS
<1>2. PICK s, u : s = <<a>> /\ u = <<b>>
    OBVIOUS
<1>3. /\ s \in Seq(S) /\ Len(s) = 1 /\ s[1] = a 
      /\ u \in Seq(S) /\ Len(u) = 1 /\ u[1] = b
    BY <1>1, <1>2
<1>4. s \o u \in Seq(S) /\ Len(s \o u) = 2 /\ (s \o u)[1] = a /\ (s \o u)[2] = b
    BY <1>3, ConcatProperties
<1>5. \A x \in Seq(S) : Len(x) = 2 => x = <<x[1], x[2]>>
    OBVIOUS
<1> QED
    BY <1>2, <1>4, <1>5

LEMMA JoinedThree ==
    ASSUME NEW a, NEW b, NEW c
    PROVE  <<a, b>> \o <<c>> = <<a, b, c>>
<1>1. PICK S : S = {a, b, c}
    OBVIOUS
<1>2. PICK s, u : s = <<a, b>> /\ u = <<c>>
    OBVIOUS
<1>3. /\ s \in Seq(S) /\ Len(s) = 2 /\ s[1] = a /\ s[2] = b
      /\ u \in Seq(S) /\ Len(u) = 1 /\ u[1] = c
    BY <1>1, <1>2
<1>4. s \o u \in Seq(S) /\ Len(s \o u) = 3 /\ (s \o u)[1] = a /\ (s \o u)[2] = b /\ (s \o u)[3] = c
  <2>1. /\ s \o u \in Seq(S) /\ Len(s \o u) = Len(s) + Len(u)
        /\ \A i \in 1..(Len(s) + Len(u)) : (s \o u)[i] = IF i <= Len(s) THEN s[i] ELSE u[i - Len(s)]
      BY <1>3, ConcatProperties
  <2>2. \A i \in 1..3 : (s \o u)[i] = IF i <= 2 THEN s[i] ELSE u[i - 2]
      BY <1>3, <2>1
  <2> QED
      BY <1>3, <2>1, <2>2
<1>5. \A x \in Seq(S) : Len(x) = 3 => x = <<x[1], x[2], x[3]>>
    OBVIOUS
<1> QED
    BY <1>2, <1>4, <1>5

LEMMA JoinedNone ==
    ASSUME NEW a
    PROVE  <<>> \o <<a>> = <<a>> /\ <<a>> \o <<>> = <<a>> /\ <<>> \o <<>> = <<>>
OBVIOUS

(* What dup2 begins with, in one of its four forms. *)
Dup2Todo(t, v, to) ==
    (IF IsVirtual(Entry(t, v)) THEN <<>> ELSE <<[do |-> "dup", fd |-> Entry(t, v).kernel_fd]>>)
        \o Replaced(t, to) \o <<[do |-> "allocate_at", fd |-> to, entry |-> Entry(t, v)]>>

Aiming(r, t, v, to) ==
    /\ Shape(r) /\ Targets(r) = {to} /\ Dups(r) = KernelOf(Entry(t, v))
    /\ Closes(r) = IF to \in DOMAIN table[Of[t]].entries THEN KernelOf(Entry(t, to)) ELSE {}
    /\ \A q : r.todo # <<ToInsert(q)>> /\ r.todo # <<ToFork(q), ToInsert(q)>>

LEMMA Dup2Plan ==
    ASSUME NEW t \in Threads, NEW v, NEW to, NEW todo, NEW d, todo = Dup2Todo(t, v, to),
           IsVirtual(Entry(t, v)) => Entry(t, v).file_ops = d,
           NEW r, r.todo = todo, r.got = <<>>, r.means = <<d>>
    PROVE  Aiming(r, t, v, to)
<1>1. PICK e, f : e = Entry(t, v) /\ f = Entry(t, to)
    OBVIOUS
<1>2. PICK at : at = ToAllocateAt(to, e)
    OBVIOUS
<1>3. PICK dup : dup = ToDup(e.kernel_fd)
    OBVIOUS
<1>4. PICK m : m = IF IsVirtual(f) THEN [do |-> "fsync", of |-> f.file_ops] ELSE ToClose(f.kernel_fd)
    OBVIOUS
<1>5. Closing1(m) /\ One(m, "close") = KernelOf(f) /\ One(m, "dup") = {} /\ One(m, "allocate_at") = {}
  <2>1. Closing1(m)
      BY <1>4 DEF Closing1
  <2>2. One(m, "close") = KernelOf(f)
      BY <1>4 DEF One, KernelOf, ToClose
  <2> QED
      BY <2>1, <2>2, OneOf
<1>6. Replaced(t, to) = IF to \in DOMAIN table[Of[t]].entries THEN <<m>> ELSE <<>>
    BY <1>1, <1>4 DEF Replaced, Closing, ToClose
<1>7. todo = (IF IsVirtual(e) THEN <<>> ELSE <<dup>>) \o Replaced(t, to) \o <<at>>
    BY <1>1, <1>2, <1>3 DEF Dup2Todo, ToDup, ToAllocateAt
<1>8. /\ One(at, "dup") = {} /\ One(at, "close") = {} /\ One(at, "allocate_at") = {to}
      /\ One(dup, "dup") = {e.kernel_fd} /\ One(dup, "close") = {} /\ One(dup, "allocate_at") = {}
    BY <1>2, <1>3, OneOf
<1>9. /\ \A q : <<at>> # <<ToInsert(q)>> /\ <<at>> # <<ToFork(q), ToInsert(q)>>
      /\ \A q : <<m, at>> # <<ToInsert(q)>> /\ <<m, at>> # <<ToFork(q), ToInsert(q)>>
      /\ \A q : <<dup, at>> # <<ToInsert(q)>> /\ <<dup, at>> # <<ToFork(q), ToInsert(q)>>
      /\ \A q : <<dup, m, at>> # <<ToInsert(q)>> /\ <<dup, m, at>> # <<ToFork(q), ToInsert(q)>>
  <2>1. \A q : at # ToInsert(q) /\ dup # ToFork(q)
      BY <1>2, <1>3 DEF ToAllocateAt, ToInsert, ToDup, ToFork
  <2> QED
      BY <2>1
<1>10. CASE to \notin DOMAIN table[Of[t]].entries
  <2>1. CASE IsVirtual(e)
    <3>1. r.todo = <<at>>
        BY <1>6, <1>7, <1>10, <2>1, JoinedNone
    <3>2. Moving(r)
        BY <1>1, <1>2, <1>5, <2>1, <3>1 DEF Moving
    <3>3. Targets(r) = {to} /\ Dups(r) = {} /\ Closes(r) = {}
        BY <1>8, <3>1, Views
    <3> QED
        BY <1>1, <1>9, <1>10, <2>1, <3>1, <3>2, <3>3 DEF Aiming, Shape, KernelOf
  <2>2. CASE ~IsVirtual(e)
    <3>1. r.todo = <<dup, at>>
        BY <1>6, <1>7, <1>10, <2>2, JoinedNone, JoinedTwo
    <3>2. Moving(r)
        BY <1>1, <1>2, <1>3, <1>5, <2>2, <3>1 DEF Moving
    <3>3. Targets(r) = {to} /\ Dups(r) = {e.kernel_fd} /\ Closes(r) = {}
        BY <1>8, <3>1, Views
    <3> QED
        BY <1>1, <1>9, <1>10, <2>2, <3>1, <3>2, <3>3 DEF Aiming, Shape, KernelOf
  <2> QED
      BY <2>1, <2>2
<1>11. CASE to \in DOMAIN table[Of[t]].entries
  <2>1. CASE IsVirtual(e)
    <3>1. r.todo = <<m, at>>
        BY <1>6, <1>7, <1>11, <2>1, JoinedNone, JoinedTwo
    <3>2. Moving(r)
        BY <1>1, <1>2, <1>5, <2>1, <3>1 DEF Moving
    <3>3. /\ Targets(r) = One(m, "allocate_at") \cup One(at, "allocate_at")
          /\ Dups(r) = One(m, "dup") \cup One(at, "dup")
          /\ Closes(r) = One(m, "close") \cup One(at, "close")
        BY <3>1, Views
    <3>4. Targets(r) = {to} /\ Dups(r) = {} /\ Closes(r) = KernelOf(f)
        BY <1>5, <1>8, <3>3
    <3> QED
        BY <1>1, <1>9, <1>11, <2>1, <3>1, <3>2, <3>4 DEF Aiming, Shape, KernelOf
  <2>2. CASE ~IsVirtual(e)
    <3>1. r.todo = <<dup, m, at>>
      <4>1. r.todo = <<dup>> \o <<m>> \o <<at>>
          BY <1>6, <1>7, <1>11, <2>2
      <4>2. <<dup>> \o <<m>> = <<dup, m>>
          BY JoinedTwo
      <4>3. <<dup, m>> \o <<at>> = <<dup, m, at>>
          BY JoinedThree
      <4> QED
          BY <4>1, <4>2, <4>3
    <3>2. Moving(r)
        BY <1>1, <1>2, <1>3, <1>5, <2>2, <3>1 DEF Moving
    <3>3. /\ Targets(r) = One(dup, "allocate_at") \cup One(m, "allocate_at") \cup One(at, "allocate_at")
          /\ Dups(r) = One(dup, "dup") \cup One(m, "dup") \cup One(at, "dup")
          /\ Closes(r) = One(dup, "close") \cup One(m, "close") \cup One(at, "close")
        BY <3>1, Views
    <3>4. Targets(r) = {to} /\ Dups(r) = {e.kernel_fd} /\ Closes(r) = KernelOf(f)
        BY <1>5, <1>8, <3>3
    <3> QED
        BY <1>1, <1>9, <1>11, <2>2, <3>1, <3>2, <3>4 DEF Aiming, Shape, KernelOf
  <2> QED
      BY <2>1, <2>2
<1> QED
    BY <1>10, <1>11

LEMMA Dup2Begins ==
    ASSUME PosixInv, FdInv', ~ForkGap, TargetsApart, TargetsApart', NEW t \in Threads, NEW v \in mine[t],
           NEW to, handle_dup2(t, v, to)
    PROVE  PosixInv'
<1>1. Calls(t, "dup2", "kernel") \/ Calls(t, "dup2", "volume")
    BY DEF handle_dup2, CallsOn
<1>2. Running(t) /\ Posix(Of[t]) /\ req[t] = Idle
    BY <1>1, Starting
<1>3. PICK p, E, K, T : p = Of[t] /\ E = table[p].entries /\ K = kernel[p] /\ T = ThreadsOf(p)
    OBVIOUS
<1>4. t \in T /\ p \in Procs
    BY <1>3 DEF ThreadsOf, Procs
<1>5. Hand(req[t]) = {} /\ Targets(req[t]) = {}
    BY <1>2, NothingToDo DEF EmptyHanded
<1>6. PICK d, r : d = guest[p][v] /\ r = req'[t]
    OBVIOUS
<1>7. PICK todo : todo = Dup2Todo(t, v, to)
    OBVIOUS
<1>8. Begin(t, todo, <<d>>) /\ UNCHANGED <<alive, table, kernel, guest, mine>>
    BY <1>3, <1>6, <1>7 DEF handle_dup2, Dup2Todo, Untouched
<1>9. /\ r.todo = todo /\ r.got = <<>> /\ r.means = <<d>>
      /\ \A u \in Threads \ {t} : req'[u] = req[u]
    BY <1>6, <1>8, Begun DEF PosixInv
<1>10. v \in DOMAIN E /\ Serves(E[v], K, d) /\ mine[t] \subseteq DOMAIN E
    BY <1>2, <1>3, <1>5, <1>6, OwnIsKept
<1>11. Entry(t, v) = E[v] /\ Entry(t, to) = E[to]
    BY <1>3 DEF Entry
<1>12. /\ Shape(r) /\ Targets(r) = {to} /\ Dups(r) = KernelOf(E[v])
       /\ Closes(r) = IF to \in DOMAIN E THEN KernelOf(E[to]) ELSE {}
       /\ \A q : r.todo # <<ToInsert(q)>> /\ r.todo # <<ToFork(q), ToInsert(q)>>
  <2>1. IsVirtual(Entry(t, v)) => Entry(t, v).file_ops = d
      BY <1>10, <1>11 DEF Serves
  <2>2. Aiming(r, t, v, to)
      BY <1>7, <1>9, <2>1, Dup2Plan, Zenon
  <2> QED
      BY <1>3, <1>11, <2>2 DEF Aiming
<1>13. DOMAIN r.got = {} /\ Range(r.got) = {} /\ r.means[1] = d
    BY <1>9, Tuples
<1>14. Hand(r) = IF to \in DOMAIN E THEN KernelOf(E[to]) ELSE {}
    BY <1>12, <1>13 DEF Hand
<1>15. Works(E, K, r, mine[t])
  <2>1. ASSUME NEW k \in Dups(r)
        PROVE  /\ k \in DOMAIN K /\ K[k] = r.means[1]
               /\ k \in Closes(r) \/ \E w \in mine[t] \ Targets(r) : E[w].kernel_fd = k
    <3>1. ~IsVirtual(E[v]) /\ k = E[v].kernel_fd
        BY <1>12, <2>1 DEF KernelOf
    <3>2. CASE v = to
        BY <1>10, <1>12, <1>13, <3>1, <3>2 DEF KernelOf, Serves
    <3>3. CASE v # to
        BY <1>10, <1>12, <1>13, <3>1, <3>3 DEF Serves
    <3> QED
        BY <3>2, <3>3
  <2> QED
      BY <1>10, <1>13, <2>1 DEF Works
<1>16. \A u \in T \ {t} : req'[u] = req[u]
    BY <1>3, <1>9 DEF ThreadsOf
<1>17. Unraced(T, req', mine)
    BY <1>3, <1>4, <1>8 DEF TargetsApart, ThreadsOf
<1>18. Consistent(E, K, guest[p], T, req', mine)
  <2>1. Consistent(E, K, guest[p], T, req, mine)
      BY <1>2, <1>3 DEF Posix
  <2> QED
      BY <1>4, <1>5, <1>6, <1>12, <1>14, <1>15, <1>16, <1>17, <2>1, AimsAt
<1>19. Posix(p)'
    BY <1>3, <1>8, <1>18 DEF Posix, ThreadsOf
<1>20. Alone(t)
    BY <1>3, <1>4, <1>8, <1>9 DEF Alone, PosixInv, KernelSound
<1> QED
    BY <1>2, <1>3, <1>6, <1>12, <1>19, <1>20, AloneKeeps

-----------------------------------------------------------------------------
(* What a change of a table does to its entries. *)

LEMMA PutsThere ==
    ASSUME NEW tb, IsTable(tb), NEW v, NEW e
    PROVE  PlacedIn(tb.entries, Put(tb, v, e).entries, v, e)
<1>1. PICK s : s = [u \in DOMAIN tb.entries \cup {v} |-> IF u = v THEN e ELSE tb.entries[u]]
    OBVIOUS
<1>2. Put(tb, v, e) = [tb EXCEPT !.entries = s]
    BY <1>1 DEF Put, Bind
<1>3. Put(tb, v, e).entries = s
    BY <1>2 DEF IsTable
<1> QED
    BY <1>1, <1>3 DEF PlacedIn

LEMMA AllocatesThere ==
    ASSUME NEW tb, IsTable(tb), NEW e
    PROVE  /\ PlacedIn(tb.entries, allocate(tb, e).entries, Free(tb), e)
           /\ Free(tb) \notin DOMAIN tb.entries
<1>1. PICK v, q : v = Free(tb) /\ q = Put(tb, v, e)
    OBVIOUS
<1>2. PICK h, n : /\ h = q.free_fds \ {v}
                  /\ n = IF tb.free_fds = {} THEN v + 1 ELSE q.next_vfd
    OBVIOUS
<1>3. allocate(tb, e) = [q EXCEPT !.free_fds = h, !.next_vfd = n]
    BY <1>1, <1>2, Zenon DEF allocate
<1>4. q = [entries |-> q.entries, next_vfd |-> tb.next_vfd, free_fds |-> tb.free_fds]
    BY <1>1, Puts
<1>5. allocate(tb, e).entries = q.entries
    BY <1>3, <1>4
<1>6. v \notin DOMAIN tb.entries
    BY <1>1, FreeIsLeast DEF IsLeast
<1> QED
    BY <1>1, <1>5, <1>6, PutsThere

LEMMA AllocatesAtThere ==
    ASSUME NEW tb, IsTable(tb), NEW v \in Nat, NEW e
    PROVE  PlacedIn(tb.entries, allocate_at(tb, v, e).entries, v, e)
<1>1. PICK q : q = Put(tb, v, e)
    OBVIOUS
<1>2. PICK h, n : /\ h = (q.free_fds \cup Skipped(tb, v)) \ {v}
                  /\ n = IF v >= q.next_vfd THEN v + 1 ELSE q.next_vfd
    OBVIOUS
<1>3. allocate_at(tb, v, e) = [q EXCEPT !.free_fds = h, !.next_vfd = n]
  <2>1. allocate_at(tb, v, e) = [q EXCEPT !.free_fds = (q.free_fds \cup Skipped(tb, v)) \ {v},
                                          !.next_vfd = IF v >= q.next_vfd THEN v + 1 ELSE q.next_vfd]
      BY <1>1, Zenon DEF allocate_at
  <2> QED
      BY <1>2, <2>1
<1>4. q = [entries |-> q.entries, next_vfd |-> tb.next_vfd, free_fds |-> tb.free_fds]
    BY <1>1, Puts
<1>5. allocate_at(tb, v, e).entries = q.entries
    BY <1>3, <1>4
<1> QED
    BY <1>1, <1>5, PutsThere

LEMMA AllocatesMinThere ==
    ASSUME NEW tb, IsTable(tb), NEW min \in Nat, NEW e
    PROVE  /\ PlacedIn(tb.entries, allocate_min(tb, min, e).entries, AtLeast(tb, min), e)
           /\ AtLeast(tb, min) \notin DOMAIN tb.entries /\ AtLeast(tb, min) \in Nat
<1>1. DOMAIN tb.entries \in SUBSET Nat /\ IsFiniteSet(DOMAIN tb.entries)
  <2>1. PICK n, D : n = tb.next_vfd - 1 /\ D = DOMAIN tb.entries /\ n \in Int
      BY DEF IsTable
  <2>2. D \subseteq 0 .. n
      BY <2>1 DEF IsTable
  <2>3. IsFiniteSet(0 .. n)
      BY <2>1, FS_Interval
  <2>4. IsFiniteSet(D)
      BY <2>2, <2>3, FS_Subset
  <2> QED
      BY <2>1, <2>2, <2>4
<1>2. AtLeast(tb, min) \in Nat /\ AtLeast(tb, min) \notin DOMAIN tb.entries
    BY <1>1, LeastIsLeast DEF AtLeast, IsLeast
<1> QED
    BY <1>2, AllocatesAtThere DEF allocate_min

LEMMA DeallocatesThere ==
    ASSUME NEW tb, IsTable(tb), NEW v
    PROVE  DroppedFrom(tb.entries, deallocate(tb, v).entries, v)
<1>1. PICK s, h : /\ s = Restrict(tb.entries, DOMAIN tb.entries \ {v})
                  /\ h = IF v >= FIRST_USER_FD THEN tb.free_fds \cup {v} ELSE tb.free_fds
    OBVIOUS
<1>2. deallocate(tb, v) =
            [tb EXCEPT !.entries = Restrict(tb.entries, DOMAIN tb.entries \ {v}),
                       !.free_fds = IF v >= FIRST_USER_FD THEN tb.free_fds \cup {v} ELSE tb.free_fds]
    BY Zenon DEF deallocate
<1>3. deallocate(tb, v) = [tb EXCEPT !.entries = s, !.free_fds = h]
    BY <1>1, <1>2
<1>4. deallocate(tb, v).entries = s
    BY <1>3 DEF IsTable
<1> QED
    BY <1>1, <1>4 DEF DroppedFrom, Restrict

-----------------------------------------------------------------------------
(* A thread is told of a descriptor. *)

LEMMA ToldOf ==
    ASSUME NEW v, NEW d, NEW g
    PROVE  PlacedIn(g, Bind(g, v, d), v, d)
BY DEF PlacedIn, Bind

LEMMA PlacesKeeps ==
    ASSUME PosixInv, FdInv', TargetsApart, TargetsApart', NEW t \in Threads, Running(t), Posix(Of[t]),
           NEW v, NEW e, NEW d, NEW tb, table' = [table EXCEPT ![Of[t]] = tb],
           PlacedIn(table[Of[t]].entries, tb.entries, v, e), Told(t, v, d), UNCHANGED <<alive, kernel>>,
           \A u \in Threads \ {t} : req'[u] = req[u], req'[t] = Idle,
           Serves(e, kernel[Of[t]], d), Hand(req[t]) = KernelOf(e), Targets(req[t]) \subseteq {v},
           v \notin DOMAIN table[Of[t]].entries \/ Targets(req[t]) = {v}
    PROVE  PosixInv'
<1>1. PICK p, E, K, G, T : /\ p = Of[t] /\ E = table[p].entries /\ K = kernel[p] /\ G = guest[p]
                           /\ T = ThreadsOf(p)
    OBVIOUS
<1>2. t \in T /\ p \in Procs /\ T \subseteq Threads
    BY <1>1 DEF ThreadsOf, Procs
<1>3. PICK F, H : F = tb.entries /\ H = Bind(G, v, d)
    OBVIOUS
<1>4. PlacedIn(E, F, v, e) /\ PlacedIn(G, H, v, d)
    BY <1>1, <1>3, ToldOf
<1>5. /\ table'[p] = tb /\ guest'[p] = H /\ DOMAIN guest' = Procs
      /\ \A q \in Procs \ {p} : table'[q] = table[q] /\ guest'[q] = guest[q]
    BY <1>1, <1>2, <1>3 DEF Told, PosixInv, KernelSound, FdInv, TablesSound
<1>6. mine'[t] = mine[t] \cup {v} /\ \A u \in Threads \ {t} : mine'[u] = mine[u]
    BY DEF Told, PosixInv, FdInv
<1>7. Consistent(E, K, G, T, req, mine)
    BY <1>1 DEF Posix
<1>8. Unraced(T, req, mine) /\ Unraced(T, req', mine')
    BY <1>1, <1>2 DEF TargetsApart, ThreadsOf
<1>9. ASSUME NEW u \in T \ {t} PROVE v \notin mine[u] \cup Targets(req[u])
  <2>1. CASE v \notin DOMAIN E
    <3>1. v \notin mine[u]
        BY <1>7, <2>1 DEF Consistent, Works
    <3>2. v \notin Targets(req'[u])
        BY <1>2, <1>6, <1>8 DEF Unraced
    <3> QED
        BY <1>2, <3>1, <3>2
  <2>2. CASE Targets(req[t]) = {v}
      BY <1>2, <1>8, <2>2 DEF Unraced
  <2> QED
      BY <1>1, <2>1, <2>2
<1>10. EmptyHanded(req'[t]) /\ Targets(req'[t]) = {} /\ Hand(req'[t]) = {}
    BY NothingToDo DEF EmptyHanded
<1>11. mine'[t] \subseteq DOMAIN F
    BY <1>2, <1>4, <1>6, <1>7 DEF PlacedIn, Consistent, Works
<1>12. Works(F, K, req'[t], mine'[t])
    BY <1>10, <1>11, EmptyWorks
<1>13. Consistent(F, K, H, T, req', mine')
  <2>1. /\ \A u \in T \ {t} : req'[u] = req[u] /\ mine'[u] = mine[u]
        /\ mine'[t] = mine[t] \cup {v} /\ t \in T
      BY <1>2, <1>6
  <2>2. Serves(e, K, d) /\ KernelOf(e) \subseteq Hand(req[t]) /\ Hand(req'[t]) = Hand(req[t]) \ KernelOf(e)
      BY <1>1, <1>10
  <2>3. v \notin DOMAIN E \/ Targets(req[t]) = {v}
      BY <1>1
  <2>4. PlacesOne(E, K, G, T, req, mine, t, v, e, d, F, H, req', mine')
      BY <1>4, <1>8, <1>9, <1>10, <1>12, <2>1, <2>2, <2>3 DEF PlacesOne
  <2> QED
      BY <1>7, <2>4, Places
<1>14. Posix(p)'
    BY <1>1, <1>3, <1>5, <1>13 DEF Posix, ThreadsOf
<1>15. Alone(t)
    BY <1>1, <1>2, <1>5, <1>6 DEF Alone, PosixInv, KernelSound
<1>16. Shape(req'[t]) /\ \A q : req'[t].todo # <<ToInsert(q)>> /\ req'[t].todo # <<ToFork(q), ToInsert(q)>>
    BY NothingToDo, Tuples
<1> QED
    BY <1>1, <1>14, <1>15, <1>16, AloneKeeps

LEMMA OpenVirtualPosix ==
    ASSUME PosixInv, FdInv', ~ForkGap, TargetsApart, TargetsApart', NEW t \in Threads, NEW f,
           OpenVirtual(t, f)
    PROVE  PosixInv'
<1>1. Running(t) /\ Posix(Of[t]) /\ req[t] = Idle
    BY Starting DEF OpenVirtual
<1>2. PICK tb, d : tb = table[Of[t]] /\ d = made'
    OBVIOUS
<1>3. PICK e, v : e = Virtual(d) /\ v = Free(tb)
    OBVIOUS
<1>4. PICK nt : nt = allocate(tb, e)
    OBVIOUS
<1>5. /\ table' = [table EXCEPT ![Of[t]] = nt] /\ Told(t, v, d) /\ UNCHANGED <<alive, kernel, req>>
    BY <1>2, <1>3, <1>4, OwnProcess DEF OpenVirtual, PosixInv, FdInv, TablesSound
<1>6. PlacedIn(tb.entries, nt.entries, v, e) /\ v \notin DOMAIN tb.entries
    BY <1>2, <1>3, <1>4, OwnProcess, AllocatesThere DEF PosixInv
<1>7. Serves(e, kernel[Of[t]], d) /\ KernelOf(e) = {}
    BY <1>3 DEF Serves, KernelOf, Virtual, IsVirtual
<1>8. Hand(req[t]) = {} /\ Targets(req[t]) = {}
    BY <1>1, NothingToDo DEF EmptyHanded
<1> QED
    BY <1>1, <1>2, <1>5, <1>6, <1>7, <1>8, PlacesKeeps

LEMMA DupPosix ==
    ASSUME PosixInv, FdInv', ~ForkGap, TargetsApart, TargetsApart', NEW t \in Threads, NEW v \in mine[t],
           handle_dup(t, v)
    PROVE  PosixInv'
<1>1. PICK call, on : Calls(t, call, on)
    BY DEF handle_dup, CallsOn
<1>2. Running(t) /\ Posix(Of[t]) /\ req[t] = Idle
    BY <1>1, Starting
<1>3. Hand(req[t]) = {} /\ Targets(req[t]) = {}
    BY <1>2, NothingToDo DEF EmptyHanded
<1>4. PICK tb, d, e, w : tb = table[Of[t]] /\ d = guest[Of[t]][v] /\ e = Entry(t, v) /\ w = Free(tb)
    OBVIOUS
<1>5. UNCHANGED <<alive, kernel>>
    BY DEF handle_dup
<1>6. CASE IsVirtual(e)
  <2>1. PICK nt : nt = allocate(tb, e)
      OBVIOUS
  <2>2. table' = [table EXCEPT ![Of[t]] = nt] /\ Told(t, w, d) /\ req' = req
      BY <1>4, <1>6, <2>1, OwnProcess DEF handle_dup, PosixInv, FdInv, TablesSound
  <2>3. PlacedIn(tb.entries, nt.entries, w, e) /\ w \notin DOMAIN tb.entries
      BY <1>4, <2>1, OwnProcess, AllocatesThere DEF PosixInv
  <2>4. Serves(e, kernel[Of[t]], d)
      BY <1>2, <1>3, <1>4, OwnIsKept DEF Entry
  <2>5. KernelOf(e) = {}
      BY <1>6 DEF KernelOf
  <2> QED
      BY <1>2, <1>3, <1>4, <1>5, <2>2, <2>3, <2>4, <2>5, PlacesKeeps
<1>7. CASE ~IsVirtual(e)
  <2>1. /\ Begin(t, <<ToDup(Entry(t, v).kernel_fd), ToAllocate>>, <<guest[Of[t]][v]>>)
        /\ UNCHANGED <<alive, table, kernel, guest, mine>>
      BY <1>4, <1>7 DEF handle_dup, ToDup, ToAllocate
  <2>2. Gives(ToAllocate)
      BY DEF Gives
  <2> QED
      BY <1>1, <1>4, <1>7, <2>1, <2>2, DupBegins
<1> QED
    BY <1>6, <1>7

LEMMA FcntlPosix ==
    ASSUME PosixInv, FdInv', ~ForkGap, TargetsApart, TargetsApart', NEW t \in Threads, NEW v \in mine[t],
           NEW min, handle_fcntl(t, v, min)
    PROVE  PosixInv'
<1>1. /\ Begin(t, <<ToDup(Entry(t, v).kernel_fd), ToAllocateMin(min)>>, <<guest[Of[t]][v]>>)
      /\ UNCHANGED <<alive, table, kernel, guest, mine>> /\ ~IsVirtual(Entry(t, v))
      /\ Calls(t, "fcntl", "kernel")
    BY DEF handle_fcntl, ToDup, ToAllocateMin, Untouched
<1>2. Gives(ToAllocateMin(min))
    BY DEF Gives
<1> QED
    BY <1>1, <1>2, DupBegins

LEMMA ClosePosix ==
    ASSUME PosixInv, FdInv', ~ForkGap, TargetsApart, NEW t \in Threads, NEW v \in mine[t],
           handle_close(t, v)
    PROVE  PosixInv'
<1>1. PICK call, on : Calls(t, call, on)
    BY DEF handle_close, CallsOn
<1>2. Running(t) /\ Posix(Of[t]) /\ req[t] = Idle
    BY <1>1, Starting
<1>3. Hand(req[t]) = {} /\ Targets(req[t]) = {}
    BY <1>2, NothingToDo DEF EmptyHanded
<1>4. PICK p, E, K, G, T : /\ p = Of[t] /\ E = table[p].entries /\ K = kernel[p] /\ G = guest[p]
                           /\ T = ThreadsOf(p)
    OBVIOUS
<1>5. t \in T /\ p \in Procs /\ T \subseteq Threads
    BY <1>4 DEF ThreadsOf, Procs
<1>6. PICK tb, H : tb = deallocate(table[p], v) /\ H = Restrict(G, DOMAIN G \ {v})
    OBVIOUS
<1>7. PICK F, todo : F = tb.entries /\ todo = Closing(E[v])
    OBVIOUS
<1>8. DroppedFrom(E, F, v) /\ DroppedFrom(G, H, v)
  <2>1. DroppedFrom(E, F, v)
      BY <1>4, <1>6, <1>7, OwnProcess, DeallocatesThere DEF PosixInv
  <2>2. DroppedFrom(G, H, v)
      BY <1>6 DEF Restrict, DroppedFrom
  <2> QED
      BY <2>1, <2>2
<1>9. /\ table'[p] = tb /\ guest'[p] = H /\ DOMAIN guest' = Procs
      /\ \A q \in Procs \ {p} : table'[q] = table[q] /\ guest'[q] = guest[q]
    BY <1>4, <1>5, <1>6 DEF handle_close, PosixInv, KernelSound, FdInv, TablesSound
<1>10. mine'[t] = mine[t] \ {v} /\ \A u \in Threads \ {t} : mine'[u] = mine[u]
    BY DEF handle_close, PosixInv, FdInv
<1>11. PICK r : r = req'[t]
    OBVIOUS
<1>12. Begin(t, todo, <<>>) /\ UNCHANGED <<alive, kernel>>
    BY <1>4, <1>7 DEF handle_close, Entry
<1>13. r.todo = todo /\ r.got = <<>> /\ \A u \in Threads \ {t} : req'[u] = req[u]
    BY <1>11, <1>12, Begun DEF PosixInv
<1>14. /\ Shape(r) /\ Targets(r) = {} /\ Dups(r) = {} /\ Closes(r) = KernelOf(E[v])
       /\ \A q : r.todo # <<ToInsert(q)>> /\ r.todo # <<ToFork(q), ToInsert(q)>>
  <2>1. CASE IsVirtual(E[v])
    <3>1. PICK a : a = [do |-> "fsync", of |-> E[v].file_ops]
        OBVIOUS
    <3>2. r.todo = <<a>> /\ a.do \in Quiet
        BY <1>7, <1>13, <2>1, <3>1 DEF Closing, Quiet
    <3>3. IsQuiet(r.todo)
        BY <3>2 DEF IsQuiet
    <3>4. Shape(r) /\ EmptyHanded(r) /\ \A q : r.todo # <<ToInsert(q)>> /\ r.todo # <<ToFork(q), ToInsert(q)>>
        BY <1>13, <3>3, QuietPlan
    <3> QED
        BY <2>1, <3>4 DEF EmptyHanded, KernelOf
  <2>2. CASE ~IsVirtual(E[v])
    <3>1. PICK k : k = E[v].kernel_fd
        OBVIOUS
    <3>2. r.todo = <<ToClose(k)>>
        BY <1>7, <1>13, <2>2, <3>1 DEF Closing, ToClose
    <3>3. /\ One(ToClose(k), "dup") = {} /\ One(ToClose(k), "close") = {k}
          /\ One(ToClose(k), "allocate_at") = {}
        BY OneOf
    <3>4. Targets(r) = {} /\ Dups(r) = {} /\ Closes(r) = {k}
        BY <3>2, <3>3, Views
    <3>5. \A q : ToClose(k) # ToInsert(q)
        BY DEF ToClose, ToInsert
    <3>6. \A q : r.todo # <<ToInsert(q)>> /\ r.todo # <<ToFork(q), ToInsert(q)>>
        BY <3>2, <3>5, Tuples
    <3>7. Shape(r)
        BY <1>13, <3>2 DEF Shape
    <3> QED
        BY <2>2, <3>1, <3>4, <3>6, <3>7 DEF KernelOf
  <2> QED
      BY <2>1, <2>2
<1>15. DOMAIN r.got = {} /\ Range(r.got) = {}
    BY <1>13, Tuples
<1>16. Hand(r) = KernelOf(E[v])
    BY <1>14, <1>15 DEF Hand
<1>17. Consistent(E, K, G, T, req, mine)
    BY <1>2, <1>4 DEF Posix
<1>18. Works(F, K, r, mine'[t])
    BY <1>5, <1>8, <1>10, <1>14, <1>15, <1>17 DEF Works, Consistent, DroppedFrom
<1>19. Consistent(F, K, H, T, req', mine')
  <2>1. Unraced(T, req, mine)
      BY <1>4, <1>5 DEF TargetsApart
  <2>2. \A u \in T \ {t} : req'[u] = req[u] /\ mine'[u] = mine[u]
      BY <1>5, <1>10, <1>13
  <2>3. DropsOne(E, K, G, T, req, mine, t, v, F, H, req', mine')
      BY <1>3, <1>5, <1>8, <1>10, <1>11, <1>14, <1>16, <1>18, <2>1, <2>2 DEF DropsOne
  <2> QED
      BY <1>17, <2>3, Drops
<1>20. Posix(p)'
    BY <1>4, <1>7, <1>9, <1>12, <1>19 DEF Posix, ThreadsOf
<1>21. Alone(t)
    BY <1>4, <1>5, <1>9, <1>10, <1>12, <1>13 DEF Alone, PosixInv, KernelSound
<1> QED
    BY <1>2, <1>4, <1>11, <1>14, <1>20, <1>21, AloneKeeps

LEMMA ExitPosix ==
    ASSUME PosixInv, FdInv', ~ForkGap, NEW t \in Threads, Exit(t)
    PROVE  PosixInv'
<1>1. PICK call, on : Calls(t, call, on)
    BY DEF Exit
<1>2. Running(t) /\ req[t] = Idle
    BY <1>1, Starting
<1>3. PICK p : p = Of[t]
    OBVIOUS
<1>4. /\ alive' = alive \ {p} /\ kernel' = [kernel EXCEPT ![p] = <<>>] /\ guest' = [guest EXCEPT ![p] = <<>>]
      /\ table' = table /\ req' = req /\ p \in Procs
      /\ \A u \in Threads : Of[u] = p => req[u] = Idle
      /\ \A u \in Threads : Of[u] # p => mine'[u] = mine[u]
    BY <1>3 DEF Exit, Procs
<1>5. KernelSound'
  <2>1. DOMAIN kernel'[p] = {} /\ IsFiniteSet({})
      BY <1>4, FS_EmptySet DEF PosixInv, KernelSound
  <2> QED
      BY <1>4, <2>1 DEF PosixInv, KernelSound
<1>6. \A u \in Threads : req'[u].todo # <<>> => Of[u] \in alive'
    BY <1>4, NothingToDo DEF PosixInv
<1>7. ForksSound'
    BY <1>2, <1>4 DEF PosixInv, ForksSound, Running
<1>8. ASSUME NEW q \in alive' PROVE Posix(q)'
  <2>1. q \in alive /\ q # p /\ q \in Procs
      BY <1>4 DEF PosixInv, KernelSound
  <2>2. Posix(q)
      BY <1>2, <2>1 DEF PosixInv, Running, Inserting
  <2>3. table'[q] = table[q] /\ kernel'[q] = kernel[q] /\ guest'[q] = guest[q]
      BY <1>4, <2>1 DEF PosixInv, KernelSound
  <2>4. \A u \in ThreadsOf(q) : req'[u] = req[u] /\ mine'[u] = mine[u]
      BY <1>4, <2>1 DEF ThreadsOf
  <2> QED
      BY <2>2, <2>3, <2>4, OtherProcess DEF Posix
<1> QED
    BY <1>4, <1>5, <1>6, <1>7, <1>8 DEF PosixInv

LEMMA HandlePosix ==
    ASSUME PosixInv, FdInv', ~ForkGap, OwnDescriptors, TargetsApart, TargetsApart',
           NEW t \in Threads, Handle(t)
    PROVE  PosixInv'
<1>1. CASE handle_openat(t) \/ handle_socket(t) \/ handle_pipe2(t)
    BY <1>1, LooksPosix DEF handle_openat, handle_socket
<1>2. ASSUME NEW f \in Paths, OpenVirtual(t, f) PROVE PosixInv'
    BY <1>2, OpenVirtualPosix
<1>3. CASE OnOwn(t)
  <2>1. PICK v \in Known(t) :
            \/ handle_write(t, v) \/ handle_fstat(t, v) \/ handle_close(t, v) \/ handle_dup(t, v)
            \/ \E min \in Minima : handle_fcntl(t, v, min)
            \/ \E to \in mine[t] \cup Spare[t] : handle_dup2(t, v, to)
            \/ \E call : PassesOn(t, call, v) \/ AnsweredBy(t, call, v)
      BY <1>3 DEF OnOwn, handle_read, handle_lseek, handle_getdents64, handle_ioctl, handle_pread64,
                  handle_pwrite64, handle_mmap, handle_readv, handle_writev, handle_sendto,
                  handle_connect, handle_getpeername
  <2>2. v \in mine[t]
      BY DEF Known
  <2>3. CASE \/ handle_write(t, v) \/ handle_fstat(t, v)
             \/ \E call : PassesOn(t, call, v) \/ AnsweredBy(t, call, v)
      BY <2>3, LooksPosix
  <2>4. CASE handle_close(t, v)
      BY <2>2, <2>4, ClosePosix
  <2>5. CASE handle_dup(t, v)
      BY <2>2, <2>5, DupPosix
  <2>6. CASE \E min \in Minima : handle_fcntl(t, v, min)
      BY <2>2, <2>6, FcntlPosix
  <2>7. CASE \E to \in mine[t] \cup Spare[t] : handle_dup2(t, v, to)
      BY <2>2, <2>7, Dup2Begins
  <2> QED
      BY <2>1, <2>3, <2>4, <2>5, <2>6, <2>7
<1>4. CASE OnPath(t)
  <2>1. \/ \E call, V : Relative(t, call, V)
        \/ \E call, v : PassesOn(t, call, v)
        \/ \E call, f, possible : Names(t, call, f, possible)
      BY <1>4 DEF OnPath, handle_statx, handle_newfstatat, handle_readlinkat, handle_faccessat,
                  handle_faccessat2, handle_fchownat, handle_symlinkat, handle_linkat,
                  handle_symlink, Link
  <2> QED
      BY <2>1, LooksPosix
<1>5. CASE OnSeveral(t)
  <2>1. \E V : handle_poll(t, V) \/ handle_pselect6(t, V)
      BY <1>5 DEF OnSeveral
  <2> QED
      BY <2>1, LooksPosix
<1>6. CASE \E p \in Procs : handle_fork(t, p)
    BY <1>6, LooksPosix
<1>7. CASE Exit(t)
    BY <1>7, ExitPosix
<1> QED
    BY <1>1, <1>2, <1>3, <1>4, <1>5, <1>6, <1>7 DEF Handle

-----------------------------------------------------------------------------
(* What the first of what there is to do says of the rest. *)

FirstIs(r, do) == r.todo # <<>> /\ Head(r.todo).do = do

LEMMA FirstOfShape ==
    ASSUME NEW r, Shape(r), NEW do, FirstIs(r, do)
    PROVE  \/ do \in Quiet /\ IsQuiet(r.todo) /\ r.got = <<>>
           \/ do \in {"fork", "insert_fd_table"} /\ Forking(r)
           \/ do = "close" /\ r.got = <<>> /\ \E k : r.todo = <<ToClose(k)>>
           \/ do = "open" /\ Opening(r)
           \/ do \in {"allocate", "allocate_min"} /\ Placing(r)
           \/ do = "dup" /\ Duplicating(r)
           \/ do \in {"allocate_at", "dup", "close", "fsync", "create", "store"} /\ Moving(r)
<1>1. CASE IsQuiet(r.todo) /\ r.got = <<>>
  <2>1. PICK a, b : a.do \in Quiet /\ b.do \in Quiet /\ (r.todo = <<a>> \/ r.todo = <<a, b>>)
      BY <1>1 DEF IsQuiet
  <2>2. Head(r.todo) = a
      BY <2>1, Tuples
  <2> QED
      BY <1>1, <2>1, <2>2 DEF FirstIs
<1>2. CASE Forking(r)
  <2>1. PICK p : r.todo = <<ToFork(p), ToInsert(p)>> \/ r.todo = <<ToInsert(p)>>
      BY <1>2 DEF Forking
  <2>2. Head(r.todo) \in {ToFork(p), ToInsert(p)}
      BY <2>1, Tuples
  <2> QED
      BY <1>2, <2>2 DEF FirstIs, ToFork, ToInsert
<1>3. ASSUME r.got = <<>>, NEW k, r.todo = <<ToClose(k)>> PROVE do = "close"
  <2>1. Head(r.todo) = ToClose(k)
      BY <1>3, Tuples
  <2> QED
      BY <2>1 DEF FirstIs, ToClose
<1>4. CASE Opening(r)
  <2>1. Head(r.todo) = ToOpen
      BY <1>4, Tuples DEF Opening
  <2> QED
      BY <1>4, <2>1 DEF FirstIs, ToOpen
<1>5. CASE Placing(r)
  <2>1. PICK x : r.todo = <<x>> /\ Gives(x)
      BY <1>5 DEF Placing, Gives
  <2>2. Head(r.todo) = x
      BY <2>1, Tuples
  <2> QED
      BY <1>5, <2>1, <2>2 DEF FirstIs, Gives, ToAllocate, ToAllocateMin
<1>6. CASE Duplicating(r)
  <2>1. PICK k, x : r.todo = <<ToDup(k), x>>
      BY <1>6 DEF Duplicating
  <2>2. Head(r.todo) = ToDup(k)
      BY <2>1, Tuples
  <2> QED
      BY <1>6, <2>2 DEF FirstIs, ToDup
<1>7. CASE Moving(r)
  <2>1. PICK to, e, m, k :
            /\ Closing1(m)
            /\ \/ r.todo = <<ToAllocateAt(to, e)>> \/ r.todo = <<m, ToAllocateAt(to, e)>>
               \/ r.todo = <<ToDup(k), ToAllocateAt(to, e)>> \/ r.todo = <<ToDup(k), m, ToAllocateAt(to, e)>>
      BY <1>7 DEF Moving
  <2>2. Head(r.todo) \in {ToAllocateAt(to, e), m, ToDup(k)}
      BY <2>1, Tuples
  <2>3. m.do \in {"close", "fsync", "create", "store"}
      BY <2>1 DEF Closing1, ToClose
  <2> QED
      BY <1>7, <2>2, <2>3 DEF FirstIs, ToAllocateAt, ToDup
<1> QED
    BY <1>1, <1>2, <1>3, <1>4, <1>5, <1>6, <1>7 DEF Shape, FirstIs

-----------------------------------------------------------------------------
(* Steps that leave in hand what is in hand. *)

(* From r to q a handler keeps what it has in hand. *)
Holds(r, q) ==
    /\ Shape(q) /\ q.got = r.got /\ (q.means = r.means \/ q.got = <<>>)
    /\ Closes(q) = Closes(r) /\ Targets(q) = Targets(r) /\ Dups(q) = {}
    /\ \A p : q.todo # <<ToInsert(p)>> /\ q.todo # <<ToFork(p), ToInsert(p)>>

LEMMA IdleHolds ==
    ASSUME NEW r, EmptyHanded(r)
    PROVE  Holds(r, Idle)
<1>1. \A p : Idle.todo # <<ToInsert(p)>> /\ Idle.todo # <<ToFork(p), ToInsert(p)>>
    BY NothingToDo, Tuples
<1> QED
    BY <1>1, NothingToDo DEF Holds, EmptyHanded

LEMMA QuietHolds ==
    ASSUME NEW r, EmptyHanded(r), NEW q, IsQuiet(q.todo), q.got = <<>>
    PROVE  Holds(r, q)
<1>1. /\ Shape(q) /\ EmptyHanded(q)
      /\ \A p : q.todo # <<ToInsert(p)>> /\ q.todo # <<ToFork(p), ToInsert(p)>>
    BY QuietPlan
<1> QED
    BY <1>1 DEF Holds, EmptyHanded

(* A handler goes on from r to q: it is done, or the rest is to do, or the  *)
(* first of it has another name.                                           *)
Rest(r, q) == q.todo = Tail(r.todo) /\ q.got = r.got /\ q.means = r.means
Renamed(r, q, w) == q.todo = [r.todo EXCEPT ![1].do = w] /\ q.got = r.got /\ q.means = r.means

LEMMA RenamedFirst ==
    ASSUME NEW a, "do" \in DOMAIN a, NEW w
    PROVE  /\ [<<a>> EXCEPT ![1].do = w] = <<[a EXCEPT !.do = w]>>
           /\ \A b : [<<a, b>> EXCEPT ![1].do = w] = <<[a EXCEPT !.do = w], b>>
           /\ [a EXCEPT !.do = w].do = w
OBVIOUS

LEMMA QuietGoesOn ==
    ASSUME NEW r, IsQuiet(r.todo), r.got = <<>>, IsHandler(r), NEW q,
           \/ q = Idle
           \/ Len(r.todo) # 1 /\ Rest(r, q)
           \/ \E w \in {"create", "store"} : Renamed(r, q, w)
    PROVE  Holds(r, q)
<1>1. EmptyHanded(r)
    BY NothingToDo
<1>2. PICK a, b : a.do \in Quiet /\ b.do \in Quiet /\ (r.todo = <<a>> \/ r.todo = <<a, b>>)
    BY DEF IsQuiet
<1>3. CASE q = Idle
    BY <1>1, <1>3, IdleHolds
<1>4. CASE Len(r.todo) # 1 /\ Rest(r, q)
  <2>1. q.todo = <<b>> /\ q.got = <<>>
    <3>1. Len(<<a>>) = 1 /\ Tail(<<a, b>>) = <<b>>
        BY Tuples
    <3>2. r.todo = <<a, b>>
        BY <1>2, <1>4, <3>1
    <3> QED
        BY <1>4, <3>1, <3>2 DEF Rest
  <2>2. IsQuiet(q.todo)
      BY <1>2, <2>1 DEF IsQuiet
  <2> QED
      BY <1>1, <2>1, <2>2, QuietHolds
<1>5. ASSUME NEW w \in {"create", "store"}, Renamed(r, q, w) PROVE Holds(r, q)
  <2>1. Sound(Head(r.todo)) /\ Head(r.todo) = a
      BY <1>2, Tuples, TodoLeft DEF IsHandler
  <2>2. "do" \in DOMAIN a
      BY <2>1 DEF Sound
  <2>3. PICK c : c = [a EXCEPT !.do = w]
      OBVIOUS
  <2>4. c.do = w /\ (q.todo = <<c>> \/ q.todo = <<c, b>>) /\ q.got = <<>>
      BY <1>2, <1>5, <2>2, <2>3, RenamedFirst DEF Renamed
  <2>5. IsQuiet(q.todo)
      BY <1>2, <2>4 DEF IsQuiet, Quiet
  <2> QED
      BY <1>1, <2>4, <2>5, QuietHolds
<1> QED
    BY <1>3, <1>4, <1>5

(* A dup2 that writes back what it replaces. *)
LEMMA MovingGoesOn ==
    ASSUME NEW r, Moving(r), NEW do \in {"fsync", "create", "store"}, FirstIs(r, do), NEW q,
           \/ Len(r.todo) # 1 /\ Rest(r, q)
           \/ \E w \in {"create", "store"} : Renamed(r, q, w)
    PROVE  Holds(r, q)
<1>1. PICK to, e, m, d, k :
        /\ Closing1(m) /\ r.means = <<d>>
        /\ \/ /\ r.todo = <<ToAllocateAt(to, e)>> \/ r.todo = <<m, ToAllocateAt(to, e)>>
              /\ IF IsVirtual(e) THEN e.file_ops = d /\ r.got = <<>> ELSE r.got = <<k>>
           \/ /\ ~IsVirtual(e) /\ r.got = <<>>
              /\ \/ r.todo = <<ToDup(k), ToAllocateAt(to, e)>>
                 \/ r.todo = <<ToDup(k), m, ToAllocateAt(to, e)>>
    BY DEF Moving
<1>2. PICK at : at = ToAllocateAt(to, e)
    OBVIOUS
<1>3. ToDup(k).do = "dup" /\ at.do = "allocate_at"
    BY <1>2 DEF ToDup, ToAllocateAt
<1>4. r.todo = <<m, at>> /\ Head(r.todo) = m
  <2>1. Head(<<at>>) = at /\ Head(<<ToDup(k), at>>) = ToDup(k) /\ Head(<<ToDup(k), m, at>>) = ToDup(k)
      BY Tuples
  <2>2. Head(r.todo) # at /\ Head(r.todo) # ToDup(k)
      BY <1>3 DEF FirstIs
  <2>3. Head(<<m, at>>) = m
      BY Tuples
  <2> QED
      BY <1>1, <1>2, <2>1, <2>2, <2>3
<1>5. IF IsVirtual(e) THEN e.file_ops = d /\ r.got = <<>> ELSE r.got = <<k>>
  <2>1. r.todo # <<ToDup(k), at>> /\ r.todo # <<ToDup(k), m, at>>
      BY <1>3, <1>4, Tuples DEF FirstIs
  <2> QED
      BY <1>1, <1>2, <2>1
<1>6. PICK w0, f : w0 \in {"fsync", "create", "store"} /\ m = [do |-> w0, of |-> f]
    BY <1>1, <1>4 DEF Closing1, ToClose, FirstIs
<1>7. One(m, "close") = {} /\ One(m, "dup") = {} /\ One(m, "allocate_at") = {}
    BY <1>1, <1>6, OneOf DEF One
<1>8. One(at, "dup") = {} /\ One(at, "close") = {} /\ One(at, "allocate_at") = {to}
    BY <1>2, OneOf
<1>9. Closes(r) = {} /\ Targets(r) = {to}
  <2>1. Closes(r) = One(m, "close") \cup One(at, "close") /\ Targets(r) = One(m, "allocate_at") \cup One(at, "allocate_at")
      BY <1>4, Views
  <2> QED
      BY <1>7, <1>8, <2>1
<1>10. \A p : at # ToInsert(p)
    BY <1>2 DEF ToAllocateAt, ToInsert
<1>11. CASE Len(r.todo) # 1 /\ Rest(r, q)
  <2>1. q.todo = <<at>> /\ q.got = r.got /\ q.means = r.means
      BY <1>4, <1>11, Tuples DEF Rest
  <2>2. Closes(q) = {} /\ Targets(q) = {to} /\ Dups(q) = {}
      BY <1>8, <2>1, Views
  <2>3. Moving(q)
      BY <1>1, <1>2, <1>5, <2>1 DEF Moving
  <2>4. \A p : q.todo # <<ToInsert(p)>> /\ q.todo # <<ToFork(p), ToInsert(p)>>
      BY <1>10, <2>1, Tuples
  <2> QED
      BY <1>9, <2>1, <2>2, <2>3, <2>4 DEF Holds, Shape
<1>12. ASSUME NEW w \in {"create", "store"}, Renamed(r, q, w) PROVE Holds(r, q)
  <2>1. PICK n : n = [do |-> w, of |-> f]
      OBVIOUS
  <2>2. "do" \in DOMAIN m /\ [m EXCEPT !.do = w] = n
      BY <1>6, <2>1
  <2>3. q.todo = <<n, at>> /\ q.got = r.got /\ q.means = r.means
      BY <1>4, <1>12, <2>2, RenamedFirst DEF Renamed
  <2>4. Closing1(n)
      BY <2>1 DEF Closing1
  <2>5. One(n, "close") = {} /\ One(n, "dup") = {} /\ One(n, "allocate_at") = {}
      BY <2>1, <2>4, OneOf DEF One
  <2>6. /\ Closes(q) = One(n, "close") \cup One(at, "close")
        /\ Targets(q) = One(n, "allocate_at") \cup One(at, "allocate_at")
        /\ Dups(q) = One(n, "dup") \cup One(at, "dup")
      BY <2>3, Views
  <2>7. Moving(q)
      BY <1>1, <1>2, <1>5, <2>3, <2>4 DEF Moving
  <2>8. \A p : n # ToFork(p)
      BY <2>1 DEF ToFork
  <2>9. \A p : q.todo # <<ToInsert(p)>> /\ q.todo # <<ToFork(p), ToInsert(p)>>
      BY <2>3, <2>8, Tuples
  <2> QED
      BY <1>8, <1>9, <2>3, <2>5, <2>6, <2>7, <2>9 DEF Holds, Shape
<1> QED
    BY <1>11, <1>12

LEMMA HoldsKeeps ==
    ASSUME PosixInv, FdInv', NEW t \in Threads, Running(t), Posix(Of[t]),
           UNCHANGED <<alive, table, kernel, guest, mine>>,
           \A u \in Threads \ {t} : req'[u] = req[u], Holds(req[t], req'[t])
    PROVE  PosixInv'
<1>1. PICK r, q : r = req[t] /\ q = req'[t]
    OBVIOUS
<1>2. PICK E, K, m : E = table[Of[t]].entries /\ K = kernel[Of[t]] /\ m = mine[t]
    OBVIOUS
<1>3. Works(E, K, r, m)
    BY <1>1, <1>2 DEF Posix, Consistent, ThreadsOf
<1>4. Works(E, K, q, m)
  <2>1. /\ q.got = r.got /\ (q.means = r.means \/ DOMAIN q.got = {})
        /\ Closes(q) = Closes(r) /\ Dups(q) = {}
      BY <1>1, Tuples DEF Holds
  <2> QED
      BY <1>3, <2>1 DEF Works
<1>5. Hand(q) = Hand(r) /\ Targets(q) = Targets(r)
    BY <1>1 DEF Holds, Hand
<1> QED
    BY <1>1, <1>2, <1>4, <1>5, HandlerOnly DEF Holds

LEMMA WaitingIs ==
    ASSUME PosixInv, ~ForkGap, NEW t \in Threads, NEW do, do # "insert_fd_table", Awaits(t, do)
    PROVE  /\ Running(t) /\ Posix(Of[t]) /\ FirstIs(req[t], do) /\ Shape(req[t]) /\ IsHandler(req[t])
           /\ Of[t] \in Procs
BY GoingOn DEF FirstIs, PosixInv, FdInv, HandlersSound, Procs

LEMMA MovingIsMore ==
    ASSUME NEW r, Moving(r), NEW do, do # "allocate_at", FirstIs(r, do)
    PROVE  Len(r.todo) # 1
<1>1. PICK to, e, m, k :
          \/ r.todo = <<ToAllocateAt(to, e)>> \/ r.todo = <<m, ToAllocateAt(to, e)>>
          \/ r.todo = <<ToDup(k), ToAllocateAt(to, e)>> \/ r.todo = <<ToDup(k), m, ToAllocateAt(to, e)>>
    BY DEF Moving
<1>2. CASE r.todo = <<ToAllocateAt(to, e)>>
  <2>1. Head(r.todo) = ToAllocateAt(to, e)
      BY <1>2, Tuples
  <2> QED
      BY <2>1 DEF FirstIs, ToAllocateAt
<1> QED
    BY <1>1, <1>2, Tuples

(* A call, its report, and the steps of a write-back. *)
LEMMA QuietSteps ==
    ASSUME PosixInv, FdInv', ~ForkGap, NEW t \in Threads,
           Call(t) \/ Report(t) \/ Fsync(t) \/ Create(t) \/ Store(t)
    PROVE  PosixInv'
<1>1. PICK do \in {"call", "report", "fsync", "create", "store"} :
          /\ Awaits(t, do) /\ UNCHANGED <<table, kernel, guest, mine>>
          /\ \/ Continue(t)
             \/ do = "report" /\ Return(t)
             \/ /\ do \in {"fsync", "create"}
                /\ \/ \E copy : req' = [req EXCEPT ![t].copy = copy, ![t].todo[1].do = "create"]
                   \/ req' = [req EXCEPT ![t].todo[1].do = "store"]
  <2>1. CASE Call(t)
      BY <2>1 DEF Call
  <2>2. CASE Report(t)
      BY <2>2 DEF Report
  <2>3. CASE Fsync(t)
      BY <2>3 DEF Fsync
  <2>4. CASE Create(t)
      BY <2>4 DEF Create
  <2>5. CASE Store(t)
      BY <2>5 DEF Store
  <2> QED
      BY <2>1, <2>2, <2>3, <2>4, <2>5
<1>2. /\ Running(t) /\ Posix(Of[t]) /\ FirstIs(req[t], do) /\ Shape(req[t]) /\ IsHandler(req[t])
      /\ Of[t] \in Procs
    BY <1>1, WaitingIs
<1>3. alive' = alive
    BY <1>1 DEF Awaits
<1>4. PICK r, q : r = req[t] /\ q = req'[t]
    OBVIOUS
<1>5. /\ \A u \in Threads \ {t} : req'[u] = req[u]
      /\ \/ Len(r.todo) = 1 /\ q = Idle
         \/ Len(r.todo) # 1 /\ Rest(r, q)
         \/ do = "report" /\ q = Idle
         \/ do \in {"fsync", "create"} /\ \E w \in {"create", "store"} : Renamed(r, q, w)
  <2>1. DOMAIN req = Threads /\ r = [todo |-> r.todo, got |-> r.got, means |-> r.means, copy |-> r.copy]
      BY <1>2, <1>4 DEF PosixInv, FdInv, HandlersSound, IsHandler
  <2>2. CASE Continue(t)
      BY <1>2, <1>4, <2>2, Continued DEF FirstIs, Rest, PosixInv
  <2>3. CASE do = "report" /\ Return(t)
      BY <1>4, <2>3, Returned DEF PosixInv
  <2>4. ASSUME do \in {"fsync", "create"},
               NEW copy, req' = [req EXCEPT ![t].copy = copy, ![t].todo[1].do = "create"]
        PROVE  (\A u \in Threads \ {t} : req'[u] = req[u]) /\ Renamed(r, q, "create")
    <3>1. PICK c : c = [r EXCEPT !.copy = copy]
        OBVIOUS
    <3>2. c = [todo |-> r.todo, got |-> r.got, means |-> r.means, copy |-> copy]
        BY <2>1, <3>1
    <3>3. PICK one : one = [req EXCEPT ![t] = c]
        OBVIOUS
    <3>4. one[t] = c /\ [req EXCEPT ![t].copy = copy] = one
        BY <1>4, <2>1, <3>1, <3>3
    <3>5. req' = [one EXCEPT ![t].todo[1].do = "create"]
        BY <2>4, <3>4
    <3>6. PICK s : s = [r.todo EXCEPT ![1].do = "create"]
        OBVIOUS
    <3>7. req' = [one EXCEPT ![t] = [c EXCEPT !.todo = s]]
        BY <3>2, <3>4, <3>5, <3>6
    <3>8. PICK n : n = [c EXCEPT !.todo = s]
        OBVIOUS
    <3>9. n.todo = s /\ n.got = r.got /\ n.means = r.means
        BY <3>2, <3>8
    <3>10. q = n /\ \A u \in Threads \ {t} : req'[u] = req[u]
        BY <1>4, <2>1, <3>3, <3>7, <3>8
    <3> QED
        BY <3>6, <3>9, <3>10 DEF Renamed
  <2>5. ASSUME do \in {"fsync", "create"}, req' = [req EXCEPT ![t].todo[1].do = "store"]
        PROVE  (\A u \in Threads \ {t} : req'[u] = req[u]) /\ Renamed(r, q, "store")
    <3>1. PICK s : s = [r.todo EXCEPT ![1].do = "store"]
        OBVIOUS
    <3>2. PICK n : n = [r EXCEPT !.todo = s]
        OBVIOUS
    <3>3. req' = [req EXCEPT ![t] = n]
        BY <1>4, <2>5, <3>1, <3>2
    <3>4. n.todo = s /\ n.got = r.got /\ n.means = r.means
        BY <2>1, <3>2
    <3>5. q = n /\ \A u \in Threads \ {t} : req'[u] = req[u]
        BY <1>4, <2>1, <3>3
    <3> QED
        BY <3>1, <3>4, <3>5 DEF Renamed
  <2> QED
      BY <1>1, <2>2, <2>3, <2>4, <2>5
<1>6. Holds(r, q)
  <2>1. \/ IsQuiet(r.todo) /\ r.got = <<>>
        \/ do \in {"fsync", "create", "store"} /\ Moving(r)
      BY <1>1, <1>2, <1>4, FirstOfShape
  <2>2. CASE IsQuiet(r.todo) /\ r.got = <<>>
      BY <1>2, <1>4, <1>5, <2>2, QuietGoesOn
  <2>3. CASE do \in {"fsync", "create", "store"} /\ Moving(r)
    <3>1. FirstIs(r, do)
        BY <1>2, <1>4
    <3>2. Len(r.todo) # 1
        BY <2>3, <3>1, MovingIsMore
    <3> QED
        BY <1>5, <2>3, <3>1, <3>2, MovingGoesOn
  <2> QED
      BY <2>1, <2>2, <2>3
<1> QED
    BY <1>1, <1>2, <1>3, <1>4, <1>5, <1>6, HoldsKeeps

-----------------------------------------------------------------------------
(* A handler closes a kernel descriptor. *)

(* What is left of r once its close is done. *)
LEMMA ClosingIs ==
    ASSUME NEW r, Shape(r), FirstIs(r, "close"), NEW q,
           IF Len(r.todo) = 1 THEN q = Idle ELSE Rest(r, q)
    PROVE  /\ Shape(q) /\ q.got = r.got /\ (q.means = r.means \/ q.got = <<>>)
           /\ Closes(r) = {Head(r.todo).fd} /\ Closes(q) = {}
           /\ Targets(q) = Targets(r) /\ Dups(q) = {}
           /\ \A p : q.todo # <<ToInsert(p)>> /\ q.todo # <<ToFork(p), ToInsert(p)>>
<1>1. \/ r.got = <<>> /\ \E k : r.todo = <<ToClose(k)>>
      \/ Moving(r)
    BY FirstOfShape DEF Quiet
<1>2. ASSUME r.got = <<>>, NEW k, r.todo = <<ToClose(k)>>
      PROVE  /\ Shape(q) /\ q.got = r.got /\ (q.means = r.means \/ q.got = <<>>)
             /\ Closes(r) = {Head(r.todo).fd} /\ Closes(q) = {}
             /\ Targets(q) = Targets(r) /\ Dups(q) = {}
             /\ \A p : q.todo # <<ToInsert(p)>> /\ q.todo # <<ToFork(p), ToInsert(p)>>
  <2>1. Len(r.todo) = 1 /\ Head(r.todo) = ToClose(k)
      BY <1>2, Tuples
  <2>2. q = Idle /\ Head(r.todo).fd = k
      BY <2>1 DEF ToClose
  <2>3. /\ One(ToClose(k), "dup") = {} /\ One(ToClose(k), "close") = {k}
        /\ One(ToClose(k), "allocate_at") = {}
      BY OneOf
  <2>4. Closes(r) = {k} /\ Targets(r) = {}
      BY <1>2, <2>3, Views
  <2>5. \A p : Idle.todo # <<ToInsert(p)>> /\ Idle.todo # <<ToFork(p), ToInsert(p)>>
      BY NothingToDo, Tuples
  <2> QED
      BY <1>2, <2>2, <2>4, <2>5, NothingToDo DEF EmptyHanded
<1>3. CASE Moving(r)
  <2>1. PICK to, e, m, d, k :
        /\ Closing1(m) /\ r.means = <<d>>
        /\ \/ /\ r.todo = <<ToAllocateAt(to, e)>> \/ r.todo = <<m, ToAllocateAt(to, e)>>
              /\ IF IsVirtual(e) THEN e.file_ops = d /\ r.got = <<>> ELSE r.got = <<k>>
           \/ /\ ~IsVirtual(e) /\ r.got = <<>>
              /\ \/ r.todo = <<ToDup(k), ToAllocateAt(to, e)>>
                 \/ r.todo = <<ToDup(k), m, ToAllocateAt(to, e)>>
      BY <1>3 DEF Moving
  <2>2. PICK at : at = ToAllocateAt(to, e)
      OBVIOUS
  <2>3. ToDup(k).do = "dup" /\ at.do = "allocate_at"
      BY <2>2 DEF ToDup, ToAllocateAt
  <2>4. Head(<<at>>) = at /\ Head(<<ToDup(k), at>>) = ToDup(k) /\ Head(<<ToDup(k), m, at>>) = ToDup(k)
      BY Tuples
  <2>5. Head(r.todo) # at /\ Head(r.todo) # ToDup(k)
      BY <2>3 DEF FirstIs
  <2>6. /\ r.todo = <<m, at>>
        /\ IF IsVirtual(e) THEN e.file_ops = d /\ r.got = <<>> ELSE r.got = <<k>>
      BY <2>1, <2>2, <2>4, <2>5
  <2>7. Head(r.todo) = m /\ Len(r.todo) = 2 /\ Tail(r.todo) = <<at>>
      BY <2>6, Tuples
  <2>8. PICK j : m = ToClose(j)
      BY <2>1, <2>7 DEF Closing1, FirstIs
  <2>9. Head(r.todo).fd = j /\ One(m, "close") = {j} /\ One(m, "dup") = {} /\ One(m, "allocate_at") = {}
      BY <2>7, <2>8, OneOf DEF ToClose
  <2>10. One(at, "dup") = {} /\ One(at, "close") = {} /\ One(at, "allocate_at") = {to}
      BY <2>2, OneOf
  <2>11. Closes(r) = One(m, "close") \cup One(at, "close") /\ Targets(r) = One(m, "allocate_at") \cup One(at, "allocate_at")
      BY <2>6, Views
  <2>12. q.todo = <<at>> /\ q.got = r.got /\ q.means = r.means
    <3>1. Rest(r, q)
        BY <2>7
    <3> QED
        BY <2>7, <3>1, Zenon DEF Rest
  <2>13. Closes(q) = {} /\ Targets(q) = {to} /\ Dups(q) = {}
      BY <2>10, <2>12, Views
  <2>14. Moving(q)
      BY <2>1, <2>2, <2>6, <2>12 DEF Moving
  <2>15. \A p : at # ToInsert(p)
      BY <2>2 DEF ToAllocateAt, ToInsert
  <2>16. \A p : q.todo # <<ToInsert(p)>> /\ q.todo # <<ToFork(p), ToInsert(p)>>
      BY <2>12, <2>15, Tuples
  <2> QED
      BY <2>9, <2>10, <2>11, <2>12, <2>13, <2>14, <2>16 DEF Shape
<1> QED
    BY <1>1, <1>2, <1>3

LEMMA CloseSteps ==
    ASSUME PosixInv, FdInv', ~ForkGap, TargetsApart, NEW t \in Threads, Close(t)
    PROVE  PosixInv'
<1>1. /\ Running(t) /\ Posix(Of[t]) /\ FirstIs(req[t], "close") /\ Shape(req[t]) /\ IsHandler(req[t])
      /\ Of[t] \in Procs /\ Continue(t) /\ UNCHANGED <<alive, table, guest, mine>>
    BY WaitingIs DEF Close, Awaits
<1>2. PICK p, E, K, G, T : /\ p = Of[t] /\ E = table[p].entries /\ K = kernel[p] /\ G = guest[p]
                           /\ T = ThreadsOf(p)
    OBVIOUS
<1>3. t \in T /\ T \subseteq Threads
    BY <1>2 DEF ThreadsOf
<1>4. PICK r, q, k : r = req[t] /\ q = req'[t] /\ k = Head(req[t].todo).fd
    OBVIOUS
<1>5. /\ IF Len(r.todo) = 1 THEN q = Idle ELSE Rest(r, q)
      /\ \A u \in Threads \ {t} : req'[u] = req[u]
    BY <1>1, <1>4, Continued DEF FirstIs, Rest, PosixInv
<1>6. /\ Shape(q) /\ q.got = r.got /\ (q.means = r.means \/ q.got = <<>>)
      /\ Closes(r) = {k} /\ Closes(q) = {}
      /\ Targets(q) = Targets(r) /\ Dups(q) = {}
      /\ \A c : q.todo # <<ToInsert(c)>> /\ q.todo # <<ToFork(c), ToInsert(c)>>
    BY <1>1, <1>4, <1>5, ClosingIs
<1>7. PICK L : L = Restrict(K, DOMAIN K \ {k})
    OBVIOUS
<1>8. /\ kernel'[p] = L /\ DOMAIN kernel' = Procs
      /\ \A c \in Procs \ {p} : kernel'[c] = kernel[c]
    BY <1>1, <1>2, <1>4, <1>7 DEF Close, KernelCloses, PosixInv, KernelSound
<1>9. DOMAIN L = DOMAIN K \ {k} /\ \A j \in DOMAIN L : L[j] = K[j]
    BY <1>7 DEF Restrict
<1>10. Consistent(E, K, G, T, req, mine)
    BY <1>1, <1>2 DEF Posix
<1>11. Works(E, K, r, mine[t]) /\ Hand(r) \subseteq DOMAIN K
    BY <1>3, <1>4, <1>10 DEF Consistent, HandsOwn
<1>12. Hand(q) = Hand(r) \ {k} /\ k \in Hand(r)
    BY <1>6, <1>11 DEF Hand, Works
<1>13. Works(E, L, q, mine[t])
  <2>1. \A i \in DOMAIN r.got : r.got[i] \in DOMAIN L
      BY <1>6, <1>9, <1>11 DEF Works, Hand, Range
  <2>2. q.got = <<>> => DOMAIN q.got = {}
      BY Tuples
  <2>3. \A i \in DOMAIN q.got : L[q.got[i]] = q.means[i]
      BY <1>6, <1>9, <1>11, <2>1, <2>2 DEF Works
  <2> QED
      BY <1>6, <1>11, <2>3 DEF Works
<1>14. Consistent(E, L, G, T, req', mine)
  <2>1. Unraced(T, req, mine)
      BY <1>1, <1>2 DEF TargetsApart
  <2>2. \A u \in T \ {t} : req'[u] = req[u]
      BY <1>3, <1>5
  <2>3. ClosesIt(E, K, T, req, mine, t, k, L, req')
      BY <1>3, <1>4, <1>6, <1>9, <1>12, <1>13, <2>1, <2>2 DEF ClosesIt
  <2> QED
      BY <1>10, <2>3, ClosesOne
<1>15. Posix(p)'
    BY <1>1, <1>2, <1>8, <1>14 DEF Posix, ThreadsOf
<1>16. DOMAIN L \in SUBSET Nat /\ IsFiniteSet(DOMAIN L)
    BY <1>1, <1>2, <1>9, FS_Subset DEF PosixInv, KernelSound
<1>17. Alone(t)
    BY <1>1, <1>2, <1>5, <1>8, <1>16 DEF Alone, PosixInv, KernelSound
<1> QED
    BY <1>1, <1>2, <1>4, <1>6, <1>15, <1>17, AloneKeeps

-----------------------------------------------------------------------------
(* A handler is given a kernel descriptor. *)

LEMMA KernelFdIsNew ==
    ASSUME PosixInv, NEW p \in Procs
    PROVE  KernelFd(p) \in Nat \ DOMAIN kernel[p]
<1>1. DOMAIN kernel[p] \in SUBSET Nat /\ IsFiniteSet(DOMAIN kernel[p])
    BY DEF PosixInv, KernelSound
<1> QED
    BY <1>1, LeastIsLeast DEF KernelFd, IsLeast

LEMMA GivesKeeps ==
    ASSUME PosixInv, FdInv', NEW t \in Threads, Running(t), Posix(Of[t]),
           NEW k, k = KernelFd(Of[t]), NEW d, KernelOpens(Of[t], d), UNCHANGED <<alive, table, guest, mine>>,
           \A u \in Threads \ {t} : req'[u] = req[u],
           Shape(req'[t]), Hand(req'[t]) = Hand(req[t]) \cup {k}, Targets(req'[t]) = Targets(req[t]),
           \A L : DOMAIN L = DOMAIN kernel[Of[t]] \cup {k} /\ L[k] = d
                  /\ (\A j \in DOMAIN kernel[Of[t]] : L[j] = kernel[Of[t]][j])
                     => Works(table[Of[t]].entries, L, req'[t], mine[t]),
           \A q : req'[t].todo # <<ToInsert(q)>>,
           \A q : req'[t].todo # <<ToFork(q), ToInsert(q)>>
    PROVE  PosixInv'
<1>1. PICK p, E, K, G, T : /\ p = Of[t] /\ E = table[p].entries /\ K = kernel[p] /\ G = guest[p]
                           /\ T = ThreadsOf(p)
    OBVIOUS
<1>2. t \in T /\ T \subseteq Threads /\ p \in Procs
    BY <1>1 DEF ThreadsOf, Procs
<1>3. k \in Nat \ DOMAIN K
    BY <1>1, <1>2, KernelFdIsNew
<1>4. PICK L : L = Bind(K, k, d)
    OBVIOUS
<1>5. DOMAIN L = DOMAIN K \cup {k} /\ L[k] = d /\ \A j \in DOMAIN K : L[j] = K[j]
    BY <1>3, <1>4 DEF Bind
<1>6. /\ kernel'[p] = L /\ DOMAIN kernel' = Procs
      /\ \A c \in Procs \ {p} : kernel'[c] = kernel[c]
    BY <1>1, <1>2, <1>4 DEF KernelOpens, PosixInv, KernelSound
<1>7. Works(E, L, req'[t], mine[t])
    BY <1>1, <1>5
<1>8. Consistent(E, K, G, T, req, mine)
    BY <1>1 DEF Posix
<1>9. Consistent(E, L, G, T, req', mine)
  <2>1. GivesOne(E, K, T, req, mine, t, k, L, req')
      BY <1>2, <1>3, <1>5, <1>7 DEF GivesOne
  <2> QED
      BY <1>8, <2>1, GivenOne
<1>10. Posix(p)'
    BY <1>1, <1>6, <1>9 DEF Posix, ThreadsOf
<1>11. DOMAIN L \in SUBSET Nat /\ IsFiniteSet(DOMAIN L)
    BY <1>1, <1>2, <1>3, <1>5, FS_AddElement DEF PosixInv, KernelSound
<1>12. Alone(t)
    BY <1>1, <1>2, <1>6, <1>11 DEF Alone, PosixInv, KernelSound
<1> QED
    BY <1>1, <1>10, <1>12, AloneKeeps

(* The handler r is given k, for d, and q is what is left of it. *)
Given(r, k, d, q) ==
    /\ Shape(q) /\ Dups(q) = {} /\ Closes(q) = Closes(r) /\ Targets(q) = Targets(r)
    /\ \/ r.got = <<>> /\ q.got = <<k>> /\ q.means = <<d>>
       \/ \E j, c : r.got = <<j>> /\ r.means = <<c>> /\ q.got = <<j, k>> /\ q.means = <<c, d>>
    /\ \A p : q.todo # <<ToInsert(p)>> /\ q.todo # <<ToFork(p), ToInsert(p)>>

LEMMA NoFork ==
    /\ \A a : (\A p : a # ToInsert(p)) => \A p : <<a>> # <<ToInsert(p)>> /\ <<a>> # <<ToFork(p), ToInsert(p)>>
    /\ \A a, b : (\A p : a # ToFork(p)) => \A p : <<a, b>> # <<ToInsert(p)>> /\ <<a, b>> # <<ToFork(p), ToInsert(p)>>
<1>1. ASSUME NEW a, \A p : a # ToInsert(p), NEW p
      PROVE  <<a>> # <<ToInsert(p)>> /\ <<a>> # <<ToFork(p), ToInsert(p)>>
  <2>1. Len(<<a>>) = 1 /\ Len(<<ToFork(p), ToInsert(p)>>) = 2
      BY Tuples
  <2>2. <<a>> = <<ToInsert(p)>> => a = ToInsert(p)
      BY Tuples
  <2> QED
      BY <1>1, <2>1, <2>2
<1>2. ASSUME NEW a, NEW b, \A p : a # ToFork(p), NEW p
      PROVE  <<a, b>> # <<ToInsert(p)>> /\ <<a, b>> # <<ToFork(p), ToInsert(p)>>
  <2>1. Len(<<a, b>>) = 2 /\ Len(<<ToInsert(p)>>) = 1
      BY Tuples
  <2>2. <<a, b>> = <<ToFork(p), ToInsert(p)>> => a = ToFork(p)
      BY Tuples
  <2> QED
      BY <1>2, <2>1, <2>2
<1> QED
    BY <1>1, <1>2

LEMMA AppendedTwo ==
    ASSUME NEW a, NEW b
    PROVE  Append(<<a>>, b) = <<a, b>>
<1>1. PICK S, s : S = {a, b} /\ s = <<a>>
    OBVIOUS
<1>2. s \in Seq(S) /\ b \in S
    BY <1>1
<1>3. Append(s, b) = s \o <<b>>
    BY <1>2, AppendIsConcat
<1> QED
    BY <1>1, <1>3, JoinedTwo

LEMMA OpeningIsGiven ==
    ASSUME NEW r, Opening(r), NEW k, NEW d, NEW q,
           q.todo = Tail(r.todo), q.got = Append(r.got, k), q.means = Append(r.means, d)
    PROVE  Given(r, k, d, q)
<1>1. \A kind \in {"dup", "close", "allocate_at"} : One(ToOpen, kind) = {} /\ One(ToAllocate, kind) = {}
    BY OneOf
<1>2. ToOpen # ToAllocate /\ \A p : ToOpen # ToFork(p) /\ ToAllocate # ToInsert(p)
    BY DEF ToOpen, ToAllocate, ToFork, ToInsert
<1>3. Append(<<>>, k) = <<k>> /\ Append(<<>>, d) = <<d>>
    OBVIOUS
<1>4. CASE r.todo = <<ToOpen, ToOpen, ToAllocate>> /\ r.got = <<>> /\ r.means = <<>>
  <2>1. q.todo = <<ToOpen, ToAllocate>> /\ q.got = <<k>> /\ q.means = <<d>>
      BY <1>3, <1>4, Tuples
  <2>2. Opening(q)
      BY <2>1 DEF Opening
  <2>3. Dups(q) = {} /\ Closes(q) = {} /\ Targets(q) = {} /\ Closes(r) = {} /\ Targets(r) = {}
      BY <1>1, <1>4, <2>1, Views
  <2>4. \A p : q.todo # <<ToInsert(p)>> /\ q.todo # <<ToFork(p), ToInsert(p)>>
    <3>1. \A p : ToOpen # ToFork(p)
        BY <1>2
    <3>2. \A p : /\ <<ToOpen, ToAllocate>> # <<ToInsert(p)>>
                 /\ <<ToOpen, ToAllocate>> # <<ToFork(p), ToInsert(p)>>
        BY <3>1, NoFork, Zenon
    <3> QED
        BY <2>1, <3>2
  <2> QED
      BY <1>4, <2>1, <2>2, <2>3, <2>4 DEF Given, Shape
<1>5. CASE r.todo = <<ToOpen, ToAllocate>>
  <2>1. q.todo = <<ToAllocate>>
      BY <1>5, Tuples
  <2>2. Dups(q) = {} /\ Closes(q) = {} /\ Targets(q) = {} /\ Closes(r) = {} /\ Targets(r) = {}
      BY <1>1, <1>5, <2>1, Views
  <2>3. \A p : q.todo # <<ToInsert(p)>> /\ q.todo # <<ToFork(p), ToInsert(p)>>
      BY <1>2, <2>1, NoFork
  <2>4. CASE r.got = <<>> /\ r.means = <<>>
    <3>1. q.got = <<k>> /\ q.means = <<d>>
        BY <1>3, <2>4
    <3>2. Placing(q)
        BY <2>1, <3>1 DEF Placing, Gives
    <3> QED
        BY <2>2, <2>3, <2>4, <3>1, <3>2 DEF Given, Shape
  <2>5. ASSUME NEW j, NEW c, r.got = <<j>>, r.means = <<c>> PROVE Given(r, k, d, q)
    <3>1. Append(<<j>>, k) = <<j, k>> /\ Append(<<c>>, d) = <<c, d>>
        BY AppendedTwo
    <3>2. q.got = <<j, k>> /\ q.means = <<c, d>>
        BY <2>5, <3>1
    <3>3. Placing(q)
        BY <2>1, <3>2 DEF Placing
    <3> QED
        BY <2>2, <2>3, <2>5, <3>2, <3>3 DEF Given, Shape
  <2>6. (r.got = <<>> /\ r.means = <<>>) \/ \E j, c : r.got = <<j>> /\ r.means = <<c>>
      BY DEF Opening
  <2> QED
      BY <2>4, <2>5, <2>6
<1> QED
    BY <1>4, <1>5 DEF Opening

(* What a handler with a descriptor more in hand is worth. *)
LEMMA GivenWorks ==
    ASSUME NEW E, NEW K, NEW r, NEW m, Works(E, K, r, m), Hand(r) \subseteq DOMAIN K,
           NEW k, k \notin DOMAIN K, NEW d, NEW q, Given(r, k, d, q),
           NEW L, DOMAIN L = DOMAIN K \cup {k}, L[k] = d, \A j \in DOMAIN K : L[j] = K[j]
    PROVE  Works(E, L, q, m) /\ Hand(q) = Hand(r) \cup {k}
<1>1. CASE r.got = <<>> /\ q.got = <<k>> /\ q.means = <<d>>
  <2>1. Range(r.got) = {} /\ Range(q.got) = {k} /\ DOMAIN q.got = {1} /\ q.got[1] = k /\ q.means[1] = d
      BY <1>1, Tuples
  <2>2. Hand(q) = Hand(r) \cup {k}
      BY <2>1 DEF Hand, Given
  <2> QED
      BY <2>1, <2>2 DEF Works, Given, Hand
<1>2. ASSUME NEW j, NEW c, r.got = <<j>>, r.means = <<c>>, q.got = <<j, k>>, q.means = <<c, d>>
      PROVE  Works(E, L, q, m) /\ Hand(q) = Hand(r) \cup {k}
  <2>1. /\ Range(r.got) = {j} /\ Range(q.got) = {j, k} /\ DOMAIN q.got = {1, 2} /\ DOMAIN r.got = {1}
        /\ r.got[1] = j /\ r.means[1] = c
        /\ q.got[1] = j /\ q.got[2] = k /\ q.means[1] = c /\ q.means[2] = d
      BY <1>2, Tuples
  <2>2. Hand(q) = Hand(r) \cup {k}
      BY <2>1 DEF Hand, Given
  <2>3. j \in DOMAIN K /\ j # k /\ K[j] = c
      BY <2>1 DEF Works, Hand
  <2>4. \A i, n \in DOMAIN q.got : q.got[i] = q.got[n] => i = n
      BY <2>1, <2>3
  <2>5. \A i \in DOMAIN q.got : L[q.got[i]] = q.means[i]
      BY <2>1, <2>3
  <2>6. Closes(q) \cap Range(q.got) = {}
      BY <2>1 DEF Works, Given, Hand
  <2> QED
      BY <2>2, <2>4, <2>5, <2>6 DEF Works, Given
<1> QED
    BY <1>1, <1>2 DEF Given

LEMMA DupIsGiven ==
    ASSUME NEW r, Duplicating(r) \/ Moving(r), FirstIs(r, "dup"), NEW k, NEW q,
           q.todo = Tail(r.todo), q.got = <<k>>, q.means = r.means
    PROVE  /\ Given(r, k, r.means[1], q)
           /\ Head(r.todo).fd \in Dups(r)
<1>1. CASE Duplicating(r)
  <2>1. PICK x, j, d : Gives(x) /\ r.todo = <<ToDup(j), x>> /\ r.got = <<>> /\ r.means = <<d>>
      BY <1>1 DEF Duplicating
  <2>2. q.todo = <<x>> /\ Head(r.todo) = ToDup(j) /\ r.means[1] = d
      BY <2>1, Tuples
  <2>3. One(x, "dup") = {} /\ One(x, "close") = {} /\ One(x, "allocate_at") = {}
      BY <2>1, OneOf
  <2>4. /\ One(ToDup(j), "dup") = {j} /\ One(ToDup(j), "close") = {} /\ One(ToDup(j), "allocate_at") = {}
        /\ ToDup(j).fd = j
      BY OneOf DEF ToDup
  <2>5. /\ Dups(q) = {} /\ Closes(q) = {} /\ Targets(q) = {}
      BY <2>2, <2>3, Views
  <2>6. /\ Dups(r) = One(ToDup(j), "dup") \cup One(x, "dup")
        /\ Closes(r) = One(ToDup(j), "close") \cup One(x, "close")
        /\ Targets(r) = One(ToDup(j), "allocate_at") \cup One(x, "allocate_at")
      BY <2>1, Views
  <2>7. \A p : x # ToInsert(p)
      BY <2>1 DEF Gives, ToAllocate, ToAllocateMin, ToInsert
  <2>8. \A p : q.todo # <<ToInsert(p)>> /\ q.todo # <<ToFork(p), ToInsert(p)>>
      BY <2>2, <2>7, NoFork
  <2>9. Placing(q)
      BY <2>1, <2>2 DEF Placing
  <2> QED
      BY <2>1, <2>2, <2>3, <2>4, <2>5, <2>6, <2>8, <2>9 DEF Given, Shape
<1>2. CASE Moving(r)
  <2>1. PICK to, e, m, d, j :
        /\ Closing1(m) /\ r.means = <<d>>
        /\ \/ /\ r.todo = <<ToAllocateAt(to, e)>> \/ r.todo = <<m, ToAllocateAt(to, e)>>
              /\ IF IsVirtual(e) THEN e.file_ops = d /\ r.got = <<>> ELSE r.got = <<j>>
           \/ /\ ~IsVirtual(e) /\ r.got = <<>>
              /\ \/ r.todo = <<ToDup(j), ToAllocateAt(to, e)>>
                 \/ r.todo = <<ToDup(j), m, ToAllocateAt(to, e)>>
      BY <1>2 DEF Moving
  <2>2. PICK at : at = ToAllocateAt(to, e)
      OBVIOUS
  <2>3. at.do = "allocate_at" /\ m.do # "dup" /\ m.do # "fork"
      BY <2>1, <2>2 DEF ToAllocateAt, Closing1, ToClose
  <2>4. /\ ~IsVirtual(e) /\ r.got = <<>> /\ r.means = <<d>>
        /\ r.todo = <<ToDup(j), at>> \/ r.todo = <<ToDup(j), m, at>>
    <3>1. Head(<<at>>) = at /\ Head(<<m, at>>) = m
        BY Tuples
    <3>2. r.todo # <<at>> /\ r.todo # <<m, at>>
        BY <2>3, <3>1 DEF FirstIs
    <3> QED
        BY <2>1, <2>2, <3>2
  <2>5. r.means[1] = d
      BY <2>4, Tuples
  <2>6. One(m, "dup") = {} /\ One(m, "allocate_at") = {}
      BY <2>1, OneOf
  <2>7. One(at, "dup") = {} /\ One(at, "close") = {} /\ One(at, "allocate_at") = {to}
      BY <2>2, OneOf
  <2>8. /\ One(ToDup(j), "dup") = {j} /\ One(ToDup(j), "close") = {} /\ One(ToDup(j), "allocate_at") = {}
        /\ ToDup(j).fd = j
      BY OneOf DEF ToDup
  <2>9. (\A p : at # ToInsert(p)) /\ (\A p : m # ToFork(p))
      BY <2>2, <2>3 DEF ToAllocateAt, ToInsert, ToFork
  <2>10. CASE r.todo = <<ToDup(j), at>>
    <3>1. q.todo = <<at>> /\ Head(r.todo) = ToDup(j)
        BY <2>10, Tuples
    <3>2. /\ Dups(q) = {} /\ Closes(q) = {} /\ Targets(q) = {to}
        BY <2>7, <3>1, Views
    <3>3. /\ Dups(r) = One(ToDup(j), "dup") \cup One(at, "dup")
          /\ Closes(r) = One(ToDup(j), "close") \cup One(at, "close")
          /\ Targets(r) = One(ToDup(j), "allocate_at") \cup One(at, "allocate_at")
        BY <2>10, Views
    <3>4. \A p : q.todo # <<ToInsert(p)>> /\ q.todo # <<ToFork(p), ToInsert(p)>>
        BY <2>9, <3>1, NoFork
    <3>5. Moving(q)
        BY <2>1, <2>2, <2>4, <3>1 DEF Moving
    <3> QED
        BY <2>4, <2>5, <2>7, <2>8, <3>1, <3>2, <3>3, <3>4, <3>5 DEF Given, Shape
  <2>11. CASE r.todo = <<ToDup(j), m, at>>
    <3>1. q.todo = <<m, at>> /\ Head(r.todo) = ToDup(j)
        BY <2>11, Tuples
    <3>2. /\ Dups(q) = One(m, "dup") \cup One(at, "dup")
          /\ Closes(q) = One(m, "close") \cup One(at, "close")
          /\ Targets(q) = One(m, "allocate_at") \cup One(at, "allocate_at")
        BY <3>1, Views
    <3>3. /\ Dups(r) = One(ToDup(j), "dup") \cup One(m, "dup") \cup One(at, "dup")
          /\ Closes(r) = One(ToDup(j), "close") \cup One(m, "close") \cup One(at, "close")
          /\ Targets(r) = One(ToDup(j), "allocate_at") \cup One(m, "allocate_at") \cup One(at, "allocate_at")
        BY <2>11, Views
    <3>4. \A p : q.todo # <<ToInsert(p)>> /\ q.todo # <<ToFork(p), ToInsert(p)>>
      <4>1. \A p : m # ToFork(p)
          BY <2>9
      <4>2. \A p : <<m, at>> # <<ToInsert(p)>> /\ <<m, at>> # <<ToFork(p), ToInsert(p)>>
          BY <4>1, NoFork, Zenon
      <4> QED
          BY <3>1, <4>2, Zenon
    <3>5. Moving(q)
        BY <2>1, <2>2, <2>4, <3>1 DEF Moving
    <3>6. Dups(q) = {} /\ Closes(q) = Closes(r) /\ Targets(q) = Targets(r) /\ j \in Dups(r)
        BY <2>6, <2>7, <2>8, <3>2, <3>3
    <3> QED
        BY <2>4, <2>5, <2>8, <3>1, <3>4, <3>5, <3>6 DEF Given, Shape
  <2> QED
      BY <2>4, <2>10, <2>11
<1> QED
    BY <1>1, <1>2

(* A handler whose kernel call has returned a descriptor. *)
LEMMA GivenKeeps ==
    ASSUME PosixInv, FdInv', NEW t \in Threads, Running(t), Posix(Of[t]),
           NEW k, k = KernelFd(Of[t]), NEW d, KernelOpens(Of[t], d), UNCHANGED <<alive, table, guest, mine>>,
           \A u \in Threads \ {t} : req'[u] = req[u], Given(req[t], k, d, req'[t])
    PROVE  PosixInv'
<1>1. PICK r, q, E, K, m : /\ r = req[t] /\ q = req'[t] /\ E = table[Of[t]].entries /\ K = kernel[Of[t]]
                           /\ m = mine[t]
    OBVIOUS
<1>2. t \in ThreadsOf(Of[t]) /\ Of[t] \in Procs
    BY DEF ThreadsOf, Procs
<1>3. Works(E, K, r, m) /\ Hand(r) \subseteq DOMAIN K
    BY <1>1, <1>2 DEF Posix, Consistent, HandsOwn
<1>4. k \notin DOMAIN K
    BY <1>1, <1>2, KernelFdIsNew
<1>5. Given(r, k, d, q)
    BY <1>1
<1>6. ASSUME NEW L, DOMAIN L = DOMAIN K \cup {k}, L[k] = d, \A j \in DOMAIN K : L[j] = K[j]
      PROVE  Works(E, L, q, m)
    BY <1>3, <1>4, <1>5, <1>6, GivenWorks
<1>7. Hand(q) = Hand(r) \cup {k}
  <2>1. PICK L : L = [j \in DOMAIN K \cup {k} |-> IF j = k THEN d ELSE K[j]]
      OBVIOUS
  <2>2. DOMAIN L = DOMAIN K \cup {k} /\ L[k] = d /\ \A j \in DOMAIN K : L[j] = K[j]
      BY <1>4, <2>1
  <2>3. Works(E, L, q, m) /\ Hand(q) = Hand(r) \cup {k}
      BY <1>3, <1>4, <1>5, <2>2, GivenWorks
  <2> QED
      BY <2>3
<1>8. Shape(q) /\ Targets(q) = Targets(r) /\ \A p : q.todo # <<ToInsert(p)>> /\ q.todo # <<ToFork(p), ToInsert(p)>>
    BY <1>5 DEF Given
<1> QED
    BY <1>1, <1>6, <1>7, <1>8, GivesKeeps

LEMMA OpenSteps ==
    ASSUME PosixInv, FdInv', ~ForkGap, NEW t \in Threads, Open(t)
    PROVE  PosixInv'
<1>1. /\ Running(t) /\ Posix(Of[t]) /\ FirstIs(req[t], "open") /\ Shape(req[t]) /\ IsHandler(req[t])
      /\ UNCHANGED <<alive, table, guest, mine>>
    BY WaitingIs DEF Open, Awaits
<1>2. PICK d, k, r, q : d = made' /\ k = KernelFd(Of[t]) /\ r = req[t] /\ q = req'[t]
    OBVIOUS
<1>3. KernelOpens(Of[t], d)
    BY <1>2 DEF Open
<1>4. PICK n, got, means : n = Next1(t) /\ got = Append(n.got, k) /\ means = Append(n.means, d)
    OBVIOUS
<1>5. r = [todo |-> r.todo, got |-> r.got, means |-> r.means, copy |-> r.copy] /\ DOMAIN req = Threads
    BY <1>1, <1>2 DEF IsHandler, PosixInv, FdInv, HandlersSound
<1>6. n.todo = Tail(r.todo) /\ n.got = r.got /\ n.means = r.means
      /\ n = [todo |-> n.todo, got |-> n.got, means |-> n.means, copy |-> n.copy]
    BY <1>2, <1>4, <1>5 DEF Next1
<1>7. PICK x : x = [n EXCEPT !.got = got, !.means = means]
    OBVIOUS
<1>8. x.todo = n.todo /\ x.got = got /\ x.means = means
  <2>1. PICK y : y = [n EXCEPT !.got = got]
      OBVIOUS
  <2>2. y.todo = n.todo /\ y.got = got /\ y = [todo |-> n.todo, got |-> got, means |-> n.means, copy |-> n.copy]
      BY <1>6, <2>1
  <2>3. x = [y EXCEPT !.means = means]
      BY <1>7, <2>1
  <2> QED
      BY <2>2, <2>3
<1>9. req' = [req EXCEPT ![t] = x]
    BY <1>2, <1>4, <1>7 DEF Open
<1>10. q = x /\ \A u \in Threads \ {t} : req'[u] = req[u]
    BY <1>2, <1>5, <1>9
<1>11. Opening(r)
    BY <1>1, <1>2, FirstOfShape DEF Quiet
<1>12. Given(r, k, d, q)
    BY <1>4, <1>6, <1>8, <1>10, <1>11, OpeningIsGiven
<1> QED
    BY <1>1, <1>2, <1>3, <1>10, <1>12, GivenKeeps

LEMMA DupSteps ==
    ASSUME PosixInv, FdInv', ~ForkGap, NEW t \in Threads, Dup(t)
    PROVE  PosixInv'
<1>1. /\ Running(t) /\ Posix(Of[t]) /\ FirstIs(req[t], "dup") /\ Shape(req[t]) /\ IsHandler(req[t])
      /\ UNCHANGED <<alive, table, guest, mine>>
    BY WaitingIs DEF Dup, Awaits
<1>2. PICK k, r, q, j : k = KernelFd(Of[t]) /\ r = req[t] /\ q = req'[t] /\ j = Head(req[t].todo).fd
    OBVIOUS
<1>3. PICK K, d : K = kernel[Of[t]] /\ d = r.means[1]
    OBVIOUS
<1>4. r = [todo |-> r.todo, got |-> r.got, means |-> r.means, copy |-> r.copy] /\ DOMAIN req = Threads
    BY <1>1, <1>2 DEF IsHandler, PosixInv, FdInv, HandlersSound
<1>5. Duplicating(r) \/ Moving(r)
    BY <1>1, <1>2, FirstOfShape DEF Quiet
<1>6. PICK n, x : n = Next1(t) /\ x = [n EXCEPT !.got = <<k>>]
    OBVIOUS
<1>7. n = [todo |-> Tail(r.todo), got |-> r.got, means |-> r.means, copy |-> r.copy]
    BY <1>2, <1>4, <1>6 DEF Next1
<1>8. x.todo = Tail(r.todo) /\ x.got = <<k>> /\ x.means = r.means
    BY <1>6, <1>7
<1>9. Given(r, k, d, x) /\ j \in Dups(r)
    BY <1>1, <1>2, <1>3, <1>5, <1>8, DupIsGiven
<1>10. j \in DOMAIN K /\ K[j] = d
    BY <1>1, <1>2, <1>3, <1>9 DEF Posix, Consistent, Works, ThreadsOf
<1>11. KernelOpens(Of[t], d) /\ req' = [req EXCEPT ![t] = x]
    BY <1>2, <1>3, <1>6, <1>10 DEF Dup
<1>12. q = x /\ \A u \in Threads \ {t} : req'[u] = req[u]
    BY <1>2, <1>4, <1>11
<1> QED
    BY <1>1, <1>2, <1>9, <1>11, <1>12, GivenKeeps

-----------------------------------------------------------------------------
(* Handlers that put what they have in hand into the table. *)

(* A kernel descriptor in hand, as an entry. *)
LEMMA PassedThrough ==
    ASSUME NEW E, NEW K, NEW G, NEW T, NEW R, NEW M, Consistent(E, K, G, T, R, M),
           NEW t \in T, NEW i \in DOMAIN R[t].got
    PROVE  /\ R[t].got[i] \in DOMAIN K
           /\ Serves(Passthrough(R[t].got[i]), K, R[t].means[i])
           /\ KernelOf(Passthrough(R[t].got[i])) = {R[t].got[i]}
<1>1. PICK k : k = R[t].got[i]
    OBVIOUS
<1>2. k \in Range(R[t].got)
    BY <1>1 DEF Range
<1>3. k \in DOMAIN K /\ K[k] = R[t].means[i] /\ k \in Nat
    BY <1>1, <1>2 DEF Consistent, HandsOwn, Hand, Works
<1>4. ~IsVirtual(Passthrough(k)) /\ Passthrough(k).kernel_fd = k
    BY <1>3 DEF IsVirtual, Passthrough, Unset
<1> QED
    BY <1>1, <1>3, <1>4 DEF Serves, KernelOf

LEMMA PlacingIs ==
    ASSUME NEW r, Placing(r)
    PROVE  /\ Closes(r) = {} /\ Dups(r) = {} /\ Targets(r) = {}
           /\ \/ \E k, d : r.got = <<k>> /\ r.means = <<d>>
              \/ \E k, d, j, c : r.got = <<k, j>> /\ r.means = <<d, c>>
           /\ Head(r.todo).do # "allocate" => \E k, d : r.got = <<k>> /\ r.means = <<d>>
<1>1. \A kind \in {"dup", "close", "allocate_at"} : One(ToAllocate, kind) = {} /\ \A x : Gives(x) => One(x, kind) = {}
    BY OneOf
<1>2. ASSUME NEW x, NEW k, NEW d, Gives(x), r.todo = <<x>>, r.got = <<k>>, r.means = <<d>>
      PROVE  Closes(r) = {} /\ Dups(r) = {} /\ Targets(r) = {}
  <2>1. One(x, "dup") = {} /\ One(x, "close") = {} /\ One(x, "allocate_at") = {}
      BY <1>1, <1>2
  <2> QED
      BY <1>2, <2>1, Views
<1>3. CASE r.todo = <<ToAllocate>>
  <2>1. One(ToAllocate, "dup") = {} /\ One(ToAllocate, "close") = {} /\ One(ToAllocate, "allocate_at") = {}
      BY <1>1
  <2>2. Closes(r) = {} /\ Dups(r) = {} /\ Targets(r) = {}
      BY <1>3, <2>1, Views
  <2>3. Head(r.todo).do = "allocate"
      BY <1>3, Tuples DEF ToAllocate
  <2> QED
      BY <2>2, <2>3 DEF Placing
<1> QED
    BY <1>2, <1>3 DEF Placing

(* One descriptor in hand. *)
LEMMA PlacesGot ==
    ASSUME PosixInv, FdInv', TargetsApart, TargetsApart', NEW t \in Threads, Running(t), Posix(Of[t]),
           NEW k, NEW d, req[t].got = <<k>>, req[t].means = <<d>>, Closes(req[t]) = {},
           NEW v, NEW tb, table' = [table EXCEPT ![Of[t]] = tb],
           PlacedIn(table[Of[t]].entries, tb.entries, v, Passthrough(k)), Told(t, v, d),
           UNCHANGED <<alive, kernel>>, Return(t), Targets(req[t]) \subseteq {v},
           v \notin DOMAIN table[Of[t]].entries \/ Targets(req[t]) = {v}
    PROVE  PosixInv'
<1>1. req'[t] = Idle /\ \A u \in Threads \ {t} : req'[u] = req[u]
    BY Returned DEF PosixInv
<1>2. /\ DOMAIN req[t].got = {1} /\ req[t].got[1] = k /\ req[t].means[1] = d /\ Range(req[t].got) = {k}
    BY Tuples
<1>3. t \in ThreadsOf(Of[t])
    BY DEF ThreadsOf
<1>4. Serves(Passthrough(k), kernel[Of[t]], d) /\ KernelOf(Passthrough(k)) = {k}
    BY <1>2, <1>3, PassedThrough DEF Posix
<1>5. Hand(req[t]) = KernelOf(Passthrough(k))
    BY <1>2, <1>4 DEF Hand
<1>6. PICK e : e = Passthrough(k)
    OBVIOUS
<1> QED
    BY <1>1, <1>4, <1>5, <1>6, PlacesKeeps

LEMMA AllocateMinSteps ==
    ASSUME PosixInv, FdInv', ~ForkGap, TargetsApart, TargetsApart', NEW t \in Threads, AllocateMin(t)
    PROVE  PosixInv'
<1>1. /\ Running(t) /\ Posix(Of[t]) /\ FirstIs(req[t], "allocate_min") /\ Shape(req[t]) /\ IsHandler(req[t])
      /\ UNCHANGED <<alive, kernel>> /\ Return(t)
    BY WaitingIs DEF AllocateMin, Awaits
<1>2. Placing(req[t])
    BY <1>1, FirstOfShape DEF Quiet
<1>3. PICK k, d : req[t].got = <<k>> /\ req[t].means = <<d>>
    BY <1>1, <1>2, PlacingIs DEF FirstIs
<1>4. Closes(req[t]) = {} /\ Targets(req[t]) = {}
    BY <1>2, PlacingIs
<1>5. PICK min : min = Head(req[t].todo).min
    OBVIOUS
<1>6. min \in Nat
    BY <1>5, Awaiting DEF PosixInv, AllocateMin, Sound
<1>7. PICK tb, e, v : tb = table[Of[t]] /\ e = Passthrough(k) /\ v = AtLeast(table[Of[t]], min)
    OBVIOUS
<1>8. PICK nt : nt = allocate_min(tb, min, e)
    OBVIOUS
<1>9. req[t].got[1] = k /\ req[t].means[1] = d
    BY <1>3, Tuples
<1>10. table' = [table EXCEPT ![Of[t]] = nt] /\ Told(t, v, d)
    BY <1>5, <1>7, <1>8, <1>9, OwnProcess DEF AllocateMin, PosixInv, FdInv, TablesSound
<1>11. PlacedIn(tb.entries, nt.entries, v, e) /\ v \notin DOMAIN tb.entries
    BY <1>6, <1>7, <1>8, OwnProcess, AllocatesMinThere DEF PosixInv
<1> QED
    BY <1>1, <1>3, <1>4, <1>7, <1>10, <1>11, PlacesGot

LEMMA AllocateAtSteps ==
    ASSUME PosixInv, FdInv', ~ForkGap, TargetsApart, TargetsApart', NEW t \in Threads, AllocateAt(t)
    PROVE  PosixInv'
<1>1. /\ Running(t) /\ Posix(Of[t]) /\ FirstIs(req[t], "allocate_at") /\ Shape(req[t]) /\ IsHandler(req[t])
      /\ UNCHANGED <<alive, kernel>> /\ Return(t)
    BY WaitingIs DEF AllocateAt, Awaits
<1>2. PICK r : r = req[t]
    OBVIOUS
<1>3. Moving(r)
    BY <1>1, <1>2, FirstOfShape DEF Quiet
<1>4. PICK to, e, m, d, k :
        /\ Closing1(m) /\ r.means = <<d>>
        /\ \/ /\ r.todo = <<ToAllocateAt(to, e)>> \/ r.todo = <<m, ToAllocateAt(to, e)>>
              /\ IF IsVirtual(e) THEN e.file_ops = d /\ r.got = <<>> ELSE r.got = <<k>>
           \/ /\ ~IsVirtual(e) /\ r.got = <<>>
              /\ \/ r.todo = <<ToDup(k), ToAllocateAt(to, e)>>
                 \/ r.todo = <<ToDup(k), m, ToAllocateAt(to, e)>>
    BY <1>3 DEF Moving
<1>5. PICK at : at = ToAllocateAt(to, e)
    OBVIOUS
<1>6. /\ r.todo = <<at>> /\ Head(r.todo) = at
      /\ IF IsVirtual(e) THEN e.file_ops = d /\ r.got = <<>> ELSE r.got = <<k>>
  <2>1. m.do # "allocate_at" /\ ToDup(k).do # "allocate_at"
      BY <1>4 DEF Closing1, ToClose, ToDup
  <2>2. /\ Head(<<at>>) = at /\ Head(<<m, at>>) = m /\ Head(<<ToDup(k), at>>) = ToDup(k)
        /\ Head(<<ToDup(k), m, at>>) = ToDup(k)
      BY Tuples
  <2>3. Head(r.todo) # m /\ Head(r.todo) # ToDup(k)
      BY <1>1, <1>2, <2>1 DEF FirstIs
  <2> QED
      BY <1>4, <1>5, <2>2, <2>3
<1>7. at.fd = to /\ at.entry = e
    BY <1>5 DEF ToAllocateAt
<1>8. One(at, "close") = {} /\ One(at, "allocate_at") = {to}
    BY <1>5, OneOf
<1>9. Closes(r) = {} /\ Targets(r) = {to}
    BY <1>6, <1>8, Views
<1>10. to \in Nat
    BY <1>2, <1>6, <1>7, Awaiting DEF PosixInv, AllocateAt, Sound
<1>11. PICK tb : tb = table[Of[t]]
    OBVIOUS
<1>12. r.means[1] = d
    BY <1>4, Tuples
<1>13. CASE IsVirtual(e)
  <2>1. PICK nt : nt = allocate_at(tb, to, e)
      OBVIOUS
  <2>2. table' = [table EXCEPT ![Of[t]] = nt] /\ Told(t, to, d)
      BY <1>2, <1>6, <1>7, <1>11, <1>12, <1>13, <2>1, OwnProcess DEF AllocateAt, PosixInv, FdInv, TablesSound
  <2>3. PlacedIn(tb.entries, nt.entries, to, e)
      BY <1>10, <1>11, <2>1, OwnProcess, AllocatesAtThere DEF PosixInv
  <2>4. Serves(e, kernel[Of[t]], d) /\ KernelOf(e) = {}
      BY <1>6, <1>13 DEF Serves, KernelOf
  <2>5. Hand(r) = {}
      BY <1>6, <1>9, <1>13, Tuples DEF Hand
  <2>6. req'[t] = Idle /\ \A u \in Threads \ {t} : req'[u] = req[u]
      BY <1>1, Returned DEF PosixInv
  <2> QED
      BY <1>1, <1>2, <1>9, <1>11, <2>2, <2>3, <2>4, <2>5, <2>6, PlacesKeeps
<1>14. CASE ~IsVirtual(e)
  <2>1. PICK nt, f : nt = allocate_at(tb, to, Passthrough(k)) /\ f = Passthrough(k)
      OBVIOUS
  <2>2. r.got[1] = k
      BY <1>6, <1>14, Tuples
  <2>3. table' = [table EXCEPT ![Of[t]] = nt] /\ Told(t, to, d)
      BY <1>2, <1>6, <1>7, <1>11, <1>12, <1>14, <2>1, <2>2, OwnProcess
         DEF AllocateAt, PosixInv, FdInv, TablesSound
  <2>4. PlacedIn(tb.entries, nt.entries, to, Passthrough(k))
      BY <1>10, <1>11, <2>1, OwnProcess, AllocatesAtThere DEF PosixInv
  <2> QED
      BY <1>1, <1>2, <1>4, <1>6, <1>9, <1>11, <1>14, <2>3, <2>4, PlacesGot
<1> QED
    BY <1>13, <1>14

(* Two descriptors in hand: first the one is put into the table, and then  *)
(* the other.                                                              *)
LEMMA PlacesBoth ==
    ASSUME PosixInv, FdInv', TargetsApart, TargetsApart', NEW t \in Threads, Running(t), Posix(Of[t]),
           NEW k, NEW d, NEW j, NEW c, req[t].got = <<k, j>>, req[t].means = <<d, c>>,
           Closes(req[t]) = {}, Dups(req[t]) = {}, Targets(req[t]) = {},
           NEW v, NEW w, NEW tb, NEW nt, table' = [table EXCEPT ![Of[t]] = nt],
           PlacedIn(table[Of[t]].entries, tb.entries, v, Passthrough(k)),
           PlacedIn(tb.entries, nt.entries, w, Passthrough(j)),
           v \notin DOMAIN table[Of[t]].entries, w \notin DOMAIN tb.entries,
           guest' = [guest EXCEPT ![Of[t]] = Bind(Bind(@, v, d), w, c)],
           mine' = [mine EXCEPT ![t] = @ \cup {v, w}],
           UNCHANGED <<alive, kernel>>, Return(t)
    PROVE  PosixInv'
<1>1. PICK p, E, K, G, T : /\ p = Of[t] /\ E = table[p].entries /\ K = kernel[p] /\ G = guest[p]
                           /\ T = ThreadsOf(p)
    OBVIOUS
<1>2. t \in T /\ p \in Procs /\ T \subseteq Threads
    BY <1>1 DEF ThreadsOf, Procs
<1>3. PICK e, f, E1, E2, G1, G2 : /\ e = Passthrough(k) /\ f = Passthrough(j)
                                  /\ E1 = tb.entries /\ E2 = nt.entries
                                  /\ G1 = Bind(G, v, d) /\ G2 = Bind(G1, w, c)
    OBVIOUS
<1>4. PlacedIn(E, E1, v, e) /\ PlacedIn(E1, E2, w, f) /\ PlacedIn(G, G1, v, d) /\ PlacedIn(G1, G2, w, c)
    BY <1>1, <1>3, ToldOf
<1>5. /\ table'[p] = nt /\ guest'[p] = G2 /\ DOMAIN guest' = Procs
      /\ \A q \in Procs \ {p} : table'[q] = table[q] /\ guest'[q] = guest[q]
    BY <1>1, <1>2, <1>3 DEF PosixInv, KernelSound, FdInv, TablesSound
<1>6. mine'[t] = mine[t] \cup {v, w} /\ \A u \in Threads \ {t} : mine'[u] = mine[u]
    BY DEF PosixInv, FdInv
<1>7. req'[t] = Idle /\ \A u \in Threads \ {t} : req'[u] = req[u]
    BY Returned DEF PosixInv
<1>8. Consistent(E, K, G, T, req, mine)
    BY <1>1 DEF Posix
<1>9. Unraced(T, req', mine')
    BY <1>1, <1>2 DEF TargetsApart, ThreadsOf
<1>10. /\ DOMAIN req[t].got = {1, 2} /\ req[t].got[1] = k /\ req[t].got[2] = j /\ Range(req[t].got) = {k, j}
       /\ req[t].means[1] = d /\ req[t].means[2] = c
    BY Tuples
<1>11. /\ Serves(e, K, d) /\ KernelOf(e) = {k} /\ K[k] = d
       /\ Serves(f, K, c) /\ KernelOf(f) = {j} /\ K[j] = c
       /\ k # j /\ mine[t] \subseteq DOMAIN E
  <2>1. Works(E, K, req[t], mine[t])
      BY <1>2, <1>8 DEF Consistent
  <2>2. Serves(e, K, d) /\ KernelOf(e) = {k}
    <3>1. PICK i \in DOMAIN req[t].got : i = 1
        BY <1>10
    <3>2. /\ Serves(Passthrough(req[t].got[i]), K, req[t].means[i])
          /\ KernelOf(Passthrough(req[t].got[i])) = {req[t].got[i]}
        BY <1>2, <1>8, <3>1, PassedThrough
    <3>3. req[t].got[i] = k /\ req[t].means[i] = d
        BY <1>10, <3>1
    <3> QED
        BY <1>3, <3>2, <3>3
  <2>3. Serves(f, K, c) /\ KernelOf(f) = {j}
    <3>1. PICK i \in DOMAIN req[t].got : i = 2
        BY <1>10
    <3>2. /\ Serves(Passthrough(req[t].got[i]), K, req[t].means[i])
          /\ KernelOf(Passthrough(req[t].got[i])) = {req[t].got[i]}
        BY <1>2, <1>8, <3>1, PassedThrough
    <3>3. req[t].got[i] = j /\ req[t].means[i] = c
        BY <1>10, <3>1
    <3> QED
        BY <1>3, <3>2, <3>3
  <2>4. mine[t] \subseteq DOMAIN E
      BY <2>1 DEF Works
  <2>5. /\ 1 \in DOMAIN req[t].got /\ 2 \in DOMAIN req[t].got
        /\ req[t].got[1] = k /\ req[t].got[2] = j
        /\ req[t].means[1] = d /\ req[t].means[2] = c
      BY <1>10
  <2>6. \A x \in DOMAIN req[t].got : K[req[t].got[x]] = req[t].means[x]
      BY <2>1 DEF Works
  <2>7. \A x, y \in DOMAIN req[t].got : x # y => req[t].got[x] # req[t].got[y]
      BY <2>1 DEF Works
  <2>8. K[k] = d /\ K[j] = c
      BY <2>5, <2>6
  <2>9. k # j
      BY <2>5, <2>7
  <2> QED
      BY <2>2, <2>3, <2>4, <2>8, <2>9
(* In between the handler has the second in hand. *)
<1>12. PICK r : r = [todo |-> <<ToAllocate>>, got |-> <<j>>, means |-> <<c>>]
    OBVIOUS
<1>13. PICK Q, N : /\ Q = [u \in T |-> IF u = t THEN r ELSE req[u]]
                   /\ N = [u \in T |-> IF u = t THEN mine[t] \cup {v} ELSE mine[u]]
    OBVIOUS
<1>14. /\ Q[t] = r /\ N[t] = mine[t] \cup {v}
       /\ \A u \in T \ {t} : Q[u] = req[u] /\ N[u] = mine[u] /\ req'[u] = req[u] /\ mine'[u] = mine[u]
    BY <1>2, <1>6, <1>7, <1>13
<1>15. /\ Closes(r) = {} /\ Dups(r) = {} /\ Targets(r) = {} /\ Hand(r) = {j}
       /\ DOMAIN r.got = {1} /\ r.got[1] = j /\ r.means[1] = c /\ Range(r.got) = {j}
  <2>1. One(ToAllocate, "dup") = {} /\ One(ToAllocate, "close") = {} /\ One(ToAllocate, "allocate_at") = {}
      BY OneOf
  <2>2. Closes(r) = {} /\ Dups(r) = {} /\ Targets(r) = {}
      BY <1>12, <2>1, Views
  <2>3. DOMAIN r.got = {1} /\ r.got[1] = j /\ r.means[1] = c /\ Range(r.got) = {j}
      BY <1>12, Tuples
  <2> QED
      BY <2>2, <2>3 DEF Hand
<1>16. EmptyHanded(req'[t]) /\ Targets(req'[t]) = {} /\ Hand(req'[t]) = {}
    BY <1>7, NothingToDo DEF EmptyHanded
<1>17. Unraced(T, Q, N)
  <2>1. \A u \in T : Targets(Q[u]) = Targets(req'[u]) /\ N[u] \subseteq mine'[u]
      BY <1>6, <1>14, <1>15, <1>16
  <2> QED
      BY <1>9, <2>1 DEF Unraced
<1>18. \A u \in T \ {t} : v \notin mine[u] \cup Targets(req[u]) /\ w \notin mine[u] \cup Targets(req[u])
  <2>1. ASSUME NEW u \in T \ {t}
        PROVE  v \notin mine[u] \cup Targets(req[u]) /\ w \notin mine[u] \cup Targets(req[u])
    <3>1. mine[u] \subseteq DOMAIN E
        BY <1>8 DEF Consistent, Works
    <3>2. v \notin mine[u] /\ w \notin mine[u]
        BY <1>1, <1>3, <1>4, <3>1 DEF PlacedIn
    <3>3. Targets(req[u]) \cap mine'[t] = {}
        BY <1>2, <1>9, <1>14 DEF Unraced
    <3> QED
        BY <1>6, <3>2, <3>3
  <2> QED
      BY <2>1
<1>19. Hand(req[t]) = {k, j}
    BY <1>10 DEF Hand
<1>20. Consistent(E1, K, G1, T, Q, N)
  <2>1. N[t] \subseteq DOMAIN E1
      BY <1>4, <1>11, <1>14 DEF PlacedIn
  <2>2. Works(E1, K, Q[t], N[t])
      BY <1>11, <1>14, <1>15, <2>1 DEF Works
  <2>3. v \notin DOMAIN E
      BY <1>1
  <2>4. PlacesOne(E, K, G, T, req, mine, t, v, e, d, E1, G1, Q, N)
      BY <1>2, <1>4, <1>11, <1>14, <1>15, <1>17, <1>18, <1>19, <2>2, <2>3 DEF PlacesOne
  <2> QED
      BY <1>8, <2>4, Places
<1>21. Consistent(E2, K, G2, T, req', mine')
  <2>1. mine'[t] \subseteq DOMAIN E2
      BY <1>4, <1>6, <1>11 DEF PlacedIn
  <2>2. Works(E2, K, req'[t], mine'[t])
      BY <1>16, <2>1, EmptyWorks
  <2>3. w \notin DOMAIN E1 /\ mine'[t] = N[t] \cup {w}
      BY <1>3, <1>6, <1>14
  <2>4. PlacesOne(E1, K, G1, T, Q, N, t, w, f, c, E2, G2, req', mine')
      BY <1>2, <1>4, <1>9, <1>11, <1>14, <1>15, <1>16, <1>18, <2>2, <2>3 DEF PlacesOne
  <2> QED
      BY <1>20, <2>4, Places
<1>22. Posix(p)'
    BY <1>1, <1>3, <1>5, <1>21 DEF Posix, ThreadsOf
<1>23. Alone(t)
    BY <1>1, <1>2, <1>5, <1>6, <1>7 DEF Alone, PosixInv, KernelSound
<1>24. Shape(req'[t]) /\ \A q : req'[t].todo # <<ToInsert(q)>> /\ req'[t].todo # <<ToFork(q), ToInsert(q)>>
    BY <1>7, NothingToDo, Tuples
<1> QED
    BY <1>1, <1>22, <1>23, <1>24, AloneKeeps

LEMMA AllocateSteps ==
    ASSUME PosixInv, FdInv', ~ForkGap, TargetsApart, TargetsApart', NEW t \in Threads, Allocate(t)
    PROVE  PosixInv'
<1>1. /\ Running(t) /\ Posix(Of[t]) /\ FirstIs(req[t], "allocate") /\ Shape(req[t]) /\ IsHandler(req[t])
      /\ UNCHANGED <<alive, kernel>> /\ Return(t)
    BY WaitingIs DEF Allocate, Awaits
<1>2. Placing(req[t])
    BY <1>1, FirstOfShape DEF Quiet
<1>3. Closes(req[t]) = {} /\ Dups(req[t]) = {} /\ Targets(req[t]) = {}
    BY <1>2, PlacingIs
<1>4. PICK first, v : first = table[Of[t]] /\ v = Free(first)
    OBVIOUS
<1>5. IsTable(first)
    BY <1>4, OwnProcess DEF PosixInv
<1>6. ASSUME NEW k, NEW d, req[t].got = <<k>>, req[t].means = <<d>> PROVE PosixInv'
  <2>1. Len(req[t].got) = 1 /\ req[t].got[1] = k /\ req[t].means[1] = d
      BY <1>6, Tuples
  <2>2. PICK second : second = allocate(first, Passthrough(k))
      OBVIOUS
  <2>3. table' = [table EXCEPT ![Of[t]] = second] /\ Told(t, v, d)
      BY <1>4, <2>1, <2>2 DEF Allocate
  <2>4. PlacedIn(first.entries, second.entries, v, Passthrough(k)) /\ v \notin DOMAIN first.entries
      BY <1>4, <1>5, <2>2, AllocatesThere
  <2> QED
      BY <1>1, <1>3, <1>4, <1>6, <2>3, <2>4, PlacesGot
<1>7. ASSUME NEW k, NEW d, NEW j, NEW c, req[t].got = <<k, j>>, req[t].means = <<d, c>> PROVE PosixInv'
  <2>1. /\ Len(req[t].got) # 1 /\ req[t].got[1] = k /\ req[t].got[2] = j
        /\ req[t].means[1] = d /\ req[t].means[2] = c
      BY <1>7, Tuples
  <2>2. PICK second : second = allocate(first, Passthrough(k))
      OBVIOUS
  <2>3. PICK third, w : third = allocate(second, Passthrough(j)) /\ w = Free(second)
      OBVIOUS
  <2>4. /\ table' = [table EXCEPT ![Of[t]] = third]
        /\ guest' = [guest EXCEPT ![Of[t]] = Bind(Bind(@, v, d), w, c)]
        /\ mine' = [mine EXCEPT ![t] = @ \cup {v, w}]
      BY <1>4, <2>1, <2>2, <2>3 DEF Allocate
  <2>5. PlacedIn(first.entries, second.entries, v, Passthrough(k)) /\ v \notin DOMAIN first.entries
      BY <1>4, <1>5, <2>2, AllocatesThere
  <2>6. IsTable(second)
      BY <1>5, <2>2, Allocates
  <2>7. PlacedIn(second.entries, third.entries, w, Passthrough(j)) /\ w \notin DOMAIN second.entries
      BY <2>3, <2>6, AllocatesThere
  <2> QED
      BY <1>1, <1>3, <1>4, <1>7, <2>4, <2>5, <2>7, PlacesBoth
<1> QED
    BY <1>2, <1>6, <1>7, PlacingIs

-----------------------------------------------------------------------------
(* A fork and its bookkeeping. *)

LEMMA ForkingIs ==
    /\ \A a, b : ToFork(a) = ToFork(b) => a = b
    /\ \A a, b : ToInsert(a) = ToInsert(b) => a = b
    /\ \A a, b : <<ToInsert(a)>> = <<ToInsert(b)>> => a = b
    /\ \A a, b, c : <<ToInsert(a)>> # <<ToFork(b), ToInsert(c)>>
    /\ \A a : ToFork(a).do = "fork" /\ ToFork(a).to = a
    /\ \A a : ToInsert(a).do = "insert_fd_table" /\ ToInsert(a).to = a
    /\ \A a : Idle.todo # <<ToInsert(a)>> /\ Idle.todo # <<ToFork(a), ToInsert(a)>>
<1>1. \A a : ToFork(a).do = "fork" /\ ToFork(a).to = a /\ ToInsert(a).do = "insert_fd_table" /\ ToInsert(a).to = a
    BY DEF ToFork, ToInsert
<1>2. \A a, b : ToFork(a) = ToFork(b) => a = b
    BY <1>1
<1>3. \A a, b : ToInsert(a) = ToInsert(b) => a = b
    BY <1>1
<1>4. \A a, b : <<ToInsert(a)>> = <<ToInsert(b)>> => a = b
    BY <1>3, Tuples
<1>5. \A a, b, c : <<ToInsert(a)>> # <<ToFork(b), ToInsert(c)>>
    BY Tuples
<1>6. \A a : Idle.todo # <<ToInsert(a)>> /\ Idle.todo # <<ToFork(a), ToInsert(a)>>
    BY NothingToDo, Tuples
<1> QED
    BY <1>1, <1>2, <1>3, <1>4, <1>5, <1>6

LEMMA ForkSteps ==
    ASSUME PosixInv, FdInv', ~ForkGap, NEW t \in Threads, Fork(t)
    PROVE  PosixInv'
<1>1. PICK p : p = Of[t]
    OBVIOUS
<1>2. /\ p \in alive /\ FirstIs(req[t], "fork") /\ Shape(req[t]) /\ p \in Procs
      /\ \A u \in Threads \ {t} : req[u] = Idle
    BY <1>1 DEF Fork, FirstIs, PosixInv, Procs
<1>3. Forking(req[t])
    BY <1>2, FirstOfShape DEF Quiet
<1>4. PICK c : req[t].todo = <<ToFork(c), ToInsert(c)>>
  <2>1. PICK c : req[t].todo = <<ToFork(c), ToInsert(c)>> \/ req[t].todo = <<ToInsert(c)>>
      BY <1>3 DEF Forking
  <2>2. req[t].todo # <<ToInsert(c)>>
    <3>1. Head(<<ToInsert(c)>>) = ToInsert(c) /\ ToInsert(c).do = "insert_fd_table"
        BY Tuples, ForkingIs
    <3> QED
        BY <1>2, <3>1 DEF FirstIs
  <2> QED
      BY <2>1, <2>2
<1>5. c \in Procs \ alive /\ p = Of[Main] /\ c # p
    BY <1>1, <1>2, <1>4 DEF PosixInv, ForksSound
<1>6. Head(req[t].todo).to = c
    BY <1>4, Tuples, ForkingIs
<1>7. /\ alive' = alive \cup {c} /\ table' = table
      /\ kernel' = [kernel EXCEPT ![c] = kernel[p]] /\ guest' = [guest EXCEPT ![c] = guest[p]]
      /\ Continue(t)
      /\ \A u \in Threads : Of[u] # c => mine'[u] = mine[u]
      /\ \A u \in Threads : Of[u] = c => mine'[u] \subseteq mine[t]
    BY <1>1, <1>6 DEF Fork
<1>8. /\ DOMAIN kernel = Procs /\ DOMAIN guest = Procs /\ alive \subseteq Procs
      /\ \A q \in Procs : DOMAIN kernel[q] \in SUBSET Nat /\ IsFiniteSet(DOMAIN kernel[q])
    BY DEF PosixInv, KernelSound
<1>9. /\ kernel'[c] = kernel[p] /\ guest'[c] = guest[p]
      /\ \A q \in Procs \ {c} : kernel'[q] = kernel[q] /\ guest'[q] = guest[q]
      /\ DOMAIN kernel' = Procs /\ DOMAIN guest' = Procs
    BY <1>5, <1>7, <1>8
<1>10. /\ req'[t].todo = <<ToInsert(c)>> /\ req'[t].got = <<>>
       /\ \A u \in Threads \ {t} : req'[u] = Idle
  <2>1. Len(req[t].todo) = 2 /\ Tail(req[t].todo) = <<ToInsert(c)>> /\ req[t].todo # <<>>
      BY <1>4, Tuples
  <2>2. req[t].got = <<>>
      BY <1>3 DEF Forking
  <2>3. req'[t].todo = <<ToInsert(c)>> /\ req'[t].got = req[t].got /\ \A u \in Threads \ {t} : req'[u] = req[u]
    <3>1. FdInv /\ Continue(t) /\ req[t].todo # <<>>
        BY <1>7, <2>1 DEF PosixInv
    <3>2. /\ IF Len(req[t].todo) = 1 THEN req'[t] = Idle
             ELSE /\ req'[t].todo = Tail(req[t].todo)
                  /\ req'[t].got = req[t].got /\ req'[t].means = req[t].means
          /\ \A u \in Threads \ {t} : req'[u] = req[u]
        BY <3>1, Continued
    <3>3. Len(req[t].todo) # 1
        BY <2>1
    <3>4. /\ req'[t].todo = Tail(req[t].todo) /\ req'[t].got = req[t].got
          /\ \A u \in Threads \ {t} : req'[u] = req[u]
        BY <3>2, <3>3, Zenon
    <3> QED
        BY <2>1, <3>4, Zenon
  <2> QED
      BY <1>2, <2>2, <2>3
<1>11. Forking(req'[t])
    BY <1>10 DEF Forking
<1>12. KernelSound'
    BY <1>2, <1>5, <1>7, <1>8, <1>9 DEF KernelSound
<1>13. \A u \in Threads : Shape(req'[u])
    BY <1>10, <1>11, NothingToDo DEF Shape
<1>14. \A u \in Threads : req'[u].todo # <<>> => Of[u] \in alive'
    BY <1>1, <1>2, <1>7, <1>10, NothingToDo
<1>15. ForksSound'
  <2> SUFFICES ASSUME NEW u \in Threads, NEW q
               PROVE  /\ req'[u].todo # <<ToFork(q), ToInsert(q)>>
                      /\ req'[u].todo = <<ToInsert(q)>> =>
                            /\ q \in alive' /\ q # Of[u] /\ Of[u] = Of[Main]
                            /\ \A w \in Threads \ {u} : req'[w] = Idle
                            /\ kernel'[q] = kernel'[Of[u]] /\ guest'[q] = guest'[Of[u]]
                            /\ \A w \in ThreadsOf(q) : mine'[w] \subseteq mine'[u]
      BY Zenon DEF ForksSound, ThreadsOf
  <2>1. CASE u # t
      BY <1>10, <2>1, ForkingIs
  <2>2. CASE u = t
    <3>1. req'[u].todo # <<ToFork(q), ToInsert(q)>>
        BY <1>10, <2>2, ForkingIs
    <3>2. ASSUME req'[u].todo = <<ToInsert(q)>> PROVE q = c
        BY <1>10, <2>2, <3>2, ForkingIs
    <3>3. c \in alive' /\ c # Of[t] /\ Of[t] = Of[Main] /\ kernel'[c] = kernel'[Of[t]] /\ guest'[c] = guest'[Of[t]]
        BY <1>1, <1>2, <1>5, <1>7, <1>9
    <3>4. \A w \in ThreadsOf(c) : mine'[w] \subseteq mine'[t]
        BY <1>1, <1>5, <1>7 DEF ThreadsOf
    <3> QED
        BY <1>10, <2>2, <3>1, <3>2, <3>3, <3>4
  <2> QED
      BY <2>1, <2>2
<1>16. \A u \in Threads : \A q : req[u].todo # <<ToInsert(q)>>
    BY <1>2, <1>4, ForkingIs
<1>17. ASSUME NEW q \in alive PROVE Posix(q)'
  <2>1. q \in Procs /\ q # c /\ Posix(q)
      BY <1>5, <1>8, <1>16 DEF PosixInv, Inserting
  <2>2. table'[q] = table[q] /\ kernel'[q] = kernel[q] /\ guest'[q] = guest[q]
      BY <1>7, <1>9, <2>1
  <2>3. \A u \in ThreadsOf(q) : mine'[u] = mine[u]
      BY <1>7, <2>1 DEF ThreadsOf
  <2>4. CASE q # p
    <3>1. \A u \in ThreadsOf(q) : req'[u] = req[u] /\ mine'[u] = mine[u]
        BY <1>1, <1>2, <1>10, <2>3, <2>4 DEF ThreadsOf
    <3> QED
        BY <2>1, <2>2, <3>1, OtherProcess DEF Posix
  <2>5. CASE q = p
    <3>1. PICK T, E, K, G : T = ThreadsOf(p) /\ E = table[p].entries /\ K = kernel[p] /\ G = guest[p]
        OBVIOUS
    <3>2. t \in T /\ Consistent(E, K, G, T, req, mine)
        BY <1>1, <2>1, <2>5, <3>1 DEF Posix, ThreadsOf
    <3>3. Hand(req'[t]) = {} /\ Hand(req[t]) = {} /\ EmptyHanded(req'[t]) /\ EmptyHanded(req[t])
        BY <1>3, <1>11, NothingToDo
    <3>4. Works(E, K, req'[t], mine[t])
      <4>1. mine[t] \subseteq DOMAIN E
          BY <3>2 DEF Consistent, Works
      <4> QED
          BY <3>3, <4>1, EmptyWorks
    <3>5. \A u \in T \ {t} : req'[u] = req[u]
        BY <1>2, <1>10, <3>1 DEF ThreadsOf
    <3>6. Targets(req'[t]) = Targets(req[t]) /\ Hand(req'[t]) = Hand(req[t])
        BY <3>3 DEF EmptyHanded
    <3>7. Consistent(E, K, G, T, req', mine)
        BY <3>2, <3>4, <3>5, <3>6, SameHand
    <3>8. Consistent(E, K, G, T, req', mine')
        BY <2>3, <2>5, <3>1, <3>7, OtherProcess
    <3> QED
        BY <2>2, <2>5, <3>1, <3>8 DEF Posix, ThreadsOf
  <2> QED
      BY <2>4, <2>5
<1>18. Inserting(c)'
    BY <1>10 DEF Inserting
<1>19. \A q \in alive' : Inserting(q)' \/ Posix(q)'
    BY <1>7, <1>17, <1>18
<1> QED
    BY <1>12, <1>13, <1>14, <1>15, <1>19 DEF PosixInv

LEMMA InsertSteps ==
    ASSUME PosixInv, FdInv', ~ForkGap, OwnDescriptors, NEW t \in Threads, InsertTable(t)
    PROVE  PosixInv'
<1>1. PICK p : p = Of[t]
    OBVIOUS
<1>2. /\ p \in alive /\ FirstIs(req[t], "insert_fd_table") /\ Shape(req[t])
      /\ UNCHANGED <<alive, kernel, guest, mine>> /\ Continue(t)
    BY <1>1 DEF InsertTable, Awaits, FirstIs, PosixInv
<1>3. Forking(req[t])
    BY <1>2, FirstOfShape DEF Quiet
<1>4. PICK c : req[t].todo = <<ToInsert(c)>>
  <2>1. PICK c : req[t].todo = <<ToFork(c), ToInsert(c)>> \/ req[t].todo = <<ToInsert(c)>>
      BY <1>3 DEF Forking
  <2>2. req[t].todo # <<ToFork(c), ToInsert(c)>>
    <3>1. Head(<<ToFork(c), ToInsert(c)>>) = ToFork(c) /\ ToFork(c).do = "fork"
        BY Tuples, ForkingIs
    <3> QED
        BY <1>2, <3>1 DEF FirstIs
  <2> QED
      BY <2>1, <2>2
<1>5. /\ c \in alive /\ c # p /\ p = Of[Main]
      /\ \A u \in Threads \ {t} : req[u] = Idle
      /\ kernel[c] = kernel[p] /\ guest[c] = guest[p]
      /\ \A u \in ThreadsOf(c) : mine[u] \subseteq mine[t]
    BY <1>1, <1>4 DEF PosixInv, ForksSound
<1>6. c \in Procs /\ p \in Procs
    BY <1>2, <1>5 DEF PosixInv, KernelSound
<1>7. Head(req[t].todo).to = c /\ Len(req[t].todo) = 1 /\ req[t].todo # <<>>
    BY <1>4, Tuples, ForkingIs
<1>8. \A u \in Threads : req'[u] = Idle
  <2>1. req'[t] = Idle /\ \A u \in Threads \ {t} : req'[u] = req[u]
      BY <1>2, <1>7, Continued DEF PosixInv
  <2> QED
      BY <1>5, <2>1
<1>9. table'[c] = table[p] /\ \A q \in Procs \ {c} : table'[q] = table[q]
  <2>1. table' = [table EXCEPT ![c] = table[p]]
      BY <1>1, <1>7 DEF InsertTable
  <2> QED
      BY <1>6, <2>1 DEF PosixInv, FdInv, TablesSound
<1>10. KernelSound'
    BY <1>2 DEF PosixInv, KernelSound
<1>11. /\ \A u \in Threads : Shape(req'[u])
       /\ \A u \in Threads : req'[u].todo # <<>> => Of[u] \in alive'
    BY <1>8, NothingToDo
<1>12. ForksSound'
    BY <1>8, ForkingIs DEF ForksSound
<1>13. ASSUME NEW q \in alive, q # c PROVE Posix(q) /\ q \in Procs
  <2>1. ~ Inserting(q)
    <3>1. \A u \in Threads \ {t} : req[u].todo # <<ToInsert(q)>>
        BY <1>5, ForkingIs
    <3>2. req[t].todo # <<ToInsert(q)>>
        BY <1>4, <1>13, ForkingIs
    <3> QED
        BY <3>1, <3>2 DEF Inserting
  <2> QED
      BY <1>13, <2>1 DEF PosixInv, KernelSound
<1>14. PICK T, E, K, G : T = ThreadsOf(p) /\ E = table[p].entries /\ K = kernel[p] /\ G = guest[p]
    OBVIOUS
<1>15. Consistent(E, K, G, T, req, mine) /\ t \in T
    BY <1>1, <1>2, <1>5, <1>13, <1>14 DEF Posix, ThreadsOf
<1>16. /\ \A u \in T : EmptyHanded(req[u])
       /\ \A u \in Threads : EmptyHanded(req'[u])
    BY <1>3, <1>5, <1>8, <1>14, NothingToDo DEF ThreadsOf
<1>17. mine[t] \subseteq DOMAIN E /\ \A u \in T : mine[u] \subseteq DOMAIN E
    BY <1>15 DEF Consistent, Works
<1>18. Posix(c)'
  <2>1. PICK S : S = ThreadsOf(c)
      OBVIOUS
  <2>2. \A u, w \in S : u = w
      BY <1>5, <2>1 DEF ThreadsOf, OwnDescriptors
  <2>3. \A u \in S : EmptyHanded(req'[u]) /\ mine[u] \subseteq DOMAIN E
      BY <1>5, <1>16, <1>17, <2>1 DEF ThreadsOf
  <2>4. Consistent(E, K, G, S, req', mine)
      BY <1>15, <1>16, <2>2, <2>3, Copies
  <2> QED
      BY <1>2, <1>5, <1>9, <1>14, <2>1, <2>4 DEF Posix, ThreadsOf
<1>19. Posix(p)'
  <2>1. Works(E, K, req'[t], mine[t])
      BY <1>1, <1>16, <1>17, EmptyWorks
  <2>2. Hand(req'[t]) = Hand(req[t]) /\ Targets(req'[t]) = Targets(req[t])
      BY <1>3, <1>8, NothingToDo DEF EmptyHanded
  <2>3. \A u \in T \ {t} : req'[u] = req[u]
      BY <1>5, <1>8, <1>14 DEF ThreadsOf
  <2>4. Consistent(E, K, G, T, req', mine)
      BY <1>15, <2>1, <2>2, <2>3, SameHand
  <2> QED
      BY <1>2, <1>5, <1>6, <1>9, <1>14, <2>4 DEF Posix, ThreadsOf
<1>20. ASSUME NEW q \in alive', q # c, q # p PROVE Posix(q)'
  <2>1. Posix(q) /\ q \in Procs
      BY <1>2, <1>13, <1>20
  <2>2. \A u \in ThreadsOf(q) : req'[u] = req[u] /\ mine'[u] = mine[u]
      BY <1>1, <1>2, <1>5, <1>8, <1>20 DEF ThreadsOf
  <2>3. table'[q] = table[q] /\ kernel'[q] = kernel[q] /\ guest'[q] = guest[q]
      BY <1>2, <1>9, <1>20, <2>1
  <2> QED
      BY <2>1, <2>2, <2>3, OtherProcess DEF Posix
<1> QED
    BY <1>10, <1>11, <1>12, <1>18, <1>19, <1>20 DEF PosixInv

-----------------------------------------------------------------------------
(* The whole. *)

LEMMA StartsPosix ==
    ASSUME OwnDescriptors, Init
    PROVE  PosixInv
<1>1. FdInv
    BY InitFdInv
<1>2. PICK p : p = Of[Main]
    OBVIOUS
<1>3. p \in Procs
    BY <1>2, SandboxAssumption DEF Procs
<1>4. /\ alive = {p} /\ guest = kernel
      /\ kernel = [q \in Procs |-> IF q = p THEN [k \in Std |-> Terminal] ELSE <<>>]
      /\ table[p] = Fresh
      /\ \A t \in Threads : req[t] = Idle
      /\ \A t \in ThreadsOf(p) : mine[t] = Used[t]
    BY <1>2, <1>3 DEF Init, ThreadsOf
<1>5. KernelSound
  <2>1. IsFiniteSet(Std) /\ Std \in SUBSET Nat
    <3>1. 0 \in Int /\ 2 \in Int
        OBVIOUS
    <3>2. IsFiniteSet(0 .. 2)
        BY <3>1, FS_Interval
    <3> QED
        BY <3>2 DEF Std
  <2>2. DOMAIN <<>> = {} /\ IsFiniteSet({})
      BY FS_EmptySet
  <2>3. ASSUME NEW q \in Procs PROVE DOMAIN kernel[q] = Std \/ DOMAIN kernel[q] = {}
      BY <1>4, <2>2
  <2>4. DOMAIN kernel = Procs /\ DOMAIN guest = Procs /\ alive \subseteq Procs
      BY <1>3, <1>4
  <2> QED
      BY <2>1, <2>2, <2>3, <2>4 DEF KernelSound
<1>6. /\ \A t \in Threads : Shape(req[t])
      /\ \A t \in Threads : req[t].todo # <<>> => Of[t] \in alive
    BY <1>4, NothingToDo
<1>7. ForksSound
    BY <1>4, ForkingIs DEF ForksSound
<1>8. Posix(p)
  <2>1. PICK E, K, T : E = table[p].entries /\ K = kernel[p] /\ T = ThreadsOf(p)
      OBVIOUS
  <2>2. /\ DOMAIN E = Std /\ \A v \in Std : E[v] = Passthrough(v)
        /\ DOMAIN K = Std /\ \A v \in Std : K[v] = Terminal
        /\ guest[p] = K
      BY <1>3, <1>4, <2>1 DEF Fresh
  <2>3. \A v \in Std : v \in Nat /\ ~IsVirtual(E[v]) /\ E[v].kernel_fd = v
      BY <2>2 DEF Std, Passthrough, IsVirtual, Unset
  <2>4. \A t \in T : EmptyHanded(req[t]) /\ Hand(req[t]) = {}
      BY <1>4, <2>1, NothingToDo DEF ThreadsOf
  <2>5. Kept(E, T, req) = Std
      BY <2>2, <2>4 DEF Kept, EmptyHanded
  <2>6. KeptServe(E, K, K, T, req) /\ KeptApart(E, T, req) /\ AllOwned(E, K, T, req)
      BY <2>2, <2>3, <2>5 DEF KeptServe, KeptApart, AllOwned, Serves
  <2>7. HandsOwn(E, K, T, req)
      BY <2>4 DEF HandsOwn
  <2>8. Separate(T, req, mine)
    <3>1. \A t, u \in T : t # u => mine[t] \cap mine[u] = {}
        BY <1>2, <1>4, <2>1 DEF OwnDescriptors, ThreadsOf
    <3> QED
        BY <2>4, <3>1 DEF Separate
  <2>9. \A t \in T : Works(E, K, req[t], mine[t])
    <3>1. \A t \in T : mine[t] \subseteq DOMAIN E
        BY <1>4, <2>1, <2>2, SandboxAssumption DEF ThreadsOf
    <3> QED
        BY <2>4, <3>1, EmptyWorks
  <2>10. DOMAIN K \subseteq Nat /\ DOMAIN K = DOMAIN E
      BY <2>2 DEF Std
  <2>11. Consistent(E, K, K, T, req, mine)
      BY <2>6, <2>7, <2>8, <2>9, <2>10 DEF Consistent
  <2> QED
      BY <2>1, <2>2, <2>11 DEF Posix
<1> QED
    BY <1>1, <1>4, <1>5, <1>6, <1>7, <1>8 DEF PosixInv

LEMMA StaysPosix ==
    ASSUME ~ForkGap, OwnDescriptors, PosixInv, TargetsApart, TargetsApart', [Next]_vars
    PROVE  PosixInv'
<1>1. FdInv'
    BY NextFdInv DEF PosixInv
<1>2. CASE UNCHANGED vars
  <2>1. UNCHANGED <<alive, table, kernel, guest, mine, req>>
      BY <1>2 DEF vars
  <2> QED
      BY <1>1, <2>1, SameKeeps
<1>3. ASSUME NEW t \in Threads, Handle(t) PROVE PosixInv'
    BY <1>1, <1>3, HandlePosix
<1>4. ASSUME NEW t \in Threads, Resume(t) PROVE PosixInv'
  <2>1. CASE Open(t)
      BY <1>1, <2>1, OpenSteps
  <2>2. CASE Dup(t)
      BY <1>1, <2>2, DupSteps
  <2>3. CASE Close(t)
      BY <1>1, <2>3, CloseSteps
  <2>4. CASE Call(t) \/ Report(t) \/ Fsync(t) \/ Create(t) \/ Store(t)
      BY <1>1, <2>4, QuietSteps
  <2>5. CASE Allocate(t)
      BY <1>1, <2>5, AllocateSteps
  <2>6. CASE AllocateMin(t)
      BY <1>1, <2>6, AllocateMinSteps
  <2>7. CASE AllocateAt(t)
      BY <1>1, <2>7, AllocateAtSteps
  <2>8. CASE Fork(t)
      BY <1>1, <2>8, ForkSteps
  <2>9. CASE InsertTable(t)
      BY <1>1, <2>9, InsertSteps
  <2> QED
      BY <1>4, <2>1, <2>2, <2>3, <2>4, <2>5, <2>6, <2>7, <2>8, <2>9 DEF Resume
<1> QED
    BY <1>2, <1>3, <1>4 DEF Next

(* What the invariant says in the words of the model. *)
LEMMA PosixIsPosix ==
    ASSUME PosixInv
    PROVE  TableIsPosix
<1> SUFFICES ASSUME NEW p \in alive \ Settling
             PROVE  /\ DOMAIN guest[p] = DOMAIN table[p].entries
                    /\ \A v \in DOMAIN guest[p] \ BeingReplaced(p) : Reaches(p, v) = guest[p][v]
                    /\ \A k \in DOMAIN kernel[p] \ InHand(p) :
                           \E v \in DOMAIN table[p].entries : table[p].entries[v].kernel_fd = k
    BY DEF TableIsPosix
<1>1. ASSUME NEW t \in Threads, req[t].todo = <<ToInsert(p)>> PROVE FALSE
  <2>1. Of[t] \in alive
      BY <1>1, Tuples DEF PosixInv
  <2>2. ToInsert(p) \in Range(req[t].todo)
      BY <1>1, Tuples
  <2>3. ToInsert(p) \in Pending(Of[t])
      BY <2>2 DEF Pending
  <2>4. ToInsert(p) \in UNION {Pending(q) : q \in alive}
      BY <2>1, <2>3
  <2>5. ToInsert(p).to \in Settling
      BY <2>4, ForkingIs DEF Settling
  <2> QED
      BY <2>5, ForkingIs
<1>2. Posix(p)
    BY <1>1 DEF PosixInv, Inserting
<1>3. PICK T, E, K, G : T = ThreadsOf(p) /\ E = table[p].entries /\ K = kernel[p] /\ G = guest[p]
    OBVIOUS
<1>4. Consistent(E, K, G, T, req, mine)
    BY <1>2, <1>3 DEF Posix
<1>5. ASSUME NEW v \in BeingReplaced(p) PROVE \E t \in T : v \in Targets(req[t])
    BY <1>3, <1>5 DEF BeingReplaced, Pending, Targets, Fds, ThreadsOf
<1>6. ASSUME NEW t \in T, NEW v \in Targets(req[t]) PROVE v \in BeingReplaced(p)
    BY <1>3, <1>6 DEF BeingReplaced, Pending, Targets, Fds, ThreadsOf
<1>7. ASSUME NEW t \in T, NEW k \in Hand(req[t]) PROVE k \in InHand(p)
    BY <1>3, <1>7 DEF InHand, Pending, Hand, Closes, Fds, ThreadsOf
<1>8. Kept(E, T, req) = DOMAIN E \ BeingReplaced(p)
    BY <1>5, <1>6 DEF Kept
<1>9. ASSUME NEW v \in DOMAIN G \ BeingReplaced(p) PROVE Reaches(p, v) = G[v]
  <2>1. Serves(E[v], K, G[v])
      BY <1>4, <1>8, <1>9 DEF Consistent, KeptServe
  <2> QED
      BY <1>3, <2>1 DEF Reaches, Serves
<1>10. ASSUME NEW k \in DOMAIN K \ InHand(p) PROVE \E v \in DOMAIN E : E[v].kernel_fd = k
    BY <1>4, <1>7, <1>8, <1>10 DEF Consistent, AllOwned
<1>11. DOMAIN G = DOMAIN E
    BY <1>4 DEF Consistent
<1> QED
    BY <1>3, <1>9, <1>10, <1>11

(* The guest sees the descriptors POSIX would give it, however the handlers *)
(* of its threads interleave between kernel calls: if nobody runs between a *)
(* fork and its bookkeeping, threads use descriptors of their own, only the *)
(* first process forks or has several threads, and as long as no thread     *)
(* takes the number that the dup2 of another is on its way to.              *)
THEOREM GuestSeesPosix ==
    ASSUME ~ForkGap, OwnDescriptors
    PROVE  Spec /\ []TargetsApart => []TableIsPosix
<1>1. Init => PosixInv
    BY StartsPosix
<1>2. PosixInv /\ TargetsApart /\ TargetsApart' /\ [Next]_vars => PosixInv'
    BY StaysPosix
<1>3. PosixInv => TableIsPosix
    BY PosixIsPosix
<1> QED
    BY <1>1, <1>2, <1>3, PTL DEF Spec
===============================================================================
