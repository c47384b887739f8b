---------------------------- MODULE FuseMountProofs ----------------------------
(***************************************************************************)
(* Proofs about the FUSE session, for any processes, calls, names and      *)
(* bounds, with or without a Worker that writes the volume: that what the  *)
(* kernel has cached is right or its invalidation is on its way, and that  *)
(* a handle is the file it was given for.                                  *)
(***************************************************************************)
EXTENDS FuseMount, FiniteSetTheorems, WellFoundedInduction, TLAPS

-----------------------------------------------------------------------------
(* Induction *)

(* A set of numbers has a least one.                                       *)
LEMMA LeastNumber ==
    ASSUME NEW T \in SUBSET Nat, T # {}
    PROVE  \E x \in T : \A y \in T : x <= y
<1> DEFINE upTo == {0..x : x \in T}
<1>1. upTo \subseteq FiniteSubsetsOf(Nat) /\ upTo # {}
  <2>1. \A x \in T : 0..x \in SUBSET Nat /\ IsFiniteSet(0..x)
      BY FS_Interval
  <2> QED
      BY <2>1 DEF FiniteSubsetsOf
<1>2. PICK least \in upTo : \A y \in upTo : <<y, least>> \notin StrictSubsetOrdering(Nat)
  <2> HIDE DEF upTo
  <2> QED
      BY <1>1, FS_StrictSubsetOrderingWellFounded, WFMin
<1>3. PICK x \in T : least = 0..x
    OBVIOUS
<1>4. ASSUME NEW y \in T PROVE x <= y
  <2> SUFFICES ASSUME y < x PROVE FALSE
      OBVIOUS
  <2>1. 0..y \in upTo /\ 0..y \in SUBSET Nat /\ 0..x \in SUBSET Nat
      OBVIOUS
  <2>2. 0..y \subseteq 0..x /\ x \in 0..x /\ x \notin 0..y
      OBVIOUS
  <2> QED
      BY <1>2, <1>3, <2>1, <2>2 DEF StrictSubsetOrdering
<1> QED
    BY <1>4

(* A set that holds 0 and the successor of each number it holds.           *)
LEMMA AllNumbers ==
    ASSUME NEW T, 0 \in T, \A k \in Nat : k \in T => k + 1 \in T
    PROVE  Nat \subseteq T
<1> SUFFICES ASSUME Nat \ T # {} PROVE FALSE
    OBVIOUS
<1>1. PICK k \in Nat \ T : \A y \in Nat \ T : k <= y
    BY LeastNumber
<1>2. k # 0 /\ k - 1 \in Nat /\ k - 1 \in T
    BY <1>1
<1>3. (k - 1) + 1 \in T
    BY <1>2
<1> QED
    BY <1>3

-----------------------------------------------------------------------------
(* What the statements of a step do one after the other, and the steps of  *)
(* a script.                                                               *)

Applied(d, x, of) == IF of = "steps" THEN Executed(d, x) ELSE Execute(d, x)

Runs(f, d, s, n, of) ==
    f = [k \in 0..n |-> IF k = 0 THEN d ELSE Applied(f[k - 1], s[k], of)]

(* There is a function of what is left after each of n.                    *)
LEMMA RunsFor ==
    ASSUME NEW of, NEW d, NEW s, NEW n \in Nat
    PROVE  \E f : Runs(f, d, s, n, of)
<1> DEFINE T == {k \in Nat : \E f : Runs(f, d, s, k, of)}
<1>1. 0 \in T
  <2>1. PICK f : f = [k \in 0..0 |-> d]
      OBVIOUS
  <2>2. Runs(f, d, s, 0, of)
      BY <2>1 DEF Runs
  <2> QED
      BY <2>2
<1>2. ASSUME NEW k \in Nat, k \in T PROVE k + 1 \in T
  <2>1. PICK f : Runs(f, d, s, k, of)
      BY <1>2
  <2>2. PICK g : g = [j \in 0..(k + 1) |-> IF j <= k THEN f[j] ELSE Applied(f[k], s[k + 1], of)]
      OBVIOUS
  <2>3. ASSUME NEW j \in 0..(k + 1)
        PROVE  g[j] = IF j = 0 THEN d ELSE Applied(g[j - 1], s[j], of)
    <3>1. CASE j <= k
      <4>1. j \in 0..k /\ j \in 0..(k + 1) /\ (j # 0 => j - 1 \in 0..(k + 1) /\ j - 1 <= k)
          BY <3>1
      <4>2. g[j] = f[j] /\ (j # 0 => g[j - 1] = f[j - 1])
          BY <2>2, <3>1, <4>1
      <4>3. f[j] = IF j = 0 THEN d ELSE Applied(f[j - 1], s[j], of)
          BY <2>1, <4>1 DEF Runs
      <4> QED
          BY <4>2, <4>3
    <3>2. CASE j = k + 1
      <4>1. j # 0 /\ j - 1 = k /\ k \in 0..(k + 1)
          BY <3>2
      <4>2. g[j] = Applied(f[k], s[k + 1], of) /\ g[k] = f[k]
          BY <2>2, <3>2, <4>1
      <4> QED
          BY <3>2, <4>1, <4>2
    <3> QED
        BY <3>1, <3>2
  <2>4. g = [j \in 0..(k + 1) |-> g[j]]
      BY <2>2
  <2>5. Runs(g, d, s, k + 1, of)
      BY <2>3, <2>4 DEF Runs
  <2> QED
      BY <2>5
<1> HIDE DEF T
<1>3. n \in T
    BY <1>1, <1>2, AllNumbers
<1> QED
    BY <1>3 DEF T

(* What is left after n depends on the first n alone.                      *)
LEMMA RunsAlike ==
    ASSUME NEW of, NEW d, NEW s, NEW u, NEW n \in Nat, NEW m \in Nat, n <= m,
           \A k \in 1..n : s[k] = u[k],
           NEW f, Runs(f, d, s, n, of), NEW g, Runs(g, d, u, m, of)
    PROVE  f[n] = g[n]
<1> DEFINE T == {k \in Nat : k <= n => f[k] = g[k]}
<1>1. 0 \in T
    BY DEF Runs
<1>2. ASSUME NEW k \in Nat, k \in T PROVE k + 1 \in T
  <2>1. CASE k + 1 <= n
    <3>1. k + 1 \in 0..n /\ k + 1 \in 0..m /\ k + 1 \in 1..n /\ k + 1 # 0 /\ (k + 1) - 1 = k
        BY <2>1
    <3>2. f[k + 1] = Applied(f[k], s[k + 1], of) /\ g[k + 1] = Applied(g[k], u[k + 1], of)
        BY <3>1 DEF Runs
    <3> QED
        BY <1>2, <2>1, <3>1, <3>2
  <2>2. CASE ~(k + 1 <= n)
      BY <2>2
  <2> QED
      BY <2>1, <2>2
<1> HIDE DEF T
<1>3. n \in T
    BY <1>1, <1>2, AllNumbers
<1> QED
    BY <1>3 DEF T

(* A step is such a run of its statements.                                 *)
LEMMA StatementsRun ==
    ASSUME NEW d, NEW s, NEW n \in Nat, Len(s) = n
    PROVE  \E f : Runs(f, d, s, n, "statements") /\ Executed(d, s) = f[n]
<1> DEFINE after == CHOOSE f : f = [k \in 0..n |-> IF k = 0 THEN d ELSE Execute(f[k - 1], s[k])]
<1>1. Executed(d, s) = after[n]
    BY DEF Executed
<1>2. \A f : Runs(f, d, s, n, "statements")
             <=> f = [k \in 0..n |-> IF k = 0 THEN d ELSE Execute(f[k - 1], s[k])]
    BY DEF Runs, Applied
<1>3. PICK f : Runs(f, d, s, n, "statements")
    BY RunsFor
<1>4. \E g : g = [k \in 0..n |-> IF k = 0 THEN d ELSE Execute(g[k - 1], s[k])]
    BY <1>2, <1>3
<1>5. after = [k \in 0..n |-> IF k = 0 THEN d ELSE Execute(after[k - 1], s[k])]
    BY <1>4
<1>6. Runs(after, d, s, n, "statements")
    BY <1>2, <1>5
<1> QED
    BY <1>1, <1>6

(* A script is such a run of its steps.                                    *)
LEMMA StepsRun ==
    ASSUME NEW d, NEW s, NEW n \in Nat, Len(s) = n
    PROVE  \E f : Runs(f, d, s, n, "steps") /\ Committed(d, s) = f[n]
<1> DEFINE after == CHOOSE f : f = [k \in 0..n |-> IF k = 0 THEN d ELSE Executed(f[k - 1], s[k])]
<1>1. Committed(d, s) = after[n]
    BY DEF Committed
<1>2. \A f : Runs(f, d, s, n, "steps")
             <=> f = [k \in 0..n |-> IF k = 0 THEN d ELSE Executed(f[k - 1], s[k])]
    BY DEF Runs, Applied
<1>3. PICK f : Runs(f, d, s, n, "steps")
    BY RunsFor
<1>4. \E g : g = [k \in 0..n |-> IF k = 0 THEN d ELSE Executed(g[k - 1], s[k])]
    BY <1>2, <1>3
<1>5. after = [k \in 0..n |-> IF k = 0 THEN d ELSE Executed(after[k - 1], s[k])]
    BY <1>4
<1>6. Runs(after, d, s, n, "steps")
    BY <1>2, <1>5
<1> QED
    BY <1>1, <1>6

(* One more is applied to what the others leave.                           *)
LEMMA RunsOn ==
    ASSUME NEW of, NEW d, NEW X, NEW s \in Seq(X), NEW a, NEW n \in Nat, n = Len(s),
           NEW f, Runs(f, d, s, n, of), NEW g, Runs(g, d, Append(s, a), n + 1, of)
    PROVE  g[n + 1] = Applied(f[n], a, of)
<1>1. PICK u : u = Append(s, a)
    OBVIOUS
<1>2. u[n + 1] = a /\ \A k \in 1..n : s[k] = u[k]
    BY <1>1
<1>3. f[n] = g[n]
  <2>1. PICK m \in Nat : m = n + 1
      OBVIOUS
  <2>2. n <= m /\ Runs(g, d, u, m, of)
      BY <1>1, <2>1
  <2> QED
      BY <1>2, <2>2, RunsAlike
<1>4. n + 1 \in 0..(n + 1) /\ n + 1 # 0 /\ (n + 1) - 1 = n
    OBVIOUS
<1>5. g[n + 1] = Applied(g[n], u[n + 1], of)
    BY <1>1, <1>4 DEF Runs
<1> QED
    BY <1>2, <1>3, <1>5

(* Nothing to execute, and one more.                                       *)
LEMMA ExecutedNext ==
    /\ \A d : Executed(d, <<>>) = d
    /\ \A d, a, X : \A s \in Seq(X) : Executed(d, Append(s, a)) = Execute(Executed(d, s), a)
<1>1. ASSUME NEW d PROVE Executed(d, <<>>) = d
  <2>1. Len(<<>>) = 0
      OBVIOUS
  <2>2. PICK f : Runs(f, d, <<>>, 0, "statements") /\ Executed(d, <<>>) = f[0]
      BY <2>1, StatementsRun
  <2> QED
      BY <2>2 DEF Runs
<1>2. ASSUME NEW d, NEW a, NEW X, NEW s \in Seq(X)
      PROVE  Executed(d, Append(s, a)) = Execute(Executed(d, s), a)
  <2>1. PICK n \in Nat : n = Len(s)
      OBVIOUS
  <2>2. PICK u : u = Append(s, a)
      OBVIOUS
  <2>3. Len(u) = n + 1
      BY <2>1, <2>2
  <2>4. PICK f : Runs(f, d, s, n, "statements") /\ Executed(d, s) = f[n]
      BY <2>1, StatementsRun
  <2>5. PICK g : Runs(g, d, u, n + 1, "statements") /\ Executed(d, u) = g[n + 1]
      BY <2>3, StatementsRun
  <2> QED
      BY <2>1, <2>2, <2>4, <2>5, RunsOn DEF Applied
<1> QED
    BY <1>1, <1>2

(* The same for the steps of a script.                                     *)
LEMMA CommittedNext ==
    /\ \A d : Committed(d, <<>>) = d
    /\ \A d, a, X : \A s \in Seq(X) : Committed(d, Append(s, a)) = Executed(Committed(d, s), a)
<1>1. ASSUME NEW d PROVE Committed(d, <<>>) = d
  <2>1. Len(<<>>) = 0
      OBVIOUS
  <2>2. PICK f : Runs(f, d, <<>>, 0, "steps") /\ Committed(d, <<>>) = f[0]
      BY <2>1, StepsRun
  <2> QED
      BY <2>2 DEF Runs
<1>2. ASSUME NEW d, NEW a, NEW X, NEW s \in Seq(X)
      PROVE  Committed(d, Append(s, a)) = Executed(Committed(d, s), a)
  <2>1. PICK n \in Nat : n = Len(s)
      OBVIOUS
  <2>2. PICK u : u = Append(s, a)
      OBVIOUS
  <2>3. Len(u) = n + 1
      BY <2>1, <2>2
  <2>4. PICK f : Runs(f, d, s, n, "steps") /\ Committed(d, s) = f[n]
      BY <2>1, StepsRun
  <2>5. PICK g : Runs(g, d, u, n + 1, "steps") /\ Committed(d, u) = g[n + 1]
      BY <2>3, StepsRun
  <2> QED
      BY <2>1, <2>2, <2>4, <2>5, RunsOn DEF Applied
<1> QED
    BY <1>1, <1>2

-----------------------------------------------------------------------------
(* Statements and the entries they change *)

Tables(d) ==
    /\ d = [kind |-> d.kind, nlink |-> d.nlink, entry |-> d.entry, target |-> d.target,
            last |-> d.last]
    /\ d.entry \in [Place -> Nat]
    /\ d.last \in Nat

(* The statements that change no entry but those at X.                     *)
Statements(X) ==
    [sql : {"inode"}, type : {"dir", "file", "link"}, links : Int]
      \cup [sql : {"target"}, name : Name]
      \cup [sql : {"entry"}, at : X, ino : Nat]
      \cup [sql : {"move"}, from : X, to : X]
      \cup [sql : {"links"}, ino : Nat, by : Int]
      \cup [sql : {"count"}, ino : Nat, to : Int]
      \cup [sql : {"reap"}, ino : Nat]
      \cup [sql : {"cache"}, at : Place, ino : Nat]

(* Each constructor makes a statement of the set, at entries of X.         *)
LEMMA InStatements ==
    ASSUME NEW X \in SUBSET Place
    PROVE  /\ \A t \in {"dir", "file", "link"}, k \in Int : NewInode(t, k) \in Statements(X)
           /\ \A n \in Name : SetTarget(n) \in Statements(X)
           /\ \A p, n : \A i \in Nat : <<p, n>> \in X => SetEntry(p, n, i) \in Statements(X)
           /\ \A p, n : <<p, n>> \in X => DropEntry(p, n) \in Statements(X)
           /\ \A p, n, q, m : <<p, n>> \in X /\ <<q, m>> \in X
                  => MoveEntry(p, n, q, m) \in Statements(X)
           /\ \A i \in Nat, k \in Int : AddLinks(i, k) \in Statements(X) /\ SetLinks(i, k) \in Statements(X)
           /\ \A i \in Nat : Reap(i) \in Statements(X)
           /\ \A p, n : \A i \in Nat : <<p, n>> \in Place => Remember(p, n, i) \in Statements(X)
           /\ \A p, n : <<p, n>> \in Place => Forget(p, n) \in Statements(X)
<1>1. \A t \in {"dir", "file", "link"}, k \in Int : NewInode(t, k) \in Statements(X)
    BY DEF NewInode, Statements
<1>2. \A n \in Name : SetTarget(n) \in Statements(X)
    BY DEF SetTarget, Statements
<1>3. \A p, n : \A i \in Nat : <<p, n>> \in X => SetEntry(p, n, i) \in Statements(X)
    BY DEF SetEntry, Statements
<1>4. \A p, n : <<p, n>> \in X => DropEntry(p, n) \in Statements(X)
    BY <1>3 DEF DropEntry, NoIno
<1>5. \A p, n, q, m : <<p, n>> \in X /\ <<q, m>> \in X
         => MoveEntry(p, n, q, m) \in Statements(X)
    BY DEF MoveEntry, Statements
<1>6. \A i \in Nat, k \in Int : AddLinks(i, k) \in Statements(X) /\ SetLinks(i, k) \in Statements(X)
    BY DEF AddLinks, SetLinks, Statements
<1>7. \A i \in Nat : Reap(i) \in Statements(X)
    BY DEF Reap, Statements
<1>8. \A p, n : \A i \in Nat : <<p, n>> \in Place => Remember(p, n, i) \in Statements(X)
    BY DEF Remember, Statements
<1>9. \A p, n : <<p, n>> \in Place => Forget(p, n) \in Statements(X)
    BY <1>8 DEF Forget, NoIno
<1> QED
    BY <1>1, <1>2, <1>3, <1>4, <1>5, <1>6, <1>7, <1>8, <1>9

(* A statement of that set keeps the shape of the tables and every entry   *)
(* elsewhere; SetEntry leaves what it says.                                *)
LEMMA ExecuteKeeps ==
    ASSUME NEW X \in SUBSET Place, NEW d, Tables(d), NEW s \in Statements(X)
    PROVE  /\ Tables(Execute(d, s))
           /\ \A y \in Place \ X : Execute(d, s).entry[y] = d.entry[y]
           /\ s.sql \notin {"entry", "move"} => Execute(d, s).entry = d.entry
           /\ s.sql = "entry" => Execute(d, s).entry[s.at] = s.ino
<1>1. CASE s.sql = "inode"
  <2>1. Execute(d, s) = [d EXCEPT !.last = NextIno(d), !.kind[NextIno(d)] = s.type,
                                  !.nlink[NextIno(d)] = s.links]
      BY <1>1 DEF Execute
  <2>2. PICK e : e = Execute(d, s)
      OBVIOUS
  <2>3. e = [kind |-> e.kind, nlink |-> e.nlink, entry |-> d.entry, target |-> d.target,
             last |-> d.last + 1]
      BY <2>1, <2>2 DEF Tables, NextIno
  <2> QED
      BY <1>1, <2>2, <2>3 DEF Tables
<1>2. CASE s.sql = "target"
  <2>1. Execute(d, s) = [d EXCEPT !.target[d.last] = s.name]
      BY <1>2 DEF Execute
  <2> QED
      BY <1>2, <2>1 DEF Tables
<1>3. CASE s.sql = "entry"
  <2>1. Execute(d, s) = [d EXCEPT !.entry[s.at] = s.ino]
      BY <1>3 DEF Execute
  <2>2. s.at \in X /\ s.ino \in Nat
      BY <1>3 DEF Statements
  <2>3. PICK f : f = [d.entry EXCEPT ![s.at] = s.ino]
      OBVIOUS
  <2>4. f \in [Place -> Nat] /\ f[s.at] = s.ino /\ \A y \in Place \ X : f[y] = d.entry[y]
      BY <2>2, <2>3 DEF Tables
  <2>5. Execute(d, s) = [kind |-> d.kind, nlink |-> d.nlink, entry |-> f, target |-> d.target,
                         last |-> d.last]
      BY <2>1, <2>3 DEF Tables
  <2> QED
      BY <1>3, <2>4, <2>5 DEF Tables
<1>4. CASE s.sql = "move"
  <2>1. Execute(d, s) = IF d.entry[s.from] = NoIno THEN d
                        ELSE [d EXCEPT !.entry[s.to] = d.entry[s.from],
                                       !.entry[s.from] = NoIno]
      BY <1>4 DEF Execute
  <2>2. s.from \in X /\ s.to \in X
      BY <1>4 DEF Statements
  <2>3. PICK f : f = [[d.entry EXCEPT ![s.to] = d.entry[s.from]] EXCEPT ![s.from] = NoIno]
      OBVIOUS
  <2>4. f \in [Place -> Nat] /\ \A y \in Place \ X : f[y] = d.entry[y]
      BY <2>2, <2>3 DEF Tables, NoIno
  <2>5. d.entry[s.from] # NoIno =>
           Execute(d, s) = [kind |-> d.kind, nlink |-> d.nlink, entry |-> f,
                            target |-> d.target, last |-> d.last]
      BY <2>1, <2>3 DEF Tables
  <2>6. CASE d.entry[s.from] = NoIno
      BY <1>4, <2>1, <2>6
  <2>7. CASE d.entry[s.from] # NoIno
    <3>1. PICK e : e = Execute(d, s)
        OBVIOUS
    <3>2. e = [kind |-> d.kind, nlink |-> d.nlink, entry |-> f, target |-> d.target,
               last |-> d.last]
        BY <2>5, <2>7, <3>1
    <3>3. Tables(e) /\ e.entry = f
        BY <2>4, <3>2 DEF Tables
    <3> QED
        BY <1>4, <2>4, <3>1, <3>3
  <2> QED
      BY <2>6, <2>7
<1>5. CASE s.sql = "links"
  <2>1. Execute(d, s) = IF d.kind[s.ino] = "none" THEN d
                        ELSE [d EXCEPT !.nlink[s.ino] = @ + s.by]
      BY <1>5 DEF Execute
  <2> QED
      BY <1>5, <2>1 DEF Tables
<1>6. CASE s.sql = "count"
  <2>1. Execute(d, s) = [d EXCEPT !.nlink[s.ino] = s.to]
      BY <1>6 DEF Execute
  <2> QED
      BY <1>6, <2>1 DEF Tables
<1>7. CASE s.sql = "reap"
  <2>1. Execute(d, s) = IF d.nlink[s.ino] # 0 THEN d
                        ELSE [d EXCEPT !.kind[s.ino] = "none", !.target[s.ino] = "none"]
      BY <1>7 DEF Execute
  <2> QED
      BY <1>7, <2>1 DEF Tables
<1>8. CASE s.sql = "cache"
    BY <1>8 DEF Execute
<1> QED
    BY <1>1, <1>2, <1>3, <1>4, <1>5, <1>6, <1>7, <1>8 DEF Statements

(* So do the statements of a step, one after the other.                    *)
LEMMA ExecutedKeeps ==
    ASSUME NEW X \in SUBSET Place, NEW d, Tables(d), NEW s \in Seq(Statements(X))
    PROVE  /\ Tables(Executed(d, s))
           /\ \A y \in Place \ X : Executed(d, s).entry[y] = d.entry[y]
<1>1. PICK n \in Nat : n = Len(s)
    OBVIOUS
<1>2. PICK f : Runs(f, d, s, n, "statements") /\ Executed(d, s) = f[n]
    BY <1>1, StatementsRun
<1> DEFINE T == {k \in Nat : k <= n => /\ Tables(f[k])
                                       /\ \A y \in Place \ X : f[k].entry[y] = d.entry[y]}
<1>3. 0 \in T
    BY <1>2 DEF Runs
<1>4. ASSUME NEW k \in Nat, k \in T PROVE k + 1 \in T
  <2> SUFFICES ASSUME k + 1 <= n
               PROVE  /\ Tables(f[k + 1])
                      /\ \A y \in Place \ X : f[k + 1].entry[y] = d.entry[y]
      OBVIOUS
  <2>1. k + 1 \in 0..n /\ k + 1 # 0 /\ (k + 1) - 1 = k /\ k <= n
      OBVIOUS
  <2>2. f[k + 1] = Execute(f[k], s[k + 1])
      BY <1>2, <2>1 DEF Runs, Applied
  <2>3. s[k + 1] \in Statements(X)
      BY <1>1, <2>1
  <2>4. Tables(f[k]) /\ \A y \in Place \ X : f[k].entry[y] = d.entry[y]
      BY <1>4, <2>1
  <2> QED
      BY <2>2, <2>3, <2>4, ExecuteKeeps
<1> HIDE DEF T
<1>5. n \in T
    BY <1>3, <1>4, AllNumbers
<1> QED
    BY <1>2, <1>5 DEF T

(* And the steps of a script.                                              *)
LEMMA CommittedKeeps ==
    ASSUME NEW X \in SUBSET Place, NEW d, Tables(d), NEW s \in Seq(Seq(Statements(X)))
    PROVE  /\ Tables(Committed(d, s))
           /\ \A y \in Place \ X : Committed(d, s).entry[y] = d.entry[y]
<1>1. PICK n \in Nat : n = Len(s)
    OBVIOUS
<1>2. PICK f : Runs(f, d, s, n, "steps") /\ Committed(d, s) = f[n]
    BY <1>1, StepsRun
<1> DEFINE T == {k \in Nat : k <= n => /\ Tables(f[k])
                                       /\ \A y \in Place \ X : f[k].entry[y] = d.entry[y]}
<1>3. 0 \in T
    BY <1>2 DEF Runs
<1>4. ASSUME NEW k \in Nat, k \in T PROVE k + 1 \in T
  <2> SUFFICES ASSUME k + 1 <= n
               PROVE  /\ Tables(f[k + 1])
                      /\ \A y \in Place \ X : f[k + 1].entry[y] = d.entry[y]
      OBVIOUS
  <2>1. k + 1 \in 0..n /\ k + 1 # 0 /\ (k + 1) - 1 = k /\ k <= n
      OBVIOUS
  <2>2. f[k + 1] = Executed(f[k], s[k + 1])
    <3>1. \A j \in 0..n : j # 0 => f[j] = Applied(f[j - 1], s[j], "steps")
        BY <1>2 DEF Runs
    <3>2. f[k + 1] = Applied(f[k], s[k + 1], "steps")
        BY <2>1, <3>1
    <3> QED
        BY <3>2 DEF Applied
  <2>3. s[k + 1] \in Seq(Statements(X))
      BY <1>1, <2>1
  <2>4. Tables(f[k]) /\ \A y \in Place \ X : f[k].entry[y] = d.entry[y]
      BY <1>4, <2>1
  <2>5. PICK e, u : e = f[k] /\ u = s[k + 1]
      OBVIOUS
  <2>6. Tables(e) /\ u \in Seq(Statements(X))
      BY <2>3, <2>4, <2>5
  <2>7. /\ Tables(Executed(e, u))
        /\ \A y \in Place \ X : Executed(e, u).entry[y] = e.entry[y]
      BY <2>6, ExecutedKeeps
  <2> QED
      BY <2>2, <2>4, <2>5, <2>7
<1> HIDE DEF T
<1>5. n \in T
    BY <1>3, <1>4, AllNumbers
<1> QED
    BY <1>2, <1>5 DEF T

-----------------------------------------------------------------------------
(* The scripts of the operations *)

(* An entry is a directory and a name.                                     *)
LEMMA PlaceParts ==
    \A x \in Place : x = <<x[1], x[2]>> /\ x[1] \in Nat /\ x[2] \in Name
    BY TablesAssumption DEF Place, Ino

(* Each changes the entries it is about.                                   *)
LEMMA ScriptsFit ==
    ASSUME Tables(db), NEW p, NEW n, <<p, n>> \in Place
    PROVE  /\ MkdirScript(p, n) \in Seq(Seq(Statements({<<p, n>>})))
           /\ MknodScript(p, n) \in Seq(Seq(Statements({<<p, n>>})))
           /\ \A t \in Name : SymlinkScript(p, n, t) \in Seq(Seq(Statements({<<p, n>>})))
           /\ CreateScript(p, n) \in Seq(Seq(Statements({<<p, n>>})))
           /\ UnlinkScript(p, n) \in Seq(Seq(Statements({<<p, n>>})))
           /\ RmdirScript(p, n) \in Seq(Seq(Statements({<<p, n>>})))
           /\ \A i \in Nat : LinkScript(i, p, n) \in Seq(Seq(Statements({<<p, n>>})))
<1>1. PICK X : X = {<<p, n>>}
    OBVIOUS
<1>2. X \in SUBSET Place /\ <<p, n>> \in X /\ p \in Nat
    BY <1>1, TablesAssumption DEF Place, Ino
<1>3. PICK S : S = Statements(X)
    OBVIOUS
<1>4. NextIno(db) \in Nat /\ At(p, n) \in Nat
    BY DEF Tables, NextIno, At
<1>5. /\ \A t \in {"dir", "file", "link"}, k \in Int : NewInode(t, k) \in S
      /\ \A t \in Name : SetTarget(t) \in S
      /\ \A i \in Nat : SetEntry(p, n, i) \in S
      /\ DropEntry(p, n) \in S
      /\ \A i \in Nat, k \in Int : AddLinks(i, k) \in S /\ SetLinks(i, k) \in S
      /\ \A i \in Nat : Reap(i) \in S
      /\ \A i \in Nat : Remember(p, n, i) \in S
      /\ Forget(p, n) \in S
    BY <1>2, <1>3, InStatements
<1>6. MkdirScript(p, n) \in Seq(Seq(S))
    BY <1>2, <1>4, <1>5 DEF MkdirScript
<1>7. MknodScript(p, n) \in Seq(Seq(S))
    BY <1>4, <1>5 DEF MknodScript
<1>8. ASSUME NEW t \in Name PROVE SymlinkScript(p, n, t) \in Seq(Seq(S))
    BY <1>4, <1>5 DEF SymlinkScript
<1>9. CreateScript(p, n) \in Seq(Seq(S))
    BY <1>4, <1>5 DEF CreateScript
<1>10. UnlinkScript(p, n) \in Seq(Seq(S))
    BY <1>4, <1>5 DEF UnlinkScript
<1>11. RmdirScript(p, n) \in Seq(Seq(S))
  <2>1. /\ <<<<DropEntry(p, n), Forget(p, n)>>, <<AddLinks(At(p, n), -1)>>>> \in Seq(Seq(S))
        /\ <<<<AddLinks(p, -1)>>>> \in Seq(Seq(S))
        /\ <<<<Reap(At(p, n))>>>> \in Seq(Seq(S))
      BY <1>2, <1>4, <1>5
  <2> QED
      BY <2>1 DEF RmdirScript, RemoveScript
<1>12. ASSUME NEW i \in Nat PROVE LinkScript(i, p, n) \in Seq(Seq(S))
    BY <1>5 DEF LinkScript
<1> QED
    BY <1>1, <1>3, <1>6, <1>7, <1>8, <1>9, <1>10, <1>11, <1>12

(* A rename changes the two entries it is about.                           *)
LEMMA RenameFits ==
    ASSUME Tables(db), NEW p, NEW n, <<p, n>> \in Place, NEW q, NEW m, <<q, m>> \in Place,
           NEW asDir
    PROVE  RenameScript(p, n, q, m, asDir) \in Seq(Seq(Statements({<<p, n>>, <<q, m>>})))
<1>1. PICK X : X = {<<p, n>>, <<q, m>>}
    OBVIOUS
<1>2. X \in SUBSET Place /\ <<p, n>> \in X /\ <<q, m>> \in X /\ p \in Nat /\ q \in Nat
    BY <1>1, TablesAssumption DEF Place, Ino
<1>3. PICK S : S = Statements(X)
    OBVIOUS
<1>4. At(p, n) \in Nat /\ At(q, m) \in Nat
    BY DEF Tables, At
<1>5. /\ DropEntry(q, m) \in S
      /\ \A i \in Nat, k \in Int : AddLinks(i, k) \in S
      /\ \A i \in Nat : Reap(i) \in S
      /\ MoveEntry(p, n, q, m) \in S
      /\ \A i \in Nat : Remember(q, m, i) \in S
      /\ Forget(p, n) \in S /\ Forget(q, m) \in S
    BY <1>2, <1>3, InStatements
<1>6. PICK a : a = IF At(q, m) = NoIno THEN <<>>
                   ELSE <<DropEntry(q, m), AddLinks(At(q, m), -1), Reap(At(q, m))>>
    OBVIOUS
<1>7. PICK b : b = <<MoveEntry(p, n, q, m)>>
    OBVIOUS
<1>8. PICK c : c = IF asDir /\ p # q THEN <<AddLinks(p, -1), AddLinks(q, 1)>> ELSE <<>>
    OBVIOUS
<1>9. PICK e : e = <<Forget(p, n), Forget(q, m), Remember(q, m, At(p, n))>>
    OBVIOUS
<1>10. a \in Seq(S) /\ b \in Seq(S) /\ c \in Seq(S) /\ e \in Seq(S)
  <2>1. a \in Seq(S)
      BY <1>4, <1>5, <1>6
  <2>2. c \in Seq(S)
      BY <1>2, <1>5, <1>8
  <2> QED
      BY <1>4, <1>5, <1>7, <1>9, <2>1, <2>2
<1>11. RenameScript(p, n, q, m, asDir) = <<a \o b \o c \o e>>
    BY <1>6, <1>7, <1>8, <1>9 DEF RenameScript
<1>12. a \o b \o c \o e \in Seq(S)
    BY <1>10
<1> QED
    BY <1>1, <1>3, <1>11, <1>12

(* A step of one or two statements, a script of one to four steps.         *)
LEMMA ExecutedShort ==
    /\ \A d, a : Executed(d, <<a>>) = Execute(d, a)
    /\ \A d, a, b : Executed(d, <<a, b>>) = Execute(Execute(d, a), b)
    /\ \A d, a, b, c : Executed(d, <<a, b, c>>) = Execute(Execute(Execute(d, a), b), c)
<1>1. ASSUME NEW d, NEW a
      PROVE  Executed(d, <<a>>) = Execute(d, a)
  <2>1. PICK X, s, u : X = {a} /\ s = <<>> /\ u = <<a>>
      OBVIOUS
  <2>2. s \in Seq(X) /\ u = Append(s, a)
      BY <2>1
  <2>3. Executed(d, u) = Execute(Executed(d, s), a)
      BY <2>2, ExecutedNext
  <2>4. Executed(d, s) = d
      BY <2>1, ExecutedNext
  <2> QED
      BY <2>1, <2>3, <2>4
<1>2. ASSUME NEW d, NEW a, NEW b
      PROVE  Executed(d, <<a, b>>) = Execute(Execute(d, a), b)
  <2>1. PICK X, s, u : X = {a, b} /\ s = <<a>> /\ u = <<a, b>>
      OBVIOUS
  <2>2. s \in Seq(X) /\ u = Append(s, b)
      BY <2>1
  <2>3. Executed(d, u) = Execute(Executed(d, s), b)
      BY <2>2, ExecutedNext
  <2>4. Executed(d, s) = Execute(d, a)
      BY <2>1, <1>1
  <2> QED
      BY <2>1, <2>3, <2>4
<1>3. ASSUME NEW d, NEW a, NEW b, NEW c
      PROVE  Executed(d, <<a, b, c>>) = Execute(Execute(Execute(d, a), b), c)
  <2>1. PICK X, s, u : X = {a, b, c} /\ s = <<a, b>> /\ u = <<a, b, c>>
      OBVIOUS
  <2>2. s \in Seq(X) /\ u = Append(s, c)
      BY <2>1
  <2>3. Executed(d, u) = Execute(Executed(d, s), c)
      BY <2>2, ExecutedNext
  <2>4. Executed(d, s) = Execute(Execute(d, a), b)
      BY <2>1, <1>2
  <2> QED
      BY <2>1, <2>3, <2>4
<1> QED
    BY <1>1, <1>2, <1>3

(* A script of one to four steps.                                          *)
LEMMA CommittedShort ==
    /\ \A d, a : Committed(d, <<a>>) = Executed(d, a)
    /\ \A d, a, b : Committed(d, <<a, b>>) = Executed(Executed(d, a), b)
    /\ \A d, a, b, c : Committed(d, <<a, b, c>>) = Executed(Executed(Executed(d, a), b), c)
    /\ \A d, a, b, c, e : Committed(d, <<a, b, c, e>>) = Executed(Executed(Executed(Executed(d, a), b), c), e)
<1>1. ASSUME NEW d, NEW a
      PROVE  Committed(d, <<a>>) = Executed(d, a)
  <2>1. PICK X, s, u : X = {a} /\ s = <<>> /\ u = <<a>>
      OBVIOUS
  <2>2. s \in Seq(X) /\ u = Append(s, a)
      BY <2>1
  <2>3. Committed(d, u) = Executed(Committed(d, s), a)
      BY <2>2, CommittedNext
  <2>4. Committed(d, s) = d
      BY <2>1, CommittedNext
  <2> QED
      BY <2>1, <2>3, <2>4
<1>2. ASSUME NEW d, NEW a, NEW b
      PROVE  Committed(d, <<a, b>>) = Executed(Executed(d, a), b)
  <2>1. PICK X, s, u : X = {a, b} /\ s = <<a>> /\ u = <<a, b>>
      OBVIOUS
  <2>2. s \in Seq(X) /\ u = Append(s, b)
      BY <2>1
  <2>3. Committed(d, u) = Executed(Committed(d, s), b)
      BY <2>2, CommittedNext
  <2>4. Committed(d, s) = Executed(d, a)
      BY <2>1, <1>1
  <2> QED
      BY <2>1, <2>3, <2>4
<1>3. ASSUME NEW d, NEW a, NEW b, NEW c
      PROVE  Committed(d, <<a, b, c>>) = Executed(Executed(Executed(d, a), b), c)
  <2>1. PICK X, s, u : X = {a, b, c} /\ s = <<a, b>> /\ u = <<a, b, c>>
      OBVIOUS
  <2>2. s \in Seq(X) /\ u = Append(s, c)
      BY <2>1
  <2>3. Committed(d, u) = Executed(Committed(d, s), c)
      BY <2>2, CommittedNext
  <2>4. Committed(d, s) = Executed(Executed(d, a), b)
      BY <2>1, <1>2
  <2> QED
      BY <2>1, <2>3, <2>4
<1>4. ASSUME NEW d, NEW a, NEW b, NEW c, NEW e
      PROVE  Committed(d, <<a, b, c, e>>) = Executed(Executed(Executed(Executed(d, a), b), c), e)
  <2>1. PICK X, s, u : X = {a, b, c, e} /\ s = <<a, b, c>> /\ u = <<a, b, c, e>>
      OBVIOUS
  <2>2. s \in Seq(X) /\ u = Append(s, e)
      BY <2>1
  <2>3. Committed(d, u) = Executed(Committed(d, s), e)
      BY <2>2, CommittedNext
  <2>4. Committed(d, s) = Executed(Executed(Executed(d, a), b), c)
      BY <2>1, <1>3
  <2> QED
      BY <2>1, <2>3, <2>4
<1> QED
    BY <1>1, <1>2, <1>3, <1>4

(* A step that sets and moves no entry leaves them all.                    *)
LEMMA Untouched ==
    ASSUME NEW d, Tables(d), NEW x \in Place, NEW i, d.entry[x] = i,
           NEW s \in Seq(Statements({}))
    PROVE  Tables(Executed(d, s)) /\ Executed(d, s).entry[x] = i
<1>1. PICK X : X = {}
    OBVIOUS
<1>2. X \in SUBSET Place /\ s \in Seq(Statements(X)) /\ x \in Place \ X
    BY <1>1
<1>3. /\ Tables(Executed(d, s))
      /\ \A y \in Place \ X : Executed(d, s).entry[y] = d.entry[y]
    BY <1>2, ExecutedKeeps
<1> QED
    BY <1>2, <1>3

(* SetEntry leaves its inode at its entry.                                 *)
LEMMA EntrySet ==
    ASSUME NEW d, Tables(d), NEW p, NEW n, <<p, n>> \in Place, NEW i \in Nat
    PROVE  /\ Tables(Execute(d, SetEntry(p, n, i)))
           /\ Execute(d, SetEntry(p, n, i)).entry[<<p, n>>] = i
<1>1. PICK X, s : X = {<<p, n>>} /\ s = SetEntry(p, n, i)
    OBVIOUS
<1>2. X \in SUBSET Place /\ s \in Statements(X)
    BY <1>1, InStatements
<1>3. s.sql = "entry" /\ s.at = <<p, n>> /\ s.ino = i
    BY <1>1 DEF SetEntry
<1>4. Tables(Execute(d, s)) /\ Execute(d, s).entry[s.at] = s.ino
    BY <1>2, <1>3, ExecuteKeeps
<1> QED
    BY <1>1, <1>3, <1>4

(* An operation that makes an entry leaves the inode it answers there.     *)
LEMMA EntryMade ==
    ASSUME Tables(db), NEW p, NEW n, <<p, n>> \in Place, NEW t \in Name, NEW j \in Nat
    PROVE  /\ Committed(db, MkdirScript(p, n)).entry[<<p, n>>] = NextIno(db)
           /\ Committed(db, MknodScript(p, n)).entry[<<p, n>>] = NextIno(db)
           /\ Committed(db, SymlinkScript(p, n, t)).entry[<<p, n>>] = NextIno(db)
           /\ Committed(db, CreateScript(p, n)).entry[<<p, n>>] = NextIno(db)
           /\ Committed(db, LinkScript(j, p, n)).entry[<<p, n>>] = j
<1>1. PICK i, x : i = NextIno(db) /\ x = <<p, n>>
    OBVIOUS
<1>2. i \in Nat /\ x \in Place /\ p \in Nat
    BY <1>1, TablesAssumption DEF Tables, NextIno, Place, Ino
<1>3. PICK S : S = Statements({})
    OBVIOUS
<1>4. /\ \A ty \in {"dir", "file", "link"}, k \in Int : NewInode(ty, k) \in S
      /\ SetTarget(t) \in S
      /\ \A k \in Nat, b \in Int : AddLinks(k, b) \in S /\ SetLinks(k, b) \in S
      /\ \A k \in Nat : Remember(p, n, k) \in S
  <2>1. PICK X : X = {}
      OBVIOUS
  <2>2. X \in SUBSET Place
      BY <2>1
  <2> QED
      BY <1>1, <1>2, <1>3, <2>1, <2>2, InStatements
<1>5. ASSUME NEW d, Tables(d), NEW s \in Seq(S)
      PROVE  /\ Tables(Executed(d, s))
             /\ \A k : d.entry[x] = k => Executed(d, s).entry[x] = k
    BY <1>2, <1>3, <1>5, Untouched
<1>6. ASSUME NEW d, Tables(d), NEW k \in Nat
      PROVE  /\ Tables(Executed(d, <<SetEntry(p, n, k)>>))
             /\ Executed(d, <<SetEntry(p, n, k)>>).entry[x] = k
  <2>1. PICK b : b = SetEntry(p, n, k)
      OBVIOUS
  <2>2. Tables(Execute(d, b)) /\ Execute(d, b).entry[x] = k
      BY <1>1, <1>2, <1>6, <2>1, EntrySet
  <2> QED
      BY <2>1, <2>2, ExecutedShort
<1>7. Committed(db, MkdirScript(p, n)).entry[x] = i
  <2>1. PICK s1, s2, s3, s4 :
           /\ s1 = <<NewInode("dir", 0)>> /\ s2 = <<SetEntry(p, n, i)>>
           /\ s3 = <<SetLinks(i, 2)>> /\ s4 = <<AddLinks(p, 1), Remember(p, n, i)>>
      OBVIOUS
  <2>2. s1 \in Seq(S) /\ s3 \in Seq(S) /\ s4 \in Seq(S)
      BY <1>2, <1>4, <2>1
  <2>3. PICK d1, d2, d3, d4 :
           /\ d1 = Executed(db, s1) /\ d2 = Executed(d1, s2)
           /\ d3 = Executed(d2, s3) /\ d4 = Executed(d3, s4)
      OBVIOUS
  <2>4. Tables(d1)
      BY <1>5, <2>2, <2>3
  <2>5. Tables(d2) /\ d2.entry[x] = i
      BY <1>2, <1>6, <2>1, <2>3, <2>4
  <2>6. Tables(d3) /\ d3.entry[x] = i
      BY <1>5, <2>2, <2>3, <2>5
  <2>7. d4.entry[x] = i
      BY <1>5, <2>2, <2>3, <2>6
  <2>8. Committed(db, <<s1, s2, s3, s4>>) = d4
      BY <2>3, CommittedShort
  <2>9. MkdirScript(p, n) = <<s1, s2, s3, s4>>
      BY <1>1, <2>1 DEF MkdirScript
  <2> QED
      BY <2>7, <2>8, <2>9
<1>8. Committed(db, MknodScript(p, n)).entry[x] = i
  <2>1. PICK s1, s2, s3 :
           /\ s1 = <<NewInode("file", 0)>> /\ s2 = <<SetEntry(p, n, i)>>
           /\ s3 = <<AddLinks(i, 1), Remember(p, n, i)>>
      OBVIOUS
  <2>2. s1 \in Seq(S) /\ s3 \in Seq(S)
      BY <1>2, <1>4, <2>1
  <2>3. PICK d1, d2, d3 :
           d1 = Executed(db, s1) /\ d2 = Executed(d1, s2) /\ d3 = Executed(d2, s3)
      OBVIOUS
  <2>4. Tables(d1)
      BY <1>5, <2>2, <2>3
  <2>5. Tables(d2) /\ d2.entry[x] = i
      BY <1>2, <1>6, <2>1, <2>3, <2>4
  <2>6. d3.entry[x] = i
      BY <1>5, <2>2, <2>3, <2>5
  <2>7. Committed(db, <<s1, s2, s3>>) = d3
      BY <2>3, CommittedShort
  <2>8. MknodScript(p, n) = <<s1, s2, s3>>
      BY <1>1, <2>1 DEF MknodScript
  <2> QED
      BY <2>6, <2>7, <2>8
<1>9. Committed(db, SymlinkScript(p, n, t)).entry[x] = i
  <2>1. PICK s1, s2, s3, s4 :
           /\ s1 = <<NewInode("link", 0)>> /\ s2 = <<SetTarget(t)>>
           /\ s3 = <<SetEntry(p, n, i)>> /\ s4 = <<AddLinks(i, 1), Remember(p, n, i)>>
      OBVIOUS
  <2>2. s1 \in Seq(S) /\ s2 \in Seq(S) /\ s4 \in Seq(S)
      BY <1>2, <1>4, <2>1
  <2>3. PICK d1, d2, d3, d4 :
           /\ d1 = Executed(db, s1) /\ d2 = Executed(d1, s2)
           /\ d3 = Executed(d2, s3) /\ d4 = Executed(d3, s4)
      OBVIOUS
  <2>4. Tables(d1)
      BY <1>5, <2>2, <2>3
  <2>5. Tables(d2)
      BY <1>5, <2>2, <2>3, <2>4
  <2>6. Tables(d3) /\ d3.entry[x] = i
      BY <1>2, <1>6, <2>1, <2>3, <2>5
  <2>7. d4.entry[x] = i
      BY <1>5, <2>2, <2>3, <2>6
  <2>8. Committed(db, <<s1, s2, s3, s4>>) = d4
      BY <2>3, CommittedShort
  <2>9. SymlinkScript(p, n, t) = <<s1, s2, s3, s4>>
      BY <1>1, <2>1 DEF SymlinkScript
  <2> QED
      BY <2>7, <2>8, <2>9
<1>10. Committed(db, CreateScript(p, n)).entry[x] = i
  <2>1. PICK a, b, c : a = NewInode("file", 1) /\ b = SetEntry(p, n, i) /\ c = Remember(p, n, i)
      OBVIOUS
  <2>2. a \in S /\ c \in S
      BY <1>2, <1>4, <2>1
  <2>3. PICK d1, d2, d3 : d1 = Execute(db, a) /\ d2 = Execute(d1, b) /\ d3 = Execute(d2, c)
      OBVIOUS
  <2>4. Tables(d1)
    <3>1. <<a>> \in Seq(S) /\ Executed(db, <<a>>) = d1
        BY <2>2, <2>3, ExecutedShort
    <3> QED
        BY <1>5, <3>1
  <2>5. Tables(d2) /\ d2.entry[x] = i
    <3>1. PICK s : s = <<SetEntry(p, n, i)>>
        OBVIOUS
    <3>2. Tables(Executed(d1, s)) /\ Executed(d1, s).entry[x] = i
        BY <1>2, <1>6, <2>4, <3>1
    <3>3. Executed(d1, s) = d2
        BY <2>1, <2>3, <3>1, ExecutedShort
    <3> QED
        BY <3>2, <3>3
  <2>6. d3.entry[x] = i
    <3>1. <<c>> \in Seq(S) /\ Executed(d2, <<c>>) = d3
        BY <2>2, <2>3, ExecutedShort
    <3> QED
        BY <1>5, <2>5, <3>1
  <2>7. Executed(db, <<a, b, c>>) = d3
      BY <2>3, ExecutedShort
  <2>8. CreateScript(p, n) = <<<<a, b, c>>>>
      BY <1>1, <2>1 DEF CreateScript
  <2> QED
      BY <2>6, <2>7, <2>8, CommittedShort
<1>11. Committed(db, LinkScript(j, p, n)).entry[x] = j
  <2>1. PICK s1, s2 : s1 = <<SetEntry(p, n, j)>> /\ s2 = <<AddLinks(j, 1), Remember(p, n, j)>>
      OBVIOUS
  <2>2. s2 \in Seq(S)
      BY <1>4, <2>1
  <2>3. PICK d1, d2 : d1 = Executed(db, s1) /\ d2 = Executed(d1, s2)
      OBVIOUS
  <2>4. Tables(d1) /\ d1.entry[x] = j
      BY <1>6, <2>1, <2>3
  <2>5. d2.entry[x] = j
      BY <1>5, <2>2, <2>3, <2>4
  <2>6. Committed(db, <<s1, s2>>) = d2
      BY <2>3, CommittedShort
  <2>7. LinkScript(j, p, n) = <<s1, s2>>
      BY <2>1 DEF LinkScript
  <2> QED
      BY <2>5, <2>6, <2>7
<1> QED
    BY <1>1, <1>7, <1>8, <1>9, <1>10, <1>11

-----------------------------------------------------------------------------
(* The inductive invariant *)

Ops == Shared \cup Making \cup OnInode \cup OnHandle \cup {"unlink", "rmdir", "rename", "link"}
Named == Ops \ (OnInode \cup OnHandle)
File == Nat \X Nat
Request ==
    [op : Ops \cup {"none"}, at : Place \cup {Nowhere}, to : Place \cup {Nowhere}, ino : Nat,
     fh : Nat, answered : BOOLEAN, reply : SUBSET (Place \X Nat), file : File]

Typed ==
    /\ Tables(db)
    /\ dcache \in [Place -> Nat]
    /\ call \in [Proc -> Request]
    /\ held \in [Proc -> File]
    /\ queue \in Seq(Proc \cup Nat)
    /\ session \in Seq(Place) /\ notices \in Seq(Place) /\ journal \in Seq(Place)
    /\ polled \in Int /\ -1 <= polled /\ polled <= Len(journal)
    /\ \A p \in Proc : /\ call[p].op \in Named => call[p].at \in Place /\ call[p].to \in Place
                       /\ call[p].op = "none" => call[p] = NoCall

(* The table of open files, and the numbers it has given.                  *)
Tabled ==
    /\ next_fh \in Nat \ {0}
    /\ DOMAIN open_files \subseteq 1..(next_fh - 1)
    /\ open_files = [fh \in DOMAIN open_files |-> open_files[fh]]
    /\ \A fh \in DOMAIN open_files : open_files[fh] \in Nat

(* A process is in the queue at most once, while its call is unanswered.   *)
Queued ==
    /\ \A k \in DOMAIN queue :
          queue[k] \in Proc => call[queue[k]] # NoCall /\ ~call[queue[k]].answered
    /\ \A k, l \in DOMAIN queue : queue[k] = queue[l] /\ queue[k] \in Proc => k = l

(* The invalidation of an entry is under way, whatever the calls are.      *)
Noticed(x) ==
    \/ \E k \in DOMAIN notices : notices[k] = x
    \/ \E k \in DOMAIN session : session[k] = x
    \/ x \in missed
    \/ \E k \in DOMAIN journal : k > polled /\ journal[k] = x

Right(x, i) == i \in {NoIno, db.entry[x]} \/ Noticed(x)

CacheRight == \A x \in Place : Right(x, dcache[x])

(* The directories a call has locked by the names in it.                   *)
Holds(r) == IF r.op \in {"rename", "rmdir"} THEN {r.at[1], r.to[1]} ELSE {r.at[1]}

(* An answer is about entries of directories its call has locked, so no    *)
(* invalidation overtakes it; and it is as right as an entry of the cache. *)
RepliesRight ==
    \A p \in Proc : \A e \in call[p].reply :
        /\ call[p].answered /\ call[p].op \in Named
        /\ e[1][1] \in Holds(call[p])
        /\ Right(e[1], e[2])

CacheInv == Typed /\ Tabled /\ Queued /\ CacheRight /\ RepliesRight

-----------------------------------------------------------------------------
(* What a handler does, whichever it is *)

Listed(x, s) == \E k \in DOMAIN s : s[k] = x

(* It answers its process; an entry it changes was absent, or is in the    *)
(* invalidations it leaves; so is an entry it answers otherwise than the   *)
(* table has it.                                                           *)
Handled(r, reply, file, invalid) ==
    /\ Tables(db')
    /\ call' = [call EXCEPT ![Head(queue)] =
                    [@ EXCEPT !.answered = TRUE, !.reply = reply, !.file = file]]
    /\ session' = invalid
    /\ reply \in SUBSET (Place \X Nat) /\ file \in File /\ invalid \in Seq(Place)
    /\ reply # {} => r.op \in Named
    /\ \A x \in Place : db'.entry[x] = db.entry[x] \/ db.entry[x] = NoIno \/ Listed(x, invalid)
    /\ \A e \in reply : /\ e[1][1] \in Holds(r)
                        /\ e[2] \in {NoIno, db'.entry[e[1]]} \/ Listed(e[1], invalid)

(* It opens a file, finds the one under a handle, or neither.              *)
FileGiven(r, file) ==
    \/ /\ r.op \in {"open", "create"}
       /\ \E i \in Nat :
             /\ file = <<next_fh, i>>
             /\ open_files' = [fh \in DOMAIN open_files \cup {next_fh} |->
                                  IF fh = next_fh THEN i ELSE open_files[fh]]
             /\ next_fh' = next_fh + 1
    \/ /\ file = IF r.op \in OnHandle THEN OpenFile(r.fh) ELSE NoFile
       /\ UNCHANGED files

(* A request that writes nothing.                                          *)
LEMMA NothingChanged ==
    ASSUME Tables(db), NEW r, NEW reply, NEW file, NEW invalid,
           Answer(r, <<>>, reply, file, invalid), file \in File, invalid = <<>>,
           reply \in SUBSET (Place \X Nat), reply # {} => r.op \in Named,
           \A e \in reply : e[1][1] \in Holds(r) /\ e[2] \in {NoIno, db.entry[e[1]]}
    PROVE  Handled(r, reply, file, invalid)
<1>1. db' = db
    BY CommittedNext DEF Answer
<1>2. invalid \in Seq(Place)
    OBVIOUS
<1> QED
    BY <1>1, <1>2 DEF Answer, Handled

(* A request that writes and answers nothing.                              *)
LEMMA NothingAnswered ==
    ASSUME Tables(db), NEW r, r.op \notin OnHandle, Reply(r, <<>>, {})
    PROVE  \E reply, file, invalid : Handled(r, reply, file, invalid) /\ FileGiven(r, file)
<1>1. NoFile \in File
    BY DEF NoFile, File, NoIno
<1>2. Answer(r, <<>>, {}, NoFile, <<>>) /\ UNCHANGED files
    BY DEF Reply, Serve
<1>3. Handled(r, {}, NoFile, <<>>)
    BY <1>1, <1>2, NothingChanged
<1> QED
    BY <1>2, <1>3 DEF FileGiven

(* An entry is made where there was none.                                  *)
LEMMA EntryAnswered ==
    ASSUME Tables(db), NEW r, NEW script, NEW file, NEW i \in Nat, file \in File,
           r.at \in Place, r.op \in Named, db.entry[r.at] = NoIno,
           script \in Seq(Seq(Statements({r.at}))), Committed(db, script).entry[r.at] = i,
           Answer(r, script, {<<r.at, i>>}, file, <<>>)
    PROVE  Handled(r, {<<r.at, i>>}, file, <<>>)
<1>1. PICK X : X = {r.at}
    OBVIOUS
<1>2. db' = Committed(db, script)
    BY DEF Answer
<1>3. Tables(db') /\ \A y \in Place \ X : db'.entry[y] = db.entry[y]
    BY <1>1, <1>2, CommittedKeeps
<1>4. r.at[1] \in Holds(r) /\ <<>> \in Seq(Place)
    BY DEF Holds
<1> QED
    BY <1>1, <1>2, <1>3, <1>4 DEF Answer, Handled

(* Entries are dropped or moved, and invalidated.                          *)
LEMMA EntriesInvalid ==
    ASSUME Tables(db), NEW r, NEW script, NEW reply, NEW invalid \in Seq(Place),
           NEW X \in SUBSET Place, X = {x \in Place : Listed(x, invalid)},
           r.op \in Named, r.op \notin OnHandle,
           script \in Seq(Seq(Statements(X))),
           reply \in SUBSET (Place \X Nat), \A e \in reply : e[1] \in X /\ e[1][1] \in Holds(r),
           Serve(r, script, reply, invalid)
    PROVE  \E a, file, b : Handled(r, a, file, b) /\ FileGiven(r, file)
<1>1. Answer(r, script, reply, NoFile, invalid) /\ UNCHANGED files
    BY DEF Serve
<1>2. db' = Committed(db, script)
    BY <1>1 DEF Answer
<1>3. Tables(db') /\ \A y \in Place \ X : db'.entry[y] = db.entry[y]
  <2>1. /\ Tables(Committed(db, script))
        /\ \A y \in Place \ X : Committed(db, script).entry[y] = db.entry[y]
      BY CommittedKeeps
  <2> QED
      BY <1>2, <2>1
<1>4. NoFile \in File
    BY DEF NoFile, File, NoIno
<1>5. Handled(r, reply, NoFile, invalid)
    BY <1>1, <1>3, <1>4 DEF Answer, Handled
<1> QED
    BY <1>1, <1>5 DEF FileGiven

(* Every handler does that: the sum of the four lemmas above.              *)
LEMMA AnswersHandle ==
    ASSUME Typed, Tabled, NEW r \in Request, r.op \in Ops,
           r.op \in Named => r.at \in Place /\ r.to \in Place,
           IF r.op \in OnInode THEN ByInode(r)
           ELSE IF r.op \in OnHandle THEN ByHandle(r) ELSE ByName(r)
    PROVE  \E reply, file, invalid : Handled(r, reply, file, invalid) /\ FileGiven(r, file)
<1> DEFINE Done == \E reply, file, invalid : Handled(r, reply, file, invalid) /\ FileGiven(r, file)
<1> SUFFICES Done
    OBVIOUS
<1>1. Tables(db) /\ dcache \in [Place -> Nat] /\ NextIno(db) \in Nat
    BY DEF Typed, Tables, NextIno
<1>2. r.op \in Named => /\ r.at = <<r.at[1], r.at[2]>> /\ r.at[2] \in Name
                        /\ r.to = <<r.to[1], r.to[2]>>
                        /\ db.entry[r.at] = At(r.at[1], r.at[2])
    BY PlaceParts DEF At
<1>3. next_fh \in Nat \ {0} /\ alloc_fh = next_fh
    BY DEF Tabled, alloc_fh
<1>4. ASSUME r.op \notin OnHandle, Reply(r, <<>>, {}) PROVE Done
    BY <1>1, <1>4, NothingAnswered
<1>5. CASE r.op \in OnInode
  <2>1. r.op \notin OnHandle
      BY <1>5 DEF OnInode, OnHandle
  <2>2. ByInode(r)
      BY <1>5
  <2>3. CASE r.op = "open"
    <3>1. open(r)
        BY <2>2, <2>3 DEF ByInode
    <3>2. CASE ~Exists(r.ino)
        BY <1>4, <2>1, <3>1, <3>2 DEF open
    <3>3. CASE Exists(r.ino)
      <4>1. Opened(r, <<>>, {}, r.ino)
          BY <3>1, <3>3 DEF open
      <4>2. PICK file : file = <<next_fh, r.ino>>
          OBVIOUS
      <4>3. r.ino \in Nat /\ file \in File
          BY <1>3, <4>2 DEF Request, File
      <4>4. Answer(r, <<>>, {}, file, <<>>)
          BY <1>3, <4>1, <4>2 DEF Opened
      <4>5. Handled(r, {}, file, <<>>)
          BY <1>1, <4>3, <4>4, NothingChanged
      <4>6. FileGiven(r, file)
          BY <1>3, <2>3, <4>1, <4>2, <4>3 DEF Opened, FileGiven
      <4> QED
          BY <4>5, <4>6
    <3> QED
        BY <3>2, <3>3
  <2>4. CASE r.op # "open"
    <3>1. Reply(r, <<>>, {})
        BY <1>5, <2>2, <2>4 DEF ByInode, OnInode, getattr, setattr, readlink, statfs, readdir
    <3> QED
        BY <1>4, <2>1, <3>1
  <2> QED
      BY <2>3, <2>4
<1>6. CASE r.op \in OnHandle
  <2>1. r.op \notin OnInode
      BY <1>6 DEF OnInode, OnHandle
  <2>2. ByHandle(r)
      BY <1>6, <2>1
  <2>3. Use(r)
      BY <1>6, <2>2 DEF ByHandle, OnHandle, read, write, flush, fsync, ftruncate
  <2>4. PICK file : file = OpenFile(r.fh)
      OBVIOUS
  <2>5. file \in File
      BY <2>4 DEF OpenFile, File, NoFile, NoIno, Tabled, Request
  <2>6. Answer(r, <<>>, {}, file, <<>>) /\ UNCHANGED files
      BY <2>3, <2>4 DEF Use
  <2>7. Handled(r, {}, file, <<>>)
      BY <1>1, <2>5, <2>6, NothingChanged
  <2>8. FileGiven(r, file)
      BY <1>6, <2>4, <2>6 DEF FileGiven
  <2> QED
      BY <2>7, <2>8
<1>7. CASE r.op \in Named
  <2>1. r.op \notin OnInode /\ r.op \notin OnHandle
      BY <1>7 DEF Named
  <2>2. ByName(r)
      BY <2>1
  <2>3. /\ r.at \in Place /\ r.to \in Place
        /\ r.at = <<r.at[1], r.at[2]>> /\ r.at[2] \in Name
        /\ r.to = <<r.to[1], r.to[2]>>
        /\ db.entry[r.at] = At(r.at[1], r.at[2])
      BY <1>2, <1>7
  <2>4. r.at[1] \in Holds(r)
      BY DEF Holds
  <2>5. ASSUME NEW reply, Reply(r, <<>>, reply), reply \in SUBSET (Place \X Nat),
               \A e \in reply : e[1][1] \in Holds(r) /\ e[2] \in {NoIno, db.entry[e[1]]}
        PROVE  Done
    <3>1. Answer(r, <<>>, reply, NoFile, <<>>) /\ UNCHANGED files
        BY <2>5 DEF Reply, Serve
    <3>2. NoFile \in File
        BY DEF NoFile, File, NoIno
    <3>3. Handled(r, reply, NoFile, <<>>)
        BY <1>1, <1>7, <2>5, <3>1, <3>2, NothingChanged
    <3>4. FileGiven(r, NoFile)
        BY <2>1, <3>1 DEF FileGiven
    <3> QED
        BY <3>3, <3>4
  <2>6. CASE r.op = "lookup"
    <3>1. Reply(r, <<>>, {<<r.at, db.entry[r.at]>>})
        BY <2>2, <2>6 DEF ByName, lookup
    <3>2. db.entry[r.at] \in Nat
        BY <1>1, <2>3 DEF Tables
    <3> QED
        BY <2>3, <2>4, <2>5, <3>1, <3>2
  <2>7. CASE r.op = "readdirplus"
    <3>1. PICK reply : reply = {<<x, db.entry[x]>> : x \in Children(r.at[1])}
        OBVIOUS
    <3>2. Reply(r, <<>>, reply)
        BY <2>2, <2>7, <3>1 DEF ByName, readdirplus
    <3>3. reply \in SUBSET (Place \X Nat)
        BY <1>1, <3>1 DEF Tables, Children
    <3>4. \A e \in reply : e[1][1] = r.at[1] /\ e[2] = db.entry[e[1]]
        BY <3>1 DEF Children
    <3> QED
        BY <2>4, <2>5, <3>2, <3>3, <3>4
  <2>8. ASSUME NEW script, Made(r, script), script \in Seq(Seq(Statements({r.at}))),
               Committed(db, script).entry[r.at] = NextIno(db)
        PROVE  Done
    <3>1. CASE ~Creatable(r.at[1], r.at[2])
        BY <1>4, <2>1, <2>8, <3>1 DEF Made
    <3>2. CASE Creatable(r.at[1], r.at[2])
      <4>1. Answer(r, script, {<<r.at, NextIno(db)>>}, NoFile, <<>>) /\ UNCHANGED files
          BY <2>8, <3>2 DEF Made, Reply, Serve
      <4>2. NoFile \in File
          BY DEF NoFile, File, NoIno
      <4>3. db.entry[r.at] = NoIno
          BY <2>3, <3>2 DEF Creatable, Free
      <4>4. Handled(r, {<<r.at, NextIno(db)>>}, NoFile, <<>>)
          BY <1>1, <1>7, <2>3, <2>8, <4>1, <4>2, <4>3, EntryAnswered
      <4>5. FileGiven(r, NoFile)
          BY <2>1, <4>1 DEF FileGiven
      <4> QED
          BY <4>4, <4>5
    <3> QED
        BY <3>1, <3>2
  <2>9. PICK p, n : p = r.at[1] /\ n = r.at[2]
      OBVIOUS
  <2>10. r.at = <<p, n>> /\ <<p, n>> \in Place /\ n \in Name
      BY <2>3, <2>9
  <2>11. CASE r.op = "mkdir"
    <3>1. Made(r, MkdirScript(p, n))
        BY <2>2, <2>9, <2>11 DEF ByName, mkdir
    <3>2. MkdirScript(p, n) \in Seq(Seq(Statements({<<p, n>>})))
        BY <1>1, <2>10, ScriptsFit
    <3>3. Committed(db, MkdirScript(p, n)).entry[<<p, n>>] = NextIno(db)
        BY <1>1, <2>10, EntryMade
    <3> QED
        BY <2>8, <2>10, <3>1, <3>2, <3>3
  <2>12. CASE r.op = "mknod"
    <3>1. Made(r, MknodScript(p, n))
        BY <2>2, <2>9, <2>12 DEF ByName, mknod
    <3>2. MknodScript(p, n) \in Seq(Seq(Statements({<<p, n>>})))
        BY <1>1, <2>10, ScriptsFit
    <3>3. Committed(db, MknodScript(p, n)).entry[<<p, n>>] = NextIno(db)
        BY <1>1, <2>10, EntryMade
    <3> QED
        BY <2>8, <2>10, <3>1, <3>2, <3>3
  <2>13. CASE r.op = "symlink"
    <3>1. Made(r, SymlinkScript(p, n, n))
        BY <2>2, <2>9, <2>13 DEF ByName, symlink
    <3>2. SymlinkScript(p, n, n) \in Seq(Seq(Statements({<<p, n>>})))
        BY <1>1, <2>10, ScriptsFit
    <3>3. Committed(db, SymlinkScript(p, n, n)).entry[<<p, n>>] = NextIno(db)
        BY <1>1, <2>10, EntryMade
    <3> QED
        BY <2>8, <2>10, <3>1, <3>2, <3>3
  <2>14. CASE r.op = "create"
    <3>1. create(r)
        BY <2>2, <2>14 DEF ByName
    <3>2. CASE ~Creatable(p, n)
        BY <1>4, <2>1, <2>9, <3>1, <3>2 DEF create
    <3>3. CASE Creatable(p, n)
      <4>1. PICK i, file, script : i = NextIno(db) /\ file = <<next_fh, i>> /\ script = CreateScript(p, n)
          OBVIOUS
      <4>2. Opened(r, script, {<<r.at, i>>}, i)
          BY <2>9, <3>1, <3>3, <4>1 DEF create
      <4>3. script \in Seq(Seq(Statements({r.at}))) /\ Committed(db, script).entry[r.at] = i
        <5>1. CreateScript(p, n) \in Seq(Seq(Statements({<<p, n>>})))
            BY <1>1, <2>10, ScriptsFit
        <5>2. Committed(db, CreateScript(p, n)).entry[<<p, n>>] = NextIno(db)
            BY <1>1, <2>10, EntryMade
        <5> QED
            BY <2>10, <4>1, <5>1, <5>2
      <4>4. Answer(r, script, {<<r.at, i>>}, file, <<>>)
          BY <1>3, <4>1, <4>2 DEF Opened
      <4>5. file \in File /\ i \in Nat
          BY <1>1, <1>3, <4>1 DEF File
      <4>6. db.entry[r.at] = NoIno
          BY <2>3, <2>9, <3>3 DEF Creatable, Free
      <4>7. Handled(r, {<<r.at, i>>}, file, <<>>)
          BY <1>1, <1>7, <2>3, <4>3, <4>4, <4>5, <4>6, EntryAnswered
      <4>8. FileGiven(r, file)
          BY <1>3, <2>14, <4>1, <4>2, <4>5 DEF Opened, FileGiven
      <4> QED
          BY <4>7, <4>8
    <3> QED
        BY <3>2, <3>3
  <2>15. CASE r.op = "link"
    <3>1. link(r)
        BY <2>2, <2>15 DEF ByName
    <3>2. CASE ~(Linkable(r.ino) /\ Free(p, n))
        BY <1>4, <2>1, <2>9, <3>1, <3>2 DEF link
    <3>3. CASE Linkable(r.ino) /\ Free(p, n)
      <4>1. PICK script : script = LinkScript(r.ino, p, n)
          OBVIOUS
      <4>2. Answer(r, script, {<<r.at, r.ino>>}, NoFile, <<>>) /\ UNCHANGED files
          BY <2>9, <3>1, <3>3, <4>1 DEF link, Reply, Serve
      <4>3. r.ino \in Nat
          BY DEF Request
      <4>4. script \in Seq(Seq(Statements({r.at}))) /\ Committed(db, script).entry[r.at] = r.ino
        <5>1. LinkScript(r.ino, p, n) \in Seq(Seq(Statements({<<p, n>>})))
            BY <1>1, <2>10, <4>3, ScriptsFit
        <5>2. Committed(db, LinkScript(r.ino, p, n)).entry[<<p, n>>] = r.ino
            BY <1>1, <2>10, <4>3, EntryMade
        <5> QED
            BY <2>10, <4>1, <5>1, <5>2
      <4>5. db.entry[r.at] = NoIno /\ NoFile \in File
          BY <2>3, <2>9, <3>3 DEF Free, NoFile, File, NoIno
      <4>6. Handled(r, {<<r.at, r.ino>>}, NoFile, <<>>)
          BY <1>1, <1>7, <2>3, <4>2, <4>3, <4>4, <4>5, EntryAnswered
      <4>7. FileGiven(r, NoFile)
          BY <2>1, <4>2 DEF FileGiven
      <4> QED
          BY <4>6, <4>7
    <3> QED
        BY <3>2, <3>3
  <2>16. ASSUME NEW script, Serve(r, script, {<<r.at, NoIno>>}, <<r.at>>),
                script \in Seq(Seq(Statements({r.at})))
         PROVE  Done
    <3>1. PICK X, invalid, reply : X = {r.at} /\ invalid = <<r.at>> /\ reply = {<<r.at, NoIno>>}
        OBVIOUS
    <3>2. /\ invalid \in Seq(Place) /\ X \in SUBSET Place
          /\ X = {x \in Place : Listed(x, invalid)}
        BY <2>3, <3>1 DEF Listed
    <3>3. reply \in SUBSET (Place \X Nat) /\ \A e \in reply : e[1] \in X /\ e[1][1] \in Holds(r)
        BY <2>3, <2>4, <3>1 DEF NoIno
    <3>4. Serve(r, script, reply, invalid) /\ script \in Seq(Seq(Statements(X)))
        BY <2>16, <3>1
    <3>5. r.op \in Named /\ r.op \notin OnHandle
        BY <1>7, <2>1
    <3> HIDE DEF Done
    <3>6. \E a, file, b : Handled(r, a, file, b) /\ FileGiven(r, file)
        BY <1>1, <3>2, <3>3, <3>4, <3>5, EntriesInvalid
    <3> QED
        BY <3>6 DEF Done
  <2>17. CASE r.op = "unlink"
    <3>1. unlink(r)
        BY <2>2, <2>17 DEF ByName
    <3>2. UnlinkScript(p, n) \in Seq(Seq(Statements({<<p, n>>})))
        BY <1>1, <2>10, ScriptsFit
    <3> QED
        BY <1>4, <2>1, <2>9, <2>10, <2>16, <3>1, <3>2 DEF unlink
  <2>18. CASE r.op = "rmdir"
    <3>1. rmdir(r)
        BY <2>2, <2>18 DEF ByName
    <3>2. RmdirScript(p, n) \in Seq(Seq(Statements({<<p, n>>})))
        BY <1>1, <2>10, ScriptsFit
    <3> QED
        BY <1>4, <2>1, <2>9, <2>10, <2>16, <3>1, <3>2 DEF rmdir
  <2>19. CASE r.op = "rename"
    <3>1. rename(r)
        BY <2>2, <2>19 DEF ByName
    <3>2. CASE Reply(r, <<>>, {})
        BY <1>4, <2>1, <3>2
    <3>3. CASE ~Reply(r, <<>>, {})
      <4>1. PICK q, m : q = r.to[1] /\ m = r.to[2]
          OBVIOUS
      <4>2. PICK X, invalid, reply, script :
               /\ X = {r.at, r.to} /\ invalid = <<r.at, r.to>>
               /\ reply = {<<r.at, NoIno>>, <<r.to, dcache[r.at]>>}
               /\ script = RenameScript(p, n, q, m, IsDir(db.entry[r.at]))
          OBVIOUS
      <4>3. Serve(r, script, reply, invalid)
          BY <2>9, <3>1, <3>3, <4>1, <4>2 DEF rename
      <4>4. r.to = <<q, m>> /\ <<q, m>> \in Place
          BY <2>3, <4>1
      <4>5. script \in Seq(Seq(Statements(X)))
          BY <1>1, <2>10, <4>2, <4>4, RenameFits
      <4>6. invalid \in Seq(Place) /\ X \in SUBSET Place
          BY <2>3, <4>2
      <4>7. X = {x \in Place : Listed(x, invalid)}
        <5>1. DOMAIN invalid = {1, 2} /\ invalid[1] = r.at /\ invalid[2] = r.to
            BY <4>2
        <5> QED
            BY <2>3, <4>2, <5>1 DEF Listed
      <4>8. reply \in SUBSET (Place \X Nat)
          BY <1>1, <2>3, <4>2 DEF NoIno
      <4>9. \A e \in reply : e[1] \in X /\ e[1][1] \in Holds(r)
          BY <2>19, <4>2 DEF Holds
      <4> QED
          BY <1>1, <1>7, <2>1, <4>3, <4>5, <4>6, <4>7, <4>8, <4>9, EntriesInvalid
    <3> QED
        BY <3>2, <3>3
  <2> QED
      BY <1>7, <2>6, <2>7, <2>11, <2>12, <2>13, <2>14, <2>15, <2>17, <2>18, <2>19
         DEF Named, Ops, Shared, Making, OnInode, OnHandle
<1> QED
    BY <1>5, <1>6, <1>7 DEF Named

-----------------------------------------------------------------------------
(* What keeps an entry right *)

(* Unless the entry changes without a notice.                              *)
LEMMA Stays ==
    ASSUME NEW x \in Place, NEW i, Right(x, i), Noticed(x) => Noticed(x)',
           \/ db'.entry[x] = db.entry[x] \/ db.entry[x] = NoIno \/ Noticed(x)'
    PROVE  Right(x, i)'
    BY DEF Right

(* Where table and channels stay, so does what is right.                   *)
LEMMA StaysWithChannels ==
    ASSUME UNCHANGED <<db, session, notices, journal, polled, missed>>
    PROVE  \A x, i : Right(x, i) => Right(x, i)'
    BY DEF Right, Noticed

(* What does not lag is, and will be, what the table has.                  *)
LEMMA NotLagging ==
    ASSUME NEW cache, NEW calls, NEW x \in Place, x \notin Lagging(cache, calls)
    PROVE  /\ cache[x] \in {NoIno, db.entry[x]}
           /\ \A p \in Proc : \A e \in calls[p].reply :
                 calls[p] # NoCall /\ e[1] = x => e[2] \in {NoIno, db.entry[x]}
    BY DEF Lagging

(* Entries that were missed may be forgotten once they lag no more.        *)
LEMMA StaysWhileLagging ==
    ASSUME UNCHANGED <<db, session, journal, polled>>, NEW x \in Place, NEW i,
           Right(x, i),
           \A k \in DOMAIN notices : notices[k] = x => \E l \in DOMAIN notices' : notices'[l] = x,
           NEW cache, NEW calls, missed' = missed \cap Lagging(cache, calls),
           x \notin Lagging(cache, calls) => i \in {NoIno, db.entry[x]}
    PROVE  Right(x, i)'
    BY DEF Right, Noticed

(* The call of a process that waits for nothing.                           *)
LEMMA Empty ==
    /\ NoCall \in Request /\ NoCall.op = "none" /\ ~NoCall.answered
    /\ NoCall.reply = {} /\ NoCall.file = NoFile
    BY DEF NoCall, Request, Nowhere, NoFile, NoIno, File

(* A call as it is made.                                                   *)
Starting(p, r) ==
    /\ r \in Request /\ r.op \in Ops
    /\ r.op \in Named => r.at \in Place /\ r.to \in Place
    /\ r.reply = {} /\ ~r.answered /\ r.file = NoFile
    /\ r.op \in OnHandle => held[p] # NoFile /\ r.fh = held[p][1]

(* Start makes one.                                                        *)
LEMMA CallMade ==
    ASSUME Typed, NEW p \in Proc, Start(p)
    PROVE  \E r : Call(p, r) /\ Starting(p, r)
<1>1. NoFile \in File /\ \A i \in Ino : i \in Nat
    BY TablesAssumption DEF NoFile, File, NoIno, Ino
<1>2. ASSUME NEW op \in Named, NEW x \in Place, NEW y \in Place, NEW i \in Nat
      PROVE  /\ Starting(p, [NoCall EXCEPT !.op = op, !.at = x, !.to = y])
             /\ Starting(p, [NoCall EXCEPT !.op = op, !.at = x, !.to = y, !.ino = i])
    BY <1>1, <1>2 DEF Starting, NoCall, Request, Nowhere, NoIno, Named
<1>3. ASSUME NEW x \in Place, NEW y \in Place,
             \/ /\ x = y
                /\ \E op \in {"lookup", "readdirplus"} \cup Making \cup {"unlink", "rmdir"} :
                      Call(p, [NoCall EXCEPT !.op = op, !.at = x, !.to = x])
             \/ x # y /\ Call(p, [NoCall EXCEPT !.op = "rename", !.at = x, !.to = y])
             \/ x = y /\ \E i \in Ino :
                      Call(p, [NoCall EXCEPT !.op = "link", !.at = x, !.to = x, !.ino = i])
      PROVE  \E r : Call(p, r) /\ Starting(p, r)
  <2>1. {"lookup", "readdirplus", "unlink", "rmdir", "rename", "link"} \cup Making \subseteq Named
      BY DEF Named, Ops, Shared, Making, OnInode, OnHandle
  <2> QED
      BY <1>1, <1>2, <1>3, <2>1
<1>4. ASSUME NEW op \in OnInode, NEW i \in Ino, Call(p, [NoCall EXCEPT !.op = op, !.ino = i])
      PROVE  \E r : Call(p, r) /\ Starting(p, r)
  <2>1. PICK r : r = [NoCall EXCEPT !.op = op, !.ino = i]
      OBVIOUS
  <2>2. op \in Ops /\ op \notin OnHandle /\ op \notin Named
      BY DEF Ops, Named, OnInode, OnHandle
  <2>3. Starting(p, r)
      BY <1>1, <2>1, <2>2 DEF Starting, NoCall, Request, Nowhere, NoIno
  <2> QED
      BY <1>4, <2>1, <2>3
<1>5. ASSUME NEW op \in OnHandle, held[p] # NoFile,
             Call(p, [NoCall EXCEPT !.op = op, !.fh = held[p][1], !.ino = held[p][2]])
      PROVE  \E r : Call(p, r) /\ Starting(p, r)
  <2>1. held[p][1] \in Nat /\ held[p][2] \in Nat
      BY DEF Typed, File
  <2>2. PICK r : r = [NoCall EXCEPT !.op = op, !.fh = held[p][1], !.ino = held[p][2]]
      OBVIOUS
  <2>3. op \in Ops /\ op \notin Named
      BY DEF Ops, Named
  <2>4. Starting(p, r)
      BY <1>1, <1>5, <2>1, <2>2, <2>3 DEF Starting, NoCall, Request, Nowhere, NoIno
  <2> QED
      BY <1>5, <2>2, <2>4
<1> QED
    BY <1>3, <1>4, <1>5 DEF Start

-----------------------------------------------------------------------------
(* The steps *)

(* At first nothing is cached.                                             *)
LEMMA CacheInit == Init => CacheInv
<1> SUFFICES ASSUME Init PROVE CacheInv
    OBVIOUS
<1>1. Tables(db)
  <2>1. PICK f : f = [x \in Place |-> NoIno]
      OBVIOUS
  <2>2. f \in [Place -> Nat]
      BY <2>1 DEF NoIno
  <2>3. db.entry = f /\ db.last = Root
      BY <2>1 DEF Init, DbInit
  <2>4. db = [kind |-> db.kind, nlink |-> db.nlink, entry |-> db.entry, target |-> db.target,
              last |-> db.last]
      BY DEF Init, DbInit
  <2> QED
      BY <2>2, <2>3, <2>4 DEF Tables, Root
<1>2. Typed
  <2>1. /\ dcache \in [Place -> Nat] /\ call \in [Proc -> Request] /\ held \in [Proc -> File]
        /\ \A p \in Proc : call[p] = NoCall /\ call[p].op \notin Named
      BY Empty DEF Init, NoIno, NoFile, File, Named, Ops, Shared, Making, OnInode, OnHandle
  <2>2. polled \in Int /\ -1 <= polled /\ polled <= Len(journal)
      BY DEF Init, NoBaseline
  <2> QED
      BY <1>1, <2>1, <2>2 DEF Typed, Init
<1>3. Tabled
    BY DEF Init, Tabled
<1>4. Queued
    BY DEF Init, Queued
<1>5. CacheRight
    BY DEF Init, CacheRight, Right
<1>6. RepliesRight
    BY Empty DEF Init, RepliesRight
<1> QED
    BY <1>2, <1>3, <1>4, <1>5, <1>6 DEF CacheInv

(* A call is made: nobody was in the queue for it.                         *)
LEMMA CacheStart ==
    ASSUME CacheInv, NEW p \in Proc, Start(p)
    PROVE  CacheInv'
<1>1. PICK r : Call(p, r) /\ Starting(p, r)
    BY CallMade DEF CacheInv
<1>2. /\ UNCHANGED <<db, dcache, held, open_files, next_fh, session, notices, journal, polled, missed>>
      /\ call' = [call EXCEPT ![p] = r] /\ queue' = Append(queue, p) /\ call[p] = NoCall
    BY <1>1 DEF Call, files
<1>3. r.op # "none" /\ r # NoCall
    BY <1>1, Empty DEF Starting, Ops, Shared, Making, OnInode, OnHandle
<1>4. Typed'
  <2>1. /\ call' \in [Proc -> Request] /\ queue' \in Seq(Proc \cup Nat)
        /\ \A q \in Proc : call'[q] = IF q = p THEN r ELSE call[q]
      BY <1>1, <1>2 DEF CacheInv, Typed, Starting
  <2>2. \A q \in Proc : /\ call'[q].op \in Named => call'[q].at \in Place /\ call'[q].to \in Place
                        /\ call'[q].op = "none" => call'[q] = NoCall
      BY <1>1, <1>3, <2>1 DEF CacheInv, Typed, Starting
  <2> QED
      BY <1>2, <2>1, <2>2 DEF CacheInv, Typed
<1>5. Tabled'
    BY <1>2 DEF CacheInv, Tabled
<1>6. Queued'
  <2>1. PICK n \in Nat : n = Len(queue)
      BY DEF CacheInv, Typed
  <2>2. /\ DOMAIN queue = 1..n /\ DOMAIN queue' = 1..(n + 1)
        /\ \A k \in 1..(n + 1) : queue'[k] = IF k = n + 1 THEN p ELSE queue[k]
      BY <1>2, <2>1 DEF CacheInv, Typed
  <2>3. \A k \in 1..n : queue[k] # p
      BY <1>2, <2>2 DEF CacheInv, Queued
  <2>4. \A q \in Proc : call'[q] = IF q = p THEN r ELSE call[q]
      BY <1>2 DEF CacheInv, Typed
  <2>5. \A k \in DOMAIN queue' :
           queue'[k] \in Proc => call'[queue'[k]] # NoCall /\ ~call'[queue'[k]].answered
    <3> SUFFICES ASSUME NEW k \in 1..(n + 1), queue'[k] \in Proc
                 PROVE  call'[queue'[k]] # NoCall /\ ~call'[queue'[k]].answered
        BY <2>2
    <3>1. CASE k = n + 1
        BY <1>1, <1>3, <2>2, <2>4, <3>1 DEF Starting
    <3>2. CASE k # n + 1
      <4>1. k \in 1..n /\ queue'[k] = queue[k]
          BY <2>2, <3>2
      <4> QED
          BY <2>2, <2>3, <2>4, <4>1 DEF CacheInv, Queued
    <3> QED
        BY <3>1, <3>2
  <2>6. \A k, l \in DOMAIN queue' : queue'[k] = queue'[l] /\ queue'[k] \in Proc => k = l
      BY <2>2, <2>3 DEF CacheInv, Queued
  <2> QED
      BY <2>5, <2>6 DEF Queued
<1>7. \A x, i : Right(x, i) => Right(x, i)'
    BY <1>2, StaysWithChannels
<1>8. CacheRight'
    BY <1>2, <1>7 DEF CacheInv, CacheRight
<1>9. RepliesRight'
  <2> SUFFICES ASSUME NEW q \in Proc, NEW e \in call'[q].reply
               PROVE  /\ call'[q].answered /\ call'[q].op \in Named
                      /\ e[1][1] \in Holds(call'[q]) /\ Right(e[1], e[2])'
      BY DEF RepliesRight
  <2>1. call'[q] = call[q]
      BY <1>1, <1>2 DEF CacheInv, Typed, Starting
  <2> QED
      BY <1>7, <2>1 DEF CacheInv, RepliesRight
<1> QED
    BY <1>4, <1>5, <1>6, <1>8, <1>9 DEF CacheInv

(* Steps that leave the cache, the calls and the channels alone.           *)
LEMMA CacheElsewhere ==
    ASSUME CacheInv,
           UNCHANGED <<db, dcache, call, session, notices, journal, polled, missed>>,
           Typed', Tabled', Queued'
    PROVE  CacheInv'
<1>1. \A x, i : Right(x, i) => Right(x, i)'
    BY StaysWithChannels
<1>2. CacheRight'
    BY <1>1 DEF CacheInv, CacheRight
<1>3. RepliesRight'
  <2> SUFFICES ASSUME NEW q \in Proc, NEW e \in call'[q].reply
               PROVE  /\ call'[q].answered /\ call'[q].op \in Named
                      /\ e[1][1] \in Holds(call'[q]) /\ Right(e[1], e[2])'
      BY DEF RepliesRight
  <2> QED
      BY <1>1 DEF CacheInv, RepliesRight
<1> QED
    BY <1>2, <1>3 DEF CacheInv

(* A release is in the queue as a number, and is no process.               *)
LEMMA CacheClose ==
    ASSUME CacheInv, NEW p \in Proc, Close(p)
    PROVE  CacheInv'
<1>1. /\ UNCHANGED <<db, dcache, call, open_files, next_fh, session, notices, journal, polled, missed>>
      /\ queue' = Append(queue, held[p][1]) /\ held' = [held EXCEPT ![p] = NoFile]
    BY DEF Close, files
<1>2. held[p][1] \in Nat /\ NoFile \in File
    BY DEF CacheInv, Typed, File, NoFile, NoIno
<1>3. Typed'
  <2>1. held' \in [Proc -> File] /\ queue' \in Seq(Proc \cup Nat)
      BY <1>1, <1>2 DEF CacheInv, Typed
  <2> QED
      BY <1>1, <2>1 DEF CacheInv, Typed
<1>4. Queued'
  <2>1. PICK n \in Nat : n = Len(queue)
      BY DEF CacheInv, Typed
  <2>2. /\ DOMAIN queue = 1..n /\ DOMAIN queue' = 1..(n + 1)
        /\ \A k \in 1..(n + 1) : queue'[k] = IF k = n + 1 THEN held[p][1] ELSE queue[k]
      BY <1>1, <1>2, <2>1 DEF CacheInv, Typed
  <2>3. held[p][1] \notin Proc
      BY <1>2, FuseAssumption
  <2> QED
      BY <1>1, <2>2, <2>3 DEF CacheInv, Queued
<1>5. Tabled'
    BY <1>1 DEF CacheInv, Tabled
<1> QED
    BY <1>1, <1>3, <1>4, <1>5, CacheElsewhere

(* What is installed was right, and what lags is still missed.             *)
LEMMA CacheFinish ==
    ASSUME CacheInv, NEW p \in Proc, Finish(p)
    PROVE  CacheInv'
<1>1. /\ UNCHANGED <<db, queue, open_files, next_fh, session, notices, journal, polled>>
      /\ call[p] # NoCall /\ call[p].answered
      /\ dcache' = Installed(call[p].reply)
      /\ held' = [held EXCEPT ![p] = IF call[p].op \in {"open", "create"}
                                     THEN call[p].file ELSE @]
      /\ call' = [call EXCEPT ![p] = NoCall]
      /\ missed' = missed \cap Lagging(dcache', call')
    BY DEF Finish, files
<1>2. \A q \in Proc : call'[q] = IF q = p THEN NoCall ELSE call[q]
    BY <1>1 DEF CacheInv, Typed
<1>3. PICK cache, calls : cache = dcache' /\ calls = call'
    OBVIOUS
<1>4. ASSUME NEW x \in Place
      PROVE  dcache'[x] \in Nat /\ Right(x, dcache'[x])
  <2>1. CASE \E e \in call[p].reply : e[1] = x
    <3>1. PICK e : e \in call[p].reply /\ e[1] = x /\ dcache'[x] = e[2]
        BY <1>1, <2>1 DEF Installed
    <3>2. call[p].reply \in SUBSET (Place \X Nat)
        BY DEF CacheInv, Typed, Request
    <3>3. Right(e[1], e[2])
        BY <3>1 DEF CacheInv, RepliesRight
    <3> QED
        BY <3>1, <3>2, <3>3
  <2>2. CASE ~\E e \in call[p].reply : e[1] = x
    <3>1. dcache'[x] = dcache[x]
        BY <1>1, <2>2 DEF Installed
    <3> QED
        BY <3>1 DEF CacheInv, CacheRight, Typed
  <2> QED
      BY <2>1, <2>2
<1>5. Typed'
  <2>1. dcache' \in [Place -> Nat]
    <3>1. dcache' = [x \in Place |-> dcache'[x]]
        BY <1>1 DEF Installed
    <3> QED
        BY <1>4, <3>1
  <2>2. call' \in [Proc -> Request] /\ held' \in [Proc -> File]
      BY <1>1, Empty DEF CacheInv, Typed, Request
  <2>3. \A q \in Proc : /\ call'[q].op \in Named => call'[q].at \in Place /\ call'[q].to \in Place
                        /\ call'[q].op = "none" => call'[q] = NoCall
    <3>1. "none" \notin Named
        BY DEF Named, Ops, Shared, Making, OnInode, OnHandle
    <3> QED
        BY <1>2, <3>1, Empty DEF CacheInv, Typed
  <2> QED
      BY <1>1, <2>1, <2>2, <2>3 DEF CacheInv, Typed
<1>6. Tabled'
    BY <1>1 DEF CacheInv, Tabled
<1>7. Queued'
  <2>1. \A k \in DOMAIN queue : queue[k] \in Proc => queue[k] # p
      BY <1>1 DEF CacheInv, Queued
  <2> QED
      BY <1>1, <1>2, <2>1 DEF CacheInv, Queued
<1>8. ASSUME NEW x \in Place, NEW i, Right(x, i),
             x \notin Lagging(cache, calls) => i \in {NoIno, db.entry[x]}
      PROVE  Right(x, i)'
    BY <1>1, <1>3, <1>8, StaysWhileLagging
<1>9. ASSUME NEW x \in Place PROVE Right(x, dcache[x])'
  <2>1. PICK i : i = dcache'[x]
      OBVIOUS
  <2>2. Right(x, i)
      BY <1>4, <2>1
  <2>3. x \notin Lagging(cache, calls) => i \in {NoIno, db.entry[x]}
      BY <1>3, <2>1, NotLagging
  <2>4. Right(x, i)'
      BY <1>8, <2>2, <2>3
  <2> QED
      BY <2>1, <2>4 DEF Right
<1>10. RepliesRight'
  <2> SUFFICES ASSUME NEW q \in Proc, NEW e \in call'[q].reply
               PROVE  /\ call'[q].answered /\ call'[q].op \in Named
                      /\ e[1][1] \in Holds(call'[q]) /\ Right(e[1], e[2])'
      BY DEF RepliesRight
  <2>1. q # p /\ call'[q] = call[q]
      BY <1>2, Empty
  <2>2. PICK x, i : x = e[1] /\ i = e[2]
      OBVIOUS
  <2>3. x \in Place
      BY <2>1, <2>2 DEF CacheInv, Typed, Request
  <2>4. /\ call[q].answered /\ call[q].op \in Named
        /\ e[1][1] \in Holds(call[q]) /\ Right(x, i)
      BY <2>1, <2>2 DEF CacheInv, RepliesRight
  <2>5. x \notin Lagging(cache, calls) => i \in {NoIno, db.entry[x]}
    <3>1. call[q] # NoCall
        BY <2>4, Empty
    <3> QED
        BY <1>3, <2>1, <2>2, <2>3, <3>1, NotLagging
  <2>6. Right(x, i)'
      BY <1>8, <2>3, <2>4, <2>5
  <2> QED
      BY <2>1, <2>2, <2>4, <2>6
<1> QED
    BY <1>5, <1>6, <1>7, <1>9, <1>10 DEF CacheInv, CacheRight

(* Nobody waits for the directory of the entry, so no answer is about it.  *)
LEMMA NoneAbout ==
    ASSUME CacheInv, NEW y \in Place, LockFree(y[1]),
           NEW p \in Proc, NEW e \in call[p].reply
    PROVE  e[1] # y
<1> SUFFICES ASSUME e[1] = y PROVE FALSE
    OBVIOUS
<1>1. call[p].answered /\ call[p].op \in Named /\ y[1] \in Holds(call[p])
    BY DEF CacheInv, RepliesRight
<1>2. p \in Calling
    BY <1>1, Empty DEF Calling
<1>3. Holds(call[p]) \subseteq Locks(call[p])
    BY <1>1 DEF Holds, Locks, Named, OnInode, OnHandle, Ops, Shared, Making
<1> QED
    BY <1>1, <1>2, <1>3 DEF LockFree

(* An entry is dropped, and with it the notice of it.                      *)
LEMMA CacheDrops ==
    ASSUME CacheInv, NEW y \in Place, LockFree(y[1]),
           UNCHANGED <<db, call, queue, held, open_files, next_fh, session, journal, polled>>,
           dcache' = [dcache EXCEPT ![y] = NoIno],
           missed' = missed \cap Lagging(dcache', call),
           notices' \in Seq(Place),
           \A x \in Place \ {y} : Listed(x, notices) => Listed(x, notices')
    PROVE  CacheInv'
<1>1. PICK cache, calls : cache = dcache' /\ calls = call
    OBVIOUS
<1>2. \A x \in Place : dcache'[x] = IF x = y THEN NoIno ELSE dcache[x]
    BY DEF CacheInv, Typed
<1>3. Typed'
  <2>1. dcache' \in [Place -> Nat]
      BY DEF CacheInv, Typed, NoIno
  <2> QED
      BY <2>1 DEF CacheInv, Typed
<1>4. Tabled' /\ Queued'
    BY DEF CacheInv, Tabled, Queued
<1>5. ASSUME NEW x \in Place \ {y}, NEW i, Right(x, i),
             x \notin Lagging(cache, calls) => i \in {NoIno, db.entry[x]}
      PROVE  Right(x, i)'
  <2>1. \A k \in DOMAIN notices : notices[k] = x => \E l \in DOMAIN notices' : notices'[l] = x
      BY DEF Listed
  <2> QED
      BY <1>1, <1>5, <2>1, StaysWhileLagging
<1>6. ASSUME NEW x \in Place PROVE Right(x, dcache[x])'
  <2>1. CASE x = y
      BY <1>2, <2>1 DEF Right
  <2>2. CASE x # y
    <3>1. PICK i : i = dcache'[x] /\ i = dcache[x]
        BY <1>2, <2>2
    <3>2. Right(x, i)
        BY <3>1 DEF CacheInv, CacheRight
    <3>3. ASSUME x \notin Lagging(cache, calls) PROVE i \in {NoIno, db.entry[x]}
      <4>1. cache[x] \in {NoIno, db.entry[x]}
          BY <3>3, NotLagging
      <4> QED
          BY <1>1, <3>1, <4>1
    <3>4. Right(x, i)'
        BY <1>5, <2>2, <3>2, <3>3
    <3> QED
        BY <3>1, <3>4 DEF Right
  <2> QED
      BY <2>1, <2>2
<1>7. RepliesRight'
  <2> SUFFICES ASSUME NEW q \in Proc, NEW e \in call[q].reply
               PROVE  /\ call[q].answered /\ call[q].op \in Named
                      /\ e[1][1] \in Holds(call[q]) /\ Right(e[1], e[2])'
      BY DEF RepliesRight
  <2>1. PICK x, i : x = e[1] /\ i = e[2]
      OBVIOUS
  <2>2. x \in Place /\ x # y
      BY <2>1, NoneAbout DEF CacheInv, Typed, Request
  <2>3. /\ call[q].answered /\ call[q].op \in Named
        /\ e[1][1] \in Holds(call[q]) /\ Right(x, i)
      BY <2>1 DEF CacheInv, RepliesRight
  <2>4. x \notin Lagging(cache, calls) => i \in {NoIno, db.entry[x]}
    <3>1. call[q] # NoCall
        BY <2>3, Empty
    <3> QED
        BY <1>1, <2>1, <2>2, <3>1, NotLagging
  <2>5. Right(x, i)'
      BY <1>5, <2>2, <2>3, <2>4
  <2> QED
      BY <2>1, <2>3, <2>5
<1> QED
    BY <1>3, <1>4, <1>6, <1>7 DEF CacheInv, CacheRight

(* Memory pressure drops an entry.                                         *)
LEMMA CacheExpire ==
    ASSUME CacheInv, NEW y \in Place, Expire(y)
    PROVE  CacheInv'
<1>1. notices' \in Seq(Place) /\ notices' = notices
    BY DEF CacheInv, Typed, Expire
<1> QED
    BY <1>1, CacheDrops DEF Expire, files

(* The notify thread drops the entry of the oldest notice.                 *)
LEMMA CacheInvalidate ==
    ASSUME CacheInv, Invalidate
    PROVE  CacheInv'
<1>1. PICK n \in Nat : n = Len(notices) /\ notices \in Seq(Place) /\ n # 0
    BY DEF CacheInv, Typed, Invalidate
<1>2. PICK y : y = Head(notices)
    OBVIOUS
<1>3. /\ y \in Place /\ y = notices[1] /\ notices' = Tail(notices) /\ notices' \in Seq(Place)
      /\ DOMAIN notices = 1..n /\ DOMAIN notices' = 1..(n - 1)
      /\ \A k \in 1..(n - 1) : notices'[k] = notices[k + 1]
    BY <1>1, <1>2 DEF Invalidate
<1>4. ASSUME NEW x \in Place \ {y}, Listed(x, notices) PROVE Listed(x, notices')
  <2>1. PICK k \in 1..n : notices[k] = x
      BY <1>3, <1>4 DEF Listed
  <2>2. k - 1 \in 1..(n - 1) /\ (k - 1) + 1 = k
      BY <1>3, <2>1
  <2>3. notices'[k - 1] = x
      BY <1>3, <2>1, <2>2
  <2> QED
      BY <1>3, <2>2, <2>3 DEF Listed
<1> QED
    BY <1>2, <1>3, <1>4, CacheDrops DEF Invalidate, files

(* The end of the mount takes calls and answers away.                      *)
LEMMA CacheUnmount ==
    ASSUME CacheInv, Unmount
    PROVE  CacheInv'
<1>1. /\ UNCHANGED <<db, dcache, open_files, next_fh, session, notices, journal, polled, missed>>
      /\ call' = [p \in Proc |-> NoCall] /\ queue' = <<>> /\ held' = [p \in Proc |-> NoFile]
    BY DEF Unmount, files
<1>2. Typed'
  <2>1. /\ call' \in [Proc -> Request] /\ held' \in [Proc -> File]
        /\ \A p \in Proc : call'[p] = NoCall /\ call'[p].op \notin Named
      BY <1>1, Empty DEF NoIno, NoFile, File, Named, Ops, Shared, Making, OnInode, OnHandle
  <2> QED
      BY <1>1, <2>1 DEF CacheInv, Typed
<1>3. Tabled' /\ Queued'
    BY <1>1 DEF CacheInv, Tabled, Queued
<1>4. \A x, i : Right(x, i) => Right(x, i)'
    BY <1>1, StaysWithChannels
<1>5. CacheRight' /\ RepliesRight'
    BY <1>1, <1>4, Empty DEF CacheInv, CacheRight, RepliesRight
<1> QED
    BY <1>2, <1>3, <1>5 DEF CacheInv

(* The steps that only change phases.                                      *)
LEMMA CacheIdle ==
    ASSUME CacheInv, init \/ Return \/ PollerGivesUp \/ UNCHANGED vars
    PROVE  CacheInv'
<1>1. /\ UNCHANGED <<db, dcache, call, queue, held, next_fh, session, notices, journal, polled, missed>>
      /\ open_files' \in {open_files, <<>>}
    BY DEF init, Return, PollerGivesUp, vars, files
<1>2. Typed' /\ Queued'
    BY <1>1 DEF CacheInv, Typed, Queued
<1>3. Tabled'
  <2>1. CASE open_files' = open_files
      BY <1>1, <2>1 DEF CacheInv, Tabled
  <2>2. CASE open_files' = <<>>
    <3>1. DOMAIN open_files' = {} /\ open_files' = [fh \in {} |-> open_files'[fh]]
        BY <2>2
    <3> QED
        BY <1>1, <3>1 DEF CacheInv, Tabled
  <2> QED
      BY <1>1, <2>1, <2>2
<1> QED
    BY <1>1, <1>2, <1>3, CacheElsewhere

(* Steps that change neither the cache nor the calls and lose no notice.   *)
LEMMA CacheCarried ==
    ASSUME CacheInv, Typed', UNCHANGED <<dcache, call, queue, open_files, next_fh>>,
           \A x \in Place : Noticed(x) => Noticed(x)',
           \A x \in Place : \/ db'.entry[x] = db.entry[x] \/ db.entry[x] = NoIno
                            \/ Noticed(x)'
    PROVE  CacheInv'
<1>1. ASSUME NEW x \in Place, NEW i, Right(x, i) PROVE Right(x, i)'
    BY <1>1, Stays
<1>2. Tabled' /\ Queued'
    BY DEF CacheInv, Tabled, Queued
<1>3. CacheRight'
    BY <1>1 DEF CacheInv, CacheRight
<1>4. RepliesRight'
  <2> SUFFICES ASSUME NEW q \in Proc, NEW e \in call[q].reply
               PROVE  /\ call[q].answered /\ call[q].op \in Named
                      /\ e[1][1] \in Holds(call[q]) /\ Right(e[1], e[2])'
      BY DEF RepliesRight
  <2>1. e[1] \in Place
      BY DEF CacheInv, Typed, Request
  <2> QED
      BY <1>1, <2>1 DEF CacheInv, RepliesRight
<1> QED
    BY <1>2, <1>3, <1>4 DEF CacheInv

(* What is listed in one of two sequences is in both together.             *)
LEMMA ListedAfter ==
    ASSUME NEW S, NEW s \in Seq(S), NEW t \in Seq(S)
    PROVE  /\ s \o t \in Seq(S)
           /\ \A x : Listed(x, s) \/ Listed(x, t) => Listed(x, s \o t)
           /\ Len(s \o t) = Len(s) + Len(t)
           /\ \A k \in 1..Len(s) : (s \o t)[k] = s[k]
           /\ \A k \in 1..Len(t) : (s \o t)[Len(s) + k] = t[k]
<1>1. PICK n \in Nat : n = Len(s) /\ DOMAIN s = 1..n
    OBVIOUS
<1>2. PICK m \in Nat : m = Len(t) /\ DOMAIN t = 1..m
    OBVIOUS
<1>3. PICK u : u = s \o t
    OBVIOUS
<1>4. /\ u \in Seq(S) /\ Len(u) = n + m /\ DOMAIN u = 1..(n + m)
      /\ \A k \in 1..n : u[k] = s[k]
      /\ \A k \in 1..m : u[n + k] = t[k]
    BY <1>1, <1>2, <1>3
<1>5. ASSUME NEW x, Listed(x, s) PROVE Listed(x, u)
  <2>1. PICK k \in 1..n : s[k] = x
      BY <1>1, <1>5 DEF Listed
  <2>2. k \in 1..(n + m) /\ u[k] = x
      BY <1>4, <2>1
  <2> QED
      BY <1>4, <2>2 DEF Listed
<1>6. ASSUME NEW x, Listed(x, t) PROVE Listed(x, u)
  <2>1. PICK k \in 1..m : t[k] = x
      BY <1>2, <1>6 DEF Listed
  <2>2. n + k \in 1..(n + m) /\ u[n + k] = x
      BY <1>4, <2>1
  <2> QED
      BY <1>4, <2>2 DEF Listed
<1> QED
    BY <1>1, <1>2, <1>3, <1>4, <1>5, <1>6

(* Noticed by the sequences it is about.                                   *)
LEMMA NoticedIs ==
    \A x : Noticed(x) <=> \/ Listed(x, notices) \/ Listed(x, session) \/ x \in missed
                          \/ \E k \in DOMAIN journal : k > polled /\ journal[k] = x
    BY DEF Noticed, Listed

(* Notices move to the channel.                                            *)
LEMMA CacheAnnounce ==
    ASSUME CacheInv, Announce
    PROVE  CacheInv'
<1>1. /\ UNCHANGED <<db, dcache, call, queue, held, open_files, next_fh, journal, polled, missed>>
      /\ notices' = notices \o session /\ session' = <<>>
    BY DEF Announce, files
<1>2. notices \in Seq(Place) /\ session \in Seq(Place)
    BY DEF CacheInv, Typed
<1>3. notices' \in Seq(Place) /\ session' \in Seq(Place)
    BY <1>1, <1>2, ListedAfter
<1>4. Typed'
    BY <1>1, <1>3 DEF CacheInv, Typed
<1>5. \A x : Listed(x, notices) \/ Listed(x, session) => Listed(x, notices')
    BY <1>1, <1>2, ListedAfter
<1>6. \A x : Noticed(x) => Noticed(x)'
    BY <1>1, <1>5 DEF Noticed, Listed
<1> QED
    BY <1>1, <1>4, <1>6, CacheCarried

(* Rows that are read become notices.                                      *)
LEMMA CachePoll ==
    ASSUME CacheInv, Poll
    PROVE  CacheInv'
<1>1. PICK last \in polled + 1..Len(journal) :
         /\ notices' = notices \o SubSeq(journal, polled + 1, last)
         /\ polled' = last
    BY DEF Poll
<1>2. /\ UNCHANGED <<db, dcache, call, queue, held, open_files, next_fh, session, journal, missed>>
      /\ polled \in Nat /\ last \in Nat /\ polled < last /\ last <= Len(journal)
      /\ journal \in Seq(Place) /\ notices \in Seq(Place)
    BY <1>1 DEF Poll, files, CacheInv, Typed
<1>3. PICK rows : rows = SubSeq(journal, polled + 1, last)
    OBVIOUS
<1>4. PICK n \in Nat : n = last - polled
    BY <1>2
<1>5. /\ rows \in Seq(Place) /\ DOMAIN rows = 1..n
      /\ \A k \in 1..n : rows[k] = journal[polled + k]
    BY <1>2, <1>3, <1>4
<1>6. notices' \in Seq(Place) /\ \A x : Listed(x, notices) \/ Listed(x, rows) => Listed(x, notices')
    BY <1>1, <1>2, <1>3, <1>5, ListedAfter
<1>7. Typed'
    BY <1>1, <1>2, <1>6 DEF CacheInv, Typed
<1>8. ASSUME NEW x \in Place, Noticed(x) PROVE Noticed(x)'
  <2>1. CASE \E k \in DOMAIN journal : k > polled /\ journal[k] = x
    <3>1. PICK k \in DOMAIN journal : k > polled /\ journal[k] = x
        BY <2>1
    <3>2. k \in Nat
        BY <1>2, <3>1
    <3>3. CASE k <= last
      <4>1. k - polled \in 1..n /\ polled + (k - polled) = k
          BY <1>2, <1>4, <3>1, <3>2, <3>3
      <4>2. rows[k - polled] = x
          BY <1>5, <3>1, <4>1
      <4>3. Listed(x, notices')
          BY <1>5, <1>6, <4>1, <4>2 DEF Listed
      <4> QED
          BY <4>3 DEF Noticed, Listed
    <3>4. CASE k > last
        BY <1>1, <1>2, <3>1, <3>4 DEF Noticed
    <3> QED
        BY <1>2, <3>2, <3>3, <3>4
  <2>2. CASE Listed(x, notices)
    <3>1. Listed(x, notices')
        BY <1>6, <2>2
    <3> QED
        BY <3>1 DEF Noticed, Listed
  <2>3. CASE Listed(x, session) \/ x \in missed
      BY <1>2, <2>3 DEF Noticed, Listed
  <2> QED
      BY <1>8, <2>1, <2>2, <2>3, NoticedIs
<1> QED
    BY <1>2, <1>7, <1>8, CacheCarried

(* The first query skips the rows there are: what lags is missed.          *)
LEMMA CacheBaseline ==
    ASSUME CacheInv, Baseline
    PROVE  CacheInv'
<1>1. /\ UNCHANGED <<db, dcache, call, queue, held, open_files, next_fh, session, notices, journal>>
      /\ polled' = Len(journal) /\ missed' = Lagging(dcache, call)
    BY DEF Baseline, files
<1>2. PICK cache, calls : cache = dcache /\ calls = call
    OBVIOUS
<1>3. Typed'
    BY <1>1 DEF CacheInv, Typed
<1>4. Tabled' /\ Queued'
    BY <1>1 DEF CacheInv, Tabled, Queued
<1>5. ASSUME NEW x \in Place, NEW i, x \notin Lagging(cache, calls) => i \in {NoIno, db.entry[x]}
      PROVE  Right(x, i)'
    BY <1>1, <1>2, <1>5 DEF Right, Noticed
<1>6. ASSUME NEW x \in Place PROVE Right(x, dcache[x])'
  <2>1. PICK i : i = dcache[x]
      OBVIOUS
  <2>2. x \notin Lagging(cache, calls) => i \in {NoIno, db.entry[x]}
      BY <1>2, <2>1, NotLagging
  <2>3. Right(x, i)'
      BY <1>5, <2>2
  <2> QED
      BY <1>1, <2>1, <2>3 DEF Right
<1>7. RepliesRight'
  <2> SUFFICES ASSUME NEW q \in Proc, NEW e \in call[q].reply
               PROVE  /\ call[q].answered /\ call[q].op \in Named
                      /\ e[1][1] \in Holds(call[q]) /\ Right(e[1], e[2])'
      BY <1>1 DEF RepliesRight
  <2>1. PICK x, i : x = e[1] /\ i = e[2]
      OBVIOUS
  <2>2. x \in Place
      BY <2>1 DEF CacheInv, Typed, Request
  <2>3. /\ call[q].answered /\ call[q].op \in Named /\ e[1][1] \in Holds(call[q])
      BY DEF CacheInv, RepliesRight
  <2>4. x \notin Lagging(cache, calls) => i \in {NoIno, db.entry[x]}
    <3>1. call[q] # NoCall
        BY <2>3, Empty
    <3> QED
        BY <1>2, <2>1, <2>2, <3>1, NotLagging
  <2>5. Right(x, i)'
      BY <1>5, <2>2, <2>4
  <2> QED
      BY <2>1, <2>3, <2>5
<1> QED
    BY <1>3, <1>4, <1>6, <1>7 DEF CacheInv, CacheRight

(* The Worker journals every entry it changes.                             *)
LEMMA CacheWrite ==
    ASSUME CacheInv, NEW script, NEW rows \in Seq(Place), NEW X \in SUBSET Place,
           script \in Seq(Seq(Statements(X))), \A x \in X : Listed(x, rows),
           Write(script, rows)
    PROVE  CacheInv'
<1>1. /\ UNCHANGED <<dcache, call, queue, held, open_files, next_fh, session, notices, polled, missed>>
      /\ db' = Committed(db, script) /\ journal' = journal \o rows
    BY DEF Write, files
<1>2. Tables(db) /\ journal \in Seq(Place) /\ polled \in Int /\ polled <= Len(journal)
    BY DEF CacheInv, Typed
<1>3. Tables(db') /\ \A y \in Place \ X : db'.entry[y] = db.entry[y]
    BY <1>1, <1>2, CommittedKeeps
<1>4. PICK n \in Nat, m \in Nat : n = Len(journal) /\ m = Len(rows)
    BY <1>2
<1>5. /\ journal' \in Seq(Place) /\ Len(journal') = n + m
      /\ DOMAIN journal = 1..n /\ DOMAIN journal' = 1..(n + m) /\ DOMAIN rows = 1..m
      /\ \A k \in 1..n : journal'[k] = journal[k]
      /\ \A k \in 1..m : journal'[n + k] = rows[k]
    BY <1>1, <1>2, <1>4, ListedAfter
<1>6. Typed'
    BY <1>1, <1>2, <1>3, <1>4, <1>5 DEF CacheInv, Typed
<1>7. ASSUME NEW x \in Place, Noticed(x) PROVE Noticed(x)'
  <2>1. CASE \E k \in DOMAIN journal : k > polled /\ journal[k] = x
    <3>1. PICK k \in 1..n : k > polled /\ journal[k] = x
        BY <1>5, <2>1
    <3>2. k \in 1..(n + m) /\ journal'[k] = x /\ k > polled'
        BY <1>1, <1>5, <3>1
    <3> QED
        BY <1>5, <3>2 DEF Noticed
  <2>2. CASE Listed(x, notices) \/ Listed(x, session) \/ x \in missed
      BY <1>1, <2>2 DEF Noticed, Listed
  <2> QED
      BY <1>7, <2>1, <2>2, NoticedIs
<1>8. ASSUME NEW x \in X PROVE Noticed(x)'
  <2>1. PICK k \in 1..m : rows[k] = x
      BY <1>5 DEF Listed
  <2>2. n + k \in 1..(n + m) /\ journal'[n + k] = x /\ n + k > polled'
      BY <1>1, <1>2, <1>4, <1>5, <2>1
  <2> QED
      BY <1>5, <2>2 DEF Noticed
<1> QED
    BY <1>1, <1>3, <1>6, <1>7, <1>8, CacheCarried

(* Every mutation of the Worker is such a write.                           *)
LEMMA CacheWorker ==
    ASSUME CacheInv, Worker
    PROVE  CacheInv'
<1>1. PICK p \in Ino, n \in Name :
         \/ WorkerCreate(p, n) \/ WorkerRemove(p, n)
         \/ \E q \in Ino, m \in Name : WorkerRename(p, n, q, m)
    BY DEF Worker
<1>2. Tables(db) /\ <<p, n>> \in Place
    BY DEF CacheInv, Typed, Place
<1>3. ASSUME NEW script, Write(script, <<<<p, n>>>>), script \in Seq(Seq(Statements({<<p, n>>})))
      PROVE  CacheInv'
  <2>1. PICK rows, X : rows = <<<<p, n>>>> /\ X = {<<p, n>>}
      OBVIOUS
  <2>2. rows \in Seq(Place) /\ X \in SUBSET Place /\ \A x \in X : Listed(x, rows)
      BY <1>2, <2>1 DEF Listed
  <2> QED
      BY <1>3, <2>1, <2>2, CacheWrite
<1>4. CASE WorkerCreate(p, n)
    BY <1>2, <1>3, <1>4, ScriptsFit DEF WorkerCreate
<1>5. CASE WorkerRemove(p, n)
    BY <1>2, <1>3, <1>5, ScriptsFit DEF WorkerRemove
<1>6. ASSUME NEW q \in Ino, NEW m \in Name, WorkerRename(p, n, q, m) PROVE CacheInv'
  <2>1. PICK rows, X, script : /\ rows = <<<<p, n>>, <<q, m>>>> /\ X = {<<p, n>>, <<q, m>>}
                               /\ script = RenameScript(p, n, q, m, FALSE)
      OBVIOUS
  <2>2. <<q, m>> \in Place
      BY DEF Place
  <2>3. rows \in Seq(Place) /\ X \in SUBSET Place
      BY <1>2, <2>1, <2>2
  <2>4. \A x \in X : Listed(x, rows)
    <3>1. DOMAIN rows = {1, 2} /\ rows[1] = <<p, n>> /\ rows[2] = <<q, m>>
        BY <2>1
    <3> QED
        BY <2>1, <3>1 DEF Listed
  <2>5. script \in Seq(Seq(Statements(X)))
      BY <1>2, <2>1, <2>2, RenameFits
  <2>6. Write(script, rows)
      BY <1>6, <2>1 DEF WorkerRename
  <2> QED
      BY <2>3, <2>4, <2>5, <2>6, CacheWrite
<1> QED
    BY <1>1, <1>4, <1>5, <1>6

(* The head of the queue is taken from it.                                 *)
LEMMA Taken ==
    ASSUME NEW S, NEW s \in Seq(S), s # <<>>
    PROVE  /\ Head(s) \in S /\ Head(s) = s[1] /\ 1 \in DOMAIN s
           /\ Tail(s) \in Seq(S)
           /\ \A k \in DOMAIN Tail(s) : /\ k \in Nat \ {0} /\ k + 1 \in DOMAIN s /\ k + 1 # 1
                                        /\ Tail(s)[k] = s[k + 1]
    OBVIOUS

(* A release answers nobody.                                               *)
LEMMA CacheRelease ==
    ASSUME CacheInv, dispatch, NEW fh, release(fh)
    PROVE  CacheInv'
<1>1. /\ UNCHANGED <<db, dcache, call, held, next_fh, session, notices, journal, polled, missed>>
      /\ queue # <<>> /\ queue' = Tail(queue)
      /\ open_files' = Restrict(open_files, DOMAIN open_files \ {fh})
    BY DEF dispatch, release
<1>2. queue \in Seq(Proc \cup Nat)
    BY DEF CacheInv, Typed
<1>3. /\ queue' \in Seq(Proc \cup Nat)
      /\ \A k \in DOMAIN queue' : k + 1 \in DOMAIN queue /\ k \in Nat /\ queue'[k] = queue[k + 1]
    BY <1>1, <1>2, Taken
<1>4. Typed'
    BY <1>1, <1>3 DEF CacheInv, Typed
<1>5. Queued'
  <2>1. \A k \in DOMAIN queue' :
           queue'[k] \in Proc => call[queue'[k]] # NoCall /\ ~call[queue'[k]].answered
      BY <1>3 DEF CacheInv, Queued
  <2>2. ASSUME NEW k \in DOMAIN queue', NEW l \in DOMAIN queue', queue'[k] = queue'[l],
               queue'[k] \in Proc
        PROVE  k = l
    <3>1. k + 1 = l + 1
        BY <1>3, <2>2 DEF CacheInv, Queued
    <3> QED
        BY <1>3, <3>1
  <2> QED
      BY <1>1, <2>1, <2>2 DEF Queued
<1>6. Tabled'
  <2>1. open_files' = [h \in DOMAIN open_files \ {fh} |-> open_files[h]]
      BY <1>1 DEF Restrict
  <2>2. DOMAIN open_files' = DOMAIN open_files \ {fh}
      BY <2>1
  <2>3. open_files' = [h \in DOMAIN open_files' |-> open_files'[h]]
      BY <2>1
  <2>4. \A h \in DOMAIN open_files' : open_files'[h] \in Nat
      BY <2>1, <2>2 DEF CacheInv, Tabled
  <2> QED
      BY <1>1, <2>2, <2>3, <2>4 DEF CacheInv, Tabled
<1> QED
    BY <1>1, <1>4, <1>5, <1>6, CacheElsewhere

(* A handler answers the process at the head.                              *)
LEMMA HandlerRuns ==
    ASSUME CacheInv, dispatch, NEW p \in Proc, Head(queue) = p
    PROVE  /\ call[p] \in Request /\ call[p].op \in Ops /\ ~call[p].answered
           /\ \A k \in DOMAIN Tail(queue) : Tail(queue)[k] # p
           /\ \E reply, file, invalid :
                 Handled(call[p], reply, file, invalid) /\ FileGiven(call[p], file)
<1>1. queue \in Seq(Proc \cup Nat) /\ queue # <<>>
    BY DEF CacheInv, Typed, dispatch
<1>2. 1 \in DOMAIN queue /\ queue[1] = p
    BY <1>1, Taken
<1>3. call[p] # NoCall /\ ~call[p].answered
    BY <1>2 DEF CacheInv, Queued
<1>4. PICK r : r = call[p]
    OBVIOUS
<1>5. /\ r \in Request /\ r.op \in Ops
      /\ r.op \in Named => r.at \in Place /\ r.to \in Place
    BY <1>3, <1>4 DEF CacheInv, Typed, Request
<1>6. \A k \in DOMAIN Tail(queue) : Tail(queue)[k] # p
  <2> SUFFICES ASSUME NEW k \in DOMAIN Tail(queue), Tail(queue)[k] = p PROVE FALSE
      OBVIOUS
  <2>1. k + 1 \in DOMAIN queue /\ k + 1 # 1 /\ queue[k + 1] = p
      BY <1>1, Taken
  <2> QED
      BY <1>2, <2>1 DEF CacheInv, Queued
<1>7. IF r.op \in OnInode THEN ByInode(r)
      ELSE IF r.op \in OnHandle THEN ByHandle(r) ELSE ByName(r)
  <2>1. \A fh \in 1..MaxCalls : Head(queue) # fh
      BY FuseAssumption
  <2> QED
      BY <1>4, <2>1 DEF dispatch
<1>8. \E reply, file, invalid : Handled(r, reply, file, invalid) /\ FileGiven(r, file)
    BY <1>5, <1>7, AnswersHandle DEF CacheInv
<1> QED
    BY <1>3, <1>4, <1>5, <1>6, <1>8

(* The table of open files stays a table of numbers given.                 *)
LEMMA TableGrows ==
    ASSUME Tabled, NEW r, NEW file, FileGiven(r, file)
    PROVE  Tabled'
<1>1. CASE UNCHANGED files
    BY <1>1 DEF Tabled, files
<1>2. ASSUME NEW i \in Nat,
             open_files' = [fh \in DOMAIN open_files \cup {next_fh} |->
                              IF fh = next_fh THEN i ELSE open_files[fh]],
             next_fh' = next_fh + 1
      PROVE  Tabled'
  <2>1. DOMAIN open_files' = DOMAIN open_files \cup {next_fh}
      BY <1>2
  <2>2. open_files' = [fh \in DOMAIN open_files' |-> open_files'[fh]]
      BY <1>2
  <2>3. \A fh \in DOMAIN open_files' : open_files'[fh] \in Nat
      BY <1>2, <2>1 DEF Tabled
  <2>4. next_fh' \in Nat \ {0} /\ DOMAIN open_files' \subseteq 1..(next_fh' - 1)
      BY <1>2, <2>1 DEF Tabled
  <2> QED
      BY <2>2, <2>3, <2>4 DEF Tabled
<1> QED
    BY <1>1, <1>2 DEF FileGiven

(* A handler answers what is right after it, or is noticed.                *)
LEMMA CacheHandler ==
    ASSUME CacheInv, dispatch, NEW p \in Proc, Head(queue) = p
    PROVE  CacheInv'
<1>1. /\ UNCHANGED <<dcache, held, notices, journal, polled, missed>>
      /\ session = <<>> /\ queue # <<>> /\ queue' = Tail(queue)
    BY DEF dispatch
<1>2. /\ call[p] \in Request /\ call[p].op \in Ops /\ ~call[p].answered
      /\ \A k \in DOMAIN queue' : queue'[k] # p
    BY <1>1, HandlerRuns
<1>3. PICK reply, file, invalid : Handled(call[p], reply, file, invalid) /\ FileGiven(call[p], file)
    BY HandlerRuns
<1>4. PICK c : c = [call[p] EXCEPT !.answered = TRUE, !.reply = reply, !.file = file]
    OBVIOUS
<1>5. /\ call' = [call EXCEPT ![p] = c] /\ session' = invalid /\ Tables(db')
      /\ reply \in SUBSET (Place \X Nat) /\ file \in File /\ invalid \in Seq(Place)
      /\ reply # {} => call[p].op \in Named
      /\ \A x \in Place : db'.entry[x] = db.entry[x] \/ db.entry[x] = NoIno \/ Listed(x, invalid)
      /\ \A e \in reply : /\ e[1][1] \in Holds(call[p])
                          /\ e[2] \in {NoIno, db'.entry[e[1]]} \/ Listed(e[1], invalid)
    BY <1>3, <1>4 DEF Handled
<1>6. /\ c \in Request /\ c.op = call[p].op /\ c.at = call[p].at /\ c.to = call[p].to
      /\ c.answered = TRUE /\ c.reply = reply /\ c.file = file
    BY <1>2, <1>4, <1>5 DEF Request
<1>7. \A q \in Proc : call'[q] = IF q = p THEN c ELSE call[q]
    BY <1>5 DEF CacheInv, Typed
<1>8. queue \in Seq(Proc \cup Nat)
    BY DEF CacheInv, Typed
<1>9. /\ queue' \in Seq(Proc \cup Nat)
      /\ \A k \in DOMAIN queue' : k + 1 \in DOMAIN queue /\ k \in Nat /\ queue'[k] = queue[k + 1]
    BY <1>1, <1>8, Taken
<1>10. Typed'
  <2>1. call' \in [Proc -> Request]
      BY <1>5, <1>6 DEF CacheInv, Typed
  <2>2. c.op # "none"
      BY <1>2, <1>6 DEF Ops, Shared, Making, OnInode, OnHandle
  <2>3. \A q \in Proc : /\ call'[q].op \in Named => call'[q].at \in Place /\ call'[q].to \in Place
                        /\ call'[q].op = "none" => call'[q] = NoCall
      BY <1>6, <1>7, <2>2 DEF CacheInv, Typed
  <2> QED
      BY <1>1, <1>5, <1>9, <2>1, <2>3 DEF CacheInv, Typed
<1>11. Tabled'
    BY <1>3, TableGrows DEF CacheInv
<1>12. Queued'
  <2>1. ASSUME NEW k \in DOMAIN queue', queue'[k] \in Proc
        PROVE  call'[queue'[k]] # NoCall /\ ~call'[queue'[k]].answered
      BY <1>2, <1>7, <1>9, <2>1 DEF CacheInv, Queued
  <2>2. ASSUME NEW k \in DOMAIN queue', NEW l \in DOMAIN queue', queue'[k] = queue'[l],
               queue'[k] \in Proc
        PROVE  k = l
    <3>1. k + 1 = l + 1
        BY <1>9, <2>2 DEF CacheInv, Queued
    <3> QED
        BY <1>9, <3>1
  <2> QED
      BY <2>1, <2>2 DEF Queued
<1>13. \A x : Listed(x, invalid) => Noticed(x)'
    BY <1>5 DEF Noticed, Listed
<1>14. ASSUME NEW x \in Place, NEW i, Right(x, i) PROVE Right(x, i)'
  <2>1. Noticed(x) => Noticed(x)'
      BY <1>1 DEF Noticed
  <2> QED
      BY <1>5, <1>13, <1>14, <2>1, Stays
<1>15. CacheRight'
    BY <1>1, <1>14 DEF CacheInv, CacheRight
<1>16. RepliesRight'
  <2> SUFFICES ASSUME NEW q \in Proc, NEW e \in call'[q].reply
               PROVE  /\ call'[q].answered /\ call'[q].op \in Named
                      /\ e[1][1] \in Holds(call'[q]) /\ Right(e[1], e[2])'
      BY DEF RepliesRight
  <2>1. CASE q = p
    <3>1. e \in reply /\ call'[q] = c
        BY <1>6, <1>7, <2>1
    <3>2. Holds(c) = Holds(call[p])
        BY <1>6 DEF Holds
    <3>3. Right(e[1], e[2])'
        BY <1>5, <1>13, <3>1 DEF Right
    <3>4. call'[q].answered
        BY <1>6, <3>1
    <3>5. call'[q].op \in Named /\ e[1][1] \in Holds(call'[q])
      <4>1. reply # {}
          BY <3>1
      <4>2. call[p].op \in Named
          BY <1>5, <4>1
      <4>3. e \in reply
          BY <3>1
      <4>4. e[1][1] \in Holds(call[p])
          BY <1>5, <4>3
      <4> QED
          BY <1>6, <3>1, <3>2, <4>2, <4>4
    <3> QED
        BY <3>3, <3>4, <3>5
  <2>2. CASE q # p
    <3>1. call'[q] = call[q]
        BY <1>7, <2>2
    <3>2. e[1] \in Place
        BY <3>1 DEF CacheInv, Typed, Request
    <3> QED
        BY <1>14, <3>1, <3>2 DEF CacheInv, RepliesRight
  <2> QED
      BY <2>1, <2>2
<1> QED
    BY <1>10, <1>11, <1>12, <1>15, <1>16 DEF CacheInv

(* Every step.                                                             *)
LEMMA CacheNext ==
    ASSUME CacheInv, [Next]_vars
    PROVE  CacheInv'
<1>1. CASE dispatch
  <2>1. \/ \E p \in Proc : Head(queue) = p
        \/ \E fh \in 1..MaxCalls : Head(queue) = fh /\ release(fh)
      BY <1>1 DEF dispatch
  <2> QED
      BY <1>1, <2>1, CacheHandler, CacheRelease
<1>2. CASE init \/ Return \/ PollerGivesUp \/ UNCHANGED vars
    BY <1>2, CacheIdle
<1>3. ASSUME NEW p \in Proc, Start(p) \/ Close(p) \/ Finish(p)
      PROVE  CacheInv'
    BY <1>3, CacheStart, CacheClose, CacheFinish
<1>4. ASSUME NEW x \in Place, Expire(x)
      PROVE  CacheInv'
    BY <1>4, CacheExpire
<1> QED
    BY <1>1, <1>2, <1>3, <1>4, CacheAnnounce, CacheInvalidate, CacheBaseline, CachePoll,
       CacheWorker, CacheUnmount DEF Next

(* The invariant of the cache.                                             *)
LEMMA CacheInvariant == Spec => []CacheInv
<1>1. Init => CacheInv
    BY CacheInit
<1>2. CacheInv /\ [Next]_vars => CacheInv'
    BY CacheNext
<1> QED
    BY <1>1, <1>2, PTL DEF Spec

(* "Keep the dcache consistent": in every state, for any number of         *)
(* processes, calls, names and journal rows, an entry the kernel holds is  *)
(* the one in the table, or its invalidation or a fresh answer is under    *)
(* way.  No message of the session loop, the notify thread and the poller  *)
(* overtakes an answer in a way that leaves a wrong entry behind.          *)
THEOREM CacheCatchesUp == Spec => []KernelCatchesUp
<1>1. CacheInv => KernelCatchesUp
  <2> SUFFICES ASSUME CacheInv, NEW x \in Place, dcache[x] \notin {NoIno, db.entry[x]}
               PROVE  x \in Due
      BY DEF KernelCatchesUp
  <2>1. Noticed(x)
      BY DEF CacheInv, CacheRight, Right
  <2>2. notices \in Seq(Place) /\ session \in Seq(Place)
      BY DEF CacheInv, Typed
  <2>3. PICK s : s = notices \o session
      OBVIOUS
  <2>4. Listed(x, notices) \/ Listed(x, session) => x \in ToSet(s)
    <3>1. Listed(x, notices) \/ Listed(x, session) => Listed(x, s)
        BY <2>2, <2>3, ListedAfter
    <3> QED
        BY <3>1 DEF Listed, ToSet
  <2> QED
      BY <2>1, <2>3, <2>4, NoticedIs DEF Due
<1> QED
    BY <1>1, CacheInvariant, PTL

-----------------------------------------------------------------------------
(* Handles *)

IsOpen(f) == f # NoFile => f[1] \in DOMAIN open_files /\ open_files[f[1]] = f[2]

(* The handles a process has, or is about to be given.                     *)
Own(p) == {held[p][1], call[p].file[1]} \ {0}

OwnedApart ==
    /\ \A p \in Proc : IsOpen(held[p]) /\ IsOpen(call[p].file)
    /\ \A p, q \in Proc : p # q => Own(p) \cap Own(q) = {}
    /\ \A p \in Proc : \A k \in DOMAIN queue : queue[k] \notin Own(p)
    /\ \A k \in DOMAIN queue : queue[k] \in Nat => queue[k] < next_fh

(* What a call knows of the file its process has open.                     *)
CallsMatch ==
    \A p \in Proc :
        /\ call[p].op \in {"open", "create"} => held[p] = NoFile
        /\ ~call[p].answered \/ call[p].op \notin {"open", "create"} \cup OnHandle
              => call[p].file = NoFile
        /\ call[p].op \in OnHandle => /\ call[p].fh = held[p][1] /\ held[p] # NoFile
                                      /\ call[p].answered => call[p].file = held[p]

(* No open file is forgotten before the end of the mount.                  *)
NoneForgotten ==
    phase \in {"starting", "serving"} =>
        \A fh \in DOMAIN open_files : Listed(fh, queue) \/ \E p \in Proc : fh \in Own(p)

Ended ==
    /\ phase \in {"starting", "serving", "joining", "returned"}
    /\ phase \in {"joining", "returned"} =>
          \A p \in Proc : call[p] = NoCall /\ held[p] = NoFile

HandleInv == CacheInv /\ OwnedApart /\ CallsMatch /\ NoneForgotten /\ Ended

(* A handle somebody has was given, and is open.                           *)
LEMMA Owned ==
    ASSUME CacheInv, OwnedApart, NEW p \in Proc
    PROVE  /\ \A h \in Own(p) : h \in Nat \ {0} /\ h < next_fh /\ h \in DOMAIN open_files
           /\ held[p] # NoFile => held[p][1] \in Own(p)
           /\ call[p].file # NoFile => call[p].file[1] \in Own(p)
<1>1. /\ IsOpen(held[p]) /\ held[p] \in File /\ IsOpen(call[p].file) /\ call[p].file \in File
      /\ next_fh \in Nat \ {0} /\ DOMAIN open_files \subseteq 1..(next_fh - 1)
    BY DEF CacheInv, Typed, Tabled, OwnedApart, Request
<1>2. ASSUME NEW f \in File, IsOpen(f), f # NoFile
      PROVE  f[1] \in Nat \ {0} /\ f[1] < next_fh /\ f[1] \in DOMAIN open_files
    BY <1>1, <1>2 DEF IsOpen
<1>3. NoFile[1] = 0
    BY DEF NoFile
<1> QED
    BY <1>1, <1>2, <1>3 DEF Own

(* At first there is no handle.                                            *)
LEMMA HandleInit == Init => HandleInv
<1> SUFFICES ASSUME Init PROVE HandleInv
    OBVIOUS
<1>1. /\ \A p \in Proc : /\ call[p] = NoCall /\ held[p] = NoFile
      /\ queue = <<>> /\ open_files = <<>> /\ phase = "starting"
    BY DEF Init
<1>2. NoCall.file = NoFile /\ NoFile[1] = 0 /\ NoCall.op = "none"
    BY Empty DEF NoFile
<1>3. \A p \in Proc : Own(p) = {}
    BY <1>1, <1>2 DEF Own
<1>4. OwnedApart
    BY <1>1, <1>2, <1>3 DEF OwnedApart, IsOpen
<1>5. CallsMatch
    BY <1>1, <1>2 DEF CallsMatch, OnHandle
<1>6. NoneForgotten
    BY <1>1 DEF NoneForgotten
<1>7. Ended
    BY <1>1 DEF Ended
<1> QED
    BY <1>4, <1>5, <1>6, <1>7, CacheInit DEF HandleInv

(* Steps that leave calls, files and the queue alone.                      *)
LEMMA HandleElsewhere ==
    ASSUME HandleInv, CacheInv',
           UNCHANGED <<call, queue, held, open_files, next_fh>>,
           \/ phase' = phase
           \/ phase = "starting" /\ phase' = "serving"
    PROVE  HandleInv'
<1>1. OwnedApart' /\ CallsMatch'
    BY DEF HandleInv, OwnedApart, CallsMatch, IsOpen, Own
<1>2. NoneForgotten'
    BY DEF HandleInv, NoneForgotten, Own, Listed
<1>3. Ended'
    BY DEF HandleInv, Ended
<1> QED
    BY <1>1, <1>2, <1>3 DEF HandleInv

(* A call is made about the file its process has.                          *)
LEMMA HandleStart ==
    ASSUME HandleInv, CacheInv', NEW p \in Proc, Start(p)
    PROVE  HandleInv'
<1>1. PICK r : Call(p, r) /\ Starting(p, r)
    BY CallMade DEF HandleInv, CacheInv
<1>2. /\ UNCHANGED <<held, open_files, next_fh, phase>>
      /\ call' = [call EXCEPT ![p] = r] /\ queue' = Append(queue, p) /\ call[p] = NoCall
      /\ phase = "serving"
      /\ r.op \in {"open", "create"} => held[p] = NoFile
    BY <1>1 DEF Call, files
<1>3. /\ \A q \in Proc : call'[q] = IF q = p THEN r ELSE call[q]
      /\ queue \in Seq(Proc \cup Nat)
    BY <1>2 DEF HandleInv, CacheInv, Typed
<1>4. call[p].file = NoFile /\ r.file = NoFile /\ ~r.answered
    BY <1>1, <1>2, Empty DEF Starting
<1>5. \A q \in Proc : Own(q)' = Own(q) /\ call'[q].file = call[q].file
    BY <1>2, <1>3, <1>4 DEF Own
<1>6. PICK n \in Nat : n = Len(queue)
    BY <1>3
<1>7. /\ DOMAIN queue = 1..n /\ DOMAIN queue' = 1..(n + 1)
      /\ \A k \in 1..(n + 1) : queue'[k] = IF k = n + 1 THEN p ELSE queue[k]
    BY <1>2, <1>3, <1>6
<1>8. p \notin Nat
    BY FuseAssumption
<1>9. OwnedApart'
  <2>1. \A q \in Proc : IsOpen(held[q])' /\ IsOpen(call[q].file)'
      BY <1>2, <1>5 DEF HandleInv, OwnedApart, IsOpen
  <2>2. \A q, s \in Proc : q # s => Own(q)' \cap Own(s)' = {}
      BY <1>5 DEF HandleInv, OwnedApart
  <2>3. \A q \in Proc : p \notin Own(q)
      BY <1>8, Owned DEF HandleInv
  <2>4. \A q \in Proc : \A k \in DOMAIN queue' : queue'[k] \notin Own(q)'
      BY <1>5, <1>7, <2>3 DEF HandleInv, OwnedApart
  <2>5. \A k \in DOMAIN queue' : queue'[k] \in Nat => queue'[k] < next_fh'
      BY <1>2, <1>7, <1>8 DEF HandleInv, OwnedApart
  <2> QED
      BY <2>1, <2>2, <2>4, <2>5 DEF OwnedApart
<1>10. CallsMatch'
  <2> SUFFICES ASSUME NEW q \in Proc
               PROVE  /\ call'[q].op \in {"open", "create"} => held'[q] = NoFile
                      /\ ~call'[q].answered \/ call'[q].op \notin {"open", "create"} \cup OnHandle
                            => call'[q].file = NoFile
                      /\ call'[q].op \in OnHandle =>
                            /\ call'[q].fh = held'[q][1] /\ held'[q] # NoFile
                            /\ call'[q].answered => call'[q].file = held'[q]
      BY DEF CallsMatch
  <2>1. CASE q = p
      BY <1>1, <1>2, <1>3, <1>4, <2>1 DEF Starting
  <2>2. CASE q # p
      BY <1>2, <1>3, <2>2 DEF HandleInv, CallsMatch
  <2> QED
      BY <2>1, <2>2
<1>11. NoneForgotten'
  <2>1. \A x : Listed(x, queue) => Listed(x, queue')
    <3> SUFFICES ASSUME NEW x, NEW k \in 1..n, queue[k] = x PROVE Listed(x, queue')
        BY <1>7 DEF Listed
    <3>1. k \in 1..(n + 1) /\ queue'[k] = x
        BY <1>7
    <3> QED
        BY <1>7, <3>1 DEF Listed
  <2>2. \A fh \in DOMAIN open_files : Listed(fh, queue') \/ \E q \in Proc : fh \in Own(q)'
      BY <1>2, <1>5, <2>1 DEF HandleInv, NoneForgotten
  <2> QED
      BY <1>2, <2>2 DEF NoneForgotten, Listed
<1>12. Ended'
    BY <1>2 DEF HandleInv, Ended
<1> QED
    BY <1>9, <1>10, <1>11, <1>12 DEF HandleInv

(* A handle goes from its process to the queue.                            *)
LEMMA HandleClose ==
    ASSUME HandleInv, CacheInv', NEW p \in Proc, Close(p)
    PROVE  HandleInv'
<1>1. PICK h : h = held[p][1]
    OBVIOUS
<1>2. /\ UNCHANGED <<call, open_files, next_fh, phase>> /\ phase = "serving"
      /\ queue' = Append(queue, h) /\ held' = [held EXCEPT ![p] = NoFile]
      /\ call[p] = NoCall /\ held[p] # NoFile
    BY <1>1 DEF Close, files
<1>3. /\ \A q \in Proc : held'[q] = IF q = p THEN NoFile ELSE held[q]
      /\ queue \in Seq(Proc \cup Nat)
    BY <1>2 DEF HandleInv, CacheInv, Typed
<1>4. call[p].file = NoFile /\ call[p].op = "none" /\ NoFile[1] = 0
    BY <1>2, Empty DEF NoFile
<1>5. h \in Own(p) /\ h \in Nat \ {0} /\ h < next_fh /\ Own(p) = {h}
  <2>1. h \in Own(p)
      BY <1>1, <1>2, Owned DEF HandleInv
  <2> QED
      BY <1>1, <1>4, <2>1, Owned DEF HandleInv, Own
<1>6. Own(p)' = {} /\ \A q \in Proc : q # p => Own(q)' = Own(q)
    BY <1>2, <1>3, <1>4 DEF Own
<1>7. PICK n \in Nat : n = Len(queue)
    BY <1>3
<1>8. /\ DOMAIN queue = 1..n /\ DOMAIN queue' = 1..(n + 1)
      /\ \A k \in 1..(n + 1) : queue'[k] = IF k = n + 1 THEN h ELSE queue[k]
    BY <1>2, <1>3, <1>7
<1>9. OwnedApart'
  <2>1. \A q \in Proc : IsOpen(held[q])' /\ IsOpen(call[q].file)'
      BY <1>2, <1>3 DEF HandleInv, OwnedApart, IsOpen
  <2>2. \A q, s \in Proc : q # s => Own(q)' \cap Own(s)' = {}
      BY <1>6 DEF HandleInv, OwnedApart
  <2>3. \A q \in Proc : q # p => h \notin Own(q)
      BY <1>5 DEF HandleInv, OwnedApart
  <2>4. \A q \in Proc : \A k \in DOMAIN queue' : queue'[k] \notin Own(q)'
      BY <1>6, <1>8, <2>3 DEF HandleInv, OwnedApart
  <2>5. \A k \in DOMAIN queue' : queue'[k] \in Nat => queue'[k] < next_fh'
      BY <1>2, <1>5, <1>8 DEF HandleInv, OwnedApart
  <2> QED
      BY <2>1, <2>2, <2>4, <2>5 DEF OwnedApart
<1>10. CallsMatch'
    BY <1>2, <1>3, <1>4 DEF HandleInv, CallsMatch, OnHandle
<1>11. NoneForgotten'
  <2>1. \A x : Listed(x, queue) \/ x = h => Listed(x, queue')
    <3>1. ASSUME NEW x, NEW k \in 1..n, queue[k] = x PROVE Listed(x, queue')
      <4>1. k \in 1..(n + 1) /\ queue'[k] = x
          BY <1>8, <3>1
      <4> QED
          BY <1>8, <4>1 DEF Listed
    <3>2. Listed(h, queue')
      <4>1. n + 1 \in 1..(n + 1) /\ queue'[n + 1] = h
          BY <1>8
      <4> QED
          BY <1>8, <4>1 DEF Listed
    <3> QED
        BY <1>8, <3>1, <3>2 DEF Listed
  <2>2. \A fh \in DOMAIN open_files : Listed(fh, queue') \/ \E q \in Proc : fh \in Own(q)'
      BY <1>2, <1>5, <1>6, <2>1 DEF HandleInv, NoneForgotten
  <2> QED
      BY <1>2, <2>2 DEF NoneForgotten, Listed
<1>12. Ended'
    BY <1>2 DEF HandleInv, Ended
<1> QED
    BY <1>9, <1>10, <1>11, <1>12 DEF HandleInv

(* The file of an open becomes the one the process has.                    *)
LEMMA HandleFinish ==
    ASSUME HandleInv, CacheInv', NEW p \in Proc, Finish(p)
    PROVE  HandleInv'
<1>1. /\ UNCHANGED <<queue, open_files, next_fh, phase>>
      /\ call[p] # NoCall /\ call[p].answered
      /\ held' = [held EXCEPT ![p] = IF call[p].op \in {"open", "create"}
                                     THEN call[p].file ELSE @]
      /\ call' = [call EXCEPT ![p] = NoCall]
    BY DEF Finish, files
<1>2. /\ \A q \in Proc : call'[q] = IF q = p THEN NoCall ELSE call[q]
      /\ \A q \in Proc : q # p => held'[q] = held[q]
      /\ held'[p] = IF call[p].op \in {"open", "create"} THEN call[p].file ELSE held[p]
    BY <1>1 DEF HandleInv, CacheInv, Typed
<1>3. NoFile[1] = 0 /\ NoCall.file = NoFile /\ NoCall.op = "none"
    BY Empty DEF NoFile
<1>4. /\ call[p].op \in {"open", "create"} => held[p] = NoFile
      /\ call[p].op \notin {"open", "create"} \cup OnHandle => call[p].file = NoFile
      /\ call[p].op \in OnHandle => call[p].file = held[p]
    BY <1>1 DEF HandleInv, CallsMatch
<1>5. Own(p)' = Own(p)
  <2>1. held'[p][1] = 0 \/ held'[p][1] \in {held[p][1], call[p].file[1]}
      BY <1>2
  <2>2. CASE call[p].op \in {"open", "create"}
      BY <1>2, <1>3, <1>4, <2>2 DEF Own
  <2>3. CASE call[p].op \notin {"open", "create"}
      BY <1>2, <1>3, <1>4, <2>3 DEF Own
  <2> QED
      BY <2>2, <2>3
<1>6. \A q \in Proc : Own(q)' = Own(q)
    BY <1>2, <1>5 DEF Own
<1>7. OwnedApart'
  <2>1. \A q \in Proc : IsOpen(held[q])' /\ IsOpen(call[q].file)'
      BY <1>1, <1>2, <1>3 DEF HandleInv, OwnedApart, IsOpen
  <2> QED
      BY <1>1, <1>6, <2>1 DEF HandleInv, OwnedApart
<1>8. CallsMatch'
    BY <1>2, <1>3 DEF HandleInv, CallsMatch, OnHandle
<1>9. NoneForgotten'
    BY <1>1, <1>6 DEF HandleInv, NoneForgotten, Listed
<1>10. Ended'
    BY <1>1 DEF HandleInv, Ended
<1> QED
    BY <1>7, <1>8, <1>9, <1>10 DEF HandleInv

(* At the end nobody has a handle.                                         *)
LEMMA HandleEnd ==
    ASSUME HandleInv, CacheInv', Unmount \/ Return
    PROVE  HandleInv'
<1>1. /\ phase' \in {"joining", "returned"}
      /\ \A p \in Proc : call'[p] = NoCall /\ held'[p] = NoFile
      /\ next_fh' = next_fh /\ queue' \in {<<>>, queue}
    BY DEF Unmount, Return, files, HandleInv, Ended
<1>2. NoFile[1] = 0 /\ NoCall.file = NoFile /\ NoCall.op = "none"
    BY Empty DEF NoFile
<1>3. \A p \in Proc : Own(p)' = {}
    BY <1>1, <1>2 DEF Own
<1>4. OwnedApart'
    BY <1>1, <1>2, <1>3 DEF HandleInv, OwnedApart, IsOpen
<1>5. CallsMatch'
    BY <1>1, <1>2 DEF CallsMatch, OnHandle
<1>6. NoneForgotten' /\ Ended'
    BY <1>1 DEF NoneForgotten, Ended
<1> QED
    BY <1>4, <1>5, <1>6 DEF HandleInv

(* A handle in the queue is nobody's: its file is closed.                  *)
LEMMA HandleRelease ==
    ASSUME HandleInv, CacheInv', dispatch, NEW fh, release(fh), Head(queue) = fh
    PROVE  HandleInv'
<1>1. /\ UNCHANGED <<call, held, next_fh, phase>>
      /\ queue # <<>> /\ queue' = Tail(queue)
      /\ open_files' = [h \in DOMAIN open_files \ {fh} |-> open_files[h]]
    BY DEF dispatch, release, Restrict
<1>2. queue \in Seq(Proc \cup Nat)
    BY DEF HandleInv, CacheInv, Typed
<1>3. /\ \A k \in DOMAIN queue' : k + 1 \in DOMAIN queue /\ k \in Nat /\ queue'[k] = queue[k + 1]
      /\ 1 \in DOMAIN queue /\ queue[1] = fh
    BY <1>1, <1>2, Taken
<1>4. \A p \in Proc : fh \notin Own(p) /\ Own(p)' = Own(p)
    BY <1>1, <1>3 DEF HandleInv, OwnedApart, Own
<1>5. OwnedApart'
  <2>1. ASSUME NEW p \in Proc, NEW f, IsOpen(f), f # NoFile => f[1] \in Own(p)
        PROVE  IsOpen(f)'
      BY <1>1, <1>4, <2>1 DEF IsOpen
  <2>2. \A p \in Proc : IsOpen(held[p])' /\ IsOpen(call[p].file)'
    <3> SUFFICES ASSUME NEW p \in Proc PROVE IsOpen(held[p])' /\ IsOpen(call[p].file)'
        OBVIOUS
    <3>1. PICK f, g : f = held[p] /\ g = call[p].file
        OBVIOUS
    <3>2. IsOpen(f) /\ IsOpen(g)
        BY <3>1 DEF HandleInv, OwnedApart
    <3>3. (f # NoFile => f[1] \in Own(p)) /\ (g # NoFile => g[1] \in Own(p))
        BY <3>1, Owned DEF HandleInv
    <3>4. IsOpen(f)' /\ IsOpen(g)'
        BY <2>1, <3>2, <3>3
    <3> QED
        BY <1>1, <3>1, <3>4 DEF IsOpen
  <2>3. \A p \in Proc : \A k \in DOMAIN queue' : queue'[k] \notin Own(p)'
      BY <1>3, <1>4 DEF HandleInv, OwnedApart
  <2>4. \A k \in DOMAIN queue' : queue'[k] \in Nat => queue'[k] < next_fh'
      BY <1>1, <1>3 DEF HandleInv, OwnedApart
  <2>5. \A p, q \in Proc : p # q => Own(p)' \cap Own(q)' = {}
      BY <1>4 DEF HandleInv, OwnedApart
  <2> QED
      BY <2>2, <2>3, <2>4, <2>5 DEF OwnedApart
<1>6. CallsMatch'
    BY <1>1 DEF HandleInv, CallsMatch
<1>7. NoneForgotten'
  <2>1. ASSUME NEW h, h # fh, Listed(h, queue) PROVE Listed(h, queue')
    <3>1. PICK n \in Nat : n = Len(queue) /\ DOMAIN queue = 1..n /\ n # 0
        BY <1>1, <1>2
    <3>2. DOMAIN queue' = 1..(n - 1)
        BY <1>1, <1>2, <3>1
    <3>3. PICK k \in 1..n : queue[k] = h
        BY <2>1, <3>1 DEF Listed
    <3>4. k # 1
        BY <1>3, <2>1, <3>3
    <3>5. k - 1 \in DOMAIN queue' /\ (k - 1) + 1 = k
        BY <3>2, <3>3, <3>4
    <3> QED
        BY <1>3, <3>3, <3>5 DEF Listed
  <2>2. ASSUME phase \in {"starting", "serving"}, NEW h \in DOMAIN open_files'
        PROVE  Listed(h, queue') \/ \E p \in Proc : h \in Own(p)'
    <3>1. h \in DOMAIN open_files /\ h # fh
        BY <1>1, <2>2
    <3> QED
        BY <1>4, <2>1, <2>2, <3>1 DEF HandleInv, NoneForgotten
  <2> QED
      BY <1>1, <2>2 DEF NoneForgotten, Listed
<1>8. Ended'
    BY <1>1 DEF HandleInv, Ended
<1> QED
    BY <1>5, <1>6, <1>7, <1>8 DEF HandleInv

(* A handler gives its process a number nobody has, or the file it has.    *)
LEMMA HandleHandler ==
    ASSUME HandleInv, CacheInv', dispatch, NEW p \in Proc, Head(queue) = p
    PROVE  HandleInv'
<1>1. UNCHANGED <<held, phase>> /\ queue # <<>> /\ queue' = Tail(queue)
    BY DEF dispatch
<1>2. /\ call[p] \in Request /\ call[p].op \in Ops /\ ~call[p].answered
      /\ queue \in Seq(Proc \cup Nat)
    BY HandlerRuns DEF HandleInv, CacheInv, Typed
<1>3. PICK reply, file, invalid : Handled(call[p], reply, file, invalid) /\ FileGiven(call[p], file)
    BY HandlerRuns DEF HandleInv
<1>4. PICK c : c = [call[p] EXCEPT !.answered = TRUE, !.reply = reply, !.file = file]
    OBVIOUS
<1>5. call' = [call EXCEPT ![p] = c] /\ file \in File
    BY <1>3, <1>4 DEF Handled
<1>6. c.op = call[p].op /\ c.fh = call[p].fh /\ c.answered = TRUE /\ c.file = file
    BY <1>2, <1>4 DEF Request
<1>7. \A q \in Proc : call'[q] = IF q = p THEN c ELSE call[q]
    BY <1>5 DEF HandleInv, CacheInv, Typed
<1>8. /\ \A k \in DOMAIN queue' : k + 1 \in DOMAIN queue /\ k \in Nat /\ queue'[k] = queue[k + 1]
      /\ 1 \in DOMAIN queue /\ queue[1] = p
    BY <1>1, <1>2, Taken
<1>9. call[p].file = NoFile /\ NoFile[1] = 0
    BY <1>2 DEF HandleInv, CallsMatch, NoFile
<1>10. ASSUME NEW h, h # p, Listed(h, queue) PROVE Listed(h, queue')
  <2>1. PICK n \in Nat : n = Len(queue) /\ DOMAIN queue = 1..n /\ n # 0
      BY <1>1, <1>2
  <2>2. DOMAIN queue' = 1..(n - 1)
      BY <1>1, <1>2, <2>1
  <2>3. PICK k \in 1..n : queue[k] = h
      BY <1>10, <2>1 DEF Listed
  <2>4. k # 1
      BY <1>8, <1>10, <2>3
  <2>5. k - 1 \in DOMAIN queue' /\ (k - 1) + 1 = k
      BY <2>2, <2>3, <2>4
  <2> QED
      BY <1>8, <2>3, <2>5 DEF Listed
<1>11. \A h \in DOMAIN open_files : h \in Nat /\ h # p /\ h < next_fh /\ h # next_fh
    BY FuseAssumption DEF HandleInv, CacheInv, Tabled
<1>12. \A q \in Proc : q # p => Own(q)' = Own(q)
    BY <1>1, <1>7 DEF Own
<1>13. Ended'
  <2>1. call[p].op # "none"
      BY <1>2 DEF Ops, Shared, Making, OnInode, OnHandle
  <2> QED
      BY <1>1 DEF HandleInv, Ended, dispatch
<1>14. CASE UNCHANGED files /\ file = IF call[p].op \in OnHandle THEN OpenFile(call[p].fh) ELSE NoFile
  <2>1. call[p].op \in OnHandle => file = held[p]
    <3> SUFFICES ASSUME call[p].op \in OnHandle PROVE file = held[p]
        OBVIOUS
    <3>1. call[p].fh = held[p][1] /\ held[p] # NoFile /\ IsOpen(held[p]) /\ held[p] \in File
        BY DEF HandleInv, CallsMatch, OwnedApart, CacheInv, Typed
    <3>2. file = <<held[p][1], open_files[held[p][1]]>>
        BY <1>14, <3>1 DEF OpenFile, IsOpen
    <3>3. held[p] = <<held[p][1], held[p][2]>>
        BY <3>1 DEF File
    <3> QED
        BY <3>1, <3>2, <3>3 DEF IsOpen
  <2>2. Own(p)' = Own(p)
      BY <1>1, <1>6, <1>7, <1>9, <1>14, <2>1 DEF Own
  <2>3. \A q \in Proc : Own(q)' = Own(q)
      BY <1>12, <2>2
  <2>4. OwnedApart'
    <3>1. \A q \in Proc : IsOpen(held[q])' /\ IsOpen(call[q].file)'
      <4>1. IsOpen(file)
          BY <1>14, <2>1 DEF HandleInv, OwnedApart, IsOpen
      <4> QED
          BY <1>1, <1>6, <1>7, <1>14, <4>1 DEF HandleInv, OwnedApart, IsOpen, files
    <3>2. \A q, t \in Proc : q # t => Own(q)' \cap Own(t)' = {}
        BY <2>3 DEF HandleInv, OwnedApart
    <3>3. \A q \in Proc : \A k \in DOMAIN queue' : queue'[k] \notin Own(q)'
        BY <1>8, <2>3 DEF HandleInv, OwnedApart
    <3>4. \A k \in DOMAIN queue' : queue'[k] \in Nat => queue'[k] < next_fh'
        BY <1>8, <1>14 DEF HandleInv, OwnedApart, files
    <3> QED
        BY <3>1, <3>2, <3>3, <3>4 DEF OwnedApart
  <2>5. CallsMatch'
    <3> SUFFICES ASSUME NEW q \in Proc
                 PROVE  /\ call'[q].op \in {"open", "create"} => held'[q] = NoFile
                        /\ ~call'[q].answered \/ call'[q].op \notin {"open", "create"} \cup OnHandle
                              => call'[q].file = NoFile
                        /\ call'[q].op \in OnHandle =>
                              /\ call'[q].fh = held'[q][1] /\ held'[q] # NoFile
                              /\ call'[q].answered => call'[q].file = held'[q]
        BY DEF CallsMatch
    <3>1. CASE q = p
        BY <1>1, <1>6, <1>7, <1>14, <2>1, <3>1 DEF HandleInv, CallsMatch
    <3>2. CASE q # p
        BY <1>1, <1>7, <3>2 DEF HandleInv, CallsMatch
    <3> QED
        BY <3>1, <3>2
  <2>6. NoneForgotten'
    <3>1. \A h \in DOMAIN open_files :
             Listed(h, queue) => Listed(h, queue')
        BY <1>10, <1>11
    <3> QED
        BY <1>1, <1>14, <2>3, <3>1 DEF HandleInv, NoneForgotten, Listed, files
  <2> QED
      BY <1>13, <2>4, <2>5, <2>6 DEF HandleInv
<1>15. ASSUME call[p].op \in {"open", "create"}, NEW i \in Nat, file = <<next_fh, i>>,
              open_files' = [fh \in DOMAIN open_files \cup {next_fh} |->
                               IF fh = next_fh THEN i ELSE open_files[fh]],
              next_fh' = next_fh + 1
       PROVE  HandleInv'
  <2>1. next_fh \in Nat \ {0} /\ file[1] = next_fh /\ file[2] = i /\ file # NoFile
      BY <1>9, <1>15 DEF HandleInv, CacheInv, Tabled
  <2>2. held[p] = NoFile
      BY <1>15 DEF HandleInv, CallsMatch
  <2>3. Own(p)' = {next_fh}
      BY <1>1, <1>6, <1>7, <1>9, <2>1, <2>2 DEF Own
  <2>4. \A q \in Proc : next_fh \notin Own(q) /\ \A h \in Own(q) : h \in Nat /\ h < next_fh
      BY <2>1, Owned DEF HandleInv
  <2>5. Own(p) = {}
      BY <1>9, <2>2 DEF Own
  <2>6. \A k \in DOMAIN queue : queue[k] # next_fh
      BY <2>1 DEF HandleInv, OwnedApart
  <2>7. \A f : IsOpen(f) => IsOpen(f)'
      BY <1>11, <1>15 DEF IsOpen
  <2>8. OwnedApart'
    <3>1. ASSUME NEW q \in Proc PROVE IsOpen(held[q])' /\ IsOpen(call[q].file)'
      <4>1. PICK f, g : f = held[q] /\ g = IF q = p THEN file ELSE call[q].file
          OBVIOUS
      <4>2. IsOpen(f)'
          BY <2>7, <4>1 DEF HandleInv, OwnedApart
      <4>3. IsOpen(g)'
        <5>1. CASE q = p
            BY <1>15, <2>1, <4>1, <5>1 DEF IsOpen
        <5>2. CASE q # p
            BY <2>7, <4>1, <5>2 DEF HandleInv, OwnedApart
        <5> QED
            BY <5>1, <5>2
      <4>4. held'[q] = f /\ call'[q].file = g
          BY <1>1, <1>6, <1>7, <4>1
      <4> QED
          BY <4>2, <4>3, <4>4 DEF IsOpen
    <3>2. \A q, t \in Proc : q # t => Own(q)' \cap Own(t)' = {}
        BY <1>12, <2>3, <2>4 DEF HandleInv, OwnedApart
    <3>3. \A q \in Proc : \A k \in DOMAIN queue' : queue'[k] \notin Own(q)'
        BY <1>8, <1>12, <2>3, <2>6 DEF HandleInv, OwnedApart
    <3>4. \A k \in DOMAIN queue' : queue'[k] \in Nat => queue'[k] < next_fh'
        BY <1>8, <1>15, <2>1 DEF HandleInv, OwnedApart
    <3> QED
        BY <3>1, <3>2, <3>3, <3>4 DEF OwnedApart
  <2>9. CallsMatch'
    <3> SUFFICES ASSUME NEW q \in Proc
                 PROVE  /\ call'[q].op \in {"open", "create"} => held'[q] = NoFile
                        /\ ~call'[q].answered \/ call'[q].op \notin {"open", "create"} \cup OnHandle
                              => call'[q].file = NoFile
                        /\ call'[q].op \in OnHandle =>
                              /\ call'[q].fh = held'[q][1] /\ held'[q] # NoFile
                              /\ call'[q].answered => call'[q].file = held'[q]
        BY DEF CallsMatch
    <3>1. CASE q = p
        BY <1>1, <1>6, <1>7, <1>15, <2>2, <3>1 DEF OnHandle
    <3>2. CASE q # p
        BY <1>1, <1>7, <3>2 DEF HandleInv, CallsMatch
    <3> QED
        BY <3>1, <3>2
  <2>10. NoneForgotten'
    <3>1. \A h \in DOMAIN open_files : Listed(h, queue) => Listed(h, queue')
        BY <1>10, <1>11
    <3>2. ASSUME phase \in {"starting", "serving"}, NEW h \in DOMAIN open_files'
          PROVE  Listed(h, queue') \/ \E q \in Proc : h \in Own(q)'
      <4>1. CASE h = next_fh
          BY <2>3, <4>1
      <4>2. CASE h # next_fh
        <5>1. h \in DOMAIN open_files
            BY <1>15, <4>2
        <5>2. CASE Listed(h, queue)
            BY <3>1, <5>1, <5>2
        <5>3. CASE \E q \in Proc : h \in Own(q)
            BY <1>12, <2>5, <5>3
        <5> QED
            BY <3>2, <5>1, <5>2, <5>3 DEF HandleInv, NoneForgotten
      <4> QED
          BY <4>1, <4>2
    <3> QED
        BY <1>1, <3>2 DEF NoneForgotten, Listed
  <2> QED
      BY <1>13, <2>8, <2>9, <2>10 DEF HandleInv
<1> QED
    BY <1>3, <1>14, <1>15 DEF FileGiven

(* Every step.                                                             *)
LEMMA HandleNext ==
    ASSUME HandleInv, [Next]_vars
    PROVE  HandleInv'
<1>1. CacheInv'
    BY CacheNext DEF HandleInv
<1>2. CASE dispatch
  <2>1. \/ \E p \in Proc : Head(queue) = p
        \/ \E fh \in 1..MaxCalls : Head(queue) = fh /\ release(fh)
      BY <1>2 DEF dispatch
  <2> QED
      BY <1>1, <1>2, <2>1, HandleHandler, HandleRelease
<1>3. CASE Unmount \/ Return
    BY <1>1, <1>3, HandleEnd
<1>4. ASSUME NEW p \in Proc, Start(p) \/ Close(p) \/ Finish(p)
      PROVE  HandleInv'
    BY <1>1, <1>4, HandleStart, HandleClose, HandleFinish
<1>5. CASE init
    BY <1>1, <1>5, HandleElsewhere DEF init, files
<1>6. CASE \/ Announce \/ Invalidate \/ PollerGivesUp \/ Baseline \/ Poll
           \/ \E x \in Place : Expire(x)
           \/ UNCHANGED vars
  <2>1. UNCHANGED <<call, queue, held, open_files, next_fh, phase>>
      BY <1>6 DEF Announce, Invalidate, PollerGivesUp, Baseline, Poll, Expire, vars, files
  <2> QED
      BY <1>1, <2>1, HandleElsewhere
<1>7. CASE Worker
  <2>1. UNCHANGED <<call, queue, held, open_files, next_fh, phase>>
    <3>1. \A script, rows : Write(script, rows)
                              => UNCHANGED <<call, queue, held, open_files, next_fh, phase>>
        BY DEF Write, files
    <3>2. \A p, n, q, m : WorkerCreate(p, n) \/ WorkerRemove(p, n) \/ WorkerRename(p, n, q, m)
                              => UNCHANGED <<call, queue, held, open_files, next_fh, phase>>
        BY <3>1 DEF WorkerCreate, WorkerRemove, WorkerRename
    <3> QED
        BY <1>7, <3>2 DEF Worker
  <2> QED
      BY <1>1, <2>1, HandleElsewhere
<1> QED
    BY <1>2, <1>3, <1>4, <1>5, <1>6, <1>7 DEF Next

(* The invariant of the handles.                                           *)
LEMMA HandleInvariant == Spec => []HandleInv
<1>1. Init => HandleInv
    BY HandleInit
<1>2. HandleInv /\ [Next]_vars => HandleInv'
    BY HandleNext
<1> QED
    BY <1>1, <1>2, PTL DEF Spec

(* In every call until it is closed, a handle is the file it was given for *)
(* (a number is never given twice, whatever is released in between), and   *)
(* while the mount serves no file stays open that nobody has.              *)
THEOREM HandlesAlwaysMatch == Spec => []HandlesMatch
<1>1. HandleInv => HandlesMatch
  <2> SUFFICES ASSUME HandleInv PROVE HandlesMatch
      OBVIOUS
  <2>1. ASSUME NEW p \in Proc, held[p] # NoFile PROVE OpenFile(held[p][1]) = held[p]
    <3>1. held[p] = <<held[p][1], held[p][2]>> /\ IsOpen(held[p])
        BY DEF HandleInv, CacheInv, Typed, File, OwnedApart
    <3> QED
        BY <2>1, <3>1 DEF IsOpen, OpenFile
  <2>2. \A p \in Calling : call[p].answered /\ call[p].op \in OnHandle => call[p].file = held[p]
      BY DEF HandleInv, CallsMatch, Calling
  <2>3. ASSUME phase = "serving", NEW fh \in DOMAIN open_files
        PROVE  fh \in ToSet(queue) \/ \E p \in Proc : fh \in {held[p][1], call[p].file[1]}
      BY <2>3 DEF HandleInv, NoneForgotten, Listed, ToSet, Own
  <2> QED
      BY <2>1, <2>2, <2>3 DEF HandlesMatch
<1> QED
    BY <1>1, HandleInvariant, PTL

=============================================================================
