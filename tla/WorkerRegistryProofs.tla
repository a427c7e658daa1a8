------------------------ MODULE WorkerRegistryProofs ------------------------
(***************************************************************************)
(* What WorkerRegistry promises, for any number of threads, jobs, lanes    *)
(* and topics.                                                             *)
(***************************************************************************)
EXTENDS WorkerRegistry, FiniteSetTheorems, SequenceTheorems, WellFoundedInduction, TLAPS

-----------------------------------------------------------------------------
(* Part of a queue.  Induction over its length is by its least             *)
(* counterexample.                                                          *)

LEMMA LeastNumber ==
    ASSUME NEW S \in SUBSET Nat, S # {}
    PROVE  \E m \in S : \A n \in S : m <= n
<1> DEFINE R == {pair \in Nat \X Nat : pair[1] < pair[2]}
<1>0. IsWellFoundedOn(R, Nat)
  BY NatLessThanWellFounded DEF OpToRel
<1>1. PICK m \in S : \A n \in S : ~(<<n, m>> \in R)
  <2> HIDE DEF R
  <2> QED BY <1>0, WFMin, Zenon
<1>2. \A n \in S : m <= n
  <2> TAKE n \in S
  <2>1. n \in Nat /\ m \in Nat
    OBVIOUS
  <2>2. CASE n < m
    <3>1. <<n, m>> \in R
      BY <2>1, <2>2
    <3> HIDE DEF R
    <3> QED BY <1>1, <3>1
  <2> QED BY <2>1, <2>2
<1> QED BY <1>2

\* f holds, for every n up to m, the entries among the first n of q that are in jobs.
Picks(f, q, jobs, m) ==
    f = [n \in 0 .. m |-> IF n = 0 THEN <<>>
                          ELSE IF q[n] \in jobs THEN Append(f[n - 1], q[n]) ELSE f[n - 1]]

LEMMA PicksExist ==
    ASSUME NEW q, NEW jobs, NEW m \in Nat
    PROVE  \E f : Picks(f, q, jobs, m)
<1> DEFINE None == {k \in Nat : ~ \E f : Picks(f, q, jobs, k)}
<1>1. SUFFICES ASSUME None # {} PROVE FALSE
  OBVIOUS
<1>2. PICK k \in None : \A n \in None : k <= n
  BY <1>1, LeastNumber
<1>3. k # 0
  <2> DEFINE f == [n \in 0 .. 0 |-> <<>>]
  <2>1. Picks(f, q, jobs, 0)
    BY DEF Picks
  <2> QED BY <1>2, <2>1
<1>4. PICK f : Picks(f, q, jobs, k - 1)
  BY <1>2, <1>3
<1> DEFINE g == [n \in 0 .. k |-> IF n = 0 THEN <<>>
                                  ELSE IF q[n] \in jobs THEN Append(f[n - 1], q[n]) ELSE f[n - 1]]
<1>0. k \in Nat \ {0}
  BY <1>2, <1>3
<1>5. ASSUME NEW n \in 0 .. k - 1
      PROVE  g[n] = f[n]
  <2>1. n \in 0 .. k
    BY <1>0
  <2>2. f[n] = IF n = 0 THEN <<>> ELSE IF q[n] \in jobs THEN Append(f[n - 1], q[n]) ELSE f[n - 1]
    BY <1>4 DEF Picks
  <2> QED BY <2>1, <2>2
<1> DEFINE G(n) == IF n = 0 THEN <<>> ELSE IF q[n] \in jobs THEN Append(g[n - 1], q[n]) ELSE g[n - 1]
<1>6. \A n \in 0 .. k : g[n] = G(n)
  <2> TAKE n \in 0 .. k
  <2>1. CASE n = 0
    BY <1>0, <2>1
  <2>2. CASE n # 0
    <3>1. n - 1 \in 0 .. k - 1
      BY <1>0, <2>2
    <3>2. g[n - 1] = f[n - 1]
      BY <1>5, <3>1
    <3> QED BY <2>2, <3>2
  <2> QED BY <2>1, <2>2
<1>7. Picks(g, q, jobs, k)
  <2>1. g = [n \in 0 .. k |-> G(n)]
    <3>1. \A n \in 0 .. k : g[n] = [i \in 0 .. k |-> G(i)][n]
      BY <1>6
    <3>2. g = [i \in 0 .. k |-> g[i]]
      OBVIOUS
    <3> HIDE DEF g
    <3> QED BY <1>6, <3>2
  <2> HIDE DEF g
  <2> QED BY <2>1 DEF Picks
<1> QED BY <1>2, <1>7

LEMMA ThosePicks ==
    ASSUME NEW q, NEW jobs, Len(q) \in Nat
    PROVE  \E f : Picks(f, q, jobs, Len(q)) /\ Those(q, jobs) = f[Len(q)]
<1> DEFINE f == CHOOSE f : Picks(f, q, jobs, Len(q))
<1>1. Picks(f, q, jobs, Len(q))
  BY PicksExist
<1>2. Those(q, jobs) = f[Len(q)]
  BY DEF Those, Picks
<1> QED BY <1>1, <1>2

\* t is the entries among the first n of q that are in jobs, in q's order.
Picked(t, q, jobs, n, S) ==
    /\ t \in Seq(S)
    /\ \A a \in 1 .. Len(t) : \E i \in 1 .. n : t[a] = q[i] /\ q[i] \in jobs
    /\ \A i \in 1 .. n : q[i] \in jobs => \E a \in 1 .. Len(t) : t[a] = q[i]
    /\ \A a, b \in 1 .. Len(t) : a < b => \E i, k \in 1 .. n : i < k /\ t[a] = q[i] /\ t[b] = q[k]

LEMMA PickedGrows ==
    ASSUME NEW S, NEW q \in Seq(S), NEW jobs, NEW n \in 1 .. Len(q), NEW t,
           Picked(t, q, jobs, n - 1, S)
    PROVE  Picked(IF q[n] \in jobs THEN Append(t, q[n]) ELSE t, q, jobs, n, S)
<1>0. n \in Nat \ {0} /\ q[n] \in S /\ t \in Seq(S) /\ Len(t) \in Nat
  BY ElementOfSeq, LenProperties DEF Picked
<1>a. n \in 1 .. n /\ (\A i \in 1 .. n - 1 : i \in 1 .. n /\ i < n)
  BY <1>0
<1>1. CASE q[n] \notin jobs
  BY <1>0, <1>1 DEF Picked
<1>2. CASE q[n] \in jobs
  <2> DEFINE u == Append(t, q[n])
  <2>1. /\ u \in Seq(S) /\ Len(u) = Len(t) + 1
        /\ \A a \in 1 .. Len(t) : u[a] = t[a]
        /\ u[Len(t) + 1] = q[n]
    BY <1>0, AppendProperties
  <2> HIDE DEF u
  <2>2. \A a \in 1 .. Len(u) : \E i \in 1 .. n : u[a] = q[i] /\ q[i] \in jobs
    <3> TAKE a \in 1 .. Len(u)
    <3>1. CASE a = Len(t) + 1
      BY <1>a, <1>2, <2>1, <3>1
    <3>2. CASE a \in 1 .. Len(t)
      <4>1. PICK i \in 1 .. n - 1 : t[a] = q[i] /\ q[i] \in jobs
        BY <3>2 DEF Picked
      <4> QED BY <1>a, <2>1, <3>2, <4>1
    <3> QED BY <1>0, <2>1, <3>1, <3>2
  <2>3. \A i \in 1 .. n : q[i] \in jobs => \E a \in 1 .. Len(u) : u[a] = q[i]
    <3> TAKE i \in 1 .. n
    <3> HAVE q[i] \in jobs
    <3>1. CASE i = n
      <4>1. Len(t) + 1 \in 1 .. Len(u)
        BY <1>0, <2>1
      <4> QED BY <2>1, <3>1, <4>1
    <3>2. CASE i \in 1 .. n - 1
      BY <1>0, <2>1, <3>2 DEF Picked
    <3> QED BY <1>0, <3>1, <3>2
  <2>4. \A a, b \in 1 .. Len(u) : a < b => \E i, k \in 1 .. n : i < k /\ u[a] = q[i] /\ u[b] = q[k]
    <3> TAKE a, b \in 1 .. Len(u)
    <3> HAVE a < b
    <3>1. a \in 1 .. Len(t)
      BY <1>0, <2>1
    <3>2. CASE b = Len(t) + 1
      <4>1. PICK i \in 1 .. n - 1 : t[a] = q[i]
        BY <3>1 DEF Picked
      <4>2. i < n /\ i \in 1 .. n /\ n \in 1 .. n
        BY <1>a
      <4>3. u[a] = q[i] /\ u[b] = q[n]
        BY <2>1, <3>1, <3>2, <4>1
      <4> QED BY <4>2, <4>3
    <3>3. CASE b \in 1 .. Len(t)
      <4>1. PICK i, k \in 1 .. n - 1 : i < k /\ t[a] = q[i] /\ t[b] = q[k]
        BY <3>1, <3>3 DEF Picked
      <4> QED BY <1>a, <2>1, <3>1, <3>3, <4>1
    <3> QED BY <1>0, <2>1, <3>2, <3>3
  <2>5. Picked(u, q, jobs, n, S)
    BY <2>1, <2>2, <2>3, <2>4 DEF Picked
  <2> QED BY <1>2, <2>5 DEF u
<1> QED BY <1>1, <1>2

\* Those(q, jobs) is the entries of q that are in jobs, in q's order.
LEMMA ThosePicked ==
    ASSUME NEW S, NEW q \in Seq(S), NEW jobs
    PROVE  Picked(Those(q, jobs), q, jobs, Len(q), S)
<1>0. Len(q) \in Nat
  BY LenProperties
<1>1. PICK f : Picks(f, q, jobs, Len(q)) /\ Those(q, jobs) = f[Len(q)]
  BY <1>0, ThosePicks
<1> DEFINE Wrong == {n \in 0 .. Len(q) : ~ Picked(f[n], q, jobs, n, S)}
<1>2. ASSUME Wrong # {} PROVE FALSE
  <2>1. PICK m \in Wrong : \A n \in Wrong : m <= n
    <3>1. Wrong \in SUBSET Nat
      BY <1>0
    <3> HIDE DEF Wrong
    <3> QED BY <1>2, <3>1, LeastNumber
  <2>2. CASE m = 0
    <3>1. f[0] = <<>>
      BY <1>0, <1>1 DEF Picks
    <3>2. <<>> \in Seq(S) /\ Len(<<>>) = 0
      BY EmptySeq
    <3>3. Picked(<<>>, q, jobs, 0, S)
      BY <3>2 DEF Picked
    <3> QED BY <2>1, <2>2, <3>1, <3>3
  <2>3. CASE m # 0
    <3>1. m \in 1 .. Len(q) /\ m - 1 \in 0 .. Len(q) /\ ~ (m <= m - 1)
      BY <1>0, <2>3
    <3>2. Picked(f[m - 1], q, jobs, m - 1, S)
      BY <2>1, <3>1
    <3>3. f[m] = IF q[m] \in jobs THEN Append(f[m - 1], q[m]) ELSE f[m - 1]
      BY <1>1, <2>3, <3>1 DEF Picks
    <3>4. Picked(f[m], q, jobs, m, S)
      BY <3>1, <3>2, <3>3, PickedGrows
    <3> QED BY <3>4
  <2> QED BY <2>2, <2>3
<1> QED BY <1>0, <1>1, <1>2

-----------------------------------------------------------------------------
(* Queues.                                                                  *)

Distinct(q) == \A i, k \in DOMAIN q : q[i] = q[k] => i = k
Before(q, x, y) == \E i, k \in DOMAIN q : i < k /\ q[i] = x /\ q[k] = y

LEMMA CountDistinct ==
    ASSUME NEW S, NEW q \in Seq(S), Distinct(q)
    PROVE  /\ IsFiniteSet(JobsOf(q)) /\ JobsOf(q) \subseteq S
           /\ Cardinality(JobsOf(q)) = Len(q)
<1>0. Len(q) \in Nat /\ DOMAIN q = 1 .. Len(q) /\ q \in [1 .. Len(q) -> S]
  BY LenProperties
<1>1. q \in [1 .. Len(q) -> JobsOf(q)] /\ JobsOf(q) \subseteq S
  BY <1>0 DEF JobsOf
<1>2. q \in Bijection(1 .. Len(q), JobsOf(q))
  BY <1>0, <1>1 DEF Bijection, Injection, Surjection, IsInjective, Distinct, JobsOf
<1>3. IsFiniteSet(1 .. Len(q)) /\ Cardinality(1 .. Len(q)) = Len(q)
  BY <1>0, FS_Interval, SMTT(60)
<1>4. ExistsBijection(1 .. Len(q), JobsOf(q))
  BY <1>2 DEF ExistsBijection
<1> QED BY <1>1, <1>3, <1>4, FS_Bijection

\* A part of a queue keeps its order.
LEMMA ThoseQueue ==
    ASSUME NEW S, NEW q \in Seq(S), NEW jobs
    PROVE  LET t == Those(q, jobs) IN
           /\ t \in Seq(S)
           /\ JobsOf(t) = JobsOf(q) \cap jobs
           /\ \A x, y : Before(t, x, y) => Before(q, x, y)
           /\ Distinct(q) => Distinct(t)
<1> DEFINE t == Those(q, jobs)
<1>1. Picked(t, q, jobs, Len(q), S)
  BY ThosePicked
<1> HIDE DEF t
<1>2. t \in Seq(S) /\ DOMAIN t = 1 .. Len(t) /\ DOMAIN q = 1 .. Len(q) /\ Len(t) \in Nat /\ Len(q) \in Nat
  BY <1>1, LenProperties DEF Picked
<1>3. JobsOf(t) = JobsOf(q) \cap jobs
  <2>1. \A x \in JobsOf(t) : x \in JobsOf(q) /\ x \in jobs
    BY <1>1, <1>2 DEF Picked, JobsOf
  <2>2. ASSUME NEW x \in JobsOf(q), x \in jobs
        PROVE  x \in JobsOf(t)
    <3>1. PICK i \in 1 .. Len(q) : x = q[i]
      BY <1>2 DEF JobsOf
    <3>2. PICK a \in 1 .. Len(t) : t[a] = q[i]
      BY <1>1, <2>2, <3>1 DEF Picked
    <3> QED BY <1>2, <3>1, <3>2 DEF JobsOf
  <2> QED BY <2>1, <2>2
<1>4. \A a, b \in 1 .. Len(t) : a < b => \E i, k \in 1 .. Len(q) : i < k /\ t[a] = q[i] /\ t[b] = q[k]
  BY <1>1 DEF Picked
<1>5. ASSUME NEW x, NEW y, Before(t, x, y) PROVE Before(q, x, y)
  <2>1. PICK a, b \in 1 .. Len(t) : a < b /\ t[a] = x /\ t[b] = y
    BY <1>2, <1>5 DEF Before
  <2>2. PICK i, k \in 1 .. Len(q) : i < k /\ t[a] = q[i] /\ t[b] = q[k]
    BY <1>4, <2>1
  <2> QED BY <1>2, <2>1, <2>2 DEF Before
<1>6. ASSUME Distinct(q) PROVE Distinct(t)
  <2>1. ASSUME NEW a \in 1 .. Len(t), NEW b \in 1 .. Len(t), t[a] = t[b], a < b
        PROVE  FALSE
    <3>1. PICK i, k \in 1 .. Len(q) : i < k /\ t[a] = q[i] /\ t[b] = q[k]
      BY <1>4, <2>1
    <3>2. i = k
      BY <1>2, <1>6, <2>1, <3>1 DEF Distinct
    <3> QED BY <3>1, <3>2
  <2>2. \A a, b \in 1 .. Len(t) : t[a] = t[b] => a = b
    <3> TAKE a, b \in 1 .. Len(t)
    <3> HAVE t[a] = t[b]
    <3>1. ~ (a < b) /\ ~ (b < a)
      BY <2>1
    <3> QED BY <1>2, <3>1
  <2> QED BY <1>2, <2>2 DEF Distinct
<1> QED BY <1>2, <1>3, <1>5, <1>6 DEF t

LEMMA WithoutQueue ==
    ASSUME NEW S, NEW q \in Seq(S), Distinct(q), NEW gone \in SUBSET JobsOf(q)
    PROVE  /\ Without(q, gone) \in Seq(S) /\ Distinct(Without(q, gone))
           /\ JobsOf(Without(q, gone)) = JobsOf(q) \ gone
           /\ \A x, y : Before(Without(q, gone), x, y) => Before(q, x, y)
           /\ IsFiniteSet(gone) /\ Cardinality(gone) \in Nat
           /\ Len(Without(q, gone)) = Len(q) - Cardinality(gone)
<1> DEFINE t == Without(q, gone)
<1>1. /\ t \in Seq(S) /\ Distinct(t)
      /\ JobsOf(t) = JobsOf(q) \cap (JobsOf(q) \ gone)
      /\ \A x, y : Before(t, x, y) => Before(q, x, y)
  BY ThoseQueue DEF Without
<1>2. JobsOf(t) = JobsOf(q) \ gone
  BY <1>1
<1> HIDE DEF t
<1>3. IsFiniteSet(JobsOf(q)) /\ Cardinality(JobsOf(q)) = Len(q) /\ Cardinality(JobsOf(t)) = Len(t)
  BY <1>1, CountDistinct
<1>4. IsFiniteSet(gone) /\ Cardinality(gone) \in Nat
  BY <1>3, FS_Subset, FS_CardinalityType
<1>5. Cardinality(JobsOf(q) \ gone) = Cardinality(JobsOf(q)) - Cardinality(JobsOf(q) \cap gone)
  BY <1>3, FS_Difference
<1>6. JobsOf(q) \cap gone = gone
  OBVIOUS
<1>7. Len(t) = Len(q) - Cardinality(gone)
  BY <1>2, <1>3, <1>5, <1>6
<1> QED BY <1>1, <1>2, <1>4, <1>7 DEF t

LEMMA AppendQueue ==
    ASSUME NEW S, NEW q \in Seq(S), NEW j \in S
    PROVE  /\ Append(q, j) \in Seq(S) /\ Len(Append(q, j)) = Len(q) + 1
           /\ JobsOf(Append(q, j)) = JobsOf(q) \cup {j}
           /\ Distinct(q) /\ j \notin JobsOf(q) => Distinct(Append(q, j))
           /\ \A x, y : Before(Append(q, j), x, y) => Before(q, x, y) \/ (x \in JobsOf(q) /\ y = j)
<1> DEFINE t == Append(q, j)
<1>1. /\ t \in Seq(S) /\ Len(t) = Len(q) + 1
      /\ \A i \in 1 .. Len(q) : t[i] = q[i]
      /\ t[Len(q) + 1] = j
  BY AppendProperties
<1> HIDE DEF t
<1>2. DOMAIN q = 1 .. Len(q) /\ DOMAIN t = 1 .. Len(t) /\ Len(q) \in Nat
  BY <1>1, LenProperties
<1>3. \A i : i \in 1 .. Len(t) <=> i \in 1 .. Len(q) \/ i = Len(q) + 1
  BY <1>1, <1>2
<1>4. JobsOf(t) = JobsOf(q) \cup {j}
  BY <1>1, <1>2, <1>3 DEF JobsOf
<1>5. ASSUME Distinct(q), j \notin JobsOf(q) PROVE Distinct(t)
  <2>1. \A i \in 1 .. Len(q) : q[i] # j
    BY <1>2, <1>5 DEF JobsOf
  <2> QED BY <1>1, <1>2, <1>3, <1>5, <2>1 DEF Distinct
<1>6. ASSUME NEW x, NEW y, Before(t, x, y) PROVE Before(q, x, y) \/ (x \in JobsOf(q) /\ y = j)
  <2>1. PICK i, k \in 1 .. Len(t) : i < k /\ t[i] = x /\ t[k] = y
    BY <1>2, <1>6 DEF Before
  <2>2. i \in 1 .. Len(q)
    BY <1>1, <1>2, <2>1
  <2>3. x \in JobsOf(q)
    BY <1>1, <1>2, <2>1, <2>2 DEF JobsOf
  <2>4. CASE k = Len(q) + 1
    BY <1>1, <2>1, <2>3, <2>4
  <2>5. CASE k \in 1 .. Len(q)
    BY <1>1, <1>2, <2>1, <2>2, <2>5 DEF Before
  <2> QED BY <1>3, <2>4, <2>5
<1> QED BY <1>1, <1>4, <1>5, <1>6 DEF t

LEMMA PutBackQueue ==
    ASSUME NEW S, NEW q \in Seq(S), NEW j \in S
    PROVE  /\ PutBack(j, q) \in Seq(S) /\ Len(PutBack(j, q)) = Len(q) + 1
           /\ JobsOf(PutBack(j, q)) = JobsOf(q) \cup {j}
           /\ Distinct(q) /\ j \notin JobsOf(q) => Distinct(PutBack(j, q))
           /\ \A x, y : Before(PutBack(j, q), x, y) => Before(q, x, y) \/ (x = j /\ y \in JobsOf(q))
<1> DEFINE t == PutBack(j, q)
<1>0. <<j>> \in Seq(S) /\ Len(<<j>>) = 1 /\ <<j>>[1] = j /\ Len(q) \in Nat
  BY LenProperties
<1>1. /\ t \in Seq(S) /\ Len(t) = 1 + Len(q)
      /\ \A i \in 1 .. 1 + Len(q) : t[i] = IF i <= 1 THEN <<j>>[i] ELSE q[i - 1]
  BY <1>0, ConcatProperties DEF PutBack
<1> HIDE DEF t
<1>2. DOMAIN q = 1 .. Len(q) /\ DOMAIN t = 1 .. Len(t)
  BY <1>1, LenProperties
<1>3. t[1] = j /\ (\A i \in 1 .. Len(q) : t[i + 1] = q[i])
  BY <1>0, <1>1
<1>4. \A i \in 1 .. Len(t) : i = 1 \/ (i - 1 \in 1 .. Len(q) /\ t[i] = q[i - 1])
  BY <1>0, <1>1
<1>5. 1 \in 1 .. Len(t) /\ (\A i \in 1 .. Len(q) : i + 1 \in 1 .. Len(t))
  BY <1>0, <1>1
<1>6. JobsOf(t) = JobsOf(q) \cup {j}
  <2>1. \A x \in JobsOf(t) : x \in JobsOf(q) \/ x = j
    <3> TAKE x \in JobsOf(t)
    <3>1. PICK i \in 1 .. Len(t) : x = t[i]
      BY <1>2 DEF JobsOf
    <3>2. i = 1 \/ (i - 1 \in DOMAIN q /\ x = q[i - 1])
      BY <1>2, <1>4, <3>1
    <3>3. \A k \in DOMAIN q : q[k] \in JobsOf(q)
      BY DEF JobsOf
    <3> QED BY <1>3, <3>1, <3>2, <3>3
  <2>2. j \in JobsOf(t) /\ \A x \in JobsOf(q) : x \in JobsOf(t)
    BY <1>2, <1>3, <1>5 DEF JobsOf
  <2> QED BY <2>1, <2>2
<1>7. ASSUME Distinct(q), j \notin JobsOf(q) PROVE Distinct(t)
  <2>1. \A i \in 1 .. Len(q) : q[i] # j
    BY <1>2, <1>7 DEF JobsOf
  <2>2. ASSUME NEW a \in 1 .. Len(t), NEW b \in 1 .. Len(t), t[a] = t[b]
        PROVE  a = b
    <3>1. CASE a = 1
      BY <1>3, <1>4, <2>1, <2>2, <3>1
    <3>2. CASE b = 1
      BY <1>3, <1>4, <2>1, <2>2, <3>2
    <3>3. CASE a # 1 /\ b # 1
      <4>1. a - 1 = b - 1
        BY <1>2, <1>4, <1>7, <2>2, <3>3 DEF Distinct
      <4> QED BY <4>1
    <3> QED BY <3>1, <3>2, <3>3
  <2> QED BY <1>2, <2>2 DEF Distinct
<1>8. ASSUME NEW x, NEW y, Before(t, x, y) PROVE Before(q, x, y) \/ (x = j /\ y \in JobsOf(q))
  <2>1. PICK i, k \in 1 .. Len(t) : i < k /\ t[i] = x /\ t[k] = y
    BY <1>2, <1>8 DEF Before
  <2>2. k - 1 \in 1 .. Len(q) /\ y = q[k - 1]
    BY <1>4, <2>1
  <2>3. y \in JobsOf(q)
    BY <1>2, <2>2 DEF JobsOf
  <2>4. CASE i = 1
    BY <1>3, <2>1, <2>3, <2>4
  <2>5. CASE i - 1 \in 1 .. Len(q) /\ t[i] = q[i - 1]
    <3>1. i - 1 < k - 1
      BY <2>1
    <3> QED BY <1>2, <2>1, <2>2, <2>5, <3>1 DEF Before
  <2> QED BY <1>4, <2>4, <2>5
<1> QED BY <1>1, <1>6, <1>7, <1>8 DEF t

-----------------------------------------------------------------------------
(* The pool.                                                                *)

SameLane(x, y) == LaneOf(x) # Nothing /\ LaneOf(x) = LaneOf(y)

\* A lane's jobs wait in the order of their submission, behind the one that runs.
QueueOK(p) ==
    /\ p.queue \in Seq(Jobs) /\ Distinct(p.queue)
    /\ JobsOf(p.queue) \cap p.running = {}
    /\ \A x, y : Before(p.queue, x, y) /\ SameLane(x, y) => x < y
    /\ \A x \in p.running, y \in JobsOf(p.queue) : SameLane(x, y) => x < y

\* A thread for each running job, and a lane for each that is in one.
RunningOK(p) ==
    /\ p.running \subseteq Jobs
    /\ p.threads = Cardinality(p.running) /\ p.threads <= MaxWorkers
    /\ p.lanes = LanesOf(p.running)
    /\ \A x, y \in p.running : SameLane(x, y) => x = y

PoolOK(p) ==
    /\ p = [queue |-> p.queue, running |-> p.running, lanes |-> p.lanes,
            threads |-> p.threads, active |-> p.active]
    /\ QueueOK(p) /\ RunningOK(p)

LEMMA RunningIsFinite ==
    ASSUME NEW S \in SUBSET Jobs
    PROVE  IsFiniteSet(S) /\ Cardinality(S) \in Nat
<1>1. IsFiniteSet(Jobs)
  BY FS_Interval, PoolAssumption DEF Jobs
<1> QED BY <1>1, FS_Subset, FS_CardinalityType

LEMMA JobNumbers == Jobs \subseteq Nat
BY PoolAssumption DEF Jobs

LEMMA LanesOfUnion ==
    ASSUME NEW S, NEW T
    PROVE  LanesOf(S \cup T) = LanesOf(S) \cup LanesOf(T)
BY DEF LanesOf

LEMMA LanesWithout ==
    ASSUME NEW R, NEW j \in R, \A x, y \in R : SameLane(x, y) => x = y
    PROVE  LanesOf(R \ {j}) = LanesOf(R) \ LanesOf({j})
BY DEF LanesOf, SameLane

\* What is ready may run: it is the oldest of a free lane.
LEMMA ReadyJobs ==
    ASSUME NEW p, QueueOK(p)
    PROVE  /\ Ready(p) \in Seq(Jobs) /\ Distinct(Ready(p))
           /\ JobsOf(Ready(p)) \subseteq JobsOf(p.queue)
           /\ \A x \in JobsOf(Ready(p)) : LaneOf(x) # Nothing => LaneOf(x) \notin p.lanes
           /\ \A x \in JobsOf(Ready(p)), y \in JobsOf(p.queue) : SameLane(x, y) => x = y \/ x < y
           /\ p.queue # <<>> /\ p.lanes = {} => Ready(p) # <<>>
<1> DEFINE q == p.queue
           free == {j \in JobsOf(q) :
                       \/ LaneOf(j) = Nothing
                       \/ /\ LaneOf(j) \notin p.lanes
                          /\ \A i, k \in DOMAIN q : q[i] = j /\ k < i => LaneOf(q[k]) # LaneOf(j)}
           r == Ready(p)
<1>0. q \in Seq(Jobs) /\ Distinct(q) /\ \A x, y : Before(q, x, y) /\ SameLane(x, y) => x < y
  BY DEF QueueOK
<1>1. r = Those(q, free)
  BY DEF Ready
<1>2. r \in Seq(Jobs) /\ Distinct(r) /\ JobsOf(r) = JobsOf(q) \cap free
  <2> HIDE DEF q, free, r
  <2> QED BY <1>0, <1>1, ThoseQueue
<1>3. JobsOf(r) = free
  <2>1. free \subseteq JobsOf(q)
    OBVIOUS
  <2> HIDE DEF q, free, r
  <2> QED BY <1>2, <2>1
<1>4. ASSUME NEW x \in JobsOf(r), LaneOf(x) # Nothing
      PROVE  LaneOf(x) \notin p.lanes /\ \A i, k \in DOMAIN q : q[i] = x /\ k < i => LaneOf(q[k]) # LaneOf(x)
  BY <1>3, <1>4
<1>5. ASSUME NEW x \in JobsOf(r), NEW y \in JobsOf(q), SameLane(x, y)
      PROVE  x = y \/ x < y
  <2>1. DOMAIN q = 1 .. Len(q) /\ Len(q) \in Nat
    BY <1>0, LenProperties
  <2>2. x \in JobsOf(q) /\ LaneOf(x) # Nothing /\ LaneOf(x) = LaneOf(y)
    BY <1>2, <1>5 DEF SameLane
  <2>3. PICK i \in DOMAIN q : q[i] = x
    BY <2>2 DEF JobsOf
  <2>4. PICK k \in DOMAIN q : q[k] = y
    BY DEF JobsOf
  <2>5. ~ (k < i)
    BY <1>4, <2>2, <2>3, <2>4
  <2> HIDE DEF q, r
  <2>6. CASE i < k
    <3>1. Before(q, x, y)
      BY <2>3, <2>4, <2>6 DEF Before
    <3> QED BY <1>0, <1>5, <3>1
  <2>7. CASE i = k
    BY <2>3, <2>4, <2>7
  <2> QED BY <2>1, <2>5, <2>6, <2>7
<1>6. ASSUME q # <<>>, p.lanes = {} PROVE r # <<>>
  <2>1. DOMAIN q = 1 .. Len(q) /\ Len(q) \in Nat \ {0}
    BY <1>0, <1>6, LenProperties, EmptySeq
  <2>2. 1 \in DOMAIN q /\ q[1] \in JobsOf(q)
    BY <2>1 DEF JobsOf
  <2>3. \A i, k \in DOMAIN q : q[i] = q[1] /\ k < i => FALSE
    <3> HIDE DEF q
    <3> QED BY <1>0, <2>1, <2>2 DEF Distinct
  <2>4. q[1] \in free
    BY <1>6, <2>2, <2>3
  <2>5. JobsOf(r) # {}
    BY <1>3, <2>4
  <2>6. JobsOf(<<>>) = {}
    BY DEF JobsOf
  <2> HIDE DEF r
  <2> QED BY <2>5, <2>6
<1>7. \A x \in JobsOf(r) : LaneOf(x) # Nothing => LaneOf(x) \notin p.lanes
  BY <1>4
<1>8. \A x \in JobsOf(r), y \in JobsOf(q) : SameLane(x, y) => x = y \/ x < y
  BY <1>5
<1> QED BY <1>2, <1>6, <1>7, <1>8

\* The first `count` of distinct jobs.
LEMMA FirstJobs ==
    ASSUME NEW S, NEW q \in Seq(S), Distinct(q), NEW count \in 0 .. Len(q)
    PROVE  /\ SubSeq(q, 1, count) \in Seq(S)
           /\ \A x \in JobsOf(SubSeq(q, 1, count)) : \E i \in 1 .. count : x = q[i]
           /\ JobsOf(SubSeq(q, 1, count)) \subseteq JobsOf(q)
           /\ Cardinality(JobsOf(SubSeq(q, 1, count))) = count
<1> DEFINE t == SubSeq(q, 1, count)
<1>0. DOMAIN q = 1 .. Len(q) /\ Len(q) \in Nat /\ \A i \in 1 .. Len(q) : q[i] \in S
  BY LenProperties, ElementOfSeq
<1>1. count \in Nat /\ count <= Len(q)
  BY <1>0
<1>2. t \in Seq(S) /\ Len(t) = count /\ \A i \in 1 .. count : t[i] = q[i]
  <2>1. \A i \in 1 .. count : q[i] \in S
    BY <1>0, <1>1
  <2>2. /\ t \in Seq(S)
        /\ Len(t) = IF 1 <= count THEN count - 1 + 1 ELSE 0
        /\ \A i \in 1 .. count - 1 + 1 : t[i] = q[1 + i - 1]
    BY <1>1, <2>1, SubSeqProperties
  <2> HIDE DEF t
  <2>3. Len(t) = count /\ count - 1 + 1 = count
    BY <1>1, <2>2
  <2> QED BY <1>1, <2>2, <2>3
<1> HIDE DEF t
<1>3. DOMAIN t = 1 .. count
  BY <1>2, LenProperties
<1>4. Distinct(t)
  BY <1>0, <1>1, <1>2, <1>3 DEF Distinct
<1>5. JobsOf(t) = {q[i] : i \in 1 .. count}
  BY <1>2, <1>3 DEF JobsOf
<1>6. JobsOf(t) \subseteq JobsOf(q)
  <2>1. 1 .. count \subseteq DOMAIN q
    BY <1>0, <1>1
  <2> QED BY <1>5, <2>1 DEF JobsOf
<1>7. \A x \in JobsOf(t) : \E i \in 1 .. count : x = q[i]
  BY <1>5
<1>8. Cardinality(JobsOf(t)) = count
  BY <1>2, <1>4, CountDistinct
<1> QED BY <1>2, <1>6, <1>7, <1>8 DEF t

\* Ready jobs are moved from the queue to the threads that start for them.
Taken(p, S) == [p EXCEPT !.queue = Without(@, S), !.running = @ \cup S,
                         !.lanes = @ \cup LanesOf(S), !.threads = @ + Cardinality(S)]

LEMMA TakeJobs ==
    ASSUME NEW p, PoolOK(p), NEW S \in SUBSET JobsOf(Ready(p)),
           p.threads + Cardinality(S) <= MaxWorkers,
           NEW n, n = Taken(p, S)
    PROVE  /\ PoolOK(n) /\ n.active = p.active
           /\ n.queue = Without(p.queue, S) /\ n.running = p.running \cup S
           /\ JobsOf(n.queue) = JobsOf(p.queue) \ S /\ S \subseteq JobsOf(p.queue)
           /\ Cardinality(S) \in Nat
           /\ Len(n.queue) = Len(p.queue) - Cardinality(S)
           /\ Cardinality(n.running) = Cardinality(p.running) + Cardinality(S)
<1>1. QueueOK(p) /\ RunningOK(p)
  BY DEF PoolOK
<1>2. n = [queue |-> Without(p.queue, S), running |-> p.running \cup S, lanes |-> p.lanes \cup LanesOf(S),
           threads |-> p.threads + Cardinality(S), active |-> p.active]
  BY DEF PoolOK, Taken
<1>3. /\ JobsOf(Ready(p)) \subseteq JobsOf(p.queue)
      /\ \A x \in JobsOf(Ready(p)) : LaneOf(x) # Nothing => LaneOf(x) \notin p.lanes
      /\ \A x \in JobsOf(Ready(p)), y \in JobsOf(p.queue) : SameLane(x, y) => x = y \/ x < y
  BY <1>1, ReadyJobs
<1>4. S \subseteq JobsOf(p.queue) /\ JobsOf(p.queue) \subseteq Jobs
  BY <1>1, <1>3, CountDistinct DEF QueueOK
<1>5. /\ n.queue \in Seq(Jobs) /\ Distinct(n.queue)
      /\ JobsOf(n.queue) = JobsOf(p.queue) \ S
      /\ \A x, y : Before(n.queue, x, y) => Before(p.queue, x, y)
      /\ Cardinality(S) \in Nat /\ Len(n.queue) = Len(p.queue) - Cardinality(S)
  BY <1>1, <1>2, <1>4, WithoutQueue DEF QueueOK
<1>6. p.running \cap S = {}
  BY <1>1, <1>4 DEF QueueOK
<1>7. Cardinality(n.running) = Cardinality(p.running) + Cardinality(S)
  <2>1. IsFiniteSet(p.running) /\ IsFiniteSet(S) /\ Cardinality(p.running) \in Nat
    BY <1>1, <1>4, RunningIsFinite DEF RunningOK
  <2>2. Cardinality({}) = 0
    BY FS_EmptySet
  <2>3. Cardinality(p.running \cup S) = Cardinality(p.running) + Cardinality(S) - Cardinality(p.running \cap S)
    BY <2>1, FS_Union
  <2>4. n.running = p.running \cup S /\ Cardinality(p.running \cap S) = 0
    BY <1>2, <1>6, <2>2
  <2>5. Cardinality(S) \in Nat
    BY <1>5
  <2> QED BY <2>1, <2>3, <2>4, <2>5
<1>8. QueueOK(n)
  <2>1. \A x, y : Before(n.queue, x, y) /\ SameLane(x, y) => x < y
    BY <1>1, <1>5 DEF QueueOK
  <2>2. JobsOf(n.queue) \cap n.running = {}
    BY <1>1, <1>2, <1>5 DEF QueueOK
  <2>3. ASSUME NEW x \in n.running, NEW y \in JobsOf(n.queue), SameLane(x, y) PROVE x < y
    <3>1. CASE x \in p.running
      BY <1>1, <1>5, <2>3, <3>1 DEF QueueOK
    <3>2. CASE x \in S
      <4>1. x # y
        BY <1>5, <3>2
      <4> QED BY <1>3, <1>5, <2>3, <3>2, <4>1
    <3> QED BY <1>2, <2>3, <3>1, <3>2
  <2> QED BY <1>5, <2>1, <2>2, <2>3 DEF QueueOK
<1>9. RunningOK(n)
  <2>1. n.threads = Cardinality(n.running) /\ n.threads <= MaxWorkers /\ n.running \subseteq Jobs
    BY <1>1, <1>2, <1>4, <1>7 DEF RunningOK
  <2>2. n.lanes = LanesOf(n.running)
    BY <1>1, <1>2, LanesOfUnion DEF RunningOK
  <2>3. ASSUME NEW x \in n.running, NEW y \in n.running, SameLane(x, y) PROVE x = y
    <3>1. \A a \in S, b \in p.running : ~ SameLane(a, b)
      BY <1>1, <1>3 DEF RunningOK, LanesOf, SameLane
    <3>2. SameLane(y, x) /\ n.running = p.running \cup S
      BY <1>2, <2>3 DEF SameLane
    <3>3. CASE x \in p.running /\ y \in p.running
      BY <1>1, <2>3, <3>3 DEF RunningOK
    <3>4. CASE x \in S /\ y \in S
      <4>1. (x = y \/ x < y) /\ (y = x \/ y < x) /\ x \in Nat /\ y \in Nat
        BY <1>3, <1>4, <2>3, <3>2, <3>4, JobNumbers
      <4> QED BY <4>1
    <3> QED BY <2>3, <3>1, <3>2, <3>3, <3>4
  <2> QED BY <2>1, <2>2, <2>3 DEF RunningOK
<1> QED BY <1>2, <1>4, <1>5, <1>7, <1>8, <1>9 DEF PoolOK

\* A job is done and its thread ends.
LEMMA JobLeaves ==
    ASSUME NEW p, PoolOK(p), p.active \in Int, NEW j \in p.running,
           NEW n, n = [p EXCEPT !.running = @ \ {j}, !.lanes = @ \ LanesOf({j}),
                                !.threads = @ - 1, !.active = @ - 1]
    PROVE  /\ PoolOK(n) /\ n.active = p.active - 1
           /\ n.queue = p.queue /\ n.running = p.running \ {j}
           /\ Cardinality(n.running) = Cardinality(p.running) - 1
<1>1. QueueOK(p) /\ RunningOK(p)
  BY DEF PoolOK
<1>2. n = [queue |-> p.queue, running |-> p.running \ {j}, lanes |-> p.lanes \ LanesOf({j}),
           threads |-> p.threads - 1, active |-> p.active - 1]
  BY DEF PoolOK
<1>3. IsFiniteSet(p.running) /\ Cardinality(p.running) \in Nat /\ Cardinality(n.running) = Cardinality(p.running) - 1
  <2>1. IsFiniteSet(p.running) /\ Cardinality(p.running) \in Nat
    BY <1>1, RunningIsFinite DEF RunningOK
  <2> QED BY <1>2, <2>1, FS_RemoveElement
<1>4. QueueOK(n)
  BY <1>1, <1>2 DEF QueueOK
<1>5. n.lanes = LanesOf(n.running)
  <2>1. \A x, y \in p.running : SameLane(x, y) => x = y
    BY <1>1 DEF RunningOK
  <2>2. LanesOf(p.running \ {j}) = LanesOf(p.running) \ LanesOf({j})
    BY <2>1, LanesWithout
  <2>3. n.running = p.running \ {j} /\ n.lanes = p.lanes \ LanesOf({j}) /\ p.lanes = LanesOf(p.running)
    BY <1>1, <1>2 DEF RunningOK
  <2> QED BY <2>2, <2>3
<1>6. RunningOK(n)
  <2>1. \A x, y \in n.running : SameLane(x, y) => x = y
    BY <1>1, <1>2 DEF RunningOK
  <2>2. n.threads = Cardinality(n.running) /\ n.threads <= MaxWorkers /\ n.running \subseteq Jobs
    BY <1>1, <1>2, <1>3, PoolAssumption DEF RunningOK
  <2> QED BY <1>5, <2>1, <2>2 DEF RunningOK
<1> QED BY <1>2, <1>3, <1>4, <1>6 DEF PoolOK

\* Starting threads turned the pool p into n; the jobs `lost` could not be run at all.
Started(p, n, lost) ==
    /\ PoolOK(n)
    /\ lost \in Seq(Jobs) /\ JobsOf(lost) \subseteq JobsOf(p.queue)
    /\ JobsOf(n.queue) \subseteq JobsOf(p.queue)
    /\ p.running \subseteq n.running /\ n.running \subseteq p.running \cup JobsOf(p.queue)
    /\ JobsOf(p.queue) \cup p.running \subseteq JobsOf(n.queue) \cup n.running \cup JobsOf(lost)
    /\ Len(p.queue) + Cardinality(p.running) = Len(n.queue) + Cardinality(n.running) + Len(lost)
    /\ n.active = p.active - Len(lost)
    /\ n.queue # <<>> => n.running # {}

LEMMA EmptyQueue ==
    ASSUME NEW q \in Seq(Jobs)
    PROVE  /\ q = <<>> <=> JobsOf(q) = {}
           /\ q = <<>> <=> Len(q) = 0
           /\ JobsOf(<<>>) = {}
<1>1. DOMAIN q = 1 .. Len(q) /\ Len(q) \in Nat
  BY LenProperties
<1>2. JobsOf(<<>>) = {} /\ Len(<<>>) = 0
  BY DEF JobsOf
<1>3. ASSUME q # <<>> PROVE JobsOf(q) # {} /\ Len(q) # 0
  <2>1. Len(q) \in Nat \ {0}
    BY <1>3, EmptySeq
  <2>2. q[1] \in JobsOf(q)
    BY <1>1, <2>1 DEF JobsOf
  <2> QED BY <2>1, <2>2
<1> QED BY <1>2, <1>3

\* Every thread that was wanted starts.
LEMMA AllStart ==
    ASSUME NEW p, PoolOK(p), p.active \in Int, NEW S \in SUBSET JobsOf(Ready(p)),
           p.threads + Cardinality(S) <= MaxWorkers,
           Cardinality(S) = Len(Ready(p)) \/ p.threads + Cardinality(S) = MaxWorkers
    PROVE  Started(p, Taken(p, S), <<>>)
<1> DEFINE n == Taken(p, S)
<1>1. QueueOK(p) /\ RunningOK(p)
  BY DEF PoolOK
<1>2. /\ PoolOK(n) /\ n.active = p.active
      /\ n.running = p.running \cup S
      /\ JobsOf(n.queue) = JobsOf(p.queue) \ S /\ S \subseteq JobsOf(p.queue)
      /\ Cardinality(S) \in Nat
      /\ Len(n.queue) = Len(p.queue) - Cardinality(S)
      /\ Cardinality(n.running) = Cardinality(p.running) + Cardinality(S)
  BY TakeJobs
<1> HIDE DEF n
<1>3. /\ Len(p.queue) \in Nat /\ Cardinality(p.running) \in Nat
      /\ p.queue \in Seq(Jobs) /\ n.queue \in Seq(Jobs)
  BY <1>1, <1>2, LenProperties, RunningIsFinite DEF QueueOK, RunningOK, PoolOK
<1>4. ASSUME n.running = {} PROVE n.queue = <<>>
  <2>1. p.running = {} /\ S = {}
    BY <1>2, <1>4
  <2>2. p.threads = 0 /\ p.lanes = {} /\ Cardinality(S) = 0
    BY <1>1, <2>1, FS_EmptySet DEF RunningOK, LanesOf
  <2>3. Len(Ready(p)) = 0
    BY <2>2, PoolAssumption
  <2>4. Ready(p) = <<>> /\ p.queue = <<>>
    BY <1>1, <2>2, <2>3, ReadyJobs, EmptyQueue
  <2> QED BY <1>2, <1>3, <2>4, EmptyQueue
<1>5. <<>> \in Seq(Jobs) /\ JobsOf(<<>>) = {} /\ Len(<<>>) = 0
  BY EmptyQueue, EmptySeq
<1>6. Len(p.queue) + Cardinality(p.running) = Len(n.queue) + Cardinality(n.running) + Len(<<>>)
  BY <1>2, <1>3, <1>5
<1>7. JobsOf(p.queue) \cup p.running \subseteq JobsOf(n.queue) \cup n.running \cup JobsOf(<<>>)
  BY <1>2
<1>8. n.active = p.active - Len(<<>>)
  BY <1>2, <1>5
<1> QED BY <1>2, <1>4, <1>5, <1>6, <1>7, <1>8 DEF Started, n

ToWait(p, j) == [p EXCEPT !.queue = PutBack(j, Without(p.queue, {j}))]
Emptied(p, lost) == [p EXCEPT !.queue = <<>>, !.active = @ - Len(lost)]

\* A thread does not start, and its job waits, before the others, for one that runs.
LEMMA OneWaits ==
    ASSUME NEW p, PoolOK(p), p.active \in Int, NEW S \in SUBSET JobsOf(Ready(p)),
           p.threads + Cardinality(S) <= MaxWorkers,
           NEW j \in JobsOf(Ready(p)) \ S,
           NEW next, next = Taken(p, S), next.threads > 0,
           NEW n, n = ToWait(next, j)
    PROVE  Started(p, n, <<>>)
<1>1. QueueOK(p) /\ RunningOK(p)
  BY DEF PoolOK
<1>2. /\ PoolOK(next) /\ next.active = p.active
      /\ next.running = p.running \cup S
      /\ JobsOf(next.queue) = JobsOf(p.queue) \ S /\ S \subseteq JobsOf(p.queue)
      /\ Cardinality(S) \in Nat
      /\ Len(next.queue) = Len(p.queue) - Cardinality(S)
      /\ Cardinality(next.running) = Cardinality(p.running) + Cardinality(S)
  BY TakeJobs
<1>3. QueueOK(next) /\ RunningOK(next)
  BY <1>2 DEF PoolOK
<1>4. /\ j \in JobsOf(p.queue) /\ j \in JobsOf(next.queue) /\ j \in Jobs
      /\ \A y \in JobsOf(p.queue) : SameLane(j, y) => j = y \/ j < y
  <2>1. JobsOf(p.queue) \subseteq Jobs
    BY <1>1, CountDistinct DEF QueueOK
  <2> QED BY <1>1, <1>2, <2>1, ReadyJobs
<1> DEFINE w == Without(next.queue, {j})
<1>5. /\ w \in Seq(Jobs) /\ Distinct(w) /\ JobsOf(w) = JobsOf(next.queue) \ {j}
      /\ \A x, y : Before(w, x, y) => Before(next.queue, x, y)
      /\ Len(w) = Len(next.queue) - Cardinality({j})
  BY <1>3, <1>4, WithoutQueue, SMTT(60) DEF QueueOK
<1> HIDE DEF w
<1>6. n = [queue |-> PutBack(j, w), running |-> next.running, lanes |-> next.lanes,
           threads |-> next.threads, active |-> next.active]
  BY <1>2 DEF PoolOK, ToWait, w
<1>6a. n.queue = PutBack(j, w) /\ n.running = next.running /\ n.active = next.active
  BY <1>6
<1>7. /\ n.queue \in Seq(Jobs) /\ Len(n.queue) = Len(w) + 1
      /\ JobsOf(n.queue) = JobsOf(w) \cup {j}
      /\ Distinct(n.queue)
      /\ \A x, y : Before(n.queue, x, y) => Before(w, x, y) \/ (x = j /\ y \in JobsOf(w))
  <2>1. w \in Seq(Jobs) /\ j \in Jobs /\ j \notin JobsOf(w) /\ Distinct(w)
    BY <1>4, <1>5
  <2>2. /\ PutBack(j, w) \in Seq(Jobs) /\ Len(PutBack(j, w)) = Len(w) + 1
        /\ JobsOf(PutBack(j, w)) = JobsOf(w) \cup {j}
        /\ Distinct(PutBack(j, w))
        /\ \A x, y : Before(PutBack(j, w), x, y) => Before(w, x, y) \/ (x = j /\ y \in JobsOf(w))
    BY <2>1, PutBackQueue
  <2> QED BY <1>6a, <2>2
<1>8. JobsOf(n.queue) = JobsOf(next.queue) /\ Len(n.queue) = Len(next.queue)
  <2>1. Cardinality({j}) = 1 /\ Len(next.queue) \in Nat
    BY <1>3, FS_Singleton, LenProperties DEF QueueOK
  <2>2. JobsOf(n.queue) = JobsOf(next.queue)
    BY <1>4, <1>5, <1>7
  <2> QED BY <1>5, <1>7, <2>1, <2>2
<1>9. QueueOK(n)
  <2>1. ASSUME NEW x, NEW y, Before(n.queue, x, y), SameLane(x, y)
        PROVE  x < y
    <3>1. CASE Before(w, x, y)
      BY <1>3, <1>5, <2>1, <3>1 DEF QueueOK
    <3>2. CASE x = j /\ y \in JobsOf(w)
      <4>1. y # j /\ y \in JobsOf(p.queue)
        BY <1>2, <1>5, <3>2
      <4> QED BY <1>4, <2>1, <3>2, <4>1
    <3> QED BY <1>7, <2>1, <3>1, <3>2
  <2>2. JobsOf(n.queue) \cap n.running = {}
    BY <1>3, <1>6, <1>8 DEF QueueOK
  <2>3. \A x \in n.running, y \in JobsOf(n.queue) : SameLane(x, y) => x < y
    BY <1>3, <1>6, <1>8 DEF QueueOK
  <2> QED BY <1>7, <2>1, <2>2, <2>3 DEF QueueOK
<1>10. PoolOK(n)
  <2>1. RunningOK(n)
    BY <1>3, <1>6 DEF RunningOK
  <2> QED BY <1>6, <1>9, <2>1 DEF PoolOK
<1>11. n.running # {} /\ n.running = p.running \cup S /\ n.active = p.active
  <2>1. next.threads = Cardinality(next.running)
    BY <1>3 DEF RunningOK
  <2>2. next.running # {}
    BY <2>1, FS_EmptySet
  <2> QED BY <1>2, <1>6a, <2>2
<1>12. <<>> \in Seq(Jobs) /\ JobsOf(<<>>) = {} /\ Len(<<>>) = 0
  BY EmptyQueue, EmptySeq
<1>13. Len(p.queue) + Cardinality(p.running) = Len(n.queue) + Cardinality(n.running) + Len(<<>>)
  <2>1. Len(p.queue) \in Nat /\ Cardinality(p.running) \in Nat
    BY <1>1, LenProperties, RunningIsFinite DEF QueueOK, RunningOK
  <2>2. Cardinality(n.running) = Cardinality(p.running) + Cardinality(S)
    BY <1>2, <1>6a
  <2>3. Len(n.queue) = Len(p.queue) - Cardinality(S) /\ Cardinality(S) \in Nat
    BY <1>2, <1>8
  <2> QED BY <1>12, <2>1, <2>2, <2>3
<1>14. /\ JobsOf(p.queue) \cup p.running \subseteq JobsOf(n.queue) \cup n.running \cup JobsOf(<<>>)
       /\ JobsOf(n.queue) \subseteq JobsOf(p.queue)
       /\ p.running \subseteq n.running /\ n.running \subseteq p.running \cup JobsOf(p.queue)
  BY <1>2, <1>8, <1>11
<1>15. n.active = p.active - Len(<<>>)
  BY <1>11, <1>12
<1> QED BY <1>10, <1>11, <1>12, <1>13, <1>14, <1>15 DEF Started

\* No thread starts and none is left: every waiting job is refused.
LEMMA AllRefused ==
    ASSUME NEW p, PoolOK(p), p.active \in Int, NEW S \in SUBSET JobsOf(Ready(p)),
           p.threads + Cardinality(S) <= MaxWorkers,
           NEW j \in JobsOf(Ready(p)) \ S,
           NEW next, next = Taken(p, S), ~ (next.threads > 0),
           NEW lost, lost = PutBack(j, Without(next.queue, {j})),
           NEW n, n = Emptied(next, lost)
    PROVE  Started(p, n, lost)
<1>1. QueueOK(p) /\ RunningOK(p)
  BY DEF PoolOK
<1>2. /\ PoolOK(next) /\ next.active = p.active
      /\ next.running = p.running \cup S
      /\ JobsOf(next.queue) = JobsOf(p.queue) \ S /\ S \subseteq JobsOf(p.queue)
      /\ Cardinality(S) \in Nat
      /\ Len(next.queue) = Len(p.queue) - Cardinality(S)
      /\ Cardinality(next.running) = Cardinality(p.running) + Cardinality(S)
  BY TakeJobs
<1>3. QueueOK(next) /\ RunningOK(next)
  BY <1>2 DEF PoolOK
<1>4. j \in JobsOf(p.queue) /\ j \in JobsOf(next.queue) /\ j \in Jobs
  <2>1. JobsOf(p.queue) \subseteq Jobs
    BY <1>1, CountDistinct DEF QueueOK
  <2> QED BY <1>1, <1>2, <2>1, ReadyJobs
<1> DEFINE w == Without(next.queue, {j})
<1>5. /\ w \in Seq(Jobs) /\ JobsOf(w) = JobsOf(next.queue) \ {j}
      /\ Len(w) = Len(next.queue) - Cardinality({j})
  BY <1>3, <1>4, WithoutQueue DEF QueueOK
<1>6. lost = PutBack(j, w)
  OBVIOUS
<1> HIDE DEF w
<1>7. /\ lost \in Seq(Jobs) /\ Len(lost) = Len(w) + 1
      /\ JobsOf(lost) = JobsOf(w) \cup {j}
  <2>1. w \in Seq(Jobs) /\ j \in Jobs
    BY <1>4, <1>5
  <2>2. /\ PutBack(j, w) \in Seq(Jobs) /\ Len(PutBack(j, w)) = Len(w) + 1
        /\ JobsOf(PutBack(j, w)) = JobsOf(w) \cup {j}
    BY <2>1, PutBackQueue
  <2> QED BY <1>6, <2>2
<1>8. JobsOf(lost) = JobsOf(next.queue) /\ Len(lost) = Len(next.queue) /\ Len(lost) \in Nat
  <2>1. Cardinality({j}) = 1 /\ Len(next.queue) \in Nat
    BY <1>3, FS_Singleton, LenProperties DEF QueueOK
  <2>2. JobsOf(lost) = JobsOf(next.queue)
    BY <1>4, <1>5, <1>7
  <2> QED BY <1>5, <1>7, <2>1, <2>2
<1>9. n = [queue |-> <<>>, running |-> next.running, lanes |-> next.lanes,
           threads |-> next.threads, active |-> next.active - Len(lost)]
  BY <1>2 DEF PoolOK, Emptied
<1>9a. /\ n.queue = <<>> /\ n.running = next.running /\ n.lanes = next.lanes
       /\ n.threads = next.threads /\ n.active = next.active - Len(lost)
  BY <1>9
<1>10. <<>> \in Seq(Jobs) /\ JobsOf(<<>>) = {} /\ Len(<<>>) = 0
  BY EmptyQueue, EmptySeq
<1>11. QueueOK(n)
  <2>1. \A x, y : ~ Before(<<>>, x, y)
    BY DEF Before
  <2>2. Distinct(<<>>)
    BY DEF Distinct
  <2> QED BY <1>9a, <1>10, <2>1, <2>2 DEF QueueOK
<1>12. PoolOK(n)
  <2>1. RunningOK(n)
    BY <1>3, <1>9a DEF RunningOK
  <2> QED BY <1>9, <1>11, <2>1 DEF PoolOK
<1>13. Len(p.queue) + Cardinality(p.running) = Len(n.queue) + Cardinality(n.running) + Len(lost)
  <2>1. Len(p.queue) \in Nat /\ Cardinality(p.running) \in Nat
    BY <1>1, LenProperties, RunningIsFinite DEF QueueOK, RunningOK
  <2>2. Cardinality(n.running) = Cardinality(p.running) + Cardinality(S) /\ Len(n.queue) = 0
    BY <1>2, <1>9a, <1>10
  <2>3. Len(lost) = Len(p.queue) - Cardinality(S) /\ Cardinality(S) \in Nat
    BY <1>2, <1>8
  <2>4. \A a, b, c \in Nat : \A l : l = a - c => a + b = 0 + (b + c) + l
    OBVIOUS
  <2>5. Len(p.queue) + Cardinality(p.running) = 0 + (Cardinality(p.running) + Cardinality(S)) + Len(lost)
    BY <2>1, <2>3, <2>4
  <2> QED BY <2>2, <2>5, Zenon
<1>14. /\ JobsOf(p.queue) \cup p.running \subseteq JobsOf(n.queue) \cup n.running \cup JobsOf(lost)
       /\ JobsOf(n.queue) \subseteq JobsOf(p.queue) /\ JobsOf(lost) \subseteq JobsOf(p.queue)
       /\ p.running \subseteq n.running /\ n.running \subseteq p.running \cup JobsOf(p.queue)
  BY <1>2, <1>8, <1>9a, <1>10
<1>15. n.active = p.active - Len(lost) /\ n.queue = <<>>
  BY <1>2, <1>9a
<1> QED BY <1>7, <1>12, <1>13, <1>14, <1>15 DEF Started

LEMMA StartThreadsEffect ==
    ASSUME NEW p, PoolOK(p), p.active \in Int, NEW done \in Seq(Jobs), NEW registered,
           faults \in 0 .. MaxFaults, StartThreads(p, done, registered)
    PROVE  /\ faults' \in 0 .. MaxFaults
           /\ \E lost : Started(p, pool', lost) /\ Finish(done \o lost, registered)
<1> DEFINE ready == Ready(p)
           wanted == IF Len(ready) < Room(p) THEN Len(ready) ELSE Room(p)
           Set(count) == JobsOf(SubSeq(ready, 1, count))
           next(count) == [p EXCEPT !.queue = Without(@, Set(count)), !.running = @ \cup Set(count),
                                    !.lanes = @ \cup LanesOf(Set(count)), !.threads = @ + count]
           lost(count) == PutBack(ready[count + 1], Without(next(count).queue, {ready[count + 1]}))
<1>1. QueueOK(p) /\ RunningOK(p)
  BY DEF PoolOK
<1>2. ready \in Seq(Jobs) /\ Distinct(ready) /\ Len(ready) \in Nat /\ DOMAIN ready = 1 .. Len(ready)
  BY <1>1, ReadyJobs, LenProperties
<1>3. /\ p.threads \in Nat /\ p.threads <= MaxWorkers /\ MaxWorkers \in Nat
      /\ Room(p) = MaxWorkers - p.threads /\ MaxFaults \in Nat
  BY <1>1, RunningIsFinite, PoolAssumption DEF RunningOK, Room
<1>4. PICK count \in 0 .. wanted :
        \/ /\ count = wanted
           /\ pool' = next(count)
           /\ Finish(done, registered)
           /\ UNCHANGED faults
        \/ /\ count < wanted /\ faults < MaxFaults
           /\ faults' = faults + 1
           /\ IF next(count).threads > 0
              THEN /\ pool' = [next(count) EXCEPT !.queue = lost(count)]
                   /\ Finish(done, registered)
              ELSE /\ pool' = [next(count) EXCEPT !.queue = <<>>, !.active = @ - Len(lost(count))]
                   /\ Finish(done \o lost(count), registered)
  BY DEF StartThreads, PutBack
<1>5. /\ count \in 0 .. Len(ready) /\ p.threads + count <= MaxWorkers
      /\ count = wanted => count = Len(ready) \/ p.threads + count = MaxWorkers
      /\ count < wanted => count + 1 \in 1 .. Len(ready)
  <2> HIDE DEF ready
  <2>1. /\ wanted \in Nat /\ wanted <= Len(ready) /\ p.threads + wanted <= MaxWorkers
        /\ wanted = Len(ready) \/ p.threads + wanted = MaxWorkers
    <3>1. PICK l, t, m \in Nat : l = Len(ready) /\ t = p.threads /\ m = MaxWorkers /\ t <= m
      BY <1>2, <1>3
    <3>2. wanted = IF l < m - t THEN l ELSE m - t
      BY <1>3, <3>1, Zenon
    <3> HIDE DEF wanted
    <3>3. PICK w : w = wanted
      OBVIOUS
    <3>4. w = IF l < m - t THEN l ELSE m - t
      BY <3>2, <3>3, Zenon
    <3>5. t <= m
      BY <3>1
    <3>6. w \in Nat /\ w <= l /\ t + w <= m /\ (w = l \/ t + w = m)
      BY <3>4, <3>5
    <3> QED BY <3>1, <3>3, <3>6, Zenon
  <2> HIDE DEF wanted
  <2>2. count \in Nat /\ count <= wanted
    BY <2>1, SMTT(60)
  <2>2a. PICK l \in Nat : l = Len(ready)
    BY <1>2
  <2>2b. l \in Nat /\ wanted \in Nat /\ wanted <= l
    BY <2>1, <2>2a
  <2>3. count \in 0 .. Len(ready)
    <3>1. count \in 0 .. l
      BY <2>2, <2>2b
    <3> QED BY <2>2a, <3>1
  <2>4. p.threads + count <= MaxWorkers
    BY <1>3, <2>1, <2>2
  <2>5. count = wanted => count = Len(ready) \/ p.threads + count = MaxWorkers
    BY <2>1
  <2>6. count < wanted => count + 1 \in 1 .. Len(ready)
    <3>1. count < wanted => count + 1 \in 1 .. l
      BY <2>2, <2>2b
    <3> QED BY <2>2a, <3>1
  <2> QED BY <2>3, <2>4, <2>5, <2>6
<1> DEFINE S == Set(count)
<1>6. /\ S \subseteq JobsOf(ready) /\ Cardinality(S) = count
      /\ \A x \in S : \E i \in 1 .. count : x = ready[i]
  <2> HIDE DEF ready
  <2>1. count \in 0 .. Len(ready)
    BY <1>5
  <2> QED BY <1>2, <2>1, FirstJobs
<1>7. next(count) = Taken(p, S)
  <2> HIDE DEF ready, S
  <2>1. Cardinality(S) = count
    BY <1>6
  <2> QED BY <2>1 DEF Taken, S
<1>8. done \o <<>> = done
  BY ConcatEmptySeq
<1>9. CASE count = wanted /\ pool' = next(count) /\ Finish(done, registered) /\ UNCHANGED faults
  <2> HIDE DEF ready, S, next, lost, wanted
  <2>1. Started(p, Taken(p, S), <<>>)
    BY <1>5, <1>6, <1>9, AllStart DEF ready
  <2> QED BY <1>7, <1>8, <1>9, <2>1
<1>10. ASSUME count < wanted, faults < MaxFaults, faults' = faults + 1 PROVE faults' \in 0 .. MaxFaults
  BY <1>3, <1>10
<1>11. ASSUME count < wanted
       PROVE  ready[count + 1] \in JobsOf(ready) \ S
  <2> HIDE DEF ready, S, next, lost, wanted
  <2>1. count + 1 \in 1 .. Len(ready)
    BY <1>5, <1>11
  <2>2. ready[count + 1] \in JobsOf(ready)
    BY <1>2, <2>1 DEF JobsOf
  <2>3. ASSUME NEW i \in 1 .. count PROVE ready[i] # ready[count + 1]
    <3>1. i \in 1 .. Len(ready) /\ i # count + 1
      BY <1>2, <2>1
    <3> QED BY <1>2, <2>1, <3>1 DEF Distinct
  <2> QED BY <1>6, <2>2, <2>3
<1>12. CASE /\ count < wanted /\ faults < MaxFaults /\ faults' = faults + 1
            /\ next(count).threads > 0
            /\ pool' = [next(count) EXCEPT !.queue = lost(count)]
            /\ Finish(done, registered)
  <2> DEFINE j == ready[count + 1]
  <2>1. j \in JobsOf(Ready(p)) \ S
    BY <1>11, <1>12
  <2>2. next(count).threads > 0
    BY <1>12
  <2>3. pool' = ToWait(next(count), j)
    BY <1>12 DEF ToWait
  <2> HIDE DEF ready, S, next, lost, wanted, j
  <2>4. S \subseteq JobsOf(Ready(p))
    BY <1>6 DEF ready
  <2>5. Started(p, ToWait(next(count), j), <<>>)
    BY <1>5, <1>6, <1>7, <2>1, <2>2, <2>4, OneWaits
  <2> QED BY <1>8, <1>10, <1>12, <2>3, <2>5
<1>13. CASE /\ count < wanted /\ faults < MaxFaults /\ faults' = faults + 1
            /\ ~ (next(count).threads > 0)
            /\ pool' = [next(count) EXCEPT !.queue = <<>>, !.active = @ - Len(lost(count))]
            /\ Finish(done \o lost(count), registered)
  <2> DEFINE j == ready[count + 1]
             gone == lost(count)
  <2>1. j \in JobsOf(Ready(p)) \ S
    BY <1>11, <1>13
  <2>2. ~ (next(count).threads > 0)
    BY <1>13
  <2>3. pool' = Emptied(next(count), gone)
    BY <1>13 DEF Emptied
  <2>3a. gone = PutBack(j, Without(next(count).queue, {j}))
    OBVIOUS
  <2> HIDE DEF ready, S, next, lost, wanted, j
  <2>4. S \subseteq JobsOf(Ready(p))
    BY <1>6 DEF ready
  <2>5. Started(p, Emptied(next(count), gone), gone)
    <3> HIDE DEF gone
    <3> QED BY <1>5, <1>6, <1>7, <2>1, <2>2, <2>3a, <2>4, AllRefused
  <2> QED BY <1>10, <1>13, <2>3, <2>5
<1> HIDE DEF ready, S, next, lost, wanted
<1> QED BY <1>4, <1>9, <1>12, <1>13

-----------------------------------------------------------------------------
(* The inductive invariant.                                                 *)

SameTopic(x, y) == TopicOf(x) # Nothing /\ TopicOf(x) = TopicOf(y)

\* A newer job about the same topic has been submitted.
Stale(j) == \E k \in 1 .. submitted : j < k /\ SameTopic(j, k)

TypeInv ==
    /\ finished \in Seq(Jobs) /\ maxQueued \in QueueSizes /\ kind \in [Jobs -> Kinds] /\ submitted \in 0 .. MaxJobs
    /\ shown \in Seq(Jobs)
    /\ superseded \subseteq Jobs /\ ended \subseteq Jobs /\ dropped \subseteq Jobs
    /\ owed \in Nat
    /\ known \in BOOLEAN /\ polling \in BOOLEAN /\ closing \in BOOLEAN /\ quiet \in BOOLEAN
    /\ tk \in Places
    /\ dialogs \in 0 .. MaxDialogs /\ outside \in 0 .. MaxOutside /\ faults \in 0 .. MaxFaults

PoolInv ==
    /\ PoolOK(pool)
    /\ pool.active = Len(pool.queue) + Cardinality(pool.running) + outside
    /\ pool.queue # <<>> => pool.running # {}

\* Every result that is owed is waited for, and the root is registered for it.
OwedInv ==
    /\ ~closing => owed = Len(pool.queue) + Cardinality(pool.running) + Len(finished)
    /\ owed > 0 => known /\ (polling \/ tk = "poll")

\* Nothing is delivered after shutdown has begun, and nothing starts after it succeeded.
ClosedInv ==
    /\ closing => owed = 0 /\ finished = <<>>
    /\ tk = "closing" => closing
    /\ quiet => closing /\ pool.active = 0

\* Every job that is neither waiting nor running nor done was dropped, and no write is.
NumberedInv ==
    /\ JobsOf(pool.queue) \subseteq 1 .. submitted /\ pool.running \subseteq 1 .. submitted
    /\ JobsOf(finished) \subseteq 1 .. submitted /\ JobsOf(shown) \subseteq 1 .. submitted
    /\ \A j \in 1 .. submitted : TopicOf(j) = Nothing => j \in JobsOf(pool.queue) \cup pool.running \cup ended

\* Nobody waits for an outdated read, and one that runs will not be shown; so whatever is
\* behind a newer result, among those finished or shown, is superseded.
FreshInv ==
    /\ \A j \in JobsOf(pool.queue) : ~ Stale(j)
    /\ \A j \in pool.running : Stale(j) => j \in superseded
    /\ \A x, y : Before(finished, x, y) /\ y < x /\ SameTopic(y, x) => y \in superseded
    /\ \A x \in JobsOf(shown), y \in JobsOf(finished) : y < x /\ SameTopic(y, x) => y \in superseded
    /\ \A x, y : Before(shown, x, y) /\ y < x => ~ SameTopic(y, x)

RegistryInv == TypeInv /\ PoolInv /\ OwedInv /\ ClosedInv /\ NumberedInv /\ FreshInv

LEMMA ConcatQueue ==
    ASSUME NEW S, NEW s \in Seq(S), NEW t \in Seq(S)
    PROVE  /\ s \o t \in Seq(S) /\ Len(s \o t) = Len(s) + Len(t)
           /\ JobsOf(s \o t) = JobsOf(s) \cup JobsOf(t)
           /\ \A x, y : Before(s \o t, x, y) => Before(s, x, y) \/ (x \in JobsOf(s \o t) /\ y \in JobsOf(t))
<1> DEFINE u == s \o t
<1>1. /\ u \in Seq(S) /\ Len(u) = Len(s) + Len(t)
      /\ \A i \in 1 .. Len(s) + Len(t) : u[i] = IF i <= Len(s) THEN s[i] ELSE t[i - Len(s)]
  BY ConcatProperties
<1> HIDE DEF u
<1>2. /\ DOMAIN s = 1 .. Len(s) /\ DOMAIN t = 1 .. Len(t) /\ DOMAIN u = 1 .. Len(u)
      /\ Len(s) \in Nat /\ Len(t) \in Nat
  BY <1>1, LenProperties
<1>3. \A i \in 1 .. Len(s) : i \in 1 .. Len(u) /\ u[i] = s[i]
  BY <1>1, <1>2
<1>4. \A i \in 1 .. Len(t) : Len(s) + i \in 1 .. Len(u) /\ u[Len(s) + i] = t[i]
  <2> TAKE i \in 1 .. Len(t)
  <2>1. /\ Len(s) + i \in 1 .. Len(s) + Len(t) /\ ~ (Len(s) + i <= Len(s))
        /\ Len(s) + i - Len(s) = i
    BY <1>2
  <2> QED BY <1>1, <2>1
<1>5. \A i \in 1 .. Len(u) : \/ i \in 1 .. Len(s)
                             \/ i - Len(s) \in 1 .. Len(t) /\ u[i] = t[i - Len(s)] /\ i > Len(s)
  BY <1>1, <1>2
<1>6. JobsOf(u) = JobsOf(s) \cup JobsOf(t)
  <2>1. ASSUME NEW x \in JobsOf(u) PROVE x \in JobsOf(s) \/ x \in JobsOf(t)
    <3>1. PICK i \in 1 .. Len(u) : u[i] = x
      BY <1>2 DEF JobsOf
    <3>2. CASE i \in 1 .. Len(s)
      BY <1>2, <1>3, <3>1, <3>2 DEF JobsOf
    <3>3. CASE i - Len(s) \in 1 .. Len(t) /\ u[i] = t[i - Len(s)]
      BY <1>2, <3>1, <3>3 DEF JobsOf
    <3> QED BY <1>5, <3>2, <3>3
  <2>2. \A x \in JobsOf(s) : x \in JobsOf(u)
    BY <1>2, <1>3 DEF JobsOf
  <2>3. ASSUME NEW x \in JobsOf(t) PROVE x \in JobsOf(u)
    <3>1. PICK i \in 1 .. Len(t) : t[i] = x
      BY <1>2 DEF JobsOf
    <3> QED BY <1>2, <1>4, <3>1 DEF JobsOf
  <2> QED BY <2>1, <2>2, <2>3
<1>7. ASSUME NEW x, NEW y, Before(u, x, y)
      PROVE  Before(s, x, y) \/ (x \in JobsOf(u) /\ y \in JobsOf(t))
  <2>1. PICK i, k \in 1 .. Len(u) : i < k /\ u[i] = x /\ u[k] = y
    BY <1>2, <1>7 DEF Before
  <2>2. x \in JobsOf(u)
    BY <1>2, <2>1 DEF JobsOf
  <2>3. CASE k \in 1 .. Len(s)
    <3>1. i \in 1 .. Len(s)
      BY <1>2, <2>1, <2>3
    <3> QED BY <1>2, <1>3, <2>1, <2>3, <3>1 DEF Before
  <2>4. CASE k - Len(s) \in 1 .. Len(t) /\ u[k] = t[k - Len(s)]
    BY <1>2, <2>1, <2>2, <2>4 DEF JobsOf
  <2> QED BY <1>5, <2>3, <2>4
<1> QED BY <1>1, <1>6, <1>7 DEF u

\* Of the jobs that waited (W), ran (R) or are done (D), `total` of them that were waiting
\* or running, the pool n has those that are not over.
Moved(W, R, D, total, n, over) ==
    /\ PoolOK(n) /\ n.active = Len(n.queue) + Cardinality(n.running) + outside
    /\ n.queue # <<>> => n.running # {}
    /\ over \in Seq(Jobs) /\ JobsOf(over) \subseteq W \cup D /\ D \subseteq JobsOf(over)
    /\ JobsOf(n.queue) \subseteq W /\ n.running \subseteq W \cup R
    /\ W \cup R \subseteq JobsOf(n.queue) \cup n.running \cup JobsOf(over)
    /\ total = Len(n.queue) + Cardinality(n.running) + Len(over)

LEMMA FinishEffect ==
    ASSUME finished \in Seq(Jobs), NEW over \in Seq(Jobs), NEW registered, Finish(over, registered)
    PROVE  /\ ended' = ended \cup JobsOf(over)
           /\ finished' \in Seq(Jobs)
           /\ JobsOf(finished') \subseteq JobsOf(finished) \cup JobsOf(over)
           /\ \A x, y : Before(finished', x, y) =>
                  Before(finished, x, y) \/ (x \in JobsOf(finished') /\ y \in JobsOf(over))
           /\ closing => finished' = finished
           /\ ~closing /\ registered => Len(finished') = Len(finished) + Len(over)
<1>1. /\ finished \o over \in Seq(Jobs) /\ Len(finished \o over) = Len(finished) + Len(over)
      /\ JobsOf(finished \o over) = JobsOf(finished) \cup JobsOf(over)
      /\ \A x, y : Before(finished \o over, x, y) =>
             Before(finished, x, y) \/ (x \in JobsOf(finished \o over) /\ y \in JobsOf(over))
  BY ConcatQueue
<1> DEFINE more == finished \o over
<1>2. finished' = IF ~closing /\ registered THEN more ELSE finished
  BY DEF Finish
<1>3. ended' = ended \cup JobsOf(over)
  BY DEF Finish
<1> HIDE DEF more
<1>4. CASE ~closing /\ registered
  <2>1. finished' = more
    BY <1>2, <1>4
  <2> QED BY <1>1, <1>3, <1>4, <2>1 DEF more
<1>5. CASE ~ (~closing /\ registered)
  <2>1. finished' = finished
    BY <1>2, <1>5
  <2> QED BY <1>3, <1>5, <2>1
<1> QED BY <1>4, <1>5

-----------------------------------------------------------------------------
(* Steps.                                                                   *)

LEMMA SameJobs ==
    ASSUME kind' = kind
    PROVE  /\ PoolOK(pool') => PoolOK(pool)'
           /\ \A x, y : SameTopic(x, y)' <=> SameTopic(x, y)
           /\ \A x : TopicOf(x)' = TopicOf(x)
           /\ \A x : Stale(x)' <=> \E k \in 1 .. submitted' : x < k /\ SameTopic(x, k)
<1>1. \A x, y : SameLane(x, y)' <=> SameLane(x, y)
  BY DEF SameLane, LaneOf
<1>2. LanesOf(pool'.running) = LanesOf(pool.running)'
  BY DEF LanesOf, LaneOf
<1>3. QueueOK(pool') => QueueOK(pool)'
  BY <1>1 DEF QueueOK, Before, Distinct, JobsOf
<1>4. RunningOK(pool') => RunningOK(pool)'
  BY <1>1, <1>2 DEF RunningOK
<1>5. PoolOK(pool') => PoolOK(pool)'
  BY <1>3, <1>4 DEF PoolOK
<1>6. \A x, y : SameTopic(x, y)' <=> SameTopic(x, y)
  BY DEF SameTopic, TopicOf
<1>7. \A x : TopicOf(x)' = TopicOf(x)
  BY DEF TopicOf
<1>8. \A x : Stale(x)' <=> \E k \in 1 .. submitted' : x < k /\ SameTopic(x, k)
  BY <1>6 DEF Stale
<1> QED BY <1>5, <1>6, <1>7, <1>8

\* Whatever moves jobs on in order, and hands over the results that are owed, keeps the
\* invariant.
LEMMA MovedKeeps ==
    ASSUME RegistryInv, kind' = kind, shown' = shown, closing' = closing, outside' = outside,
           superseded \subseteq superseded', submitted' \in Nat, submitted <= submitted',
           NEW W, NEW R, NEW D, NEW total, NEW over, NEW registered,
           Moved(W, R, D, total, pool', over), Finish(over, registered),
           W \cup R \cup D \subseteq 1 .. submitted',
           \A j \in W : ~ Stale(j)', \A j \in R \cup D : Stale(j)' => j \in superseded',
           ~closing => registered /\ owed' = total + Len(finished),
           \A j \in 1 .. submitted' : TopicOf(j) = Nothing => j \in W \cup R \cup D \cup ended
    PROVE  /\ PoolInv' /\ NumberedInv' /\ FreshInv'
           /\ finished' \in Seq(Jobs) /\ ended' \subseteq Jobs
           /\ ~closing => owed' = Len(pool'.queue) + Cardinality(pool'.running) + Len(finished')
           /\ closing => finished' = <<>>
<1>1. finished \in Seq(Jobs) /\ ended \subseteq Jobs /\ over \in Seq(Jobs)
  BY DEF RegistryInv, TypeInv, Moved
<1>2. /\ ended' = ended \cup JobsOf(over)
      /\ finished' \in Seq(Jobs)
      /\ JobsOf(finished') \subseteq JobsOf(finished) \cup JobsOf(over)
      /\ \A x, y : Before(finished', x, y) =>
             Before(finished, x, y) \/ (x \in JobsOf(finished') /\ y \in JobsOf(over))
      /\ closing => finished' = finished
      /\ ~closing /\ registered => Len(finished') = Len(finished) + Len(over)
  BY <1>1, FinishEffect
<1>3. JobsOf(over) \subseteq Jobs
  BY <1>1, CountDistinct DEF JobsOf
<1>4. PoolInv'
  BY SameJobs DEF Moved, PoolInv
<1>5. /\ JobsOf(pool.queue)' = JobsOf(pool'.queue) /\ JobsOf(finished)' = JobsOf(finished')
      /\ JobsOf(shown)' = JobsOf(shown)
  BY DEF JobsOf
<1>6. 1 .. submitted \subseteq 1 .. submitted' /\ 1 .. submitted' \subseteq Nat
  BY DEF RegistryInv, TypeInv
<1>7. /\ JobsOf(pool'.queue) \subseteq W /\ pool'.running \subseteq W \cup R
      /\ JobsOf(over) \subseteq W \cup D
      /\ W \cup R \cup D \subseteq JobsOf(pool'.queue) \cup pool'.running \cup JobsOf(over)
  BY DEF Moved
<1>8. JobsOf(finished) \subseteq 1 .. submitted /\ JobsOf(shown) \subseteq 1 .. submitted
  BY DEF RegistryInv, NumberedInv
<1>9. JobsOf(finished') \subseteq 1 .. submitted'
  BY <1>2, <1>6, <1>7, <1>8
<1>10. NumberedInv'
  <2>1. \A j \in 1 .. submitted' : TopicOf(j)' = Nothing => j \in JobsOf(pool'.queue) \cup pool'.running \cup ended'
    BY <1>2, <1>7, SameJobs
  <2>2. JobsOf(pool'.queue) \subseteq 1 .. submitted' /\ pool'.running \subseteq 1 .. submitted'
    BY <1>7
  <2>3. JobsOf(shown) \subseteq 1 .. submitted'
    BY <1>6, <1>8
  <2> QED BY <1>5, <1>9, <2>1, <2>2, <2>3 DEF NumberedInv
<1>11. FreshInv'
  <2>1. \A j \in JobsOf(pool'.queue) : ~ Stale(j)'
    BY <1>7
  <2>2. \A j \in pool'.running : Stale(j)' => j \in superseded'
    BY <1>7
  <2>3. ASSUME NEW x \in 1 .. submitted', NEW y \in JobsOf(over), y < x, SameTopic(y, x)
        PROVE  y \in superseded'
    <3>1. Stale(y)'
      BY <2>3, SameJobs
    <3> QED BY <1>7, <2>3, <3>1
  <2>4. ASSUME NEW x, NEW y, Before(finished', x, y), y < x, SameTopic(y, x)
        PROVE  y \in superseded'
    <3>1. CASE Before(finished, x, y)
      BY <2>4, <3>1 DEF RegistryInv, FreshInv
    <3>2. CASE x \in JobsOf(finished') /\ y \in JobsOf(over)
      BY <1>9, <2>3, <2>4, <3>2
    <3> QED BY <1>2, <2>4, <3>1, <3>2
  <2>5. ASSUME NEW x \in JobsOf(shown), NEW y \in JobsOf(finished'), y < x, SameTopic(y, x)
        PROVE  y \in superseded'
    <3>1. CASE y \in JobsOf(finished)
      BY <2>5, <3>1 DEF RegistryInv, FreshInv
    <3>2. CASE y \in JobsOf(over)
      BY <1>6, <1>8, <2>3, <2>5, <3>2
    <3> QED BY <1>2, <3>1, <3>2
  <2>6. \A x, y : Before(shown, x, y) /\ y < x => ~ SameTopic(y, x)
    BY DEF RegistryInv, FreshInv
  <2>7. \A x, y : /\ Before(finished, x, y)' <=> Before(finished', x, y)
                  /\ Before(shown, x, y)' <=> Before(shown, x, y)
                  /\ SameTopic(x, y)' <=> SameTopic(x, y)
    BY SameJobs DEF Before
  <2> QED BY <1>5, <2>1, <2>2, <2>4, <2>5, <2>6, <2>7 DEF FreshInv
<1>12. ASSUME ~closing PROVE owed' = Len(pool'.queue) + Cardinality(pool'.running) + Len(finished')
  <2>1. total = Len(pool'.queue) + Cardinality(pool'.running) + Len(over) /\ PoolOK(pool')
    BY DEF Moved
  <2>2. /\ Len(pool'.queue) \in Nat /\ Cardinality(pool'.running) \in Nat
        /\ Len(over) \in Nat /\ Len(finished) \in Nat
    BY <1>1, <2>1, LenProperties, RunningIsFinite DEF PoolOK, QueueOK, RunningOK
  <2>3. Len(finished') = Len(finished) + Len(over) /\ owed' = total + Len(finished)
    BY <1>2, <1>12
  <2> QED BY <2>1, <2>2, <2>3
<1>13. closing => finished' = <<>>
  BY <1>2 DEF RegistryInv, ClosedInv
<1> QED BY <1>2, <1>3, <1>4, <1>10, <1>11, <1>12, <1>13, <1>1

\* n is p with another queue; t is part of the queue q, and one job longer.
Requeued(n, p, t, a) == n = [p EXCEPT !.queue = t, !.active = a]
PartOf(t, q, jobs) == t = Those(q, jobs)
Longer(t, q, j) == t = Append(q, j)
Newest(j, p) == \A x \in JobsOf(p.queue) \cup p.running : x < j
OneMore(n, p, j, a) ==
    /\ PoolOK(n) /\ n.running = p.running /\ n.active = a
    /\ JobsOf(n.queue) = JobsOf(p.queue) \cup {j} /\ Len(n.queue) = Len(p.queue) + 1

\* Jobs are taken off the queue, in submission and in shutdown.
LEMMA FewerWait ==
    ASSUME NEW p, PoolOK(p), NEW jobs, NEW a, NEW t, PartOf(t, p.queue, jobs),
           NEW n, Requeued(n, p, t, a)
    PROVE  /\ PoolOK(n) /\ n.running = p.running /\ n.active = a /\ n.queue = t
           /\ JobsOf(t) = JobsOf(p.queue) \cap jobs
<1>1. QueueOK(p) /\ RunningOK(p)
  BY DEF PoolOK
<1>2. /\ t \in Seq(Jobs) /\ Distinct(t)
      /\ JobsOf(t) = JobsOf(p.queue) \cap jobs
      /\ \A x, y : Before(t, x, y) => Before(p.queue, x, y)
  BY <1>1, ThoseQueue DEF QueueOK, PartOf
<1>3. n = [queue |-> t, running |-> p.running, lanes |-> p.lanes, threads |-> p.threads, active |-> a]
  BY DEF PoolOK, Requeued
<1>4. n.queue = t /\ n.running = p.running /\ n.lanes = p.lanes /\ n.threads = p.threads /\ n.active = a
  BY <1>3
<1>5. QueueOK(n)
  <2>1. \A x, y : Before(t, x, y) /\ SameLane(x, y) => x < y
    BY <1>1, <1>2 DEF QueueOK
  <2>2. \A x \in p.running, y \in JobsOf(t) : SameLane(x, y) => x < y
    BY <1>1, <1>2 DEF QueueOK
  <2>3. JobsOf(t) \cap p.running = {}
    BY <1>1, <1>2 DEF QueueOK
  <2> QED BY <1>2, <1>4, <2>1, <2>2, <2>3 DEF QueueOK
<1>6. RunningOK(n)
  BY <1>1, <1>4 DEF RunningOK
<1> QED BY <1>2, <1>3, <1>4, <1>5, <1>6 DEF PoolOK

\* A job is submitted.
LEMMA OneMoreWaits ==
    ASSUME NEW p, PoolOK(p), NEW j \in Jobs, NEW a,
           Newest(j, p),
           NEW t, Longer(t, p.queue, j), NEW n, Requeued(n, p, t, a)
    PROVE  OneMore(n, p, j, a)
<1>1. QueueOK(p) /\ RunningOK(p) /\ j \in Nat
  BY JobNumbers DEF PoolOK
<1>2. j \notin JobsOf(p.queue) /\ j \notin p.running /\ \A x \in JobsOf(p.queue) \cup p.running : x < j
  BY <1>1 DEF Newest
<1>3. /\ t \in Seq(Jobs) /\ Len(t) = Len(p.queue) + 1
      /\ JobsOf(t) = JobsOf(p.queue) \cup {j}
      /\ Distinct(t)
      /\ \A x, y : Before(t, x, y) => Before(p.queue, x, y) \/ (x \in JobsOf(p.queue) /\ y = j)
  BY <1>1, <1>2, AppendQueue DEF QueueOK, Longer
<1>4. n = [queue |-> t, running |-> p.running, lanes |-> p.lanes, threads |-> p.threads, active |-> a]
  BY DEF PoolOK, Requeued
<1>5. n.queue = t /\ n.running = p.running /\ n.lanes = p.lanes /\ n.threads = p.threads /\ n.active = a
  BY <1>4
<1>6. QueueOK(n)
  <2>1. \A x, y : Before(t, x, y) /\ SameLane(x, y) => x < y
    BY <1>1, <1>2, <1>3 DEF QueueOK
  <2>2. \A x \in p.running, y \in JobsOf(t) : SameLane(x, y) => x < y
    BY <1>1, <1>2, <1>3 DEF QueueOK
  <2>3. JobsOf(t) \cap p.running = {}
    BY <1>1, <1>2, <1>3 DEF QueueOK
  <2> QED BY <1>3, <1>5, <2>1, <2>2, <2>3 DEF QueueOK
<1>7. RunningOK(n)
  BY <1>1, <1>5 DEF RunningOK
<1> QED BY <1>3, <1>4, <1>5, <1>6, <1>7 DEF PoolOK, OneMore

LEMMA PoolCounts ==
    ASSUME RegistryInv
    PROVE  /\ PoolOK(pool) /\ QueueOK(pool) /\ RunningOK(pool)
           /\ pool.queue \in Seq(Jobs) /\ Len(pool.queue) \in Nat
           /\ pool.running \subseteq Jobs /\ JobsOf(pool.queue) \subseteq Jobs
           /\ IsFiniteSet(pool.running) /\ Cardinality(pool.running) \in Nat
           /\ outside \in Nat /\ Len(finished) \in Nat /\ faults \in 0 .. MaxFaults
           /\ pool.active = Len(pool.queue) + Cardinality(pool.running) + outside /\ pool.active \in Nat
<1>1. PoolOK(pool) /\ QueueOK(pool) /\ RunningOK(pool)
  BY DEF RegistryInv, PoolInv, PoolOK
<1>2. /\ pool.queue \in Seq(Jobs) /\ Len(pool.queue) \in Nat /\ pool.running \subseteq Jobs
      /\ JobsOf(pool.queue) \subseteq Jobs
      /\ IsFiniteSet(pool.running) /\ Cardinality(pool.running) \in Nat
  BY <1>1, LenProperties, CountDistinct, RunningIsFinite DEF QueueOK, RunningOK
<1>3. outside \in Nat /\ Len(finished) \in Nat /\ faults \in 0 .. MaxFaults
  BY PoolAssumption, LenProperties DEF RegistryInv, TypeInv
<1>4. pool.active = Len(pool.queue) + Cardinality(pool.running) + outside
  BY DEF RegistryInv, PoolInv
<1>5. pool.active \in Nat
  BY <1>2, <1>3, <1>4
<1> QED BY <1>1, <1>2, <1>3, <1>4, <1>5

\* A finished job's thread goes on with the next one, and perhaps other threads start.
LEMMA JobDoneMoves ==
    ASSUME RegistryInv, NEW j \in Jobs, JobDone(j)
    PROVE  /\ faults' \in 0 .. MaxFaults
           /\ \E over : /\ Moved(JobsOf(pool.queue), pool.running \ {j}, {j},
                                 Len(pool.queue) + Cardinality(pool.running), pool', over)
                        /\ Finish(over, known)
<1> DEFINE rest == [pool EXCEPT !.running = @ \ {j}, !.lanes = @ \ LanesOf({j}), !.active = @ - 1]
           left == [pool EXCEPT !.running = @ \ {j}, !.lanes = @ \ LanesOf({j}),
                                !.threads = @ - 1, !.active = @ - 1]
           next == {Head(Ready(rest))}
           on == [rest EXCEPT !.queue = Without(@, next), !.running = @ \cup next, !.lanes = @ \cup LanesOf(next)]
<1>0. /\ PoolOK(pool) /\ pool.queue \in Seq(Jobs) /\ Len(pool.queue) \in Nat
      /\ pool.active \in Int /\ faults \in 0 .. MaxFaults /\ outside \in Nat
      /\ pool.active = Len(pool.queue) + Cardinality(pool.running) + outside
      /\ Cardinality(pool.running) \in Nat /\ pool.threads = Cardinality(pool.running)
  BY PoolCounts DEF RunningOK
<1>1. j \in pool.running
  BY DEF JobDone
<1>2. /\ PoolOK(left) /\ left.active = pool.active - 1
      /\ left.queue = pool.queue /\ left.running = pool.running \ {j}
      /\ Cardinality(left.running) = Cardinality(pool.running) - 1
  BY <1>0, <1>1, JobLeaves
<1>3. Ready(rest) = Ready(left)
  <2>1. rest.queue = left.queue /\ rest.lanes = left.lanes
    BY <1>0 DEF PoolOK
  <2> HIDE DEF rest, left
  <2> QED BY <2>1 DEF Ready
<1>4. <<j>> \in Seq(Jobs) /\ JobsOf(<<j>>) = {j} /\ Len(<<j>>) = 1
  BY DEF JobsOf
<1>5. CASE Ready(rest) = <<>>
  <2>1. pool' = [rest EXCEPT !.threads = @ - 1] /\ Finish(<<j>>, known) /\ faults' = faults
    BY <1>5 DEF JobDone
  <2>2. pool' = left
    BY <1>0, <2>1 DEF PoolOK
  <2> HIDE DEF rest, left
  <2>3. left.queue # <<>> => left.running # {}
    <3>1. QueueOK(left) /\ RunningOK(left)
      BY <1>2 DEF PoolOK
    <3>2. left.running = {} => left.lanes = {}
      BY <3>1 DEF RunningOK, LanesOf
    <3> QED BY <1>3, <1>5, <3>1, <3>2, ReadyJobs
  <2>4. left.active = Len(left.queue) + Cardinality(left.running) + outside
    BY <1>0, <1>2
  <2>5. Len(pool.queue) + Cardinality(pool.running) = Len(left.queue) + Cardinality(left.running) + Len(<<j>>)
    <3>1. \A a, b \in Nat : a + b = a + (b - 1) + 1
      OBVIOUS
    <3>2. Len(pool.queue) + Cardinality(pool.running) = Len(pool.queue) + (Cardinality(pool.running) - 1) + 1
      BY <1>0, <3>1
    <3> QED BY <1>2, <1>4, <3>2, Zenon
  <2>6. Moved(JobsOf(pool.queue), pool.running \ {j}, {j}, Len(pool.queue) + Cardinality(pool.running), left, <<j>>)
    BY <1>2, <1>4, <2>3, <2>4, <2>5 DEF Moved
  <2> QED BY <1>0, <2>1, <2>2, <2>6
<1>6. CASE Ready(rest) # <<>>
  <2>1. StartThreads(on, <<j>>, known)
    BY <1>6 DEF JobDone
  <2>2. next \subseteq JobsOf(Ready(left)) /\ Cardinality(next) = 1
    <3> DEFINE r == Ready(left)
    <3>1. r \in Seq(Jobs) /\ r # <<>> /\ Head(Ready(rest)) = Head(r)
      BY <1>2, <1>3, <1>6, ReadyJobs DEF PoolOK
    <3> HIDE DEF r
    <3>2. Len(r) \in Nat \ {0} /\ DOMAIN r = 1 .. Len(r) /\ Head(r) = r[1]
      BY <3>1, EmptySeq, LenProperties
    <3>3. Head(r) \in JobsOf(r)
      BY <3>2 DEF JobsOf
    <3> QED BY <3>1, <3>3, FS_Singleton DEF r
  <2>3. on = Taken(left, next)
    <3> DEFINE h == Head(Ready(rest))
    <3>1. pool = [queue |-> pool.queue, running |-> pool.running, lanes |-> pool.lanes,
                  threads |-> pool.threads, active |-> pool.active]
      BY <1>0 DEF PoolOK
    <3>2. pool.threads - 1 + Cardinality(next) = pool.threads
      BY <1>0, <2>2
    <3> HIDE DEF next
    <3> QED BY <3>1, <3>2 DEF Taken
  <2> HIDE DEF rest, left, on, next
  <2>4. left.threads + Cardinality(next) <= MaxWorkers
    <3>1. left.threads = Cardinality(pool.running) - 1 /\ Cardinality(pool.running) <= MaxWorkers
      BY <1>0, <1>2 DEF PoolOK, RunningOK
    <3> QED BY <1>0, <2>2, <3>1, PoolAssumption
  <2>5. /\ PoolOK(on) /\ on.active = left.active
        /\ on.running = left.running \cup next
        /\ JobsOf(on.queue) = JobsOf(left.queue) \ next /\ next \subseteq JobsOf(left.queue)
        /\ Len(on.queue) = Len(left.queue) - 1
        /\ Cardinality(on.running) = Cardinality(left.running) + 1
    <3>1. PoolOK(left) /\ next \in SUBSET JobsOf(Ready(left))
      BY <1>2, <2>2
    <3>2. /\ PoolOK(on) /\ on.active = left.active
          /\ on.running = left.running \cup next
          /\ JobsOf(on.queue) = JobsOf(left.queue) \ next /\ next \subseteq JobsOf(left.queue)
          /\ Len(on.queue) = Len(left.queue) - Cardinality(next)
          /\ Cardinality(on.running) = Cardinality(left.running) + Cardinality(next)
      BY <2>3, <2>4, <3>1, TakeJobs
    <3> QED BY <2>2, <3>2
  <2>6. on.active \in Int
    BY <1>0, <1>2, <2>5
  <2>7. faults' \in 0 .. MaxFaults /\ \E lost : Started(on, pool', lost) /\ Finish(<<j>> \o lost, known)
    BY <1>0, <1>4, <2>1, <2>5, <2>6, StartThreadsEffect
  <2>8. PICK lost : Started(on, pool', lost) /\ Finish(<<j>> \o lost, known)
    BY <2>7
  <2>9. /\ PoolOK(pool') /\ lost \in Seq(Jobs) /\ JobsOf(lost) \subseteq JobsOf(on.queue)
        /\ JobsOf(pool'.queue) \subseteq JobsOf(on.queue)
        /\ pool'.running \subseteq on.running \cup JobsOf(on.queue)
        /\ JobsOf(on.queue) \cup on.running \subseteq JobsOf(pool'.queue) \cup pool'.running \cup JobsOf(lost)
        /\ Len(on.queue) + Cardinality(on.running) = Len(pool'.queue) + Cardinality(pool'.running) + Len(lost)
        /\ pool'.active = on.active - Len(lost)
        /\ pool'.queue # <<>> => pool'.running # {}
    BY <2>8 DEF Started
  <2> DEFINE over == <<j>> \o lost
  <2>10. over \in Seq(Jobs) /\ Len(over) = 1 + Len(lost) /\ JobsOf(over) = {j} \cup JobsOf(lost)
    BY <1>4, <2>9, ConcatQueue
  <2>11. Len(lost) \in Nat /\ Len(pool'.queue) \in Nat /\ Cardinality(pool'.running) \in Nat
    BY <2>9, LenProperties, RunningIsFinite DEF PoolOK, QueueOK, RunningOK
  <2> HIDE DEF over
  <2>12. /\ Len(on.queue) = Len(pool.queue) - 1
         /\ Cardinality(on.running) = Cardinality(pool.running) - 1 + 1
         /\ on.active = pool.active - 1
    BY <1>2, <2>5
  <2>13. /\ pool'.active = Len(pool'.queue) + Cardinality(pool'.running) + outside
         /\ Len(pool.queue) + Cardinality(pool.running) = Len(pool'.queue) + Cardinality(pool'.running) + Len(over)
    <3>1. PICK q, r, o, l, b, c \in Nat :
              /\ q = Len(pool.queue) /\ r = Cardinality(pool.running) /\ o = outside /\ l = Len(lost)
              /\ b = Len(pool'.queue) /\ c = Cardinality(pool'.running)
      BY <1>0, <2>11
    <3>2. /\ Len(on.queue) + Cardinality(on.running) = b + c + l
          /\ pool'.active = on.active - l /\ Len(over) = 1 + l /\ pool.active = q + r + o
      BY <1>0, <2>9, <2>10, <3>1
    <3>3. Len(on.queue) = q - 1 /\ Cardinality(on.running) = r /\ on.active = q + r + o - 1
      <4>1. Len(on.queue) = q - 1 /\ Cardinality(on.running) = r - 1 + 1 /\ on.active = q + r + o - 1
        <5>1. Len(on.queue) = q - 1
          BY <2>12, <3>1
        <5>2. Cardinality(on.running) = r - 1 + 1
          BY <2>12, <3>1, Zenon
        <5>3. on.active = q + r + o - 1
          BY <2>12, <3>2
        <5> QED BY <5>1, <5>2, <5>3
      <4>2. r - 1 + 1 = r
        OBVIOUS
      <4> QED BY <4>1, <4>2
    <3>4. pool'.active = b + c + o /\ q + r = b + c + Len(over)
      BY <3>2, <3>3
    <3> QED BY <3>1, <3>4, Zenon
  <2>14. /\ JobsOf(pool'.queue) \subseteq JobsOf(pool.queue)
         /\ pool'.running \subseteq JobsOf(pool.queue) \cup (pool.running \ {j})
         /\ JobsOf(over) \subseteq JobsOf(pool.queue) \cup {j} /\ {j} \subseteq JobsOf(over)
         /\ JobsOf(pool.queue) \cup (pool.running \ {j})
                \subseteq JobsOf(pool'.queue) \cup pool'.running \cup JobsOf(over)
    BY <1>2, <2>5, <2>9, <2>10
  <2>15. Moved(JobsOf(pool.queue), pool.running \ {j}, {j}, Len(pool.queue) + Cardinality(pool.running), pool', over)
    BY <2>9, <2>10, <2>13, <2>14 DEF Moved
  <2> QED BY <2>7, <2>8, <2>15 DEF over
<1> QED BY <1>5, <1>6

WithActive(p, a) == [p EXCEPT !.active = a]

LEMMA OtherActive ==
    ASSUME NEW p, PoolOK(p), NEW a, NEW n, n = WithActive(p, a)
    PROVE  PoolOK(n) /\ n.queue = p.queue /\ n.running = p.running /\ n.active = a
<1>1. n = [queue |-> p.queue, running |-> p.running, lanes |-> p.lanes, threads |-> p.threads, active |-> a]
  BY DEF PoolOK, WithActive
<1>2. n.queue = p.queue /\ n.running = p.running /\ n.lanes = p.lanes /\ n.threads = p.threads /\ n.active = a
  BY <1>1
<1>3. QueueOK(n) /\ RunningOK(n)
  BY <1>2 DEF PoolOK, QueueOK, RunningOK
<1> QED BY <1>1, <1>2, <1>3 DEF PoolOK

\* The two ends of a submission: m is the pool without the jobs that the new one replaces,
\* with the new one counted.
LEMMA RefusedMoves ==
    ASSUME NEW m, PoolOK(m), outside \in Nat,
           m.active = Len(m.queue) + Cardinality(m.running) + outside + 1,
           m.queue # <<>> => m.running # {},
           NEW j \in Jobs, NEW n, n = WithActive(m, m.active - 1)
    PROVE  Moved(JobsOf(m.queue) \cup {j}, m.running, {},
                 Len(m.queue) + 1 + Cardinality(m.running), n, <<j>>)
<1>1. PoolOK(n) /\ n.queue = m.queue /\ n.running = m.running /\ n.active = m.active - 1
  BY OtherActive
<1>2. <<j>> \in Seq(Jobs) /\ JobsOf(<<j>>) = {j} /\ Len(<<j>>) = 1
  BY DEF JobsOf
<1>3. Len(m.queue) \in Nat /\ Cardinality(m.running) \in Nat
  BY LenProperties, RunningIsFinite DEF PoolOK, QueueOK, RunningOK
<1>4. PICK q, r, o \in Nat : q = Len(m.queue) /\ r = Cardinality(m.running) /\ o = outside
  BY <1>3
<1>5. Len(n.queue) = q /\ Cardinality(n.running) = r
  BY <1>1, <1>4
<1>6. n.active = q + r + o /\ q + 1 + r = q + r + 1
  <2>1. m.active = q + r + o + 1
    BY <1>4
  <2>2. n.active = q + r + o + 1 - 1
    BY <1>1, <2>1
  <2>3. q + r + o + 1 - 1 = q + r + o /\ q + 1 + r = q + r + 1
    OBVIOUS
  <2> QED BY <2>2, <2>3
<1>7. n.active = Len(n.queue) + Cardinality(n.running) + outside
  BY <1>4, <1>5, <1>6, Zenon
<1>8. Len(m.queue) + 1 + Cardinality(m.running) = Len(n.queue) + Cardinality(n.running) + Len(<<j>>)
  BY <1>2, <1>4, <1>5, <1>6, Zenon
<1>9. n.queue # <<>> => n.running # {}
  BY <1>1
<1>10. /\ JobsOf(n.queue) \subseteq JobsOf(m.queue) \cup {j}
       /\ JobsOf(<<j>>) \subseteq (JobsOf(m.queue) \cup {j}) \cup {}
       /\ JobsOf(m.queue) \cup {j} \cup m.running \subseteq JobsOf(n.queue) \cup n.running \cup JobsOf(<<j>>)
       /\ n.running \subseteq JobsOf(m.queue) \cup {j} \cup m.running
  BY <1>1, <1>2
<1> QED BY <1>1, <1>2, <1>7, <1>8, <1>9, <1>10 DEF Moved

LEMMA WaitingMoves ==
    ASSUME NEW m, PoolOK(m), outside \in Nat,
           m.active = Len(m.queue) + Cardinality(m.running) + outside + 1,
           NEW j \in Jobs, faults \in 0 .. MaxFaults,
           NEW n, PoolOK(n), n.running = m.running, n.active = m.active,
           JobsOf(n.queue) = JobsOf(m.queue) \cup {j}, Len(n.queue) = Len(m.queue) + 1,
           StartThreads(n, <<>>, TRUE)
    PROVE  /\ faults' \in 0 .. MaxFaults
           /\ \E over : /\ Moved(JobsOf(m.queue) \cup {j}, m.running, {},
                                 Len(m.queue) + 1 + Cardinality(m.running), pool', over)
                        /\ Finish(over, TRUE)
<1>1. /\ PoolOK(n) /\ n.running = m.running /\ n.active = m.active
      /\ JobsOf(n.queue) = JobsOf(m.queue) \cup {j} /\ Len(n.queue) = Len(m.queue) + 1
  OBVIOUS
<1>2. Len(m.queue) \in Nat /\ Cardinality(m.running) \in Nat
  BY LenProperties, RunningIsFinite DEF PoolOK, QueueOK, RunningOK
<1>3. PICK q, r, o \in Nat : q = Len(m.queue) /\ r = Cardinality(m.running) /\ o = outside
  BY <1>2
<1>4. n.active = q + r + o + 1 /\ Len(n.queue) = q + 1 /\ Cardinality(n.running) = r
  BY <1>1, <1>3
<1>5. n.active \in Int /\ <<>> \in Seq(Jobs)
  BY <1>4, EmptySeq
<1>6. faults' \in 0 .. MaxFaults /\ \E lost : Started(n, pool', lost) /\ Finish(<<>> \o lost, TRUE)
  BY <1>1, <1>5, StartThreadsEffect
<1>7. PICK lost : Started(n, pool', lost) /\ Finish(<<>> \o lost, TRUE)
  BY <1>6
<1>8. /\ PoolOK(pool') /\ lost \in Seq(Jobs) /\ JobsOf(lost) \subseteq JobsOf(n.queue)
      /\ JobsOf(pool'.queue) \subseteq JobsOf(n.queue)
      /\ pool'.running \subseteq n.running \cup JobsOf(n.queue)
      /\ JobsOf(n.queue) \cup n.running \subseteq JobsOf(pool'.queue) \cup pool'.running \cup JobsOf(lost)
      /\ Len(n.queue) + Cardinality(n.running) = Len(pool'.queue) + Cardinality(pool'.running) + Len(lost)
      /\ pool'.active = n.active - Len(lost)
      /\ pool'.queue # <<>> => pool'.running # {}
  BY <1>7 DEF Started
<1>9. Finish(lost, TRUE)
  <2>1. <<>> \o lost = lost
    BY <1>8, ConcatEmptySeq
  <2> QED BY <1>7, <2>1
<1>10. Len(lost) \in Nat /\ Len(pool'.queue) \in Nat /\ Cardinality(pool'.running) \in Nat
  <2>1. pool'.queue \in Seq(Jobs) /\ pool'.running \subseteq Jobs
    BY <1>8 DEF PoolOK, QueueOK, RunningOK
  <2> QED BY <1>8, <2>1, LenProperties, RunningIsFinite
<1>11. PICK b, c, l \in Nat : b = Len(pool'.queue) /\ c = Cardinality(pool'.running) /\ l = Len(lost)
  BY <1>10
<1>12. q + 1 + r = b + c + l
  BY <1>4, <1>8, <1>11, Zenon
<1>13. pool'.active = q + r + o + 1 - l
  <2>1. pool'.active = n.active - l
    BY <1>8, <1>11, Zenon
  <2> QED BY <1>4, <2>1
<1>14. pool'.active = b + c + o
  BY <1>12, <1>13
<1>15. pool'.active = Len(pool'.queue) + Cardinality(pool'.running) + outside
  BY <1>3, <1>11, <1>14, Zenon
<1>16. Len(m.queue) + 1 + Cardinality(m.running) = Len(pool'.queue) + Cardinality(pool'.running) + Len(lost)
  BY <1>3, <1>11, <1>12, Zenon
<1>17. /\ JobsOf(pool'.queue) \subseteq JobsOf(m.queue) \cup {j}
       /\ pool'.running \subseteq JobsOf(m.queue) \cup {j} \cup m.running
       /\ JobsOf(lost) \subseteq (JobsOf(m.queue) \cup {j}) \cup {} /\ {} \subseteq JobsOf(lost)
       /\ JobsOf(m.queue) \cup {j} \cup m.running \subseteq JobsOf(pool'.queue) \cup pool'.running \cup JobsOf(lost)
  BY <1>1, <1>8
<1>18. Moved(JobsOf(m.queue) \cup {j}, m.running, {}, Len(m.queue) + 1 + Cardinality(m.running), pool', lost)
  BY <1>8, <1>15, <1>16, <1>17 DEF Moved
<1> QED BY <1>6, <1>9, <1>18

\* A submitted job takes the place of those it makes obsolete; it is refused at once, or it
\* waits and perhaps threads start.
LEMMA SubmitMoves ==
    ASSUME RegistryInv, Submit, NEW j, j = submitted + 1,
           NEW replaced, replaced = Rivals(JobsOf(pool.queue), TopicOf(j))
    PROVE  /\ faults' \in 0 .. MaxFaults /\ j \in Jobs
           /\ \E m, over :
                 /\ JobsOf(m.queue) = JobsOf(pool.queue) \ replaced /\ m.running = pool.running
                 /\ Cardinality(replaced) \in Nat /\ Len(m.queue) = Len(pool.queue) - Cardinality(replaced)
                 /\ Moved(JobsOf(m.queue) \cup {j}, m.running, {},
                          Len(m.queue) + 1 + Cardinality(m.running), pool', over)
                 /\ Finish(over, TRUE)
<1> DEFINE refused == TopicOf(j) = Nothing /\ Len(Writes(pool.queue)) >= maxQueued
           p == [pool EXCEPT !.queue = Without(@, replaced), !.active = @ - Cardinality(replaced) + 1]
<1>0. /\ PoolOK(pool) /\ pool.queue \in Seq(Jobs) /\ Len(pool.queue) \in Nat
      /\ pool.active \in Nat /\ faults \in 0 .. MaxFaults /\ outside \in Nat
      /\ pool.active = Len(pool.queue) + Cardinality(pool.running) + outside
      /\ Cardinality(pool.running) \in Nat
      /\ Distinct(pool.queue)
  BY PoolCounts DEF QueueOK
<1>1. j \in Jobs
  BY PoolAssumption DEF Submit, Jobs, RegistryInv, TypeInv
<1>2. IF refused
      THEN pool' = [p EXCEPT !.active = @ - 1] /\ Finish(<<j>>, TRUE) /\ UNCHANGED faults
      ELSE StartThreads([p EXCEPT !.queue = Append(@, j)], <<>>, TRUE)
  BY DEF Submit
<1>3. PICK a, q : a = pool.active - Cardinality(replaced) + 1 /\ q = Without(pool.queue, replaced)
  OBVIOUS
<1>4. PICK m : Requeued(m, pool, q, a)
  BY DEF Requeued
<1>5. p = m
  BY <1>3, <1>4 DEF Requeued
<1> HIDE DEF p, refused
<1>6. /\ q \in Seq(Jobs) /\ JobsOf(q) = JobsOf(pool.queue) \ replaced
      /\ Cardinality(replaced) \in Nat /\ Len(q) = Len(pool.queue) - Cardinality(replaced)
  <2>1. replaced \subseteq JobsOf(pool.queue)
    BY DEF Rivals
  <2>2. pool.queue \in Seq(Jobs) /\ Distinct(pool.queue)
    BY <1>0
  <2>3. q = Without(pool.queue, replaced)
    BY <1>3
  <2> QED BY <2>1, <2>2, <2>3, WithoutQueue
<1>7. PoolOK(m) /\ m.running = pool.running /\ m.active = a /\ m.queue = q
  <2>1. PICK jobs : jobs = JobsOf(pool.queue) \ replaced
    OBVIOUS
  <2>2. PartOf(q, pool.queue, jobs)
    BY <1>3, <2>1 DEF Without, PartOf
  <2>3. PoolOK(pool)
    BY <1>0
  <2> QED BY <1>4, <2>2, <2>3, FewerWait
<1>8. m.active = Len(m.queue) + Cardinality(m.running) + outside + 1
  <2>1. PICK l, r, o, c \in Nat :
          l = Len(pool.queue) /\ r = Cardinality(pool.running) /\ o = outside /\ c = Cardinality(replaced)
    BY <1>0, <1>6
  <2>2. pool.active = l + r + o
    BY <1>0, <2>1, Zenon
  <2>3. a = l + r + o - c + 1
    BY <1>3, <2>1, <2>2
  <2>4. Len(m.queue) = l - c
    BY <1>6, <1>7, <2>1
  <2>5. Cardinality(m.running) = r
    BY <1>7, <2>1
  <2>6. l + r + o - c + 1 = (l - c) + r + o + 1
    OBVIOUS
  <2>7. a = (l - c) + r + o + 1
    BY <2>3, <2>6, Zenon
  <2> QED BY <1>7, <2>1, <2>4, <2>5, <2>7, Zenon
<1>9. CASE refused
  <2>1. pool' = WithActive(m, m.active - 1) /\ Finish(<<j>>, TRUE) /\ faults' = faults
    BY <1>2, <1>5, <1>9 DEF WithActive
  <2>2. m.queue # <<>> => m.running # {}
    <3>1. m.queue # <<>> => pool.queue # <<>>
      BY <1>0, <1>6, <1>7, EmptyQueue
    <3> QED BY <1>7, <3>1 DEF RegistryInv, PoolInv
  <2>3. Moved(JobsOf(m.queue) \cup {j}, m.running, {}, Len(m.queue) + 1 + Cardinality(m.running), pool', <<j>>)
    BY <1>0, <1>1, <1>7, <1>8, <2>1, <2>2, RefusedMoves
  <2> QED BY <1>0, <1>1, <1>6, <1>7, <2>1, <2>3
<1>10. CASE ~refused
  <2>1. PICK t, n : Longer(t, m.queue, j) /\ Requeued(n, m, t, a)
    BY DEF Longer, Requeued
  <2>4. StartThreads(n, <<>>, TRUE)
    <3>1. [m EXCEPT !.queue = Append(@, j)] = n
      BY <1>7, <2>1 DEF PoolOK, Longer, Requeued
    <3> QED BY <1>2, <1>5, <1>10, <3>1
  <2>2. Newest(j, m)
    <3>1. JobsOf(pool.queue) \cup pool.running \subseteq 1 .. submitted /\ submitted \in Nat
      BY PoolAssumption DEF RegistryInv, NumberedInv, TypeInv
    <3>2. \A x \in 1 .. submitted : x < j
      BY <3>1
    <3> QED BY <1>6, <1>7, <3>1, <3>2 DEF Newest
  <2>5. /\ PoolOK(n) /\ n.running = m.running /\ n.active = m.active
        /\ JobsOf(n.queue) = JobsOf(m.queue) \cup {j} /\ Len(n.queue) = Len(m.queue) + 1
    <3>1. PoolOK(m) /\ m.active = a
      BY <1>7
    <3>2. OneMore(n, m, j, a)
      BY <1>1, <2>1, <2>2, <3>1, OneMoreWaits
    <3> QED BY <3>1, <3>2 DEF OneMore
  <2>3. /\ faults' \in 0 .. MaxFaults
        /\ \E over : /\ Moved(JobsOf(m.queue) \cup {j}, m.running, {},
                              Len(m.queue) + 1 + Cardinality(m.running), pool', over)
                     /\ Finish(over, TRUE)
    BY <1>0, <1>1, <1>7, <1>8, <2>4, <2>5, WaitingMoves
  <2> QED BY <1>1, <1>6, <1>7, <2>3
<1> QED BY <1>9, <1>10

-----------------------------------------------------------------------------
(* Every step keeps the inductive invariant.                                *)

LEMMA JobDoneKeeps ==
    ASSUME RegistryInv, NEW j \in Jobs, JobDone(j)
    PROVE  RegistryInv'
<1>0. /\ owed' = owed /\ known' = known /\ polling' = polling /\ tk' = tk /\ dialogs' = dialogs
      /\ superseded' = superseded /\ maxQueued' = maxQueued /\ kind' = kind /\ submitted' = submitted /\ dropped' = dropped
      /\ shown' = shown /\ closing' = closing /\ quiet' = quiet /\ outside' = outside
      /\ j \in pool.running
  BY DEF JobDone, tkVars
<1>1. PICK W, R, D, total : /\ W = JobsOf(pool.queue) /\ R = pool.running \ {j} /\ D = {j}
                            /\ total = Len(pool.queue) + Cardinality(pool.running)
  OBVIOUS
<1>2. faults' \in 0 .. MaxFaults /\ \E over : Moved(W, R, D, total, pool', over) /\ Finish(over, known)
  BY <1>1, JobDoneMoves
<1>3. PICK over : Moved(W, R, D, total, pool', over) /\ Finish(over, known)
  BY <1>2
<1>4. /\ Cardinality(pool.running) \in Nat \ {0} /\ Len(pool.queue) \in Nat /\ Len(finished) \in Nat
      /\ outside \in Nat /\ pool.active = Len(pool.queue) + Cardinality(pool.running) + outside
  <2>1. Cardinality(pool.running) # 0
    BY <1>0, PoolCounts, FS_EmptySet
  <2> QED BY <2>1, PoolCounts
<1>5. ~closing => known /\ owed' = total + Len(finished)
  <2>1. ~closing => owed = Len(pool.queue) + Cardinality(pool.running) + Len(finished)
    BY DEF RegistryInv, OwedInv
  <2>2. owed > 0 => known
    BY DEF RegistryInv, OwedInv
  <2>3. ~closing => owed = total + Len(finished)
    BY <1>1, <2>1
  <2>4. ~closing => owed > 0
    BY <1>4, <2>1
  <2> QED BY <1>0, <2>2, <2>3, <2>4
<1>6. ~quiet
  BY <1>4 DEF RegistryInv, ClosedInv
<1>7. /\ W \cup R \cup D \subseteq 1 .. submitted' /\ submitted' \in Nat /\ submitted <= submitted'
      /\ \A x \in 1 .. submitted' : TopicOf(x) = Nothing => x \in W \cup R \cup D \cup ended
  BY <1>0, <1>1, PoolAssumption DEF RegistryInv, NumberedInv, TypeInv
<1>8. (\A x \in W : ~ Stale(x)') /\ (\A x \in R \cup D : Stale(x)' => x \in superseded')
  <2>1. \A x : Stale(x)' <=> Stale(x)
    BY <1>0, SameJobs DEF Stale
  <2> QED BY <1>0, <1>1, <2>1 DEF RegistryInv, FreshInv
<1>9. /\ PoolInv' /\ NumberedInv' /\ FreshInv'
      /\ finished' \in Seq(Jobs) /\ ended' \subseteq Jobs
      /\ ~closing => owed' = Len(pool'.queue) + Cardinality(pool'.running) + Len(finished')
      /\ closing => finished' = <<>>
  BY <1>0, <1>3, <1>5, <1>7, <1>8, MovedKeeps
<1>10. TypeInv'
  BY <1>0, <1>2, <1>9 DEF RegistryInv, TypeInv
<1>11. OwedInv'
  BY <1>0, <1>9 DEF RegistryInv, OwedInv
<1>12. ClosedInv'
  BY <1>0, <1>6, <1>9 DEF RegistryInv, ClosedInv
<1> QED BY <1>9, <1>10, <1>11, <1>12 DEF RegistryInv

LEMMA SubmitKeeps ==
    ASSUME RegistryInv, Submit
    PROVE  RegistryInv'
<1>1. PICK j, replaced : j = submitted + 1 /\ replaced = Rivals(JobsOf(pool.queue), TopicOf(j))
  OBVIOUS
<1>0. /\ tk \in {"loop", "callback"} /\ ~closing /\ submitted' = j
      /\ superseded' = superseded \cup Outrun(TopicOf(j)) /\ dropped' = dropped \cup replaced
      /\ known' = TRUE /\ owed' = Fewer(owed, replaced) + 1 /\ polling' = TRUE
      /\ closing' = closing /\ quiet' = quiet /\ outside' = outside /\ tk' = tk /\ dialogs' = dialogs
      /\ maxQueued' = maxQueued /\ kind' = kind /\ shown' = shown
  BY <1>1 DEF Submit
<1>2. /\ faults' \in 0 .. MaxFaults /\ j \in Jobs
      /\ \E m, over :
            /\ JobsOf(m.queue) = JobsOf(pool.queue) \ replaced /\ m.running = pool.running
            /\ Cardinality(replaced) \in Nat /\ Len(m.queue) = Len(pool.queue) - Cardinality(replaced)
            /\ Moved(JobsOf(m.queue) \cup {j}, m.running, {},
                     Len(m.queue) + 1 + Cardinality(m.running), pool', over)
            /\ Finish(over, TRUE)
  BY <1>1, SubmitMoves
<1>3. PICK m, over :
            /\ JobsOf(m.queue) = JobsOf(pool.queue) \ replaced /\ m.running = pool.running
            /\ Cardinality(replaced) \in Nat /\ Len(m.queue) = Len(pool.queue) - Cardinality(replaced)
            /\ Moved(JobsOf(m.queue) \cup {j}, m.running, {},
                     Len(m.queue) + 1 + Cardinality(m.running), pool', over)
            /\ Finish(over, TRUE)
  BY <1>2
<1>4. PICK W, R, D, total, registered :
            /\ W = JobsOf(m.queue) \cup {j} /\ R = m.running /\ D = {}
            /\ total = Len(m.queue) + 1 + Cardinality(m.running) /\ registered = TRUE
  OBVIOUS
<1>5. Moved(W, R, D, total, pool', over) /\ Finish(over, registered)
  BY <1>3, <1>4
<1>6. /\ submitted \in Nat /\ j \in Nat /\ submitted' \in Nat /\ submitted <= submitted'
      /\ \A x : x \in 1 .. submitted' <=> x \in 1 .. submitted \/ x = j
  BY <1>0, <1>1, PoolAssumption DEF RegistryInv, TypeInv
<1>7. /\ JobsOf(pool.queue) \subseteq 1 .. submitted /\ pool.running \subseteq 1 .. submitted
      /\ \A x \in 1 .. submitted : TopicOf(x) = Nothing => x \in JobsOf(pool.queue) \cup pool.running \cup ended
  BY DEF RegistryInv, NumberedInv
<1>8. W \cup R \cup D \subseteq 1 .. submitted'
  BY <1>3, <1>4, <1>6, <1>7
<1>9. \A x \in 1 .. submitted' : TopicOf(x) = Nothing => x \in W \cup R \cup D \cup ended
  <2>1. \A x \in replaced : TopicOf(x) # Nothing
    BY <1>1 DEF Rivals
  <2> QED BY <1>3, <1>4, <1>6, <1>7, <2>1
<1>10. \A x : Stale(x)' => Stale(x) \/ (x < j /\ SameTopic(x, j))
  BY <1>0, <1>6, SameJobs DEF Stale
<1>11. \A x \in W : ~ Stale(x)'
  <2> SUFFICES ASSUME NEW x \in W, Stale(x)' PROVE FALSE
    OBVIOUS
  <2>1. CASE x = j
    <3>1. PICK k \in 1 .. submitted' : j < k
      BY <1>0, <2>1, SameJobs
    <3> QED BY <1>0, <1>6, <3>1
  <2>2. CASE x \in JobsOf(pool.queue) \ replaced
    <3>1. ~ Stale(x)
      BY <2>2 DEF RegistryInv, FreshInv
    <3>2. SameTopic(x, j)
      BY <1>10, <3>1
    <3>3. x \in replaced
      BY <1>1, <2>2, <3>2 DEF SameTopic, Rivals
    <3> QED BY <2>2, <3>3
  <2> QED BY <1>3, <1>4, <2>1, <2>2
<1>12. \A x \in R \cup D : Stale(x)' => x \in superseded'
  <2> SUFFICES ASSUME NEW x \in pool.running, Stale(x)' PROVE x \in superseded'
    BY <1>3, <1>4
  <2>1. CASE Stale(x)
    BY <1>0, <2>1 DEF RegistryInv, FreshInv
  <2>2. CASE SameTopic(x, j)
    BY <1>0, <2>2 DEF SameTopic, Outrun, Rivals
  <2> QED BY <1>10, <2>1, <2>2
<1>13. owed' = total + Len(finished)
  <2>1. owed = Len(pool.queue) + Cardinality(pool.running) + Len(finished)
    BY <1>0 DEF RegistryInv, OwedInv
  <2>2. PICK l, r, f, c \in Nat :
          l = Len(pool.queue) /\ r = Cardinality(pool.running) /\ f = Len(finished) /\ c = Cardinality(replaced)
    BY <1>3, PoolCounts
  <2>3. owed' = l + r + f - c + 1
    <3>1. owed = l + r + f
      BY <2>1, <2>2, Zenon
    <3>2. owed' = owed - c + 1
      BY <1>0, <2>2, Zenon DEF Fewer
    <3> QED BY <3>1, <3>2
  <2>4. Len(m.queue) = l - c /\ Cardinality(m.running) = r
    BY <1>3, <2>2
  <2>5. total = l - c + 1 + r
    BY <1>4, <2>4, Zenon
  <2>6. l + r + f - c + 1 = l - c + 1 + r + f
    OBVIOUS
  <2> QED BY <2>2, <2>3, <2>5, <2>6, Zenon
<1>14. superseded \subseteq superseded' /\ registered
  BY <1>0, <1>4
<1>15. /\ PoolInv' /\ NumberedInv' /\ FreshInv'
       /\ finished' \in Seq(Jobs) /\ ended' \subseteq Jobs
       /\ ~closing => owed' = Len(pool'.queue) + Cardinality(pool'.running) + Len(finished')
  <2>1. /\ kind' = kind /\ shown' = shown /\ closing' = closing /\ outside' = outside
        /\ superseded \subseteq superseded' /\ submitted' \in Nat /\ submitted <= submitted'
        /\ ~closing => registered /\ owed' = total + Len(finished)
    BY <1>0, <1>6, <1>13, <1>14
  <2> QED BY <1>5, <1>8, <1>9, <1>11, <1>12, <2>1, MovedKeeps
<1>16. owed' \in Nat
  <2>1. Len(finished') \in Nat
    BY <1>15, LenProperties
  <2>2. PoolOK(pool')
    BY <1>5 DEF Moved
  <2>3. Len(pool'.queue) \in Nat /\ Cardinality(pool'.running) \in Nat
    BY <2>2, LenProperties, RunningIsFinite DEF PoolOK, QueueOK, RunningOK
  <2> QED BY <1>0, <1>15, <2>1, <2>3
<1>17. superseded' \subseteq Jobs /\ dropped' \subseteq Jobs /\ submitted' \in 0 .. MaxJobs
  <2>1. replaced \subseteq Jobs /\ Outrun(TopicOf(j)) \subseteq Jobs
    BY <1>1, PoolCounts DEF Rivals, Outrun
  <2>2. superseded \subseteq Jobs /\ dropped \subseteq Jobs
    BY DEF RegistryInv, TypeInv
  <2>3. j \in 0 .. MaxJobs
    BY <1>2, PoolAssumption DEF Jobs
  <2> QED BY <1>0, <2>1, <2>2, <2>3
<1>18. TypeInv'
  BY <1>0, <1>2, <1>15, <1>16, <1>17 DEF RegistryInv, TypeInv
<1>19. OwedInv'
  BY <1>0, <1>15 DEF OwedInv
<1>20. ClosedInv'
  BY <1>0 DEF RegistryInv, ClosedInv
<1> QED BY <1>15, <1>18, <1>19, <1>20 DEF RegistryInv

\* A step that moves no job.
LEMMA SameResults ==
    ASSUME RegistryInv, pool'.queue = pool.queue, pool'.running = pool.running, finished' = finished,
           ended' = ended, superseded' = superseded, kind' = kind, submitted' = submitted, shown' = shown
    PROVE  NumberedInv' /\ FreshInv'
<1>1. \A x, y : SameTopic(x, y)' <=> SameTopic(x, y)
  BY DEF SameTopic, TopicOf
<1>2. \A x : (TopicOf(x)' = TopicOf(x)) /\ (Stale(x)' <=> Stale(x))
  BY <1>1 DEF Stale, TopicOf
<1>3. /\ JobsOf(pool.queue)' = JobsOf(pool.queue) /\ JobsOf(finished)' = JobsOf(finished)
      /\ JobsOf(shown)' = JobsOf(shown)
  BY DEF JobsOf
<1>4. \A x, y : /\ Before(finished, x, y)' <=> Before(finished, x, y)
                /\ Before(shown, x, y)' <=> Before(shown, x, y)
  BY DEF Before
<1>5. NumberedInv'
  BY <1>2, <1>3 DEF RegistryInv, NumberedInv
<1>6. FreshInv'
  BY <1>1, <1>2, <1>3, <1>4 DEF RegistryInv, FreshInv
<1> QED BY <1>5, <1>6

LEMMA SamePool ==
    ASSUME RegistryInv, pool' = pool, kind' = kind, outside' = outside
    PROVE  PoolInv'
<1>1. PoolOK(pool)'
  <2>1. PoolOK(pool')
    BY DEF RegistryInv, PoolInv
  <2> QED BY <2>1, SameJobs
<1> QED BY <1>1 DEF RegistryInv, PoolInv

LEMMA BeginKeeps ==
    ASSUME RegistryInv, Begin
    PROVE  RegistryInv'
<1>0. /\ finished' = finished /\ ended' = ended /\ faults' = faults
      /\ owed' = owed /\ known' = known /\ polling' = polling /\ tk' = tk /\ dialogs' = dialogs
      /\ superseded' = superseded /\ maxQueued' = maxQueued /\ kind' = kind /\ submitted' = submitted /\ dropped' = dropped
      /\ shown' = shown /\ closing' = closing /\ quiet' = quiet
      /\ ~closing /\ outside < MaxOutside /\ outside' = outside + 1
      /\ pool' = WithActive(pool, pool.active + 1)
  BY DEF Begin, tkVars, WithActive
<1>1. PICK a, n : a = pool.active + 1 /\ n = WithActive(pool, a)
  OBVIOUS
<1>2. PoolOK(n) /\ n.queue = pool.queue /\ n.running = pool.running /\ n.active = a /\ pool' = n
  <2>1. PoolOK(pool) /\ pool' = n
    BY <1>0, <1>1, PoolCounts
  <2> QED BY <1>1, <2>1, OtherActive
<1>3. PoolInv'
  <2>1. PoolOK(pool)'
    BY <1>0, <1>2, SameJobs
  <2>2. /\ pool.active = Len(pool.queue) + Cardinality(pool.running) + outside
        /\ Len(pool.queue) \in Nat /\ Cardinality(pool.running) \in Nat /\ outside \in Nat
    BY PoolCounts
  <2>3. pool'.active = Len(pool'.queue) + Cardinality(pool'.running) + outside'
    BY <1>0, <1>1, <1>2, <2>2
  <2>4. pool'.queue # <<>> => pool'.running # {}
    BY <1>2 DEF RegistryInv, PoolInv
  <2> QED BY <2>1, <2>3, <2>4 DEF PoolInv
<1>4. NumberedInv' /\ FreshInv'
  BY <1>0, <1>2, SameResults
<1>5. TypeInv'
  <2>1. outside' \in 0 .. MaxOutside
    BY <1>0, PoolAssumption DEF RegistryInv, TypeInv
  <2> QED BY <1>0, <2>1 DEF RegistryInv, TypeInv
<1>6. OwedInv' /\ ClosedInv'
  BY <1>0, <1>2 DEF RegistryInv, OwedInv, ClosedInv
<1> QED BY <1>3, <1>4, <1>5, <1>6 DEF RegistryInv

LEMMA EndKeeps ==
    ASSUME RegistryInv, End
    PROVE  RegistryInv'
<1>0. /\ finished' = finished /\ ended' = ended /\ faults' = faults
      /\ owed' = owed /\ known' = known /\ polling' = polling /\ tk' = tk /\ dialogs' = dialogs
      /\ superseded' = superseded /\ maxQueued' = maxQueued /\ kind' = kind /\ submitted' = submitted /\ dropped' = dropped
      /\ shown' = shown /\ closing' = closing /\ quiet' = quiet
      /\ outside > 0 /\ outside' = outside - 1
      /\ pool' = WithActive(pool, pool.active - 1)
  BY DEF End, tkVars, WithActive
<1>1. PICK a, n : a = pool.active - 1 /\ n = WithActive(pool, a)
  OBVIOUS
<1>2. PoolOK(n) /\ n.queue = pool.queue /\ n.running = pool.running /\ n.active = a /\ pool' = n
  <2>1. PoolOK(pool) /\ pool' = n
    BY <1>0, <1>1, PoolCounts
  <2> QED BY <1>1, <2>1, OtherActive
<1>a. /\ pool.active = Len(pool.queue) + Cardinality(pool.running) + outside
      /\ Len(pool.queue) \in Nat /\ Cardinality(pool.running) \in Nat /\ outside \in Nat
  BY PoolCounts
<1>3. PoolInv'
  <2>1. PoolOK(pool)'
    BY <1>0, <1>2, SameJobs
  <2>3. pool'.active = Len(pool'.queue) + Cardinality(pool'.running) + outside'
    BY <1>0, <1>1, <1>2, <1>a
  <2>4. pool'.queue # <<>> => pool'.running # {}
    BY <1>2 DEF RegistryInv, PoolInv
  <2> QED BY <2>1, <2>3, <2>4 DEF PoolInv
<1>4. NumberedInv' /\ FreshInv'
  BY <1>0, <1>2, SameResults
<1>5. TypeInv'
  <2>1. outside' \in 0 .. MaxOutside
    BY <1>0, PoolAssumption DEF RegistryInv, TypeInv
  <2> QED BY <1>0, <2>1 DEF RegistryInv, TypeInv
<1>6. OwedInv'
  BY <1>0, <1>2 DEF RegistryInv, OwedInv
<1>7. ClosedInv'
  <2>1. ~quiet
    BY <1>0, <1>a DEF RegistryInv, ClosedInv
  <2> QED BY <1>0, <2>1 DEF RegistryInv, ClosedInv
<1> QED BY <1>3, <1>4, <1>5, <1>6, <1>7 DEF RegistryInv

\* The steps of the Tk thread that deliver nothing, and the step that changes nothing.
LEMMA ControlKeeps ==
    ASSUME RegistryInv,
           \/ PollFires \/ PollEnds \/ CallbackReturns \/ OpenDialog \/ CloseDialog \/ ShutdownReturns
           \/ UNCHANGED vars
    PROVE  RegistryInv'
<1>0. /\ pool' = pool /\ finished' = finished /\ ended' = ended /\ faults' = faults
      /\ superseded' = superseded /\ maxQueued' = maxQueued /\ kind' = kind /\ submitted' = submitted /\ dropped' = dropped
      /\ shown' = shown /\ closing' = closing /\ outside' = outside /\ owed' = owed
  BY DEF PollFires, PollEnds, CallbackReturns, OpenDialog, CloseDialog, ShutdownReturns,
         vars, threadVars, tkVars
<1>1. PoolInv' /\ NumberedInv' /\ FreshInv'
  BY <1>0, SamePool, SameResults
<1>a. /\ owed \in Nat /\ known \in BOOLEAN /\ polling \in BOOLEAN /\ closing \in BOOLEAN /\ quiet \in BOOLEAN
      /\ tk \in Places /\ dialogs \in 0 .. MaxDialogs
      /\ owed > 0 => known /\ (polling \/ tk = "poll")
      /\ closing => owed = 0 /\ finished = <<>>
      /\ tk = "closing" => closing
      /\ quiet => closing /\ pool.active = 0
  BY DEF RegistryInv, TypeInv, OwedInv, ClosedInv
<1>2. /\ known' \in BOOLEAN /\ polling' \in BOOLEAN /\ quiet' \in BOOLEAN
      /\ tk' \in Places /\ dialogs' \in 0 .. MaxDialogs
      /\ owed > 0 => known' /\ (polling' \/ tk' = "poll")
      /\ tk' = "closing" => closing
      /\ quiet' => closing /\ pool.active = 0
  <2>1. CASE PollFires
    BY <1>a, <2>1 DEF PollFires, Places
  <2>2. CASE PollEnds
    BY <1>a, <2>2 DEF PollEnds, PollAgain, Places
  <2>3. CASE CallbackReturns
    BY <1>a, <2>3 DEF CallbackReturns, AfterCallback, Places
  <2>4. CASE OpenDialog
    BY <1>a, <2>4, PoolAssumption DEF OpenDialog, Places
  <2>5. CASE CloseDialog
    BY <1>a, <2>5, PoolAssumption DEF CloseDialog, AfterCallback, Places
  <2>6. CASE ShutdownReturns
    BY <1>a, <2>6 DEF ShutdownReturns, Places
  <2>7. CASE UNCHANGED vars
    BY <1>a, <2>7 DEF vars, threadVars, tkVars
  <2> QED BY <2>1, <2>2, <2>3, <2>4, <2>5, <2>6, <2>7
<1>3. TypeInv'
  BY <1>0, <1>2 DEF RegistryInv, TypeInv
<1>4. OwedInv'
  BY <1>0, <1>2 DEF RegistryInv, OwedInv
<1>5. ClosedInv'
  BY <1>0, <1>2 DEF RegistryInv, ClosedInv
<1> QED BY <1>1, <1>3, <1>4, <1>5 DEF RegistryInv

LEMMA TailQueue ==
    ASSUME NEW S, NEW q \in Seq(S), q # <<>>
    PROVE  /\ Tail(q) \in Seq(S) /\ Len(Tail(q)) = Len(q) - 1
           /\ Head(q) \in JobsOf(q) /\ Head(q) \in S
           /\ JobsOf(Tail(q)) \subseteq JobsOf(q)
           /\ \A x, y : Before(Tail(q), x, y) => Before(q, x, y)
           /\ \A y \in JobsOf(Tail(q)) : Before(q, Head(q), y)
<1> DEFINE t == Tail(q)
<1>1. /\ t \in Seq(S) /\ Len(t) = Len(q) - 1 /\ Len(q) \in Nat \ {0}
      /\ \A i \in 1 .. Len(t) : t[i] = q[i + 1]
      /\ Head(q) = q[1]
  BY HeadTailProperties, EmptySeq, LenProperties
<1> HIDE DEF t
<1>2. DOMAIN q = 1 .. Len(q) /\ DOMAIN t = 1 .. Len(t)
  BY <1>1, LenProperties
<1>3. \A i \in 1 .. Len(t) : i + 1 \in 1 .. Len(q) /\ 1 < i + 1
  BY <1>1
<1>4. 1 \in 1 .. Len(q)
  BY <1>1
<1>5. Head(q) \in JobsOf(q) /\ Head(q) \in S
  <2>1. q[1] \in JobsOf(q) /\ q[1] \in S
    BY <1>2, <1>4, ElementOfSeq DEF JobsOf
  <2> QED BY <1>1, <2>1
<1>6. JobsOf(t) \subseteq JobsOf(q)
  BY <1>1, <1>2, <1>3, SMTT(60) DEF JobsOf
<1>7. ASSUME NEW x, NEW y, Before(t, x, y) PROVE Before(q, x, y)
  <2>1. PICK i, k \in 1 .. Len(t) : i < k /\ t[i] = x /\ t[k] = y
    BY <1>2, <1>7 DEF Before
  <2>2. i + 1 \in DOMAIN q /\ k + 1 \in DOMAIN q /\ i + 1 < k + 1 /\ q[i + 1] = x /\ q[k + 1] = y
    BY <1>1, <1>2, <1>3, <2>1
  <2> QED BY <2>2 DEF Before
<1>8. ASSUME NEW y \in JobsOf(t) PROVE Before(q, Head(q), y)
  <2>1. PICK i \in 1 .. Len(t) : t[i] = y
    BY <1>2 DEF JobsOf
  <2>2. 1 \in DOMAIN q /\ i + 1 \in DOMAIN q /\ 1 < i + 1 /\ q[i + 1] = y /\ q[1] = Head(q)
    BY <1>1, <1>2, <1>3, <1>4, <2>1
  <2> QED BY <2>2 DEF Before
<1> QED BY <1>1, <1>5, <1>6, <1>7, <1>8 DEF t

LEMMA DeliverKeeps ==
    ASSUME RegistryInv, Deliver
    PROVE  RegistryInv'
<1>1. PICK j, left, rest, s :
        j = Head(finished) /\ left = owed - 1 /\ rest = finished' /\ s = shown'
  OBVIOUS
<1>0. /\ tk = "poll" /\ ~closing /\ finished # <<>>
      /\ owed' = (IF left > 0 THEN left ELSE 0) /\ known' = (left > 0)
      /\ rest = (IF left > 0 THEN Tail(finished) ELSE <<>>)
      /\ polling' = (polling \/ left > 0)
      /\ \/ j \notin superseded /\ s = Append(shown, j) /\ tk' = "callback" /\ dropped' = dropped
         \/ s = shown /\ tk' \in {"poll", "loop"} /\ dropped' = dropped \cup {j}
      /\ pool' = pool /\ ended' = ended /\ faults' = faults /\ dialogs' = dialogs
      /\ superseded' = superseded /\ maxQueued' = maxQueued /\ kind' = kind /\ submitted' = submitted
      /\ closing' = closing /\ quiet' = quiet /\ outside' = outside
  BY <1>1 DEF Deliver, PollAgain
<1>a. /\ finished \in Seq(Jobs) /\ shown \in Seq(Jobs) /\ owed \in Nat /\ polling \in BOOLEAN
      /\ owed = Len(pool.queue) + Cardinality(pool.running) + Len(finished)
      /\ Len(pool.queue) \in Nat /\ Cardinality(pool.running) \in Nat /\ Len(finished) \in Nat
  BY <1>0, PoolCounts DEF RegistryInv, TypeInv, OwedInv
<1>2. /\ Tail(finished) \in Seq(Jobs) /\ Len(Tail(finished)) = Len(finished) - 1
      /\ j \in JobsOf(finished) /\ j \in Jobs
      /\ JobsOf(Tail(finished)) \subseteq JobsOf(finished)
      /\ \A x, y : Before(Tail(finished), x, y) => Before(finished, x, y)
      /\ \A y \in JobsOf(Tail(finished)) : Before(finished, j, y)
  BY <1>0, <1>1, <1>a, TailQueue
<1>3. /\ rest \in Seq(Jobs) /\ JobsOf(rest) \subseteq JobsOf(finished)
      /\ \A x, y : Before(rest, x, y) => Before(finished, x, y)
      /\ \A y \in JobsOf(rest) : Before(finished, j, y)
  <2>1. JobsOf(<<>>) = {} /\ <<>> \in Seq(Jobs)
    BY EmptyQueue, EmptySeq
  <2>2. \A x, y : ~ Before(<<>>, x, y)
    BY DEF Before
  <2> QED BY <1>0, <1>2, <2>1, <2>2
<1>4. Len(rest) \in Nat /\ owed' \in Nat /\ owed' = Len(pool.queue) + Cardinality(pool.running) + Len(rest)
  <2>1. Len(<<>>) = 0
    BY EmptySeq
  <2>2. PICK l, r, f \in Nat : l = Len(pool.queue) /\ r = Cardinality(pool.running) /\ f = Len(finished)
    BY <1>a
  <2>3. f # 0
    <3>1. Len(finished) # 0
      <4>1. finished \in Seq(Jobs) /\ finished # <<>>
        BY <1>0, <1>a
      <4> QED BY <4>1, EmptyQueue
    <3> QED BY <2>2, <3>1
  <2>4. left = l + r + f - 1
    BY <1>1, <1>a, <2>2, SMTT(60)
  <2>5. CASE left > 0
    <3>1. Len(rest) = f - 1
      BY <1>0, <1>2, <2>2, <2>5
    <3>2. owed' = l + r + Len(rest) /\ Len(rest) \in Nat /\ owed' \in Nat
      BY <1>0, <2>3, <2>4, <2>5, <3>1
    <3> QED BY <2>2, <3>2
  <2>6. CASE ~ (left > 0)
    <3>1. Len(rest) = 0 /\ owed' = 0
      BY <1>0, <2>1, <2>6
    <3>2. l = 0 /\ r = 0
      BY <2>3, <2>4, <2>6
    <3> QED BY <2>2, <3>1, <3>2
  <2> QED BY <2>5, <2>6
<1>5. PoolInv'
  BY <1>0, SamePool
<1>6. /\ s \in Seq(Jobs) /\ JobsOf(s) \subseteq JobsOf(shown) \cup {j}
      /\ \A x, y : Before(s, x, y) => Before(shown, x, y) \/ (x \in JobsOf(shown) /\ y = j /\ j \notin superseded)
      /\ j \in JobsOf(s) => j \in JobsOf(shown) \/ j \notin superseded
  <2>1. /\ Append(shown, j) \in Seq(Jobs) /\ JobsOf(Append(shown, j)) = JobsOf(shown) \cup {j}
        /\ \A x, y : Before(Append(shown, j), x, y) => Before(shown, x, y) \/ (x \in JobsOf(shown) /\ y = j)
    BY <1>2, <1>a, AppendQueue
  <2>2. PICK t : t = Append(shown, j)
    OBVIOUS
  <2>3. CASE j \notin superseded /\ s = t
    BY <2>1, <2>2, <2>3
  <2>4. CASE s = shown
    BY <1>a, <2>4
  <2> QED BY <1>0, <2>2, <2>3, <2>4
<1>b. /\ JobsOf(pool.queue)' = JobsOf(pool.queue) /\ JobsOf(finished)' = JobsOf(rest)
      /\ JobsOf(shown)' = JobsOf(s)
      /\ \A x : (TopicOf(x)' = TopicOf(x)) /\ (Stale(x)' <=> Stale(x))
      /\ \A x, y : /\ Before(finished, x, y)' <=> Before(rest, x, y)
                   /\ Before(shown, x, y)' <=> Before(s, x, y)
                   /\ SameTopic(x, y)' <=> SameTopic(x, y)
  BY <1>0, <1>1 DEF JobsOf, Before, TopicOf, SameTopic, Stale
<1>7. NumberedInv'
  <2>1. JobsOf(rest) \subseteq 1 .. submitted /\ JobsOf(s) \subseteq 1 .. submitted
    BY <1>2, <1>3, <1>6 DEF RegistryInv, NumberedInv
  <2> QED BY <1>0, <1>b, <2>1 DEF RegistryInv, NumberedInv
<1>8. FreshInv'
  <2>1. \A x \in JobsOf(shown), y \in JobsOf(finished) : y < x /\ SameTopic(y, x) => y \in superseded
    BY DEF RegistryInv, FreshInv
  <2>2. \A x, y : Before(finished, x, y) /\ y < x /\ SameTopic(y, x) => y \in superseded
    BY DEF RegistryInv, FreshInv
  <2>3. \A x \in JobsOf(s), y \in JobsOf(rest) : y < x /\ SameTopic(y, x) => y \in superseded
    BY <1>3, <1>6, <2>1, <2>2
  <2>4. \A x, y : Before(s, x, y) /\ y < x => ~ SameTopic(y, x)
    <3>1. \A x, y : Before(shown, x, y) /\ y < x => ~ SameTopic(y, x)
      BY DEF RegistryInv, FreshInv
    <3> QED BY <1>2, <1>6, <2>1, <3>1
  <2>5. \A x, y : Before(rest, x, y) /\ y < x /\ SameTopic(y, x) => y \in superseded
    BY <1>3, <2>2
  <2> QED BY <1>0, <1>b, <2>3, <2>4, <2>5 DEF RegistryInv, FreshInv
<1>9. TypeInv'
  <2>1. dropped' \subseteq Jobs
    BY <1>0, <1>2 DEF RegistryInv, TypeInv
  <2>2. known' \in BOOLEAN /\ polling' \in BOOLEAN /\ tk' \in Places
    BY <1>0, <1>a DEF Places
  <2> QED BY <1>0, <1>1, <1>3, <1>4, <1>6, <2>1, <2>2 DEF RegistryInv, TypeInv
<1>10. OwedInv'
  <2>1. owed' = Len(pool'.queue) + Cardinality(pool'.running) + Len(finished')
    BY <1>0, <1>1, <1>4
  <2>2. owed' > 0 => known' /\ polling'
    <3>1. owed' > 0 => left > 0
      BY <1>0, <1>1, <1>a
    <3>2. left > 0 => known' /\ polling'
      BY <1>0, Zenon
    <3> QED BY <3>1, <3>2
  <2> QED BY <2>1, <2>2 DEF OwedInv
<1>11. ClosedInv'
  BY <1>0 DEF RegistryInv, ClosedInv
<1> QED BY <1>5, <1>7, <1>8, <1>9, <1>10, <1>11 DEF RegistryInv

LEMMA ShutdownKeeps ==
    ASSUME RegistryInv, Shutdown
    PROVE  RegistryInv'
<1>1. PICK kept, a, writes : /\ writes = {j \in JobsOf(pool.queue) : TopicOf(j) = Nothing}
                             /\ kept = Those(pool.queue, writes)
                             /\ a = pool.active - (Len(pool.queue) - Len(kept))
  OBVIOUS
<1>0. /\ tk = "loop" /\ ~quiet /\ closing' = TRUE /\ tk' = "closing"
      /\ pool' = [pool EXCEPT !.queue = kept, !.active = a]
      /\ dropped' = dropped \cup (JobsOf(pool.queue) \ JobsOf(kept))
      /\ finished' = <<>> /\ owed' = 0 /\ known' = FALSE
      /\ ended' = ended /\ faults' = faults /\ polling' = polling /\ dialogs' = dialogs
      /\ superseded' = superseded /\ maxQueued' = maxQueued /\ kind' = kind /\ submitted' = submitted /\ shown' = shown
      /\ quiet' = quiet /\ outside' = outside
  <2>1. Writes(pool.queue) = kept
    BY <1>1 DEF Writes
  <2>2. pool' = [pool EXCEPT !.queue = kept, !.active = a]
    <3>1. pool' = [pool EXCEPT !.queue = Kept(@), !.active = @ - (Len(pool.queue) - Len(Kept(pool.queue)))]
      BY DEF Shutdown
    <3>2. Kept(pool.queue) = kept
      BY <2>1 DEF Kept
    <3>3. pool = [queue |-> pool.queue, running |-> pool.running, lanes |-> pool.lanes,
                  threads |-> pool.threads, active |-> pool.active]
      BY PoolCounts DEF PoolOK
    <3> QED BY <1>1, <3>1, <3>2, <3>3
  <2> QED BY <2>1, <2>2 DEF Shutdown
<1>2. PICK n : Requeued(n, pool, kept, a) /\ pool' = n
  BY <1>0 DEF Requeued
<1>3. PartOf(kept, pool.queue, writes)
  BY <1>1 DEF PartOf
<1>4. /\ PoolOK(n) /\ n.running = pool.running /\ n.active = a /\ n.queue = kept
      /\ JobsOf(kept) = JobsOf(pool.queue) \cap writes
  <2>1. PoolOK(pool)
    BY PoolCounts
  <2> QED BY <1>2, <1>3, <2>1, FewerWait
<1>5. kept \in Seq(Jobs) /\ Len(kept) \in Nat
  BY <1>4, LenProperties DEF PoolOK, QueueOK
<1>6. PoolInv'
  <2>1. PoolOK(pool)'
    BY <1>0, <1>2, <1>4, SameJobs
  <2>2. a = Len(kept) + Cardinality(pool.running) + outside
    <3>1. PICK l, r, o, k \in Nat : l = Len(pool.queue) /\ r = Cardinality(pool.running) /\ o = outside /\ k = Len(kept)
      BY <1>5, PoolCounts
    <3>2. pool.active = l + r + o
      BY <3>1, PoolCounts
    <3>3. a = l + r + o - (l - k)
      <4>1. a = pool.active - (l - k)
        BY <1>1, <3>1, Zenon
      <4> QED BY <3>2, <4>1
    <3>4. l + r + o - (l - k) = k + r + o
      OBVIOUS
    <3> QED BY <3>1, <3>3, <3>4, Zenon
  <2>3. kept # <<>> => pool.running # {}
    <3>1. kept # <<>> => pool.queue # <<>>
      BY <1>4, <1>5, EmptyQueue, PoolCounts
    <3> QED BY <3>1 DEF RegistryInv, PoolInv
  <2> QED BY <1>0, <1>2, <1>4, <2>1, <2>2, <2>3 DEF PoolInv
<1>b. /\ JobsOf(pool.queue)' = JobsOf(kept) /\ JobsOf(finished)' = {}
      /\ pool'.running = pool.running
      /\ JobsOf(shown)' = JobsOf(shown)
      /\ \A x : (TopicOf(x)' = TopicOf(x)) /\ (Stale(x)' <=> Stale(x))
      /\ \A x, y : /\ ~ Before(finished, x, y)'
                   /\ Before(shown, x, y)' <=> Before(shown, x, y)
                   /\ SameTopic(x, y)' <=> SameTopic(x, y)
  <2>1. JobsOf(pool.queue)' = JobsOf(kept) /\ JobsOf(finished)' = {} /\ JobsOf(shown)' = JobsOf(shown)
    BY <1>0, <1>2, <1>4 DEF JobsOf
  <2>2. \A x, y : ~ Before(finished, x, y)' /\ (Before(shown, x, y)' <=> Before(shown, x, y))
    BY <1>0 DEF Before
  <2>3. \A x, y : SameTopic(x, y)' <=> SameTopic(x, y)
    BY <1>0 DEF SameTopic, TopicOf
  <2>4. \A x : (TopicOf(x)' = TopicOf(x)) /\ (Stale(x)' <=> Stale(x))
    BY <1>0, <2>3 DEF Stale, TopicOf
  <2> QED BY <1>2, <1>4, <2>1, <2>2, <2>3, <2>4
<1>7. NumberedInv'
  <2>1. \A j \in 1 .. submitted : TopicOf(j) = Nothing => j \in JobsOf(kept) \cup pool.running \cup ended
    BY <1>1, <1>4 DEF RegistryInv, NumberedInv
  <2> QED BY <1>0, <1>4, <1>b, <2>1 DEF RegistryInv, NumberedInv
<1>8. FreshInv'
  <2>1. \A j \in JobsOf(kept) : ~ Stale(j)
    BY <1>4 DEF RegistryInv, FreshInv
  <2>2. \A x \in JobsOf(shown), y \in {} : y < x /\ SameTopic(y, x) => y \in superseded
    OBVIOUS
  <2> QED BY <1>0, <1>b, <2>1, <2>2 DEF RegistryInv, FreshInv
<1>9. TypeInv'
  <2>1. dropped' \subseteq Jobs
    BY <1>0, PoolCounts DEF RegistryInv, TypeInv
  <2>2. <<>> \in Seq(Jobs)
    BY EmptySeq
  <2> QED BY <1>0, <2>1, <2>2 DEF RegistryInv, TypeInv, Places
<1>10. OwedInv' /\ ClosedInv'
  BY <1>0 DEF OwedInv, ClosedInv
<1> QED BY <1>6, <1>7, <1>8, <1>9, <1>10 DEF RegistryInv

LEMMA InitIsRight ==
    ASSUME Init
    PROVE  RegistryInv
<1>0. /\ pool = [queue |-> <<>>, running |-> {}, lanes |-> {}, threads |-> 0, active |-> 0]
      /\ finished = <<>> /\ owed = 0 /\ known = FALSE /\ polling = FALSE
      /\ closing = FALSE /\ quiet = FALSE
      /\ tk = "loop" /\ dialogs = 0 /\ outside = 0 /\ faults = 0
      /\ maxQueued \in QueueSizes /\ kind \in [Jobs -> Kinds] /\ submitted = 0 /\ superseded = {} /\ ended = {} /\ dropped = {} /\ shown = <<>>
  BY DEF Init
<1>1. /\ pool.queue = <<>> /\ pool.running = {} /\ pool.lanes = {} /\ pool.threads = 0 /\ pool.active = 0
      /\ pool = [queue |-> pool.queue, running |-> pool.running, lanes |-> pool.lanes,
                 threads |-> pool.threads, active |-> pool.active]
  BY <1>0
<1>2. /\ <<>> \in Seq(Jobs) /\ Len(<<>>) = 0 /\ JobsOf(<<>>) = {} /\ Distinct(<<>>)
      /\ \A x, y : ~ Before(<<>>, x, y)
  <2>1. <<>> \in Seq(Jobs) /\ Len(<<>>) = 0 /\ JobsOf(<<>>) = {}
    BY EmptySeq, EmptyQueue
  <2>2. Distinct(<<>>) /\ \A x, y : ~ Before(<<>>, x, y)
    BY DEF Distinct, Before
  <2> QED BY <2>1, <2>2
<1>3. Cardinality({}) = 0
  BY FS_EmptySet
<1>4. PoolOK(pool)
  <2>1. QueueOK(pool)
    BY <1>1, <1>2 DEF QueueOK
  <2>2. LanesOf({}) = {}
    BY DEF LanesOf
  <2>3. RunningOK(pool)
    BY <1>1, <1>3, <2>2, PoolAssumption DEF RunningOK
  <2> QED BY <1>1, <2>1, <2>3 DEF PoolOK
<1>5. PoolInv
  BY <1>0, <1>1, <1>2, <1>3, <1>4 DEF PoolInv
<1>6. TypeInv
  <2>1. finished \in Seq(Jobs) /\ shown \in Seq(Jobs)
    BY <1>0, <1>2
  <2>2. submitted \in 0 .. MaxJobs /\ dialogs \in 0 .. MaxDialogs /\ outside \in 0 .. MaxOutside
        /\ faults \in 0 .. MaxFaults /\ owed \in Nat
    BY <1>0, PoolAssumption
  <2> QED BY <1>0, <2>1, <2>2 DEF TypeInv, Places
<1>7. OwedInv
  BY <1>0, <1>1, <1>2, <1>3 DEF OwedInv
<1>8. ClosedInv
  BY <1>0 DEF ClosedInv
<1>9. NumberedInv
  BY <1>0, <1>1, <1>2 DEF NumberedInv
<1>10. FreshInv
  BY <1>0, <1>1, <1>2 DEF FreshInv
<1> QED BY <1>5, <1>6, <1>7, <1>8, <1>9, <1>10 DEF RegistryInv

LEMMA RegistryCorrect == Spec => []RegistryInv
<1>1. Init => RegistryInv
  BY InitIsRight
<1>2. RegistryInv /\ [Next]_vars => RegistryInv'
  <2> SUFFICES ASSUME RegistryInv, [Next]_vars PROVE RegistryInv'
    OBVIOUS
  <2>1. CASE \E j \in Jobs : JobDone(j)
    BY <2>1, JobDoneKeeps
  <2>2. CASE Submit
    BY <2>2, SubmitKeeps
  <2>3. CASE Begin
    BY <2>3, BeginKeeps
  <2>4. CASE End
    BY <2>4, EndKeeps
  <2>5. CASE Deliver
    BY <2>5, DeliverKeeps
  <2>6. CASE Shutdown
    BY <2>6, ShutdownKeeps
  <2>7. CASE \/ PollFires \/ PollEnds \/ CallbackReturns \/ OpenDialog \/ CloseDialog \/ ShutdownReturns
             \/ UNCHANGED vars
    BY <2>7, ControlKeeps
  <2> QED BY <2>1, <2>2, <2>3, <2>4, <2>5, <2>6, <2>7 DEF Next, Poll
<1> QED BY <1>1, <1>2, PTL DEF Spec

-----------------------------------------------------------------------------
(* What follows from it.                                                    *)

\* Every value the registry keeps stays what background.py lets it be: a queue of jobs, no
\* more threads than max_workers (_start_threads), counts that never go below zero.
THEOREM TypeCorrect == Spec => []TypeOK
<1>1. RegistryInv => TypeOK
  <2> SUFFICES ASSUME RegistryInv PROVE TypeOK
    OBVIOUS
  <2>1. maxQueued \in QueueSizes /\ kind \in [Jobs -> Kinds] /\ PoolOK(pool)
    BY DEF RegistryInv, TypeInv, PoolInv
  <2>2. LanesOf(pool.running) \subseteq Lanes
    <3>1. \A j \in pool.running : kind[j] \in Kinds
      BY <2>1, PoolCounts
    <3>2. \A j \in pool.running : LaneOf(j) \in Lanes \cup {Nothing}
      BY <3>1, KindsAssumption DEF LaneOf
    <3> QED BY <3>2 DEF LanesOf
  <2>3. pool.threads \in 0 .. MaxWorkers
    <3>1. pool.threads = Cardinality(pool.running) /\ pool.threads <= MaxWorkers
      BY PoolCounts DEF RunningOK
    <3>2. Cardinality(pool.running) \in Nat
      BY PoolCounts
    <3> QED BY <3>1, <3>2, PoolAssumption
  <2>4. /\ pool.queue \in Seq(Jobs) /\ pool.running \in SUBSET Jobs /\ pool.lanes \in SUBSET Lanes
        /\ pool.active \in Nat
    BY <2>2, PoolCounts DEF RunningOK
  <2>5. pool = [queue |-> pool.queue, running |-> pool.running, lanes |-> pool.lanes,
                threads |-> pool.threads, active |-> pool.active]
    BY <2>1 DEF PoolOK
  <2>6. pool \in Pool
    <3>1. PICK q, r, l, t, a : /\ q = pool.queue /\ r = pool.running /\ l = pool.lanes
                               /\ t = pool.threads /\ a = pool.active
      OBVIOUS
    <3>2. pool = [queue |-> q, running |-> r, lanes |-> l, threads |-> t, active |-> a]
      BY <2>5, <3>1
    <3>3. q \in Seq(Jobs) /\ r \in SUBSET Jobs /\ l \in SUBSET Lanes /\ t \in 0 .. MaxWorkers /\ a \in Nat
      BY <2>3, <2>4, <3>1
    <3> QED BY <3>2, <3>3 DEF Pool
  <2> QED BY <2>6 DEF RegistryInv, TypeInv, TypeOK
<1> QED BY <1>1, RegistryCorrect, PTL

\* The counts that shutdown and the poll go by are exact at every step: _active, _undelivered,
\* the threads and the lanes in use agree with what waits, runs and is finished.
THEOREM CountsAreExact == Spec => []CountsAgree
<1>1. RegistryInv => CountsAgree
  BY DEF RegistryInv, PoolInv, OwedInv, PoolOK, RunningOK, CountsAgree
<1> QED BY <1>1, RegistryCorrect, PTL

\* One job of a lane runs at a time, and those of its lane that wait came later: _take_runnable
\* takes a lane's oldest, and a job that could not start goes back before them.
THEOREM LanesAreInOrder == Spec => []LaneOrder
<1>1. RegistryInv => LaneOrder
  <2> SUFFICES ASSUME RegistryInv, NEW j \in pool.running, LaneOf(j) # Nothing
               PROVE  /\ \A i \in pool.running : LaneOf(i) = LaneOf(j) => i = j
                      /\ \A i \in JobsOf(pool.queue) : LaneOf(i) = LaneOf(j) => j < i
    BY DEF LaneOrder
  <2> QED BY PoolCounts DEF QueueOK, RunningOK, SameLane
<1> QED BY <1>1, RegistryCorrect, PTL

\* No wake-up is missed: while a job waits another one runs (_work starts the next), and
\* while a result is owed a poll is scheduled or under way (_poll).
THEOREM NobodyIsForgotten == Spec => []NobodyForgotten
<1>1. RegistryInv => NobodyForgotten
  BY DEF RegistryInv, PoolInv, OwedInv, NobodyForgotten
<1> QED BY <1>1, RegistryCorrect, PTL

\* `supersede` keeps its promise: no callback gets an older result of a topic after a newer
\* one, in whatever order the threads finish and however dialogs interrupt the poll.
THEOREM ResultsStayInOrder == Spec => []OlderNeverAfterNewer
<1>1. RegistryInv => OlderNeverAfterNewer
  <2> SUFFICES ASSUME RegistryInv, NEW m \in DOMAIN shown, NEW n \in DOMAIN shown,
                      m < n, shown[n] < shown[m]
               PROVE  TopicOf(shown[m]) = Nothing \/ TopicOf(shown[m]) # TopicOf(shown[n])
    BY DEF OlderNeverAfterNewer
  <2>1. PICK x, y : x = shown[m] /\ y = shown[n]
    OBVIOUS
  <2>2. Before(shown, x, y)
    BY <2>1 DEF Before
  <2>3. ~ SameTopic(y, x)
    BY <2>1, <2>2 DEF RegistryInv, FreshInv
  <2> QED BY <2>1, <2>3 DEF SameTopic
<1> QED BY <1>1, RegistryCorrect, PTL

\* When shutdown returns True nothing runs, in the pool or outside it, and every write that
\* submit accepted has run or was refused: the database may be closed.
THEOREM QuietIsQuiet == Spec => []QuietShutdown
<1>1. RegistryInv => QuietShutdown
  <2> SUFFICES ASSUME RegistryInv, quiet
               PROVE  /\ pool.running = {} /\ outside = 0
                      /\ \A j \in 1 .. submitted : TopicOf(j) = Nothing => j \in ended
    BY DEF QuietShutdown
  <2>1. pool.active = 0
    BY DEF RegistryInv, ClosedInv
  <2>2. Len(pool.queue) = 0 /\ Cardinality(pool.running) = 0 /\ outside = 0
    BY <2>1, PoolCounts
  <2>3. pool.running = {}
    BY <2>2, PoolCounts, FS_EmptySet
  <2>4. JobsOf(pool.queue) = {}
    BY <2>2, PoolCounts, EmptyQueue
  <2> QED BY <2>2, <2>3, <2>4 DEF RegistryInv, NumberedInv
<1> QED BY <1>1, RegistryCorrect, PTL

=============================================================================
