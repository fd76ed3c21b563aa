------------------------------ MODULE DataFacts ------------------------------
(***************************************************************************)
(* Facts about naturals, functions and sequences that the proofs use.      *)
(* The provers cannot instantiate the induction theorems of the library,   *)
(* which take a predicate; here induction over the naturals is the least   *)
(* element of the set of counterexamples.                                  *)
(***************************************************************************)
EXTENDS Integers, SequencesExt, FiniteSetTheorems, SequenceTheorems, TLAPS

\* A set of naturals that is not empty has a least element.
LEMMA LeastNatural ==
    ASSUME NEW S \in SUBSET Nat, S # {}
    PROVE  \E x \in S : \A y \in S : x <= y
<1> DEFINE R == OpToRel(<, Nat)
<1>1. \A x, y \in Nat : y < x => <<y, x>> \in R
  <2>1. R = {ss \in Nat \X Nat : ss[1] < ss[2]}
    BY Zenon DEF OpToRel
  <2> HIDE DEF R
  <2> QED
    BY <2>1
<1>2. IsWellFoundedOn(R, Nat)
  BY NatLessThanWellFounded, Zenon
<1> HIDE DEF R
<1>3. PICK x \in S : \A y \in S : ~ (<<y, x>> \in R)
  BY <1>2, WFMin, Zenon
<1>4. \A y \in S : ~(y < x)
  BY <1>1, <1>3
<1> QED
  BY <1>4

\* Induction: a set that has 0 and the successor of each of its members.
LEMMA NatInSet ==
    ASSUME NEW S, 0 \in S, \A i \in Nat : i \in S => i + 1 \in S
    PROVE  Nat \subseteq S
<1> DEFINE C == Nat \ S
<1>1. SUFFICES ASSUME C # {} PROVE FALSE
  OBVIOUS
<1>2. PICK x \in C : \A y \in C : x <= y
  <2>1. C \in SUBSET Nat
    OBVIOUS
  <2> HIDE DEF C
  <2> QED
    BY <1>1, <2>1, LeastNatural
<1>3. x # 0 /\ x - 1 \in Nat
  BY <1>2
<1>4. x - 1 \in S
  BY <1>2, <1>3
<1>5. (x - 1) + 1 = x
  BY <1>2
<1> QED
  BY <1>2, <1>3, <1>4, <1>5

\* Induction over an interval.
LEMMA IntervalInSet ==
    ASSUME NEW a \in Nat, NEW b \in Nat, NEW S, a \in S,
           \A i \in a..b : i # a /\ i - 1 \in S => i \in S
    PROVE  a..b \subseteq S
<1>. DEFINE T == {k \in Nat : a + k <= b => a + k \in S}
<1>1. 0 \in T
  OBVIOUS
<1>2. ASSUME NEW k \in Nat, k \in T PROVE k + 1 \in T
  <2>. SUFFICES ASSUME a + (k + 1) <= b PROVE a + (k + 1) \in S
    OBVIOUS
  <2>1. a + k \in S
    BY <1>2
  <2>2. (a + (k + 1)) - 1 = a + k /\ a + (k + 1) # a /\ a + (k + 1) \in a..b
    OBVIOUS
  <2>. QED BY <2>1, <2>2
<1>. HIDE DEF T
<1>3. Nat \subseteq T
  BY <1>1, <1>2, NatInSet
<1>4. ASSUME NEW i \in a..b PROVE i \in S
  <2>1. i - a \in T
    BY <1>3
  <2>2. a + (i - a) = i /\ i <= b
    OBVIOUS
  <2>. QED BY <2>1, <2>2 DEF T
<1>. QED BY <1>4

\* Changing one entry of a function.
LEMMA ExceptOne ==
    ASSUME NEW U, NEW f, f = [u \in U |-> f[u]], NEW u, NEW x
    PROVE  /\ [f EXCEPT ![u] = x] = [v \in U |-> [f EXCEPT ![u] = x][v]]
           /\ \A v \in U : [f EXCEPT ![u] = x][v] = IF v = u THEN x ELSE f[v]
<1>1. DOMAIN f = U
  BY Zenon
<1>2. [f EXCEPT ![u] = x] = [v \in U |-> IF v = u THEN x ELSE f[v]]
  BY <1>1
<1> QED
  BY <1>2

\* A table with a row for each member of U and a column for each of R.
IsTable(U, R, f) ==
    f = [u \in U |-> f[u]] /\ \A u \in U : f[u] = [r \in R |-> f[u][r]]

WithEntry(f, u, p, x) == [f EXCEPT ![u][p] = x]

\* Changing one entry of a table.
LEMMA ExceptTwo ==
    ASSUME NEW U, NEW R, NEW f, IsTable(U, R, f),
           NEW u \in U, NEW p, NEW x,
           NEW g, g = WithEntry(f, u, p, x)
    PROVE  /\ IsTable(U, R, g)
           /\ \A v \in U, r \in R : g[v][r] = IF v = u /\ r = p THEN x ELSE f[v][r]
<1> DEFINE row == [f[u] EXCEPT ![p] = x]
<1>1. g = [f EXCEPT ![u] = row]
  BY Zenon DEF WithEntry
<1>2. /\ row = [r \in R |-> row[r]]
      /\ \A r \in R : row[r] = IF r = p THEN x ELSE f[u][r]
  <2>1. f[u] = [r \in R |-> f[u][r]]
    BY DEF IsTable
  <2> QED
    BY <2>1, ExceptOne
<1> HIDE DEF row
<1>3. /\ g = [v \in U |-> g[v]]
      /\ \A v \in U : g[v] = IF v = u THEN row ELSE f[v]
  BY <1>1, ExceptOne DEF IsTable
<1>4. ASSUME NEW v \in U
      PROVE  g[v] = [r \in R |-> g[v][r]]
  <2>1. CASE v = u
    BY <1>2, <1>3, <2>1, Zenon
  <2>2. CASE v # u
    <3>1. f[v] = [r \in R |-> f[v][r]] /\ g[v] = f[v]
      BY <1>3, <2>2 DEF IsTable
    <3> QED
      BY <3>1, Zenon
  <2> QED
    BY <2>1, <2>2
<1>5. \A v \in U, r \in R : g[v][r] = IF v = u /\ r = p THEN x ELSE f[v][r]
  BY <1>2, <1>3
<1> QED
  BY <1>3, <1>4, <1>5 DEF IsTable
\* The first n steps by which FlattenSeq joins the sequences of q.
Joins(S, q, n) ==
    \E f \in [1..n -> Seq(S)] :
        f = [i \in 1..n |-> IF i = 1 THEN q[i] ELSE f[i - 1] \o q[i]]

\* The steps by which FlattenSeq builds its result are well defined, and yield
\* sequences over the same set.
LEMMA FlatteningExists ==
    ASSUME NEW S, NEW q, NEW N \in Nat, \A i \in 1..N : q[i] \in Seq(S)
    PROVE  \A n \in 0..N : Joins(S, q, n)
<1> DEFINE Ok(n) == \E f \in [1..n -> Seq(S)] :
                       f = [i \in 1..n |-> IF i = 1 THEN q[i] ELSE f[i - 1] \o q[i]]
           T == {n \in Nat : n <= N => Ok(n)}
<1>1. 0 \in T
  <2>1. 1..0 = {}
    OBVIOUS
  <2>2. \E f \in [{} -> Seq(S)] :
           f = [i \in {} |-> IF i = 1 THEN q[i] ELSE f[i - 1] \o q[i]]
    <3> DEFINE f == [i \in {} |-> i]
    <3>1. f \in [{} -> Seq(S)]
      OBVIOUS
    <3>2. f = [i \in {} |-> IF i = 1 THEN q[i] ELSE f[i - 1] \o q[i]]
      OBVIOUS
    <3> HIDE DEF f
    <3> QED
      BY <3>1, <3>2
  <2>3. Ok(0)
    BY <2>1, <2>2
  <2> HIDE DEF Ok
  <2> QED
    BY <2>3
<1>2. ASSUME NEW n \in Nat, n \in T
      PROVE  n + 1 \in T
  <2> SUFFICES ASSUME n + 1 <= N PROVE Ok(n + 1)
    <3> HIDE DEF Ok
    <3> QED
      OBVIOUS
  <2>0. Ok(n)
    <3> HIDE DEF Ok
    <3> QED
      BY <1>2
  <2>1. PICK f \in [1..n -> Seq(S)] :
           f = [i \in 1..n |-> IF i = 1 THEN q[i] ELSE f[i - 1] \o q[i]]
    BY <2>0, Zenon
  <2> DEFINE g == [i \in 1..(n + 1) |-> IF i <= n THEN f[i]
                                        ELSE IF i = 1 THEN q[i] ELSE f[i - 1] \o q[i]]
  <2>2. \A i \in 1..(n + 1) : q[i] \in Seq(S)
    OBVIOUS
  <2>3. ASSUME NEW i \in 1..(n + 1)
        PROVE  /\ g[i] \in Seq(S)
               /\ g[i] = IF i = 1 THEN q[i] ELSE g[i - 1] \o q[i]
    <3>1. CASE i <= n
      <4>1. i \in 1..n /\ (i # 1 => i - 1 \in 1..n /\ i - 1 <= n)
        BY <3>1
      <4>2. g[i] = f[i] /\ (i # 1 => g[i - 1] = f[i - 1])
        BY <4>1
      <4>3. f[i] = IF i = 1 THEN q[i] ELSE f[i - 1] \o q[i]
        BY <2>1, <4>1
      <4> QED
        BY <4>1, <4>2, <4>3
    <3>2. CASE ~(i <= n)
      <4>1. i = n + 1 /\ (i # 1 => i - 1 \in 1..n /\ i - 1 <= n)
        BY <3>2
      <4>2. g[i] = (IF i = 1 THEN q[i] ELSE f[i - 1] \o q[i]) /\ (i # 1 => g[i - 1] = f[i - 1])
        BY <3>2, <4>1
      <4>3. i # 1 => f[i - 1] \in Seq(S)
        BY <4>1
      <4>4. i # 1 => f[i - 1] \o q[i] \in Seq(S)
        BY <2>2, <4>3
      <4> QED
        BY <2>2, <4>2, <4>4
    <3> QED
      BY <3>1, <3>2
  <2> HIDE DEF g
  <2>4. g = [i \in 1..(n + 1) |-> g[i]]
    BY DEF g
  <2>5. g \in [1..(n + 1) -> Seq(S)]
    BY <2>3, <2>4
  <2>6. g = [i \in 1..(n + 1) |-> IF i = 1 THEN q[i] ELSE g[i - 1] \o q[i]]
    BY <2>3, <2>4
  <2> QED
    BY <2>5, <2>6
<1>3. Nat \subseteq T
  <2> HIDE DEF T
  <2> QED
    BY <1>1, <1>2, NatInSet
<1>4. \A n \in 0..N : Ok(n)
  <2> HIDE DEF Ok
  <2> QED
    BY <1>3
<1> QED
  BY <1>4, Zenon DEF Joins

\* FlattenSeq of sequences over S is a sequence over S.
LEMMA FlattenSeqType ==
    ASSUME NEW S, NEW N \in Nat, NEW q \in [1..N -> Seq(S)]
    PROVE  FlattenSeq(q) \in Seq(S)
<1>1. Len(q) = N /\ q \in Seq(Seq(S))
  <2>1. q \in Seq(Seq(S))
    BY SeqDef
  <2>2. Len(q) \in Nat /\ DOMAIN q = 1..Len(q) /\ DOMAIN q = 1..N
    BY <2>1, LenProperties
  <2> QED
    BY <2>1, <2>2
<1>2. CASE N = 0
  <2>1. q = <<>>
    BY <1>1, <1>2
  <2>2. FlattenSeq(q) = q
    BY <1>1, <1>2 DEF FlattenSeq
  <2>3. <<>> \in Seq(S)
    BY EmptySeq
  <2> QED
    BY <2>1, <2>2, <2>3, Zenon
<1>3. CASE N # 0
  <2> DEFINE E(f) == f = [i \in 1..N |-> IF i = 1 THEN q[i] ELSE f[i - 1] \o q[i]]
             F == CHOOSE f : E(f)
  <2>1. \E f : E(f)
    <3>1. N \in 0..N
      OBVIOUS
    <3>2. \A i \in 1..N : q[i] \in Seq(S)
      OBVIOUS
    <3> HIDE DEF F
    <3>3. Joins(S, q, N)
      BY <3>1, <3>2, FlatteningExists
    <3> QED
      BY <3>3, Zenon DEF Joins
  <2>2. E(F)
    BY <2>1, Zenon
  <2>a. \A i \in 1..N : F[i] = IF i = 1 THEN q[i] ELSE F[i - 1] \o q[i]
    <3> DEFINE G == [i \in 1..N |-> IF i = 1 THEN q[i] ELSE F[i - 1] \o q[i]]
    <3>1. \A i \in 1..N : G[i] = IF i = 1 THEN q[i] ELSE F[i - 1] \o q[i]
      OBVIOUS
    <3>2. F = G
      BY <2>2, Zenon
    <3> HIDE DEF F, G
    <3> QED
      BY <3>1, <3>2, Zenon
  <2>3. FlattenSeq(q) = F[N]
    BY <1>1, <1>3 DEF FlattenSeq
  <2> DEFINE T == {n \in Nat : n \in 1..N => F[n] \in Seq(S)}
  <2>4. Nat \subseteq T
    <3>1. 0 \in T
      OBVIOUS
    <3>2. ASSUME NEW n \in Nat, n \in T
          PROVE  n + 1 \in T
      <4> SUFFICES ASSUME n + 1 \in 1..N PROVE F[n + 1] \in Seq(S)
        OBVIOUS
      <4> HIDE DEF F
      <4>1. F[n + 1] = IF n + 1 = 1 THEN q[n + 1] ELSE F[n] \o q[n + 1]
        BY <2>a
      <4>2. n # 0 => F[n] \in Seq(S)
        BY <3>2
      <4>3. q[n + 1] \in Seq(S)
        OBVIOUS
      <4>4. n # 0 => F[n] \o q[n + 1] \in Seq(S)
        BY <4>2, <4>3
      <4> QED
        BY <4>1, <4>3, <4>4
    <3> HIDE DEF T
    <3> QED
      BY <3>1, <3>2, NatInSet
  <2> HIDE DEF F
  <2>5. N \in T /\ N \in 1..N
    BY <1>3, <2>4
  <2> QED
    BY <2>3, <2>5
<1> QED
  BY <1>2, <1>3

\* A shorter prefix does not see what was appended.
LEMMA PrefixOfAppend ==
    ASSUME NEW V, NEW c \in Seq(V), NEW x \in V, NEW n \in Nat, n <= Len(c)
    PROVE  SubSeq(Append(c, x), 1, n) = SubSeq(c, 1, n)
<1>1. Append(c, x) \in Seq(V) /\ Len(Append(c, x)) = Len(c) + 1 /\ Len(c) \in Nat
  BY AppendProperties, LenProperties
<1>2. SubSeq(Append(c, x), 1, n) = [i \in 1..n |-> Append(c, x)[i]]
  BY <1>1
<1>3. SubSeq(c, 1, n) = [i \in 1..n |-> c[i]]
  BY <1>1
<1>4. \A i \in 1..n : Append(c, x)[i] = c[i]
  BY <1>1
<1>. QED BY <1>2, <1>3, <1>4

LEMMA WholePrefix ==
    ASSUME NEW V, NEW c \in Seq(V)
    PROVE  SubSeq(c, 1, Len(c)) = c
<1>1. Len(c) \in Nat /\ c = [i \in 1..Len(c) |-> c[i]]
  BY LenProperties
<1>. QED BY <1>1
=============================================================================
