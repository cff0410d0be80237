-------------------------- MODULE CompilationProofs --------------------------
(***************************************************************************)
(* Proofs about the compiler, for all programs and devices.  Each stage    *)
(* has a set of operations that it gives when it is given one of the stage *)
(* before: decompose StandardOps, the router RoutedOps, native mapping     *)
(* NativeOn, and the peephole passes keep every Closed set.  So what is    *)
(* compiled is in CircuitsFor(device), and so is what the cache holds and  *)
(* what rebind makes of it: that is PipelineInv, the inductive invariant.  *)
(* The theorems about couplings, about the two services and about the      *)
(* cache follow from it.                                                   *)
(*                                                                         *)
(* What is assumed of the constants is ProgramsAssumption (the wires of an *)
(* operation are distinct and its program's) and DevicesAssumption.        *)
(*                                                                         *)
(* Definitions by recursion over numbers are used through their equations: *)
(* NatRecursion shows that the recursive functions exist.                  *)
(***************************************************************************)
EXTENDS CompilationPipeline, FiniteSetTheorems, WellFoundedInduction, SequenceTheorems, TLAPS

(***************************************************************************)
(* Numbers, and functions defined by recursion on them.                    *)
(***************************************************************************)
\* Every set of natural numbers that is not empty has a least one.
LEMMA Least ==
  ASSUME NEW K \in SUBSET Nat, K # {}
  PROVE  \E n \in K : \A j \in K : n <= j
<1> DEFINE R == OpToRel(<, Nat)
<1>1. IsWellFoundedOn(R, Nat)  BY NatLessThanWellFounded
<1>2. \A j, n \in Nat : j < n => <<j, n>> \in R  BY DEF OpToRel
<1> HIDE DEF R
<1>3. PICK n \in K : \A j \in K : <<j, n>> \notin R  BY <1>1, WFMin
<1>4. K \subseteq Nat  OBVIOUS
<1>5. ASSUME NEW j \in K  PROVE n <= j
  <2>1. j \in Nat /\ n \in Nat  BY <1>3, <1>4
  <2>2. ~(j < n)  BY <1>2, <1>3, <2>1, Zenon
  <2> QED  BY <2>1, <2>2
<1> QED  BY <1>5

\* Induction, for a set of numbers.
LEMMA Upwards ==
  ASSUME NEW K \in SUBSET Nat, 0 \in K, \A n \in K : n + 1 \in K
  PROVE  Nat \subseteq K
<1> DEFINE C == Nat \ K
<1> SUFFICES ASSUME C # {}  PROVE FALSE  OBVIOUS
<1>1. C \in SUBSET Nat  OBVIOUS
<1>2. \A n : n \in C <=> n \in Nat /\ n \notin K  OBVIOUS
<1> HIDE DEF C
<1>3. PICK n \in C : \A j \in C : n <= j  BY <1>1, Least
<1>4. n \in Nat /\ n \notin K /\ n # 0  BY <1>2, <1>3
<1>5. n - 1 \in Nat /\ n = (n - 1) + 1 /\ ~(n <= n - 1)  BY <1>4
<1>6. n - 1 \in K  BY <1>2, <1>3, <1>5
<1> QED  BY <1>4, <1>5, <1>6

\* The first N values of a recursion.
Stepped(a, step, N, g) ==
    /\ g[0] = a
    /\ \A n \in 0 .. (N - 1) : g[n + 1] = step[<<n, g[n]>>]

LEMMA SteppedExists ==
  ASSUME NEW a, NEW step
  PROVE  \A N \in Nat : \E g : Stepped(a, step, N, g)
<1> DEFINE K == {N \in Nat : \E g : Stepped(a, step, N, g)}
<1>1. 0 \in K
  <2> DEFINE g == [n \in {0} |-> a]
  <2>1. g[0] = a  OBVIOUS
  <2> HIDE DEF g
  <2>2. Stepped(a, step, 0, g)  BY <2>1 DEF Stepped
  <2> QED  BY <2>2
<1>2. ASSUME NEW N \in K  PROVE N + 1 \in K
  <2>1. PICK g : Stepped(a, step, N, g)  OBVIOUS
  <2>2. N \in Nat  OBVIOUS
  <2> HIDE DEF K
  <2> DEFINE h == [n \in 0 .. (N + 1) |-> IF n = N + 1 THEN step[<<N, g[N]>>] ELSE g[n]]
  <2>3. \A n \in 0 .. N : h[n] = g[n]  BY <2>2
  <2>4. h[N + 1] = step[<<N, g[N]>>]  BY <2>2
  <2> HIDE DEF h
  <2>5. h[0] = a  BY <2>1, <2>2, <2>3 DEF Stepped
  <2>6. ASSUME NEW n \in 0 .. ((N + 1) - 1)  PROVE h[n + 1] = step[<<n, h[n]>>]
    <3>1. n \in 0 .. N  BY <2>2
    <3>2. CASE n = N  BY <2>3, <2>4, <3>1, <3>2
    <3>3. CASE n # N
      <4>1. n \in 0 .. (N - 1) /\ n + 1 \in 0 .. N  BY <2>2, <3>1, <3>3
      <4> QED  BY <2>1, <2>3, <3>1, <4>1 DEF Stepped
    <3> QED  BY <3>2, <3>3
  <2>7. Stepped(a, step, N + 1, h)  BY <2>5, <2>6 DEF Stepped
  <2> QED  BY <2>2, <2>7 DEF K
<1>3. K \in SUBSET Nat  OBVIOUS
<1>4. Nat \subseteq K
  <2> HIDE DEF K
  <2> QED  BY <1>1, <1>2, <1>3, Upwards
<1> QED  BY <1>4

LEMMA SteppedUnique ==
  ASSUME NEW a, NEW step, NEW N \in Nat, NEW M \in Nat, NEW g, NEW h,
         Stepped(a, step, N, g), Stepped(a, step, M, h)
  PROVE  \A n \in Nat : n <= N /\ n <= M => g[n] = h[n]
<1> DEFINE K == {n \in Nat : n <= N /\ n <= M => g[n] = h[n]}
<1>1. 0 \in K  BY DEF Stepped
<1>2. ASSUME NEW n \in K  PROVE n + 1 \in K
  <2>1. n \in Nat /\ (n <= N /\ n <= M => g[n] = h[n])  OBVIOUS
  <2>2. ASSUME n + 1 <= N, n + 1 <= M  PROVE g[n + 1] = h[n + 1]
    <3>1. n \in 0 .. (N - 1) /\ n \in 0 .. (M - 1) /\ n <= N /\ n <= M  BY <2>1, <2>2
    <3>2. g[n + 1] = step[<<n, g[n]>>] /\ h[n + 1] = step[<<n, h[n]>>]  BY <3>1 DEF Stepped
    <3> QED  BY <2>1, <3>1, <3>2
  <2> QED  BY <2>1, <2>2
<1>3. K \in SUBSET Nat  OBVIOUS
<1>4. Nat \subseteq K
  <2> HIDE DEF K
  <2> QED  BY <1>1, <1>2, <1>3, Upwards
<1> QED  BY <1>4

\* A function on the natural numbers can be defined by recursion.
Recursion(S, a, step, f) ==
    /\ f \in [Nat -> S]
    /\ f[0] = a
    /\ \A n \in Nat : f[n + 1] = step[<<n, f[n]>>]

LEMMA NatRecursion ==
  ASSUME NEW S, NEW a, a \in S, NEW step, \A n \in Nat, u \in S : step[<<n, u>>] \in S
  PROVE  \E f : Recursion(S, a, step, f)
<1> DEFINE G(n) == CHOOSE g : Stepped(a, step, n, g)
           f == [n \in Nat |-> G(n)[n]]
<1>1. \A n \in Nat : Stepped(a, step, n, G(n))  BY SteppedExists
<1>2. \A n \in Nat : f[n] = G(n)[n]  OBVIOUS
<1>0. f = [n \in Nat |-> f[n]]  OBVIOUS
<1> HIDE DEF f, G
<1>3. f[0] = a  BY <1>1, <1>2 DEF Stepped
<1>4. ASSUME NEW n \in Nat  PROVE f[n + 1] = step[<<n, f[n]>>]
  <2>1. n + 1 \in Nat /\ n \in 0 .. ((n + 1) - 1) /\ n <= n + 1 /\ n <= n  OBVIOUS
  <2>2. Stepped(a, step, n + 1, G(n + 1)) /\ Stepped(a, step, n, G(n))  BY <1>1, <2>1
  <2>3. G(n + 1)[n + 1] = step[<<n, G(n + 1)[n]>>]  BY <2>1, <2>2 DEF Stepped
  <2>4. G(n + 1)[n] = G(n)[n]  BY <2>1, <2>2, SteppedUnique
  <2> QED  BY <1>2, <2>1, <2>3, <2>4
<1>5. \A n \in Nat : f[n] \in S
  <2> DEFINE K == {n \in Nat : f[n] \in S}
  <2>1. 0 \in K  BY <1>3
  <2>2. ASSUME NEW n \in K  PROVE n + 1 \in K
    <3>1. n \in Nat /\ f[n] \in S  OBVIOUS
    <3>2. step[<<n, f[n]>>] \in S  BY <3>1
    <3> QED  BY <1>4, <3>1, <3>2
  <2>3. K \in SUBSET Nat  OBVIOUS
  <2>4. Nat \subseteq K
    <3> HIDE DEF K
    <3> QED  BY <2>1, <2>2, <2>3, Upwards
  <2> QED  BY <2>4
<1> QED  BY <1>0, <1>3, <1>4, <1>5 DEF Recursion

\* Powers of two: tlapm's provers know only that they are numbers.
LEMMA PowerOfTwo ==
  ASSUME NEW n \in Nat
  PROVE  2^n \in Nat \ {0}
<1>1. IsFiniteSet(1 .. n) /\ Cardinality(1 .. n) = n  BY FS_Interval
<1>2. IsFiniteSet(SUBSET (1 .. n)) /\ Cardinality(SUBSET (1 .. n)) = 2^n  BY <1>1, FS_SUBSET
<1>3. SUBSET (1 .. n) # {}  OBVIOUS
<1> QED  BY <1>2, <1>3, FS_EmptySet, FS_CardinalityType

(***************************************************************************)
(* Sequences, and sequences in a row.                                      *)
(***************************************************************************)
\* A function on 1 .. n is a sequence.
LEMMA FunctionIsSeq ==
  ASSUME NEW S, NEW n \in Nat, NEW f, f = [i \in 1 .. n |-> f[i]], \A i \in 1 .. n : f[i] \in S
  PROVE  f \in Seq(S) /\ Len(f) = n /\ DOMAIN f = 1 .. n
<1>1. f \in [1 .. n -> S]  OBVIOUS
<1>2. f \in Seq(S)  BY <1>1
<1>3. DOMAIN f = 1 .. n  BY <1>1
<1>4. Len(f) \in Nat /\ DOMAIN f = 1 .. Len(f)  BY <1>2, LenProperties
<1>5. Len(f) = n
  <2>1. n \in 1 .. n <=> n \in 1 .. Len(f)  BY <1>3, <1>4
  <2>2. Len(f) \in 1 .. n <=> Len(f) \in 1 .. Len(f)  BY <1>3, <1>4
  <2> QED  BY <1>4, <2>1, <2>2
<1> QED  BY <1>2, <1>3, <1>5

\* Two sequences, one behind the other.
LEMMA Joined ==
  ASSUME NEW S, NEW s \in Seq(S), NEW t \in Seq(S)
  PROVE  /\ s \o t \in Seq(S)
         /\ Len(s) \in Nat /\ Len(t) \in Nat
         /\ Len(s \o t) = Len(s) + Len(t)
         /\ \A i \in 1 .. Len(s) : (s \o t)[i] = s[i]
         /\ \A i \in 1 .. Len(t) : (s \o t)[Len(s) + i] = t[i]
<1>1. Len(s) \in Nat /\ Len(t) \in Nat  BY LenProperties
<1> DEFINE a == Len(s)
           b == Len(t)
           r == s \o t
<1>2. /\ r \in Seq(S)
      /\ Len(r) = a + b
      /\ \A i \in 1 .. a + b : r[i] = IF i <= a THEN s[i] ELSE t[i - a]
  BY ConcatProperties
<1> HIDE DEF a, b, r
<1>3. a \in Nat /\ b \in Nat  BY <1>1 DEF a, b
<1>4. ASSUME NEW i \in 1 .. a  PROVE r[i] = s[i]  BY <1>2, <1>3
<1>5. ASSUME NEW i \in 1 .. b  PROVE r[a + i] = t[i]
  <2>1. a + i \in 1 .. a + b /\ ~(a + i <= a) /\ (a + i) - a = i  BY <1>3
  <2> QED  BY <1>2, <2>1
<1>6. r \in Seq(S) /\ a \in Nat /\ b \in Nat /\ Len(r) = a + b
      /\ (\A i \in 1 .. a : r[i] = s[i]) /\ (\A i \in 1 .. b : r[a + i] = t[i])
  BY <1>2, <1>3, <1>4, <1>5
<1> QED  BY <1>6 DEF a, b, r

\* The rows of the first k parts of a list of sequences.
Rows(S, n, parts, row) ==
    /\ n \in Nat
    /\ \A k \in 1 .. n : parts[k] \in Seq(S)
    /\ row \in [Nat -> Seq(S)]
    /\ row[0] = <<>>
    /\ \A k \in 1 .. n : row[k] = row[k - 1] \o parts[k]

LEMMA RowsExist ==
  ASSUME NEW S, NEW n \in Nat, NEW parts, \A k \in 1 .. n : parts[k] \in Seq(S)
  PROVE  \E row : Rows(S, n, parts, row)
<1> DEFINE step == [s \in Nat \X Seq(S) |-> IF s[1] < n THEN s[2] \o parts[s[1] + 1] ELSE s[2]]
<1>1. <<>> \in Seq(S)  BY EmptySeq
<1>2. \A k \in Nat, u \in Seq(S) : step[<<k, u>>] = IF k < n THEN u \o parts[k + 1] ELSE u
  <2> TAKE k \in Nat, u \in Seq(S)
  <2>1. <<k, u>> \in Nat \X Seq(S) /\ <<k, u>>[1] = k /\ <<k, u>>[2] = u  OBVIOUS
  <2> QED  BY <2>1
<1> HIDE DEF step
<1>3. ASSUME NEW k \in Nat, NEW u \in Seq(S)  PROVE step[<<k, u>>] \in Seq(S)
  <2>1. step[<<k, u>>] = IF k < n THEN u \o parts[k + 1] ELSE u  BY <1>2
  <2>2. CASE ~(k < n)  BY <2>1, <2>2
  <2>3. CASE k < n
    <3>1. k + 1 \in 1 .. n  BY <2>3
    <3>2. parts[k + 1] \in Seq(S)  BY <3>1
    <3>3. u \o parts[k + 1] \in Seq(S)  BY <3>2, ConcatProperties
    <3> QED  BY <2>1, <2>3, <3>3
  <2> QED  BY <2>2, <2>3
<1>4. PICK row : Recursion(Seq(S), <<>>, step, row)  BY <1>1, <1>3, NatRecursion
<1>5. ASSUME NEW k \in 1 .. n  PROVE row[k] = row[k - 1] \o parts[k]
  <2>1. k - 1 \in Nat /\ k - 1 < n /\ (k - 1) + 1 = k  OBVIOUS
  <2>2. row[k] = step[<<k - 1, row[k - 1]>>]  BY <1>4, <2>1 DEF Recursion
  <2>3. row[k - 1] \in Seq(S)  BY <1>4, <2>1 DEF Recursion
  <2> QED  BY <1>2, <2>1, <2>2, <2>3
<1> QED  BY <1>4, <1>5 DEF Recursion, Rows

\* An earlier row is the beginning of a later one.
LEMMA RowsGrow ==
  ASSUME NEW S, NEW n, NEW parts, NEW row, Rows(S, n, parts, row), NEW k \in 0 .. n, NEW m \in k .. n
  PROVE  /\ Len(row[k]) \in Nat /\ Len(row[m]) \in Nat /\ Len(row[k]) <= Len(row[m])
         /\ \A i \in 1 .. Len(row[k]) : row[k][i] = row[m][i]
<1>a. n \in Nat /\ \A j \in 1 .. n : parts[j] \in Seq(S)  BY DEF Rows
<1> DEFINE K == {d \in Nat : k + d <= n => /\ Len(row[k]) <= Len(row[k + d])
                                          /\ \A i \in 1 .. Len(row[k]) : row[k][i] = row[k + d][i]}
<1>0. \A j \in Nat : row[j] \in Seq(S) /\ Len(row[j]) \in Nat  BY LenProperties DEF Rows
<1>1. 0 \in K
  <2>1. k + 0 = k /\ k \in Nat  OBVIOUS
  <2> QED  BY <1>0, <2>1
<1>2. ASSUME NEW d \in K  PROVE d + 1 \in K
  <2> SUFFICES ASSUME k + (d + 1) <= n
               PROVE  /\ Len(row[k]) <= Len(row[k + (d + 1)])
                      /\ \A i \in 1 .. Len(row[k]) : row[k][i] = row[k + (d + 1)][i]
    OBVIOUS
  <2>1. d \in Nat /\ k \in Nat /\ k + (d + 1) \in 1 .. n /\ (k + (d + 1)) - 1 = k + d /\ k + d \in Nat /\ k + d <= n
    BY <1>a
  <2>2. Len(row[k]) <= Len(row[k + d]) /\ \A i \in 1 .. Len(row[k]) : row[k][i] = row[k + d][i]  BY <2>1
  <2> HIDE DEF K
  <2>3. row[k + (d + 1)] = row[k + d] \o parts[k + (d + 1)]  BY <2>1 DEF Rows
  <2>4. parts[k + (d + 1)] \in Seq(S) /\ Len(parts[k + (d + 1)]) \in Nat  BY <1>a, <2>1, LenProperties
  <2> DEFINE p == row[k]
             u == row[k + d]
             v == parts[k + (d + 1)]
             w == row[k + (d + 1)]
  <2>5. w = u \o v /\ u \in Seq(S) /\ v \in Seq(S) /\ p \in Seq(S)  BY <1>0, <2>1, <2>3, <2>4
  <2>6. Len(p) \in Nat /\ Len(p) <= Len(u) /\ \A i \in 1 .. Len(p) : p[i] = u[i]  BY <1>0, <2>1, <2>2
  <2> HIDE DEF p, u, v, w
  <2>7. Len(u) \in Nat /\ Len(v) \in Nat /\ Len(w) = Len(u) + Len(v) /\ \A i \in 1 .. Len(u) : w[i] = u[i]
    BY <2>5, Joined
  <2>8. Len(p) <= Len(w)  BY <2>6, <2>7
  <2>9. ASSUME NEW i \in 1 .. Len(p)  PROVE p[i] = w[i]
    <3>1. i \in 1 .. Len(u)  BY <2>6, <2>7
    <3> QED  BY <2>6, <2>7, <3>1
  <2> QED  BY <2>8, <2>9 DEF p, w
<1>3. K \in SUBSET Nat  OBVIOUS
<1>4. Nat \subseteq K
  <2> HIDE DEF K
  <2> QED  BY <1>1, <1>2, <1>3, Upwards
<1>5. m - k \in Nat /\ k + (m - k) = m /\ m \in Nat /\ k \in Nat /\ m <= n  BY <1>a
<1>6. m - k \in K  BY <1>4, <1>5
<1> QED  BY <1>0, <1>5, <1>6

\* A part of the row is where the row before it ends.
PartIn(n, parts, row, k) ==
    /\ Len(row[k]) = Len(row[k - 1]) + Len(parts[k])
    /\ Len(row[k - 1]) \in Nat /\ Len(parts[k]) \in Nat
    /\ Len(row[k]) <= Len(row[n])
    /\ \A i \in 1 .. Len(parts[k]) : row[n][Len(row[k - 1]) + i] = parts[k][i]

LEMMA RowParts ==
  ASSUME NEW S, NEW n, NEW parts, NEW row, Rows(S, n, parts, row), NEW k \in 1 .. n
  PROVE  PartIn(n, parts, row, k)
<1>1. k \in 0 .. n /\ n \in k .. n /\ k - 1 \in Nat /\ k \in Nat  BY DEF Rows
<1>2. Len(row[k]) <= Len(row[n]) /\ \A i \in 1 .. Len(row[k]) : row[k][i] = row[n][i]
  BY <1>1, RowsGrow
<1>3. row[k] \in Seq(S) /\ row[k - 1] \in Seq(S) /\ parts[k] \in Seq(S)  BY <1>1 DEF Rows
<1>4. Len(row[k]) \in Nat /\ Len(row[k - 1]) \in Nat /\ Len(parts[k]) \in Nat  BY <1>3, LenProperties
<1>5. row[k] = row[k - 1] \o parts[k]  BY DEF Rows
<1> DEFINE u == row[k - 1]
           v == parts[k]
           w == row[k]
           z == row[n]
<1>6. w = u \o v /\ u \in Seq(S) /\ v \in Seq(S) /\ Len(w) <= Len(z) /\ \A i \in 1 .. Len(w) : w[i] = z[i]
  BY <1>2, <1>3, <1>5
<1> HIDE DEF u, v, w, z
<1>7. /\ Len(u) \in Nat /\ Len(v) \in Nat /\ Len(w) = Len(u) + Len(v)
      /\ \A i \in 1 .. Len(v) : w[Len(u) + i] = v[i]
  BY <1>6, Joined
<1>8. ASSUME NEW i \in 1 .. Len(v)  PROVE z[Len(u) + i] = v[i]
  <2>1. Len(u) + i \in 1 .. Len(w)  BY <1>7
  <2> QED  BY <1>6, <1>7, <2>1
<1> QED  BY <1>6, <1>7, <1>8 DEF u, v, w, z, PartIn

\* What of the last row lies between two of the others.
Between(n, row, lo, hi) == SubSeq(row[n], Len(row[lo - 1]) + 1, Len(row[hi]))

LEMMA BetweenNone ==
  ASSUME NEW S, NEW n, NEW parts, NEW row, Rows(S, n, parts, row), NEW lo \in 1 .. (n + 1), NEW hi \in 0 .. n, lo > hi
  PROVE  Between(n, row, lo, hi) = <<>>
<1>1. hi \in 0 .. n /\ lo - 1 \in hi .. n  BY DEF Rows
<1>2. Len(row[hi]) \in Nat /\ Len(row[lo - 1]) \in Nat /\ Len(row[hi]) <= Len(row[lo - 1])
  BY <1>1, RowsGrow
<1> DEFINE a == Len(row[hi])
           b == Len(row[lo - 1]) + 1
<1>3. a \in Int /\ b \in Int /\ a < b  BY <1>2
<1> HIDE DEF a, b
<1>4. SubSeq(row[n], b, a) = <<>>  BY <1>3, SubSeqEmpty
<1> QED  BY <1>4 DEF Between, a, b

LEMMA BetweenOne ==
  ASSUME NEW S, NEW n, NEW parts, NEW row, Rows(S, n, parts, row), NEW k \in 1 .. n
  PROVE  Between(n, row, k, k) = parts[k]
<1>1. /\ Len(row[k]) = Len(row[k - 1]) + Len(parts[k])
      /\ Len(row[k - 1]) \in Nat /\ Len(parts[k]) \in Nat
      /\ Len(row[k]) <= Len(row[n])
      /\ \A i \in 1 .. Len(parts[k]) : row[n][Len(row[k - 1]) + i] = parts[k][i]
  <2>1. PartIn(n, parts, row, k)  BY RowParts
  <2> QED  BY <2>1 DEF PartIn
<1>2. parts[k] \in Seq(S) /\ row[n] \in Seq(S)  BY DEF Rows
<1> DEFINE u == parts[k]
           a == Len(row[k - 1])
           b == Len(parts[k])
           c == Len(row[k])
           z == row[n]
<1>3. /\ u \in Seq(S) /\ z \in Seq(S) /\ a \in Nat /\ b \in Nat /\ c = a + b /\ Len(u) = b
      /\ c <= Len(z)
      /\ \A i \in 1 .. b : z[a + i] = u[i]
  BY <1>1, <1>2
<1>4. Between(n, row, k, k) = SubSeq(z, a + 1, c)  BY DEF Between
<1> HIDE DEF u, a, b, c, z
<1>5. Len(z) \in Nat  BY <1>3, LenProperties
<1>6. ASSUME NEW i \in (a + 1) .. c  PROVE z[i] \in S
  <2>1. i \in 1 .. Len(z)  BY <1>3, <1>5
  <2> QED  BY <1>3, <2>1, ElementOfSeq
<1>7. a + 1 \in Int /\ c \in Int  BY <1>3
<1>8. /\ SubSeq(z, a + 1, c) \in Seq(S)
      /\ Len(SubSeq(z, a + 1, c)) = IF a + 1 <= c THEN c - (a + 1) + 1 ELSE 0
      /\ \A i \in 1 .. c - (a + 1) + 1 : SubSeq(z, a + 1, c)[i] = z[(a + 1) + i - 1]
  BY <1>6, <1>7, SubSeqProperties
<1> DEFINE r == SubSeq(z, a + 1, c)
<1>9. r \in Seq(S) /\ Len(r) = IF a + 1 <= c THEN c - (a + 1) + 1 ELSE 0  BY <1>8
<1>10. \A i \in 1 .. c - (a + 1) + 1 : r[i] = z[(a + 1) + i - 1]  BY <1>8
<1> HIDE DEF r
<1>11. Len(r) = b  BY <1>3, <1>9
<1>12. ASSUME NEW i \in 1 .. b  PROVE r[i] = u[i]
  <2>1. i \in 1 .. c - (a + 1) + 1 /\ (a + 1) + i - 1 = a + i  BY <1>3
  <2> QED  BY <1>3, <1>10, <2>1
<1>13. r = u  BY <1>3, <1>9, <1>11, <1>12, SeqEqual
<1> QED  BY <1>4, <1>13 DEF r, u

LEMMA BetweenTwo ==
  ASSUME NEW S, NEW n, NEW parts, NEW row, Rows(S, n, parts, row),
         NEW lo \in 1 .. n, NEW hi \in 1 .. n, NEW mid \in lo .. hi, mid < hi
  PROVE  Between(n, row, lo, mid) \o Between(n, row, mid + 1, hi) = Between(n, row, lo, hi)
<1>1. /\ lo - 1 \in 0 .. n /\ mid \in (lo - 1) .. n /\ hi \in mid .. n /\ mid \in 0 .. n
      /\ hi \in 0 .. n /\ n \in hi .. n /\ (mid + 1) - 1 = mid /\ n \in Nat
  BY DEF Rows
<1>2. Len(row[lo - 1]) \in Nat /\ Len(row[mid]) \in Nat /\ Len(row[lo - 1]) <= Len(row[mid])  BY <1>1, RowsGrow
<1>3. Len(row[mid]) <= Len(row[hi])  BY <1>1, RowsGrow
<1>4. Len(row[hi]) \in Nat /\ Len(row[n]) \in Nat /\ Len(row[hi]) <= Len(row[n])  BY <1>1, RowsGrow
<1>5. row[n] \in Seq(S)  BY DEF Rows
<1> DEFINE z == row[n]
           a == Len(row[lo - 1])
           b == Len(row[mid])
           c == Len(row[hi])
<1>6. z \in Seq(S) /\ a \in Nat /\ b \in Nat /\ c \in Nat /\ Len(z) \in Nat /\ a <= b /\ b <= c /\ c <= Len(z)
  BY <1>2, <1>3, <1>4, <1>5
<1>7. /\ Between(n, row, lo, mid) = SubSeq(z, a + 1, b)
      /\ Between(n, row, mid + 1, hi) = SubSeq(z, b + 1, c)
      /\ Between(n, row, lo, hi) = SubSeq(z, a + 1, c)
  BY <1>1 DEF Between
<1> HIDE DEF z, a, b, c
<1>8. a + 1 \in 1 .. Len(z) + 1 /\ b \in (a + 1) - 1 .. Len(z) /\ c \in b .. Len(z)  BY <1>6
<1>9. SubSeq(z, a + 1, b) \o SubSeq(z, b + 1, c) = SubSeq(z, a + 1, c)  BY <1>6, <1>8, ConcatAdjacentSubSeq
<1> QED  BY <1>7, <1>9

\* Put together by halves the parts are the last row.
LEMMA ConcatRow ==
  ASSUME NEW S, NEW n, NEW parts, NEW row, Rows(S, n, parts, row)
  PROVE  Concat(n, parts) = row[n]
<1> DEFINE D == (1 .. (n + 1)) \X (0 .. n)
           E(f, s) == IF s[1] > s[2] THEN <<>>
                      ELSE IF s[1] = s[2] THEN parts[s[1]]
                      ELSE LET mid == (s[1] + s[2]) \div 2
                           IN  f[<<s[1], mid>>] \o f[<<mid + 1, s[2]>>]
           span == CHOOSE f : f = [s \in D |-> E(f, s)]
           B(s) == Between(n, row, s[1], s[2])
           g == [s \in D |-> B(s)]
<1>1. Concat(n, parts) = span[<<1, n>>]  BY DEF Concat
<1>a. n \in Nat  BY DEF Rows
<1> DEFINE Right(f, lo, hi, y) ==
             /\ lo > hi => y = <<>>
             /\ ~(lo > hi) /\ lo = hi => y = parts[lo]
             /\ ~(lo > hi) /\ lo # hi => y = f[<<lo, (lo + hi) \div 2>>] \o f[<<((lo + hi) \div 2) + 1, hi>>]
<1>b. ASSUME NEW f, NEW lo, NEW hi, NEW s, s[1] = lo, s[2] = hi
      PROVE  Right(f, lo, hi, E(f, s))
  BY <1>b, Zenon
<1>2. ASSUME NEW lo \in 1 .. (n + 1), NEW hi \in 0 .. n
      PROVE  \/ lo > hi /\ Between(n, row, lo, hi) = <<>>
             \/ lo <= hi /\ lo = hi /\ Between(n, row, lo, hi) = parts[lo]
             \/ /\ lo <= hi /\ lo # hi
                /\ LET mid == (lo + hi) \div 2
                   IN  /\ mid \in lo .. hi /\ mid < hi /\ mid \in 0 .. n /\ mid + 1 \in 1 .. (n + 1)
                       /\ Between(n, row, lo, mid) \o Between(n, row, mid + 1, hi) = Between(n, row, lo, hi)
  <2>1. CASE lo > hi  BY <2>1, BetweenNone
  <2>2. CASE lo <= hi /\ lo = hi
    <3>1. lo \in 1 .. n  BY <2>2
    <3>2. Between(n, row, lo, lo) = parts[lo]  BY <3>1, BetweenOne
    <3> QED  BY <2>2, <3>2
  <2>3. CASE lo <= hi /\ lo # hi
    <3> DEFINE mid == (lo + hi) \div 2
    <3>1. mid \in lo .. hi /\ mid < hi /\ mid \in Nat  BY <2>3
    <3> HIDE DEF mid
    <3>2. lo \in 1 .. n /\ hi \in 1 .. n /\ mid \in 0 .. n /\ mid + 1 \in 1 .. (n + 1)  BY <1>a, <2>3, <3>1
    <3>3. Between(n, row, lo, mid) \o Between(n, row, mid + 1, hi) = Between(n, row, lo, hi)
      BY <3>1, <3>2, BetweenTwo
    <3> QED  BY <2>3, <3>1, <3>2, <3>3 DEF mid
  <2>4. lo > hi \/ (lo <= hi /\ lo = hi) \/ (lo <= hi /\ lo # hi)  OBVIOUS
  <2> QED  BY <2>1, <2>2, <2>3, <2>4
<1>3. \A s \in D : g[s] = E(g, s)
  <2> TAKE s \in D
  <2>1. PICK lo \in 1 .. (n + 1), hi \in 0 .. n : s = <<lo, hi>>  OBVIOUS
  <2>2. s[1] = lo /\ s[2] = hi /\ g[s] = Between(n, row, lo, hi)  BY <2>1
  <2>3. \A i \in 1 .. (n + 1), j \in 0 .. n : g[<<i, j>>] = Between(n, row, i, j)
    <3> TAKE i \in 1 .. (n + 1), j \in 0 .. n
    <3>1. <<i, j>> \in D /\ <<i, j>>[1] = i /\ <<i, j>>[2] = j  OBVIOUS
    <3> QED  BY <3>1
  <2>7. /\ lo > hi => E(g, s) = <<>>
        /\ ~(lo > hi) /\ lo = hi => E(g, s) = parts[lo]
        /\ ~(lo > hi) /\ lo # hi => E(g, s) = g[<<lo, (lo + hi) \div 2>>] \o g[<<((lo + hi) \div 2) + 1, hi>>]
    <3> HIDE DEF g, E, Right
    <3>1. Right(g, lo, hi, E(g, s))  BY <1>b, <2>2, Zenon
    <3> QED  BY <3>1 DEF Right
  <2> HIDE DEF g, E
  <2>4. CASE lo > hi  BY <1>2, <2>2, <2>4, <2>7
  <2>5. CASE lo <= hi /\ lo = hi  BY <1>2, <2>2, <2>5, <2>7
  <2>6. CASE lo <= hi /\ lo # hi
    <3> DEFINE mid == (lo + hi) \div 2
    <3>0. ~(lo > hi)  BY <2>6
    <3>1. /\ mid \in 0 .. n /\ mid + 1 \in 1 .. (n + 1)
          /\ Between(n, row, lo, mid) \o Between(n, row, mid + 1, hi) = Between(n, row, lo, hi)
      BY <1>2, <2>6, <3>0
    <3>2. E(g, s) = g[<<lo, mid>>] \o g[<<mid + 1, hi>>]  BY <2>6, <2>7, <3>0
    <3> HIDE DEF mid
    <3>4. g[<<lo, mid>>] = Between(n, row, lo, mid) /\ g[<<mid + 1, hi>>] = Between(n, row, mid + 1, hi)
      BY <2>3, <3>1
    <3> QED  BY <2>2, <3>1, <3>2, <3>4
  <2> QED  BY <1>a, <2>4, <2>5, <2>6
<1>4. g = [s \in D |-> E(g, s)]
  <2>1. g = [s \in D |-> g[s]]  OBVIOUS
  <2> HIDE DEF g, E, D
  <2> QED  BY <1>3, <2>1
<1>5. span = [s \in D |-> E(span, s)]
  <2> HIDE DEF g, E, D
  <2> QED  BY <1>4
<1> DEFINE K == {d \in Nat : \A lo \in 1 .. (n + 1), hi \in 0 .. n :
                                hi - lo <= d => span[<<lo, hi>>] = Between(n, row, lo, hi)}
<1> HIDE DEF span
<1>6. ASSUME NEW lo \in 1 .. (n + 1), NEW hi \in 0 .. n
      PROVE  /\ lo > hi => span[<<lo, hi>>] = <<>>
             /\ lo = hi => span[<<lo, hi>>] = parts[lo]
             /\ lo < hi => LET mid == (lo + hi) \div 2
                           IN  span[<<lo, hi>>] = span[<<lo, mid>>] \o span[<<mid + 1, hi>>]
  <2>1. <<lo, hi>> \in D /\ <<lo, hi>>[1] = lo /\ <<lo, hi>>[2] = hi  OBVIOUS
  <2>2. span[<<lo, hi>>] = E(span, <<lo, hi>>)
    <3> HIDE DEF E, D
    <3> QED  BY <1>5, <2>1
  <2>3. /\ lo > hi => E(span, <<lo, hi>>) = <<>>
        /\ ~(lo > hi) /\ lo = hi => E(span, <<lo, hi>>) = parts[lo]
        /\ ~(lo > hi) /\ lo # hi => E(span, <<lo, hi>>) = span[<<lo, (lo + hi) \div 2>>] \o span[<<((lo + hi) \div 2) + 1, hi>>]
    <3> HIDE DEF E, Right
    <3>1. Right(span, lo, hi, E(span, <<lo, hi>>))  BY <1>b, <2>1, Zenon
    <3> QED  BY <3>1 DEF Right
  <2>4. (lo = hi => ~(lo > hi)) /\ (lo < hi => ~(lo > hi) /\ lo # hi)  BY <1>a
  <2> HIDE DEF E, D
  <2> QED  BY <2>2, <2>3, <2>4
<1>7. ASSUME NEW lo \in 1 .. (n + 1), NEW hi \in 0 .. n, lo >= hi
      PROVE  span[<<lo, hi>>] = Between(n, row, lo, hi)
  <2>1. CASE lo > hi  BY <1>6, <2>1, BetweenNone
  <2>2. CASE lo = hi
    <3>1. lo \in 1 .. n  BY <2>2
    <3>2. Between(n, row, lo, lo) = parts[lo]  BY <3>1, BetweenOne
    <3> QED  BY <1>6, <2>2, <3>2
  <2> QED  BY <1>7, <2>1, <2>2
<1>8. 0 \in K
  <2>1. ASSUME NEW lo \in 1 .. (n + 1), NEW hi \in 0 .. n, hi - lo <= 0
        PROVE  span[<<lo, hi>>] = Between(n, row, lo, hi)
    <3>1. lo >= hi  BY <2>1
    <3> QED  BY <1>7, <3>1
  <2> QED  BY <2>1
<1>9. ASSUME NEW d \in K  PROVE d + 1 \in K
  <2>0. d \in Nat /\ \A lo \in 1 .. (n + 1), hi \in 0 .. n :
                        hi - lo <= d => span[<<lo, hi>>] = Between(n, row, lo, hi)
    OBVIOUS
  <2>1. ASSUME NEW lo \in 1 .. (n + 1), NEW hi \in 0 .. n, hi - lo <= d + 1
        PROVE  span[<<lo, hi>>] = Between(n, row, lo, hi)
    <3>1. CASE lo >= hi  BY <1>7, <3>1
    <3>2. CASE lo < hi
      <4> DEFINE mid == (lo + hi) \div 2
      <4>1. mid \in lo .. hi /\ mid < hi /\ mid \in Nat  BY <3>2
      <4>2. span[<<lo, hi>>] = span[<<lo, mid>>] \o span[<<mid + 1, hi>>]  BY <1>6, <3>2
      <4> HIDE DEF mid
      <4>3. lo \in 1 .. n /\ hi \in 1 .. n /\ mid \in 0 .. n /\ mid + 1 \in 1 .. (n + 1)
            /\ mid - lo <= d /\ hi - (mid + 1) <= d
        BY <1>a, <2>0, <2>1, <3>2, <4>1
      <4>4. span[<<lo, mid>>] = Between(n, row, lo, mid)  BY <2>0, <4>3
      <4>5. span[<<mid + 1, hi>>] = Between(n, row, mid + 1, hi)  BY <2>0, <4>3
      <4>6. Between(n, row, lo, mid) \o Between(n, row, mid + 1, hi) = Between(n, row, lo, hi)
        BY <4>1, <4>3, BetweenTwo
      <4> QED  BY <4>2, <4>4, <4>5, <4>6
    <3> QED  BY <3>1, <3>2
  <2> HIDE DEF K
  <2> QED  BY <2>0, <2>1 DEF K
<1>10. K \in SUBSET Nat  OBVIOUS
<1>11. Nat \subseteq K
  <2> HIDE DEF K
  <2> QED  BY <1>8, <1>9, <1>10, Upwards
<1>12. span[<<1, n>>] = Between(n, row, 1, n)
  <2>1. n \in K /\ 1 \in 1 .. (n + 1) /\ n \in 0 .. n /\ n - 1 <= n  BY <1>a, <1>11
  <2> QED  BY <2>1
<1>13. Between(n, row, 1, n) = row[n]
  <2>1. row[n] \in Seq(S) /\ row[0] = <<>> /\ 1 - 1 = 0  BY DEF Rows
  <2>2. Len(row[0]) + 1 = 1  BY <2>1
  <2>3. SubSeq(row[n], 1, Len(row[n])) = row[n]  BY <2>1, SubSeqFull
  <2> QED  BY <2>1, <2>2, <2>3 DEF Between
<1> QED  BY <1>1, <1>12, <1>13

LEMMA ConcatIsRow ==
  ASSUME NEW S, NEW n \in Nat, NEW parts, \A k \in 1 .. n : parts[k] \in Seq(S)
  PROVE  \E row : Rows(S, n, parts, row) /\ Concat(n, parts) = row[n]
<1>1. PICK row : Rows(S, n, parts, row)  BY RowsExist
<1>2. Concat(n, parts) = row[n]  BY <1>1, ConcatRow
<1> QED  BY <1>1, <1>2

\* What is put together is of the elements of the parts, all of them.
LEMMA ConcatType ==
  ASSUME NEW S, NEW n \in Nat, NEW parts, \A k \in 1 .. n : parts[k] \in Seq(S)
  PROVE  Concat(n, parts) \in Seq(S)
<1>1. PICK row : Rows(S, n, parts, row) /\ Concat(n, parts) = row[n]  BY ConcatIsRow
<1> QED  BY <1>1 DEF Rows

Has(s, x) == \E j \in 1 .. Len(s) : s[j] = x
LEMMA ConcatHasAll ==
  ASSUME NEW S, NEW n \in Nat, NEW parts, \A k \in 1 .. n : parts[k] \in Seq(S),
         NEW k \in 1 .. n, NEW i \in 1 .. Len(parts[k])
  PROVE  Has(Concat(n, parts), parts[k][i])
<1>1. PICK row : Rows(S, n, parts, row) /\ Concat(n, parts) = row[n]  BY ConcatIsRow
<1>2. PartIn(n, parts, row, k)  BY <1>1, RowParts
<1> DEFINE a == Len(row[k - 1])
           b == Len(parts[k])
           c == Len(row[k])
           d == Len(row[n])
<1>3. /\ a \in Nat /\ b \in Nat /\ c = a + b /\ c <= d /\ i \in 1 .. b
      /\ row[n][a + i] = parts[k][i]
  BY <1>2 DEF PartIn
<1>4. d \in Nat
  <2>1. row[n] \in Seq(S)  BY <1>1 DEF Rows
  <2> QED  BY <2>1, LenProperties
<1>5. d = Len(Concat(n, parts))  BY <1>1
<1> HIDE DEF a, b, c, d
<1>6. a + i \in 1 .. d  BY <1>3, <1>4
<1> QED  BY <1>1, <1>3, <1>5, <1>6 DEF Has

\* Two lists of parts of the same lengths: their elements stay together.
Paired(n, p, q, u, v) ==
    /\ Len(u) = Len(v)
    /\ \A i \in 1 .. Len(u) : \E k \in 1 .. n : \E j \in 1 .. Len(p[k]) : u[i] = p[k][j] /\ v[i] = q[k][j]

LEMMA ConcatPaired ==
  ASSUME NEW S, NEW R, NEW n \in Nat, NEW p, NEW q,
         \A k \in 1 .. n : p[k] \in Seq(S) /\ q[k] \in Seq(R) /\ Len(p[k]) = Len(q[k])
  PROVE  Paired(n, p, q, Concat(n, p), Concat(n, q))
<1>1. PICK u : Rows(S, n, p, u) /\ Concat(n, p) = u[n]  BY ConcatIsRow
<1>2. PICK v : Rows(R, n, q, v) /\ Concat(n, q) = v[n]  BY ConcatIsRow
<1> DEFINE K == {m \in Nat : m <= n => Paired(n, p, q, u[m], v[m])}
<1>3. 0 \in K
  <2>1. u[0] = <<>> /\ v[0] = <<>>  BY <1>1, <1>2 DEF Rows
  <2>2. Len(u[0]) = 0 /\ Len(v[0]) = 0  BY <2>1
  <2>3. Paired(n, p, q, u[0], v[0])  BY <2>2 DEF Paired
  <2> QED  BY <2>3
<1>4. ASSUME NEW m \in K  PROVE m + 1 \in K
  <2> SUFFICES ASSUME m + 1 <= n  PROVE Paired(n, p, q, u[m + 1], v[m + 1])  OBVIOUS
  <2>1. m \in Nat /\ m <= n /\ m + 1 \in 1 .. n /\ (m + 1) - 1 = m  OBVIOUS
  <2>2. Paired(n, p, q, u[m], v[m])  BY <2>1
  <2> HIDE DEF K
  <2>3. u[m + 1] = u[m] \o p[m + 1] /\ v[m + 1] = v[m] \o q[m + 1]  BY <1>1, <1>2, <2>1 DEF Rows
  <2>4. /\ u[m] \in Seq(S) /\ p[m + 1] \in Seq(S) /\ v[m] \in Seq(R) /\ q[m + 1] \in Seq(R)
        /\ Len(p[m + 1]) = Len(q[m + 1])
    BY <1>1, <1>2, <2>1 DEF Rows
  <2> DEFINE s == u[m]
             t == p[m + 1]
             x == v[m]
             y == q[m + 1]
             a == Len(s)
             b == Len(t)
  <2>5. /\ a \in Nat /\ b \in Nat /\ Len(s \o t) = a + b
        /\ \A i \in 1 .. a : (s \o t)[i] = s[i]
        /\ \A i \in 1 .. b : (s \o t)[a + i] = t[i]
    <3> HIDE DEF s, t
    <3>1. s \in Seq(S) /\ t \in Seq(S)  BY <2>4 DEF s, t
    <3> QED  BY <3>1, Joined
  <2>6. a = Len(x) /\ b = Len(y)  BY <2>2, <2>4 DEF Paired
  <2>7. /\ Len(x \o y) = a + b
        /\ \A i \in 1 .. a : (x \o y)[i] = x[i]
        /\ \A i \in 1 .. b : (x \o y)[a + i] = y[i]
    <3> HIDE DEF x, y, a, b
    <3>1. x \in Seq(R) /\ y \in Seq(R)  BY <2>4 DEF x, y
    <3>2. Len(x \o y) = Len(x) + Len(y) /\ (\A i \in 1 .. Len(x) : (x \o y)[i] = x[i])
          /\ \A i \in 1 .. Len(y) : (x \o y)[Len(x) + i] = y[i]
      BY <3>1, Joined
    <3> QED  BY <2>6, <3>2
  <2>8. u[m + 1] = s \o t /\ v[m + 1] = x \o y  BY <2>3
  <2>9. \A i \in 1 .. a : \E k \in 1 .. n : \E j \in 1 .. Len(p[k]) : s[i] = p[k][j] /\ x[i] = q[k][j]
    BY <2>2 DEF Paired
  <2>10. \A i \in 1 .. b : \E k \in 1 .. n : \E j \in 1 .. Len(p[k]) : t[i] = p[k][j] /\ y[i] = q[k][j]
    BY <2>1
  <2> DEFINE w == s \o t
             z == x \o y
  <2> HIDE DEF s, t, x, y, a, b, w, z
  <2>11. /\ Len(w) = a + b /\ Len(z) = a + b /\ a \in Nat /\ b \in Nat
         /\ \A i \in 1 .. a : w[i] = s[i] /\ z[i] = x[i]
         /\ \A i \in 1 .. b : w[a + i] = t[i] /\ z[a + i] = y[i]
    BY <2>5, <2>7 DEF w, z
  <2>12. ASSUME NEW i \in 1 .. (a + b)
         PROVE  \E k \in 1 .. n : \E j \in 1 .. Len(p[k]) : w[i] = p[k][j] /\ z[i] = q[k][j]
    <3>1. CASE i <= a
      <4>1. i \in 1 .. a  BY <2>11, <3>1
      <4>2. w[i] = s[i] /\ z[i] = x[i]  BY <2>11, <4>1
      <4> QED  BY <2>9, <4>1, <4>2
    <3>2. CASE i > a
      <4>1. i - a \in 1 .. b /\ a + (i - a) = i  BY <2>11, <3>2
      <4>2. w[i] = t[i - a] /\ z[i] = y[i - a]  BY <2>11, <4>1
      <4> QED  BY <2>10, <4>1, <4>2
    <3> QED  BY <2>11, <3>1, <3>2
  <2>13. Paired(n, p, q, w, z)  BY <2>11, <2>12 DEF Paired
  <2> QED  BY <2>8, <2>13 DEF w, z
<1>5. K \in SUBSET Nat  OBVIOUS
<1>6. Nat \subseteq K
  <2> HIDE DEF K
  <2> QED  BY <1>3, <1>4, <1>5, Upwards
<1>7. n \in K  BY <1>6
<1> QED  BY <1>1, <1>2, <1>7

\* Parts of at most one element.
LEMMA ConcatShort ==
  ASSUME NEW S, NEW n \in Nat, NEW parts, \A k \in 1 .. n : parts[k] \in Seq(S) /\ Len(parts[k]) <= 1
  PROVE  Len(Concat(n, parts)) <= n
<1>1. PICK row : Rows(S, n, parts, row) /\ Concat(n, parts) = row[n]  BY ConcatIsRow
<1> DEFINE K == {m \in Nat : m <= n => Len(row[m]) <= m}
<1>2. 0 \in K
  <2>1. Len(row[0]) = 0  BY <1>1 DEF Rows
  <2> QED  BY <2>1
<1>3. ASSUME NEW m \in K  PROVE m + 1 \in K
  <2> SUFFICES ASSUME m + 1 <= n  PROVE Len(row[m + 1]) <= m + 1  OBVIOUS
  <2>1. m \in Nat /\ m <= n /\ m + 1 \in 1 .. n /\ (m + 1) - 1 = m /\ Len(row[m]) <= m  OBVIOUS
  <2>2. PartIn(n, parts, row, m + 1)  BY <1>1, <2>1, RowParts
  <2> DEFINE a == Len(row[m])
             b == Len(parts[m + 1])
             c == Len(row[m + 1])
  <2>3. c = a + b /\ a \in Nat /\ b \in Nat  BY <2>1, <2>2 DEF PartIn
  <2>4. b <= 1 /\ a <= m  BY <2>1
  <2> HIDE DEF a, b, c, K
  <2>5. c <= m + 1  BY <2>1, <2>3, <2>4
  <2> QED  BY <2>5 DEF c
<1>4. K \in SUBSET Nat  OBVIOUS
<1>5. Nat \subseteq K
  <2> HIDE DEF K
  <2> QED  BY <1>2, <1>3, <1>4, Upwards
<1>6. n \in K  BY <1>5
<1> QED  BY <1>1, <1>6

\* Parts of exactly one.
LEMMA ConcatSingles ==
  ASSUME NEW S, NEW n \in Nat, NEW parts, \A k \in 1 .. n : parts[k] \in Seq(S) /\ Len(parts[k]) = 1
  PROVE  Len(Concat(n, parts)) = n /\ \A k \in 1 .. n : Concat(n, parts)[k] = parts[k][1]
<1>1. PICK row : Rows(S, n, parts, row) /\ Concat(n, parts) = row[n]  BY ConcatIsRow
<1> DEFINE K == {m \in Nat : m <= n => Len(row[m]) = m}
<1>2. 0 \in K
  <2>1. Len(row[0]) = 0  BY <1>1 DEF Rows
  <2> QED  BY <2>1
<1>3. ASSUME NEW m \in K  PROVE m + 1 \in K
  <2> SUFFICES ASSUME m + 1 <= n  PROVE Len(row[m + 1]) = m + 1  OBVIOUS
  <2>1. m \in Nat /\ m <= n /\ m + 1 \in 1 .. n /\ (m + 1) - 1 = m /\ Len(row[m]) = m  OBVIOUS
  <2>2. PartIn(n, parts, row, m + 1)  BY <1>1, <2>1, RowParts
  <2> DEFINE a == Len(row[m])
             b == Len(parts[m + 1])
             c == Len(row[m + 1])
  <2>3. c = a + b /\ a \in Nat /\ b \in Nat  BY <2>1, <2>2 DEF PartIn
  <2>4. b = 1 /\ a = m  BY <2>1
  <2> HIDE DEF a, b, c, K
  <2>5. c = m + 1  BY <2>1, <2>3, <2>4
  <2> QED  BY <2>5 DEF c
<1>4. K \in SUBSET Nat  OBVIOUS
<1>5. Nat \subseteq K
  <2> HIDE DEF K
  <2> QED  BY <1>2, <1>3, <1>4, Upwards
<1>6. \A m \in 0 .. n : Len(row[m]) = m  BY <1>5
<1>7. ASSUME NEW k \in 1 .. n  PROVE row[n][k] = parts[k][1]
  <2>1. PartIn(n, parts, row, k) /\ Len(row[k - 1]) = k - 1 /\ 1 \in 1 .. Len(parts[k]) /\ (k - 1) + 1 = k
    BY <1>1, <1>6, RowParts
  <2>2. \A i \in 1 .. Len(parts[k]) : row[n][Len(row[k - 1]) + i] = parts[k][i]  BY <2>1 DEF PartIn
  <2>3. row[n][Len(row[k - 1]) + 1] = parts[k][1]  BY <2>1, <2>2
  <2> QED  BY <2>1, <2>3
<1>8. Len(row[n]) = n  BY <1>6
<1> QED  BY <1>1, <1>7, <1>8

\* The numbers of a set below n, in their order.
Rising(u) == \A i, j \in DOMAIN u : i < j => u[i] < u[j]

LEMMA AscendingNumbers ==
  ASSUME NEW n \in Nat, NEW K
  PROVE  /\ Ascending(n, K) \in Seq(K \cap (0 .. (n - 1)))
         /\ Rising(Ascending(n, K))
         /\ K \cap (0 .. (n - 1)) # {} => Ascending(n, K) # <<>>
<1> DEFINE V == K \cap (0 .. (n - 1))
           parts == [k \in 1 .. n |-> IF k - 1 \in K THEN <<k - 1>> ELSE <<>>]
<1>1. Ascending(n, K) = Concat(n, parts)  BY DEF Ascending
<1>2. \A k \in 1 .. n : parts[k] \in Seq(V)
                        /\ IF k - 1 \in K THEN Len(parts[k]) = 1 /\ parts[k][1] = k - 1 ELSE Len(parts[k]) = 0
  <2> TAKE k \in 1 .. n
  <2>1. parts[k] = IF k - 1 \in K THEN <<k - 1>> ELSE <<>>  OBVIOUS
  <2>2. CASE k - 1 \in K
    <3>1. k - 1 \in V  BY <2>2
    <3> HIDE DEF V, parts
    <3>2. parts[k] = <<k - 1>>  BY <2>1, <2>2
    <3> QED  BY <2>2, <3>1, <3>2
  <2>3. CASE k - 1 \notin K
    <3> HIDE DEF V, parts
    <3>1. parts[k] = <<>>  BY <2>1, <2>3
    <3> QED  BY <2>3, <3>1
  <2> QED  BY <2>2, <2>3
<1> HIDE DEF V, parts
<1>3. PICK row : Rows(V, n, parts, row) /\ Concat(n, parts) = row[n]  BY <1>2, ConcatIsRow
<1>4. row[n] \in Seq(V)  BY <1>3 DEF Rows
<1> DEFINE Below(u, m) == (\A i \in DOMAIN u : u[i] \in Nat /\ u[i] < m) /\ Rising(u)
           J == {m \in Nat : m <= n => Below(row[m], m)}
<1>5. 0 \in J
  <2>1. row[0] = <<>>  BY <1>3 DEF Rows
  <2>2. DOMAIN row[0] = {}  BY <2>1
  <2>3. Below(row[0], 0)  BY <2>2 DEF Rising
  <2> HIDE DEF Below
  <2> QED  BY <2>3
<1>6. ASSUME NEW m \in J  PROVE m + 1 \in J
  <2> SUFFICES ASSUME m + 1 <= n  PROVE Below(row[m + 1], m + 1)  OBVIOUS
  <2>1. m \in Nat /\ m <= n /\ m + 1 \in 1 .. n /\ (m + 1) - 1 = m  OBVIOUS
  <2>2. Below(row[m], m)  BY <2>1
  <2>3. row[m + 1] = row[m] \o parts[m + 1]  BY <1>3, <2>1 DEF Rows
  <2>4. row[m] \in Seq(V) /\ parts[m + 1] \in Seq(V)  BY <1>2, <1>3, <2>1 DEF Rows
  <2> DEFINE u == row[m]
             v == parts[m + 1]
             w == row[m + 1]
             a == Len(u)
             b == Len(v)
  <2>5. u \in Seq(V) /\ v \in Seq(V) /\ w = u \o v  BY <2>3, <2>4
  <2>6. IF m \in K THEN b = 1 /\ v[1] = m ELSE b = 0  BY <1>2, <2>1
  <2> HIDE DEF J, u, v, w, a, b, Below
  <2>7. /\ a \in Nat /\ b \in Nat /\ Len(w) = a + b /\ w \in Seq(V)
        /\ \A i \in 1 .. a : w[i] = u[i]
        /\ \A i \in 1 .. b : w[a + i] = v[i]
    BY <2>5, Joined DEF a, b
  <2>8. DOMAIN u = 1 .. a /\ DOMAIN w = 1 .. (a + b)
    <3>1. DOMAIN u = 1 .. Len(u) /\ DOMAIN w = 1 .. Len(w)  BY <2>5, <2>7, LenProperties
    <3> QED  BY <2>7, <3>1 DEF a
  <2>9. (\A i \in 1 .. a : u[i] \in Nat /\ u[i] < m) /\ \A i, j \in 1 .. a : i < j => u[i] < u[j]
    BY <2>2, <2>8 DEF Below, Rising, u
  <2>10. b = 0 \/ (b = 1 /\ v[1] = m)  BY <2>6
  <2>11. ASSUME NEW i \in 1 .. (a + b)
         PROVE  \/ i \in 1 .. a /\ w[i] = u[i]
                \/ i = a + 1 /\ b = 1 /\ w[i] = m
    <3>1. CASE i <= a  BY <2>7, <3>1
    <3>2. CASE i > a
      <4>1. b = 1 /\ v[1] = m /\ i = a + 1 /\ 1 \in 1 .. b  BY <2>7, <2>10, <3>2
      <4> QED  BY <2>7, <4>1
    <3> QED  BY <2>7, <3>1, <3>2
  <2>12. \A i \in 1 .. (a + b) : w[i] \in Nat /\ w[i] < m + 1  BY <2>1, <2>9, <2>11
  <2>13. ASSUME NEW i \in 1 .. (a + b), NEW j \in 1 .. (a + b), i < j  PROVE w[i] < w[j]
    <3>1. i \in 1 .. a /\ w[i] = u[i]  BY <2>7, <2>10, <2>11, <2>13
    <3>2. CASE j \in 1 .. a /\ w[j] = u[j]  BY <2>9, <2>13, <3>1, <3>2
    <3>3. CASE j = a + 1 /\ b = 1 /\ w[j] = m  BY <2>9, <3>1, <3>3
    <3> QED  BY <2>11, <3>2, <3>3
  <2>14. Below(w, m + 1)  BY <2>8, <2>12, <2>13 DEF Below, Rising
  <2> QED  BY <2>14 DEF w
<1>7. J \in SUBSET Nat  OBVIOUS
<1>8. Nat \subseteq J
  <2> HIDE DEF J
  <2> QED  BY <1>5, <1>6, <1>7, Upwards
<1>9. Rising(row[n])  BY <1>8
<1>10. ASSUME V # {}  PROVE row[n] # <<>>
  <2>1. PICK x \in V : TRUE  BY <1>10
  <2>2. x \in K /\ x + 1 \in 1 .. n /\ (x + 1) - 1 = x  BY <2>1 DEF V
  <2>3. Len(parts[x + 1]) = 1  BY <1>2, <2>2
  <2>4. 1 \in 1 .. Len(parts[x + 1])  BY <2>3
  <2>5. \E j \in 1 .. Len(Concat(n, parts)) : Concat(n, parts)[j] = parts[x + 1][1]
    <3>1. \A k \in 1 .. n : parts[k] \in Seq(V)  BY <1>2
    <3> DEFINE k == x + 1
    <3>2. k \in 1 .. n /\ 1 \in 1 .. Len(parts[k])  BY <2>2, <2>4
    <3> HIDE DEF k
    <3>4. Has(Concat(n, parts), parts[k][1])  BY <3>1, <3>2, ConcatHasAll
    <3>3. \E j \in 1 .. Len(Concat(n, parts)) : Concat(n, parts)[j] = parts[k][1]  BY <3>4 DEF Has
    <3> QED  BY <3>3 DEF k
  <2>6. Len(row[n]) # 0  BY <1>3, <2>5
  <2> QED  BY <2>6
<1> QED  BY <1>1, <1>3, <1>4, <1>9, <1>10 DEF V

\* 2^0 = 1 and 2^(n + 1) = 2 * 2^n.
LEMMA PowersDouble ==
  /\ 2^0 = 1
  /\ \A n \in Nat : 2^(n + 1) = 2 * 2^n
<1>1. 2^0 = 1
  <2>1. IsFiniteSet({}) /\ Cardinality({}) = 0  BY FS_EmptySet
  <2>2. Cardinality(SUBSET {}) = 2^0  BY <2>1, FS_SUBSET
  <2>3. SUBSET {} = {{}}  OBVIOUS
  <2>4. Cardinality({{}}) = 1  BY FS_Singleton
  <2> QED  BY <2>2, <2>3, <2>4
<1>2. ASSUME NEW n \in Nat  PROVE 2^(n + 1) = 2 * 2^n
  <2> DEFINE A == 1 .. n
             B == 1 .. (n + 1)
             F == SUBSET A
             G == {D \in SUBSET B : n + 1 \in D}
             f == [D \in F |-> D \cup {n + 1}]
  <2>1. IsFiniteSet(A) /\ Cardinality(A) = n  BY FS_Interval
  <2>2. IsFiniteSet(B) /\ Cardinality(B) = n + 1  BY FS_Interval
  <2>3. IsFiniteSet(F) /\ Cardinality(F) = 2^n  BY <2>1, FS_SUBSET
  <2>4. Cardinality(SUBSET B) = 2^(n + 1)  BY <2>2, FS_SUBSET
  <2>5. n + 1 \notin A /\ B = A \cup {n + 1}  OBVIOUS
  <2>6. SUBSET B = F \cup G
    <3> HIDE DEF A, B
    <3> QED  BY <2>5
  <2>7. F \cap G = {}
    <3> HIDE DEF A, B
    <3> QED  BY <2>5
  <2>8. f \in Bijection(F, G)
    <3> HIDE DEF A, B
    <3>1. f \in [F -> G]  BY <2>5
    <3>2. ASSUME NEW C \in F, NEW D \in F, f[C] = f[D]  PROVE C = D
      <4>1. C \cup {n + 1} = D \cup {n + 1} /\ n + 1 \notin C /\ n + 1 \notin D  BY <2>5, <3>2
      <4> QED  BY <4>1
    <3>3. ASSUME NEW D \in G  PROVE \E C \in F : f[C] = D
      <4>1. D \ {n + 1} \in F /\ f[D \ {n + 1}] = D  BY <2>5
      <4> QED  BY <4>1
    <3>4. f \in Injection(F, G)
      <4> HIDE DEF f, F, G
      <4>1. DOMAIN f = F  BY <3>1
      <4>2. IsInjective(f)  BY <3>2, <4>1 DEF IsInjective
      <4> QED  BY <3>1, <4>2 DEF Injection
    <3>5. f \in Surjection(F, G)
      <4> HIDE DEF f, F, G
      <4> QED  BY <3>1, <3>3 DEF Surjection
    <3> QED  BY <3>4, <3>5 DEF Bijection
  <2> HIDE DEF A, B, F, G, f
  <2>9. ExistsBijection(F, G)  BY <2>8 DEF ExistsBijection
  <2>10. IsFiniteSet(G) /\ Cardinality(G) = 2^n  BY <2>3, <2>9, FS_Bijection
  <2>11. Cardinality(F \cup G) = Cardinality(F) + Cardinality(G) - Cardinality(F \cap G)
    BY <2>3, <2>10, FS_Union
  <2>12. Cardinality(F \cap G) = 0  BY <2>7, FS_EmptySet
  <2>13. 2^n \in Nat  BY PowerOfTwo
  <2> DEFINE p == 2^n
  <2>14. Cardinality(F) = p /\ Cardinality(G) = p /\ p \in Nat /\ 2^(n + 1) = Cardinality(F \cup G)
    BY <2>3, <2>4, <2>6, <2>10, <2>13
  <2> HIDE DEF p
  <2>15. 2^(n + 1) = 2 * p  BY <2>11, <2>12, <2>14
  <2> QED  BY <2>15 DEF p
<1> QED  BY <1>1, <1>2

\* A number below 2^n that is not 0 has a bit that is 1.
LEMMA HasABit ==
  ASSUME NEW n \in Nat, NEW k \in 1 .. (2^n - 1)
  PROVE  \E b \in 0 .. (n - 1) : BitOf(k, b) = 1
<1> DEFINE Q == {m \in Nat : k < 2^m}
<1>1. 2^n \in Nat /\ k \in Nat /\ k # 0 /\ k < 2^n  BY PowerOfTwo
<1>2. Q \in SUBSET Nat /\ n \in Q  BY <1>1
<1>3. PICK m \in Q : \A j \in Q : m <= j
  <2> HIDE DEF Q
  <2> QED  BY <1>2, Least
<1>4. m \in Nat /\ k < 2^m /\ m <= n  BY <1>2, <1>3
<1>5. m # 0
  <2>1. ~(k < 1)  BY <1>1
  <2> QED  BY <1>4, <2>1, PowersDouble
<1>6. m - 1 \in Nat /\ (m - 1) + 1 = m /\ ~(m <= m - 1) /\ m - 1 \in 0 .. (n - 1)  BY <1>4, <1>5
<1>7. ~(k < 2^(m - 1))  BY <1>3, <1>6
<1>8. 2^m = 2 * 2^(m - 1)
  <2>1. 2^((m - 1) + 1) = 2 * 2^(m - 1)  BY <1>6, PowersDouble
  <2> QED  BY <1>6, <2>1
<1>9. 2^(m - 1) \in Nat \ {0}  BY <1>6, PowerOfTwo
<1> DEFINE p == 2^(m - 1)
<1>10. p \in Nat \ {0} /\ k < 2 * p /\ p <= k  BY <1>1, <1>4, <1>7, <1>8, <1>9
<1>11. BitOf(k, m - 1) = (k \div p) % 2  BY DEF BitOf
<1> HIDE DEF p, Q
<1>12. k \div p = 1  BY <1>1, <1>10
<1>13. 1 % 2 = 1  OBVIOUS
<1>14. BitOf(k, m - 1) = 1  BY <1>11, <1>12, <1>13
<1> QED  BY <1>6, <1>14

(***************************************************************************)
(* Standard gates: what the operations of a program are decomposed into.   *)
(***************************************************************************)
IsStandard(Q, o) ==
    /\ o.wires \in Seq(Q) /\ IsInjective(o.wires)
    /\ o.args \in Seq(Int)
    /\ \/ /\ o.op = "gate" /\ Len(o.wires) = 1
          /\ o.name \in {"Rx", "Ry", "Rz"} => Len(o.args) > 0
          /\ o.name = "U3" => Len(o.args) > 2
       \/ o.op = "gate" /\ Len(o.wires) = 2
       \/ o.op \in {"measqubit", "reset"} /\ Len(o.wires) = 1
       \/ o.op \in {"prep", "measure", "barrier", "fail"}
StandardOps(Q) == {o \in Operations : IsStandard(Q, o)}

LEMMA KnownNames ==
  /\ Distributions \cup GateNames \cup KernelNames \cup {"rz", "sx", "x", "cx", "all", ""} \subseteq Names
  /\ {"Zero", "Uniform", "Bell", "Ghz"} \subseteq Names
  /\ {"H", "X", "Y", "Z", "S", "Sdg", "T", "Tdg", "Rx", "Ry", "Rz", "U3", "Cx", "Cz", "Swap", "Ecr"} \subseteq Names
  /\ {"rz", "sx", "x", "cx", "all", ""} \subseteq Names
  /\ {"prep", "gate", "kernel", "unitary", "product", "measure", "measqubit", "reset", "barrier", "bit", "fail"} \subseteq Kinds
<1>1. Distributions \cup GateNames \cup KernelNames \cup {"rz", "sx", "x", "cx", "all", ""} = Names  BY DEF Names
<1> QED  BY <1>1 DEF Distributions, GateNames, Kinds

LEMMA SeqSingle ==
  ASSUME NEW S, NEW x \in S
  PROVE  <<x>> \in Seq(S) /\ Len(<<x>>) = 1 /\ <<x>>[1] = x /\ DOMAIN <<x>> = {1} /\ IsInjective(<<x>>)
         /\ Range(<<x>>) = {x}
<1>1. <<x>> \in Seq(S) /\ Len(<<x>>) = 1 /\ <<x>>[1] = x /\ DOMAIN <<x>> = {1}  OBVIOUS
<1> QED  BY <1>1 DEF IsInjective, Range

LEMMA SeqDouble ==
  ASSUME NEW S, NEW x \in S, NEW y \in S
  PROVE  <<x, y>> \in Seq(S) /\ Len(<<x, y>>) = 2 /\ <<x, y>>[1] = x /\ <<x, y>>[2] = y
         /\ (x # y => IsInjective(<<x, y>>)) /\ Range(<<x, y>>) = {x, y}
<1>1. <<x, y>> \in Seq(S) /\ Len(<<x, y>>) = 2 /\ <<x, y>>[1] = x /\ <<x, y>>[2] = y /\ DOMAIN <<x, y>> = {1, 2}
  OBVIOUS
<1> QED  BY <1>1 DEF IsInjective, Range

LEMMA TurnStandard ==
  ASSUME NEW Q \in SUBSET Nat, NEW name \in Names, NEW w \in Q, NEW angles \in Seq(Int),
         name \in {"Rx", "Ry", "Rz"} => Len(angles) > 0, name = "U3" => Len(angles) > 2
  PROVE  Turn(name, w, angles) \in StandardOps(Q)
<1> DEFINE o == Turn(name, w, angles)
           ws == <<w>>
<1>1. o = [op |-> "gate", name |-> name, wires |-> ws, args |-> angles, sub |-> ""]  BY DEF Turn, Op
<1>2. ws \in Seq(Q) /\ ws \in Seq(Nat) /\ Len(ws) = 1 /\ IsInjective(ws)
  <2>1. w \in Nat  OBVIOUS
  <2> QED  BY <2>1, SeqSingle
<1> HIDE DEF ws, o
<1>3. o \in Operations  BY <1>1, <1>2, KnownNames DEF Operations
<1>4. /\ o.op = "gate" /\ o.name = name /\ o.wires = ws /\ o.args = angles /\ o.sub = ""  BY <1>1
<1>5. IsStandard(Q, o)  BY <1>2, <1>4 DEF IsStandard
<1> QED  BY <1>3, <1>5 DEF StandardOps, o

LEMMA GateStandard ==
  ASSUME NEW Q \in SUBSET Nat, NEW name \in Names, NEW w \in Q, name \notin {"Rx", "Ry", "Rz", "U3"}
  PROVE  Gate(name, w) \in StandardOps(Q)
<1>1. <<>> \in Seq(Int)  BY EmptySeq
<1>2. Turn(name, w, <<>>) \in StandardOps(Q)
  <2> DEFINE angles == <<>>
  <2>1. angles \in Seq(Int)  BY <1>1
  <2> HIDE DEF angles
  <2>2. Turn(name, w, angles) \in StandardOps(Q)  BY <2>1, TurnStandard
  <2> QED  BY <2>2 DEF angles
<1>3. Gate(name, w) = Turn(name, w, <<>>)  BY DEF Gate, Turn
<1> QED  BY <1>2, <1>3

LEMMA Gate2Standard ==
  ASSUME NEW Q \in SUBSET Nat, NEW name \in Names, NEW a \in Q, NEW b \in Q, a # b
  PROVE  Gate2(name, a, b) \in StandardOps(Q)
<1> DEFINE o == Gate2(name, a, b)
           ws == <<a, b>>
           none == <<>>
<1>1. o = [op |-> "gate", name |-> name, wires |-> ws, args |-> none, sub |-> ""]  BY DEF Gate2, Op
<1>2. ws \in Seq(Q) /\ ws \in Seq(Nat) /\ Len(ws) = 2 /\ IsInjective(ws)
  <2>1. a \in Nat /\ b \in Nat  OBVIOUS
  <2> QED  BY <2>1, SeqDouble
<1>3. none \in Seq(Int)  BY EmptySeq
<1> HIDE DEF ws, o, none
<1>4. o \in Operations  BY <1>1, <1>2, <1>3, KnownNames DEF Operations
<1>5. /\ o.op = "gate" /\ o.name = name /\ o.wires = ws /\ o.args = none /\ o.sub = ""  BY <1>1
<1>6. IsStandard(Q, o)  BY <1>2, <1>3, <1>5 DEF IsStandard
<1> QED  BY <1>4, <1>6 DEF StandardOps, o

\* The gates the decompositions are built from.
LEMMA Gates1Standard ==
  ASSUME NEW Q \in SUBSET Nat, NEW w \in Q
  PROVE  /\ H(w) \in StandardOps(Q) /\ X(w) \in StandardOps(Q)
         /\ T(w) \in StandardOps(Q) /\ Tdg(w) \in StandardOps(Q)
         /\ Gate("S", w) \in StandardOps(Q) /\ Gate("Sdg", w) \in StandardOps(Q)
<1>1. Gate("H", w) \in StandardOps(Q)  BY KnownNames, GateStandard
<1>2. Gate("X", w) \in StandardOps(Q)  BY KnownNames, GateStandard
<1>3. Gate("T", w) \in StandardOps(Q)  BY KnownNames, GateStandard
<1>4. Gate("Tdg", w) \in StandardOps(Q)  BY KnownNames, GateStandard
<1>5. Gate("S", w) \in StandardOps(Q)  BY KnownNames, GateStandard
<1>6. Gate("Sdg", w) \in StandardOps(Q)  BY KnownNames, GateStandard
<1> QED  BY <1>1, <1>2, <1>3, <1>4, <1>5, <1>6 DEF H, X, T, Tdg

LEMMA AngleStandard ==
  ASSUME NEW Q \in SUBSET Nat, NEW w \in Q, NEW a \in Int
  PROVE  Rz(w, a) \in StandardOps(Q) /\ Turn("Ry", w, <<a>>) \in StandardOps(Q)
<1> DEFINE angles == <<a>>
<1>1. angles \in Seq(Int) /\ Len(angles) = 1  BY SeqSingle
<1> HIDE DEF angles
<1>a. ASSUME NEW name \in {"Ry", "Rz"}  PROVE Turn(name, w, angles) \in StandardOps(Q)
  <2>1. name \in Names /\ name # "U3"  BY KnownNames
  <2>2. Len(angles) > 0  BY <1>1
  <2> QED  BY <1>1, <2>1, <2>2, TurnStandard
<1>2. Turn("Rz", w, angles) \in StandardOps(Q)  BY <1>a
<1>3. Turn("Ry", w, angles) \in StandardOps(Q)  BY <1>a
<1> QED  BY <1>2, <1>3 DEF angles, Rz

LEMMA Gates2Standard ==
  ASSUME NEW Q \in SUBSET Nat, NEW a \in Q, NEW b \in Q, a # b
  PROVE  Cx(a, b) \in StandardOps(Q) /\ Cz(a, b) \in StandardOps(Q) /\ Swap(a, b) \in StandardOps(Q)
<1>1. Gate2("Cx", a, b) \in StandardOps(Q)  BY KnownNames, Gate2Standard
<1>2. Gate2("Cz", a, b) \in StandardOps(Q)  BY KnownNames, Gate2Standard
<1>3. Gate2("Swap", a, b) \in StandardOps(Q)  BY KnownNames, Gate2Standard
<1> QED  BY <1>1, <1>2, <1>3 DEF Cx, Cz, Swap

LEMMA FailStandard ==
  ASSUME NEW Q
  PROVE  /\ Fail \in Seq(StandardOps(Q)) /\ Len(Fail) = 1 /\ Fail[1].op = "fail"
<1> DEFINE none == <<>>
           o == Op("fail", "", none, none)
<1>1. o = [op |-> "fail", name |-> "", wires |-> none, args |-> none, sub |-> ""]  BY DEF Op
<1>2. none \in Seq(Q) /\ none \in Seq(Nat) /\ none \in Seq(Int) /\ IsInjective(none)
  <2>1. none \in Seq(Q) /\ none \in Seq(Nat) /\ none \in Seq(Int)  BY EmptySeq
  <2>2. DOMAIN none = {}  OBVIOUS
  <2> QED  BY <2>1, <2>2 DEF IsInjective
<1>3. Fail = <<o>>  BY DEF Fail
<1> HIDE DEF none, o
<1>4. o \in Operations  BY <1>1, <1>2, KnownNames DEF Operations
<1>5. o.op = "fail" /\ o.name = "" /\ o.wires = none /\ o.args = none /\ o.sub = ""  BY <1>1
<1>6. IsStandard(Q, o)  BY <1>2, <1>5 DEF IsStandard
<1>7. o \in StandardOps(Q)  BY <1>4, <1>6 DEF StandardOps
<1> QED  BY <1>3, <1>5, <1>7, SeqSingle

\* More wires, more operations.
LEMMA StandardMore ==
  ASSUME NEW Q, NEW R, Q \subseteq R
  PROVE  StandardOps(Q) \subseteq StandardOps(R) /\ Seq(StandardOps(Q)) \subseteq Seq(StandardOps(R))
<1>1. ASSUME NEW o \in StandardOps(Q)  PROVE o \in StandardOps(R)
  <2>1. o \in Operations /\ IsStandard(Q, o)  BY DEF StandardOps
  <2>2. o.wires \in Seq(Q)  BY <2>1 DEF IsStandard
  <2>3. o.wires \in Seq(R)  BY <2>2, SeqMonotonic
  <2>4. IsStandard(R, o)  BY <2>1, <2>3 DEF IsStandard
  <2> QED  BY <2>1, <2>4 DEF StandardOps
<1>2. StandardOps(Q) \subseteq StandardOps(R)  BY <1>1
<1> QED  BY <1>2, SeqMonotonic

(***************************************************************************)
(* Multiply controlled gates                                               *)
(***************************************************************************)
LEMMA ThreeWireGates ==
  ASSUME NEW Q \in SUBSET Nat, NEW a \in Q, NEW b \in Q, NEW t \in Q, a # b, a # t, b # t
  PROVE  /\ Toffoli(a, b, t) \in Seq(StandardOps(Q)) /\ Rccx(a, b, t) \in Seq(StandardOps(Q))
         /\ ActionGadget(a, b, t) \in Seq(StandardOps(Q)) /\ ResetGadget(a, b, t) \in Seq(StandardOps(Q))
<1> DEFINE G == StandardOps(Q)
<1>1. H(t) \in G /\ T(t) \in G /\ Tdg(t) \in G /\ T(a) \in G /\ T(b) \in G /\ Tdg(b) \in G
  BY Gates1Standard
<1>2. Cx(b, t) \in G /\ Cx(a, t) \in G /\ Cx(a, b) \in G  BY Gates2Standard
<1> HIDE DEF G
<1>3. Toffoli(a, b, t) \in Seq(G)  BY <1>1, <1>2 DEF Toffoli
<1>4. Rccx(a, b, t) \in Seq(G)  BY <1>1, <1>2 DEF Rccx
<1>5. ActionGadget(a, b, t) \in Seq(G)  BY <1>1, <1>2 DEF ActionGadget
<1>6. ResetGadget(a, b, t) \in Seq(G)  BY <1>1, <1>2 DEF ResetGadget
<1> QED  BY <1>3, <1>4, <1>5, <1>6 DEF G

\* Wires of Q, each once; wires that are not among others.
WireList(Q, w) ==
    /\ w \in Seq(Q) /\ Len(w) \in Nat /\ DOMAIN w = 1 .. Len(w)
    /\ \A i \in 1 .. Len(w) : w[i] \in Q
    /\ \A i, j \in 1 .. Len(w) : i # j => w[i] # w[j]
NotAmong(t, w) == \A i \in 1 .. Len(w) : w[i] # t
Apart(v, w) == \A i \in 1 .. Len(v) : NotAmong(v[i], w)

LEMMA WireLists ==
  ASSUME NEW Q, NEW w \in Seq(Q), IsInjective(w)
  PROVE  WireList(Q, w)
<1>1. Len(w) \in Nat /\ DOMAIN w = 1 .. Len(w)  BY LenProperties
<1>2. \A i \in 1 .. Len(w) : w[i] \in Q  BY ElementOfSeq
<1>3. \A i, j \in 1 .. Len(w) : i # j => w[i] # w[j]  BY <1>1 DEF IsInjective
<1> QED  BY <1>1, <1>2, <1>3 DEF WireList

\* A function on 1 .. n whose values differ.
LEMMA WireListOf ==
  ASSUME NEW Q, NEW n \in Nat, NEW f, f = [i \in 1 .. n |-> f[i]],
         \A i \in 1 .. n : f[i] \in Q, \A i, j \in 1 .. n : i # j => f[i] # f[j]
  PROVE  WireList(Q, f) /\ Len(f) = n
<1>1. f \in Seq(Q) /\ Len(f) = n /\ DOMAIN f = 1 .. n  BY FunctionIsSeq
<1> QED  BY <1>1 DEF WireList

\* Wires from the a-th to the b-th.
Taken(Q, w, a, b, r) ==
    /\ WireList(Q, r) /\ Len(r) = (b - a) + 1
    /\ \A i \in 1 .. ((b - a) + 1) : r[i] = w[(a + i) - 1] /\ (a + i) - 1 \in a .. b
LEMMA SomeWires ==
  ASSUME NEW Q, NEW w, WireList(Q, w), NEW a \in 1 .. (Len(w) + 1), NEW b \in (a - 1) .. Len(w)
  PROVE  Taken(Q, w, a, b, SubSeq(w, a, b))
<1> DEFINE r == SubSeq(w, a, b)
           n == Len(w)
<1>1. n \in Nat /\ (\A i \in 1 .. n : w[i] \in Q) /\ \A i, j \in 1 .. n : i # j => w[i] # w[j]
  BY DEF WireList
<1>2. a \in 1 .. (n + 1) /\ b \in (a - 1) .. n  OBVIOUS
<1> HIDE DEF n
<1>3. a \in Int /\ b \in Int /\ \A i \in a .. b : w[i] \in Q  BY <1>1, <1>2
<1>4. /\ r \in Seq(Q) /\ Len(r) = (IF a <= b THEN b - a + 1 ELSE 0)
      /\ \A i \in 1 .. b - a + 1 : r[i] = w[a + i - 1]
  BY <1>3, SubSeqProperties
<1>5. Len(r) \in Nat /\ DOMAIN r = 1 .. Len(r)  BY <1>4, LenProperties
<1> HIDE DEF r
<1>6. Len(r) = (b - a) + 1  BY <1>1, <1>2, <1>4
<1>7. ASSUME NEW i \in 1 .. ((b - a) + 1)
      PROVE  r[i] = w[(a + i) - 1] /\ (a + i) - 1 \in a .. b /\ (a + i) - 1 \in 1 .. n
  BY <1>1, <1>2, <1>4
<1>8. \A i \in 1 .. Len(r) : r[i] \in Q  BY <1>1, <1>6, <1>7
<1>9. ASSUME NEW i \in 1 .. Len(r), NEW j \in 1 .. Len(r), i # j  PROVE r[i] # r[j]
  <2>1. i \in 1 .. ((b - a) + 1) /\ j \in 1 .. ((b - a) + 1)  BY <1>6
  <2>2. r[i] = w[(a + i) - 1] /\ r[j] = w[(a + j) - 1] /\ (a + i) - 1 \in 1 .. n /\ (a + j) - 1 \in 1 .. n
    BY <1>7, <2>1
  <2>3. (a + i) - 1 # (a + j) - 1  BY <1>3, <1>9
  <2> QED  BY <1>1, <2>2, <2>3
<1>10. WireList(Q, r)  BY <1>4, <1>5, <1>8, <1>9 DEF WireList
<1> QED  BY <1>6, <1>7, <1>10 DEF r, Taken

\* One wire more.
WithWire(Q, w, t, r) ==
    /\ WireList(Q, r) /\ Len(r) = Len(w) + 1
    /\ r[Len(w) + 1] = t /\ \A i \in 1 .. Len(w) : r[i] = w[i]
LEMMA OneWireMore ==
  ASSUME NEW Q, NEW w, WireList(Q, w), NEW t \in Q, NotAmong(t, w)
  PROVE  WithWire(Q, w, t, Append(w, t))
<1> DEFINE r == Append(w, t)
           n == Len(w)
<1>1. /\ w \in Seq(Q) /\ n \in Nat /\ (\A i \in 1 .. n : w[i] \in Q /\ w[i] # t)
      /\ \A i, j \in 1 .. n : i # j => w[i] # w[j]
  BY DEF WireList, NotAmong
<1>2. r \in Seq(Q) /\ Len(r) = n + 1 /\ (\A i \in 1 .. n : r[i] = w[i]) /\ r[n + 1] = t
  BY <1>1, AppendProperties
<1>3. Len(r) \in Nat /\ DOMAIN r = 1 .. Len(r)  BY <1>2, LenProperties
<1> HIDE DEF r, n
<1>4. ASSUME NEW i \in 1 .. Len(r)  PROVE (i \in 1 .. n /\ r[i] = w[i]) \/ (i = n + 1 /\ r[i] = t)
  <2>1. i \in 1 .. n \/ i = n + 1  BY <1>1, <1>2
  <2> QED  BY <1>2, <2>1
<1>5. \A i \in 1 .. Len(r) : r[i] \in Q  BY <1>1, <1>4
<1>6. ASSUME NEW i \in 1 .. Len(r), NEW j \in 1 .. Len(r), i # j  PROVE r[i] # r[j]
  BY <1>1, <1>4, <1>6
<1>7. WireList(Q, r)  BY <1>2, <1>3, <1>5, <1>6 DEF WireList
<1> QED  BY <1>2, <1>7 DEF r, n, WithWire

\* The controls c, the target t and the wires that are borrowed.
LEMMA McxDirtyStandard ==
  ASSUME NEW Q \in SUBSET Nat, NEW c, WireList(Q, c), NEW dirty, WireList(Q, dirty), NEW t \in Q,
         NotAmong(t, c), NotAmong(t, dirty), Apart(dirty, c), Len(c) >= 2, Len(dirty) >= Len(c) - 2
  PROVE  McxDirty(c, t, dirty) \in Seq(StandardOps(Q))
<1> DEFINE G == StandardOps(Q)
           m == Len(c)
           n == Len(dirty)
<1>1. /\ m \in Nat /\ n \in Nat /\ m >= 2 /\ n >= m - 2
      /\ \A i \in 1 .. m : c[i] \in Q /\ c[i] # t
      /\ \A i, j \in 1 .. m : i # j => c[i] # c[j]
      /\ \A i \in 1 .. n : dirty[i] \in Q /\ dirty[i] # t /\ \A j \in 1 .. m : c[j] # dirty[i]
      /\ \A i, j \in 1 .. n : i # j => dirty[i] # dirty[j]
  BY DEF WireList, NotAmong, Apart
<1> DEFINE top == Toffoli(c[m], dirty[m - 2], t)
           ups == [i \in 1..(m - 3) |-> ActionGadget(c[m - i], dirty[m - 2 - i], dirty[m - 1 - i])]
           mid == Rccx(c[1], c[2], dirty[1])
           downs == [i \in 1..(m - 3) |-> ResetGadget(c[i + 2], dirty[i], dirty[i + 1])]
           up == Concat(m - 3, ups)
           down == Concat(m - 3, downs)
           pass == top \o up \o mid \o down
           half == Toffoli(c[1], c[2], dirty[1]) \o Toffoli(c[3], dirty[1], t)
<1>2. /\ m = 2 => McxDirty(c, t, dirty) = Toffoli(c[1], c[2], t)
      /\ m = 3 => McxDirty(c, t, dirty) = half \o half
      /\ m # 2 /\ m # 3 => McxDirty(c, t, dirty) = pass \o pass
  <2>1. McxDirty(c, t, dirty) = CASE m = 2 -> Toffoli(c[1], c[2], t)
                                  [] m = 3 -> half \o half
                                  [] OTHER -> pass \o pass
    BY DEF McxDirty
  <2> HIDE DEF m, half, pass
  <2> QED  BY <1>1, <2>1
<1> HIDE DEF m, n, G
<1>3. CASE m = 2
  <2>1. 1 \in 1 .. m /\ 2 \in 1 .. m  BY <1>3
  <2>2. c[1] \in Q /\ c[2] \in Q /\ c[1] # c[2] /\ c[1] # t /\ c[2] # t  BY <1>1, <2>1
  <2> QED  BY <1>2, <1>3, <2>2, ThreeWireGates
<1>4. CASE m = 3
  <2>1. 1 \in 1 .. m /\ 2 \in 1 .. m /\ 3 \in 1 .. m /\ 1 \in 1 .. n  BY <1>1, <1>4
  <2>2. /\ c[1] \in Q /\ c[2] \in Q /\ c[3] \in Q /\ dirty[1] \in Q /\ dirty[1] # t
        /\ c[1] # c[2] /\ c[3] # t /\ c[1] # dirty[1] /\ c[2] # dirty[1] /\ c[3] # dirty[1]
    BY <1>1, <2>1
  <2>3. Toffoli(c[1], c[2], dirty[1]) \in Seq(G)  BY <2>2, ThreeWireGates DEF G
  <2>4. Toffoli(c[3], dirty[1], t) \in Seq(G)  BY <2>2, ThreeWireGates DEF G
  <2>5. half \in Seq(G)  BY <2>3, <2>4, ConcatProperties
  <2> HIDE DEF half
  <2>6. half \o half \in Seq(G)  BY <2>5, ConcatProperties
  <2> QED  BY <1>2, <1>4, <2>6 DEF G
<1>5. CASE m # 2 /\ m # 3
  <2>0. m - 3 \in Nat /\ m >= 4  BY <1>1, <1>5
  <2>1. top \in Seq(G)
    <3>1. m \in 1 .. m /\ m - 2 \in 1 .. n  BY <1>1, <2>0
    <3>2. c[m] \in Q /\ c[m] # t /\ dirty[m - 2] \in Q /\ dirty[m - 2] # t /\ c[m] # dirty[m - 2]
      BY <1>1, <3>1
    <3> QED  BY <3>2, ThreeWireGates DEF G
  <2>2. mid \in Seq(G)
    <3>1. 1 \in 1 .. m /\ 2 \in 1 .. m /\ 1 \in 1 .. n  BY <1>1, <2>0
    <3>2. c[1] \in Q /\ c[2] \in Q /\ c[1] # c[2] /\ dirty[1] \in Q /\ c[1] # dirty[1] /\ c[2] # dirty[1]
      BY <1>1, <3>1
    <3> QED  BY <3>2, ThreeWireGates DEF G
  <2>3. up \in Seq(G)
    <3>1. ASSUME NEW i \in 1 .. (m - 3)  PROVE ups[i] \in Seq(G)
      <4> DEFINE x == m - i
                 y == m - 2 - i
                 z == m - 1 - i
      <4>1. x \in 1 .. m /\ y \in 1 .. n /\ z \in 1 .. n /\ y # z  BY <1>1, <2>0
      <4>2. ups[i] = ActionGadget(c[x], dirty[y], dirty[z])  OBVIOUS
      <4> HIDE DEF x, y, z
      <4>3. /\ c[x] \in Q /\ dirty[y] \in Q /\ dirty[z] \in Q /\ c[x] # dirty[y] /\ c[x] # dirty[z]
            /\ dirty[y] # dirty[z]
        BY <1>1, <4>1
      <4> QED  BY <4>2, <4>3, ThreeWireGates DEF G
    <3> HIDE DEF ups
    <3> QED  BY <2>0, <3>1, ConcatType
  <2>4. down \in Seq(G)
    <3>1. ASSUME NEW i \in 1 .. (m - 3)  PROVE downs[i] \in Seq(G)
      <4> DEFINE x == i + 2
                 z == i + 1
      <4>1. x \in 1 .. m /\ i \in 1 .. n /\ z \in 1 .. n /\ i # z  BY <1>1, <2>0
      <4>2. downs[i] = ResetGadget(c[x], dirty[i], dirty[z])  OBVIOUS
      <4> HIDE DEF x, z
      <4>3. /\ c[x] \in Q /\ dirty[i] \in Q /\ dirty[z] \in Q /\ c[x] # dirty[i] /\ c[x] # dirty[z]
            /\ dirty[i] # dirty[z]
        BY <1>1, <4>1
      <4> QED  BY <4>2, <4>3, ThreeWireGates DEF G
    <3> HIDE DEF downs
    <3> QED  BY <2>0, <3>1, ConcatType
  <2> HIDE DEF top, up, mid, down
  <2>5. pass \in Seq(G)  BY <2>1, <2>2, <2>3, <2>4, ConcatProperties
  <2> HIDE DEF pass
  <2>6. pass \o pass \in Seq(G)  BY <2>5, ConcatProperties
  <2> QED  BY <1>2, <1>5, <2>6 DEF G
<1> QED  BY <1>3, <1>4, <1>5

LEMMA McxCleanStandard ==
  ASSUME NEW Q \in SUBSET Nat, NEW c, WireList(Q, c), NEW t \in Q, NEW ancilla \in Q,
         NotAmong(t, c), NotAmong(ancilla, c), ancilla # t, Len(c) >= 3
  PROVE  McxClean(c, t, ancilla) \in Seq(StandardOps(Q))
<1> DEFINE G == StandardOps(Q)
           m == Len(c)
           k == (m + 1) \div 2
           first == SubSeq(c, 1, k)
           second == SubSeq(c, k + 1, m)
           more == Append(second, ancilla)
           half == McxDirty(first, ancilla, second) \o McxDirty(more, t, first)
           dressing == Rccx(c[1], c[2], ancilla)
           three == dressing \o Toffoli(c[3], ancilla, t) \o dressing
<1>1. /\ m \in Nat /\ m >= 3
      /\ \A i \in 1 .. m : c[i] \in Q /\ c[i] # t /\ c[i] # ancilla
      /\ \A i, j \in 1 .. m : i # j => c[i] # c[j]
  BY DEF WireList, NotAmong
<1>2. McxClean(c, t, ancilla) = IF m = 3 THEN three ELSE half \o half  BY DEF McxClean
<1>3. CASE m = 3
  <2> HIDE DEF half, k
  <2>1. 1 \in 1 .. m /\ 2 \in 1 .. m /\ 3 \in 1 .. m  BY <1>3
  <2> HIDE DEF m
  <2>2. c[1] \in Q /\ c[2] \in Q /\ c[3] \in Q /\ c[1] # c[2] /\ c[3] # t /\ c[1] # ancilla /\ c[2] # ancilla
        /\ c[3] # ancilla
    BY <1>1, <2>1
  <2>3. dressing \in Seq(G)  BY <2>2, ThreeWireGates
  <2>4. Toffoli(c[3], ancilla, t) \in Seq(G)  BY <2>2, ThreeWireGates
  <2> HIDE DEF dressing
  <2>5. three \in Seq(G)  BY <2>3, <2>4, ConcatProperties
  <2> QED  BY <1>2, <1>3, <2>5
<1>4. CASE m # 3
  <2> HIDE DEF three
  <2>c. m = Len(c) /\ k = (m + 1) \div 2 OBVIOUS
  <2> HIDE DEF k, m
  <2>a. m \in Nat /\ m >= 4  BY <1>1, <1>4
  <2>1. k \in Nat /\ k >= 2 /\ k <= m - 2 /\ m - k >= k - 2 /\ m - k <= k /\ m >= 4  BY <2>a, <2>c
  <2>2. 1 \in 1 .. (m + 1) /\ k \in (1 - 1) .. m /\ k + 1 \in 1 .. (m + 1) /\ m \in ((k + 1) - 1) .. m
    BY <1>1, <2>1
  <2>u. Taken(Q, c, 1, k, first)  BY <2>2, <2>c, SomeWires
  <2>v. Taken(Q, c, k + 1, m, second)  BY <2>2, <2>c, SomeWires
  <2>3. /\ WireList(Q, first) /\ Len(first) = (k - 1) + 1
        /\ \A i \in 1 .. ((k - 1) + 1) : first[i] = c[(1 + i) - 1] /\ (1 + i) - 1 \in 1 .. k
    BY <2>u DEF Taken
  <2>4. /\ WireList(Q, second) /\ Len(second) = (m - (k + 1)) + 1
        /\ \A i \in 1 .. ((m - (k + 1)) + 1) : second[i] = c[((k + 1) + i) - 1] /\ ((k + 1) + i) - 1 \in (k + 1) .. m
    BY <2>v DEF Taken
  <2> DEFINE x == Len(first)
             y == Len(second)
  <2>5. x = k /\ y = m - k  BY <1>1, <2>1, <2>3, <2>4
  <2>6. \A i \in 1 .. x : first[i] = c[i] /\ i \in 1 .. k /\ i \in 1 .. m
    <3> TAKE i \in 1 .. x
    <3>1. (1 + i) - 1 = i /\ i \in 1 .. ((k - 1) + 1) /\ i \in 1 .. k /\ i \in 1 .. m  BY <1>1, <2>1, <2>5
    <3> QED  BY <2>3, <3>1
  <2>7. \A i \in 1 .. y : second[i] = c[k + i] /\ k + i \in 1 .. m /\ k + i > k
    <3> TAKE i \in 1 .. y
    <3>1. ((k + 1) + i) - 1 = k + i /\ i \in 1 .. ((m - (k + 1)) + 1) /\ k + i \in 1 .. m /\ k + i > k
      BY <1>1, <2>1, <2>5
    <3> QED  BY <2>4, <3>1
  <2> HIDE DEF first, second, x, y
  <2>8. NotAmong(ancilla, first) /\ NotAmong(t, first)  BY <1>1, <2>6 DEF NotAmong, x
  <2>9. NotAmong(ancilla, second) /\ NotAmong(t, second)  BY <1>1, <2>7 DEF NotAmong, y
  <2>10. \A i \in 1 .. x, j \in 1 .. y : first[i] # second[j]
    <3> TAKE i \in 1 .. x, j \in 1 .. y
    <3>1. first[i] = c[i] /\ i \in 1 .. m /\ i <= k  BY <2>6
    <3>2. second[j] = c[k + j] /\ k + j \in 1 .. m /\ k + j > k  BY <2>7
    <3>3. i # k + j  BY <2>1, <3>1, <3>2
    <3> QED  BY <1>1, <3>1, <3>2, <3>3
  <2>11. Apart(second, first)  BY <2>10 DEF Apart, NotAmong, x, y
  <2>12. Len(first) >= 2 /\ Len(second) >= Len(first) - 2  BY <2>1, <2>5 DEF x, y
  <2>13. McxDirty(first, ancilla, second) \in Seq(G)
    BY <2>3, <2>4, <2>8, <2>9, <2>11, <2>12, McxDirtyStandard
  <2>w. WithWire(Q, second, ancilla, more)  BY <2>4, <2>9, OneWireMore
  <2>14. /\ WireList(Q, more) /\ Len(more) = y + 1 /\ more[y + 1] = ancilla
         /\ \A i \in 1 .. y : more[i] = second[i]
    BY <2>w DEF y, WithWire
  <2> HIDE DEF more
  <2>15. \A i \in 1 .. Len(more) : (i \in 1 .. y /\ more[i] = second[i]) \/ more[i] = ancilla
    <3> TAKE i \in 1 .. Len(more)
    <3>1. i \in 1 .. y \/ i = y + 1  BY <1>1, <2>1, <2>5, <2>14
    <3> QED  BY <2>14, <3>1
  <2>16. NotAmong(t, more)  BY <2>9, <2>15 DEF NotAmong, y
  <2>17. Apart(first, more)
    <3> SUFFICES ASSUME NEW i \in 1 .. x, NEW j \in 1 .. Len(more)  PROVE more[j] # first[i]
      BY DEF Apart, NotAmong, x
    <3>1. first[i] # ancilla  BY <2>8 DEF NotAmong, x
    <3> QED  BY <2>10, <2>15, <3>1
  <2>18. Len(more) >= 2 /\ Len(first) >= Len(more) - 2  BY <1>1, <2>1, <2>5, <2>14 DEF x
  <2>19. McxDirty(more, t, first) \in Seq(G)
    BY <2>3, <2>8, <2>14, <2>16, <2>17, <2>18, McxDirtyStandard
  <2>20. half \in Seq(G)  BY <2>13, <2>19, ConcatProperties
  <2> HIDE DEF half
  <2>21. half \o half \in Seq(G)  BY <2>20, ConcatProperties
  <2> QED  BY <1>2, <1>4, <2>21
<1> QED  BY <1>3, <1>4

\* The ancilla of some wires: none, or a wire of Q that is not one of them.
Spare(Q, w, ancilla) == ancilla = None \/ (ancilla \in Q /\ NotAmong(ancilla, w))

LEMMA MczStandard ==
  ASSUME NEW Q \in SUBSET Nat, NEW w, WireList(Q, w), Len(w) >= 1, NEW ancilla, Spare(Q, w, ancilla)
  PROVE  Mcz(w, ancilla) \in Seq(StandardOps(Q))
<1> DEFINE G == StandardOps(Q)
           n == Len(w)
           t == w[n]
           c == Front(w)
           three == <<H(t)>> \o Toffoli(w[1], w[2], t) \o <<H(t)>>
           many == <<H(t)>> \o McxClean(c, t, ancilla) \o <<H(t)>>
<1>1. n \in Nat /\ n >= 1 /\ (\A i \in 1 .. n : w[i] \in Q) /\ \A i, j \in 1 .. n : i # j => w[i] # w[j]
  BY DEF WireList
<1>2. Mcz(w, ancilla) = CASE n = 1 -> <<Rz(w[1], Pi)>>
                          [] n = 2 -> <<Cz(w[1], w[2])>>
                          [] n = 3 -> three
                          [] n > 3 /\ ancilla = None -> Fail
                          [] n > 3 /\ ancilla # None -> many
  BY DEF Mcz
<1>3. c = SubSeq(w, 1, n - 1)  BY DEF Front
<1>a. n = Len(w)  OBVIOUS
<1> HIDE DEF n, c, G
<1>4. t \in Q  BY <1>1
<1>5. <<H(t)>> \in Seq(G)
  <2>1. H(t) \in G  BY <1>4, Gates1Standard DEF G
  <2> QED  BY <2>1, SeqSingle
<1>6. CASE n = 1
  <2>1. w[1] \in Q /\ Pi \in Int  BY <1>1, <1>6 DEF Pi
  <2>2. Rz(w[1], Pi) \in G  BY <2>1, AngleStandard DEF G
  <2>3. <<Rz(w[1], Pi)>> \in Seq(G)  BY <2>2, SeqSingle
  <2> QED  BY <1>2, <1>6, <2>3 DEF G
<1>7. CASE n = 2
  <2>1. w[1] \in Q /\ w[2] \in Q /\ w[1] # w[2]  BY <1>1, <1>7
  <2>2. Cz(w[1], w[2]) \in G  BY <2>1, Gates2Standard DEF G
  <2>3. <<Cz(w[1], w[2])>> \in Seq(G)  BY <2>2, SeqSingle
  <2> HIDE DEF three, many
  <2> QED  BY <1>2, <1>7, <2>3 DEF G
<1>8. CASE n = 3
  <2>1. 1 \in 1 .. n /\ 2 \in 1 .. n /\ n \in 1 .. n /\ 1 # n /\ 2 # n  BY <1>8
  <2>2. w[1] \in Q /\ w[2] \in Q /\ w[1] # w[2] /\ w[1] # t /\ w[2] # t  BY <1>1, <2>1
  <2>3. Toffoli(w[1], w[2], t) \in Seq(G)  BY <1>4, <2>2, ThreeWireGates DEF G
  <2> HIDE DEF t, many
  <2>4. three \in Seq(G)  BY <1>5, <2>3, ConcatProperties
  <2> HIDE DEF three
  <2> QED  BY <1>2, <1>8, <2>4 DEF G
<1>9. CASE n > 3 /\ ancilla = None
  <2>1. n # 1 /\ n # 2 /\ n # 3  BY <1>9
  <2>2. Mcz(w, ancilla) = Fail
    <3> HIDE DEF three, many, t
    <3> QED  BY <1>2, <1>9, <2>1
  <2> QED  BY <2>2, FailStandard
<1>10. CASE n > 3 /\ ancilla # None
  <2>1. n # 1 /\ n # 2 /\ n # 3  BY <1>10
  <2>2. Mcz(w, ancilla) = many
    <3> HIDE DEF three, many, t
    <3> QED  BY <1>2, <1>10, <2>1
  <2>3. ancilla \in Q /\ \A i \in 1 .. n : w[i] # ancilla  BY <1>10 DEF Spare, NotAmong, n
  <2>4. 1 \in 1 .. (n + 1) /\ n - 1 \in (1 - 1) .. n  BY <1>1
  <2>u. Taken(Q, w, 1, n - 1, c)  BY <1>3, <1>a, <2>4, SomeWires
  <2>5. /\ WireList(Q, c) /\ Len(c) = ((n - 1) - 1) + 1
        /\ \A i \in 1 .. (((n - 1) - 1) + 1) : c[i] = w[(1 + i) - 1] /\ (1 + i) - 1 \in 1 .. (n - 1)
    BY <2>u DEF Taken
  <2>6. Len(c) = n - 1  BY <1>1, <2>5
  <2>7. \A i \in 1 .. Len(c) : c[i] = w[i] /\ i \in 1 .. n /\ i # n
    <3> TAKE i \in 1 .. Len(c)
    <3>1. i \in 1 .. (((n - 1) - 1) + 1) /\ (1 + i) - 1 = i /\ i \in 1 .. n /\ i # n  BY <1>1, <2>6
    <3> QED  BY <2>5, <3>1
  <2>8. n \in 1 .. n  BY <1>1
  <2>9. NotAmong(t, c) /\ NotAmong(ancilla, c) /\ ancilla # t  BY <1>1, <2>3, <2>7, <2>8 DEF NotAmong
  <2>10. Len(c) >= 3  BY <1>1, <1>10, <2>6
  <2>11. McxClean(c, t, ancilla) \in Seq(G)
    <3> HIDE DEF t
    <3> QED  BY <1>4, <2>3, <2>5, <2>9, <2>10, McxCleanStandard DEF G
  <2> HIDE DEF t
  <2>12. many \in Seq(G)  BY <1>5, <2>11, ConcatProperties
  <2> HIDE DEF many
  <2> QED  BY <2>2, <2>12 DEF G
<1>11. n = 1 \/ n = 2 \/ n = 3 \/ (n > 3 /\ ancilla = None) \/ (n > 3 /\ ancilla # None)  BY <1>1
<1> QED  BY <1>6, <1>7, <1>8, <1>9, <1>10, <1>11

(***************************************************************************)
(* Diagonals                                                               *)
(***************************************************************************)
LEMMA CoefficientNumber ==
  ASSUME NEW n \in Nat, NEW k, NEW phases, \A j \in 1 .. 2^n : phases[j] \in Int
  PROVE  Coefficient(phases, k, n) \in Int
<1> DEFINE N == 2^n
           E(f, j) == IF j = 0 THEN 0 ELSE f[j - 1] + Sign(j - 1, k, n) * phases[j]
           sum == CHOOSE f : f = [j \in 0 .. N |-> E(f, j)]
           step == [s \in Nat \X Int |-> IF s[1] < N THEN s[2] + Sign(s[1], k, n) * phases[s[1] + 1] ELSE 0]
<1>1. N \in Nat  BY PowerOfTwo
<1>2. Coefficient(phases, k, n) = sum[N]  BY DEF Coefficient
<1>a. \A j \in 1 .. N : phases[j] \in Int  OBVIOUS
<1> HIDE DEF N
<1>3. \A j : Sign(j, k, n) \in Int  BY DEF Sign
<1>4. \A j \in Nat, u \in Int : step[<<j, u>>] = IF j < N THEN u + Sign(j, k, n) * phases[j + 1] ELSE 0
  <2> TAKE j \in Nat, u \in Int
  <2>1. <<j, u>> \in Nat \X Int /\ <<j, u>>[1] = j /\ <<j, u>>[2] = u  OBVIOUS
  <2> QED  BY <2>1
<1> HIDE DEF step
<1>5. \A j \in Nat, u \in Int : step[<<j, u>>] \in Int
  <2> TAKE j \in Nat, u \in Int
  <2>1. CASE j < N
    <3>1. j + 1 \in 1 .. N  BY <1>1, <2>1
    <3>2. phases[j + 1] \in Int /\ Sign(j, k, n) \in Int  BY <1>a, <1>3, <3>1
    <3>3. Sign(j, k, n) * phases[j + 1] \in Int  BY <3>2
    <3> QED  BY <1>4, <2>1, <3>3
  <2>2. CASE ~(j < N)  BY <1>4, <2>2
  <2> QED  BY <2>1, <2>2
<1> DEFINE F == Int
           z == 0
<1>6. PICK g : Recursion(F, z, step, g)
  <2>1. z \in F /\ \A j \in Nat, u \in F : step[<<j, u>>] \in F  BY <1>5
  <2> HIDE DEF F, z
  <2> QED  BY <2>1, NatRecursion
<1> DEFINE h == [j \in 0 .. N |-> g[j]]
<1>7. \A j \in 0 .. N : h[j] = E(h, j)
  <2> TAKE j \in 0 .. N
  <2>1. CASE j = 0
    <3>1. h[j] = g[0]  BY <1>1, <2>1
    <3> QED  BY <1>6, <2>1, <3>1 DEF Recursion
  <2>2. CASE j # 0
    <3>1. j - 1 \in 0 .. N /\ j - 1 \in Nat /\ (j - 1) + 1 = j /\ j - 1 < N  BY <1>1, <2>2
    <3>2. h[j] = g[j] /\ h[j - 1] = g[j - 1]  BY <3>1
    <3>3. g[j] = step[<<j - 1, g[j - 1]>>] /\ g[j - 1] \in Int  BY <1>6, <3>1 DEF Recursion
    <3>4. step[<<j - 1, g[j - 1]>>] = g[j - 1] + Sign(j - 1, k, n) * phases[j]  BY <1>4, <3>1, <3>3
    <3> HIDE DEF h
    <3> QED  BY <2>2, <3>2, <3>3, <3>4
  <2> QED  BY <2>1, <2>2
<1>8. h = [j \in 0 .. N |-> E(h, j)]
  <2>1. h = [j \in 0 .. N |-> h[j]]  OBVIOUS
  <2> HIDE DEF h, E
  <2> QED  BY <1>7, <2>1
<1>9. sum = [j \in 0 .. N |-> E(sum, j)]
  <2> HIDE DEF h, E
  <2> QED  BY <1>8
<1> HIDE DEF sum, h
<1>10. \A j \in 0 .. N : sum[j] = E(sum, j)
  <2> HIDE DEF E
  <2> QED  BY <1>9
<1> DEFINE K == {j \in Nat : j <= N => sum[j] \in Int}
<1>11. 0 \in K
  <2>1. sum[0] = 0  BY <1>1, <1>10
  <2> QED  BY <2>1
<1>12. ASSUME NEW j \in K  PROVE j + 1 \in K
  <2> SUFFICES ASSUME j + 1 <= N  PROVE sum[j + 1] \in Int  OBVIOUS
  <2>1. j \in Nat /\ j + 1 \in 0 .. N /\ j + 1 \in 1 .. N /\ j + 1 # 0 /\ (j + 1) - 1 = j /\ sum[j] \in Int
    BY <1>1
  <2>2. sum[j + 1] = sum[j] + Sign(j, k, n) * phases[j + 1]  BY <1>10, <2>1
  <2>3. phases[j + 1] \in Int /\ Sign(j, k, n) \in Int  BY <1>a, <1>3, <2>1
  <2>4. Sign(j, k, n) * phases[j + 1] \in Int  BY <2>3
  <2> QED  BY <2>1, <2>2, <2>4
<1>13. K \in SUBSET Nat  OBVIOUS
<1>14. Nat \subseteq K
  <2> HIDE DEF K
  <2> QED  BY <1>11, <1>12, <1>13, Upwards
<1>15. sum[N] \in Int
  <2>1. N \in K /\ N <= N  BY <1>1, <1>14
  <2> QED  BY <2>1
<1> QED  BY <1>2, <1>15

LEMMA ParityStandard ==
  ASSUME NEW Q \in SUBSET Nat, NEW w, WireList(Q, w), NEW phases, \A j \in 1 .. 2^Len(w) : phases[j] \in Int,
         NEW k \in 1 .. (2^Len(w) - 1)
  PROVE  Parity(w, phases, k) \in Seq(StandardOps(Q))
<1> DEFINE G == StandardOps(Q)
           n == Len(w)
           K == {b \in 0 .. (n - 1) : BitOf(k, b) = 1}
           bits == Ascending(n, K)
           t == w[n - bits[1]]
           p == 2^n
           angle == -((2 * Coefficient(phases, k, n)) \div p)
           L == Len(bits)
           flips == [i \in 1 .. (L - 1) |-> Cx(w[n - bits[i + 1]], t)]
<1>1. n \in Nat /\ (\A i \in 1 .. n : w[i] \in Q) /\ \A i, j \in 1 .. n : i # j => w[i] # w[j]
  BY DEF WireList
<1>2. Parity(w, phases, k) = IF angle = 0 THEN <<>> ELSE flips \o <<Rz(t, angle)>> \o flips  BY DEF Parity
<1>3. Coefficient(phases, k, n) \in Int  BY <1>1, CoefficientNumber
<1>4. p \in Nat \ {0}  BY <1>1, PowerOfTwo
<1>5. angle \in Int
  <2> DEFINE e == Coefficient(phases, k, n)
             d == (2 * e) \div p
  <2>1. e \in Int  BY <1>3
  <2> HIDE DEF p, e
  <2>2. d \in Int  BY <1>4, <2>1
  <2>3. angle = -d  BY DEF e, p
  <2> HIDE DEF d, angle
  <2> QED  BY <2>2, <2>3
<1>6. K # {}
  <2>1. \E b \in 0 .. (n - 1) : BitOf(k, b) = 1  BY <1>1, HasABit
  <2> QED  BY <2>1
<1>7. K \cap (0 .. (n - 1)) = K  OBVIOUS
<1>8. bits \in Seq(K) /\ Rising(bits) /\ bits # <<>>
  <2> HIDE DEF K, n
  <2> QED  BY <1>1, <1>6, <1>7, AscendingNumbers
<1>9. \A b \in K : b \in Nat /\ n - b \in 1 .. n /\ b <= n - 1  BY <1>1
<1> HIDE DEF n, K, bits, angle, p, G
<1>10. L \in Nat /\ L # 0 /\ DOMAIN bits = 1 .. L /\ \A i \in 1 .. L : bits[i] \in K
  <2>1. L \in Nat /\ DOMAIN bits = 1 .. L  BY <1>8, LenProperties
  <2>2. L # 0  BY <1>8, EmptySeq
  <2> QED  BY <1>8, <2>1, <2>2, ElementOfSeq
<1> HIDE DEF L
<1>11. 1 \in 1 .. L /\ bits[1] \in Nat /\ n - bits[1] \in 1 .. n  BY <1>9, <1>10
<1>12. t \in Q  BY <1>1, <1>11
<1>13. ASSUME NEW i \in 1 .. (L - 1)  PROVE flips[i] \in G
  <2>1. i + 1 \in 1 .. L /\ 1 < i + 1  BY <1>10
  <2>2. bits[i + 1] \in Nat /\ n - bits[i + 1] \in 1 .. n /\ bits[1] < bits[i + 1]
    BY <1>8, <1>9, <1>10, <1>11, <2>1 DEF Rising
  <2> DEFINE x == n - bits[i + 1]
             y == n - bits[1]
  <2>3. x # y  BY <1>1, <1>11, <2>2
  <2>4. x \in 1 .. n /\ y \in 1 .. n  BY <1>11, <2>2
  <2>5. flips[i] = Cx(w[x], w[y])  OBVIOUS
  <2> HIDE DEF x, y
  <2>6. w[x] \in Q /\ w[y] \in Q /\ w[x] # w[y]  BY <1>1, <2>3, <2>4
  <2> QED  BY <2>5, <2>6, Gates2Standard DEF G
<1>14. flips \in Seq(G)
  <2>1. flips = [i \in 1 .. (L - 1) |-> flips[i]] /\ L - 1 \in Nat  BY <1>10
  <2> HIDE DEF flips
  <2> QED  BY <1>13, <2>1, FunctionIsSeq
<1> HIDE DEF t, flips
<1>15. <<Rz(t, angle)>> \in Seq(G)
  <2>1. Rz(t, angle) \in G  BY <1>5, <1>12, AngleStandard DEF G
  <2> QED  BY <2>1, SeqSingle
<1>16. flips \o <<Rz(t, angle)>> \o flips \in Seq(G)  BY <1>14, <1>15, ConcatProperties
<1>17. <<>> \in Seq(G)  BY EmptySeq
<1> QED  BY <1>2, <1>16, <1>17 DEF G

LEMMA DiagonalStandard ==
  ASSUME NEW Q \in SUBSET Nat, NEW w, WireList(Q, w), NEW phases, \A j \in 1 .. 2^Len(w) : phases[j] \in Int
  PROVE  DiagonalGates(w, phases) \in Seq(StandardOps(Q))
<1> DEFINE p == 2^Len(w)
           parts == [k \in 1 .. (p - 1) |-> Parity(w, phases, k)]
<1>1. p \in Nat \ {0}
  <2>1. Len(w) \in Nat  BY DEF WireList
  <2> QED  BY <2>1, PowerOfTwo
<1>2. DiagonalGates(w, phases) = Concat(p - 1, parts)  BY DEF DiagonalGates
<1>3. \A k \in 1 .. (p - 1) : parts[k] \in Seq(StandardOps(Q))
  <2> TAKE k \in 1 .. (p - 1)
  <2>1. Parity(w, phases, k) \in Seq(StandardOps(Q))  BY ParityStandard
  <2> QED  BY <2>1
<1> HIDE DEF p, parts
<1>4. p - 1 \in Nat  BY <1>1
<1> QED  BY <1>2, <1>3, <1>4, ConcatType

LEMMA HalfNumber ==
  ASSUME NEW a \in Int, NEW p \in Nat \ {0}
  PROVE  a \div p \in Int /\ -(a \div p) \in Int
<1> DEFINE d == a \div p
<1>1. d \in Int  OBVIOUS
<1> HIDE DEF d
<1>2. -d \in Int  BY <1>1
<1> QED  BY <1>1, <1>2 DEF d

\* A function into standard gates is a sequence of them.
LEMMA GatesOfFunction ==
  ASSUME NEW G, NEW s, NEW n \in Nat, NEW f, f = [k \in 1 .. n |-> f[k]], \A k \in 1 .. n : f[k] \in G
  PROVE  f \in Seq(G)
BY FunctionIsSeq

LEMMA Three ==
  ASSUME NEW S, NEW x \in Seq(S), NEW y \in Seq(S), NEW z \in Seq(S)
  PROVE  x \o y \o z \in Seq(S)
BY ConcatProperties

LEMMA MultiCxStandard ==
  ASSUME NEW Q \in SUBSET Nat, NEW c, WireList(Q, c), NEW t \in Q, NotAmong(t, c), NEW ancilla, Spare(Q, c, ancilla),
         ancilla # t
  PROVE  MultiCx(c, t, ancilla) \in Seq(StandardOps(Q))
<1> DEFINE G == StandardOps(Q)
           n == Len(c)
           all == Append(c, t)
           p == 2^Len(all)
           phases == [k \in 1 .. p |-> IF k = p THEN Pi ELSE 0]
           rest == <<H(t)>> \o DiagonalGates(all, phases) \o <<H(t)>>
           clean == McxClean(c, t, ancilla)
           two == Toffoli(c[1], c[2], t)
<1>1. n \in Nat /\ (\A i \in 1 .. n : c[i] \in Q /\ c[i] # t) /\ (\A i, j \in 1 .. n : i # j => c[i] # c[j])
  BY DEF WireList, NotAmong
<1>2. MultiCx(c, t, ancilla) = CASE c = <<>> -> <<X(t)>>
                                 [] n = 1 -> <<Cx(c[1], t)>>
                                 [] n = 2 -> two
                                 [] n > 2 /\ ancilla # None -> clean
                                 [] OTHER -> rest
  BY DEF MultiCx
<1>3. c = <<>> <=> n = 0  BY EmptySeq DEF WireList
<1> HIDE DEF n, two, clean, rest, all, phases
<1>4. CASE n = 0
  <2>1. <<X(t)>> \in Seq(G)
    <3>1. X(t) \in G  BY Gates1Standard
    <3> QED  BY <3>1, SeqSingle
  <2> QED  BY <1>2, <1>3, <1>4, <2>1
<1>5. CASE n = 1
  <2>1. c[1] \in Q /\ c[1] # t  BY <1>1, <1>5
  <2>2. Cx(c[1], t) \in G  BY <2>1, Gates2Standard
  <2>3. <<Cx(c[1], t)>> \in Seq(G)  BY <2>2, SeqSingle
  <2> QED  BY <1>2, <1>3, <1>5, <2>3
<1>6. CASE n = 2
  <2>1. 1 \in 1 .. n /\ 2 \in 1 .. n  BY <1>6
  <2>2. c[1] \in Q /\ c[2] \in Q /\ c[1] # c[2] /\ c[1] # t /\ c[2] # t  BY <1>1, <2>1
  <2>3. two \in Seq(G)  BY <2>2, ThreeWireGates DEF two
  <2> QED  BY <1>2, <1>3, <1>6, <2>3
<1>7. CASE n > 2 /\ ancilla # None
  <2>1. n >= 3 /\ n # 0 /\ n # 1 /\ n # 2  BY <1>1, <1>7
  <2>2. ancilla \in Q /\ NotAmong(ancilla, c)  BY <1>7 DEF Spare
  <2>3. clean \in Seq(G)  BY <2>1, <2>2, McxCleanStandard DEF clean, n
  <2> QED  BY <1>2, <1>3, <1>7, <2>1, <2>3
<1>8. CASE n > 2 /\ ancilla = None
  <2>1. n # 0 /\ n # 1 /\ n # 2  BY <1>1, <1>8
  <2>2. MultiCx(c, t, ancilla) = rest  BY <1>2, <1>3, <1>8, <2>1
  <2>3. WithWire(Q, c, t, all)  BY OneWireMore DEF all
  <2>4. WireList(Q, all)  BY <2>3 DEF WithWire
  <2>5. \A k \in 1 .. 2^Len(all) : phases[k] \in Int  BY DEF phases, Pi
  <2>6. DiagonalGates(all, phases) \in Seq(G)  BY <2>4, <2>5, DiagonalStandard
  <2>7. <<H(t)>> \in Seq(G)
    <3>1. H(t) \in G  BY Gates1Standard
    <3> QED  BY <3>1, SeqSingle
  <2> HIDE DEF G
  <2>8. rest \in Seq(G)  BY <2>6, <2>7, Three DEF rest
  <2> QED  BY <2>2, <2>8 DEF G
<1> QED  BY <1>1, <1>4, <1>5, <1>6, <1>7, <1>8

(***************************************************************************)
(* Diffuse, GroverIter, Rotate, Fourier                                    *)
(***************************************************************************)
LEMMA EachStandard ==
  ASSUME NEW Q \in SUBSET Nat, NEW w, WireList(Q, w)
  PROVE  Hs(w) \in Seq(StandardOps(Q)) /\ Xs(w) \in Seq(StandardOps(Q))
<1> DEFINE G == StandardOps(Q)
           n == Len(w)
           h == [k \in 1 .. n |-> H(w[k])]
           x == [k \in 1 .. n |-> X(w[k])]
<1>1. n \in Nat /\ DOMAIN w = 1 .. n /\ \A i \in 1 .. n : w[i] \in Q  BY DEF WireList
<1>2. Hs(w) = h /\ Xs(w) = x  BY <1>1 DEF Hs, Xs
<1> HIDE DEF n
<1>3. \A k \in 1 .. n : H(w[k]) \in G /\ X(w[k]) \in G  BY <1>1, Gates1Standard
<1> HIDE DEF G
<1>4. h \in Seq(G)
  <2>1. h = [k \in 1 .. n |-> h[k]] /\ \A k \in 1 .. n : h[k] \in G  BY <1>3
  <2> HIDE DEF h
  <2> QED  BY <1>1, <2>1, FunctionIsSeq
<1>5. x \in Seq(G)
  <2>1. x = [k \in 1 .. n |-> x[k]] /\ \A k \in 1 .. n : x[k] \in G  BY <1>3
  <2> HIDE DEF x
  <2> QED  BY <1>1, <2>1, FunctionIsSeq
<1> QED  BY <1>2, <1>4, <1>5 DEF G

LEMMA DiffuseStandard ==
  ASSUME NEW Q \in SUBSET Nat, NEW w, WireList(Q, w), Len(w) >= 1, NEW ancilla, Spare(Q, w, ancilla)
  PROVE  DiffuseGates(w, ancilla) \in Seq(StandardOps(Q))
<1> DEFINE G == StandardOps(Q)
<1>1. Hs(w) \in Seq(G) /\ Xs(w) \in Seq(G) /\ Mcz(w, ancilla) \in Seq(G)  BY EachStandard, MczStandard
<1> HIDE DEF G
<1>2. Hs(w) \o Xs(w) \o Mcz(w, ancilla) \o Xs(w) \o Hs(w) \in Seq(G)  BY <1>1, ConcatProperties
<1> QED  BY <1>2 DEF DiffuseGates, G

LEMMA MarkStandard ==
  ASSUME NEW Q \in SUBSET Nat, NEW w, WireList(Q, w), Len(w) >= 1, NEW ancilla, Spare(Q, w, ancilla), NEW target
  PROVE  Mark(w, target, ancilla) \in Seq(StandardOps(Q))
<1> DEFINE G == StandardOps(Q)
           n == Len(w)
           K == {i \in 0 .. (n - 1) : BitOf(target, n - 1 - i) = 0}
           zeros == Ascending(n, K)
           flips == [k \in DOMAIN zeros |-> X(w[zeros[k] + 1])]
<1>1. n \in Nat /\ \A i \in 1 .. n : w[i] \in Q  BY DEF WireList
<1>2. Mark(w, target, ancilla) = flips \o Mcz(w, ancilla) \o flips  BY DEF Mark
<1>3. Mcz(w, ancilla) \in Seq(G)  BY MczStandard
<1>4. K \subseteq 0 .. (n - 1)  OBVIOUS
<1> HIDE DEF n, G, K
<1>5. zeros \in Seq(K \cap (0 .. (n - 1)))  BY <1>1, AscendingNumbers
<1>6. /\ Len(zeros) \in Nat /\ DOMAIN zeros = 1 .. Len(zeros)
      /\ \A k \in 1 .. Len(zeros) : zeros[k] \in K \cap (0 .. (n - 1))
  BY <1>5, LenProperties, ElementOfSeq
<1> HIDE DEF zeros
<1>7. ASSUME NEW k \in 1 .. Len(zeros)  PROVE X(w[zeros[k] + 1]) \in G
  <2>1. zeros[k] + 1 \in 1 .. n  BY <1>1, <1>6
  <2>2. w[zeros[k] + 1] \in Q  BY <1>1, <2>1
  <2> QED  BY <2>2, Gates1Standard DEF G
<1>8. flips \in Seq(G)
  <2>1. flips = [k \in 1 .. Len(zeros) |-> flips[k]] /\ \A k \in 1 .. Len(zeros) : flips[k] \in G  BY <1>6, <1>7
  <2> HIDE DEF flips
  <2> QED  BY <1>6, <2>1, FunctionIsSeq
<1> HIDE DEF flips
<1>9. flips \o Mcz(w, ancilla) \o flips \in Seq(G)  BY <1>3, <1>8, Three
<1> QED  BY <1>2, <1>9 DEF G

LEMMA GroverStandard ==
  ASSUME NEW Q \in SUBSET Nat, NEW w, WireList(Q, w), Len(w) >= 1, NEW ancilla, Spare(Q, w, ancilla),
         NEW targets \in Seq(Int)
  PROVE  GroverGates(w, targets, ancilla) \in Seq(StandardOps(Q))
<1> DEFINE G == StandardOps(Q)
           L == Len(targets)
           marks == [k \in DOMAIN targets |-> Mark(w, targets[k], ancilla)]
           far == \E k \in DOMAIN targets : targets[k] >= 2^Len(w)
<1>1. L \in Nat /\ DOMAIN targets = 1 .. L  BY LenProperties
<1>2. GroverGates(w, targets, ancilla)
         = IF far THEN Fail ELSE Concat(L, marks) \o DiffuseGates(w, ancilla)
  BY DEF GroverGates
<1>3. DiffuseGates(w, ancilla) \in Seq(G)  BY DiffuseStandard
<1>4. \A k \in 1 .. L : marks[k] \in Seq(G)
  <2> TAKE k \in 1 .. L
  <2>1. Mark(w, targets[k], ancilla) \in Seq(G)  BY MarkStandard
  <2> QED  BY <1>1, <2>1
<1> HIDE DEF G, marks, far, L
<1>5. Concat(L, marks) \in Seq(G)  BY <1>1, <1>4, ConcatType
<1>6. Concat(L, marks) \o DiffuseGates(w, ancilla) \in Seq(G)  BY <1>3, <1>5, ConcatProperties
<1> QED  BY <1>2, <1>6, FailStandard DEF G

LEMMA RotateStandard ==
  ASSUME NEW Q \in SUBSET Nat, NEW w, WireList(Q, w), NEW angle \in Int
  PROVE  RotateGates(w, angle) \in Seq(StandardOps(Q))
<1> DEFINE G == StandardOps(Q)
           n == Len(w)
           f == [j \in 1 .. n |-> Rz(w[j], angle * 2^(n - j))]
<1>1. n \in Nat /\ DOMAIN w = 1 .. n /\ \A i \in 1 .. n : w[i] \in Q  BY DEF WireList
<1>2. RotateGates(w, angle) = f  BY <1>1 DEF RotateGates
<1> HIDE DEF n, G
<1>3. ASSUME NEW j \in 1 .. n  PROVE Rz(w[j], angle * 2^(n - j)) \in G
  <2>1. n - j \in Nat  BY <1>1
  <2> DEFINE p == 2^(n - j)
  <2>2. p \in Int  BY <2>1, PowerOfTwo
  <2> HIDE DEF p
  <2>3. angle * p \in Int  BY <2>2
  <2>4. w[j] \in Q  BY <1>1
  <2>5. Rz(w[j], angle * p) \in G  BY <2>3, <2>4, AngleStandard DEF G
  <2> QED  BY <2>5 DEF p
<1>4. f \in Seq(G)
  <2>1. f = [k \in 1 .. n |-> f[k]] /\ \A k \in 1 .. n : f[k] \in G  BY <1>3
  <2> HIDE DEF f
  <2> QED  BY <1>1, <2>1, FunctionIsSeq
<1> QED  BY <1>2, <1>4 DEF G

LEMMA ControlledPhaseStandard ==
  ASSUME NEW Q \in SUBSET Nat, NEW c \in Q, NEW t \in Q, c # t, NEW angle \in Int
  PROVE  ControlledPhaseGates(c, t, angle) \in Seq(StandardOps(Q))
<1> DEFINE G == StandardOps(Q)
           d == angle \div 2
           e == -(angle \div 2)
<1>1. d \in Int /\ e \in Int
  <2>1. 2 \in Nat \ {0}  OBVIOUS
  <2> QED  BY <2>1, HalfNumber
<1>2. ControlledPhaseGates(c, t, angle) = <<Rz(t, d), Cx(c, t), Rz(t, e), Cx(c, t), Rz(c, d)>>
  BY DEF ControlledPhaseGates
<1> HIDE DEF d, e
<1>3. Rz(t, d) \in G /\ Rz(t, e) \in G /\ Rz(c, d) \in G  BY <1>1, AngleStandard
<1>4. Cx(c, t) \in G  BY Gates2Standard
<1> HIDE DEF G
<1>5. <<Rz(t, d), Cx(c, t), Rz(t, e), Cx(c, t), Rz(c, d)>> \in Seq(G)  BY <1>3, <1>4
<1> QED  BY <1>2, <1>5 DEF G

LEMMA SwapEndsStandard ==
  ASSUME NEW Q \in SUBSET Nat, NEW w, WireList(Q, w)
  PROVE  SwapEnds(w) \in Seq(StandardOps(Q))
<1> DEFINE G == StandardOps(Q)
           n == Len(w)
           h == n \div 2
           f == [i \in 1 .. h |-> Swap(w[i], w[n + 1 - i])]
<1>1. n \in Nat /\ (\A i \in 1 .. n : w[i] \in Q) /\ \A i, j \in 1 .. n : i # j => w[i] # w[j]  BY DEF WireList
<1>2. SwapEnds(w) = f  BY DEF SwapEnds
<1> HIDE DEF n, G
<1>3. h \in Nat /\ 2 * h <= n  BY <1>1
<1> HIDE DEF h
<1>4. ASSUME NEW i \in 1 .. h  PROVE Swap(w[i], w[n + 1 - i]) \in G
  <2> DEFINE j == n + 1 - i
  <2>1. i \in 1 .. n /\ j \in 1 .. n /\ i # j  BY <1>1, <1>3
  <2> HIDE DEF j
  <2>2. w[i] \in Q /\ w[j] \in Q /\ w[i] # w[j]  BY <1>1, <2>1
  <2>3. Swap(w[i], w[j]) \in G  BY <2>2, Gates2Standard DEF G
  <2> QED  BY <2>3 DEF j
<1>5. f \in Seq(G)
  <2>1. f = [k \in 1 .. h |-> f[k]] /\ \A k \in 1 .. h : f[k] \in G  BY <1>4
  <2> HIDE DEF f
  <2> QED  BY <1>3, <2>1, FunctionIsSeq
<1> QED  BY <1>2, <1>5 DEF G

LEMMA FourierAngle ==
  ASSUME NEW m \in Nat
  PROVE  (2 * Pi) \div 2^m \in Int /\ -((2 * Pi) \div 2^m) \in Int
<1> DEFINE p == 2^m
           a == 2 * Pi
<1>1. p \in Nat \ {0} /\ a \in Int  BY PowerOfTwo DEF Pi
<1> HIDE DEF p, a
<1>2. a \div p \in Int /\ -(a \div p) \in Int  BY <1>1, HalfNumber
<1> QED  BY <1>2 DEF a, p

LEMMA FourierStandard ==
  ASSUME NEW Q \in SUBSET Nat, NEW w, WireList(Q, w)
  PROVE  FourierGates(w) \in Seq(StandardOps(Q)) /\ FourierInvGates(w) \in Seq(StandardOps(Q))
<1> DEFINE G == StandardOps(Q)
           n == Len(w)
           steps == [j \in DOMAIN w |-> FourierStep(w, j)]
           invs == [j \in DOMAIN w |-> FourierInvStep(w, j)]
<1>1. /\ n \in Nat /\ DOMAIN w = 1 .. n /\ (\A i \in 1 .. n : w[i] \in Q)
      /\ \A i, j \in 1 .. n : i # j => w[i] # w[j]
  BY DEF WireList
<1>a. n = Len(w)  OBVIOUS
<1>2. FourierGates(w) = Concat(n, steps) \o SwapEnds(w) /\ FourierInvGates(w) = SwapEnds(w) \o Concat(n, invs)
  BY DEF FourierGates, FourierInvGates
<1>3. SwapEnds(w) \in Seq(G)  BY SwapEndsStandard
<1> HIDE DEF n
<1>4. ASSUME NEW i \in 1 .. n  PROVE <<H(w[i])>> \in Seq(G)
  <2>1. w[i] \in Q  BY <1>1
  <2>2. H(w[i]) \in G  BY <2>1, Gates1Standard
  <2> QED  BY <2>2, SeqSingle
<1>5. ASSUME NEW j \in 1 .. n  PROVE FourierStep(w, j) \in Seq(G)
  <2> DEFINE rest == n - j
             parts == [m \in 1 .. rest |-> ControlledPhaseGates(w[j + m], w[j], (2 * Pi) \div 2^m)]
  <2>1. FourierStep(w, j) = <<H(w[j])>> \o Concat(rest, parts)  BY <1>a DEF FourierStep
  <2>2. rest \in Nat  BY <1>1
  <2>3. ASSUME NEW m \in 1 .. rest  PROVE parts[m] \in Seq(G)
    <3>1. m \in Nat /\ j + m \in 1 .. n /\ j + m # j  BY <1>1, <2>2
    <3>2. w[j + m] \in Q /\ w[j] \in Q /\ w[j + m] # w[j]  BY <1>1, <3>1
    <3>3. (2 * Pi) \div 2^m \in Int  BY <3>1, FourierAngle
    <3>4. ControlledPhaseGates(w[j + m], w[j], (2 * Pi) \div 2^m) \in Seq(G)
      BY <3>2, <3>3, ControlledPhaseStandard
    <3> QED  BY <3>4
  <2> HIDE DEF rest, parts, G
  <2>4. Concat(rest, parts) \in Seq(G)  BY <2>2, <2>3, ConcatType
  <2>5. <<H(w[j])>> \o Concat(rest, parts) \in Seq(G)  BY <1>4, <2>4, ConcatProperties
  <2> QED  BY <2>1, <2>5
<1>6. ASSUME NEW i \in 1 .. n  PROVE FourierInvStep(w, i) \in Seq(G)
  <2> DEFINE t == n + 1 - i
             rest == i - 1
             parts == [m \in 1 .. rest |-> ControlledPhaseGates(w[n + 1 - m], w[t], -((2 * Pi) \div 2^(i - m)))]
  <2>1. FourierInvStep(w, i) = Concat(rest, parts) \o <<H(w[t])>>  BY <1>a DEF FourierInvStep
  <2>2. rest \in Nat /\ t \in 1 .. n  BY <1>1
  <2>3. ASSUME NEW m \in 1 .. rest  PROVE parts[m] \in Seq(G)
    <3> DEFINE u == n + 1 - m
               d == i - m
    <3>1. d \in Nat /\ u \in 1 .. n /\ u # t  BY <1>1, <2>2
    <3>p. parts[m] = ControlledPhaseGates(w[u], w[t], -((2 * Pi) \div 2^d))  OBVIOUS
    <3> HIDE DEF u, d, t
    <3>2. w[u] \in Q /\ w[t] \in Q /\ w[u] # w[t]  BY <1>1, <2>2, <3>1
    <3>3. -((2 * Pi) \div 2^d) \in Int  BY <3>1, FourierAngle
    <3>4. ControlledPhaseGates(w[u], w[t], -((2 * Pi) \div 2^d)) \in Seq(G)
      BY <3>2, <3>3, ControlledPhaseStandard
    <3> QED  BY <3>p, <3>4
  <2> HIDE DEF rest, parts, G, t
  <2>4. Concat(rest, parts) \in Seq(G)  BY <2>2, <2>3, ConcatType
  <2>5. Concat(rest, parts) \o <<H(w[t])>> \in Seq(G)  BY <1>4, <2>2, <2>4, ConcatProperties
  <2> QED  BY <2>1, <2>5
<1>7. \A k \in 1 .. n : steps[k] \in Seq(G) /\ invs[k] \in Seq(G)  BY <1>1, <1>5, <1>6
<1> HIDE DEF steps, invs, G
<1>8. Concat(n, steps) \in Seq(G) /\ Concat(n, invs) \in Seq(G)  BY <1>1, <1>7, ConcatType
<1>9. Concat(n, steps) \o SwapEnds(w) \in Seq(G) /\ SwapEnds(w) \o Concat(n, invs) \in Seq(G)
  BY <1>3, <1>8, ConcatProperties
<1> QED  BY <1>2, <1>9 DEF G

(***************************************************************************)
(* Permutation                                                             *)
(***************************************************************************)
\* Wires behind others.
BothWires(Q, u, v, r) ==
    /\ WireList(Q, r)
    /\ \A x : NotAmong(x, u) /\ NotAmong(x, v) => NotAmong(x, r)
LEMMA WiresBehind ==
  ASSUME NEW Q, NEW u, WireList(Q, u), NEW v, WireList(Q, v), Apart(u, v)
  PROVE  BothWires(Q, u, v, u \o v)
<1> DEFINE r == u \o v
           a == Len(u)
           b == Len(v)
<1>1. /\ u \in Seq(Q) /\ v \in Seq(Q) /\ a \in Nat /\ b \in Nat
      /\ (\A i \in 1 .. a : u[i] \in Q) /\ (\A i \in 1 .. b : v[i] \in Q)
      /\ (\A i, j \in 1 .. a : i # j => u[i] # u[j]) /\ (\A i, j \in 1 .. b : i # j => v[i] # v[j])
      /\ \A i \in 1 .. a, j \in 1 .. b : v[j] # u[i]
  BY DEF WireList, Apart, NotAmong
<1>2. /\ r \in Seq(Q) /\ Len(r) = a + b
      /\ \A i \in 1 .. a + b : r[i] = IF i <= a THEN u[i] ELSE v[i - a]
  BY <1>1, ConcatProperties
<1>3. Len(r) \in Nat /\ DOMAIN r = 1 .. Len(r)  BY <1>2, LenProperties
<1>p. /\ \A x : NotAmong(x, u) <=> \A i \in 1 .. a : u[i] # x
      /\ \A x : NotAmong(x, v) <=> \A i \in 1 .. b : v[i] # x
  BY DEF NotAmong
<1> HIDE DEF r, a, b
<1>4. ASSUME NEW i \in 1 .. Len(r)
      PROVE  (i \in 1 .. a /\ r[i] = u[i]) \/ (i > a /\ i - a \in 1 .. b /\ r[i] = v[i - a])
  <2>1. i \in 1 .. (a + b)  BY <1>2
  <2>2. CASE i <= a  BY <1>1, <1>2, <2>1, <2>2
  <2>3. CASE ~(i <= a)
    <3>1. i > a /\ i - a \in 1 .. b  BY <1>1, <2>1, <2>3
    <3> QED  BY <1>2, <2>1, <2>3, <3>1
  <2> QED  BY <2>2, <2>3
<1>5. \A i \in 1 .. Len(r) : r[i] \in Q  BY <1>1, <1>4
<1>6. ASSUME NEW i \in 1 .. Len(r), NEW j \in 1 .. Len(r), i # j  PROVE r[i] # r[j]
  <2>1. i \in Int /\ j \in Int /\ a \in Nat  BY <1>1
  <2>2. CASE i \in 1 .. a /\ r[i] = u[i]
    <3>1. CASE j \in 1 .. a /\ r[j] = u[j]  BY <1>1, <1>6, <2>2, <3>1
    <3>2. CASE j > a /\ j - a \in 1 .. b /\ r[j] = v[j - a]  BY <1>1, <2>2, <3>2
    <3> QED  BY <1>4, <3>1, <3>2
  <2>3. CASE i > a /\ i - a \in 1 .. b /\ r[i] = v[i - a]
    <3>1. CASE j \in 1 .. a /\ r[j] = u[j]  BY <1>1, <2>3, <3>1
    <3>2. CASE j > a /\ j - a \in 1 .. b /\ r[j] = v[j - a]
      <4>1. i - a # j - a  BY <1>6, <2>1
      <4> QED  BY <1>1, <2>3, <3>2, <4>1
    <3> QED  BY <1>4, <3>1, <3>2
  <2> QED  BY <1>4, <2>2, <2>3
<1>7. WireList(Q, r)  BY <1>2, <1>3, <1>5, <1>6 DEF WireList
<1>8. ASSUME NEW x, NotAmong(x, u), NotAmong(x, v)  PROVE NotAmong(x, r)
  <2> SUFFICES ASSUME NEW i \in 1 .. Len(r)  PROVE r[i] # x  BY DEF NotAmong
  <2> QED  BY <1>4, <1>8, <1>p
<1> QED  BY <1>7, <1>8 DEF r, BothWires

\* A part of a list has none of the wires the list does not have.
LEMMA TakenAmong ==
  ASSUME NEW Q, NEW w, WireList(Q, w), NEW a \in Nat \ {0}, NEW b \in Nat, b <= Len(w), NEW r, Taken(Q, w, a, b, r),
         NEW x, \A i \in a .. b : w[i] # x
  PROVE  NotAmong(x, r)
<1> SUFFICES ASSUME NEW i \in 1 .. Len(r)  PROVE r[i] # x  BY DEF NotAmong
<1>1. Len(r) = (b - a) + 1 /\ \A j \in 1 .. ((b - a) + 1) : r[j] = w[(a + j) - 1] /\ (a + j) - 1 \in a .. b
  BY DEF Taken
<1>2. i \in 1 .. ((b - a) + 1)  BY <1>1
<1> QED  BY <1>1, <1>2

\* The control of a shift and the wires it shifts.
Coin(Q, coin, w, ancilla) ==
    /\ WireList(Q, coin) /\ WireList(Q, w) /\ Apart(coin, w)
    /\ Spare(Q, coin, ancilla) /\ Spare(Q, w, ancilla)

LEMMA CarryStandard ==
  ASSUME NEW Q \in SUBSET Nat, NEW w, NEW coin, NEW ancilla, Coin(Q, coin, w, ancilla), NEW i \in 1 .. Len(w)
  PROVE  Carry(w, i, coin, ancilla) \in Seq(StandardOps(Q))
<1> DEFINE n == Len(w)
           lower == SubSeq(w, i + 1, n)
           c == coin \o lower
           t == w[i]
<1>1. /\ WireList(Q, coin) /\ WireList(Q, w) /\ Apart(coin, w)
      /\ Spare(Q, coin, ancilla) /\ Spare(Q, w, ancilla)
  BY DEF Coin
<1>2. /\ n \in Nat /\ (\A j \in 1 .. n : w[j] \in Q) /\ \A j, k \in 1 .. n : j # k => w[j] # w[k]
  BY <1>1 DEF WireList
<1>3. Taken(Q, w, i + 1, n, lower)
  <2>1. i + 1 \in 1 .. (Len(w) + 1) /\ n \in ((i + 1) - 1) .. Len(w)  BY <1>2
  <2> HIDE DEF n
  <2> QED  BY <1>1, <2>1, SomeWires
<1>4. ASSUME NEW x, NotAmong(x, w)  PROVE NotAmong(x, lower)
  <2>1. \A j \in (i + 1) .. n : w[j] # x
    <3> TAKE j \in (i + 1) .. n
    <3>1. j \in 1 .. n  BY <1>2
    <3> QED  BY <1>4, <3>1 DEF NotAmong
  <2>2. i + 1 \in Nat \ {0} /\ n \in Nat /\ n <= Len(w)  BY <1>2
  <2> QED  BY <1>1, <1>3, <2>1, <2>2, TakenAmong
<1>5. NotAmong(t, lower)
  <2>1. \A j \in (i + 1) .. n : w[j] # t
    <3> TAKE j \in (i + 1) .. n
    <3>1. j \in 1 .. n /\ j # i  BY <1>2
    <3> QED  BY <1>2, <3>1
  <2>2. i + 1 \in Nat \ {0} /\ n \in Nat /\ n <= Len(w)  BY <1>2
  <2> HIDE DEF t
  <2> QED  BY <1>1, <1>3, <2>1, <2>2, TakenAmong
<1>6. WireList(Q, lower)  BY <1>3 DEF Taken
<1>7. Apart(coin, lower)
  <2>1. \A j \in 1 .. Len(coin) : NotAmong(coin[j], w)  BY <1>1 DEF Apart
  <2> HIDE DEF lower
  <2> QED  BY <1>4, <2>1 DEF Apart
<1>8. BothWires(Q, coin, lower, c)  BY <1>1, <1>6, <1>7, WiresBehind
<1>9. WireList(Q, c) /\ \A x : NotAmong(x, coin) /\ NotAmong(x, lower) => NotAmong(x, c)
  BY <1>8 DEF BothWires
<1>10. t \in Q /\ NotAmong(t, coin)
  <2>1. \A j \in 1 .. Len(coin), k \in 1 .. Len(w) : w[k] # coin[j]  BY <1>1 DEF Apart, NotAmong
  <2> QED  BY <1>2, <2>1 DEF NotAmong
<1>11. Spare(Q, c, ancilla)
  <2> HIDE DEF c, lower
  <2> QED  BY <1>1, <1>4, <1>9 DEF Spare
<1>12. ancilla # t
  <2>1. CASE ancilla = None
    <3>1. t \in Nat  BY <1>10
    <3> QED  BY <2>1, <3>1 DEF None
  <2>2. CASE ancilla # None  BY <1>1, <2>2 DEF Spare, NotAmong
  <2> QED  BY <2>1, <2>2
<1>13. NotAmong(t, c)
  <2> HIDE DEF t, c, lower
  <2> QED  BY <1>5, <1>9, <1>10
<1>14. MultiCx(c, t, ancilla) \in Seq(StandardOps(Q))
  <2> HIDE DEF t, c
  <2> QED  BY <1>9, <1>10, <1>11, <1>12, <1>13, MultiCxStandard
<1> QED  BY <1>14 DEF Carry

LEMMA ShiftStandard ==
  ASSUME NEW Q \in SUBSET Nat, NEW w, NEW coin, NEW ancilla, Coin(Q, coin, w, ancilla)
  PROVE  /\ Increment(w, coin, ancilla) \in Seq(StandardOps(Q))
         /\ Decrement(w, coin, ancilla) \in Seq(StandardOps(Q))
         /\ \A by \in {-1, 0, 1} : Shift(w, by, coin, ancilla) \in Seq(StandardOps(Q))
<1> DEFINE G == StandardOps(Q)
           n == Len(w)
           up == [i \in DOMAIN w |-> Carry(w, i, coin, ancilla)]
           down == [i \in DOMAIN w |-> Carry(w, n + 1 - i, coin, ancilla)]
<1>1. n \in Nat /\ DOMAIN w = 1 .. n  BY DEF Coin, WireList
<1>2. \A i \in 1 .. n : Carry(w, i, coin, ancilla) \in Seq(G)  BY CarryStandard
<1>3. Increment(w, coin, ancilla) = Concat(n, up) /\ Decrement(w, coin, ancilla) = Concat(n, down)
  BY DEF Increment, Decrement
<1> HIDE DEF n, G
<1>4. ASSUME NEW i \in 1 .. n  PROVE up[i] \in Seq(G) /\ down[i] \in Seq(G)
  <2> DEFINE j == n + 1 - i
  <2>1. j \in 1 .. n  BY <1>1
  <2>2. up[i] = Carry(w, i, coin, ancilla) /\ down[i] = Carry(w, j, coin, ancilla)  BY <1>1
  <2> HIDE DEF j, up, down
  <2> QED  BY <1>2, <2>1, <2>2
<1> HIDE DEF up, down
<1>5. Concat(n, up) \in Seq(G) /\ Concat(n, down) \in Seq(G)  BY <1>1, <1>4, ConcatType
<1>6. Increment(w, coin, ancilla) \in Seq(G) /\ Decrement(w, coin, ancilla) \in Seq(G)  BY <1>3, <1>5
<1>7. <<>> \in Seq(G)  BY EmptySeq
<1>8. ASSUME NEW by \in {-1, 0, 1}  PROVE Shift(w, by, coin, ancilla) \in Seq(G)
  <2> DEFINE I == Increment(w, coin, ancilla)
             D == Decrement(w, coin, ancilla)
             N == <<>>
  <2>1. Shift(w, by, coin, ancilla) = CASE by = 0 -> N [] by = 1 -> I [] by = -1 -> D  BY DEF Shift
  <2>2. N \in Seq(G) /\ I \in Seq(G) /\ D \in Seq(G)  BY <1>6, <1>7
  <2> HIDE DEF N, I, D
  <2> QED  BY <2>1, <2>2
<1> QED  BY <1>6, <1>8 DEF G

\* The wires behind the first one.
LEMMA TailWires ==
  ASSUME NEW Q, NEW w, WireList(Q, w), Len(w) >= 1
  PROVE  /\ Taken(Q, w, 2, Len(w), Tail(w)) /\ WireList(Q, Tail(w)) /\ NotAmong(w[1], Tail(w))
         /\ WireList(Q, <<w[1]>>) /\ Apart(<<w[1]>>, Tail(w))
<1> DEFINE n == Len(w)
           r == Tail(w)
           c == <<w[1]>>
<1>1. /\ w \in Seq(Q) /\ n \in Nat /\ n >= 1 /\ (\A j \in 1 .. n : w[j] \in Q)
      /\ \A j, k \in 1 .. n : j # k => w[j] # w[k]
  BY DEF WireList
<1>2. w # <<>>
  <2>1. Len(<<>>) = 0  OBVIOUS
  <2> QED  BY <1>1, <2>1
<1>3. r \in Seq(Q) /\ Len(r) = n - 1 /\ \A i \in 1 .. n - 1 : r[i] = w[i + 1]  BY <1>1, <1>2, HeadTailProperties
<1>4. Len(r) \in Nat /\ DOMAIN r = 1 .. Len(r)  BY <1>3, LenProperties
<1>5. c \in Seq(Q) /\ Len(c) = 1 /\ c[1] = w[1] /\ DOMAIN c = {1}
  <2>1. w[1] \in Q  BY <1>1
  <2> QED  BY <2>1, SeqSingle
<1>6. WireList(Q, c)
  <2>1. DOMAIN c = 1 .. Len(c) /\ Len(c) \in Nat /\ \A i \in 1 .. Len(c) : i = 1  BY <1>5
  <2>2. w[1] \in Q  BY <1>1
  <2> HIDE DEF c
  <2> QED  BY <1>5, <2>1, <2>2 DEF WireList
<1> HIDE DEF n, r, c
<1>7. ASSUME NEW i \in 1 .. Len(r)
      PROVE  r[i] = w[i + 1] /\ i + 1 \in 1 .. n /\ i + 1 # 1 /\ r[i] \in Q /\ r[i] # w[1]
  <2>1. i \in 1 .. n - 1 /\ i + 1 \in 1 .. n /\ i + 1 # 1 /\ 1 \in 1 .. n  BY <1>1, <1>3
  <2> QED  BY <1>1, <1>3, <2>1
<1>8. ASSUME NEW i \in 1 .. Len(r), NEW j \in 1 .. Len(r), i # j  PROVE r[i] # r[j]
  <2>1. i + 1 # j + 1  BY <1>8
  <2> QED  BY <1>1, <1>7, <2>1
<1>9. WireList(Q, r)  BY <1>3, <1>4, <1>7, <1>8 DEF WireList
<1>10. Taken(Q, w, 2, n, r)
  <2>1. Len(r) = (n - 2) + 1  BY <1>1, <1>3
  <2>2. ASSUME NEW i \in 1 .. ((n - 2) + 1)  PROVE r[i] = w[(2 + i) - 1] /\ (2 + i) - 1 \in 2 .. n
    <3>1. i \in 1 .. Len(r) /\ (2 + i) - 1 = i + 1 /\ (2 + i) - 1 \in 2 .. n  BY <1>1, <2>1
    <3> QED  BY <1>7, <3>1
  <2> QED  BY <1>9, <2>1, <2>2 DEF Taken
<1>11. NotAmong(w[1], r)  BY <1>7 DEF NotAmong
<1>12. Apart(c, r)  BY <1>5, <1>11 DEF Apart
<1> QED  BY <1>6, <1>9, <1>10, <1>11, <1>12 DEF n, r, c

LEMMA CoinShiftStandard ==
  ASSUME NEW Q \in SUBSET Nat, NEW w, WireList(Q, w), Len(w) >= 1, NEW ancilla, Spare(Q, w, ancilla),
         NEW shifts, shifts[1] \in {-1, 0, 1}, shifts[2] \in {-1, 0, 1}
  PROVE  CoinShift(w, shifts, ancilla) \in Seq(StandardOps(Q))
<1> DEFINE G == StandardOps(Q)
           coin == <<w[1]>>
           r == Tail(w)
           x == <<X(w[1])>>
           one == Shift(r, shifts[1], coin, ancilla)
           two == Shift(r, shifts[2], coin, ancilla)
           none == <<>>
<1>1. /\ Taken(Q, w, 2, Len(w), r) /\ WireList(Q, r) /\ NotAmong(w[1], r)
      /\ WireList(Q, coin) /\ Apart(coin, r)
  BY TailWires
<1>2. /\ Len(w) \in Nat /\ Len(w) >= 1 /\ \A j \in 1 .. Len(w) : w[j] \in Q
  BY DEF WireList
<1>3. Spare(Q, r, ancilla) /\ Spare(Q, coin, ancilla)
  <2>1. CASE ancilla = None  BY <2>1 DEF Spare
  <2>2. CASE ancilla # None
    <3>1. ancilla \in Q /\ \A i \in 1 .. Len(w) : w[i] # ancilla  BY <2>2 DEF Spare, NotAmong
    <3>2. \A i \in 2 .. Len(w) : w[i] # ancilla  BY <1>2, <3>1
    <3>3. 2 \in Nat \ {0}  OBVIOUS
    <3>4. NotAmong(ancilla, r)  BY <1>1, <1>2, <3>2, <3>3, TakenAmong
    <3>5. Len(coin) = 1 /\ coin[1] = w[1] /\ w[1] # ancilla  BY <1>2, <3>1
    <3>6. NotAmong(ancilla, coin)
      <4> HIDE DEF coin
      <4> QED  BY <3>5 DEF NotAmong
    <3> QED  BY <3>1, <3>4, <3>6 DEF Spare
  <2> QED  BY <2>1, <2>2
<1>4. Coin(Q, coin, r, ancilla)  BY <1>1, <1>3 DEF Coin
<1>5. one \in Seq(G) /\ two \in Seq(G)
  <2> HIDE DEF coin, r
  <2> QED  BY <1>4, ShiftStandard
<1>6. x \in Seq(G)
  <2>1. w[1] \in Q  BY <1>2
  <2>2. X(w[1]) \in G  BY <2>1, Gates1Standard
  <2> QED  BY <2>2, SeqSingle
<1>7. none \in Seq(G)  BY EmptySeq
<1>8. CoinShift(w, shifts, ancilla) = (IF shifts[1] = 0 THEN none ELSE x \o one \o x) \o two
  BY DEF CoinShift
<1> HIDE DEF one, two, x, none, G
<1>9. x \o one \o x \in Seq(G)  BY <1>5, <1>6, Three
<1>10. (IF shifts[1] = 0 THEN none ELSE x \o one \o x) \in Seq(G)  BY <1>7, <1>9
<1>11. (IF shifts[1] = 0 THEN none ELSE x \o one \o x) \o two \in Seq(G)  BY <1>5, <1>10, ConcatProperties
<1> QED  BY <1>8, <1>11 DEF G

\* The wires of some bits, the lowest bit's last.
WiresOfBits(Q, w, K, s, c) ==
    /\ WireList(Q, c)
    /\ \A x : (\A b \in K : w[Len(w) - b] # x) => NotAmong(x, c)
LEMMA BitWires ==
  ASSUME NEW Q, NEW w, WireList(Q, w), NEW K, K \subseteq 0 .. (Len(w) - 1), NEW s \in Seq(K), Rising(s)
  PROVE  WiresOfBits(Q, w, K, s, [k \in DOMAIN s |-> w[Len(w) - s[k]]])
<1> DEFINE n == Len(w)
           L == Len(s)
           c == [k \in DOMAIN s |-> w[n - s[k]]]
<1>1. n \in Nat /\ (\A i \in 1 .. n : w[i] \in Q) /\ \A i, j \in 1 .. n : i # j => w[i] # w[j]
  BY DEF WireList
<1>2. L \in Nat /\ DOMAIN s = 1 .. L /\ \A k \in 1 .. L : s[k] \in K  BY LenProperties, ElementOfSeq
<1>3. \A b \in K : b \in Nat /\ n - b \in 1 .. n  BY <1>1
<1>a. c = [k \in 1 .. L |-> w[n - s[k]]]  BY <1>2
<1> HIDE DEF n, L, c
<1>4. \A k \in 1 .. L : c[k] = w[n - s[k]] /\ s[k] \in K /\ s[k] \in Nat /\ n - s[k] \in 1 .. n  BY <1>2, <1>3, <1>a
<1>5. c = [k \in 1 .. L |-> c[k]]  BY <1>a
<1>6. \A k \in 1 .. L : c[k] \in Q  BY <1>1, <1>4
<1>7. ASSUME NEW i \in 1 .. L, NEW j \in 1 .. L, i # j  PROVE c[i] # c[j]
  <2>1. i < j \/ j < i  BY <1>2, <1>7
  <2>r. \A x, y \in 1 .. L : x < y => s[x] < s[y]  BY <1>2 DEF Rising
  <2>s. s[i] \in Nat /\ s[j] \in Nat  BY <1>4
  <2>2. s[i] # s[j]
    <3>1. s[i] < s[j] \/ s[j] < s[i]  BY <2>1, <2>r
    <3> QED  BY <2>s, <3>1
  <2>3. n - s[i] # n - s[j]  BY <1>1, <1>4, <2>2
  <2> QED  BY <1>1, <1>4, <2>3
<1>8. WireList(Q, c) /\ Len(c) = L  BY <1>2, <1>5, <1>6, <1>7, WireListOf
<1>9. ASSUME NEW x, \A b \in K : w[n - b] # x  PROVE NotAmong(x, c)
  BY <1>4, <1>8, <1>9 DEF NotAmong
<1> QED  BY <1>8, <1>9 DEF WiresOfBits, n, c

LEMMA OneBitStandard ==
  ASSUME NEW Q \in SUBSET Nat, NEW w, WireList(Q, w), NEW ancilla, Spare(Q, w, ancilla), NEW a,
         NEW bit \in 0 .. (Len(w) - 1)
  PROVE  OneBit(w, a, bit, ancilla) \in Seq(StandardOps(Q))
<1> DEFINE G == StandardOps(Q)
           n == Len(w)
           K == (0 .. (n - 1)) \ {bit}
           Z == {b \in K : BitOf(a, b) = 0}
           others == Ascending(n, K)
           zeros == Ascending(n, Z)
           flips == [k \in DOMAIN zeros |-> X(w[n - zeros[k]])]
           c == [k \in DOMAIN others |-> w[n - others[k]]]
           t == w[n - bit]
           gates == MultiCx(c, t, ancilla)
<1>1. OneBit(w, a, bit, ancilla) = flips \o gates \o flips  BY DEF OneBit
<1>2. n \in Nat /\ (\A i \in 1 .. n : w[i] \in Q) /\ \A i, j \in 1 .. n : i # j => w[i] # w[j]
  BY DEF WireList
<1>a. n = Len(w)  OBVIOUS
<1> HIDE DEF n
<1>3. K \subseteq 0 .. (n - 1) /\ K \cap (0 .. (n - 1)) = K /\ Z \subseteq 0 .. (n - 1) /\ Z \cap (0 .. (n - 1)) = Z
  OBVIOUS
<1>b. \A b \in K : b \in 0 .. (n - 1) /\ b # bit  OBVIOUS
<1> HIDE DEF K, Z
<1>4. others \in Seq(K) /\ Rising(others) /\ zeros \in Seq(Z)  BY <1>2, <1>3, AscendingNumbers
<1> HIDE DEF others, zeros
<1>5. WiresOfBits(Q, w, K, others, c)  BY <1>3, <1>4, <1>a, BitWires
<1> HIDE DEF c
<1>6. WireList(Q, c) /\ \A x : (\A b \in K : w[n - b] # x) => NotAmong(x, c)  BY <1>5, <1>a DEF WiresOfBits
<1>7. bit \in 0 .. (n - 1) /\ n - bit \in 1 .. n /\ t \in Q  BY <1>2, <1>a
<1>8. NotAmong(t, c)
  <2>1. ASSUME NEW b \in K  PROVE w[n - b] # t
    <3>1. b \in 0 .. (n - 1) /\ b # bit  BY <1>b
    <3>2. n - b \in 1 .. n /\ n - b # n - bit  BY <1>2, <1>7, <3>1
    <3> QED  BY <1>2, <1>7, <3>2
  <2> HIDE DEF t
  <2> QED  BY <1>6, <2>1
<1>9. Spare(Q, c, ancilla)
  <2>1. CASE ancilla = None  BY <2>1 DEF Spare
  <2>2. CASE ancilla # None
    <3>1. ancilla \in Q /\ \A i \in 1 .. n : w[i] # ancilla  BY <1>a, <2>2 DEF Spare, NotAmong
    <3>2. ASSUME NEW b \in K  PROVE w[n - b] # ancilla
      <4>1. n - b \in 1 .. n  BY <1>2, <1>b
      <4> QED  BY <3>1, <4>1
    <3>3. NotAmong(ancilla, c)  BY <1>6, <3>2
    <3> QED  BY <3>1, <3>3 DEF Spare
  <2> QED  BY <2>1, <2>2
<1>10. ancilla # t
  <2>1. CASE ancilla = None
    <3>1. t \in Nat  BY <1>7
    <3> QED  BY <2>1, <3>1 DEF None
  <2>2. CASE ancilla # None
    <3>1. \A i \in 1 .. n : w[i] # ancilla  BY <1>a, <2>2 DEF Spare, NotAmong
    <3> QED  BY <1>7, <3>1
  <2> QED  BY <2>1, <2>2
<1>11. gates \in Seq(G)
  <2> HIDE DEF t
  <2> QED  BY <1>6, <1>7, <1>8, <1>9, <1>10, MultiCxStandard
<1>12. Len(zeros) \in Nat /\ DOMAIN zeros = 1 .. Len(zeros) /\ \A k \in 1 .. Len(zeros) : zeros[k] \in Z
  BY <1>4, LenProperties, ElementOfSeq
<1>13. ASSUME NEW k \in 1 .. Len(zeros)  PROVE X(w[n - zeros[k]]) \in G
  <2>1. zeros[k] \in 0 .. (n - 1)  BY <1>3, <1>12
  <2>2. n - zeros[k] \in 1 .. n  BY <1>2, <2>1
  <2>3. w[n - zeros[k]] \in Q  BY <1>2, <2>2
  <2> QED  BY <2>3, Gates1Standard
<1> HIDE DEF G, gates
<1>14. flips \in Seq(G)
  <2>1. flips = [k \in 1 .. Len(zeros) |-> flips[k]] /\ \A k \in 1 .. Len(zeros) : flips[k] \in G
    BY <1>12, <1>13
  <2> HIDE DEF flips
  <2> QED  BY <1>12, <2>1, FunctionIsSeq
<1> HIDE DEF flips
<1>15. flips \o gates \o flips \in Seq(G)  BY <1>11, <1>14, Three
<1> QED  BY <1>1, <1>15 DEF G

LEMMA TranspositionStandard ==
  ASSUME NEW Q \in SUBSET Nat, NEW w, WireList(Q, w), NEW ancilla, Spare(Q, w, ancilla), NEW a, NEW b
  PROVE  Transposition(w, a, b, ancilla) \in Seq(StandardOps(Q))
<1> DEFINE G == StandardOps(Q)
           n == Len(w)
           K == {i \in 0 .. (n - 1) : BitOf(a, i) # BitOf(b, i)}
           differ == Ascending(n, K)
           m == Len(differ)
           z == 2 * m - 1
           changed(bit) == OneBit(w, (a - (a % 2^bit)) + (b % 2^bit), bit, ancilla)
           parts == [k \in 1 .. z |-> changed(differ[IF k <= m THEN k ELSE 2 * m - k])]
           none == <<>>
<1>1. Transposition(w, a, b, ancilla) = IF m = 0 THEN none ELSE Concat(z, parts)  BY DEF Transposition
<1>2. n \in Nat  BY DEF WireList
<1>3. \A bit \in 0 .. (n - 1) : changed(bit) \in Seq(G)  BY OneBitStandard
<1>4. K \subseteq 0 .. (n - 1) /\ K \cap (0 .. (n - 1)) = K  OBVIOUS
<1> HIDE DEF n, K, G
<1>5. differ \in Seq(K)  BY <1>2, <1>4, AscendingNumbers
<1>6. m \in Nat /\ DOMAIN differ = 1 .. m /\ \A k \in 1 .. m : differ[k] \in K  BY <1>5, LenProperties, ElementOfSeq
<1> HIDE DEF differ, m, changed
<1>7. ASSUME NEW k \in 1 .. z  PROVE parts[k] \in Seq(G)
  <2> DEFINE j == IF k <= m THEN k ELSE 2 * m - k
  <2>1. j \in 1 .. m  BY <1>6
  <2>2. parts[k] = changed(differ[j])  OBVIOUS
  <2> HIDE DEF j, parts
  <2>3. differ[j] \in 0 .. (n - 1)  BY <1>4, <1>6, <2>1
  <2> QED  BY <1>3, <2>2, <2>3
<1> HIDE DEF parts
<1>8. m # 0 => Concat(z, parts) \in Seq(G)
  <2> SUFFICES ASSUME m # 0  PROVE Concat(z, parts) \in Seq(G)  OBVIOUS
  <2>1. z \in Nat  BY <1>6
  <2> HIDE DEF z
  <2> QED  BY <1>7, <2>1, ConcatType
<1>9. none \in Seq(G)  BY EmptySeq
<1> HIDE DEF none, z
<1> QED  BY <1>1, <1>8, <1>9 DEF G

\* However a table's walks go, they are of some length.
LEMMA TranspositionsList ==
  ASSUME NEW table \in Seq(Int)
  PROVE  /\ Len(Transpositions(table)) \in Nat
         /\ DOMAIN Transpositions(table) = 1 .. Len(Transpositions(table))
<1> DEFINE L == Len(table)
<1>1. L \in Nat /\ DOMAIN table = 1 .. L  BY LenProperties
<1>2. ASSUME NEW start  PROVE Len(Cycle(table, start)) \in Nat /\ Cycle(table, start) \in Seq({Walk(table, start)[k - 1] : k \in Nat})
  <2> DEFINE walk == Walk(table, start)
             visited(k) == walk[k] \in Visited(table, start) \cup {walk[j] : j \in 0 .. (k - 1)}
             A == {n \in 0 .. L : n = L \/ visited(n)}
             length == CHOOSE n \in 0 .. L : /\ n = L \/ visited(n)
                                             /\ \A k \in 0 .. (n - 1) : ~visited(k)
             cycle == [k \in 1 .. length |-> walk[k - 1]]
  <2>1. Cycle(table, start) = cycle  BY DEF Cycle
  <2> HIDE DEF visited, L, walk
  <2>2. PICK n \in A : \A j \in A : n <= j
    <3>1. A \in SUBSET Nat /\ L \in A  BY <1>1
    <3> HIDE DEF A
    <3> QED  BY <3>1, Least
  <2>3. n \in 0 .. L /\ (n = L \/ visited(n)) /\ \A k \in 0 .. (n - 1) : ~visited(k)
    <3>1. n \in 0 .. L /\ (n = L \/ visited(n))  OBVIOUS
    <3>2. ASSUME NEW k \in 0 .. (n - 1), visited(k)  PROVE FALSE
      <4>1. k \in 0 .. L /\ k < n /\ n \in Nat /\ k \in Nat  BY <1>1, <3>1
      <4>2. k \in A  BY <3>2, <4>1
      <4>3. n <= k  BY <2>2, <4>2
      <4> QED  BY <4>1, <4>3
    <3> QED  BY <3>1, <3>2
  <2>4. length \in 0 .. L  BY <2>3
  <2> HIDE DEF length
  <2>5. length \in Nat  BY <1>1, <2>4
  <2>6. cycle = [k \in 1 .. length |-> cycle[k]] /\ \A k \in 1 .. length : cycle[k] \in {walk[j - 1] : j \in Nat}
    OBVIOUS
  <2> HIDE DEF cycle
  <2>7. cycle \in Seq({walk[j - 1] : j \in Nat}) /\ Len(cycle) = length  BY <2>5, <2>6, FunctionIsSeq
  <2> QED  BY <2>1, <2>5, <2>7 DEF walk
<1>3. ASSUME NEW start
      PROVE  /\ Len(Exchanges(Cycle(table, start))) \in Nat
             /\ Exchanges(Cycle(table, start))
                   = [k \in 1 .. Len(Exchanges(Cycle(table, start))) |-> Exchanges(Cycle(table, start))[k]]
  <2> DEFINE c == Cycle(table, start)
             n == Len(c)
             f == [k \in 1 .. (n - 1) |-> <<c[1], c[k + 1]>>]
             none == <<>>
             e == Exchanges(c)
             V == {f[k] : k \in 1 .. (n - 1)}
  <2>1. e = IF n < 2 THEN none ELSE f  BY DEF Exchanges
  <2>2. n \in Nat  BY <1>2
  <2> HIDE DEF c, n, e
  <2>3. none \in Seq(V)  BY EmptySeq
  <2>4. ~(n < 2) => f \in Seq(V)
    <3>1. ~(n < 2) => n - 1 \in Nat  BY <2>2
    <3>2. f = [k \in 1 .. (n - 1) |-> f[k]] /\ \A k \in 1 .. (n - 1) : f[k] \in V  OBVIOUS
    <3> HIDE DEF f, V
    <3> QED  BY <3>1, <3>2, FunctionIsSeq
  <2> HIDE DEF none, f, V
  <2>5. e \in Seq(V)  BY <2>1, <2>3, <2>4
  <2>6. Len(e) \in Nat /\ DOMAIN e = 1 .. Len(e) /\ e \in [1 .. Len(e) -> V]  BY <2>5, LenProperties
  <2>7. e = [k \in 1 .. Len(e) |-> e[k]]
    <3> DEFINE D == 1 .. Len(e)
    <3>1. e \in [D -> V]  BY <2>6
    <3> HIDE DEF D
    <3>2. e = [k \in D |-> e[k]]  BY <3>1
    <3> QED  BY <3>2 DEF D
  <2> QED  BY <2>6, <2>7 DEF c, e
<1> DEFINE parts == [i \in DOMAIN table |-> Exchanges(Cycle(table, i - 1))]
           S == {parts[i][k] : i \in 1 .. L, k \in Nat}
<1>4. Transpositions(table) = Concat(L, parts)  BY DEF Transpositions
<1>5. ASSUME NEW i \in 1 .. L  PROVE parts[i] \in Seq(S)
  <2> DEFINE e == parts[i]
             n == Len(e)
  <2>1. e = Exchanges(Cycle(table, i - 1))  BY <1>1
  <2>2. n \in Nat /\ e = [k \in 1 .. n |-> e[k]]  BY <1>3, <2>1
  <2>3. \A k \in 1 .. n : e[k] \in S
    <3> TAKE k \in 1 .. n
    <3>1. k \in Nat  BY <2>2
    <3> HIDE DEF parts
    <3> QED  BY <3>1
  <2> HIDE DEF e, n, S
  <2> QED  BY <2>2, <2>3, FunctionIsSeq DEF e
<1> HIDE DEF parts, S, L
<1>6. Concat(L, parts) \in Seq(S)  BY <1>1, <1>5, ConcatType
<1> QED  BY <1>4, <1>6, LenProperties

LEMMA GenericStandard ==
  ASSUME NEW Q \in SUBSET Nat, NEW w, WireList(Q, w), NEW ancilla, Spare(Q, w, ancilla), NEW table \in Seq(Int)
  PROVE  Generic(w, table, ancilla) \in Seq(StandardOps(Q))
<1> DEFINE G == StandardOps(Q)
           t == Transpositions(table)
           L == Len(t)
           parts == [i \in DOMAIN t |-> Transposition(w, t[i][1], t[i][2], ancilla)]
           far == \E k \in DOMAIN table : table[k] \notin 0 .. (Len(table) - 1)
<1>1. Generic(w, table, ancilla) = IF far THEN Fail ELSE Concat(L, parts)  BY DEF Generic
<1>2. L \in Nat /\ DOMAIN t = 1 .. L  BY TranspositionsList
<1> HIDE DEF t, L
<1>3. \A i \in 1 .. L : parts[i] \in Seq(G)
  <2> TAKE i \in 1 .. L
  <2>1. Transposition(w, t[i][1], t[i][2], ancilla) \in Seq(G)  BY TranspositionStandard
  <2> QED  BY <1>2, <2>1
<1> HIDE DEF parts, far, G
<1>4. Concat(L, parts) \in Seq(G)  BY <1>2, <1>3, ConcatType
<1> QED  BY <1>1, <1>4, FailStandard DEF G

LEMMA PermutationStandard ==
  ASSUME NEW Q \in SUBSET Nat, NEW w, WireList(Q, w), Len(w) >= 1, NEW ancilla, Spare(Q, w, ancilla),
         NEW table \in Seq(Int)
  PROVE  PermutationGates(w, table, ancilla) \in Seq(StandardOps(Q))
<1> DEFINE G == StandardOps(Q)
           n == Len(w)
           none == <<>>
           flip == <<X(w[1])>>
           single == IF table = <<1, 0>> THEN flip ELSE none
           up == Increment(w, none, ancilla)
           down == Decrement(w, none, ancilla)
           shifts == IF n >= 2 THEN SectorShifts(table, 2^(n - 1)) ELSE {}
           simple == {s \in shifts : \A i \in 1..2 : s[i] \in {-1, 0, 1}}
           s0 == CHOOSE s \in simple : TRUE
           coined == CoinShift(w, s0, ancilla)
           generic == Generic(w, table, ancilla)
           last == IF simple # {} THEN coined ELSE generic
<1>1. PermutationGates(w, table, ancilla)
        = CASE n > 10 \/ Len(table) # 2^n -> Fail
            [] n = 1 -> single
            [] n > 1 /\ Shifted(table, 0) -> none
            [] n > 1 /\ Shifted(table, 1) -> up
            [] n > 1 /\ Shifted(table, -1) -> down
            [] OTHER -> last
  BY DEF PermutationGates
<1>2. n \in Nat /\ n >= 1 /\ w[1] \in Q  BY DEF WireList
<1>3. none \in Seq(G)  BY EmptySeq
<1>4. single \in Seq(G)
  <2>1. X(w[1]) \in G  BY <1>2, Gates1Standard
  <2>2. flip \in Seq(G)  BY <2>1, SeqSingle
  <2> HIDE DEF flip, none
  <2> QED  BY <1>3, <2>2
<1>5. up \in Seq(G) /\ down \in Seq(G)
  <2>1. none \in Seq(Q) /\ Len(none) = 0 /\ DOMAIN none = {}  BY EmptySeq
  <2> HIDE DEF none
  <2>2. DOMAIN none = 1 .. Len(none) /\ Len(none) \in Nat /\ 1 .. Len(none) = {}  BY <2>1
  <2>3. WireList(Q, none)  BY <2>1, <2>2 DEF WireList
  <2>4. Apart(none, w) /\ Spare(Q, none, ancilla)  BY <2>2 DEF Apart, Spare, NotAmong
  <2>5. Coin(Q, none, w, ancilla)  BY <2>3, <2>4 DEF Coin
  <2> QED  BY <2>5, ShiftStandard
<1>6. generic \in Seq(G)  BY GenericStandard
<1>7. simple # {} => coined \in Seq(G)
  <2> SUFFICES ASSUME simple # {}  PROVE coined \in Seq(G)  OBVIOUS
  <2>1. \A s \in simple : s[1] \in {-1, 0, 1} /\ s[2] \in {-1, 0, 1}
    <3>1. 1 \in 1 .. 2 /\ 2 \in 1 .. 2  OBVIOUS
    <3> HIDE DEF shifts
    <3> QED  BY <3>1
  <2> HIDE DEF simple
  <2>2. s0 \in simple  OBVIOUS
  <2> HIDE DEF s0
  <2>3. s0[1] \in {-1, 0, 1} /\ s0[2] \in {-1, 0, 1}  BY <2>1, <2>2
  <2> QED  BY <1>2, <2>3, CoinShiftStandard
<1>8. last \in Seq(G)
  <2> HIDE DEF coined, generic, simple, G
  <2> QED  BY <1>6, <1>7
<1>9. Fail \in Seq(G)  BY FailStandard
<1> HIDE DEF G, n, none, single, up, down, last
<1> QED  BY <1>1, <1>3, <1>4, <1>5, <1>8, <1>9 DEF G

(***************************************************************************)
(* A control added to gates                                                *)
(***************************************************************************)
LEMMA ControlledTurns ==
  ASSUME NEW Q \in SUBSET Nat, NEW c \in Q, NEW t \in Q, c # t, NEW a \in Int
  PROVE  ControlledRz(c, t, a) \in Seq(StandardOps(Q)) /\ ControlledRy(c, t, a) \in Seq(StandardOps(Q))
<1> DEFINE G == StandardOps(Q)
           d == a \div 2
           e == -(a \div 2)
<1>1. d \in Int /\ e \in Int
  <2>1. 2 \in Nat \ {0}  OBVIOUS
  <2> QED  BY <2>1, HalfNumber
<1>2. /\ ControlledRz(c, t, a) = <<Rz(t, d), Cx(c, t), Rz(t, e), Cx(c, t)>>
      /\ ControlledRy(c, t, a) = <<Turn("Ry", t, <<d>>), Cx(c, t), Turn("Ry", t, <<e>>), Cx(c, t)>>
  BY DEF ControlledRz, ControlledRy
<1> HIDE DEF d, e
<1>3. Rz(t, d) \in G /\ Rz(t, e) \in G /\ Turn("Ry", t, <<d>>) \in G /\ Turn("Ry", t, <<e>>) \in G
  BY <1>1, AngleStandard
<1>4. Cx(c, t) \in G  BY Gates2Standard
<1> HIDE DEF G
<1>5. <<Rz(t, d), Cx(c, t), Rz(t, e), Cx(c, t)>> \in Seq(G)  BY <1>3, <1>4
<1>6. <<Turn("Ry", t, <<d>>), Cx(c, t), Turn("Ry", t, <<e>>), Cx(c, t)>> \in Seq(G)  BY <1>3, <1>4
<1> QED  BY <1>2, <1>5, <1>6 DEF G

LEMMA Controlled1Standard ==
  ASSUME NEW Q \in SUBSET Nat, NEW c \in Q, NEW g, g.wires[1] \in Q, g.wires[1] # c,
         g.name \in {"Rx", "Ry", "Rz", "U3"} => g.args[1] \in Int,
         g.name = "U3" => g.args[2] \in Int /\ g.args[3] \in Int
  PROVE  Controlled1(c, g) \in Seq(StandardOps(Q))
<1> DEFINE G == StandardOps(Q)
           t == g.wires[1]
           a == g.args
           angle == [Z |-> Pi, S |-> Pi \div 2, Sdg |-> -(Pi \div 2), T |-> Pi \div 4, Tdg |-> -(Pi \div 4)]
           x == <<Cx(c, t)>>
           y == <<Gate("Sdg", t), Cx(c, t), Gate("S", t)>>
           z == <<Cz(c, t)>>
           h == <<Gate("Sdg", t), H(t), Tdg(t), Cx(c, t), T(t), H(t), Gate("S", t)>>
           s == ControlledRz(c, t, angle[g.name])
           rz == ControlledRz(c, t, a[1])
           ry == ControlledRy(c, t, a[1])
           rx == <<Rz(t, Pi \div 2)>> \o ry \o <<Rz(t, -(Pi \div 2))>>
           u == <<Rz(t, (a[3] - a[2]) \div 2), Cx(c, t), Rz(t, -((a[3] + a[2]) \div 2)),
                  Turn("Ry", t, <<-(a[1] \div 2)>>), Cx(c, t), Turn("Ry", t, <<a[1] \div 2>>),
                  Rz(t, a[2])>>
<1>1. Controlled1(c, g)
        = CASE g.name = "X" -> x
            [] g.name = "Y" -> y
            [] g.name = "Z" -> z
            [] g.name = "H" -> h
            [] g.name \in {"S", "Sdg", "T", "Tdg"} -> s
            [] g.name = "Rz" -> rz
            [] g.name = "Ry" -> ry
            [] g.name = "Rx" -> rx
            [] g.name = "U3" -> u
            [] OTHER -> Fail
  BY DEF Controlled1
<1>2. t \in Q /\ t # c  OBVIOUS
<1>a. /\ g.name \in {"Rx", "Ry", "Rz", "U3"} => a[1] \in Int
      /\ g.name = "U3" => a[2] \in Int /\ a[3] \in Int
  OBVIOUS
<1> HIDE DEF t
<1>3. /\ H(t) \in G /\ T(t) \in G /\ Tdg(t) \in G /\ Gate("S", t) \in G /\ Gate("Sdg", t) \in G
      /\ Cx(c, t) \in G /\ Cz(c, t) \in G
  BY <1>2, Gates1Standard, Gates2Standard
<1>4. x \in Seq(G) /\ z \in Seq(G)  BY <1>3, SeqSingle
<1>5. y \in Seq(G)
  <2> HIDE DEF G
  <2> QED  BY <1>3
<1>6. h \in Seq(G)
  <2> HIDE DEF G
  <2> QED  BY <1>3
<1>7. g.name \in {"S", "Sdg", "T", "Tdg"} => s \in Seq(G)
  <2> SUFFICES ASSUME g.name \in {"S", "Sdg", "T", "Tdg"}  PROVE s \in Seq(G)  OBVIOUS
  <2>1. Pi \div 2 = 16 /\ Pi \div 4 = 8  BY DEF Pi
  <2>2. angle["S"] = 16 /\ angle["Sdg"] = -16 /\ angle["T"] = 8 /\ angle["Tdg"] = -8  BY <2>1
  <2> HIDE DEF angle
  <2>3. angle[g.name] \in Int
    <3>1. CASE g.name = "S"  BY <2>2, <3>1
    <3>2. CASE g.name = "Sdg"  BY <2>2, <3>2
    <3>3. CASE g.name = "T"  BY <2>2, <3>3
    <3>4. CASE g.name = "Tdg"  BY <2>2, <3>4
    <3> QED  BY <3>1, <3>2, <3>3, <3>4
  <2> QED  BY <1>2, <2>3, ControlledTurns
<1>8. g.name = "Rz" => rz \in Seq(G)  BY <1>2, <1>a, ControlledTurns
<1>9. g.name \in {"Rx", "Ry"} => ry \in Seq(G)  BY <1>2, <1>a, ControlledTurns
<1>10. g.name = "Rx" => rx \in Seq(G)
  <2> SUFFICES ASSUME g.name = "Rx"  PROVE rx \in Seq(G)  OBVIOUS
  <2>1. Pi \div 2 \in Int /\ -(Pi \div 2) \in Int
    <3>1. 2 \in Nat \ {0} /\ Pi \in Int  BY DEF Pi
    <3> QED  BY <3>1, HalfNumber
  <2>2. Rz(t, Pi \div 2) \in G /\ Rz(t, -(Pi \div 2)) \in G  BY <1>2, <2>1, AngleStandard
  <2>3. <<Rz(t, Pi \div 2)>> \in Seq(G) /\ <<Rz(t, -(Pi \div 2))>> \in Seq(G)  BY <2>2, SeqSingle
  <2> HIDE DEF ry, G
  <2> QED  BY <1>9, <2>3, Three
<1>11. g.name = "U3" => u \in Seq(G)
  <2> SUFFICES ASSUME g.name = "U3"  PROVE u \in Seq(G)  OBVIOUS
  <2> DEFINE m == a[3] - a[2]
             p == a[3] + a[2]
             i == m \div 2
             j == -(p \div 2)
             k == -(a[1] \div 2)
             l == a[1] \div 2
  <2>1. m \in Int /\ p \in Int /\ a[1] \in Int /\ a[2] \in Int  BY <1>a
  <2>2. i \in Int /\ j \in Int /\ k \in Int /\ l \in Int
    <3>1. 2 \in Nat \ {0}  OBVIOUS
    <3> HIDE DEF m, p
    <3> QED  BY <2>1, <3>1, HalfNumber
  <2>3. u = <<Rz(t, i), Cx(c, t), Rz(t, j), Turn("Ry", t, <<k>>), Cx(c, t), Turn("Ry", t, <<l>>), Rz(t, a[2])>>
    OBVIOUS
  <2> HIDE DEF i, j, k, l, u
  <2>4. Rz(t, i) \in G /\ Rz(t, j) \in G /\ Turn("Ry", t, <<k>>) \in G /\ Turn("Ry", t, <<l>>) \in G /\ Rz(t, a[2]) \in G
    BY <1>2, <2>1, <2>2, AngleStandard
  <2> HIDE DEF G
  <2> QED  BY <1>3, <2>3, <2>4
<1>12. Fail \in Seq(G)  BY FailStandard
<1> HIDE DEF x, y, z, h, s, rz, ry, rx, u, G
<1> QED  BY <1>1, <1>4, <1>5, <1>6, <1>7, <1>8, <1>9, <1>10, <1>11, <1>12 DEF G

LEMMA Controlled2Standard ==
  ASSUME NEW Q \in SUBSET Nat, NEW c \in Q, NEW g, g.wires[1] \in Q, g.wires[2] \in Q, g.wires[1] # g.wires[2],
         g.wires[1] # c, g.wires[2] # c
  PROVE  Controlled2(c, g) \in Seq(StandardOps(Q))
<1> DEFINE G == StandardOps(Q)
           a == g.wires[1]
           b == g.wires[2]
           t == Toffoli(c, a, b)
           z == <<H(b)>> \o t \o <<H(b)>>
           s == <<Cx(b, a)>> \o t \o <<Cx(b, a)>>
<1>1. Controlled2(c, g) = CASE g.name = "Cx" -> t [] g.name = "Cz" -> z [] g.name = "Swap" -> s [] OTHER -> Fail
  BY DEF Controlled2
<1>2. a \in Q /\ b \in Q /\ a # b /\ a # c /\ b # c  OBVIOUS
<1> HIDE DEF a, b
<1>3. t \in Seq(G)  BY <1>2, ThreeWireGates
<1>4. <<H(b)>> \in Seq(G) /\ <<Cx(b, a)>> \in Seq(G)
  <2>1. H(b) \in G /\ Cx(b, a) \in G  BY <1>2, Gates1Standard, Gates2Standard
  <2> QED  BY <2>1, SeqSingle
<1>5. Fail \in Seq(G)  BY FailStandard
<1> HIDE DEF t, G
<1>6. z \in Seq(G) /\ s \in Seq(G)  BY <1>3, <1>4, Three
<1> HIDE DEF z, s
<1> QED  BY <1>1, <1>3, <1>5, <1>6 DEF G

LEMMA ControlledOpStandard ==
  ASSUME NEW Q \in SUBSET Nat, NEW c \in Q, NEW o \in StandardOps(Q \ {c})
  PROVE  ControlledOp(c, o) \in Seq(StandardOps(Q))
<1> DEFINE G == StandardOps(Q)
           n == Len(o.wires)
<1>1. IsStandard(Q \ {c}, o)  BY DEF StandardOps
<1>2. WireList(Q \ {c}, o.wires)  BY <1>1, WireLists DEF IsStandard
<1>3. /\ n \in Nat /\ (\A i \in 1 .. n : o.wires[i] \in Q /\ o.wires[i] # c)
      /\ \A i, j \in 1 .. n : i # j => o.wires[i] # o.wires[j]
  BY <1>2 DEF WireList
<1>4. o.args \in Seq(Int)  BY <1>1 DEF IsStandard
<1>5. Len(o.args) \in Nat /\ \A i \in 1 .. Len(o.args) : o.args[i] \in Int  BY <1>4, LenProperties, ElementOfSeq
<1>6. ControlledOp(c, o) = CASE o.op = "gate" /\ n = 1 -> Controlled1(c, o)
                             [] o.op = "gate" /\ n = 2 -> Controlled2(c, o)
                             [] OTHER -> Fail
  BY DEF ControlledOp
<1>7. o.op = "gate" /\ n = 1 => Controlled1(c, o) \in Seq(G)
  <2> SUFFICES ASSUME o.op = "gate", n = 1  PROVE Controlled1(c, o) \in Seq(G)  OBVIOUS
  <2>1. /\ o.name \in {"Rx", "Ry", "Rz"} => Len(o.args) > 0
        /\ o.name = "U3" => Len(o.args) > 2
    BY <1>1 DEF IsStandard
  <2>2. o.wires[1] \in Q /\ o.wires[1] # c  BY <1>3
  <2>3. o.name \in {"Rx", "Ry", "Rz", "U3"} => o.args[1] \in Int
    <3>1. o.name \in {"Rx", "Ry", "Rz", "U3"} => Len(o.args) > 0  BY <1>5, <2>1
    <3> QED  BY <1>5, <3>1
  <2>4. o.name = "U3" => o.args[2] \in Int /\ o.args[3] \in Int  BY <1>5, <2>1
  <2> QED  BY <2>2, <2>3, <2>4, Controlled1Standard
<1>8. o.op = "gate" /\ n = 2 => Controlled2(c, o) \in Seq(G)
  <2> SUFFICES ASSUME n = 2  PROVE Controlled2(c, o) \in Seq(G)  OBVIOUS
  <2>1. 1 \in 1 .. n /\ 2 \in 1 .. n /\ 1 # 2  OBVIOUS
  <2> HIDE DEF n
  <2>2. o.wires[1] \in Q /\ o.wires[2] \in Q /\ o.wires[1] # o.wires[2] /\ o.wires[1] # c /\ o.wires[2] # c
    BY <1>3, <2>1
  <2> QED  BY <2>2, Controlled2Standard
<1>9. Fail \in Seq(G)  BY FailStandard
<1> HIDE DEF G, n
<1> QED  BY <1>6, <1>7, <1>8, <1>9 DEF G

LEMMA AddControlStandard ==
  ASSUME NEW Q \in SUBSET Nat, NEW c \in Q, NEW ops \in Seq(StandardOps(Q \ {c}))
  PROVE  AddControl(c, ops) \in Seq(StandardOps(Q))
<1> DEFINE L == Len(ops)
           parts == [k \in DOMAIN ops |-> ControlledOp(c, ops[k])]
<1>1. L \in Nat /\ DOMAIN ops = 1 .. L /\ \A k \in 1 .. L : ops[k] \in StandardOps(Q \ {c})
  BY LenProperties, ElementOfSeq
<1>2. AddControl(c, ops) = Concat(L, parts)  BY DEF AddControl
<1>3. \A k \in 1 .. L : parts[k] \in Seq(StandardOps(Q))
  <2> TAKE k \in 1 .. L
  <2>1. ControlledOp(c, ops[k]) \in Seq(StandardOps(Q))  BY <1>1, ControlledOpStandard
  <2> QED  BY <1>1, <2>1
<1> HIDE DEF L, parts
<1> QED  BY <1>1, <1>2, <1>3, ConcatType

(***************************************************************************)
(* Kernels and preparations                                                *)
(***************************************************************************)
LEMMA EntangleStandard ==
  ASSUME NEW Q \in SUBSET Nat, NEW w, WireList(Q, w), Len(w) >= 2
  PROVE  w[1] \in Q /\ w[2] \in Q /\ w[1] # w[2] /\ <<Cx(w[1], w[2])>> \in Seq(StandardOps(Q))
<1>1. 1 \in 1 .. Len(w) /\ 2 \in 1 .. Len(w) /\ 1 # 2  BY DEF WireList
<1>2. w[1] \in Q /\ w[2] \in Q /\ w[1] # w[2]  BY <1>1 DEF WireList
<1>3. Cx(w[1], w[2]) \in StandardOps(Q)  BY <1>2, Gates2Standard
<1>4. <<Cx(w[1], w[2])>> \in Seq(StandardOps(Q))  BY <1>3, SeqSingle
<1> QED  BY <1>2, <1>4

LEMMA KernelStandard ==
  ASSUME NEW Q \in SUBSET Nat, NEW w, WireList(Q, w), Len(w) >= 1, NEW ancilla, Spare(Q, w, ancilla),
         NEW args \in Seq(Int), NEW name, name \in {"Rotate", "PhaseShift"} => Len(args) > 0
  PROVE  KernelGates(w, name, args, ancilla) \in Seq(StandardOps(Q))
<1> DEFINE G == StandardOps(Q)
           entangled == IF Len(w) < 2 THEN Fail ELSE <<Cx(w[1], w[2])>>
           diagonal == IF Len(w) > 4 \/ Len(args) # 2^Len(w) THEN Fail ELSE DiagonalGates(w, args)
           init == Hs(w)
           fourier == FourierGates(w)
           inverse == FourierInvGates(w)
           diffuse == DiffuseGates(w, ancilla)
           grover == GroverGates(w, args, ancilla)
           rotate == RotateGates(w, args[1])
           permutation == PermutationGates(w, args, ancilla)
<1>1. KernelGates(w, name, args, ancilla)
        = CASE name = "Init" -> init
            [] name = "Entangle" -> entangled
            [] name = "Fourier" -> fourier
            [] name = "FourierInv" -> inverse
            [] name = "Diffuse" -> diffuse
            [] name = "GroverIter" -> grover
            [] name \in {"Rotate", "PhaseShift"} -> rotate
            [] name = "DiagonalUnitary" -> diagonal
            [] name = "Permutation" -> permutation
            [] OTHER -> Fail
  BY DEF KernelGates
<1>2. Fail \in Seq(G)  BY FailStandard
<1>3. init \in Seq(G) /\ fourier \in Seq(G) /\ inverse \in Seq(G)  BY EachStandard, FourierStandard
<1>4. diffuse \in Seq(G) /\ grover \in Seq(G) /\ permutation \in Seq(G)
  BY DiffuseStandard, GroverStandard, PermutationStandard
<1>5. name \in {"Rotate", "PhaseShift"} => rotate \in Seq(G)
  <2> SUFFICES ASSUME name \in {"Rotate", "PhaseShift"}  PROVE rotate \in Seq(G)  OBVIOUS
  <2>1. Len(args) \in Nat /\ Len(args) > 0  BY LenProperties
  <2>2. args[1] \in Int  BY <2>1, ElementOfSeq
  <2> QED  BY <2>2, RotateStandard
<1>6. entangled \in Seq(G)
  <2>1. Len(w) \in Nat  BY DEF WireList
  <2>2. CASE Len(w) < 2  BY <1>2, <2>2
  <2>3. CASE ~(Len(w) < 2)
    <3>1. Len(w) >= 2  BY <2>1, <2>3
    <3>2. <<Cx(w[1], w[2])>> \in Seq(G)  BY <3>1, EntangleStandard
    <3> HIDE DEF G
    <3> QED  BY <2>3, <3>2
  <2> QED  BY <2>2, <2>3
<1>7. diagonal \in Seq(G)
  <2>1. CASE Len(args) # 2^Len(w)  BY <1>2, <2>1
  <2>2. CASE Len(args) = 2^Len(w)
    <3> DEFINE p == 2^Len(w)
    <3>1. Len(args) = p  BY <2>2
    <3> HIDE DEF p
    <3>2. \A j \in 1 .. p : args[j] \in Int  BY <3>1, ElementOfSeq
    <3>3. DiagonalGates(w, args) \in Seq(G)  BY <3>2, DiagonalStandard DEF p
    <3> HIDE DEF G
    <3> QED  BY <1>2, <3>3
  <2> QED  BY <2>1, <2>2
<1> HIDE DEF G, init, entangled, fourier, inverse, diffuse, grover, rotate, diagonal, permutation
<1> QED  BY <1>1, <1>2, <1>3, <1>4, <1>5, <1>6, <1>7 DEF G

\* The wires under control.
LEMMA TargetsOf ==
  ASSUME NEW Q \in SUBSET Nat, NEW w, WireList(Q, w), NEW p \in 1 .. Len(w), NEW t \in 1 .. (Len(w) - 1)
  PROVE  /\ WireList(Q \ {w[p]}, SubSeq(RemoveAt(w, p), Len(w) - t, Len(w) - 1))
         /\ Len(SubSeq(RemoveAt(w, p), Len(w) - t, Len(w) - 1)) >= 1
<1> DEFINE n == Len(w)
           c == w[p]
           u == SubSeq(w, 1, p - 1)
           v == SubSeq(w, p + 1, n)
           others == u \o v
           r == SubSeq(others, n - t, n - 1)
<1>1. n \in Nat /\ (\A i \in 1 .. n : w[i] \in Q) /\ \A i, j \in 1 .. n : i # j => w[i] # w[j]
  BY DEF WireList
<1>2. RemoveAt(w, p) = others  BY DEF RemoveAt
<1>3. /\ 1 \in 1 .. (n + 1) /\ p - 1 \in (1 - 1) .. n /\ p + 1 \in 1 .. (n + 1) /\ n \in ((p + 1) - 1) .. n
      /\ n >= 1 /\ p \in Nat /\ p >= 1 /\ p <= n
  BY <1>1
<1>a. n = Len(w)  OBVIOUS
<1> HIDE DEF n
<1>4. Taken(Q, w, 1, p - 1, u) /\ Taken(Q, w, p + 1, n, v)  BY <1>3, <1>a, SomeWires
<1> HIDE DEF u, v
<1>5. /\ WireList(Q, u) /\ Len(u) = ((p - 1) - 1) + 1
      /\ \A i \in 1 .. (((p - 1) - 1) + 1) : u[i] = w[(1 + i) - 1] /\ (1 + i) - 1 \in 1 .. (p - 1)
      /\ WireList(Q, v) /\ Len(v) = (n - (p + 1)) + 1
      /\ \A i \in 1 .. ((n - (p + 1)) + 1) : v[i] = w[((p + 1) + i) - 1] /\ ((p + 1) + i) - 1 \in (p + 1) .. n
  BY <1>4 DEF Taken
<1>6. Len(u) = p - 1 /\ Len(v) = n - p  BY <1>1, <1>3, <1>5
<1>7. ASSUME NEW i \in 1 .. Len(u)  PROVE \E k \in 1 .. n : k < p /\ u[i] = w[k]
  <2>1. i \in 1 .. (((p - 1) - 1) + 1)  BY <1>5
  <2>2. (1 + i) - 1 \in 1 .. n /\ (1 + i) - 1 < p  BY <1>1, <1>3, <2>1
  <2> QED  BY <1>5, <2>1, <2>2
<1>8. ASSUME NEW i \in 1 .. Len(v)  PROVE \E k \in 1 .. n : k > p /\ v[i] = w[k]
  <2>1. i \in 1 .. ((n - (p + 1)) + 1)  BY <1>5
  <2>2. ((p + 1) + i) - 1 \in 1 .. n /\ ((p + 1) + i) - 1 > p  BY <1>1, <1>3, <2>1
  <2> QED  BY <1>5, <2>1, <2>2
<1>9. Apart(u, v)
  <2> SUFFICES ASSUME NEW i \in 1 .. Len(u), NEW j \in 1 .. Len(v)  PROVE v[j] # u[i]
    BY DEF Apart, NotAmong
  <2>1. PICK k \in 1 .. n : k < p /\ u[i] = w[k]  BY <1>7
  <2>2. PICK l \in 1 .. n : l > p /\ v[j] = w[l]  BY <1>8
  <2>3. k # l  BY <1>3, <2>1, <2>2
  <2> QED  BY <1>1, <2>1, <2>2, <2>3
<1>10. NotAmong(c, u)
  <2> SUFFICES ASSUME NEW i \in 1 .. Len(u)  PROVE u[i] # c  BY DEF NotAmong
  <2>1. PICK k \in 1 .. n : k < p /\ u[i] = w[k]  BY <1>7
  <2>2. k # p /\ p \in 1 .. n  BY <1>3, <2>1
  <2> QED  BY <1>1, <2>1, <2>2
<1>11. NotAmong(c, v)
  <2> SUFFICES ASSUME NEW i \in 1 .. Len(v)  PROVE v[i] # c  BY DEF NotAmong
  <2>1. PICK k \in 1 .. n : k > p /\ v[i] = w[k]  BY <1>8
  <2>2. k # p /\ p \in 1 .. n  BY <1>3, <2>1
  <2> QED  BY <1>1, <2>1, <2>2
<1>12. BothWires(Q, u, v, others)  BY <1>5, <1>9, WiresBehind
<1>13. WireList(Q, others) /\ NotAmong(c, others)
  <2> HIDE DEF c, others
  <2> QED  BY <1>10, <1>11, <1>12 DEF BothWires
<1>14. Len(others) = n - 1
  <2>1. u \in Seq(Q) /\ v \in Seq(Q)  BY <1>5 DEF WireList
  <2>2. Len(others) = Len(u) + Len(v)  BY <2>1, ConcatProperties
  <2> HIDE DEF others
  <2> QED  BY <1>1, <1>3, <1>6, <2>2
<1> HIDE DEF others
<1>15. t \in 1 .. (n - 1)  BY <1>a
<1>16. Taken(Q, others, n - t, n - 1, r)
  <2>1. n - t \in 1 .. (Len(others) + 1) /\ n - 1 \in ((n - t) - 1) .. Len(others)  BY <1>1, <1>14, <1>15
  <2> QED  BY <1>13, <2>1, SomeWires
<1> HIDE DEF r
<1>17. WireList(Q, r) /\ Len(r) = ((n - 1) - (n - t)) + 1  BY <1>16 DEF Taken
<1>18. Len(r) >= 1  BY <1>1, <1>15, <1>17
<1>19. NotAmong(c, r)
  <2>1. \A i \in (n - t) .. (n - 1) : others[i] # c
    <3> TAKE i \in (n - t) .. (n - 1)
    <3>1. i \in 1 .. Len(others)  BY <1>1, <1>14, <1>15
    <3> QED  BY <1>13, <3>1 DEF NotAmong
  <2>2. n - t \in Nat \ {0} /\ n - 1 \in Nat /\ n - 1 <= Len(others)  BY <1>1, <1>14, <1>15
  <2> HIDE DEF c
  <2> QED  BY <1>13, <1>16, <2>1, <2>2, TakenAmong
<1>20. WireList(Q \ {c}, r)
  <2>1. r \in Seq(Q) /\ Len(r) \in Nat /\ DOMAIN r = 1 .. Len(r) /\ \A i, j \in 1 .. Len(r) : i # j => r[i] # r[j]
    BY <1>17 DEF WireList
  <2>2. \A i \in 1 .. Len(r) : r[i] \in Q \ {c}  BY <1>17, <1>19 DEF WireList, NotAmong
  <2>3. r = [i \in 1 .. Len(r) |-> r[i]]
    <3> DEFINE D == 1 .. Len(r)
    <3>1. r \in [D -> Q]  BY <2>1
    <3> HIDE DEF D
    <3>2. r = [i \in D |-> r[i]]  BY <3>1
    <3> QED  BY <3>2 DEF D
  <2> HIDE DEF c
  <2>4. r \in Seq(Q \ {c})  BY <2>1, <2>2, <2>3, FunctionIsSeq
  <2> QED  BY <2>1, <2>2, <2>4 DEF WireList
<1> QED  BY <1>2, <1>18, <1>20, <1>a DEF r, c

LEMMA RotationsStandard ==
  ASSUME NEW Q \in SUBSET Nat, NEW c \in Q, NEW w, WireList(Q \ {c}, w), NEW angle \in Int
  PROVE  ControlledRotations(c, w, angle) \in Seq(StandardOps(Q))
<1> DEFINE G == StandardOps(Q)
           n == Len(w)
           parts == [j \in DOMAIN w |-> ControlledPhaseGates(c, w[j], angle * 2^(Len(w) - j))]
<1>1. n \in Nat /\ DOMAIN w = 1 .. n /\ \A i \in 1 .. n : w[i] \in Q /\ w[i] # c  BY DEF WireList
<1>2. ControlledRotations(c, w, angle) = Concat(n, parts)  BY DEF ControlledRotations
<1>3. ASSUME NEW j \in 1 .. n  PROVE parts[j] \in Seq(G)
  <2> DEFINE p == 2^(n - j)
             a == angle * p
  <2>1. parts[j] = ControlledPhaseGates(c, w[j], a)  BY <1>1
  <2>2. n - j \in Nat  BY <1>1
  <2>3. p \in Int  BY <2>2, PowerOfTwo
  <2> HIDE DEF p
  <2>4. a \in Int  BY <2>3
  <2> HIDE DEF a, parts
  <2>5. ControlledPhaseGates(c, w[j], a) \in Seq(G)  BY <1>1, <2>4, ControlledPhaseStandard
  <2> QED  BY <2>1, <2>5
<1> HIDE DEF G, parts, n
<1>4. Concat(n, parts) \in Seq(G)  BY <1>1, <1>3, ConcatType
<1> QED  BY <1>2, <1>4 DEF G

LEMMA ControlledKernelStandard ==
  ASSUME NEW Q \in SUBSET Nat, NEW o, WireList(Q, o.wires), o.args \in Seq(Int), Len(o.args) > 3, o.args[2] >= 0,
         o.sub = "GroverIter" => Len(o.args) > 4
  PROVE  ControlledGates(o) \in Seq(StandardOps(Q))
<1> DEFINE G == StandardOps(Q)
           n == Len(o.wires)
           p == o.args[1] + 1
           c == o.wires[p]
           t == IF o.args[4] \in 1..(n - 1) THEN o.args[4] ELSE n - 1
           targets == SubSeq(RemoveAt(o.wires, p), n - t, n - 1)
           times == 2^o.args[2]
           angle == times * o.args[3]
           positive == IF angle < 0 THEN -angle ELSE angle
           table == SubSeq(o.args, 5, IF o.sub = "GroverIter" THEN 5 ELSE Len(o.args))
           sub == KernelGates(targets, o.sub, table, None)
           subs == [i \in 1 .. times |-> sub]
           wrong == n < 2 \/ o.args[1] \notin 0..(n - 1) \/ o.sub \in {"ControlledU", "DiagonalUnitary"}
           rotated == ControlledRotations(c, targets, angle)
           shifted == ControlledRotations(c, targets, positive)
           added == AddControl(c, Concat(times, subs))
<1>1. ControlledGates(o)
        = IF wrong THEN Fail
          ELSE CASE o.sub = "Rotate" -> rotated
                 [] o.sub = "PhaseShift" -> shifted
                 [] OTHER -> added
  BY DEF ControlledGates
<1>2. /\ n \in Nat /\ (\A i \in 1 .. n : o.wires[i] \in Q) /\ Len(o.args) \in Nat
      /\ o.args[1] \in Int /\ o.args[2] \in Nat /\ o.args[3] \in Int /\ o.args[4] \in Int
  <2>1. Len(o.args) \in Nat /\ \A i \in 1 .. Len(o.args) : o.args[i] \in Int  BY LenProperties, ElementOfSeq
  <2> QED  BY <2>1 DEF WireList
<1>3. Fail \in Seq(G)  BY FailStandard
<1>4. CASE wrong
  <2> HIDE DEF wrong, rotated, shifted, added
  <2> QED  BY <1>1, <1>3, <1>4
<1>5. CASE ~wrong
  <2>0. ~(n < 2) /\ o.args[1] \in 0 .. (n - 1) /\ n \in Nat /\ n = Len(o.wires)  BY <1>2, <1>5
  <2>1. n >= 2 /\ p \in 1 .. n /\ p \in 1 .. Len(o.wires)
    <3> DEFINE a == o.args[1]
    <3>1. a \in 0 .. (n - 1) /\ p = a + 1  BY <2>0
    <3> HIDE DEF a, p, n
    <3>2. n >= 2 /\ p \in 1 .. n  BY <2>0, <3>1
    <3> QED  BY <2>0, <3>2
  <2>2. c \in Q  BY <1>2, <2>1
  <2>3. t \in 1 .. (n - 1)
    <3> HIDE DEF n
    <3> QED  BY <1>2, <2>1
  <2>4. WireList(Q \ {c}, targets) /\ Len(targets) >= 1
    <3> HIDE DEF p, t
    <3> QED  BY <2>1, <2>3, TargetsOf
  <2>5. times \in Nat
    <3> DEFINE e == o.args[2]
    <3>1. e \in Nat  BY <1>2
    <3> HIDE DEF e
    <3>2. 2^e \in Nat  BY <3>1, PowerOfTwo
    <3> QED  BY <3>2 DEF e
  <2> HIDE DEF times
  <2>6. angle \in Int  BY <1>2, <2>5
  <2> HIDE DEF angle
  <2>7. positive \in Int  BY <2>6
  <2> HIDE DEF positive, c, targets
  <2>8. rotated \in Seq(G) /\ shifted \in Seq(G)  BY <2>2, <2>4, <2>6, <2>7, RotationsStandard
  <2>9. o.sub \notin {"Rotate", "PhaseShift"} => added \in Seq(G)
    <3> SUFFICES ASSUME o.sub \notin {"Rotate", "PhaseShift"}  PROVE added \in Seq(G)  OBVIOUS
    <3>1. table \in Seq(Int)
      <4> DEFINE b == IF o.sub = "GroverIter" THEN 5 ELSE Len(o.args)
                 a == o.args
                 m == Len(a)
                 five == 5
      <4>1. a \in Seq(Int) /\ m \in Nat /\ b \in Nat /\ b <= m  BY <1>2
      <4>2. \A i \in five .. b : a[i] \in Int
        <5>1. \A i \in 1 .. m : a[i] \in Int  BY <4>1, ElementOfSeq
        <5> HIDE DEF b, a, m
        <5> QED  BY <4>1, <5>1
      <4>3. table = SubSeq(a, five, b)  OBVIOUS
      <4>4. five \in Int /\ b \in Int  BY <4>1
      <4> HIDE DEF five, b, a, table
      <4> QED  BY <4>2, <4>3, <4>4, SubSeqProperties
    <3> DEFINE Q1 == Q \ {c}
    <3>2. Q1 \in SUBSET Nat  OBVIOUS
    <3>3. Spare(Q1, targets, None)  BY DEF Spare
    <3>4. WireList(Q1, targets)  BY <2>4
    <3> HIDE DEF table, Q1
    <3>5. sub \in Seq(StandardOps(Q1))  BY <2>4, <3>1, <3>2, <3>3, <3>4, KernelStandard
    <3>6. \A i \in 1 .. times : subs[i] \in Seq(StandardOps(Q1))  BY <3>5
    <3> HIDE DEF sub, subs
    <3>7. Concat(times, subs) \in Seq(StandardOps(Q1))  BY <2>5, <3>6, ConcatType
    <3> QED  BY <2>2, <3>7, AddControlStandard DEF Q1
  <2> HIDE DEF wrong, rotated, shifted, added, G
  <2> QED  BY <1>1, <1>5, <2>8, <2>9 DEF G
<1> QED  BY <1>4, <1>5

LEMMA OperationShape ==
  ASSUME NEW n \in Nat, NEW o, IsOperation(o, n)
  PROVE  WireList(0 .. (n - 1), o.wires) /\ Len(o.wires) >= 1 /\ o.args \in Seq(Int) /\ Len(o.args) \in Nat
<1>1. /\ o \in Operations /\ o.wires # <<>> /\ IsInjective(o.wires) /\ Range(o.wires) \subseteq 0 .. (n - 1)
  BY DEF IsOperation
<1>2. o.wires \in Seq(Nat) /\ o.args \in Seq(Int)  BY <1>1 DEF Operations
<1> DEFINE w == o.wires
           L == Len(w)
           Q == 0 .. (n - 1)
<1>3. L \in Nat /\ DOMAIN w = 1 .. L  BY <1>2, LenProperties
<1>4. \A i \in 1 .. L : w[i] \in Q
  <2> TAKE i \in 1 .. L
  <2>1. w[i] \in Range(w)  BY <1>3 DEF Range
  <2> QED  BY <1>1, <2>1
<1>5. w \in [1 .. L -> Nat]  BY <1>2, <1>3
<1>6. w = [i \in 1 .. L |-> w[i]]
  <2> DEFINE D == 1 .. L
  <2>1. w \in [D -> Nat]  BY <1>5
  <2> HIDE DEF D, w
  <2>2. w = [i \in D |-> w[i]]  BY <2>1
  <2> QED  BY <2>2 DEF D
<1>7. w \in Seq(Q)
  <2> HIDE DEF w, L, Q
  <2> QED  BY <1>3, <1>4, <1>6, FunctionIsSeq
<1>8. WireList(Q, w)
  <2> HIDE DEF Q
  <2> QED  BY <1>1, <1>7, WireLists
<1>9. L >= 1
  <2>1. L # 0  BY <1>1, <1>2, EmptySeq
  <2> QED  BY <1>3, <2>1
<1> QED  BY <1>2, <1>8, <1>9, LenProperties

LEMMA PrepStandard ==
  ASSUME NEW Q \in SUBSET Nat, NEW w, WireList(Q, w), Len(w) >= 1, NEW dist \in Distributions
  PROVE  <<Prep("Zero", w)>> \o PrepGates(w, dist) \in Seq(StandardOps(Q))
<1> DEFINE G == StandardOps(Q)
           n == Len(w)
           none == <<>>
           all == Hs(w)
           bell == <<H(w[1]), Cx(w[1], w[2])>>
           cxs == [k \in 1 .. (n - 1) |-> Cx(w[1], w[k + 1])]
           ghz == <<H(w[1])>> \o cxs
           o == Prep("Zero", w)
<1>1. /\ w \in Seq(Q) /\ n \in Nat /\ n >= 1 /\ DOMAIN w = 1 .. n /\ (\A i \in 1 .. n : w[i] \in Q)
      /\ \A i, j \in 1 .. n : i # j => w[i] # w[j]
  BY DEF WireList
<1>2. PrepGates(w, dist) = CASE dist = "Zero" \/ (dist = "Bell" /\ n < 2) -> none
                             [] dist = "Uniform" -> all
                             [] dist = "Bell" /\ n > 1 -> bell
                             [] dist = "Ghz" -> ghz
  BY DEF PrepGates
<1>3. all \in Seq(G) /\ none \in Seq(G)  BY EachStandard, EmptySeq
<1>4. w[1] \in Q  BY <1>1
<1>5. H(w[1]) \in G /\ <<H(w[1])>> \in Seq(G)
  <2>1. H(w[1]) \in G  BY <1>4, Gates1Standard
  <2> QED  BY <2>1, SeqSingle
<1>6. n > 1 => bell \in Seq(G)
  <2> SUFFICES ASSUME n > 1  PROVE bell \in Seq(G)  OBVIOUS
  <2>1. 1 \in 1 .. n /\ 2 \in 1 .. n /\ 1 # 2  BY <1>1
  <2>2. w[2] \in Q /\ w[1] # w[2]  BY <1>1, <2>1
  <2>3. Cx(w[1], w[2]) \in G  BY <1>4, <2>2, Gates2Standard
  <2> HIDE DEF G
  <2> QED  BY <1>5, <2>3
<1>7. ghz \in Seq(G)
  <2>1. ASSUME NEW k \in 1 .. (n - 1)  PROVE cxs[k] \in G
    <3> DEFINE j == k + 1
    <3>1. 1 \in 1 .. n /\ j \in 1 .. n /\ 1 # j  BY <1>1
    <3>2. cxs[k] = Cx(w[1], w[j])  OBVIOUS
    <3> HIDE DEF j, cxs
    <3>3. w[j] \in Q /\ w[1] # w[j]  BY <1>1, <3>1
    <3> QED  BY <1>4, <3>2, <3>3, Gates2Standard
  <2>2. cxs = [k \in 1 .. (n - 1) |-> cxs[k]] /\ n - 1 \in Nat  BY <1>1
  <2> HIDE DEF cxs, G
  <2>3. cxs \in Seq(G)  BY <2>1, <2>2, FunctionIsSeq
  <2> QED  BY <1>5, <2>3, ConcatProperties
<1>8. dist \in {"Zero", "Uniform", "Bell", "Ghz"}  BY DEF Distributions
<1>9. PrepGates(w, dist) \in Seq(G)
  <2> HIDE DEF none, all, bell, ghz, G, n
  <2> QED  BY <1>1, <1>2, <1>3, <1>6, <1>7, <1>8
<1>10. <<o>> \in Seq(G)
  <2>1. o = [op |-> "prep", name |-> "Zero", wires |-> w, args |-> none, sub |-> ""]  BY DEF Prep, Op
  <2>2. w \in Seq(Q) /\ w \in Seq(Nat) /\ IsInjective(w)
    <3>1. w \in Seq(Nat)  BY <1>1, SeqMonotonic
    <3> QED  BY <1>1, <3>1 DEF IsInjective
  <2>3. none \in Seq(Int)  BY EmptySeq
  <2> HIDE DEF o, none, n
  <2>4. o \in Operations  BY <2>1, <2>2, <2>3, KnownNames DEF Operations
  <2>5. o.op = "prep" /\ o.wires = w /\ o.args = none  BY <2>1
  <2>6. IsStandard(Q, o)  BY <2>2, <2>3, <2>5 DEF IsStandard
  <2>7. o \in G  BY <2>4, <2>6 DEF StandardOps
  <2> QED  BY <2>7, SeqSingle
<1> HIDE DEF G, o
<1>11. <<o>> \o PrepGates(w, dist) \in Seq(G)  BY <1>9, <1>10, ConcatProperties
<1> QED  BY <1>11 DEF G, o

LEMMA U3Standard ==
  ASSUME NEW Q \in SUBSET Nat, NEW w \in Q, NEW a \in Int, NEW b \in Int, NEW c \in Int
  PROVE  Turn("U3", w, <<a, b, c>>) \in StandardOps(Q)
<1> DEFINE angles == <<a, b, c>>
           name == "U3"
<1>1. angles \in Seq(Int) /\ Len(angles) = 3  OBVIOUS
<1>2. name \in Names  BY KnownNames
<1>3. name \notin {"Rx", "Ry", "Rz"}  OBVIOUS
<1> HIDE DEF angles
<1>4. Len(angles) > 2  BY <1>1
<1>5. Turn(name, w, angles) \in StandardOps(Q)
  <2> HIDE DEF name
  <2> QED  BY <1>1, <1>2, <1>3, <1>4, TurnStandard
<1> QED  BY <1>5 DEF angles

LEMMA ZYZStandard ==
  ASSUME NEW Q \in SUBSET Nat, NEW w \in Q, NEW a \in Seq(Int), Len(a) = 5
  PROVE  <<Turn("U3", w, ZYZ(a))>> \in Seq(StandardOps(Q))
<1> DEFINE G == StandardOps(Q)
           x == <<0, a[5] - a[2], 0>>
           y == <<Pi, a[4] - a[3] - Pi, 0>>
           z == <<a[1], a[4] - a[2], a[3] - a[2] - Pi>>
<1>1. a[1] \in Int /\ a[2] \in Int /\ a[3] \in Int /\ a[4] \in Int /\ a[5] \in Int
  <2>1. \A i \in 1 .. 5 : a[i] \in Int  BY ElementOfSeq
  <2> QED  BY <2>1
<1>2. ZYZ(a) = CASE a[1] = 0 -> x [] a[1] = Pi -> y [] OTHER -> z  BY DEF ZYZ
<1>3. Pi \in Int /\ Pi # 0 /\ 0 \in Int  BY DEF Pi
<1>4. Turn("U3", w, x) \in G /\ Turn("U3", w, y) \in G /\ Turn("U3", w, z) \in G
  <2> DEFINE p == a[5] - a[2]
             q == a[4] - a[3] - Pi
             r == a[4] - a[2]
             s == a[3] - a[2] - Pi
             k == 0
  <2>1. p \in Int /\ q \in Int /\ r \in Int /\ s \in Int /\ k \in Int  BY <1>1, <1>3
  <2> HIDE DEF p, q, r, s, k
  <2>2. /\ Turn("U3", w, <<k, p, k>>) \in G /\ Turn("U3", w, <<Pi, q, k>>) \in G
        /\ Turn("U3", w, <<a[1], r, s>>) \in G
    BY <1>1, <1>3, <2>1, U3Standard
  <2> QED  BY <2>2 DEF p, q, r, s, k
<1>5. ZYZ(a) \in {x, y, z}
  <2> HIDE DEF x, y, z
  <2> QED  BY <1>2
<1>6. Turn("U3", w, ZYZ(a)) \in G
  <2> HIDE DEF x, y, z, G
  <2> QED  BY <1>4, <1>5
<1> QED  BY <1>6, SeqSingle

LEMMA ProductStandard ==
  ASSUME NEW Q \in SUBSET Nat, NEW o, WireList(Q, o.wires), o.args \in Seq(Int), Len(o.args) = 3 * Len(o.wires)
  PROVE  ProductGates(o) \in Seq(StandardOps(Q))
<1> DEFINE G == StandardOps(Q)
           n == Len(o.wires)
           f == [q \in DOMAIN o.wires |->
                    LET theta == o.args[3 * q - 2]
                        lambda == -o.args[3 * q - 1]
                        phi == o.args[3 * q]
                    IN  Turn("U3", o.wires[q], IF theta = Pi THEN <<Pi, phi, 0>> ELSE <<theta, phi, lambda>>)]
<1>1. n \in Nat /\ DOMAIN o.wires = 1 .. n /\ (\A i \in 1 .. n : o.wires[i] \in Q)  BY DEF WireList
<1>2. ProductGates(o) = f  BY DEF ProductGates
<1>3. ASSUME NEW q \in 1 .. n  PROVE f[q] \in G
  <2> DEFINE i == 3 * q - 2
             j == 3 * q - 1
             k == 3 * q
             theta == o.args[i]
             lambda == -o.args[j]
             phi == o.args[k]
             w == o.wires[q]
             z == 0
  <2>1. f[q] = Turn("U3", w, IF theta = Pi THEN <<Pi, phi, z>> ELSE <<theta, phi, lambda>>)  BY <1>1
  <2>2. i \in 1 .. (3 * n) /\ j \in 1 .. (3 * n) /\ k \in 1 .. (3 * n)
    <3> HIDE DEF n
    <3> QED  BY <1>1
  <2>3. i \in 1 .. Len(o.args) /\ j \in 1 .. Len(o.args) /\ k \in 1 .. Len(o.args)  BY <2>2
  <2> HIDE DEF i, j, k, f
  <2>4. theta \in Int /\ o.args[j] \in Int /\ phi \in Int  BY <2>3, ElementOfSeq
  <2>5. lambda \in Int /\ z \in Int /\ Pi \in Int  BY <2>4 DEF Pi
  <2>6. w \in Q  BY <1>1
  <2> HIDE DEF theta, lambda, phi, z, w
  <2>7. Turn("U3", w, <<Pi, phi, z>>) \in G /\ Turn("U3", w, <<theta, phi, lambda>>) \in G
    BY <2>4, <2>5, <2>6, U3Standard
  <2> HIDE DEF G
  <2> QED  BY <2>1, <2>7
<1>4. f = [q \in 1 .. n |-> f[q]]  BY <1>1
<1> HIDE DEF f, G, n
<1>5. f \in Seq(G)  BY <1>1, <1>3, <1>4, FunctionIsSeq
<1> QED  BY <1>2, <1>5 DEF G

LEMMA StandardGatesTyped ==
  ASSUME NEW n \in Nat, NEW o, IsOperation(o, n), NEW Q \in SUBSET Nat, 0 .. (n - 1) \subseteq Q,
         NEW ancilla, Spare(Q, o.wires, ancilla)
  PROVE  StandardGates(o, ancilla) \in Seq(StandardOps(Q))
<1> DEFINE G == StandardOps(Q)
           w == o.wires
           spare == IF Len(w) >= 4 THEN ancilla ELSE None
           prep == <<Prep("Zero", w)>> \o PrepGates(w, o.name)
           controlled == ControlledGates(o)
           kernel == KernelGates(w, o.name, o.args, spare)
           unitary == IF Len(w) = 1 THEN <<Turn("U3", w[1], ZYZ(o.args))>> ELSE Fail
           product == ProductGates(o)
           self == <<o>>
<1>1. StandardGates(o, ancilla)
        = CASE o.op = "prep" -> prep
            [] o.op = "kernel" /\ o.name = "ControlledU" -> controlled
            [] o.op = "kernel" /\ o.name # "ControlledU" -> kernel
            [] o.op = "unitary" -> unitary
            [] o.op = "product" -> product
            [] OTHER -> self
  BY DEF StandardGates
<1>2. WireList(0 .. (n - 1), w) /\ Len(w) >= 1 /\ o.args \in Seq(Int) /\ Len(o.args) \in Nat  BY OperationShape
<1>3. WireList(Q, w)
  <2> DEFINE P == 0 .. (n - 1)
  <2>1. WireList(P, w) /\ P \subseteq Q  BY <1>2
  <2> HIDE DEF P, w
  <2>2. w \in Seq(Q)  BY <2>1, SeqMonotonic DEF WireList
  <2> QED  BY <2>1, <2>2 DEF WireList
<1>a. o \in Operations /\ IsInjective(w)  BY DEF IsOperation
<1>b. \/ o.op = "prep" /\ o.name \in Distributions
      \/ /\ o.op = "gate" /\ Len(o.wires) \in 1..2
         /\ o.name \in {"Rx", "Ry", "Rz"} => Len(o.args) > 0
         /\ o.name = "U3" => Len(o.args) > 2
      \/ /\ o.op = "kernel"
         /\ o.name \in {"Rotate", "PhaseShift"} => Len(o.args) > 0
         /\ o.name = "ControlledU" => Len(o.args) > 3 /\ o.args[2] >= 0
         /\ o.name = "ControlledU" /\ o.sub = "GroverIter" => Len(o.args) > 4
      \/ o.op = "unitary" /\ Len(o.args) = 5
      \/ o.op = "product" /\ Len(o.args) = 3 * Len(o.wires)
      \/ o.op \in {"measqubit", "reset"} /\ Len(o.wires) = 1
      \/ o.op \in {"measure", "barrier"}
  BY DEF IsOperation
<1>4. o.op = "prep" => prep \in Seq(G)
  <2> SUFFICES ASSUME o.op = "prep"  PROVE prep \in Seq(G)  OBVIOUS
  <2>1. o.name \in Distributions  BY <1>b
  <2> QED  BY <1>2, <1>3, <2>1, PrepStandard
<1>5. o.op = "kernel" /\ o.name = "ControlledU" => controlled \in Seq(G)
  <2> SUFFICES ASSUME o.op = "kernel", o.name = "ControlledU"  PROVE controlled \in Seq(G)  OBVIOUS
  <2>1. Len(o.args) > 3 /\ o.args[2] >= 0 /\ (o.sub = "GroverIter" => Len(o.args) > 4)  BY <1>b
  <2> QED  BY <1>2, <1>3, <2>1, ControlledKernelStandard
<1>6. o.op = "kernel" /\ o.name # "ControlledU" => kernel \in Seq(G)
  <2> SUFFICES ASSUME o.op = "kernel"  PROVE kernel \in Seq(G)  OBVIOUS
  <2>1. o.name \in {"Rotate", "PhaseShift"} => Len(o.args) > 0  BY <1>b
  <2>2. Spare(Q, w, spare)  BY DEF Spare
  <2> HIDE DEF spare
  <2> QED  BY <1>2, <1>3, <2>1, <2>2, KernelStandard
<1>7. o.op = "unitary" => unitary \in Seq(G)
  <2> SUFFICES ASSUME o.op = "unitary"  PROVE unitary \in Seq(G)  OBVIOUS
  <2>1. Len(o.args) = 5  BY <1>b
  <2>2. Fail \in Seq(G)  BY FailStandard
  <2>3. w[1] \in Q  BY <1>2, <1>3 DEF WireList
  <2>4. <<Turn("U3", w[1], ZYZ(o.args))>> \in Seq(G)  BY <1>2, <2>1, <2>3, ZYZStandard
  <2> HIDE DEF G
  <2> QED  BY <2>2, <2>4
<1>8. o.op = "product" => product \in Seq(G)
  <2> SUFFICES ASSUME o.op = "product"  PROVE product \in Seq(G)  OBVIOUS
  <2>1. Len(o.args) = 3 * Len(o.wires)  BY <1>b
  <2> QED  BY <1>2, <1>3, <2>1, ProductStandard
<1>9. o.op \notin {"prep", "kernel", "unitary", "product"} => self \in Seq(G)
  <2> SUFFICES ASSUME o.op \notin {"prep", "kernel", "unitary", "product"}  PROVE self \in Seq(G)  OBVIOUS
  <2>1. w \in Seq(Q)  BY <1>3 DEF WireList
  <2>2. \/ /\ o.op = "gate" /\ Len(o.wires) = 1
           /\ o.name \in {"Rx", "Ry", "Rz"} => Len(o.args) > 0
           /\ o.name = "U3" => Len(o.args) > 2
        \/ o.op = "gate" /\ Len(o.wires) = 2
        \/ o.op \in {"measqubit", "reset"} /\ Len(o.wires) = 1
        \/ o.op \in {"prep", "measure", "barrier", "fail"}
    <3>1. Len(o.wires) \in 1 .. 2 => Len(o.wires) = 1 \/ Len(o.wires) = 2  OBVIOUS
    <3> QED  BY <1>b, <3>1
  <2>3. IsStandard(Q, o)  BY <1>2, <1>a, <2>1, <2>2 DEF IsStandard
  <2>4. o \in G  BY <1>a, <2>3 DEF StandardOps
  <2> QED  BY <2>4, SeqSingle
<1> HIDE DEF prep, controlled, kernel, unitary, product, self, G
<1> QED  BY <1>1, <1>4, <1>5, <1>6, <1>7, <1>8, <1>9 DEF G

\* A program of standard gates.
StandardProgram(p) ==
    /\ p.wires \in Nat \ {0}
    /\ p.ops \in Seq(StandardOps(0 .. (p.wires - 1)))

(***************************************************************************)
(* Whatever program is prepared, decompose gives standard gates,           *)
(* measurements and resets, each on wires that the program has (or the one *)
(* ancilla) and on no wire twice, or it fails: no case of the              *)
(* decomposition, ladder, permutation or controlled kernel writes a wire   *)
(* that is not there (cqam-micro: decompose/mod.rs and its modules).       *)
(***************************************************************************)
THEOREM DecompositionIsStandard ==
  ASSUME NEW program, IsProgram(program)
  PROVE  StandardProgram(Standard(program))
<1> DEFINE more == \E k \in DOMAIN program.ops : NeedsAncilla(program.ops[k])
           n == program.wires
           ancilla == IF more THEN n ELSE None
           N == n + (IF more THEN 1 ELSE 0)
           Q == 0 .. (N - 1)
           L == Len(program.ops)
           parts == [k \in DOMAIN program.ops |-> StandardGates(program.ops[k], ancilla)]
           ops == Concat(L, parts)
<1>1. Standard(program) = Program(N, ops)  BY DEF Standard
<1>2. Standard(program).wires = N /\ Standard(program).ops = ops  BY <1>1 DEF Program
<1>3. n \in Nat \ {0} /\ program.ops \in Seq(Operations) /\ \A k \in DOMAIN program.ops : IsOperation(program.ops[k], n)
  BY DEF IsProgram
<1>4. L \in Nat /\ DOMAIN program.ops = 1 .. L  BY <1>3, LenProperties
<1>5. N \in Nat \ {0} /\ Q \in SUBSET Nat /\ 0 .. (n - 1) \subseteq Q
  <2> HIDE DEF more, n
  <2> QED  BY <1>3
<1>6. ancilla = None \/ (ancilla \in Q /\ \A b \in 0 .. (n - 1) : b # ancilla)
  <2> HIDE DEF more, n
  <2>1. CASE more
    <3>1. ancilla = n /\ N = n + 1  BY <2>1
    <3>2. n \in Nat /\ n \in 0 .. ((n + 1) - 1)  BY <1>3
    <3> HIDE DEF ancilla, N
    <3> QED  BY <3>1, <3>2
  <2>2. CASE ~more  BY <2>2
  <2> QED  BY <2>1, <2>2
<1> HIDE DEF ancilla, N, L
<1>7. ASSUME NEW k \in 1 .. L  PROVE parts[k] \in Seq(StandardOps(Q))
  <2> DEFINE o == program.ops[k]
  <2>1. IsOperation(o, n)  BY <1>3, <1>4
  <2>2. parts[k] = StandardGates(o, ancilla)  BY <1>4
  <2> HIDE DEF o, parts, n
  <2>3. WireList(0 .. (n - 1), o.wires)  BY <1>3, <2>1, OperationShape
  <2>4. \A i \in 1 .. Len(o.wires) : o.wires[i] \in 0 .. (n - 1)  BY <2>3 DEF WireList
  <2>5. Spare(Q, o.wires, ancilla)  BY <1>6, <2>4 DEF Spare, NotAmong
  <2> HIDE DEF Q
  <2> QED  BY <1>3, <1>5, <2>1, <2>2, <2>5, StandardGatesTyped
<1> HIDE DEF parts, Q
<1>8. ops \in Seq(StandardOps(Q))  BY <1>4, <1>7, ConcatType
<1> QED  BY <1>2, <1>5, <1>8 DEF StandardProgram, Q

(***************************************************************************)
(* Routing: the shortest path                                              *)
(***************************************************************************)
LEMMA CoupledInside ==
  ASSUME NEW dev, IsDevice(dev), NEW a, NEW b, Coupled(dev, a, b)
  PROVE  a \in 0 .. (dev.size - 1) /\ b \in 0 .. (dev.size - 1) /\ a # b /\ Coupled(dev, b, a)
<1> DEFINE Z == 0 .. (dev.size - 1)
<1>0. dev.size \in Nat /\ Z \in SUBSET Nat  BY DEF IsDevice
<1>1. dev.edges \subseteq {e \in Z \X Z : e[1] < e[2]}  BY DEF IsDevice
<1>2. \A x, y : <<x, y>> \in dev.edges => x \in Z /\ y \in Z /\ x < y
  <2> TAKE x, y
  <2> HAVE <<x, y>> \in dev.edges
  <2>1. <<x, y>> \in Z \X Z /\ <<x, y>>[1] < <<x, y>>[2]  BY <1>1
  <2> HIDE DEF Z
  <2> QED  BY <2>1
<1>3. <<a, b>> \in dev.edges \/ <<b, a>> \in dev.edges  BY DEF Coupled
<1>4. a \in Z /\ b \in Z /\ a # b  BY <1>0, <1>2, <1>3
<1>5. Coupled(dev, b, a)  BY <1>3 DEF Coupled
<1> QED  BY <1>4, <1>5

\* The sets of qubits so far away.
Rings(dev, b, W) ==
    /\ W[0] = {b}
    /\ \A d \in Nat : W[d + 1] = W[d] \cup UNION {Neighbours(dev, c) : c \in W[d]}
LEMMA WithinIs ==
  ASSUME NEW dev, NEW b
  PROVE  Rings(dev, b, Within(dev, b))
<1> DEFINE Z == {b} \cup (0 .. (dev.size - 1))
           S == SUBSET Z
           z == {b}
           N(x) == UNION {Neighbours(dev, c) : c \in x}
           step == [s \in Nat \X S |-> s[2] \cup N(s[2])]
           E(f, d) == IF d = 0 THEN z ELSE f[d - 1] \cup N(f[d - 1])
           within == CHOOSE f : f = [d \in Nat |-> E(f, d)]
<1>1. Within(dev, b) = within  BY DEF Within
<1>2. z \in S  OBVIOUS
<1>3. \A x : N(x) \in S
  <2>1. \A c : Neighbours(dev, c) \subseteq Z  BY DEF Neighbours
  <2> HIDE DEF Z
  <2> QED  BY <2>1
<1> HIDE DEF Z, z, N
<1>4. \A d \in Nat, u \in S : step[<<d, u>>] = u \cup N(u)
  <2> TAKE d \in Nat, u \in S
  <2> HIDE DEF S
  <2>1. <<d, u>> \in Nat \X S /\ <<d, u>>[1] = d /\ <<d, u>>[2] = u  OBVIOUS
  <2> QED  BY <2>1
<1> HIDE DEF step
<1>5. \A d \in Nat, u \in S : step[<<d, u>>] \in S
  <2> TAKE d \in Nat, u \in S
  <2>1. u \cup N(u) \in S  BY <1>3
  <2> QED  BY <1>4, <2>1
<1> HIDE DEF S
<1>6. PICK g : Recursion(S, z, step, g)  BY <1>2, <1>5, NatRecursion
<1>7. g = [d \in Nat |-> E(g, d)]
  <2>1. \A d \in Nat : g[d] = E(g, d)
    <3> TAKE d \in Nat
    <3>1. CASE d = 0  BY <1>6, <3>1 DEF Recursion
    <3>2. CASE d # 0
      <4>1. d - 1 \in Nat /\ (d - 1) + 1 = d  BY <3>2
      <4>2. g[d] = step[<<d - 1, g[d - 1]>>] /\ g[d - 1] \in S  BY <1>6, <4>1 DEF Recursion
      <4> QED  BY <1>4, <3>2, <4>1, <4>2
    <3> QED  BY <3>1, <3>2
  <2>2. g = [d \in Nat |-> g[d]]  BY <1>6 DEF Recursion
  <2> HIDE DEF E
  <2> QED  BY <2>1, <2>2
<1>8. within = [d \in Nat |-> E(within, d)]
  <2> HIDE DEF E
  <2> QED  BY <1>7
<1> HIDE DEF within
<1>9. \A d \in Nat : within[d] = E(within, d)
  <2> HIDE DEF E
  <2> QED  BY <1>8
<1>10. within[0] = z  BY <1>9
<1>11. \A d \in Nat : within[d + 1] = within[d] \cup N(within[d])
  <2> TAKE d \in Nat
  <2>1. d + 1 \in Nat /\ d + 1 # 0 /\ (d + 1) - 1 = d  OBVIOUS
  <2> QED  BY <1>9, <2>1
<1> QED  BY <1>1, <1>10, <1>11 DEF Rings, z, N

\* Distance: the least ring.
AtDistance(dev, b, W, a, m) ==
    /\ m \in 0 .. dev.size /\ a \in W[m] /\ \A e \in 0 .. (m - 1) : a \notin W[e]

LEMMA DistanceUnique ==
  ASSUME NEW dev, dev.size \in Nat, NEW b, NEW W, NEW a, NEW m, NEW k, AtDistance(dev, b, W, a, m), AtDistance(dev, b, W, a, k)
  PROVE  m = k
<1>1. m \in Nat /\ k \in Nat  BY DEF AtDistance
<1>2. ~(m < k)
  <2> SUFFICES ASSUME m < k  PROVE FALSE  OBVIOUS
  <2>1. m \in 0 .. (k - 1)  BY <1>1
  <2> QED  BY <2>1 DEF AtDistance
<1>3. ~(k < m)
  <2> SUFFICES ASSUME k < m  PROVE FALSE  OBVIOUS
  <2>1. k \in 0 .. (m - 1)  BY <1>1
  <2> QED  BY <2>1 DEF AtDistance
<1> QED  BY <1>1, <1>2, <1>3

LEMMA DistanceIs ==
  ASSUME NEW dev, dev.size \in Nat, NEW b, NEW a
  PROVE  /\ Distance(dev, a, b) \in Nat
         /\ Distance(dev, a, b) <= dev.size => AtDistance(dev, b, Within(dev, b), a, Distance(dev, a, b))
         /\ \A d \in 0 .. dev.size : a \in Within(dev, b)[d] => Distance(dev, a, b) <= d
<1> DEFINE W == Within(dev, b)
           size == dev.size
           near == \E d \in 0 .. size : a \in W[d]
           m == CHOOSE d \in 0 .. size : a \in W[d] /\ \A e \in 0 .. (d - 1) : a \notin W[e]
           D == Distance(dev, a, b)
<1>1. D = IF near THEN m ELSE size + 1  BY DEF Distance
<1>s. size \in Nat  OBVIOUS
<1> HIDE DEF W, D, size
<1>2. CASE near
  <2> DEFINE A == {d \in 0 .. size : a \in W[d]}
  <2>1. PICK n \in A : \A j \in A : n <= j
    <3>1. A \in SUBSET Nat /\ A # {}  BY <1>2
    <3> HIDE DEF A
    <3> QED  BY <3>1, Least
  <2>2. ASSUME NEW e \in 0 .. (n - 1)  PROVE a \notin W[e]
    <3> SUFFICES ASSUME a \in W[e]  PROVE FALSE  OBVIOUS
    <3>1. e \in 0 .. size /\ e < n  BY <1>s
    <3>2. e \in A  BY <3>1
    <3> QED  BY <1>s, <2>1, <3>1, <3>2
  <2>3. m \in 0 .. size /\ a \in W[m] /\ \A e \in 0 .. (m - 1) : a \notin W[e]
    <3>1. n \in 0 .. size /\ a \in W[n]  OBVIOUS
    <3> QED  BY <2>2, <3>1
  <2> HIDE DEF m
  <2>4. D = m  BY <1>1, <1>2
  <2>5. AtDistance(dev, b, W, a, D)  BY <2>3, <2>4 DEF AtDistance, size
  <2>6. ASSUME NEW d \in 0 .. size, a \in W[d]  PROVE D <= d
    <3> SUFFICES ASSUME ~(D <= d)  PROVE FALSE  OBVIOUS
    <3>1. D \in Nat /\ d \in Nat  BY <1>s, <2>3, <2>4
    <3>2. d \in 0 .. (D - 1)  BY <3>1
    <3> QED  BY <2>3, <2>4, <2>6, <3>2
  <2>7. D \in Nat  BY <1>s, <2>3, <2>4
  <2> QED  BY <2>5, <2>6, <2>7 DEF D, W, size
<1>3. CASE ~near
  <2>1. D = size + 1  BY <1>1, <1>3
  <2>2. D \in Nat /\ ~(D <= size)  BY <1>s, <2>1
  <2>3. \A d \in 0 .. size : a \notin W[d]  BY <1>3
  <2> QED  BY <2>2, <2>3 DEF D, W, size
<1> QED  BY <1>2, <1>3

\* The lowest number of a set is one of it.
LEMMA MinIn ==
  ASSUME NEW K \in SUBSET Nat, K # {}
  PROVE  Min(K) \in K
<1>1. PICK n \in K : \A j \in K : n <= j  BY Least
<1> QED  BY <1>1 DEF Min

\* From a qubit one coupling leads closer.
CloserBy(dev, b, a, c) ==
    /\ c \in 0 .. (dev.size - 1) /\ Coupled(dev, a, c) /\ Distance(dev, c, b) = Distance(dev, a, b) - 1
LEMMA CloserExists ==
  ASSUME NEW dev, IsDevice(dev), NEW a, NEW b, Distance(dev, a, b) # 0, Distance(dev, a, b) <= dev.size
  PROVE  CloserBy(dev, b, a, Min(Closer(dev, a, b)))
<1> DEFINE W == Within(dev, b)
           m == Distance(dev, a, b)
           Z == 0 .. (dev.size - 1)
           C == Closer(dev, a, b)
<1>0. dev.size \in Nat  BY DEF IsDevice
<1>1. AtDistance(dev, b, W, a, m) /\ m \in Nat  BY <1>0, DistanceIs
<1>2. Rings(dev, b, W)  BY WithinIs
<1>c. C = {c \in Neighbours(dev, a) : Distance(dev, c, b) = m - 1}  BY DEF Closer
<1>d. m # 0 /\ m <= dev.size  OBVIOUS
<1>k. \A x \in Z : Distance(dev, x, b) \in Nat
          /\ (Distance(dev, x, b) <= dev.size => AtDistance(dev, b, W, x, Distance(dev, x, b)))
          /\ \A d \in 0 .. dev.size : x \in W[d] => Distance(dev, x, b) <= d
  BY <1>0, DistanceIs
<1> HIDE DEF m, W
<1>3. m - 1 \in Nat /\ (m - 1) + 1 = m /\ m - 1 \in 0 .. (m - 1) /\ m - 1 \in 0 .. dev.size  BY <1>0, <1>1, <1>d
<1>4. a \in W[m] /\ a \notin W[m - 1]  BY <1>1, <1>3 DEF AtDistance
<1>5. W[m] = W[m - 1] \cup UNION {Neighbours(dev, c) : c \in W[m - 1]}  BY <1>2, <1>3 DEF Rings
<1>6. PICK c \in W[m - 1] : a \in Neighbours(dev, c)  BY <1>4, <1>5
<1>7. Coupled(dev, c, a)  BY <1>6 DEF Neighbours
<1>8. c \in Z /\ Coupled(dev, a, c)  BY <1>7, CoupledInside
<1> DEFINE k == Distance(dev, c, b)
<1>9. k \in Nat /\ k <= m - 1  BY <1>3, <1>6, <1>8, <1>k
<1>10. AtDistance(dev, b, W, c, k)
  <2>1. k <= dev.size  BY <1>0, <1>1, <1>9, <1>d
  <2> QED  BY <1>8, <1>k, <2>1
<1> HIDE DEF k
<1>11. k = m - 1
  <2> SUFFICES ASSUME k # m - 1  PROVE FALSE  OBVIOUS
  <2>1. k + 1 \in 0 .. (m - 1)  BY <1>3, <1>9
  <2>2. c \in W[k]  BY <1>10 DEF AtDistance
  <2>3. W[k + 1] = W[k] \cup UNION {Neighbours(dev, x) : x \in W[k]}  BY <1>2, <1>9 DEF Rings
  <2>4. a \in W[k + 1]  BY <1>6, <2>2, <2>3
  <2> QED  BY <1>1, <2>1, <2>4 DEF AtDistance
<1>12. c \in C  BY <1>8, <1>11, <1>c DEF Neighbours, k
<1>13. C \in SUBSET Nat
  <2>1. Neighbours(dev, a) \subseteq Z  BY DEF Neighbours
  <2>2. Z \in SUBSET Nat  BY <1>0
  <2> HIDE DEF Z, C
  <2> QED  BY <1>c, <2>1, <2>2
<1>14. Min(C) \in C
  <2> HIDE DEF C
  <2> QED  BY <1>12, <1>13, MinIn
<1> HIDE DEF C
<1>15. Min(C) \in Neighbours(dev, a) /\ Distance(dev, Min(C), b) = m - 1  BY <1>14, <1>c
<1>16. Min(C) \in 0 .. (dev.size - 1) /\ Coupled(dev, a, Min(C))  BY <1>15 DEF Neighbours
<1> QED  BY <1>15, <1>16 DEF CloserBy, m, C

\* What the path is: as long as the distance, from coupling to coupling.
IsPath(dev, a, b, path) ==
    /\ path \in Seq(Nat) /\ Len(path) = Distance(dev, a, b) + 1
    /\ path[1] = a /\ path[Len(path)] = b
    /\ \A i \in 1 .. Len(path) : Distance(dev, path[i], b) = Len(path) - i
    /\ \A i \in 1 .. (Len(path) - 1) : Coupled(dev, path[i], path[i + 1])

LEMMA PathIs ==
  ASSUME NEW dev, IsDevice(dev), NEW a \in Nat, NEW b, Distance(dev, a, b) <= dev.size
  PROVE  IsPath(dev, a, b, ShortestPath(dev, a, b))
<1> DEFINE m == Distance(dev, a, b)
           M(x) == Min(Closer(dev, x, b))
           E(f, i) == IF i = 0 THEN a ELSE M(f[i - 1])
           hop == CHOOSE f : f = [i \in Nat |-> E(f, i)]
           S == {a} \cup {M(x) : x \in {a} \cup {Min({})} \cup (0 .. (dev.size - 1))} \cup {Min({})} \cup (0 .. (dev.size - 1))
           path == [i \in 1 .. (m + 1) |-> hop[i - 1]]
           step == [s \in Nat \X S |-> M(s[2])]
<1>0. dev.size \in Nat  BY DEF IsDevice
<1>1. ShortestPath(dev, a, b) = path  BY DEF ShortestPath
<1>2. m \in Nat  BY <1>0, DistanceIs
<1>m. \A x : M(x) \in {Min({})} \cup (0 .. (dev.size - 1))
  <2> TAKE x
  <2> DEFINE C == Closer(dev, x, b)
  <2>1. C \subseteq 0 .. (dev.size - 1)  BY DEF Closer, Neighbours
  <2>2. 0 .. (dev.size - 1) \in SUBSET Nat  BY <1>0
  <2>3. CASE C = {}
    <3>1. M(x) = Min({})  BY <2>3
    <3> QED  BY <3>1
  <2>4. CASE C # {}
    <3>1. C \in SUBSET Nat  BY <2>1, <2>2
    <3> HIDE DEF C
    <3>2. Min(C) \in C  BY <2>4, <3>1, MinIn
    <3> QED  BY <2>1, <3>2 DEF C
  <2> QED  BY <2>3, <2>4
<1>3. a \in S /\ \A x : M(x) \in S  BY <1>m
<1>c. \A x : Distance(dev, x, b) # 0 /\ Distance(dev, x, b) <= dev.size => CloserBy(dev, b, x, M(x))
  BY CloserExists
<1> HIDE DEF M, S
<1>4. \A i \in Nat, u \in S : step[<<i, u>>] = M(u)
  <2> TAKE i \in Nat, u \in S
  <2>1. <<i, u>> \in Nat \X S /\ <<i, u>>[1] = i /\ <<i, u>>[2] = u  OBVIOUS
  <2> QED  BY <2>1
<1> HIDE DEF step
<1>5. \A i \in Nat, u \in S : step[<<i, u>>] \in S  BY <1>3, <1>4
<1>6. PICK g : Recursion(S, a, step, g)  BY <1>3, <1>5, NatRecursion
<1>7. g = [i \in Nat |-> E(g, i)]
  <2>1. \A i \in Nat : g[i] = E(g, i)
    <3> TAKE i \in Nat
    <3>1. CASE i = 0  BY <1>6, <3>1 DEF Recursion
    <3>2. CASE i # 0
      <4>1. i - 1 \in Nat /\ (i - 1) + 1 = i  BY <3>2
      <4>2. g[i] = step[<<i - 1, g[i - 1]>>] /\ g[i - 1] \in S  BY <1>6, <4>1 DEF Recursion
      <4> QED  BY <1>4, <3>2, <4>1, <4>2
    <3> QED  BY <3>1, <3>2
  <2>2. g = [i \in Nat |-> g[i]]  BY <1>6 DEF Recursion
  <2> HIDE DEF E
  <2> QED  BY <2>1, <2>2
<1>8. hop = [i \in Nat |-> E(hop, i)]
  <2> HIDE DEF E
  <2> QED  BY <1>7
<1> HIDE DEF hop
<1>9. \A i \in Nat : hop[i] = E(hop, i)
  <2> HIDE DEF E
  <2> QED  BY <1>8
<1>10. hop[0] = a  BY <1>9
<1>11. \A i \in Nat : hop[i + 1] = M(hop[i])
  <2> TAKE i \in Nat
  <2>1. i + 1 \in Nat /\ i + 1 # 0 /\ (i + 1) - 1 = i  OBVIOUS
  <2> QED  BY <1>9, <2>1
<1>d. m = Distance(dev, a, b) /\ m <= dev.size  OBVIOUS
<1> HIDE DEF m
<1> DEFINE K == {i \in Nat : i <= m => hop[i] \in Nat /\ Distance(dev, hop[i], b) = m - i}
<1>12. 0 \in K
  <2>1. m - 0 = m  BY <1>2
  <2> QED  BY <1>10, <1>d, <2>1
<1>13. ASSUME NEW i \in K, i + 1 <= m
       PROVE  /\ hop[i + 1] \in Nat /\ Distance(dev, hop[i + 1], b) = m - (i + 1)
              /\ Coupled(dev, hop[i], hop[i + 1])
  <2>1. i \in Nat /\ i <= m /\ hop[i] \in Nat /\ Distance(dev, hop[i], b) = m - i  BY <1>2, <1>13
  <2>2. m - i # 0 /\ m - i <= dev.size /\ (m - i) - 1 = m - (i + 1)  BY <1>0, <1>2, <1>13, <1>d, <2>1
  <2>3. CloserBy(dev, b, hop[i], M(hop[i]))  BY <1>c, <2>1, <2>2
  <2>4. CloserBy(dev, b, hop[i], hop[i + 1])  BY <1>11, <2>1, <2>3
  <2>5. hop[i + 1] \in 0 .. (dev.size - 1) /\ Coupled(dev, hop[i], hop[i + 1])
        /\ Distance(dev, hop[i + 1], b) = (m - i) - 1
    BY <2>1, <2>4 DEF CloserBy
  <2>6. hop[i + 1] \in Nat  BY <1>0, <2>5
  <2> QED  BY <2>2, <2>5, <2>6
<1>14. ASSUME NEW i \in K  PROVE i + 1 \in K  BY <1>13
<1>15. K \in SUBSET Nat  OBVIOUS
<1>16. Nat \subseteq K
  <2> HIDE DEF K
  <2> QED  BY <1>12, <1>14, <1>15, Upwards
<1>17. \A i \in 0 .. m : hop[i] \in Nat /\ Distance(dev, hop[i], b) = m - i
  <2> TAKE i \in 0 .. m
  <2>1. i \in K /\ i <= m  BY <1>2, <1>16
  <2> QED  BY <2>1
<1>18. \A i \in 0 .. (m - 1) : Coupled(dev, hop[i], hop[i + 1])
  <2> TAKE i \in 0 .. (m - 1)
  <2>1. i \in K /\ i + 1 <= m  BY <1>2, <1>16
  <2> HIDE DEF K
  <2> QED  BY <1>13, <2>1
<1> HIDE DEF K
<1>19. \A i \in 1 .. (m + 1) : path[i] = hop[i - 1] /\ i - 1 \in 0 .. m /\ m - (i - 1) = (m + 1) - i
  BY <1>2
<1>20. path = [i \in 1 .. (m + 1) |-> path[i]] /\ m + 1 \in Nat  BY <1>2
<1> HIDE DEF path
<1>21. path \in Seq(Nat) /\ Len(path) = m + 1
  <2>1. \A i \in 1 .. (m + 1) : path[i] \in Nat  BY <1>17, <1>19
  <2> QED  BY <1>20, <2>1, FunctionIsSeq
<1>22. path[1] = a
  <2>1. 1 \in 1 .. (m + 1) /\ 1 - 1 = 0  BY <1>2
  <2> QED  BY <1>10, <1>19, <2>1
<1>23. \A i \in 1 .. Len(path) : Distance(dev, path[i], b) = Len(path) - i
  <2> TAKE i \in 1 .. Len(path)
  <2>1. i \in 1 .. (m + 1)  BY <1>21
  <2>2. path[i] = hop[i - 1] /\ i - 1 \in 0 .. m /\ m - (i - 1) = (m + 1) - i  BY <1>19, <2>1
  <2>3. Distance(dev, hop[i - 1], b) = m - (i - 1)  BY <1>17, <2>2
  <2> QED  BY <1>21, <2>2, <2>3
<1>24. \A i \in 1 .. (Len(path) - 1) : Coupled(dev, path[i], path[i + 1])
  <2> TAKE i \in 1 .. (Len(path) - 1)
  <2>1. i \in 1 .. (m + 1) /\ i + 1 \in 1 .. (m + 1) /\ i - 1 \in 0 .. (m - 1) /\ (i - 1) + 1 = i /\ (i + 1) - 1 = i
    BY <1>2, <1>21
  <2>2. path[i] = hop[i - 1] /\ path[i + 1] = hop[i]  BY <1>19, <2>1
  <2>3. Coupled(dev, hop[i - 1], hop[(i - 1) + 1])  BY <1>18, <2>1
  <2> QED  BY <2>1, <2>2, <2>3
<1>25. path[Len(path)] = b
  <2> DEFINE x == path[Len(path)]
  <2>1. m + 1 \in 1 .. Len(path) /\ Len(path) - (m + 1) = 0  BY <1>2, <1>21
  <2>2. Distance(dev, x, b) = 0  BY <1>21, <1>23, <2>1
  <2> HIDE DEF x
  <2>3. 0 <= dev.size  BY <1>0
  <2>4. AtDistance(dev, b, Within(dev, b), x, 0)  BY <1>0, <2>2, <2>3, DistanceIs
  <2>5. x \in Within(dev, b)[0]  BY <2>4 DEF AtDistance
  <2>6. Within(dev, b)[0] = {b}  BY WithinIs DEF Rings
  <2> QED  BY <2>5, <2>6 DEF x
<1> QED  BY <1>1, <1>21, <1>22, <1>23, <1>24, <1>25, <1>d DEF IsPath

(***************************************************************************)
(* Routing: what is on a way, step by step.  next tells for a table and    *)
(* the number of an operation the table after it.                          *)
(***************************************************************************)
Steps(T_, L, next) == L \in Nat /\ next \in [T_ \X (1 .. L) -> T_]
ChainStep(T_, L, next, lo) == [s \in Nat \X T_ |-> IF lo + s[1] \in 1 .. L THEN next[<<s[2], lo + s[1]>>] ELSE s[2]]
Chain(T_, L, next, t, lo) == CHOOSE f : Recursion(T_, t, ChainStep(T_, L, next, lo), f)
IsChain(T_, L, next, t, lo, f) ==
    /\ f[0] = t
    /\ \A i \in Nat : f[i] \in T_
    /\ \A i \in Nat : lo + i \in 1 .. L => f[i + 1] = next[<<f[i], lo + i>>]
    /\ \A i \in Nat : lo + i \notin 1 .. L => f[i + 1] = f[i]
Segment(T_, L, next, t, lo, hi) == [i \in 1 .. ((hi - lo) + 1) |-> Chain(T_, L, next, t, lo)[i]]

LEMMA ChainIs ==
  ASSUME NEW T_, NEW L, NEW next, Steps(T_, L, next), NEW t \in T_, NEW lo \in 1 .. (L + 1)
  PROVE  IsChain(T_, L, next, t, lo, Chain(T_, L, next, t, lo))
<1> DEFINE step == ChainStep(T_, L, next, lo)
           f == Chain(T_, L, next, t, lo)
<1>1. \A i \in Nat, u \in T_ : step[<<i, u>>] = IF lo + i \in 1 .. L THEN next[<<u, lo + i>>] ELSE u
  <2> TAKE i \in Nat, u \in T_
  <2>1. <<i, u>> \in Nat \X T_ /\ <<i, u>>[1] = i /\ <<i, u>>[2] = u  OBVIOUS
  <2> QED  BY <2>1 DEF ChainStep
<1>a. f = CHOOSE g : Recursion(T_, t, step, g)  BY DEF Chain
<1> HIDE DEF step, f
<1>2. \A i \in Nat, u \in T_ : step[<<i, u>>] \in T_
  <2> TAKE i \in Nat, u \in T_
  <2>1. CASE lo + i \in 1 .. L
    <3>1. <<u, lo + i>> \in T_ \X (1 .. L)  BY <2>1
    <3>2. next[<<u, lo + i>>] \in T_  BY <3>1 DEF Steps
    <3> QED  BY <1>1, <2>1, <3>2
  <2>2. CASE lo + i \notin 1 .. L  BY <1>1, <2>2
  <2> QED  BY <2>1, <2>2
<1>3. \E g : Recursion(T_, t, step, g)  BY <1>2, NatRecursion
<1>4. Recursion(T_, t, step, f)  BY <1>3, <1>a
<1>5. f[0] = t /\ (\A i \in Nat : f[i] \in T_) /\ \A i \in Nat : f[i + 1] = step[<<i, f[i]>>]
  BY <1>4 DEF Recursion
<1>6. \A i \in Nat : lo + i \in 1 .. L => f[i + 1] = next[<<f[i], lo + i>>]  BY <1>1, <1>5
<1>7. \A i \in Nat : lo + i \notin 1 .. L => f[i + 1] = f[i]  BY <1>1, <1>5
<1> QED  BY <1>5, <1>6, <1>7 DEF IsChain, f

\* A chain that goes on from the middle of another is its rest.
LEMMA ChainShift ==
  ASSUME NEW T_, NEW L, NEW next, L \in Nat, NEW t, NEW lo \in 1 .. (L + 1), NEW f, IsChain(T_, L, next, t, lo, f),
         NEW d \in Nat, NEW g, IsChain(T_, L, next, f[d], lo + d, g)
  PROVE  \A i \in Nat : g[i] = f[d + i]
<1> DEFINE K == {i \in Nat : g[i] = f[d + i]}
<1>1. 0 \in K
  <2>1. d + 0 = d  OBVIOUS
  <2> QED  BY <2>1 DEF IsChain
<1>2. ASSUME NEW i \in K  PROVE i + 1 \in K
  <2>1. i \in Nat /\ g[i] = f[d + i] /\ d + i \in Nat /\ (lo + d) + i = lo + (d + i) /\ (d + i) + 1 = d + (i + 1)
    OBVIOUS
  <2>2. CASE lo + (d + i) \in 1 .. L
    <3>1. g[i + 1] = next[<<g[i], lo + (d + i)>>]  BY <2>1, <2>2 DEF IsChain
    <3>2. f[(d + i) + 1] = next[<<f[d + i], lo + (d + i)>>]  BY <2>1, <2>2 DEF IsChain
    <3> QED  BY <2>1, <3>1, <3>2
  <2>3. CASE lo + (d + i) \notin 1 .. L
    <3>1. g[i + 1] = g[i]  BY <2>1, <2>3 DEF IsChain
    <3>2. f[(d + i) + 1] = f[d + i]  BY <2>1, <2>3 DEF IsChain
    <3> QED  BY <2>1, <3>1, <3>2
  <2> QED  BY <2>2, <2>3
<1>3. K \in SUBSET Nat  OBVIOUS
<1>4. Nat \subseteq K
  <2> HIDE DEF K
  <2> QED  BY <1>1, <1>2, <1>3, Upwards
<1> QED  BY <1>4

IsSegment(T_, f, lo, hi, s) ==
    /\ s \in Seq(T_) /\ Len(s) = (hi - lo) + 1
    /\ \A i \in 1 .. ((hi - lo) + 1) : s[i] = f[i]
LEMMA SegmentSeq ==
  ASSUME NEW T_, NEW L, NEW next, Steps(T_, L, next), NEW t \in T_, NEW lo \in 1 .. (L + 1), NEW hi \in 0 .. L, lo <= hi + 1
  PROVE  IsSegment(T_, Chain(T_, L, next, t, lo), lo, hi, Segment(T_, L, next, t, lo, hi))
<1> DEFINE f == Chain(T_, L, next, t, lo)
           n == (hi - lo) + 1
           s == [i \in 1 .. n |-> f[i]]
<1>1. Segment(T_, L, next, t, lo, hi) = s  BY DEF Segment
<1>2. n \in Nat  BY DEF Steps
<1>3. \A i \in Nat : f[i] \in T_
  <2>1. IsChain(T_, L, next, t, lo, f)  BY ChainIs
  <2> HIDE DEF f
  <2> QED  BY <2>1 DEF IsChain
<1> HIDE DEF f, n
<1>4. s = [i \in 1 .. n |-> s[i]] /\ \A i \in 1 .. n : s[i] \in T_ /\ s[i] = f[i]  BY <1>2, <1>3
<1> HIDE DEF s
<1>5. s \in Seq(T_) /\ Len(s) = n  BY <1>2, <1>4, FunctionIsSeq
<1> QED  BY <1>1, <1>4, <1>5 DEF n, f, IsSegment

LEMMA SegmentNone ==
  ASSUME NEW T_, NEW L, NEW next, Steps(T_, L, next), NEW t \in T_, NEW lo \in 1 .. (L + 1), NEW hi \in 0 .. L, lo > hi
  PROVE  Segment(T_, L, next, t, lo, hi) = <<>>
<1> DEFINE f == Chain(T_, L, next, t, lo)
           n == (hi - lo) + 1
           s == [i \in 1 .. n |-> f[i]]
           z == 0
<1>1. Segment(T_, L, next, t, lo, hi) = s  BY DEF Segment
<1>2. 1 .. n = 1 .. z  BY DEF Steps
<1> HIDE DEF f, n
<1>3. s = [i \in 1 .. z |-> s[i]]  BY <1>2
<1>4. \A i \in 1 .. z : s[i] \in T_  OBVIOUS
<1> HIDE DEF s
<1>5. z \in Nat  OBVIOUS
<1>6. s \in Seq(T_) /\ Len(s) = z
  <2> HIDE DEF z
  <2> QED  BY <1>3, <1>4, <1>5, FunctionIsSeq
<1>7. s = <<>>  BY <1>6, EmptySeq
<1> QED  BY <1>1, <1>7

OneSegment(T_, L, next, t, k) == Segment(T_, L, next, t, k, k) = <<next[<<t, k>>]>>
LEMMA SegmentOne ==
  ASSUME NEW T_, NEW L, NEW next, Steps(T_, L, next), NEW t \in T_, NEW k \in 1 .. L
  PROVE  OneSegment(T_, L, next, t, k)
<1> DEFINE s == Segment(T_, L, next, t, k, k)
           f == Chain(T_, L, next, t, k)
           v == next[<<t, k>>]
           one == <<v>>
<1>0. L \in Nat  BY DEF Steps
<1>1. k \in 1 .. (L + 1) /\ k \in 0 .. L /\ k <= k + 1 /\ (k - k) + 1 = 1 /\ k + 0 = k /\ 0 \in Nat  BY <1>0
<1>s. IsSegment(T_, f, k, k, s)  BY <1>1, SegmentSeq
<1>3. IsChain(T_, L, next, t, k, f)  BY <1>1, ChainIs
<1> HIDE DEF s, f
<1>2. s \in Seq(T_) /\ Len(s) = (k - k) + 1 /\ \A i \in 1 .. ((k - k) + 1) : s[i] = f[i]  BY <1>s DEF IsSegment
<1>4. Len(s) = 1 /\ s[1] = f[1]  BY <1>1, <1>2
<1>5. f[0 + 1] = next[<<f[0], k + 0>>] /\ f[0] = t  BY <1>1, <1>3 DEF IsChain
<1>6. f[1] = v  BY <1>1, <1>5
<1>7. v \in T_
  <2>1. <<t, k>> \in T_ \X (1 .. L)  OBVIOUS
  <2> QED  BY <2>1 DEF Steps
<1> HIDE DEF v
<1>8. one \in Seq(T_) /\ Len(one) = 1 /\ one[1] = v  BY <1>7, SeqSingle
<1> HIDE DEF one
<1>9. \A i \in 1 .. Len(s) : s[i] = one[i]
  <2> TAKE i \in 1 .. Len(s)
  <2>1. i = 1  BY <1>4
  <2> QED  BY <1>4, <1>6, <1>8, <2>1
<1>10. s = one  BY <1>2, <1>4, <1>8, <1>9, SeqEqual
<1> QED  BY <1>10 DEF s, one, v, OneSegment

TwoSegments(T_, L, next, t, lo, hi, mid) ==
    /\ Last(Segment(T_, L, next, t, lo, mid)) \in T_
    /\ Segment(T_, L, next, t, lo, mid)
          \o Segment(T_, L, next, Last(Segment(T_, L, next, t, lo, mid)), mid + 1, hi)
         = Segment(T_, L, next, t, lo, hi)
LEMMA SegmentTwo ==
  ASSUME NEW T_, NEW L, NEW next, Steps(T_, L, next), NEW t \in T_, NEW lo \in 1 .. L, NEW hi \in 1 .. L,
         NEW mid \in lo .. hi, mid < hi
  PROVE  TwoSegments(T_, L, next, t, lo, hi, mid)
<1> DEFINE u == Segment(T_, L, next, t, lo, mid)
           f == Chain(T_, L, next, t, lo)
           d == (mid - lo) + 1
           y == f[d]
           v == Segment(T_, L, next, y, mid + 1, hi)
           w == Segment(T_, L, next, t, lo, hi)
           g == Chain(T_, L, next, y, mid + 1)
<1>0. L \in Nat  BY DEF Steps
<1>1. /\ lo \in 1 .. (L + 1) /\ mid \in 0 .. L /\ lo <= mid + 1 /\ hi \in 0 .. L /\ lo <= hi + 1
      /\ mid + 1 \in 1 .. (L + 1) /\ mid + 1 <= hi + 1 /\ d \in Nat /\ d >= 1 /\ lo + d = mid + 1
  BY <1>0
<1>p. IsSegment(T_, f, lo, mid, u)  BY <1>1, SegmentSeq
<1>q. IsSegment(T_, f, lo, hi, w)  BY <1>1, SegmentSeq
<1>4. IsChain(T_, L, next, t, lo, f)  BY <1>1, ChainIs
<1>5. y \in T_
  <2> HIDE DEF f
  <2> QED  BY <1>1, <1>4 DEF IsChain
<1>a. d = (mid - lo) + 1  OBVIOUS
<1>b. y = f[d]  OBVIOUS
<1> HIDE DEF u, w, f
<1>2. u \in Seq(T_) /\ Len(u) = d /\ \A i \in 1 .. d : u[i] = f[i]  BY <1>p DEF IsSegment
<1>3. w \in Seq(T_) /\ Len(w) = (hi - lo) + 1 /\ \A i \in 1 .. ((hi - lo) + 1) : w[i] = f[i]  BY <1>q DEF IsSegment
<1> HIDE DEF d
<1>6. Last(u) = y
  <2>1. d \in 1 .. d  BY <1>1
  <2> QED  BY <1>2, <2>1 DEF Last
<1> HIDE DEF y
<1>r. IsSegment(T_, g, mid + 1, hi, v)  BY <1>1, <1>5, SegmentSeq
<1>8. IsChain(T_, L, next, y, mid + 1, g)  BY <1>1, <1>5, ChainIs
<1> HIDE DEF v, g
<1>7. v \in Seq(T_) /\ Len(v) = (hi - (mid + 1)) + 1 /\ \A i \in 1 .. ((hi - (mid + 1)) + 1) : v[i] = g[i]
  BY <1>r DEF IsSegment
<1>9. \A i \in Nat : g[i] = f[d + i]
  <2>1. IsChain(T_, L, next, f[d], lo + d, g)  BY <1>1, <1>8, <1>b
  <2> QED  BY <1>0, <1>1, <1>4, <2>1, ChainShift
<1> DEFINE r == u \o v
           e == (hi - (mid + 1)) + 1
<1>10. e \in Nat /\ d + e = (hi - lo) + 1  BY <1>0, <1>a
<1> HIDE DEF e
<1>11. Len(v) = e /\ \A i \in 1 .. e : v[i] = g[i]  BY <1>7 DEF e
<1>12. /\ r \in Seq(T_) /\ Len(r) = d + e
       /\ \A i \in 1 .. (d + e) : r[i] = IF i <= d THEN u[i] ELSE v[i - d]
  BY <1>2, <1>7, <1>11, ConcatProperties
<1> HIDE DEF r
<1>13. ASSUME NEW i \in 1 .. (d + e)  PROVE r[i] = w[i]
  <2>1. w[i] = f[i]  BY <1>3, <1>10
  <2>2. CASE i <= d
    <3>1. i \in 1 .. d  BY <1>1, <1>10, <2>2
    <3> QED  BY <1>2, <1>12, <2>1, <2>2, <3>1
  <2>3. CASE ~(i <= d)
    <3>1. i - d \in 1 .. e /\ i - d \in Nat /\ d + (i - d) = i  BY <1>1, <1>10, <2>3
    <3>2. r[i] = v[i - d] /\ v[i - d] = g[i - d] /\ g[i - d] = f[d + (i - d)]  BY <1>9, <1>11, <1>12, <2>3, <3>1
    <3> QED  BY <2>1, <3>1, <3>2
  <2> QED  BY <2>2, <2>3
<1>14. r = w
  <2>1. Len(r) = Len(w) /\ \A i \in 1 .. Len(r) : r[i] = w[i]  BY <1>3, <1>10, <1>12, <1>13
  <2> QED  BY <1>3, <1>12, <2>1, SeqEqual
<1> QED  BY <1>5, <1>6, <1>14 DEF r, u, v, w, y, TwoSegments

\* The places after each of the operations, one after another.
Following(dev, p) ==
    [s \in [1 .. p.wires -> 0 .. (p.wires - 1)] \X (1 .. Len(p.ops)) |-> PlacesAfter(dev, s[1], p.ops[s[2]])]

LEMMA PlacesSegment ==
  ASSUME NEW dev, NEW p, NEW T_, T_ = [1 .. p.wires -> 0 .. (p.wires - 1)],
         Steps(T_, Len(p.ops), Following(dev, p)), Upto(p.wires) \in T_
  PROVE  Places(dev, p) = <<Upto(p.wires)>> \o Segment(T_, Len(p.ops), Following(dev, p), Upto(p.wires), 1, Len(p.ops))
<1> DEFINE n == p.wires
           L == Len(p.ops)
           next == Following(dev, p)
           D == T_ \X (1 .. (L + 1)) \X (0 .. L)
           Y(t, k) == <<PlacesAfter(dev, t, p.ops[k])>>
           E(f, s) == IF s[2] > s[3] THEN <<>>
                      ELSE IF s[2] = s[3] THEN <<PlacesAfter(dev, s[1], p.ops[s[2]])>>
                      ELSE LET mid == (s[2] + s[3]) \div 2
                               first == f[<<s[1], s[2], mid>>]
                           IN  first \o f[<<Last(first), mid + 1, s[3]>>]
           places == CHOOSE f : f = [s \in D |-> E(f, s)]
           G(t, lo, hi) == Segment(T_, L, next, t, lo, hi)
           g == [s \in D |-> G(s[1], s[2], s[3])]
<1>1. Places(dev, p) = <<Upto(n)>> \o places[<<Upto(n), 1, L>>]  BY DEF Places
<1>a. L \in Nat  BY DEF Steps
<1>t. \A t \in T_, k \in 1 .. L : next[<<t, k>>] = PlacesAfter(dev, t, p.ops[k])
  <2> TAKE t \in T_, k \in 1 .. L
  <2>1. <<t, k>> \in [1 .. p.wires -> 0 .. (p.wires - 1)] \X (1 .. Len(p.ops)) /\ <<t, k>>[1] = t /\ <<t, k>>[2] = k
    OBVIOUS
  <2> QED  BY <2>1 DEF Following
<1>s. Steps(T_, L, next)  OBVIOUS
<1>u. Upto(n) \in T_  OBVIOUS
<1> DEFINE Right(f, t, lo, hi, y) ==
             /\ lo > hi => y = <<>>
             /\ ~(lo > hi) /\ lo = hi => y = Y(t, lo)
             /\ ~(lo > hi) /\ lo # hi =>
                  y = f[<<t, lo, (lo + hi) \div 2>>]
                        \o f[<<Last(f[<<t, lo, (lo + hi) \div 2>>]), ((lo + hi) \div 2) + 1, hi>>]
<1>b. ASSUME NEW f, NEW t, NEW lo, NEW hi, NEW s, s[1] = t, s[2] = lo, s[3] = hi
      PROVE  Right(f, t, lo, hi, E(f, s))
  BY <1>b, Zenon
<1> HIDE DEF next, L, Y, n
<1>2. ASSUME NEW t \in T_, NEW lo \in 1 .. (L + 1), NEW hi \in 0 .. L, lo > hi
      PROVE  G(t, lo, hi) = <<>>
  BY <1>s, <1>2, SegmentNone
<1>3. ASSUME NEW t \in T_, NEW lo \in 1 .. L
      PROVE  G(t, lo, lo) = Y(t, lo)
  <2>1. OneSegment(T_, L, next, t, lo)  BY <1>s, SegmentOne
  <2>2. G(t, lo, lo) = <<next[<<t, lo>>]>>  BY <2>1 DEF OneSegment
  <2> QED  BY <1>t, <2>2 DEF Y
<1> DEFINE M(lo, hi) == (lo + hi) \div 2
           Halves(t, lo, hi, mid) ==
             /\ mid \in 0 .. L /\ mid + 1 \in 1 .. (L + 1) /\ lo <= mid /\ mid < hi
             /\ Last(G(t, lo, mid)) \in T_
             /\ G(t, lo, mid) \o G(Last(G(t, lo, mid)), mid + 1, hi) = G(t, lo, hi)
<1>4. ASSUME NEW t \in T_, NEW lo \in 1 .. (L + 1), NEW hi \in 0 .. L, lo < hi
      PROVE  Halves(t, lo, hi, M(lo, hi))
  <2> DEFINE mid == M(lo, hi)
  <2>1. mid \in lo .. hi /\ mid < hi /\ mid \in Nat  BY <1>4
  <2> HIDE DEF mid
  <2>2. lo \in 1 .. L /\ hi \in 1 .. L /\ mid \in 0 .. L /\ mid + 1 \in 1 .. (L + 1) /\ lo <= mid  BY <1>a, <1>4, <2>1
  <2>3. TwoSegments(T_, L, next, t, lo, hi, mid)  BY <1>s, <2>1, <2>2, SegmentTwo
  <2>4. Halves(t, lo, hi, mid)  BY <2>1, <2>2, <2>3 DEF TwoSegments
  <2> HIDE DEF Halves, M
  <2> QED  BY <2>4 DEF mid
<1>z. \A t \in T_, i \in 1 .. (L + 1), j \in 0 .. L : g[<<t, i, j>>] = G(t, i, j)
  <2> TAKE t \in T_, i \in 1 .. (L + 1), j \in 0 .. L
  <2>1. <<t, i, j>> \in D /\ <<t, i, j>>[1] = t /\ <<t, i, j>>[2] = i /\ <<t, i, j>>[3] = j  OBVIOUS
  <2> HIDE DEF G, D
  <2> QED  BY <2>1
<1> HIDE DEF G, Halves, M
<1>5. \A s \in D : g[s] = E(g, s)
  <2> TAKE s \in D
  <2>1. PICK t \in T_, lo \in 1 .. (L + 1), hi \in 0 .. L : s = <<t, lo, hi>>  OBVIOUS
  <2>2. s[1] = t /\ s[2] = lo /\ s[3] = hi /\ g[s] = G(t, lo, hi)  BY <2>1, <1>z
  <2>3. Right(g, t, lo, hi, E(g, s))
    <3> HIDE DEF g, E, Right
    <3> QED  BY <1>b, <2>2, Zenon
  <2> HIDE DEF g, E
  <2>4. CASE lo > hi
    <3>1. G(t, lo, hi) = <<>>  BY <1>2, <2>4
    <3> QED  BY <2>2, <2>3, <2>4, <3>1
  <2>5. CASE lo = hi
    <3>1. lo \in 1 .. L /\ ~(lo > hi)  BY <2>5
    <3>2. G(t, lo, lo) = Y(t, lo)  BY <1>3, <3>1
    <3> QED  BY <2>2, <2>3, <2>5, <3>1, <3>2
  <2>6. CASE lo < hi
    <3> DEFINE mid == M(lo, hi)
    <3>0. ~(lo > hi) /\ lo # hi  BY <2>6
    <3>1. Halves(t, lo, hi, mid)  BY <1>4, <2>6
    <3>2. E(g, s) = g[<<t, lo, mid>>] \o g[<<Last(g[<<t, lo, mid>>]), mid + 1, hi>>]  BY <2>3, <3>0 DEF M
    <3> HIDE DEF mid, Right
    <3>3. /\ mid \in 0 .. L /\ mid + 1 \in 1 .. (L + 1) /\ Last(G(t, lo, mid)) \in T_
          /\ G(t, lo, mid) \o G(Last(G(t, lo, mid)), mid + 1, hi) = G(t, lo, hi)
      BY <3>1 DEF Halves
    <3>4. g[<<t, lo, mid>>] = G(t, lo, mid)  BY <1>z, <3>3
    <3>5. g[<<Last(G(t, lo, mid)), mid + 1, hi>>] = G(Last(G(t, lo, mid)), mid + 1, hi)  BY <1>z, <3>3
    <3> QED  BY <2>2, <3>2, <3>3, <3>4, <3>5
  <2> QED  BY <1>a, <2>4, <2>5, <2>6
<1>6. g = [s \in D |-> E(g, s)]
  <2>1. g = [s \in D |-> g[s]]  OBVIOUS
  <2> HIDE DEF g, E, D
  <2> QED  BY <1>5, <2>1
<1>7. places = [s \in D |-> E(places, s)]
  <2> HIDE DEF g, E, D
  <2> QED  BY <1>6
<1> DEFINE K == {d \in Nat : \A t \in T_, lo \in 1 .. (L + 1), hi \in 0 .. L :
                                hi - lo <= d => places[<<t, lo, hi>>] = G(t, lo, hi)}
<1> HIDE DEF places, g
<1>8. ASSUME NEW t \in T_, NEW lo \in 1 .. (L + 1), NEW hi \in 0 .. L
      PROVE  Right(places, t, lo, hi, places[<<t, lo, hi>>])
  <2>1. /\ <<t, lo, hi>> \in D /\ <<t, lo, hi>>[1] = t /\ <<t, lo, hi>>[2] = lo /\ <<t, lo, hi>>[3] = hi
    OBVIOUS
  <2>2. places[<<t, lo, hi>>] = E(places, <<t, lo, hi>>)
    <3> HIDE DEF E, D
    <3> QED  BY <1>7, <2>1
  <2>3. Right(places, t, lo, hi, E(places, <<t, lo, hi>>))
    <3> HIDE DEF E, Right
    <3> QED  BY <1>b, <2>1, Zenon
  <2> HIDE DEF E, D, Right
  <2> QED  BY <2>2, <2>3
<1>9. ASSUME NEW t \in T_, NEW lo \in 1 .. (L + 1), NEW hi \in 0 .. L, lo >= hi
      PROVE  places[<<t, lo, hi>>] = G(t, lo, hi)
  <2>0. Right(places, t, lo, hi, places[<<t, lo, hi>>])
    <3> HIDE DEF Right
    <3> QED  BY <1>8
  <2>1. CASE lo > hi
    <3>1. places[<<t, lo, hi>>] = <<>>  BY <2>0, <2>1
    <3> QED  BY <1>2, <2>1, <3>1
  <2>2. CASE lo = hi
    <3>1. lo \in 1 .. L /\ ~(lo > hi)  BY <2>2
    <3>2. places[<<t, lo, hi>>] = Y(t, lo)  BY <2>0, <2>2, <3>1
    <3> QED  BY <1>3, <2>2, <3>1, <3>2
  <2> QED  BY <1>9, <2>1, <2>2
<1>10. 0 \in K
  <2>1. ASSUME NEW t \in T_, NEW lo \in 1 .. (L + 1), NEW hi \in 0 .. L, hi - lo <= 0
        PROVE  places[<<t, lo, hi>>] = G(t, lo, hi)
    <3>1. lo >= hi  BY <2>1
    <3> QED  BY <1>9, <3>1
  <2> QED  BY <2>1
<1>11. ASSUME NEW d \in K  PROVE d + 1 \in K
  <2>0. d \in Nat /\ \A t \in T_, lo \in 1 .. (L + 1), hi \in 0 .. L :
                        hi - lo <= d => places[<<t, lo, hi>>] = G(t, lo, hi)
    OBVIOUS
  <2>1. ASSUME NEW t \in T_, NEW lo \in 1 .. (L + 1), NEW hi \in 0 .. L, hi - lo <= d + 1
        PROVE  places[<<t, lo, hi>>] = G(t, lo, hi)
    <3>1. CASE lo >= hi  BY <1>9, <3>1
    <3>2. CASE lo < hi
      <4> DEFINE mid == M(lo, hi)
      <4>1. Halves(t, lo, hi, mid)  BY <1>4, <3>2
      <4>0. Right(places, t, lo, hi, places[<<t, lo, hi>>])
        <5> HIDE DEF Right
        <5> QED  BY <1>8
      <4>2. places[<<t, lo, hi>>] = places[<<t, lo, mid>>] \o places[<<Last(places[<<t, lo, mid>>]), mid + 1, hi>>]
        <5>1. ~(lo > hi) /\ lo # hi  BY <3>2
        <5> QED  BY <4>0, <5>1 DEF M
      <4> HIDE DEF mid, Right
      <4>3. /\ mid \in 0 .. L /\ mid + 1 \in 1 .. (L + 1) /\ Last(G(t, lo, mid)) \in T_
            /\ G(t, lo, mid) \o G(Last(G(t, lo, mid)), mid + 1, hi) = G(t, lo, hi) /\ lo <= mid /\ mid < hi
        BY <4>1 DEF Halves
      <4>4. mid - lo <= d /\ hi - (mid + 1) <= d  BY <1>a, <2>0, <2>1, <4>3
      <4>5. places[<<t, lo, mid>>] = G(t, lo, mid)  BY <2>0, <4>3, <4>4
      <4>6. places[<<Last(G(t, lo, mid)), mid + 1, hi>>] = G(Last(G(t, lo, mid)), mid + 1, hi)  BY <2>0, <4>3, <4>4
      <4> QED  BY <4>2, <4>3, <4>5, <4>6
    <3> QED  BY <3>1, <3>2
  <2> HIDE DEF K
  <2> QED  BY <2>0, <2>1 DEF K
<1>12. K \in SUBSET Nat  OBVIOUS
<1>13. Nat \subseteq K
  <2> HIDE DEF K
  <2> QED  BY <1>10, <1>11, <1>12, Upwards
<1>14. places[<<Upto(n), 1, L>>] = G(Upto(n), 1, L)
  <2>1. L \in K /\ 1 \in 1 .. (L + 1) /\ L \in 0 .. L /\ L - 1 <= L  BY <1>a, <1>13
  <2> QED  BY <1>u, <2>1
<1> QED  BY <1>1, <1>14 DEF G, n, L, next

(***************************************************************************)
(* Routing: where the wires are after the swaps along a path               *)
(***************************************************************************)
Tables_(n) == [1 .. n -> 0 .. (n - 1)]
Layouts(n) == {t \in Tables_(n) : IsInjective(t)}

IsSwapped(n, t, a, b, u) ==
    /\ u \in Tables_(n)
    /\ \A w \in 1 .. n : u[w] = IF t[w] = a THEN b ELSE IF t[w] = b THEN a ELSE t[w]
    /\ t \in Layouts(n) => u \in Layouts(n)
LEMMA SwappedIs ==
  ASSUME NEW n \in Nat, NEW t \in Tables_(n), NEW a \in 0 .. (n - 1), NEW b \in 0 .. (n - 1)
  PROVE  IsSwapped(n, t, a, b, Swapped(t, a, b))
<1> DEFINE u == Swapped(t, a, b)
           D == 1 .. n
           V == 0 .. (n - 1)
           x(w) == IF t[w] = a THEN b ELSE IF t[w] = b THEN a ELSE t[w]
<1>0. t \in [D -> V] /\ a \in V /\ b \in V  BY DEF Tables_
<1> HIDE DEF D, V
<1>1. DOMAIN t = D /\ \A w \in D : t[w] \in V  BY <1>0
<1>2. u = [w \in D |-> x(w)]  BY <1>1 DEF Swapped
<1> HIDE DEF u
<1>3. \A w \in D : x(w) \in V  BY <1>0, <1>1
<1>4. u \in [D -> V] /\ DOMAIN u = D /\ \A w \in D : u[w] = x(w)
  <2> HIDE DEF x
  <2> QED  BY <1>2, <1>3
<1>5. u \in Tables_(n)  BY <1>4 DEF Tables_, D, V
<1>6. ASSUME IsInjective(t)  PROVE IsInjective(u)
  <2>1. \A v, w \in D : t[v] = t[w] => v = w  BY <1>1, <1>6 DEF IsInjective
  <2>2. ASSUME NEW v \in D, NEW w \in D, u[v] = u[w]  PROVE v = w
    <3>1. x(v) = x(w)  BY <1>4, <2>2
    <3>2. t[v] = t[w]  BY <3>1
    <3> QED  BY <2>1, <3>2
  <2> QED  BY <1>4, <2>2 DEF IsInjective
<1> QED  BY <1>4, <1>5, <1>6 DEF IsSwapped, Layouts, D, u

\* The tables from swap to swap.
SwapChain(t, path, f) ==
    /\ f[0] = t /\ f[1] = t
    /\ \A i \in Nat \ {0} : f[i + 1] = Swapped(f[i], path[i], path[i + 1])
LEMMA AfterSwapsIs ==
  ASSUME NEW n \in Nat, NEW t \in Tables_(n), NEW path, Len(path) \in Nat \ {0}
  PROVE  \E f : SwapChain(t, path, f) /\ AfterSwaps(t, path) = f[Len(path) - 1]
<1> DEFINE E(f, i) == IF i < 2 THEN t ELSE Swapped(f[i - 1], path[i - 1], path[i])
           after == CHOOSE f : f = [i \in Nat |-> E(f, i)]
           D == 1 .. n
           V == (0 .. (n - 1)) \cup {path[i] : i \in Nat}
           S == [D -> V]
           step == [s \in Nat \X S |-> IF s[1] = 0 THEN t ELSE Swapped(s[2], path[s[1]], path[s[1] + 1])]
<1>1. AfterSwaps(t, path) = after[Len(path) - 1]  BY DEF AfterSwaps
<1>2. t \in S
  <2>1. t \in [D -> 0 .. (n - 1)]  BY DEF Tables_
  <2> DEFINE P == 0 .. (n - 1)
             R == {path[i] : i \in Nat}
  <2>2. t \in [D -> P]  BY <2>1
  <2> HIDE DEF P, R, D
  <2>3. t \in [D -> P \cup R]  BY <2>2
  <2> QED  BY <2>3 DEF P, R
<1>3. \A i \in Nat, u \in S : step[<<i, u>>] = IF i = 0 THEN t ELSE Swapped(u, path[i], path[i + 1])
  <2> TAKE i \in Nat, u \in S
  <2> HIDE DEF S
  <2>1. <<i, u>> \in Nat \X S /\ <<i, u>>[1] = i /\ <<i, u>>[2] = u  OBVIOUS
  <2> QED  BY <2>1
<1> HIDE DEF step
<1>4. \A i \in Nat, u \in S : Swapped(u, path[i], path[i + 1]) \in S
  <2> TAKE i \in Nat, u \in S
  <2>1. path[i] \in V /\ path[i + 1] \in V  OBVIOUS
  <2> DEFINE a == path[i]
             b == path[i + 1]
  <2> HIDE DEF V, a, b, D
  <2>2. DOMAIN u = D /\ \A w \in D : u[w] \in V  OBVIOUS
  <2>3. Swapped(u, a, b) = [w \in D |-> IF u[w] = a THEN b ELSE IF u[w] = b THEN a ELSE u[w]]  BY <2>2 DEF Swapped
  <2>4. Swapped(u, a, b) \in S  BY <2>1, <2>2, <2>3 DEF a, b
  <2> QED  BY <2>4 DEF a, b
<1>5. \A i \in Nat, u \in S : step[<<i, u>>] \in S
  <2> HIDE DEF S
  <2> QED  BY <1>2, <1>3, <1>4
<1> HIDE DEF S
<1>6. PICK g : Recursion(S, t, step, g)  BY <1>2, <1>5, NatRecursion
<1>7. /\ g[0] = t /\ (\A i \in Nat : g[i] \in S) /\ \A i \in Nat : g[i + 1] = step[<<i, g[i]>>]
      /\ g = [i \in Nat |-> g[i]]
  BY <1>6 DEF Recursion
<1>8. g[1] = t
  <2>1. 0 \in Nat /\ 0 + 1 = 1  OBVIOUS
  <2>2. g[0 + 1] = step[<<0, g[0]>>] /\ step[<<0, g[0]>>] = t  BY <1>3, <1>7, <2>1
  <2> QED  BY <2>1, <2>2
<1>9. \A i \in Nat \ {0} : g[i + 1] = Swapped(g[i], path[i], path[i + 1])  BY <1>3, <1>7
<1>10. g = [i \in Nat |-> E(g, i)]
  <2>1. \A i \in Nat : g[i] = E(g, i)
    <3> TAKE i \in Nat
    <3>1. CASE i = 0 \/ i = 1  BY <1>7, <1>8, <3>1
    <3>2. CASE ~(i = 0 \/ i = 1)
      <4>1. i - 1 \in Nat \ {0} /\ (i - 1) + 1 = i /\ ~(i < 2)  BY <3>2
      <4>2. g[(i - 1) + 1] = Swapped(g[i - 1], path[i - 1], path[(i - 1) + 1])  BY <1>9, <4>1
      <4> QED  BY <4>1, <4>2
    <3> QED  BY <3>1, <3>2
  <2> HIDE DEF E
  <2> QED  BY <1>7, <2>1
<1>11. after = [i \in Nat |-> E(after, i)]
  <2> HIDE DEF E
  <2> QED  BY <1>10
<1> HIDE DEF after
<1>12. \A i \in Nat : after[i] = E(after, i)
  <2> HIDE DEF E
  <2> QED  BY <1>11
<1>13. after[0] = t /\ after[1] = t
  <2>1. 0 \in Nat /\ 1 \in Nat /\ 0 < 2 /\ 1 < 2  OBVIOUS
  <2> QED  BY <1>12, <2>1
<1>14. ASSUME NEW i \in Nat \ {0}  PROVE after[i + 1] = Swapped(after[i], path[i], path[i + 1])
  <2>1. i + 1 \in Nat /\ ~(i + 1 < 2) /\ (i + 1) - 1 = i  OBVIOUS
  <2>2. after[i + 1] = E(after, i + 1)
    <3> HIDE DEF E
    <3> QED  BY <1>12, <2>1
  <2> QED  BY <2>1, <2>2
<1>15. SwapChain(t, path, after)  BY <1>13, <1>14 DEF SwapChain
<1> QED  BY <1>1, <1>15

LEMMA SwapsKeep ==
  ASSUME NEW n \in Nat, NEW t \in Tables_(n), NEW path, NEW m \in Nat \ {0},
         \A i \in 1 .. (m - 1) : path[i] \in 0 .. (n - 1), NEW f, SwapChain(t, path, f)
  PROVE  /\ \A i \in 0 .. (m - 1) : f[i] \in Tables_(n) /\ (t \in Layouts(n) => f[i] \in Layouts(n))
         /\ \A i \in 1 .. (m - 2) : IsSwapped(n, f[i], path[i], path[i + 1], f[i + 1])
<1> DEFINE Good(u) == u \in Tables_(n) /\ (t \in Layouts(n) => u \in Layouts(n))
           K == {i \in Nat : i <= m - 1 => Good(f[i])}
<1>1. Good(t)  OBVIOUS
<1>2. 0 \in K  BY <1>1 DEF SwapChain
<1>3. ASSUME NEW i \in Nat, i # 0, i + 1 <= m - 1, Good(f[i])
      PROVE  IsSwapped(n, f[i], path[i], path[i + 1], f[i + 1])
  <2>1. f[i + 1] = Swapped(f[i], path[i], path[i + 1])  BY <1>3 DEF SwapChain
  <2>2. path[i] \in 0 .. (n - 1) /\ path[i + 1] \in 0 .. (n - 1)
    <3>1. i \in 1 .. (m - 1) /\ i + 1 \in 1 .. (m - 1)  BY <1>3
    <3> QED  BY <3>1
  <2>3. IsSwapped(n, f[i], path[i], path[i + 1], Swapped(f[i], path[i], path[i + 1]))  BY <1>3, <2>2, SwappedIs
  <2> QED  BY <2>1, <2>3
<1>4. ASSUME NEW i \in K  PROVE i + 1 \in K
  <2> SUFFICES ASSUME i + 1 <= m - 1  PROVE Good(f[i + 1])  OBVIOUS
  <2>1. i \in Nat /\ Good(f[i])  OBVIOUS
  <2>2. CASE i = 0
    <3>1. f[1] = t /\ 0 + 1 = 1  BY DEF SwapChain
    <3> HIDE DEF Good
    <3> QED  BY <1>1, <2>2, <3>1
  <2>3. CASE i # 0
    <3>1. IsSwapped(n, f[i], path[i], path[i + 1], f[i + 1])
      <4> HIDE DEF Good
      <4> QED  BY <1>3, <2>1, <2>3
    <3> QED  BY <2>1, <3>1 DEF IsSwapped
  <2> QED  BY <2>2, <2>3
<1>5. K \in SUBSET Nat  OBVIOUS
<1>6. Nat \subseteq K
  <2> HIDE DEF K
  <2> QED  BY <1>2, <1>4, <1>5, Upwards
<1>7. \A i \in 0 .. (m - 1) : Good(f[i])
  <2> TAKE i \in 0 .. (m - 1)
  <2>1. i \in K /\ i <= m - 1  BY <1>6
  <2> QED  BY <2>1
<1>8. ASSUME NEW i \in 1 .. (m - 2)  PROVE IsSwapped(n, f[i], path[i], path[i + 1], f[i + 1])
  <2>1. i \in Nat /\ i # 0 /\ i + 1 <= m - 1 /\ i \in 0 .. (m - 1)  OBVIOUS
  <2>2. Good(f[i])
    <3> HIDE DEF Good
    <3> QED  BY <1>7, <2>1
  <2> HIDE DEF Good
  <2> QED  BY <1>3, <2>1, <2>2
<1> QED  BY <1>7, <1>8

\* The first wire is carried along the path, the second stays where it is.
LEMMA SwapsCarry ==
  ASSUME NEW n \in Nat, NEW t \in Tables_(n), NEW path, NEW m \in Nat, m >= 2,
         \A i \in 1 .. (m - 1) : path[i] \in 0 .. (n - 1) /\ path[i] # path[m], NEW f, SwapChain(t, path, f),
         NEW v \in 1 .. n, NEW w \in 1 .. n, t[v] = path[1], t[w] = path[m]
  PROVE  f[m - 1][v] = path[m - 1] /\ f[m - 1][w] = path[m]
<1> DEFINE K == {i \in Nat : i + 1 <= m - 1 => f[i + 1][v] = path[i + 1] /\ f[i + 1][w] = path[m]}
<1>1. 0 \in K
  <2>1. f[1] = t /\ 0 + 1 = 1  BY DEF SwapChain
  <2> QED  BY <2>1
<1>2. ASSUME NEW i \in K  PROVE i + 1 \in K
  <2> SUFFICES ASSUME (i + 1) + 1 <= m - 1
               PROVE  f[(i + 1) + 1][v] = path[(i + 1) + 1] /\ f[(i + 1) + 1][w] = path[m]
    OBVIOUS
  <2> DEFINE j == i + 1
  <2>1. j \in 1 .. (m - 2) /\ j \in 1 .. (m - 1) /\ j + 1 \in 1 .. (m - 1) /\ m \in Nat \ {0}  OBVIOUS
  <2>2. f[j][v] = path[j] /\ f[j][w] = path[m]  OBVIOUS
  <2> HIDE DEF j
  <2>3. IsSwapped(n, f[j], path[j], path[j + 1], f[j + 1])  BY <2>1, SwapsKeep
  <2>4. \A x \in 1 .. n : f[j + 1][x] = IF f[j][x] = path[j] THEN path[j + 1]
                                         ELSE IF f[j][x] = path[j + 1] THEN path[j] ELSE f[j][x]
    BY <2>3 DEF IsSwapped
  <2>5. path[j] # path[m] /\ path[j + 1] # path[m]  BY <2>1
  <2>6. f[j + 1][v] = path[j + 1] /\ f[j + 1][w] = path[m]  BY <2>2, <2>4, <2>5
  <2> QED  BY <2>6 DEF j
<1>3. K \in SUBSET Nat  OBVIOUS
<1>4. Nat \subseteq K
  <2> HIDE DEF K
  <2> QED  BY <1>1, <1>2, <1>3, Upwards
<1>5. m - 2 \in K /\ (m - 2) + 1 = m - 1  BY <1>4
<1> QED  BY <1>5

(***************************************************************************)
(* Routing: one operation                                                  *)
(***************************************************************************)
OnCoupling(dev, o) == o.op = "gate" /\ Len(o.wires) = 2 => Coupled(dev, o.wires[1], o.wires[2])
RoutedOps(dev, Q) == {o \in StandardOps(Q) : OnCoupling(dev, o)}

LEMMA MovedStandard ==
  ASSUME NEW n \in Nat, NEW t \in Layouts(n), NEW o \in StandardOps(0 .. (n - 1))
  PROVE  /\ Moved(o, t) \in StandardOps(0 .. (n - 1))
         /\ Moved(o, t).op = o.op /\ Len(Moved(o, t).wires) = Len(o.wires)
         /\ \A i \in 1 .. Len(o.wires) : Moved(o, t).wires[i] = t[o.wires[i] + 1]
<1> DEFINE Q == 0 .. (n - 1)
           w == o.wires
           L == Len(w)
           u == [i \in 1 .. L |-> t[w[i] + 1]]
           r == Moved(o, t)
<1>1. t \in [1 .. n -> Q] /\ IsInjective(t)  BY DEF Layouts, Tables_
<1>2. o \in Operations /\ IsStandard(Q, o)  BY DEF StandardOps
<1>3. w \in Seq(Q) /\ IsInjective(w)  BY <1>2 DEF IsStandard
<1>4. L \in Nat /\ DOMAIN w = 1 .. L /\ \A i \in 1 .. L : w[i] \in Q  BY <1>3, LenProperties, ElementOfSeq
<1>o. o.op \in Kinds /\ o.name \in Names /\ o.args \in Seq(Int) /\ o.sub \in Names  BY <1>2 DEF Operations
<1>5. \A i \in 1 .. L : w[i] + 1 \in 1 .. n
  <2> TAKE i \in 1 .. L
  <2>1. w[i] \in 0 .. (n - 1)  BY <1>4
  <2> HIDE DEF w
  <2> QED  BY <2>1
<1>6. r = [o EXCEPT !.wires = [i \in DOMAIN w |-> t[w[i] + 1]]]  BY DEF Moved
<1>7. r = [op |-> o.op, name |-> o.name, wires |-> u, args |-> o.args, sub |-> o.sub]
  <2>1. r = [o EXCEPT !.wires = u]  BY <1>4, <1>6
  <2> DEFINE W == u
  <2> HIDE DEF W, r
  <2>2. r = [o EXCEPT !.wires = W]  BY <2>1 DEF W
  <2>3. \E a \in Kinds, b \in Names, c \in Seq(Nat), d \in Seq(Int), e \in Names :
           o = [op |-> a, name |-> b, wires |-> c, args |-> d, sub |-> e]
    BY <1>2 DEF Operations
  <2>4. r = [op |-> o.op, name |-> o.name, wires |-> W, args |-> o.args, sub |-> o.sub]  BY <2>2, <2>3
  <2> QED  BY <2>4 DEF W
<1> HIDE DEF r
<1>8. r.op = o.op /\ r.name = o.name /\ r.wires = u /\ r.args = o.args /\ r.sub = o.sub  BY <1>7
<1> HIDE DEF w, L, Q
<1>9. \A i \in 1 .. L : u[i] = t[w[i] + 1] /\ u[i] \in Q  BY <1>1, <1>5
<1>10. u = [i \in 1 .. L |-> u[i]]  OBVIOUS
<1> HIDE DEF u
<1>11. u \in Seq(Q) /\ Len(u) = L /\ DOMAIN u = 1 .. L  BY <1>4, <1>9, <1>10, FunctionIsSeq
<1>12. IsInjective(u)
  <2>1. ASSUME NEW i \in 1 .. L, NEW j \in 1 .. L, u[i] = u[j]  PROVE i = j
    <3>1. t[w[i] + 1] = t[w[j] + 1]  BY <1>9, <2>1
    <3>2. w[i] + 1 = w[j] + 1  BY <1>1, <1>5, <3>1 DEF IsInjective
    <3>3. w[i] \in Int /\ w[j] \in Int  BY <1>4 DEF Q
    <3>4. w[i] = w[j]  BY <3>2, <3>3
    <3> QED  BY <1>3, <1>4, <3>4 DEF IsInjective
  <2> QED  BY <1>11, <2>1 DEF IsInjective
<1>13. u \in Seq(Nat)
  <2>1. Q \subseteq Nat  BY DEF Q
  <2> QED  BY <1>11, <2>1, SeqMonotonic
<1>14. r \in Operations  BY <1>7, <1>13, <1>o DEF Operations
<1>15. IsStandard(Q, r)  BY <1>2, <1>8, <1>11, <1>12 DEF IsStandard, L, w
<1>16. r \in StandardOps(Q)  BY <1>14, <1>15 DEF StandardOps
<1> QED  BY <1>8, <1>9, <1>11, <1>16 DEF r, w, L, Q

\* The path swaps go along.
IsWay(dev, n, a, b, path) ==
    /\ path \in Seq(Nat) /\ Len(path) \in Nat \ {0} /\ path[1] = a /\ path[Len(path)] = b
    /\ \A i \in 1 .. (Len(path) - 1) :
          path[i] \in 0 .. (n - 1) /\ path[i] # b /\ Coupled(dev, path[i], path[i + 1])
LEMMA WayIs ==
  ASSUME NEW dev, IsDevice(dev), NEW n \in Nat, NEW t \in Tables_(n), NEW o \in StandardOps(0 .. (n - 1)),
         NeedsSwaps(dev, t, o), ~NoWay(dev, t, o)
  PROVE  /\ o.wires[1] + 1 \in 1 .. n /\ o.wires[2] + 1 \in 1 .. n
         /\ t[o.wires[1] + 1] \in 0 .. (n - 1) /\ t[o.wires[2] + 1] \in 0 .. (n - 1)
         /\ IsWay(dev, n, t[o.wires[1] + 1], t[o.wires[2] + 1], PathOf(dev, t, o))
<1> DEFINE x == o.wires[1] + 1
           y == o.wires[2] + 1
           a == t[x]
           b == t[y]
           path == PathOf(dev, t, o)
           m == Len(path)
<1>1. o.wires \in Seq(0 .. (n - 1)) /\ Len(o.wires) = 2  BY DEF StandardOps, IsStandard, NeedsSwaps
<1>2. o.wires[1] \in 0 .. (n - 1) /\ o.wires[2] \in 0 .. (n - 1)
  <2>1. \A i \in 1 .. 2 : o.wires[i] \in 0 .. (n - 1)  BY <1>1, ElementOfSeq
  <2> QED  BY <2>1
<1>3. x \in 1 .. n /\ y \in 1 .. n  BY <1>2
<1>4. t \in [1 .. n -> 0 .. (n - 1)]  BY DEF Tables_
<1>5. a \in 0 .. (n - 1) /\ b \in 0 .. (n - 1)
  <2> HIDE DEF x, y
  <2> QED  BY <1>3, <1>4
<1>6. Len(t) = n
  <2> DEFINE Q == 0 .. (n - 1)
  <2>1. t \in [1 .. n -> Q]  BY <1>4
  <2> HIDE DEF Q
  <2>2. t = [i \in 1 .. n |-> t[i]] /\ \A i \in 1 .. n : t[i] \in Q  BY <2>1
  <2> QED  BY <2>2, FunctionIsSeq
<1>7. path = ShortestPath(dev, a, b)  BY DEF PathOf
<1>d. dev.size \in Nat  BY DEF IsDevice
<1>8. Distance(dev, a, b) \in Nat /\ Distance(dev, a, b) <= dev.size
      /\ \A i \in 1 .. (m - 2) : ~(path[i + 1] >= Len(t))
  <2>1. ~(Distance(dev, a, b) > dev.size) /\ \A i \in 1 .. (m - 2) : ~(path[i + 1] >= Len(t))  BY DEF NoWay
  <2> HIDE DEF a, b, m, path
  <2>2. Distance(dev, a, b) \in Nat  BY <1>d, DistanceIs
  <2> QED  BY <1>d, <2>1, <2>2
<1> HIDE DEF a, b, path, x, y
<1>9. IsPath(dev, a, b, path)
  <2>1. a \in Nat  BY <1>5
  <2> QED  BY <1>7, <1>8, <2>1, PathIs
<1>10. /\ path \in Seq(Nat) /\ m = Distance(dev, a, b) + 1 /\ path[1] = a /\ path[m] = b
       /\ \A i \in 1 .. m : Distance(dev, path[i], b) = m - i
       /\ \A i \in 1 .. (m - 1) : Coupled(dev, path[i], path[i + 1])
  BY <1>9 DEF IsPath
<1> HIDE DEF m
<1>11. m \in Nat \ {0}  BY <1>8, <1>10
<1>12. ASSUME NEW i \in 1 .. (m - 1)
       PROVE  path[i] \in 0 .. (n - 1) /\ path[i] # b /\ Coupled(dev, path[i], path[i + 1])
  <2>1. i \in 1 .. m /\ m \in 1 .. m /\ m - i # m - m  BY <1>11
  <2>2. path[i] # b
    <3>1. Distance(dev, path[i], b) = m - i /\ Distance(dev, path[m], b) = m - m  BY <1>10, <2>1
    <3> QED  BY <1>10, <2>1, <3>1
  <2>3. path[i] \in 0 .. (n - 1)
    <3>1. CASE i = 1  BY <1>5, <1>10, <3>1
    <3>2. CASE i # 1
      <4>1. i - 1 \in 1 .. (m - 2) /\ (i - 1) + 1 = i  BY <1>11, <3>2
      <4>2. ~(path[i] >= Len(t))  BY <1>8, <4>1 DEF m
      <4>3. path[i] \in Nat  BY <1>10, <2>1, ElementOfSeq DEF m
      <4> QED  BY <1>6, <4>2, <4>3
    <3> QED  BY <3>1, <3>2
  <2> QED  BY <1>10, <2>2, <2>3
<1>13. IsWay(dev, n, a, b, path)  BY <1>10, <1>11, <1>12 DEF IsWay, m
<1> QED  BY <1>3, <1>5, <1>13 DEF a, b, x, y, path

LEMMA PlacesAfterIs ==
  ASSUME NEW dev, IsDevice(dev), NEW n \in Nat, NEW t \in Tables_(n), NEW o \in StandardOps(0 .. (n - 1))
  PROVE  /\ PlacesAfter(dev, t, o) \in Tables_(n)
         /\ t \in Layouts(n) => PlacesAfter(dev, t, o) \in Layouts(n)
<1> DEFINE u == PlacesAfter(dev, t, o)
           go == NeedsSwaps(dev, t, o) /\ ~NoWay(dev, t, o)
           path == PathOf(dev, t, o)
           m == Len(path)
<1>1. u = IF go THEN AfterSwaps(t, path) ELSE t  BY DEF PlacesAfter
<1>2. CASE go
  <2>1. IsWay(dev, n, t[o.wires[1] + 1], t[o.wires[2] + 1], path)  BY <1>2, WayIs
  <2>2. m \in Nat \ {0} /\ \A i \in 1 .. (m - 1) : path[i] \in 0 .. (n - 1)  BY <2>1 DEF IsWay
  <2>3. u = AfterSwaps(t, path)  BY <1>1, <1>2
  <2> HIDE DEF path, u
  <2>4. PICK f : SwapChain(t, path, f) /\ AfterSwaps(t, path) = f[m - 1]  BY <2>2, AfterSwapsIs
  <2> HIDE DEF m
  <2>5. m - 1 \in 0 .. (m - 1)  BY <2>2
  <2>6. f[m - 1] \in Tables_(n) /\ (t \in Layouts(n) => f[m - 1] \in Layouts(n))  BY <2>2, <2>4, <2>5, SwapsKeep
  <2> QED  BY <2>3, <2>4, <2>6 DEF u
<1>3. CASE ~go  BY <1>1, <1>3
<1> QED  BY <1>2, <1>3

\* The swaps and the operation behind them, on couplings.
Fails(ops) == Len(ops) >= 1 /\ ops[1].op = "fail"
LEMMA SwapsAlongStandard ==
  ASSUME NEW dev, IsDevice(dev), NEW n \in Nat, NEW a, NEW b, NEW path, IsWay(dev, n, a, b, path)
  PROVE  SwapsAlong(path) \in Seq(RoutedOps(dev, 0 .. (n - 1)))
<1> DEFINE m == Len(path)
           s == SwapsAlong(path)
           G == RoutedOps(dev, 0 .. (n - 1))
           Q == 0 .. (n - 1)
<1>1. m \in Nat \ {0} /\ \A i \in 1 .. (m - 1) : path[i] \in Q /\ Coupled(dev, path[i], path[i + 1])
  BY DEF IsWay
<1>2. s = [i \in 1 .. (m - 2) |-> Swap(path[i], path[i + 1])]  BY DEF SwapsAlong
<1> HIDE DEF m, s
<1>3. ASSUME NEW i \in 1 .. (m - 2)  PROVE Swap(path[i], path[i + 1]) \in G
  <2>1. i \in 1 .. (m - 1) /\ i + 1 \in 1 .. (m - 1)  BY <1>1
  <2> DEFINE c == path[i]
             d == path[i + 1]
             o == Swap(c, d)
  <2>2. c \in Q /\ d \in Q /\ Coupled(dev, c, d)  BY <1>1, <2>1
  <2> HIDE DEF c, d
  <2>3. c # d  BY <2>2, CoupledInside
  <2>4. Q \in SUBSET Nat  OBVIOUS
  <2> HIDE DEF Q
  <2>5. o \in StandardOps(Q)  BY <2>2, <2>3, <2>4, Gates2Standard
  <2>6. o.wires = <<c, d>>  BY DEF Swap, Gate2, Op
  <2>7. OnCoupling(dev, o)
    <3> HIDE DEF o
    <3>1. o.wires[1] = c /\ o.wires[2] = d  BY <2>6
    <3> QED  BY <2>2, <3>1 DEF OnCoupling
  <2>8. o \in RoutedOps(dev, Q)  BY <2>5, <2>7 DEF RoutedOps
  <2> QED  BY <2>8 DEF o, c, d, Q
<1>4. CASE m < 2
  <2> DEFINE z == 0
  <2>1. 1 .. (m - 2) = 1 .. z  BY <1>1, <1>4
  <2> HIDE DEF z
  <2>2. s = [i \in 1 .. z |-> s[i]]  BY <1>2, <2>1
  <2>3. \A i \in 1 .. z : s[i] \in G  BY DEF z
  <2>4. z \in Nat  BY DEF z
  <2> HIDE DEF G
  <2> QED  BY <2>2, <2>3, <2>4, FunctionIsSeq DEF s, G
<1>5. CASE m >= 2
  <2>1. m - 2 \in Nat  BY <1>1, <1>5
  <2>2. s = [i \in 1 .. (m - 2) |-> s[i]]  BY <1>2
  <2>3. \A i \in 1 .. (m - 2) : s[i] \in G
    <3> HIDE DEF G
    <3> QED  BY <1>2, <1>3
  <2> DEFINE k == m - 2
  <2> HIDE DEF k
  <2>4. k \in Nat /\ s = [i \in 1 .. k |-> s[i]] /\ \A i \in 1 .. k : s[i] \in G  BY <2>1, <2>2, <2>3 DEF k
  <2> HIDE DEF G
  <2> QED  BY <2>4, FunctionIsSeq DEF s, G
<1> QED  BY <1>1, <1>4, <1>5

StepRouted(dev, Q, swaps, step) ==
    /\ swaps \in Seq(StandardOps(Q))
    /\ step \in Seq(StandardOps(Q))
    /\ Fails(step) \/ step \in Seq(RoutedOps(dev, Q))
LEMMA RouteStepIs ==
  ASSUME NEW dev, IsDevice(dev), NEW n \in Nat, NEW t \in Layouts(n), NEW o \in StandardOps(0 .. (n - 1))
  PROVE  StepRouted(dev, 0 .. (n - 1), RouteSwaps(dev, t, o), RouteStep(dev, t, o))
<1> DEFINE Q == 0 .. (n - 1)
           S == StandardOps(Q)
           R == RoutedOps(dev, Q)
           u == PlacesAfter(dev, t, o)
           r == Moved(o, u)
           swaps == RouteSwaps(dev, t, o)
           step == RouteStep(dev, t, o)
           path == PathOf(dev, t, o)
           needs == NeedsSwaps(dev, t, o)
           lost == NoWay(dev, t, o)
           x == o.wires[1] + 1
           y == o.wires[2] + 1
<1>1. step = swaps \o <<r>>  BY DEF RouteStep
<1>2. swaps = IF ~needs THEN <<>> ELSE IF lost THEN Fail ELSE SwapsAlong(path)  BY DEF RouteSwaps
<1>3. u = IF needs /\ ~lost THEN AfterSwaps(t, path) ELSE t  BY DEF PlacesAfter
<1>4. t \in Tables_(n)  BY DEF Layouts
<1>5. u \in Layouts(n)  BY <1>4, PlacesAfterIs
<1>6. /\ r \in S /\ r.op = o.op /\ Len(r.wires) = Len(o.wires)
      /\ \A i \in 1 .. Len(o.wires) : r.wires[i] = u[o.wires[i] + 1]
  <2> HIDE DEF u
  <2> QED  BY <1>5, MovedStandard
<1>7. R \subseteq S  BY DEF RoutedOps
<1> HIDE DEF r, u, swaps, step, S, R, Q
<1>8. <<r>> \in Seq(S)  BY <1>6, SeqSingle
<1>9. ASSUME swaps \in Seq(R), OnCoupling(dev, r)
      PROVE  StepRouted(dev, Q, swaps, step)
  <2>1. r \in R  BY <1>6, <1>9 DEF R, RoutedOps, S
  <2>2. <<r>> \in Seq(R)  BY <2>1, SeqSingle
  <2>3. step \in Seq(R)  BY <1>1, <1>9, <2>2, Joined
  <2>4. step \in Seq(S) /\ swaps \in Seq(S)  BY <1>7, <1>9, <2>3, SeqMonotonic
  <2> QED  BY <2>3, <2>4 DEF StepRouted, R, S
<1>10. CASE ~needs
  <2>1. swaps = <<>> /\ u = t  BY <1>2, <1>3, <1>10
  <2>2. swaps \in Seq(R)  BY <2>1, EmptySeq
  <2>3. OnCoupling(dev, r)
    <3> SUFFICES ASSUME r.op = "gate", Len(r.wires) = 2  PROVE Coupled(dev, r.wires[1], r.wires[2])
      BY DEF OnCoupling
    <3>1. o.op = "gate" /\ Len(o.wires) = 2  BY <1>6
    <3>2. Coupled(dev, t[x], t[y])  BY <1>10, <3>1 DEF NeedsSwaps
    <3>3. r.wires[1] = t[x] /\ r.wires[2] = t[y]
      <4>1. 1 \in 1 .. Len(o.wires) /\ 2 \in 1 .. Len(o.wires)  BY <3>1
      <4> QED  BY <1>6, <2>1, <4>1
    <3> QED  BY <3>2, <3>3
  <2> QED  BY <1>9, <2>2, <2>3 DEF Q, swaps, step
<1>11. CASE needs /\ lost
  <2>1. swaps = Fail  BY <1>2, <1>11
  <2>2. swaps \in Seq(S) /\ Len(swaps) = 1 /\ swaps[1].op = "fail"
    <3>1. Fail \in Seq(S) /\ Len(Fail) = 1 /\ Fail[1].op = "fail"  BY FailStandard DEF S
    <3> QED  BY <2>1, <3>1
  <2> DEFINE one == <<r>>
  <2>3. one \in Seq(S) /\ step = swaps \o one  BY <1>1, <1>8
  <2> HIDE DEF one
  <2>4. /\ step \in Seq(S) /\ Len(one) \in Nat /\ Len(step) = Len(swaps) + Len(one)
        /\ \A i \in 1 .. Len(swaps) : step[i] = swaps[i]
    BY <2>2, <2>3, Joined
  <2>5. Len(step) >= 1  BY <2>2, <2>4
  <2>6. step[1] = swaps[1]
    <3>1. 1 \in 1 .. Len(swaps)  BY <2>2
    <3> QED  BY <2>4, <3>1
  <2>7. Fails(step)  BY <2>2, <2>5, <2>6 DEF Fails
  <2>8. StepRouted(dev, Q, swaps, step)  BY <2>2, <2>4, <2>7 DEF StepRouted, S
  <2> QED  BY <2>8 DEF Q, swaps, step
<1>12. CASE needs /\ ~lost
  <2>1. swaps = SwapsAlong(path) /\ u = AfterSwaps(t, path)  BY <1>2, <1>3, <1>12
  <2>2. x \in 1 .. n /\ y \in 1 .. n /\ t[x] \in 0 .. (n - 1) /\ t[y] \in 0 .. (n - 1)
        /\ IsWay(dev, n, t[x], t[y], path)
    BY <1>4, <1>12, WayIs
  <2>3. swaps \in Seq(R)  BY <2>1, <2>2, SwapsAlongStandard DEF R, Q
  <2>4. o.op = "gate" /\ Len(o.wires) = 2 /\ ~Coupled(dev, t[x], t[y])  BY <1>12 DEF NeedsSwaps
  <2> DEFINE m == Len(path)
             b == t[y]
  <2>5. /\ m \in Nat \ {0} /\ path[1] = t[x] /\ path[m] = b
        /\ \A i \in 1 .. (m - 1) : path[i] \in 0 .. (n - 1) /\ path[i] # b /\ Coupled(dev, path[i], path[i + 1])
    BY <2>2 DEF IsWay
  <2>6. x # y
    <3>1. o.wires \in Seq(0 .. (n - 1)) /\ IsInjective(o.wires)  BY DEF StandardOps, IsStandard
    <3>2. o.wires[1] \in Int /\ o.wires[2] \in Int
      <4>1. \A i \in 1 .. 2 : o.wires[i] \in 0 .. (n - 1)  BY <2>4, <3>1, ElementOfSeq
      <4> QED  BY <4>1
    <3>3. 1 \in DOMAIN o.wires /\ 2 \in DOMAIN o.wires  BY <2>4, <3>1, LenProperties
    <3>4. o.wires[1] # o.wires[2]  BY <3>1, <3>3 DEF IsInjective
    <3> QED  BY <3>2, <3>4
  <2>7. t[x] # b
    <3>1. IsInjective(t) /\ DOMAIN t = 1 .. n  BY DEF Layouts, Tables_
    <3> HIDE DEF x, y
    <3> QED  BY <2>2, <2>6, <3>1 DEF IsInjective
  <2> HIDE DEF m, x, y, path
  <2>8. m # 1  BY <2>5, <2>7
  <2>9. m >= 2  BY <2>5, <2>8
  <2>a. m - 1 \in 1 .. (m - 1) /\ (m - 1) + 1 = m  BY <2>5, <2>9
  <2>10. PICK f : SwapChain(t, path, f) /\ AfterSwaps(t, path) = f[m - 1]  BY <1>4, <2>5, AfterSwapsIs DEF m
  <2>11. f[m - 1][x] = path[m - 1] /\ f[m - 1][y] = path[m]
    <3>1. \A i \in 1 .. (m - 1) : path[i] \in 0 .. (n - 1) /\ path[i] # path[m]  BY <2>5
    <3>2. m \in Nat /\ t[x] = path[1] /\ t[y] = path[m]  BY <2>5
    <3> HIDE DEF b
    <3> QED  BY <1>4, <2>2, <2>9, <2>10, <3>1, <3>2, SwapsCarry
  <2>12. Coupled(dev, u[x], u[y])
    <3>1. Coupled(dev, path[m - 1], path[m])  BY <2>5, <2>a
    <3> QED  BY <2>1, <2>10, <2>11, <3>1
  <2>13. OnCoupling(dev, r)
    <3>1. r.wires[1] = u[x] /\ r.wires[2] = u[y]
      <4>1. 1 \in 1 .. Len(o.wires) /\ 2 \in 1 .. Len(o.wires)  BY <2>4
      <4> QED  BY <1>6, <4>1 DEF x, y
    <3> QED  BY <2>12, <3>1 DEF OnCoupling
  <2> QED  BY <1>9, <2>3, <2>13 DEF Q, swaps, step
<1> QED  BY <1>10, <1>11, <1>12 DEF Q, swaps, step

(***************************************************************************)
(* Routing: a whole program                                                *)
(***************************************************************************)
Pairs(n) == {e \in (0 .. (n - 1)) \X (0 .. (n - 1)) : e[1] < e[2]}

LEMMA PairsUpTo ==
  ASSUME NEW n \in Nat
  PROVE  /\ IsFiniteSet(Pairs(n)) => IsFiniteSet(Pairs(n + 1))
         /\ IsFiniteSet(Pairs(n)) => Cardinality(Pairs(n + 1)) = Cardinality(Pairs(n)) + n
<1> DEFINE Z == 0 .. (n - 1)
           Row == {<<i, n>> : i \in Z}
           f == [i \in Z |-> <<i, n>>]
           A == Pairs(n)
           B == Pairs(n + 1)
<1>1. IsFiniteSet(Z) /\ Cardinality(Z) = n
  <2>1. 0 \in Int /\ n - 1 \in Int  OBVIOUS
  <2>2. IsFiniteSet(Z) /\ Cardinality(Z) = IF 0 > n - 1 THEN 0 ELSE (n - 1) - 0 + 1  BY <2>1, FS_Interval
  <2> HIDE DEF Z
  <2> QED  BY <2>2
<1>2. B = A \cup Row
  <2>1. ASSUME NEW e \in B  PROVE e \in A \cup Row
    <3>1. PICK i \in 0 .. n, j \in 0 .. n : e = <<i, j>> /\ i < j
      <4>1. e \in (0 .. ((n + 1) - 1)) \X (0 .. ((n + 1) - 1)) /\ e[1] < e[2]  BY DEF Pairs
      <4>2. (n + 1) - 1 = n  OBVIOUS
      <4> QED  BY <4>1, <4>2
    <3>2. CASE j = n
      <4>1. i \in Z  BY <3>1, <3>2
      <4> QED  BY <3>1, <3>2, <4>1
    <3>3. CASE j # n
      <4>1. i \in Z /\ j \in Z  BY <3>1, <3>3
      <4>2. <<i, j>> \in Z \X Z /\ <<i, j>>[1] < <<i, j>>[2]
        <5> HIDE DEF Z
        <5> QED  BY <3>1, <4>1
      <4> QED  BY <3>1, <4>2 DEF Pairs
    <3> QED  BY <3>2, <3>3
  <2>2. ASSUME NEW e \in A  PROVE e \in B
    <3>1. PICK i \in Z, j \in Z : e = <<i, j>> /\ i < j  BY DEF Pairs
    <3>2. i \in 0 .. ((n + 1) - 1) /\ j \in 0 .. ((n + 1) - 1)  OBVIOUS
    <3> QED  BY <3>1, <3>2 DEF Pairs
  <2>3. ASSUME NEW i \in Z  PROVE <<i, n>> \in B
    <3>1. i \in 0 .. ((n + 1) - 1) /\ n \in 0 .. ((n + 1) - 1) /\ i < n  OBVIOUS
    <3> QED  BY <3>1 DEF Pairs
  <2> QED  BY <2>1, <2>2, <2>3
<1>3. A \cap Row = {}
  <2>1. ASSUME NEW e \in A, e \in Row  PROVE FALSE
    <3>1. PICK i \in Z : e = <<i, n>>  BY <2>1
    <3>2. e[2] \in Z  BY DEF Pairs
    <3>3. n \notin Z  OBVIOUS
    <3> QED  BY <3>1, <3>2, <3>3
  <2> QED  BY <2>1
<1>4. IsFiniteSet(Row) /\ Cardinality(Row) = n
  <2> HIDE DEF Z
  <2>1. f \in [Z -> Row] /\ \A i \in Z : f[i] = <<i, n>>  OBVIOUS
  <2>2. f \in Surjection(Z, Row)
    <3>1. \A r \in Row : \E i \in Z : f[i] = r  BY <2>1
    <3> QED  BY <2>1, <3>1 DEF Surjection
  <2>3. f \in Injection(Z, Row)
    <3>1. \A i, j \in Z : f[i] = f[j] => i = j  BY <2>1
    <3> HIDE DEF f, Row
    <3> QED  BY <2>1, <3>1 DEF Injection, IsInjective
  <2> HIDE DEF Row, f
  <2> QED  BY <1>1, <2>2, <2>3, FS_Surjection
<1> SUFFICES ASSUME IsFiniteSet(A)  PROVE IsFiniteSet(B) /\ Cardinality(B) = Cardinality(A) + n  OBVIOUS
<1> HIDE DEF A, B, Row
<1>5. IsFiniteSet(A \cup Row) /\ Cardinality(A \cup Row) = Cardinality(A) + Cardinality(Row) - Cardinality(A \cap Row)
  BY <1>4, FS_Union
<1>6. Cardinality(A \cap Row) = 0  BY <1>3, FS_EmptySet
<1>7. Cardinality(A) \in Nat  BY FS_CardinalityType
<1> QED  BY <1>2, <1>4, <1>5, <1>6, <1>7

LEMMA PairsCount ==
  ASSUME NEW n \in Nat
  PROVE  /\ IsFiniteSet(Pairs(n)) /\ Cardinality(Pairs(n)) \in Nat
         /\ 2 * Cardinality(Pairs(n)) = n * (n - 1)
<1> DEFINE C(i) == Cardinality(Pairs(i))
           K == {i \in Nat : IsFiniteSet(Pairs(i)) /\ 2 * C(i) = i * (i - 1)}
<1>1. 0 \in K
  <2>1. Pairs(0) = {}  BY DEF Pairs
  <2>2. IsFiniteSet(Pairs(0)) /\ C(0) = 0  BY <2>1, FS_EmptySet
  <2> QED  BY <2>2
<1>2. ASSUME NEW i \in K  PROVE i + 1 \in K
  <2>1. i \in Nat /\ IsFiniteSet(Pairs(i)) /\ 2 * C(i) = i * (i - 1)  OBVIOUS
  <2>2. IsFiniteSet(Pairs(i + 1)) /\ C(i + 1) = C(i) + i  BY <2>1, PairsUpTo
  <2>3. C(i) \in Nat  BY <2>1, FS_CardinalityType
  <2>4. (i + 1) * ((i + 1) - 1) = i * (i - 1) + 2 * i  BY <2>1
  <2>5. 2 * (C(i) + i) = 2 * C(i) + 2 * i  BY <2>1, <2>3
  <2> HIDE DEF C
  <2>6. 2 * C(i + 1) = (i + 1) * ((i + 1) - 1)  BY <2>1, <2>2, <2>4, <2>5
  <2> QED  BY <2>1, <2>2, <2>6
<1>3. K \in SUBSET Nat  OBVIOUS
<1>4. Nat \subseteq K
  <2> HIDE DEF K
  <2> QED  BY <1>1, <1>2, <1>3, Upwards
<1> QED  BY <1>4, FS_CardinalityType

\* As many couplings as pairs: every pair.
LEMMA AllCoupled ==
  ASSUME NEW dev, IsDevice(dev), FullyConnected(dev, dev.size),
         NEW a \in 0 .. (dev.size - 1), NEW b \in 0 .. (dev.size - 1), a # b
  PROVE  Coupled(dev, a, b)
<1> DEFINE n == dev.size
           E == dev.edges
           P == Pairs(n)
           half == (n * (n - 1)) \div 2
<1>1. n \in Nat \ {0} /\ E \subseteq P  BY DEF IsDevice, Pairs
<1>2. IsFiniteSet(P) /\ Cardinality(P) \in Nat /\ 2 * Cardinality(P) = n * (n - 1)  BY <1>1, PairsCount
<1>3. n <= 1 \/ Cardinality(E) >= half  BY DEF FullyConnected
<1>4. ~(n <= 1)  BY <1>1
<1>5. half = Cardinality(P)
  <2> DEFINE c == Cardinality(P)
             x == n * (n - 1)
  <2>1. c \in Nat /\ 2 * c = x  BY <1>2
  <2> HIDE DEF c, x
  <2>2. x \div 2 = c  BY <2>1
  <2> QED  BY <2>2 DEF c, x
<1> HIDE DEF E, P, half
<1>6. IsFiniteSet(E) /\ Cardinality(E) <= Cardinality(P) /\ (Cardinality(P) = Cardinality(E) => P = E)
  BY <1>1, <1>2, FS_Subset
<1>7. Cardinality(E) \in Nat  BY <1>6, FS_CardinalityType
<1>8. P = E  BY <1>2, <1>3, <1>4, <1>5, <1>6, <1>7
<1>9. ASSUME NEW x \in 0 .. (n - 1), NEW y \in 0 .. (n - 1), x < y  PROVE <<x, y>> \in E
  <2> DEFINE Z == 0 .. (n - 1)
  <2>1. x \in Z /\ y \in Z  OBVIOUS
  <2> HIDE DEF Z
  <2>2. <<x, y>> \in Z \X Z /\ <<x, y>>[1] < <<x, y>>[2]  BY <1>9, <2>1
  <2>3. <<x, y>> \in P  BY <2>2 DEF P, Pairs, Z
  <2> QED  BY <1>8, <2>3
<1>10. a < b \/ b < a  OBVIOUS
<1>11. <<a, b>> \in E \/ <<b, a>> \in E  BY <1>9, <1>10
<1> QED  BY <1>11 DEF Coupled, E

\* The places during the program.
LEMMA PlacesAre ==
  ASSUME NEW dev, IsDevice(dev), NEW p, StandardProgram(p)
  PROVE  /\ Len(p.ops) \in Nat
         /\ \A k \in 1 .. (Len(p.ops) + 1) : Places(dev, p)[k] \in Layouts(p.wires)
<1> DEFINE n == p.wires
           L == Len(p.ops)
           T_ == Tables_(n)
           next == Following(dev, p)
           z == Upto(n)
           S == StandardOps(0 .. (n - 1))
           f == Chain(T_, L, next, z, 1)
           s == Segment(T_, L, next, z, 1, L)
           at == Places(dev, p)
<1>1. n \in Nat \ {0} /\ p.ops \in Seq(S)  BY DEF StandardProgram
<1>2. L \in Nat /\ \A k \in 1 .. L : p.ops[k] \in S
  <2> HIDE DEF S
  <2> QED  BY <1>1, LenProperties, ElementOfSeq
<1>3. z \in Layouts(n)
  <2>1. z = [k \in 1 .. n |-> k - 1]  BY DEF Upto
  <2> HIDE DEF z
  <2>2. \A k \in 1 .. n : z[k] = k - 1 /\ z[k] \in 0 .. (n - 1)  BY <1>1, <2>1
  <2>3. z \in [1 .. n -> 0 .. (n - 1)]
    <3> DEFINE V == 0 .. (n - 1)
    <3> HIDE DEF V, n
    <3>1. \A k \in 1 .. n : z[k] \in V  BY <2>2 DEF V
    <3>2. z \in [1 .. n -> V]  BY <2>1, <3>1
    <3> QED  BY <3>2 DEF V
  <2>4. IsInjective(z)
    <3>1. DOMAIN z = 1 .. n  BY <2>1
    <3>2. \A j, k \in 1 .. n : z[j] = z[k] => j = k  BY <2>2
    <3> QED  BY <3>1, <3>2 DEF IsInjective
  <2> QED  BY <2>3, <2>4 DEF Layouts, Tables_
<1>4. z \in T_  BY <1>3 DEF Layouts
<1> HIDE DEF n, L, z
<1>5. \A t \in T_, k \in 1 .. L :
         /\ next[<<t, k>>] = PlacesAfter(dev, t, p.ops[k])
         /\ next[<<t, k>>] \in T_
         /\ t \in Layouts(n) => next[<<t, k>>] \in Layouts(n)
  <2> TAKE t \in T_, k \in 1 .. L
  <2>1. <<t, k>> \in [1 .. p.wires -> 0 .. (p.wires - 1)] \X (1 .. Len(p.ops)) /\ <<t, k>>[1] = t /\ <<t, k>>[2] = k
    BY DEF Tables_, n, L
  <2>2. next[<<t, k>>] = PlacesAfter(dev, t, p.ops[k])  BY <2>1 DEF Following
  <2> DEFINE o == p.ops[k]
  <2>3. o \in S  BY <1>2
  <2> HIDE DEF o, next, T_
  <2>4. t \in Tables_(n)  BY DEF T_
  <2>5. PlacesAfter(dev, t, o) \in Tables_(n) /\ (t \in Layouts(n) => PlacesAfter(dev, t, o) \in Layouts(n))
    BY <1>1, <2>3, <2>4, PlacesAfterIs
  <2> QED  BY <2>2, <2>5 DEF o, T_
<1>6. Steps(T_, L, next)
  <2>1. next = [e \in T_ \X (1 .. L) |-> next[e]]  BY DEF Following, T_, Tables_, n, L
  <2>2. \A e \in T_ \X (1 .. L) : next[e] \in T_
    <3> TAKE e \in T_ \X (1 .. L)
    <3>1. PICK t \in T_, k \in 1 .. L : e = <<t, k>>  OBVIOUS
    <3> HIDE DEF T_, next
    <3>2. next[<<t, k>>] \in T_  BY <1>5
    <3> QED  BY <3>1, <3>2
  <2> HIDE DEF T_, next
  <2>3. next \in [T_ \X (1 .. L) -> T_]  BY <2>1, <2>2
  <2> QED  BY <1>2, <2>3 DEF Steps
<1>7. at = <<z>> \o s
  <2> DEFINE W == Tables_(p.wires)
  <2>1. W = [1 .. p.wires -> 0 .. (p.wires - 1)]  BY DEF Tables_
  <2>2. Steps(W, Len(p.ops), Following(dev, p)) /\ Upto(p.wires) \in W  BY <1>4, <1>6 DEF n, L, z
  <2> HIDE DEF W
  <2>3. Places(dev, p) = <<Upto(p.wires)>> \o Segment(W, Len(p.ops), Following(dev, p), Upto(p.wires), 1, Len(p.ops))
    BY <2>1, <2>2, PlacesSegment
  <2> QED  BY <2>3 DEF W, n, L, z
<1>8. 1 \in 1 .. (L + 1) /\ L \in 0 .. L /\ 1 <= L + 1  BY <1>2
<1> HIDE DEF next, T_
<1>9. IsChain(T_, L, next, z, 1, f)  BY <1>4, <1>6, <1>8, ChainIs
<1>10. IsSegment(T_, f, 1, L, s)  BY <1>4, <1>6, <1>8, SegmentSeq
<1> HIDE DEF f, s, at
<1>11. s \in Seq(T_) /\ Len(s) = L /\ \A i \in 1 .. L : s[i] = f[i]
  <2>1. s \in Seq(T_) /\ Len(s) = (L - 1) + 1 /\ \A i \in 1 .. ((L - 1) + 1) : s[i] = f[i]  BY <1>10 DEF IsSegment
  <2>2. (L - 1) + 1 = L  BY <1>2
  <2> QED  BY <2>1, <2>2
<1> DEFINE K == {i \in Nat : f[i] \in Layouts(n)}
<1>12. 0 \in K  BY <1>3, <1>9 DEF IsChain
<1>13. ASSUME NEW i \in K  PROVE i + 1 \in K
  <2>1. i \in Nat /\ f[i] \in Layouts(n) /\ f[i] \in T_  BY <1>9 DEF IsChain
  <2>2. CASE 1 + i \in 1 .. L
    <3>1. f[i + 1] = next[<<f[i], 1 + i>>]  BY <1>9, <2>1, <2>2 DEF IsChain
    <3> DEFINE t == f[i]
               k == 1 + i
    <3>2. t \in T_ /\ t \in Layouts(n) /\ k \in 1 .. L  BY <2>1, <2>2
    <3> HIDE DEF t, k
    <3>3. next[<<t, k>>] \in Layouts(n)  BY <1>5, <3>2
    <3>4. f[i + 1] \in Layouts(n)  BY <3>1, <3>3 DEF t, k
    <3> QED  BY <2>1, <3>4
  <2>3. CASE 1 + i \notin 1 .. L
    <3>1. f[i + 1] = f[i]  BY <1>9, <2>1, <2>3 DEF IsChain
    <3> QED  BY <2>1, <3>1
  <2> QED  BY <2>2, <2>3
<1>14. K \in SUBSET Nat  OBVIOUS
<1>15. Nat \subseteq K
  <2> HIDE DEF K
  <2> QED  BY <1>12, <1>13, <1>14, Upwards
<1>16. \A k \in 1 .. (L + 1) : at[k] \in Layouts(n)
  <2> TAKE k \in 1 .. (L + 1)
  <2> DEFINE one == <<z>>
  <2>1. one \in Seq(T_) /\ Len(one) = 1 /\ one[1] = z  BY <1>4, SeqSingle
  <2>2. at = one \o s  BY <1>7
  <2> HIDE DEF one
  <2>3. /\ \A i \in 1 .. Len(one) : at[i] = one[i]
        /\ \A i \in 1 .. Len(s) : at[Len(one) + i] = s[i]
    <3> HIDE DEF at
    <3>1. /\ \A i \in 1 .. Len(one) : (one \o s)[i] = one[i]
          /\ \A i \in 1 .. Len(s) : (one \o s)[Len(one) + i] = s[i]
      <4>1. one \in Seq(T_) /\ s \in Seq(T_)  BY <1>11, <2>1
      <4> QED  BY <4>1, Joined
    <3> QED  BY <2>2, <3>1
  <2>4. CASE k = 1
    <3>1. 1 \in 1 .. Len(one)  BY <2>1
    <3>2. at[1] = z  BY <2>1, <2>3, <3>1
    <3> QED  BY <1>3, <2>4, <3>2
  <2>5. CASE k # 1
    <3>1. k - 1 \in 1 .. L /\ 1 + (k - 1) = k /\ k - 1 \in Nat  BY <1>2, <2>5
    <3>2. at[1 + (k - 1)] = s[k - 1]  BY <1>11, <2>1, <2>3, <3>1
    <3>3. s[k - 1] = f[k - 1]  BY <1>11, <3>1
    <3>4. f[k - 1] \in Layouts(n)  BY <1>15, <3>1
    <3> QED  BY <3>1, <3>2, <3>3, <3>4
  <2> QED  BY <2>4, <2>5
<1> QED  BY <1>2, <1>16 DEF n, L, at

\* What routing gives.
IsRouted(dev, n, r) ==
    /\ r.at \in Layouts(n) /\ r.swaps \in Nat
    /\ r.ops \in Seq(StandardOps(0 .. (n - 1)))
    /\ n = dev.size => Failed(r.ops) \/ r.ops \in Seq(RoutedOps(dev, 0 .. (n - 1)))

(***************************************************************************)
(* For any device and any decomposed program, the router keeps the gates   *)
(* on the wires of the program and its layout a permutation of them; if    *)
(* these are as many as the device has, every gate on two of them is on a  *)
(* coupling, or routing fails (route.rs: each gate is placed where the     *)
(* swaps of all gates before it have moved its wires).                     *)
(***************************************************************************)
THEOREM RoutingIsCoupled ==
  ASSUME NEW dev, IsDevice(dev), NEW p, StandardProgram(p)
  PROVE  IsRouted(dev, p.wires, Route(dev, p))
<1> DEFINE n == p.wires
           L == Len(p.ops)
           Q == 0 .. (n - 1)
           S == StandardOps(Q)
           R == RoutedOps(dev, Q)
           at == Places(dev, p)
           swaps == [k \in 1 .. L |-> RouteSwaps(dev, at[k], p.ops[k])]
           steps == [k \in 1 .. L |-> RouteStep(dev, at[k], p.ops[k])]
           all == [at |-> Upto(n), ops |-> p.ops, swaps |-> 0]
           some == [at |-> at[L + 1], ops |-> Concat(L, steps), swaps |-> Len(Concat(L, swaps))]
           r == Route(dev, p)
<1>1. r = IF FullyConnected(dev, n) THEN all ELSE some  BY DEF Route
<1>2. n \in Nat \ {0} /\ p.ops \in Seq(S)  BY DEF StandardProgram
<1>3. L \in Nat /\ \A k \in 1 .. (L + 1) : at[k] \in Layouts(n)
  <2>1. Len(p.ops) \in Nat /\ \A k \in 1 .. (Len(p.ops) + 1) : Places(dev, p)[k] \in Layouts(p.wires)  BY PlacesAre
  <2> QED  BY <2>1
<1>4. \A k \in 1 .. L : p.ops[k] \in S
  <2> HIDE DEF S
  <2> QED  BY <1>2, ElementOfSeq
<1> HIDE DEF r
<1>5. CASE FullyConnected(dev, n)
  <2>1. r = all  BY <1>1, <1>5
  <2>2. r.at = Upto(n) /\ r.ops = p.ops /\ r.swaps = 0  BY <2>1
  <2>3. Upto(n) \in Layouts(n)
    <3> DEFINE z == Upto(n)
    <3>1. z = [k \in 1 .. n |-> k - 1]  BY DEF Upto
    <3> HIDE DEF z
    <3>2. \A k \in 1 .. n : z[k] = k - 1 /\ z[k] \in 0 .. (n - 1)  BY <1>2, <3>1
    <3>3. z \in [1 .. n -> 0 .. (n - 1)]
      <4> DEFINE V == 0 .. (n - 1)
      <4> HIDE DEF V, n
      <4>1. \A k \in 1 .. n : z[k] \in V  BY <3>2 DEF V
      <4>2. z \in [1 .. n -> V]  BY <3>1, <4>1
      <4> QED  BY <4>2 DEF V
    <3>4. IsInjective(z)
      <4>1. DOMAIN z = 1 .. n  BY <3>1
      <4>2. \A j, k \in 1 .. n : z[j] = z[k] => j = k  BY <3>2
      <4> QED  BY <4>1, <4>2 DEF IsInjective
    <3> QED  BY <3>3, <3>4 DEF Layouts, Tables_, z
  <2>4. ASSUME n = dev.size  PROVE p.ops \in Seq(R)
    <3>1. ASSUME NEW k \in 1 .. L  PROVE p.ops[k] \in R
      <4> DEFINE o == p.ops[k]
      <4>1. o \in S  BY <1>4
      <4> HIDE DEF o
      <4>2. OnCoupling(dev, o)
        <5> SUFFICES ASSUME o.op = "gate", Len(o.wires) = 2  PROVE Coupled(dev, o.wires[1], o.wires[2])
          BY DEF OnCoupling
        <5>1. o.wires \in Seq(Q) /\ IsInjective(o.wires)  BY <4>1 DEF StandardOps, IsStandard
        <5>2. \A i \in 1 .. 2 : o.wires[i] \in Q  BY <5>1, ElementOfSeq
        <5>3. 1 \in DOMAIN o.wires /\ 2 \in DOMAIN o.wires  BY <5>1, LenProperties
        <5>4. o.wires[1] # o.wires[2]  BY <5>1, <5>3 DEF IsInjective
        <5>5. o.wires[1] \in 0 .. (dev.size - 1) /\ o.wires[2] \in 0 .. (dev.size - 1)
          <6>1. o.wires[1] \in Q /\ o.wires[2] \in Q  BY <5>2
          <6> QED  BY <2>4, <6>1
        <5>6. FullyConnected(dev, dev.size)  BY <1>5, <2>4
        <5> QED  BY <5>4, <5>5, <5>6, AllCoupled
      <4>3. o \in R  BY <4>1, <4>2 DEF RoutedOps
      <4> QED  BY <4>3 DEF o
    <3> DEFINE ops == p.ops
    <3>2. ops \in Seq(S) /\ L = Len(ops)  BY <1>2
    <3>3. \A k \in 1 .. L : ops[k] \in R
      <4> HIDE DEF R, L
      <4> QED  BY <3>1
    <3> HIDE DEF ops, R, S, L
    <3>4. ops = [k \in 1 .. L |-> ops[k]]  BY <3>2
    <3>5. ops \in Seq(R)  BY <1>3, <3>3, <3>4, FunctionIsSeq
    <3> QED  BY <3>5 DEF ops
  <2> HIDE DEF S, R, Q, n
  <2>5. r.ops \in Seq(S) /\ (n = dev.size => r.ops \in Seq(R)) /\ r.at \in Layouts(n) /\ r.swaps \in Nat
    BY <1>2, <2>2, <2>3, <2>4
  <2> QED  BY <2>5 DEF IsRouted, S, R, Q, n, r
<1>6. CASE ~FullyConnected(dev, n)
  <2>1. r = some  BY <1>1, <1>6
  <2>2. r.at = at[L + 1] /\ r.ops = Concat(L, steps) /\ r.swaps = Len(Concat(L, swaps))  BY <2>1
  <2>3. \A k \in 1 .. L : steps[k] = RouteStep(dev, at[k], p.ops[k]) /\ swaps[k] = RouteSwaps(dev, at[k], p.ops[k])
    OBVIOUS
  <2> HIDE DEF steps, swaps, at, L
  <2>4. \A k \in 1 .. L : StepRouted(dev, Q, swaps[k], steps[k])
    <3> TAKE k \in 1 .. L
    <3> DEFINE t == at[k]
               o == p.ops[k]
    <3>1. k \in 1 .. (L + 1)  BY <1>3
    <3>2. t \in Layouts(n) /\ o \in S  BY <1>3, <1>4, <3>1
    <3>3. steps[k] = RouteStep(dev, t, o) /\ swaps[k] = RouteSwaps(dev, t, o)  BY <2>3
    <3> HIDE DEF t, o
    <3>4. StepRouted(dev, 0 .. (n - 1), RouteSwaps(dev, t, o), RouteStep(dev, t, o))  BY <1>2, <3>2, RouteStepIs
    <3> QED  BY <3>3, <3>4
  <2> HIDE DEF S, R
  <2>5. \A k \in 1 .. L :
           /\ swaps[k] \in Seq(S) /\ steps[k] \in Seq(S)
           /\ Fails(steps[k]) \/ steps[k] \in Seq(R)
    BY <2>4 DEF StepRouted, S, R
  <2>6. r.ops \in Seq(S)  BY <1>3, <2>2, <2>5, ConcatType
  <2>7. r.swaps \in Nat
    <3>1. Concat(L, swaps) \in Seq(S)  BY <1>3, <2>5, ConcatType
    <3> QED  BY <2>2, <3>1, LenProperties
  <2>8. r.at \in Layouts(n)
    <3>1. L + 1 \in 1 .. (L + 1)  BY <1>3
    <3> QED  BY <1>3, <2>2, <3>1
  <2>9. Failed(r.ops) \/ r.ops \in Seq(R)
    <3>1. CASE \E k \in 1 .. L : Fails(steps[k])
      <4>1. PICK k \in 1 .. L : Fails(steps[k])  BY <3>1
      <4>2. Len(steps[k]) \in Nat /\ Len(steps[k]) >= 1 /\ steps[k][1].op = "fail"
        BY <2>5, <4>1, LenProperties DEF Fails
      <4>3. 1 \in 1 .. Len(steps[k])  BY <4>2
      <4>6. Has(Concat(L, steps), steps[k][1])
        <5>1. \A i \in 1 .. L : steps[i] \in Seq(S)  BY <2>5
        <5> QED  BY <1>3, <4>3, <5>1, ConcatHasAll
      <4>4. PICK j \in 1 .. Len(Concat(L, steps)) : Concat(L, steps)[j] = steps[k][1]  BY <4>6 DEF Has
      <4>5. j \in DOMAIN r.ops /\ r.ops[j].op = "fail"
        <5>1. DOMAIN r.ops = 1 .. Len(r.ops)  BY <2>6, LenProperties
        <5> QED  BY <2>2, <4>2, <4>4, <5>1
      <4> QED  BY <4>5 DEF Failed
    <3>2. CASE ~\E k \in 1 .. L : Fails(steps[k])
      <4>1. \A k \in 1 .. L : steps[k] \in Seq(R)  BY <2>5, <3>2
      <4> QED  BY <1>3, <2>2, <4>1, ConcatType
    <3> QED  BY <3>1, <3>2
  <2> HIDE DEF Q
  <2> QED  BY <2>6, <2>7, <2>8, <2>9 DEF IsRouted, S, R, Q, r
<1> QED  BY <1>5, <1>6 DEF r

(***************************************************************************)
(* The gates of the device                                                 *)
(***************************************************************************)
CxCoupled(dev, o) == o.op = "gate" /\ o.name = "cx" => Coupled(dev, o.wires[1], o.wires[2])
NativeOn(dev, n) ==
    {o \in NativeOperations : /\ o.wires \in Seq(0 .. (n - 1)) /\ IsInjective(o.wires)
                              /\ n = dev.size => CxCoupled(dev, o)}

LEMMA NativeGate1 ==
  ASSUME NEW dev, NEW n \in Nat, NEW q \in 0 .. (n - 1), NEW a \in Int
  PROVE  NRz(q, a) \in NativeOn(dev, n) /\ NSx(q) \in NativeOn(dev, n) /\ NX(q) \in NativeOn(dev, n)
<1> DEFINE Q == 0 .. (n - 1)
           one == <<a>>
           none == <<>>
           ws == <<q>>
<1>0. Q \in SUBSET Nat /\ q \in Q  OBVIOUS
<1>1. one \in Seq(Int) /\ Len(one) = 1  BY SeqSingle
<1>2. none \in Seq(Int) /\ Len(none) = 0  BY EmptySeq
<1>3. ws \in Seq(Q) /\ Len(ws) = 1 /\ IsInjective(ws)  BY <1>0, SeqSingle
<1> HIDE DEF one, none, ws, Q
<1>4. ASSUME NEW name \in {"rz", "sx", "x"}, NEW angles \in {one, none},
             name = "rz" => angles = one, name # "rz" => angles = none
      PROVE  Op("gate", name, ws, angles) \in NativeOn(dev, n)
  <2> DEFINE o == Op("gate", name, ws, angles)
  <2>1. o = [op |-> "gate", name |-> name, wires |-> ws, args |-> angles, sub |-> ""]  BY DEF Op
  <2>2. ws \in Seq(Nat) /\ angles \in Seq(Int)  BY <1>0, <1>1, <1>2, <1>3, SeqMonotonic
  <2> HIDE DEF o
  <2>3. o.op = "gate" /\ o.name = name /\ o.wires = ws /\ o.args = angles /\ o.sub = ""  BY <2>1
  <2>4. o \in Operations  BY <2>1, <2>2, KnownNames DEF Operations
  <2>5. DOMAIN NativeGates = {"rz", "sx", "x", "cx"} /\ NativeGates[name] = 1  BY DEF NativeGates
  <2>6. Len(o.args) = IF o.name = "rz" THEN 1 ELSE 0  BY <1>1, <1>2, <1>4, <2>3
  <2>7. o \in NativeOperations  BY <1>3, <2>3, <2>4, <2>5, <2>6 DEF NativeOperations, IsNativeOp
  <2>8. CxCoupled(dev, o)  BY <2>3 DEF CxCoupled
  <2> QED  BY <1>3, <2>3, <2>7, <2>8 DEF NativeOn, o, Q
<1>5. Op("gate", "rz", ws, one) \in NativeOn(dev, n)  BY <1>4
<1>6. Op("gate", "sx", ws, none) \in NativeOn(dev, n)  BY <1>4
<1>7. Op("gate", "x", ws, none) \in NativeOn(dev, n)  BY <1>4
<1> QED  BY <1>5, <1>6, <1>7 DEF NRz, NSx, NX, Turn, Gate, one, none, ws

LEMMA NativeCx ==
  ASSUME NEW dev, NEW n \in Nat, NEW a \in 0 .. (n - 1), NEW b \in 0 .. (n - 1), a # b,
         n = dev.size => Coupled(dev, a, b)
  PROVE  NCx(a, b) \in NativeOn(dev, n)
<1> DEFINE Q == 0 .. (n - 1)
           none == <<>>
           ws == <<a, b>>
           o == Op("gate", "cx", ws, none)
<1>0. Q \in SUBSET Nat /\ a \in Q /\ b \in Q  OBVIOUS
<1>2. none \in Seq(Int) /\ Len(none) = 0  BY EmptySeq
<1>3. ws \in Seq(Q) /\ Len(ws) = 2 /\ IsInjective(ws) /\ ws[1] = a /\ ws[2] = b  BY <1>0, SeqDouble
<1>n. NCx(a, b) = o  BY DEF NCx, Gate2
<1> HIDE DEF none, ws, Q
<1>4. o = [op |-> "gate", name |-> "cx", wires |-> ws, args |-> none, sub |-> ""]  BY DEF Op
<1>5. ws \in Seq(Nat)  BY <1>0, <1>3, SeqMonotonic
<1> HIDE DEF o
<1>6. o.op = "gate" /\ o.name = "cx" /\ o.wires = ws /\ o.args = none /\ o.sub = ""  BY <1>4
<1>7. o \in Operations  BY <1>2, <1>4, <1>5, KnownNames DEF Operations
<1>8. DOMAIN NativeGates = {"rz", "sx", "x", "cx"} /\ NativeGates["cx"] = 2  BY DEF NativeGates
<1>9. o \in NativeOperations  BY <1>2, <1>3, <1>6, <1>7, <1>8 DEF NativeOperations, IsNativeOp
<1>10. n = dev.size => CxCoupled(dev, o)  BY <1>3, <1>6 DEF CxCoupled
<1> QED  BY <1>3, <1>6, <1>9, <1>10, <1>n DEF NativeOn, Q

\* Rows of up to five operations.
LEMMA Rows5 ==
  ASSUME NEW S, NEW a \in S, NEW b \in S, NEW c \in S, NEW d \in S, NEW e \in S
  PROVE  /\ <<a>> \in Seq(S) /\ <<a, b>> \in Seq(S) /\ <<a, b, c>> \in Seq(S)
         /\ <<a, b, c, d, e>> \in Seq(S)
OBVIOUS

LEMMA HadamardNative ==
  ASSUME NEW dev, NEW n \in Nat, NEW q \in 0 .. (n - 1)
  PROVE  Hadamard(q) \in Seq(NativeOn(dev, n))
<1> DEFINE S == NativeOn(dev, n)
           x == NRz(q, Quarter)
           y == NSx(q)
<1>1. Quarter \in Int  BY DEF Quarter, Pi
<1>2. x \in S /\ y \in S  BY <1>1, NativeGate1
<1>3. Hadamard(q) = <<x, y, x>>  BY DEF Hadamard
<1> HIDE DEF x, y, S
<1> QED  BY <1>2, <1>3, Rows5 DEF S

LEMMA Native1Is ==
  ASSUME NEW dev, NEW n \in Nat, NEW o \in StandardOps(0 .. (n - 1)), o.op = "gate", Len(o.wires) = 1
  PROVE  Native1(o) \in Seq(NativeOn(dev, n)) \cup {Fail}
<1> DEFINE S == NativeOn(dev, n)
           q == o.wires[1]
           a == o.args
           rot == [Z |-> Pi, S |-> Quarter, Sdg |-> -Quarter, T |-> Pi \div 4, Tdg |-> -(Pi \div 4)]
           R == Seq(S)
<1>1. IsStandard(0 .. (n - 1), o)  BY DEF StandardOps
<1>2. q \in 0 .. (n - 1)
  <2>1. o.wires \in Seq(0 .. (n - 1)) /\ 1 \in 1 .. Len(o.wires)  BY <1>1 DEF IsStandard
  <2> QED  BY <2>1, ElementOfSeq
<1>3. a \in Seq(Int) /\ (o.name \in {"Rx", "Ry", "Rz"} => Len(a) > 0) /\ (o.name = "U3" => Len(a) > 2)
  BY <1>1 DEF IsStandard
<1>4. o.name \in {"Rx", "Ry", "Rz"} => a[1] \in Int
  <2> SUFFICES ASSUME Len(a) > 0  PROVE a[1] \in Int  BY <1>3
  <2>1. 1 \in 1 .. Len(a)  BY <1>3, LenProperties
  <2> QED  BY <1>3, <2>1, ElementOfSeq
<1>5. o.name = "U3" => a[1] \in Int /\ a[2] \in Int /\ a[3] \in Int
  <2> SUFFICES ASSUME Len(a) > 2  PROVE \A i \in 1 .. 3 : a[i] \in Int  BY <1>3
  <2>1. Len(a) \in Nat  BY <1>3, LenProperties
  <2> TAKE i \in 1 .. 3
  <2>2. i \in 1 .. Len(a)  BY <2>1
  <2> QED  BY <1>3, <2>2, ElementOfSeq
<1>p. Pi \in Int /\ Quarter \in Int /\ -Quarter \in Int /\ Pi \div 4 \in Int /\ -(Pi \div 4) \in Int  BY DEF Pi, Quarter
<1>6. \A z \in Int : NRz(q, z) \in S /\ NSx(q) \in S /\ NX(q) \in S  BY <1>2, NativeGate1
<1>t. \A s \in DOMAIN rot : rot[s] \in Int
  <2> HIDE DEF q, a
  <2> QED  BY <1>p
<1>7. Native1(o) =
        CASE o.name = "H" -> Hadamard(q)
          [] o.name = "X" -> <<NX(q)>>
          [] o.name = "Y" -> <<NRz(q, Pi), NX(q)>>
          [] o.name \in DOMAIN rot -> <<NRz(q, rot[o.name])>>
          [] o.name = "Rz" -> <<NRz(q, a[1])>>
          [] o.name = "Rx" -> <<NRz(q, -Quarter), NSx(q), NRz(q, Pi - a[1]), NSx(q), NRz(q, -Quarter)>>
          [] o.name = "Ry" -> <<NRz(q, Quarter), NSx(q), NRz(q, a[1] - Pi), NSx(q), NRz(q, -Quarter)>>
          [] o.name = "U3" -> <<NRz(q, a[3]), NSx(q), NRz(q, a[1] + Pi), NSx(q), NRz(q, a[2] + Pi)>>
          [] OTHER -> Fail
  BY DEF Native1
<1>8. Hadamard(q) \in R  BY <1>2, HadamardNative
<1> DEFINE N(z) == NRz(q, z)
           sx == NSx(q)
           x == NX(q)
           name == o.name
<1>9. sx \in S /\ x \in S /\ \A z \in Int : N(z) \in S  BY <1>6, <1>p
<1> HIDE DEF S, N, sx, x, a, rot, name, q
<1>10. <<x>> \in R /\ <<N(Pi), x>> \in R  BY <1>9, <1>p, Rows5
<1>11. name \in DOMAIN rot => <<N(rot[name])>> \in R  BY <1>9, <1>t, Rows5
<1>12. name = "Rz" => <<N(a[1])>> \in R  BY <1>4, <1>9, Rows5 DEF name
<1>13. name = "Rx" => <<N(-Quarter), sx, N(Pi - a[1]), sx, N(-Quarter)>> \in R
  <2> SUFFICES ASSUME name = "Rx"  PROVE <<N(-Quarter), sx, N(Pi - a[1]), sx, N(-Quarter)>> \in R  OBVIOUS
  <2>1. Pi - a[1] \in Int  BY <1>4, <1>p DEF name
  <2>2. N(Pi - a[1]) \in S /\ N(-Quarter) \in S  BY <1>9, <1>p, <2>1
  <2> QED  BY <1>9, <2>2, Rows5
<1>14. name = "Ry" => <<N(Quarter), sx, N(a[1] - Pi), sx, N(-Quarter)>> \in R
  <2> SUFFICES ASSUME name = "Ry"  PROVE <<N(Quarter), sx, N(a[1] - Pi), sx, N(-Quarter)>> \in R  OBVIOUS
  <2>1. a[1] - Pi \in Int  BY <1>4, <1>p DEF name
  <2>2. N(a[1] - Pi) \in S /\ N(-Quarter) \in S /\ N(Quarter) \in S  BY <1>9, <1>p, <2>1
  <2> QED  BY <1>9, <2>2, Rows5
<1>15. name = "U3" => <<N(a[3]), sx, N(a[1] + Pi), sx, N(a[2] + Pi)>> \in R
  <2> SUFFICES ASSUME name = "U3"  PROVE <<N(a[3]), sx, N(a[1] + Pi), sx, N(a[2] + Pi)>> \in R  OBVIOUS
  <2>1. a[3] \in Int /\ a[1] + Pi \in Int /\ a[2] + Pi \in Int  BY <1>5, <1>p DEF name
  <2>2. N(a[3]) \in S /\ N(a[1] + Pi) \in S /\ N(a[2] + Pi) \in S  BY <1>9, <2>1
  <2> QED  BY <1>9, <2>2, Rows5
<1>16. Native1(o) =
        CASE name = "H" -> Hadamard(q)
          [] name = "X" -> <<x>>
          [] name = "Y" -> <<N(Pi), x>>
          [] name \in DOMAIN rot -> <<N(rot[name])>>
          [] name = "Rz" -> <<N(a[1])>>
          [] name = "Rx" -> <<N(-Quarter), sx, N(Pi - a[1]), sx, N(-Quarter)>>
          [] name = "Ry" -> <<N(Quarter), sx, N(a[1] - Pi), sx, N(-Quarter)>>
          [] name = "U3" -> <<N(a[3]), sx, N(a[1] + Pi), sx, N(a[2] + Pi)>>
          [] OTHER -> Fail
  BY <1>7 DEF name, N, sx, x, a, rot, q
<1> DEFINE v1 == Hadamard(q)
           v2 == <<x>>
           v3 == <<N(Pi), x>>
           v4 == <<N(rot[name])>>
           v5 == <<N(a[1])>>
           v6 == <<N(-Quarter), sx, N(Pi - a[1]), sx, N(-Quarter)>>
           v7 == <<N(Quarter), sx, N(a[1] - Pi), sx, N(-Quarter)>>
           v8 == <<N(a[3]), sx, N(a[1] + Pi), sx, N(a[2] + Pi)>>
           known == name \in DOMAIN rot
           U == R \cup {Fail}
<1>17. /\ v1 \in U /\ v2 \in U /\ v3 \in U /\ (known => v4 \in U) /\ (name = "Rz" => v5 \in U)
       /\ (name = "Rx" => v6 \in U) /\ (name = "Ry" => v7 \in U) /\ (name = "U3" => v8 \in U) /\ Fail \in U
  BY <1>8, <1>10, <1>11, <1>12, <1>13, <1>14, <1>15
<1>18. Native1(o) = CASE name = "H" -> v1 [] name = "X" -> v2 [] name = "Y" -> v3 [] known -> v4
                      [] name = "Rz" -> v5 [] name = "Rx" -> v6 [] name = "Ry" -> v7 [] name = "U3" -> v8
                      [] OTHER -> Fail
  BY <1>16
<1> HIDE DEF v1, v2, v3, v4, v5, v6, v7, v8, known, U, R
<1>19. Native1(o) \in U  BY <1>17, <1>18
<1> QED  BY <1>19 DEF U, R, S

LEMMA Native2Is ==
  ASSUME NEW dev, IsDevice(dev), NEW n \in Nat, NEW o \in StandardOps(0 .. (n - 1)), o.op = "gate", Len(o.wires) = 2,
         n = dev.size => OnCoupling(dev, o)
  PROVE  Native2(o) \in Seq(NativeOn(dev, n)) \cup {Fail}
<1> DEFINE S == NativeOn(dev, n)
           Q == 0 .. (n - 1)
           a == o.wires[1]
           b == o.wires[2]
           R == Seq(S)
           x == NCx(a, b)
           y == NCx(b, a)
           h == Hadamard(b)
           three == h \o <<x>> \o h
           U == R \cup {Fail}
<1>1. IsStandard(Q, o)  BY DEF StandardOps
<1>2. o.wires \in Seq(Q) /\ IsInjective(o.wires)  BY <1>1 DEF IsStandard
<1>3. a \in Q /\ b \in Q
  <2>1. \A i \in 1 .. 2 : o.wires[i] \in Q
    <3> HIDE DEF Q
    <3> QED  BY <1>2, ElementOfSeq
  <2> HIDE DEF Q
  <2> QED  BY <2>1
<1>4. a # b
  <2>1. 1 \in DOMAIN o.wires /\ 2 \in DOMAIN o.wires
    <3> HIDE DEF Q
    <3> QED  BY <1>2, LenProperties
  <2> QED  BY <1>2, <2>1 DEF IsInjective
<1>5. n = dev.size => Coupled(dev, a, b) /\ Coupled(dev, b, a)
  <2> SUFFICES ASSUME n = dev.size  PROVE Coupled(dev, a, b) /\ Coupled(dev, b, a)  OBVIOUS
  <2>1. Coupled(dev, a, b)  BY DEF OnCoupling
  <2> HIDE DEF a, b
  <2> QED  BY <2>1, CoupledInside
<1>6. Native2(o) = CASE o.name = "Cx" -> <<x>>
                     [] o.name = "Cz" -> three
                     [] o.name = "Swap" -> <<x, y, x>>
                     [] OTHER -> Fail
  BY DEF Native2
<1> HIDE DEF a, b
<1>7. x \in S  BY <1>3, <1>4, <1>5, NativeCx DEF Q
<1>8. y \in S  BY <1>3, <1>4, <1>5, NativeCx DEF Q
<1>9. h \in R  BY <1>3, HadamardNative DEF Q
<1> HIDE DEF x, y, h, S, Q
<1>10. <<x>> \in R /\ <<x, y, x>> \in R  BY <1>7, <1>8, Rows5
<1>11. three \in R
  <2>1. h \o <<x>> \in R  BY <1>9, <1>10, Joined
  <2> DEFINE z == h \o <<x>>
  <2>2. z \in R  BY <2>1
  <2> HIDE DEF z
  <2>3. z \o h \in R  BY <1>9, <2>2, Joined
  <2> QED  BY <2>3 DEF z
<1> DEFINE v1 == <<x>>
           v3 == <<x, y, x>>
<1>12. v1 \in U /\ three \in U /\ v3 \in U /\ Fail \in U  BY <1>10, <1>11
<1>13. Native2(o) = CASE o.name = "Cx" -> v1 [] o.name = "Cz" -> three [] o.name = "Swap" -> v3 [] OTHER -> Fail
  BY <1>6
<1> HIDE DEF v1, v3, three, U, R
<1>14. Native2(o) \in U  BY <1>12, <1>13
<1> QED  BY <1>14 DEF U, R, S

LEMMA BitNative ==
  ASSUME NEW dev, NEW n \in Nat, NEW ws, NEW bits \in Seq(Int), Len(bits) = 1,
         ws \in Seq(0 .. (n - 1)), Len(ws) = 1
  PROVE  Op("bit", "", ws, bits) \in NativeOn(dev, n)
<1> DEFINE o == Op("bit", "", ws, bits)
           Q == 0 .. (n - 1)
<1>1. o = [op |-> "bit", name |-> "", wires |-> ws, args |-> bits, sub |-> ""]  BY DEF Op
<1>0. Q \in SUBSET Nat /\ ws \in Seq(Q)  OBVIOUS
<1> HIDE DEF o, Q
<1>2. ws \in Seq(Nat)  BY <1>0, SeqMonotonic
<1>3. IsInjective(ws)
  <2>1. DOMAIN ws = 1 .. 1  BY <1>0, LenProperties
  <2> QED  BY <2>1 DEF IsInjective
<1>4. o.op = "bit" /\ o.name = "" /\ o.wires = ws /\ o.args = bits /\ o.sub = ""  BY <1>1
<1>5. o \in Operations  BY <1>1, <1>2, KnownNames DEF Operations
<1>6. o \in NativeOperations  BY <1>4, <1>5 DEF NativeOperations, IsNativeOp
<1>7. CxCoupled(dev, o)  BY <1>4 DEF CxCoupled
<1> QED  BY <1>0, <1>3, <1>4, <1>6, <1>7 DEF NativeOn, o, Q

LEMMA NativeOpsIs ==
  ASSUME NEW dev, IsDevice(dev), NEW n \in Nat, NEW o \in StandardOps(0 .. (n - 1)),
         n = dev.size => OnCoupling(dev, o)
  PROVE  NativeOps(o) \in Seq(NativeOn(dev, n)) \cup {Fail}
<1> DEFINE S == NativeOn(dev, n)
           Q == 0 .. (n - 1)
           U == Seq(S) \cup {Fail}
           w == o.wires
           L == Len(w)
           gate == IF Len(o.wires) = 1 THEN Native1(o) ELSE Native2(o)
           bits == [i \in DOMAIN o.wires |-> Op("bit", "", <<o.wires[i]>>, <<i - 1>>)]
           bit == <<Op("bit", "", o.wires, o.wires)>>
           same == <<o>>
           none == <<>>
<1>1. IsStandard(Q, o) /\ o \in Operations  BY DEF StandardOps
<1>2. w \in Seq(Q) /\ IsInjective(w)  BY <1>1 DEF IsStandard
<1>0. Q \in SUBSET Nat  OBVIOUS
<1>3. L \in Nat /\ DOMAIN w = 1 .. L /\ \A i \in 1 .. L : w[i] \in Q
  <2> HIDE DEF Q
  <2> QED  BY <1>2, LenProperties, ElementOfSeq
<1>4. NativeOps(o) = CASE o.op = "gate" -> gate
                       [] o.op = "prep" -> none
                       [] o.op = "measure" -> bits
                       [] o.op = "measqubit" -> bit
                       [] o.op \in {"barrier", "reset"} -> same
                       [] OTHER -> Fail
  BY DEF NativeOps
<1>5. o.op = "gate" => gate \in U
  <2> SUFFICES ASSUME o.op = "gate"  PROVE gate \in U  OBVIOUS
  <2>1. L = 1 \/ L = 2  BY <1>1 DEF IsStandard
  <2> HIDE DEF U
  <2>2. CASE L = 1
    <3>1. Native1(o) \in U  BY <2>2, Native1Is DEF U
    <3> QED  BY <2>2, <3>1
  <2>3. CASE L = 2
    <3>1. Native2(o) \in U  BY <2>3, Native2Is DEF U
    <3>2. gate = Native2(o)  BY <2>3
    <3> QED  BY <3>1, <3>2
  <2> QED  BY <2>1, <2>2, <2>3
<1>6. none \in U
  <2>1. none \in Seq(S)  BY EmptySeq
  <2> QED  BY <2>1
<1>7. bits \in U
  <2>1. bits = [i \in 1 .. L |-> Op("bit", "", <<w[i]>>, <<i - 1>>)]  BY <1>3
  <2> HIDE DEF bits
  <2>2. \A i \in 1 .. L : bits[i] \in S
    <3> TAKE i \in 1 .. L
    <3> DEFINE v == w[i]
               j == i - 1
               ws == <<v>>
               z == <<j>>
    <3>1. v \in Q /\ j \in Int  BY <1>3
    <3>2. bits[i] = Op("bit", "", ws, z)  BY <2>1
    <3> HIDE DEF v, j, Q
    <3>3. ws \in Seq(Q) /\ Len(ws) = 1  BY <3>1, SeqSingle
    <3>4. z \in Seq(Int) /\ Len(z) = 1  BY <3>1, SeqSingle
    <3> HIDE DEF ws, z
    <3>5. Op("bit", "", ws, z) \in S  BY <3>3, <3>4, BitNative DEF Q
    <3> HIDE DEF S
    <3> QED  BY <3>2, <3>5
  <2>3. bits = [i \in 1 .. L |-> bits[i]]  BY <2>1
  <2> HIDE DEF S, L
  <2>4. bits \in Seq(S)  BY <1>3, <2>2, <2>3, FunctionIsSeq
  <2> QED  BY <2>4
<1>8. o.op = "measqubit" => bit \in U
  <2> SUFFICES ASSUME o.op = "measqubit"  PROVE bit \in U  OBVIOUS
  <2>1. L = 1  BY <1>1 DEF IsStandard
  <2>2. w \in Seq(Int)
    <3>1. Q \subseteq Int  BY <1>0
    <3> HIDE DEF Q
    <3> QED  BY <1>2, <3>1, SeqMonotonic
  <2> DEFINE z == Op("bit", "", o.wires, o.wires)
  <2>3. z \in S  BY <1>2, <2>1, <2>2, BitNative
  <2> HIDE DEF z, S
  <2>4. <<z>> \in Seq(S)  BY <2>3, SeqSingle
  <2> QED  BY <2>4 DEF z
<1>9. o.op \in {"barrier", "reset"} => same \in U
  <2> SUFFICES ASSUME o.op \in {"barrier", "reset"}  PROVE same \in U  OBVIOUS
  <2>1. o.op = "reset" => L = 1  BY <1>1 DEF IsStandard
  <2>2. o \in NativeOperations  BY <1>1, <2>1 DEF NativeOperations, IsNativeOp
  <2>3. CxCoupled(dev, o)  BY DEF CxCoupled
  <2>4. o \in S  BY <1>2, <2>2, <2>3 DEF NativeOn
  <2> HIDE DEF S
  <2>5. <<o>> \in Seq(S)  BY <2>4, SeqSingle
  <2> QED  BY <2>5
<1>10. Fail \in U  OBVIOUS
<1> HIDE DEF U, gate, none, bits, bit, same
<1>11. NativeOps(o) \in U  BY <1>4, <1>5, <1>6, <1>7, <1>8, <1>9, <1>10
<1> QED  BY <1>11 DEF U

\* The whole circuit, unless it fails.
LEMMA NativeIs ==
  ASSUME NEW dev, IsDevice(dev), NEW n \in Nat, NEW ops \in Seq(StandardOps(0 .. (n - 1))),
         n = dev.size => ops \in Seq(RoutedOps(dev, 0 .. (n - 1)))
  PROVE  Failed(Native(ops)) \/ Native(ops) \in Seq(NativeOn(dev, n))
<1> DEFINE S == NativeOn(dev, n)
           Q == 0 .. (n - 1)
           A == StandardOps(Q)
           L == Len(ops)
           parts == [k \in 1 .. L |-> NativeOps(ops[k])]
           all == Concat(L, parts)
<1>1. L \in Nat /\ DOMAIN ops = 1 .. L /\ \A k \in 1 .. L : ops[k] \in A
  <2> HIDE DEF A
  <2> QED  BY LenProperties, ElementOfSeq DEF A
<1>2. Native(ops) = all
  <2>1. parts = [k \in DOMAIN ops |-> NativeOps(ops[k])]  BY <1>1
  <2> HIDE DEF parts
  <2> QED  BY <2>1 DEF Native
<1>3. n = dev.size => \A k \in 1 .. L : OnCoupling(dev, ops[k])
  <2> SUFFICES ASSUME n = dev.size, NEW k \in 1 .. L  PROVE OnCoupling(dev, ops[k])  OBVIOUS
  <2> DEFINE R == RoutedOps(dev, Q)
  <2>1. ops \in Seq(R)  OBVIOUS
  <2> HIDE DEF R
  <2>2. ops[k] \in R  BY <2>1, ElementOfSeq
  <2> QED  BY <2>2 DEF R, RoutedOps
<1>4. \A k \in 1 .. L : parts[k] \in Seq(S) \cup {Fail}
  <2> TAKE k \in 1 .. L
  <2> DEFINE o == ops[k]
  <2>1. o \in A /\ (n = dev.size => OnCoupling(dev, o))  BY <1>1, <1>3
  <2>2. parts[k] = NativeOps(o)  OBVIOUS
  <2> HIDE DEF o
  <2>3. NativeOps(o) \in Seq(NativeOn(dev, n)) \cup {Fail}  BY <2>1, NativeOpsIs
  <2> QED  BY <2>2, <2>3
<1>5. Fail \in Seq(Operations) /\ Len(Fail) = 1 /\ Fail[1].op = "fail"
  <2>1. Fail \in Seq(A) /\ Len(Fail) = 1 /\ Fail[1].op = "fail"  BY FailStandard
  <2>2. A \subseteq Operations  BY DEF StandardOps
  <2> HIDE DEF A
  <2> QED  BY <2>1, <2>2, SeqMonotonic
<1>6. Seq(S) \subseteq Seq(Operations)
  <2>1. S \subseteq Operations  BY DEF NativeOn, NativeOperations
  <2> HIDE DEF S
  <2> QED  BY <2>1, SeqMonotonic
<1>7. \A k \in 1 .. L : parts[k] \in Seq(Operations)  BY <1>4, <1>5, <1>6
<1> HIDE DEF parts, S, L
<1>8. CASE \E k \in 1 .. L : parts[k] = Fail
  <2>1. PICK k \in 1 .. L : parts[k] = Fail  BY <1>8
  <2>0. Len(parts[k]) = 1  BY <1>5, <2>1, Zenon
  <2>2. 1 \in 1 .. Len(parts[k])  BY <2>0
  <2>3. Has(all, parts[k][1])  BY <1>1, <1>7, <2>2, ConcatHasAll
  <2>4. PICK j \in 1 .. Len(all) : all[j] = parts[k][1]  BY <2>3 DEF Has
  <2>5. all \in Seq(Operations)  BY <1>1, <1>7, ConcatType
  <2> HIDE DEF all
  <2>6. j \in DOMAIN all  BY <2>5, LenProperties
  <2>7. all[j].op = "fail"  BY <1>5, <2>1, <2>4
  <2> QED  BY <1>2, <2>6, <2>7 DEF Failed
<1>9. CASE ~\E k \in 1 .. L : parts[k] = Fail
  <2>1. \A k \in 1 .. L : parts[k] \in Seq(S)  BY <1>4, <1>9
  <2>2. all \in Seq(S)  BY <1>1, <2>1, ConcatType
  <2> QED  BY <1>2, <2>2 DEF S
<1> QED  BY <1>8, <1>9

(***************************************************************************)
(* The optimizer                                                           *)
(***************************************************************************)
\* Operations of the device among which are the gates the optimizer writes
\* instead of theirs.
Closed(S) ==
    /\ S \subseteq NativeOperations
    /\ \A o \in S : o.op = "gate" => NX(o.wires[1]) \in S /\ \A a \in Int : NRz(o.wires[1], a) \in S

LEMMA GateHasAWire ==
  ASSUME NEW Q, NEW o \in NativeOperations, o.op = "gate", o.wires \in Seq(Q)
  PROVE  o.wires[1] \in Q
<1>1. o.name \in DOMAIN NativeGates /\ Len(o.wires) = NativeGates[o.name]  BY DEF NativeOperations, IsNativeOp
<1> DEFINE L == Len(o.wires)
<1>2. L = 1 \/ L = 2  BY <1>1 DEF NativeGates
<1> HIDE DEF L
<1>4. 1 \in 1 .. L  BY <1>2
<1>3. 1 \in 1 .. Len(o.wires)  BY <1>4 DEF L
<1> QED  BY <1>3, ElementOfSeq

LEMMA DeviceClosed ==
  ASSUME NEW dev, NEW n \in Nat
  PROVE  Closed(NativeOn(dev, n))
<1> DEFINE S == NativeOn(dev, n)
<1>1. S \subseteq NativeOperations  BY DEF NativeOn
<1>2. ASSUME NEW o \in S, o.op = "gate", NEW a \in Int
      PROVE  NX(o.wires[1]) \in S /\ NRz(o.wires[1], a) \in S
  <2> DEFINE q == o.wires[1]
  <2>1. o \in NativeOperations /\ o.wires \in Seq(0 .. (n - 1))  BY DEF NativeOn
  <2>2. q \in 0 .. (n - 1)
    <3> DEFINE Q == 0 .. (n - 1)
    <3>1. o.wires \in Seq(Q)  BY <2>1
    <3> HIDE DEF Q
    <3>2. o.wires[1] \in Q  BY <1>2, <2>1, <3>1, GateHasAWire
    <3> QED  BY <3>2 DEF Q
  <2> HIDE DEF q
  <2>3. NX(q) \in S /\ NRz(q, a) \in S  BY <2>2, NativeGate1
  <2> QED  BY <2>3 DEF q
<1> HIDE DEF S
<1>4. 0 \in Int  OBVIOUS
<1>3. Closed(S)  BY <1>1, <1>2, <1>4 DEF Closed
<1> QED  BY <1>3 DEF S

LEMMA NativeClosed == Closed(NativeOperations)
<1>2. ASSUME NEW o \in NativeOperations, o.op = "gate", NEW a \in Int
      PROVE  NX(o.wires[1]) \in NativeOperations /\ NRz(o.wires[1], a) \in NativeOperations
  <2> DEFINE q == o.wires[1]
             n == q + 1
  <2>1. o.wires \in Seq(Nat)  BY DEF NativeOperations, Operations
  <2>2. q \in Nat  BY <1>2, <2>1, GateHasAWire
  <2> HIDE DEF q
  <2>3. n \in Nat /\ q \in 0 .. (n - 1)  BY <2>2
  <2> HIDE DEF n
  <2>4. NX(q) \in NativeOn(0, n) /\ NRz(q, a) \in NativeOn(0, n)  BY <2>3, NativeGate1
  <2>5. NX(q) \in NativeOperations /\ NRz(q, a) \in NativeOperations  BY <2>4 DEF NativeOn
  <2> QED  BY <2>5 DEF q
<1>3. 0 \in Int  OBVIOUS
<1> QED  BY <1>2, <1>3 DEF Closed

LEMMA NextOnIs ==
  ASSUME NEW ops, Len(ops) \in Nat, NEW i \in 1 .. (Len(ops) + 1), NEW q
  PROVE  NextOn(ops, i, q) \in i .. (Len(ops) + 1)
<1> DEFINE N == Len(ops)
           K == {j \in i .. (N + 1) : j = N + 1 \/ Touches(ops[j], q)}
<1>1. N \in Nat /\ N + 1 \in i .. (N + 1)  OBVIOUS
<1>2. K # {} /\ K \in SUBSET Nat  BY <1>1
<1>3. \A j : j \in K <=> j \in i .. (N + 1) /\ (j = N + 1 \/ Touches(ops[j], q))  OBVIOUS
<1> HIDE DEF K
<1>4. PICK m \in K : \A j \in K : m <= j  BY <1>2, Least
<1>5. m \in i .. (N + 1) /\ (m = N + 1 \/ Touches(ops[m], q))  BY <1>3
<1>6. ASSUME NEW k \in i .. (m - 1)  PROVE ~Touches(ops[k], q)
  <2>1. k \in i .. (N + 1) /\ ~(m <= k)  BY <1>1, <1>5
  <2> QED  BY <1>3, <1>4, <2>1
<1>7. \E j \in i .. (Len(ops) + 1) : /\ j = Len(ops) + 1 \/ Touches(ops[j], q)
                                     /\ \A k \in i .. (j - 1) : ~Touches(ops[k], q)
  BY <1>5, <1>6
<1> HIDE DEF N
<1> QED  BY <1>7, Zenon DEF NextOn

LEMMA BehindIs ==
  ASSUME NEW ops, NEW k \in Nat, NEW q
  PROVE  BeforeCxs(ops, k, q) \in 0 .. k
<1> DEFINE K == {d \in 0 .. k : d = k \/ ~CxFrom(ops[k - d], q)}
<1>1. K # {} /\ K \in SUBSET Nat  OBVIOUS
<1>3. \A j : j \in K <=> j \in 0 .. k /\ (j = k \/ ~CxFrom(ops[k - j], q))  OBVIOUS
<1> HIDE DEF K
<1>4. PICK m \in K : \A j \in K : m <= j  BY <1>1, Least
<1>5. m \in 0 .. k /\ (m = k \/ ~CxFrom(ops[k - m], q))  BY <1>3
<1>6. ASSUME NEW e \in 0 .. (m - 1)  PROVE CxFrom(ops[k - e], q)
  <2>1. e \in 0 .. k /\ ~(m <= e)  BY <1>5
  <2> QED  BY <1>3, <1>4, <2>1
<1> DEFINE d_ == CHOOSE d \in 0 .. k : /\ d = k \/ ~CxFrom(ops[k - d], q)
                                       /\ \A e \in 0 .. (d - 1) : CxFrom(ops[k - e], q)
<1>7. \E d \in 0 .. k : /\ d = k \/ ~CxFrom(ops[k - d], q)
                        /\ \A e \in 0 .. (d - 1) : CxFrom(ops[k - e], q)
  BY <1>5, <1>6
<1>8. d_ \in 0 .. k  BY <1>7, Zenon
<1>9. BeforeCxs(ops, k, q) = k - d_  BY DEF BeforeCxs
<1> HIDE DEF d_
<1> QED  BY <1>8, <1>9

\* What one operation becomes is of the same operations, and no more than one.
LEMMA CancelledIs ==
  ASSUME NEW S, Closed(S), NEW c \in Seq(S), NEW k \in 1 .. Len(c)
  PROVE  Cancelled(c, k) \in Seq(S) /\ Len(Cancelled(c, k)) <= 1
<1> DEFINE o == c[k]
           x == NX(o.wires[1])
           v1 == <<o>>
           v2 == <<x>>
           v3 == <<>>
           U == {s \in Seq(S) : Len(s) <= 1}
<1>1. o \in S  BY ElementOfSeq
<1>2. o.op = "gate" => x \in S  BY <1>1 DEF Closed
<1>3. Cancelled(c, k) =
        CASE o.op # "gate" -> v1
          [] o.op = "gate" /\ o.name \in {"x", "cx"} -> IF Opens(c, k) \/ Second(c, k) THEN v3 ELSE v1
          [] o.op = "gate" /\ o.name = "sx" ->
                IF Opens(c, k) THEN v2 ELSE IF Second(c, k) THEN v3 ELSE v1
          [] OTHER -> v1
  BY DEF Cancelled
<1> HIDE DEF o, x
<1>4. v1 \in U
  <2>1. v1 \in Seq(S) /\ Len(v1) = 1  BY <1>1, SeqSingle
  <2>2. Len(v1) <= 1  BY <2>1
  <2> HIDE DEF v1
  <2> QED  BY <2>1, <2>2
<1>5. o.op = "gate" => v2 \in U
  <2> SUFFICES ASSUME o.op = "gate"  PROVE v2 \in U  OBVIOUS
  <2>1. v2 \in Seq(S) /\ Len(v2) = 1  BY <1>2, SeqSingle
  <2>2. Len(v2) <= 1  BY <2>1
  <2> HIDE DEF v2
  <2> QED  BY <2>1, <2>2
<1>6. v3 \in U  BY EmptySeq
<1> HIDE DEF v1, v2, v3, U
<1>7. Cancelled(c, k) \in U  BY <1>3, <1>4, <1>5, <1>6
<1> QED  BY <1>7 DEF U

LEMMA MergedIs ==
  ASSUME NEW S, Closed(S), NEW c \in Seq(S), NEW k \in 1 .. Len(c)
  PROVE  Merged(c, k) \in Seq(S) /\ Len(Merged(c, k)) <= 1
<1> DEFINE o == c[k]
           m == Mate(c, k)
           rz == o.op = "gate" /\ o.name = "rz"
           sum == o.args[1] + c[m].args[1]
           z == NRz(o.wires[1], sum)
           whole == sum % (2 * Pi) = 0
           v1 == <<o>>
           v2 == <<z>>
           v3 == <<>>
           U == {s \in Seq(S) : Len(s) <= 1}
<1>1. o \in S  BY ElementOfSeq
<1>2. Merged(c, k) = IF ~rz THEN v1
                     ELSE IF Opens(c, k) THEN IF whole THEN v3 ELSE v2
                     ELSE IF Second(c, k) THEN v3 ELSE v1
  BY DEF Merged
<1>a. \A u \in S : u.op = "gate" /\ u.name = "rz" => u.args[1] \in Int
  <2> TAKE u \in S
  <2> SUFFICES ASSUME u.op = "gate", u.name = "rz"  PROVE u.args[1] \in Int  OBVIOUS
  <2>1. u \in NativeOperations  BY DEF Closed
  <2>2. Len(u.args) = 1 /\ u.args \in Seq(Int)  BY <2>1 DEF NativeOperations, IsNativeOp, Operations
  <2>3. 1 \in 1 .. Len(u.args)  BY <2>2
  <2> QED  BY <2>2, <2>3, ElementOfSeq
<1>3. rz /\ Opens(c, k) => z \in S
  <2> SUFFICES ASSUME rz, Opens(c, k)  PROVE z \in S  OBVIOUS
  <2>1. Linked(c, k)  BY DEF Opens
  <2>2. m <= Len(c) /\ Alike(o, c[m])  BY <2>1 DEF Linked, Mate
  <2>0. Len(c) \in Nat  BY LenProperties
  <2>3. m \in (k + 1) .. (Len(c) + 1)
    <3> DEFINE i == k + 1
    <3>1. i \in 1 .. (Len(c) + 1)  BY <2>0
    <3>2. m = NextOn(c, i, c[k].wires[1])  BY DEF Mate
    <3> HIDE DEF i, m
    <3>3. m \in i .. (Len(c) + 1)  BY <2>0, <3>1, <3>2, NextOnIs
    <3> QED  BY <3>3 DEF i
  <2> HIDE DEF m
  <2>4. m \in 1 .. Len(c)  BY <2>0, <2>2, <2>3
  <2>5. c[m] \in S  BY <2>4, ElementOfSeq
  <2>6. c[m].op = "gate" /\ c[m].name = "rz"  BY <2>2 DEF Alike
  <2>7. o.args[1] \in Int /\ c[m].args[1] \in Int  BY <1>1, <1>a, <2>5, <2>6
  <2>8. sum \in Int  BY <2>7
  <2> HIDE DEF sum, o
  <2> QED  BY <1>1, <2>8 DEF Closed
<1> HIDE DEF o, z, whole, rz
<1>4. v1 \in U
  <2>1. v1 \in Seq(S) /\ Len(v1) = 1  BY <1>1, SeqSingle
  <2>2. Len(v1) <= 1  BY <2>1
  <2> HIDE DEF v1
  <2> QED  BY <2>1, <2>2
<1>5. rz /\ Opens(c, k) => v2 \in U
  <2> SUFFICES ASSUME rz, Opens(c, k)  PROVE v2 \in U  OBVIOUS
  <2>1. v2 \in Seq(S) /\ Len(v2) = 1  BY <1>3, SeqSingle
  <2>2. Len(v2) <= 1  BY <2>1
  <2> HIDE DEF v2
  <2> QED  BY <2>1, <2>2
<1>6. v3 \in U  BY EmptySeq
<1> HIDE DEF v1, v2, v3, U
<1>7. Merged(c, k) \in U  BY <1>2, <1>4, <1>5, <1>6
<1> QED  BY <1>7 DEF U

LEMMA CommutedIs ==
  ASSUME NEW S, NEW c \in Seq(S), NEW k \in 1 .. Len(c)
  PROVE  Commuted(c, k) \in Seq(S)
<1> DEFINE q == c[k].wires[1]
           o == c[k]
           behind == BeforeCxs(c, k, q)
           b == c[behind]
           last == k = Len(c) \/ ~CxFrom(c[k + 1], q)
           A == RzOn(c, k, q) /\ k < Len(c) /\ CxFrom(c[k + 1], q)
           B == CxFrom(c[k], q) /\ last /\ RzOn(c, behind, q)
           v1 == <<>>
           v2 == <<o, b>>
           v3 == <<o>>
<1>1. o \in S  BY ElementOfSeq
<1>2. Commuted(c, k) = CASE A -> v1 [] B -> v2 [] OTHER -> v3  BY DEF Commuted
<1>3. B => b \in S
  <2> SUFFICES ASSUME B  PROVE b \in S  OBVIOUS
  <2>1. behind > 0  BY DEF RzOn
  <2>2. k \in Nat /\ Len(c) \in Nat  BY LenProperties
  <2> HIDE DEF q
  <2>3. behind \in 0 .. k  BY <2>2, BehindIs
  <2> HIDE DEF behind
  <2>4. behind \in 1 .. Len(c)  BY <2>1, <2>2, <2>3
  <2> QED  BY <2>4, ElementOfSeq
<1> HIDE DEF o, b, A, B
<1>4. v1 \in Seq(S)  BY EmptySeq
<1>5. B => v2 \in Seq(S)  BY <1>1, <1>3
<1>6. v3 \in Seq(S)  BY <1>1, SeqSingle
<1> HIDE DEF v1, v2, v3
<1> QED  BY <1>2, <1>4, <1>5, <1>6

NoLonger(S, c, d) == d \in Seq(S) /\ Len(d) \in Nat /\ Len(c) \in Nat /\ Len(d) <= Len(c)
LEMMA CancelIs ==
  ASSUME NEW S, Closed(S), NEW c \in Seq(S)
  PROVE  NoLonger(S, c, Cancel(c))
<1> DEFINE N == Len(c)
           parts == [k \in 1 .. N |-> Cancelled(c, k)]
<1>1. N \in Nat /\ DOMAIN c = 1 .. N  BY LenProperties
<1>2. \A k \in 1 .. N : parts[k] \in Seq(S) /\ Len(parts[k]) <= 1  BY CancelledIs
<1>3. Cancel(c) = Concat(N, parts)
  <2>1. parts = [k \in DOMAIN c |-> Cancelled(c, k)]  BY <1>1
  <2> HIDE DEF parts
  <2> QED  BY <2>1 DEF Cancel
<1> HIDE DEF parts, N
<1>4. Concat(N, parts) \in Seq(S)  BY <1>1, <1>2, ConcatType
<1>5. Len(Concat(N, parts)) <= N  BY <1>1, <1>2, ConcatShort
<1>6. Len(Concat(N, parts)) \in Nat  BY <1>4, LenProperties
<1> QED  BY <1>1, <1>3, <1>4, <1>5, <1>6 DEF NoLonger, N

LEMMA MergeRzIs ==
  ASSUME NEW S, Closed(S), NEW c \in Seq(S)
  PROVE  NoLonger(S, c, MergeRz(c))
<1> DEFINE N == Len(c)
           parts == [k \in 1 .. N |-> Merged(c, k)]
<1>1. N \in Nat /\ DOMAIN c = 1 .. N  BY LenProperties
<1>2. \A k \in 1 .. N : parts[k] \in Seq(S) /\ Len(parts[k]) <= 1  BY MergedIs
<1>3. MergeRz(c) = Concat(N, parts)
  <2>1. parts = [k \in DOMAIN c |-> Merged(c, k)]  BY <1>1
  <2> HIDE DEF parts
  <2> QED  BY <2>1 DEF MergeRz
<1> HIDE DEF parts, N
<1>4. Concat(N, parts) \in Seq(S)  BY <1>1, <1>2, ConcatType
<1>5. Len(Concat(N, parts)) <= N  BY <1>1, <1>2, ConcatShort
<1>6. Len(Concat(N, parts)) \in Nat  BY <1>4, LenProperties
<1> QED  BY <1>1, <1>3, <1>4, <1>5, <1>6 DEF NoLonger, N

LEMMA CommuteIs ==
  ASSUME NEW S, NEW c \in Seq(S)
  PROVE  Commute(c) \in Seq(S)
<1> DEFINE N == Len(c)
           parts == [k \in 1 .. N |-> Commuted(c, k)]
<1>1. N \in Nat /\ DOMAIN c = 1 .. N  BY LenProperties
<1>2. \A k \in 1 .. N : parts[k] \in Seq(S)  BY CommutedIs
<1>3. Commute(c) = Concat(N, parts)
  <2>1. parts = [k \in DOMAIN c |-> Commuted(c, k)]  BY <1>1
  <2> HIDE DEF parts
  <2> QED  BY <2>1 DEF Commute
<1> HIDE DEF parts, N
<1>4. Concat(N, parts) \in Seq(S)  BY <1>1, <1>2, ConcatType
<1> QED  BY <1>3, <1>4

LEMMA ShorterIs ==
  ASSUME NEW S, Closed(S), NEW c \in Seq(S)
  PROVE  NoLonger(S, c, MergeRz(Cancel(c)))
<1> DEFINE d == Cancel(c)
<1>1. NoLonger(S, c, d)  BY CancelIs
<1> HIDE DEF d
<1>2. NoLonger(S, d, MergeRz(d))  BY <1>1, MergeRzIs DEF NoLonger
<1>3. NoLonger(S, c, MergeRz(d))  BY <1>1, <1>2 DEF NoLonger
<1> QED  BY <1>3 DEF d

\* The rounds of cancelling and merging end, as none but the last leaves as
\* many operations as it found: settled exists, and does not leave the device.
Shrinks(D, sh) ==
    /\ sh \in [D -> D]
    /\ \A c \in D : Len(c) \in Nat /\ Len(sh[c]) <= Len(c)

SettledBy(D, sh, g) == \A c \in D : g[c] = IF Len(sh[c]) = Len(c) THEN sh[c] ELSE g[sh[c]]

LEMMA SettledExists ==
  ASSUME NEW D, NEW sh, Shrinks(D, sh)
  PROVE  \E g \in [D -> D] : SettledBy(D, sh, g)
<1> DEFINE F == [D -> D]
           N(f) == [c \in D |-> IF Len(sh[c]) = Len(c) THEN sh[c] ELSE f[sh[c]]]
           step == [s \in Nat \X F |-> N(s[2])]
<1>1. sh \in F /\ \A c \in D : sh[c] \in D /\ Len(c) \in Nat /\ Len(sh[c]) \in Nat /\ Len(sh[c]) <= Len(c)  BY DEF Shrinks
<1>2. ASSUME NEW f \in F  PROVE N(f) \in F  BY <1>1
<1>3. \A n \in Nat, f \in F : step[<<n, f>>] = N(f)  OBVIOUS
<1>4. \A f, c : c \in D => N(f)[c] = IF Len(sh[c]) = Len(c) THEN sh[c] ELSE f[sh[c]]  OBVIOUS
<1>5. \A f : f \in F => \A c \in D : f[c] \in D  OBVIOUS
<1> HIDE DEF step, N, F
<1>6. \A n \in Nat, f \in F : step[<<n, f>>] \in F  BY <1>2, <1>3
<1>7. PICK G : Recursion(F, sh, step, G)  BY <1>1, <1>6, NatRecursion
<1>8. G[0] = sh /\ \A n \in Nat : G[n] \in F /\ G[n + 1] = N(G[n])
  <2>1. \A n \in Nat : G[n] \in F  BY <1>7 DEF Recursion
  <2>2. \A n \in Nat : G[n + 1] = step[<<n, G[n]>>]  BY <1>7 DEF Recursion
  <2> QED  BY <1>3, <1>7, <2>1, <2>2 DEF Recursion
<1>9. \A n \in Nat, c \in D : G[n + 1][c] = IF Len(sh[c]) = Len(c) THEN sh[c] ELSE G[n][sh[c]]
  <2> TAKE n \in Nat, c \in D
  <2> DEFINE f == G[n]
  <2>1. G[n + 1] = N(f)  BY <1>8
  <2> HIDE DEF f
  <2>2. N(f)[c] = IF Len(sh[c]) = Len(c) THEN sh[c] ELSE f[sh[c]]  BY <1>4
  <2> QED  BY <2>1, <2>2 DEF f
<1> DEFINE K == {n \in Nat : \A c \in D : Len(c) <= n => G[n + 1][c] = G[n][c]}
<1>10. 0 \in K
  <2> SUFFICES ASSUME NEW c \in D, Len(c) <= 0  PROVE G[0 + 1][c] = G[0][c]  OBVIOUS
  <2>1. Len(sh[c]) = Len(c)  BY <1>1
  <2>2. G[0 + 1][c] = sh[c]  BY <1>9, <2>1
  <2> QED  BY <1>8, <2>2
<1>11. ASSUME NEW n \in K  PROVE n + 1 \in K
  <2>1. n \in Nat /\ \A c \in D : Len(c) <= n => G[n + 1][c] = G[n][c]  OBVIOUS
  <2> SUFFICES ASSUME NEW c \in D, Len(c) <= n + 1  PROVE G[(n + 1) + 1][c] = G[n + 1][c]
    BY <2>1
  <2> HIDE DEF K
  <2>2. CASE Len(sh[c]) = Len(c)  BY <1>9, <2>1, <2>2
  <2>3. CASE Len(sh[c]) # Len(c)
    <3>1. Len(sh[c]) <= n /\ sh[c] \in D  BY <1>1, <2>1, <2>3
    <3>2. G[n + 1][sh[c]] = G[n][sh[c]]  BY <2>1, <3>1
    <3>3. G[(n + 1) + 1][c] = G[n + 1][sh[c]]  BY <1>9, <2>1, <2>3
    <3>4. G[n + 1][c] = G[n][sh[c]]  BY <1>9, <2>1, <2>3
    <3> QED  BY <3>2, <3>3, <3>4
  <2> QED  BY <2>2, <2>3
<1>12. K \in SUBSET Nat  OBVIOUS
<1>13. Nat \subseteq K
  <2> HIDE DEF K
  <2> QED  BY <1>10, <1>11, <1>12, Upwards
<1>14. \A n \in Nat, c \in D : Len(c) <= n => G[n + 1][c] = G[n][c]  BY <1>13
<1> HIDE DEF K
<1>15. ASSUME NEW c \in D, NEW d \in Nat  PROVE G[Len(c) + d][c] = G[Len(c)][c]
  <2> DEFINE m == Len(c)
             M == {e \in Nat : G[m + e][c] = G[m][c]}
  <2>0. m \in Nat  BY <1>1
  <2>1. 0 \in M  BY <2>0
  <2>2. ASSUME NEW e \in M  PROVE e + 1 \in M
    <3>1. e \in Nat /\ G[m + e][c] = G[m][c]  OBVIOUS
    <3> HIDE DEF M
    <3>2. m + e \in Nat /\ m <= m + e /\ m + (e + 1) = (m + e) + 1  BY <2>0, <3>1
    <3>3. G[(m + e) + 1][c] = G[m + e][c]  BY <1>14, <3>2
    <3> QED  BY <3>1, <3>2, <3>3 DEF M
  <2>3. M \in SUBSET Nat  OBVIOUS
  <2>4. Nat \subseteq M
    <3> HIDE DEF M
    <3> QED  BY <2>1, <2>2, <2>3, Upwards
  <2> QED  BY <2>4
<1> DEFINE g == [c \in D |-> G[Len(c)][c]]
<1>16. \A c \in D : g[c] = G[Len(c)][c]  OBVIOUS
<1>17. g \in [D -> D]
  <2>1. \A c \in D : G[Len(c)][c] \in D  BY <1>1, <1>5, <1>8
  <2> QED  BY <2>1
<1> HIDE DEF g
<1>18. ASSUME NEW c \in D  PROVE g[c] = IF Len(sh[c]) = Len(c) THEN sh[c] ELSE g[sh[c]]
  <2>1. CASE Len(c) = 0
    <3>1. Len(sh[c]) = Len(c)  BY <1>1, <2>1
    <3> QED  BY <1>8, <1>16, <2>1, <3>1
  <2>2. CASE Len(c) # 0
    <3> DEFINE n == Len(c) - 1
    <3>1. n \in Nat /\ n + 1 = Len(c)  BY <1>1, <2>2
    <3> HIDE DEF n
    <3>5. G[n + 1][c] = IF Len(sh[c]) = Len(c) THEN sh[c] ELSE G[n][sh[c]]  BY <1>9, <3>1
    <3>6. g[c] = G[n + 1][c]  BY <1>16, <3>1
    <3>2. g[c] = IF Len(sh[c]) = Len(c) THEN sh[c] ELSE G[n][sh[c]]  BY <3>5, <3>6, Zenon
    <3>3. CASE Len(sh[c]) = Len(c)  BY <3>2, <3>3
    <3>4. CASE Len(sh[c]) # Len(c)
      <4> DEFINE d == n - Len(sh[c])
      <4>1. d \in Nat /\ Len(sh[c]) + d = n /\ sh[c] \in D  BY <1>1, <3>1, <3>4
      <4> HIDE DEF d
      <4>2. G[Len(sh[c]) + d][sh[c]] = G[Len(sh[c])][sh[c]]  BY <1>15, <4>1
      <4> QED  BY <1>16, <3>2, <3>4, <4>1, <4>2
    <3> QED  BY <3>3, <3>4
  <2> QED  BY <2>1, <2>2
<1> QED  BY <1>17, <1>18 DEF SettledBy

LEMMA SettledIs ==
  ASSUME NEW S, Closed(S), NEW ops \in Seq(S)
  PROVE  Settled(ops) \in Seq(S)
<1> DEFINE D == Seq(NativeOperations)
           short(c) == MergeRz(Cancel(c))
           sh == [c \in D |-> short(c)]
           E(f, c) == LET shorter == MergeRz(Cancel(c))
                      IN  IF Len(shorter) = Len(c) THEN shorter ELSE f[shorter]
           s == CHOOSE f : f = [c \in D |-> E(f, c)]
<1>1. Settled(ops) = s[ops]  BY DEF Settled
<1>2. \A f, c : E(f, c) = IF Len(short(c)) = Len(c) THEN short(c) ELSE f[short(c)]  BY Zenon
<1>3. \A c \in D : NoLonger(NativeOperations, c, short(c))  BY NativeClosed, ShorterIs
<1>4. \A c \in Seq(S) : NoLonger(S, c, short(c))  BY ShorterIs
<1> HIDE DEF short
<1>5. \A c \in D : sh[c] = short(c)  OBVIOUS
<1>6. Shrinks(D, sh)
  <2>1. \A c \in D : short(c) \in D /\ Len(c) \in Nat /\ Len(short(c)) <= Len(c)  BY <1>3 DEF NoLonger
  <2> QED  BY <2>1 DEF Shrinks
<1>7. Seq(S) \subseteq D
  <2>1. S \subseteq NativeOperations  BY DEF Closed
  <2> QED  BY <2>1, SeqMonotonic
<1> HIDE DEF sh, D, E
<1>8. PICK g \in [D -> D] : SettledBy(D, sh, g)  BY <1>6, SettledExists
<1>9. \A c \in D : g[c] = E(g, c)  BY <1>2, <1>5, <1>8 DEF SettledBy
<1>10. g = [c \in D |-> E(g, c)]  BY <1>9
<1>11. s = [c \in D |-> E(s, c)]  BY <1>10
<1> HIDE DEF s
<1>12. \A c \in D : s[c] = IF Len(short(c)) = Len(c) THEN short(c) ELSE s[short(c)]
  <2>1. \A c \in D : s[c] = E(s, c)  BY <1>11
  <2> QED  BY <1>2, <2>1
<1> DEFINE K == {n \in Nat : \A c \in Seq(S) : Len(c) <= n => s[c] \in Seq(S)}
<1>13. 0 \in K
  <2> SUFFICES ASSUME NEW c \in Seq(S), Len(c) <= 0  PROVE s[c] \in Seq(S)  OBVIOUS
  <2>1. Len(short(c)) = Len(c) /\ short(c) \in Seq(S)  BY <1>4 DEF NoLonger
  <2> QED  BY <1>7, <1>12, <2>1
<1>14. ASSUME NEW n \in K  PROVE n + 1 \in K
  <2>1. n \in Nat /\ \A c \in Seq(S) : Len(c) <= n => s[c] \in Seq(S)  OBVIOUS
  <2> SUFFICES ASSUME NEW c \in Seq(S), Len(c) <= n + 1  PROVE s[c] \in Seq(S)
    BY <2>1
  <2> HIDE DEF K
  <2>2. short(c) \in Seq(S) /\ Len(short(c)) \in Nat /\ Len(c) \in Nat /\ Len(short(c)) <= Len(c)  BY <1>4 DEF NoLonger
  <2>3. CASE Len(short(c)) = Len(c)  BY <1>7, <1>12, <2>2, <2>3
  <2>4. CASE Len(short(c)) # Len(c)
    <3>1. Len(short(c)) <= n  BY <2>1, <2>2, <2>4
    <3>2. s[short(c)] \in Seq(S)  BY <2>1, <2>2, <3>1
    <3> QED  BY <1>7, <1>12, <2>4, <3>2
  <2> QED  BY <2>3, <2>4
<1>15. K \in SUBSET Nat  OBVIOUS
<1>16. Nat \subseteq K
  <2> HIDE DEF K
  <2> QED  BY <1>13, <1>14, <1>15, Upwards
<1>17. Len(ops) \in Nat  BY LenProperties
<1>18. s[ops] \in Seq(S)
  <2>1. Len(ops) \in K /\ Len(ops) <= Len(ops)  BY <1>16, <1>17
  <2> QED  BY <2>1
<1> QED  BY <1>1, <1>18

(***************************************************************************)
(* The rounds of cancelling, merging and commuting end for every circuit,  *)
(* and they invent nothing: a set of operations that is closed under the   *)
(* changes of an angle keeps every circuit made of it (optimize.rs; the    *)
(* native gates on a device's couplings are such a set).                   *)
(***************************************************************************)
THEOREM OptimizerKeepsClosed ==
  ASSUME NEW S, Closed(S), NEW ops \in Seq(S)
  PROVE  Optimized(ops) \in Seq(S)
<1> DEFINE a == Settled(ops)
           b == Commute(a)
<1>1. a \in Seq(S)  BY SettledIs
<1> HIDE DEF a
<1>2. b \in Seq(S)  BY <1>1, CommuteIs
<1> HIDE DEF b
<1>3. Settled(b) \in Seq(S)  BY <1>2, SettledIs
<1> QED  BY <1>3 DEF Optimized, a, b

(***************************************************************************)
(* The pipeline                                                            *)
(***************************************************************************)
\* The circuits compiled for a device.
CircuitsFor(dev) ==
    {c \in [wires : Nat \ {0}, ops : Seq(Operations), swaps : Nat, at : Seq(Nat)] :
        Len(c.at) = c.wires /\ c.ops \in Seq(NativeOn(dev, c.wires))}

LEMMA CompiledIs ==
  ASSUME NEW dev, IsDevice(dev), NEW st, StandardProgram(st), NEW r, IsRouted(dev, st.wires, r)
  PROVE  Finished(st, r, Native(r.ops)) = NoCircuit \/ Finished(st, r, Native(r.ops)) \in CircuitsFor(dev)
<1> DEFINE n == st.wires
           nat == Native(r.ops)
           f == Finished(st, r, nat)
           S == NativeOn(dev, n)
           o == Optimized(nat)
           good == [wires |-> n, ops |-> o, swaps |-> r.swaps, at |-> r.at]
           fails == Failed(st.ops) \/ Failed(r.ops) \/ Failed(nat)
<1>1. f = IF fails THEN NoCircuit ELSE good  BY DEF Finished
<1>2. n \in Nat \ {0}  BY DEF StandardProgram
<1> SUFFICES ASSUME ~fails  PROVE good \in CircuitsFor(dev)
  <2> HIDE DEF good, fails, f
  <2>1. CASE fails  BY <1>1, <2>1 DEF f, n, nat
  <2>2. CASE ~fails  BY <1>1, <2>2 DEF f, n, nat
  <2> QED  BY <2>1, <2>2
<1> HIDE DEF n
<1>3. r.at \in Layouts(n) /\ r.swaps \in Nat /\ r.ops \in Seq(StandardOps(0 .. (n - 1)))
  BY DEF IsRouted, n
<1>4. n = dev.size => Failed(r.ops) \/ r.ops \in Seq(RoutedOps(dev, 0 .. (n - 1)))
  BY DEF IsRouted, n
<1>5. Failed(nat) \/ nat \in Seq(S)
  <2> DEFINE ops == r.ops
  <2>1. ops \in Seq(StandardOps(0 .. (n - 1)))  BY <1>3
  <2>2. n = dev.size => ops \in Seq(RoutedOps(dev, 0 .. (n - 1)))  BY <1>4
  <2> HIDE DEF ops
  <2>3. Failed(Native(ops)) \/ Native(ops) \in Seq(NativeOn(dev, n))  BY <1>2, <2>1, <2>2, NativeIs
  <2> QED  BY <2>3 DEF ops
<1>6. nat \in Seq(S) /\ Closed(S)  BY <1>2, <1>5, DeviceClosed
<1> HIDE DEF S, nat
<1>7. o \in Seq(S)  BY <1>6, OptimizerKeepsClosed
<1>8. o \in Seq(Operations)
  <2>1. S \subseteq Operations  BY DEF S, NativeOn, NativeOperations
  <2> QED  BY <1>7, <2>1, SeqMonotonic
<1>9. r.at \in Seq(Nat) /\ Len(r.at) = n
  <2> DEFINE t == r.at
  <2>1. t \in [1 .. n -> 0 .. (n - 1)]  BY <1>3 DEF Layouts, Tables_
  <2> HIDE DEF t
  <2>2. t = [i \in 1 .. n |-> t[i]] /\ \A i \in 1 .. n : t[i] \in Nat  BY <1>2, <2>1
  <2>3. t \in Seq(Nat) /\ Len(t) = n  BY <1>2, <2>2, FunctionIsSeq
  <2> QED  BY <2>3 DEF t
<1> HIDE DEF o
<1>10. good \in [wires : Nat \ {0}, ops : Seq(Operations), swaps : Nat, at : Seq(Nat)]
  BY <1>2, <1>3, <1>8, <1>9
<1>11. good.wires = n /\ good.ops = o /\ good.at = r.at  OBVIOUS
<1> HIDE DEF good
<1> QED  BY <1>7, <1>9, <1>10, <1>11 DEF CircuitsFor, S

LEMMA CompileIs ==
  ASSUME NEW p, IsProgram(p), IsDevice(device)
  PROVE  Compiled(p) = NoCircuit \/ Compiled(p) \in CircuitsFor(device)
<1> DEFINE st == Standard(p)
           dev == device
           r == Route(device, st)
<1>1. StandardProgram(st)  BY DecompositionIsStandard
<1>2. IsDevice(dev)  OBVIOUS
<1> HIDE DEF st
<1>3. IsRouted(dev, st.wires, Route(dev, st))
  <2> HIDE DEF dev
  <2> QED  BY <1>1, <1>2, RoutingIsCoupled
<1>4. IsRouted(dev, st.wires, r)  BY <1>3
<1>5. Compiled(p) = Finished(st, r, Native(r.ops))  BY DEF Compiled, Placed, Synthesized, st
<1> HIDE DEF r, dev
<1>6. Finished(st, r, Native(r.ops)) = NoCircuit \/ Finished(st, r, Native(r.ops)) \in CircuitsFor(dev)
  BY <1>1, <1>2, <1>4, CompiledIs
<1> QED  BY <1>5, <1>6 DEF dev

LEMMA ParamsAre ==
  ASSUME NEW p, IsProgram(p)
  PROVE  Params(p) \in Seq(Int)
<1> DEFINE L == Len(p.ops)
           parts == [k \in 1 .. L |->
                       IF p.ops[k].name \in {"Rx", "Ry", "Rz", "U3"} THEN p.ops[k].args ELSE <<>>]
<1>1. p.ops \in Seq(Operations)  BY DEF IsProgram
<1>2. L \in Nat /\ DOMAIN p.ops = 1 .. L /\ \A k \in 1 .. L : p.ops[k] \in Operations
  BY <1>1, LenProperties, ElementOfSeq
<1>3. Params(p) = Concat(L, parts)
  <2>1. parts = [k \in DOMAIN p.ops |->
                   IF p.ops[k].name \in {"Rx", "Ry", "Rz", "U3"} THEN p.ops[k].args ELSE <<>>]
    BY <1>2
  <2> HIDE DEF parts
  <2> QED  BY <2>1 DEF Params
<1>4. \A k \in 1 .. L : parts[k] \in Seq(Int)
  <2> TAKE k \in 1 .. L
  <2>1. p.ops[k].args \in Seq(Int)  BY <1>2 DEF Operations
  <2>2. <<>> \in Seq(Int)  BY EmptySeq
  <2>3. parts[k] = IF p.ops[k].name \in {"Rx", "Ry", "Rz", "U3"} THEN p.ops[k].args ELSE <<>>  OBVIOUS
  <2> HIDE DEF parts
  <2> QED  BY <2>1, <2>2, <2>3
<1> HIDE DEF parts, L
<1> QED  BY <1>2, <1>3, <1>4, ConcatType

\* A turn about z with another angle.
LEMMA TurnedIs ==
  ASSUME NEW dev, NEW n \in Nat, NEW o \in NativeOn(dev, n), o.op = "gate", o.name = "rz", NEW a \in Int
  PROVE  [o EXCEPT !.args = <<a>>] \in NativeOn(dev, n)
<1> DEFINE args == <<a>>
           z == [o EXCEPT !.args = args]
<1>1. o \in Operations /\ o \in NativeOperations /\ o.wires \in Seq(0 .. (n - 1)) /\ IsInjective(o.wires)
  BY DEF NativeOn, NativeOperations
<1>2. args \in Seq(Int) /\ Len(args) = 1  BY SeqSingle
<1> HIDE DEF args
<1>3. z \in Operations /\ z.op = "gate" /\ z.name = "rz" /\ z.wires = o.wires /\ z.args = args
  BY <1>1, <1>2 DEF Operations
<1> HIDE DEF z
<1>4. Len(o.wires) = NativeGates["rz"] /\ "rz" \in DOMAIN NativeGates  BY <1>1 DEF NativeOperations, IsNativeOp
<1>5. z \in NativeOperations  BY <1>2, <1>3, <1>4 DEF NativeOperations, IsNativeOp
<1>6. CxCoupled(dev, z)  BY <1>3 DEF CxCoupled
<1>7. z \in NativeOn(dev, n)  BY <1>1, <1>3, <1>5, <1>6 DEF NativeOn
<1> QED  BY <1>7 DEF z, args

LEMMA ReboundIs ==
  ASSUME NEW dev, NEW c \in CircuitsFor(dev), NEW params \in Seq(Int)
  PROVE  Rebound(c, params) \in CircuitsFor(dev)
<1> DEFINE ops == c.ops
           n == c.wires
           S == NativeOn(dev, n)
           L == Len(ops)
           K == {k \in DOMAIN ops : ops[k].op = "gate" /\ ops[k].name = "rz"}
           slots == Ascending(L + 1, K)
           slot(k) == CHOOSE i \in DOMAIN slots : slots[i] = k
           bound == {slots[i] : i \in DOMAIN slots \cap DOMAIN params}
           new == [k \in DOMAIN ops |-> IF k \in bound THEN [ops[k] EXCEPT !.args = <<params[slot(k)]>>] ELSE ops[k]]
           r == [c EXCEPT !.ops = new]
<1>1. Rebound(c, params) = r  BY DEF Rebound, Slots
<1>2. /\ c \in [wires : Nat \ {0}, ops : Seq(Operations), swaps : Nat, at : Seq(Nat)]
      /\ Len(c.at) = c.wires /\ ops \in Seq(S)
  BY DEF CircuitsFor
<1>3. n \in Nat  BY <1>2
<1> HIDE DEF S, n
<1>4. L \in Nat /\ DOMAIN ops = 1 .. L /\ \A k \in 1 .. L : ops[k] \in S
  <2> HIDE DEF ops
  <2>1. L \in Nat /\ DOMAIN ops = 1 .. L  BY <1>2, LenProperties
  <2>2. \A k \in 1 .. L : ops[k] \in S  BY <1>2, ElementOfSeq
  <2> QED  BY <2>1, <2>2
<1>5. \A k : k \in K => k \in 1 .. L /\ ops[k].op = "gate" /\ ops[k].name = "rz"  BY <1>4
<1> HIDE DEF K, ops, L
<1>6. slots \in Seq(K \cap (0 .. ((L + 1) - 1))) /\ Rising(slots)
  <2> DEFINE m == L + 1
  <2>1. m \in Nat  BY <1>4
  <2> HIDE DEF m
  <2>2. Ascending(m, K) \in Seq(K \cap (0 .. (m - 1))) /\ Rising(Ascending(m, K))  BY <2>1, AscendingNumbers
  <2> QED  BY <2>2 DEF m
<1> HIDE DEF slots
<1>7. \A i \in DOMAIN slots : slots[i] \in K
  <2> DEFINE Z == K \cap (0 .. ((L + 1) - 1))
  <2>1. slots \in Seq(Z) /\ Z \subseteq K  BY <1>6
  <2> HIDE DEF Z
  <2> TAKE i \in DOMAIN slots
  <2>2. i \in 1 .. Len(slots)  BY <2>1, LenProperties
  <2>3. slots[i] \in Z  BY <2>1, <2>2, ElementOfSeq
  <2> QED  BY <2>1, <2>3
<1>8. \A i, j \in DOMAIN slots : slots[i] = slots[j] => i = j
  <2> SUFFICES ASSUME NEW i \in DOMAIN slots, NEW j \in DOMAIN slots, slots[i] = slots[j], i # j  PROVE FALSE
    OBVIOUS
  <2>0. DOMAIN slots = 1 .. Len(slots) /\ Len(slots) \in Nat  BY <1>6, LenProperties
  <2>1. slots[i] \in Int /\ slots[j] \in Int  BY <1>5, <1>7
  <2>2. i < j \/ j < i  BY <2>0
  <2> QED  BY <1>6, <2>0, <2>1, <2>2 DEF Rising
<1>9. ASSUME NEW k \in bound  PROVE k \in K /\ params[slot(k)] \in Int
  <2>1. PICK i \in DOMAIN slots : i \in DOMAIN params /\ k = slots[i]  OBVIOUS
  <2>2. slot(k) \in DOMAIN slots /\ slots[slot(k)] = k  BY <2>1, Zenon
  <2>3. slot(k) = i  BY <1>8, <2>1, <2>2
  <2> HIDE DEF slot
  <2>4. i \in 1 .. Len(params)  BY <2>1, LenProperties
  <2>5. params[i] \in Int  BY <2>4, ElementOfSeq
  <2> QED  BY <1>7, <2>1, <2>3, <2>5
<1> HIDE DEF slot, bound
<1>10. \A k \in 1 .. L : new[k] = IF k \in bound THEN [ops[k] EXCEPT !.args = <<params[slot(k)]>>] ELSE ops[k]
  BY <1>4
<1>11. new = [k \in 1 .. L |-> new[k]]  BY <1>4
<1> HIDE DEF new
<1>12. ASSUME NEW k \in 1 .. L  PROVE new[k] \in S
  <2>1. CASE k \notin bound  BY <1>4, <1>10, <2>1
  <2>2. CASE k \in bound
    <3> DEFINE o == ops[k]
               a == params[slot(k)]
    <3>1. o \in S /\ o.op = "gate" /\ o.name = "rz" /\ a \in Int  BY <1>4, <1>5, <1>9, <2>2
    <3>2. new[k] = [o EXCEPT !.args = <<a>>]  BY <1>10, <2>2
    <3> HIDE DEF o, a
    <3>3. [o EXCEPT !.args = <<a>>] \in S  BY <1>3, <3>1, TurnedIs DEF S
    <3> QED  BY <3>2, <3>3
  <2> QED  BY <2>1, <2>2
<1>13. new \in Seq(S)  BY <1>4, <1>11, <1>12, FunctionIsSeq
<1>14. new \in Seq(Operations)
  <2>1. S \subseteq Operations  BY DEF S, NativeOn, NativeOperations
  <2> QED  BY <1>13, <2>1, SeqMonotonic
<1>15. /\ r \in [wires : Nat \ {0}, ops : Seq(Operations), swaps : Nat, at : Seq(Nat)]
       /\ r.wires = n /\ r.ops = new /\ r.at = c.at
  BY <1>2, <1>14 DEF n
<1> HIDE DEF r
<1>16. r \in CircuitsFor(dev)  BY <1>2, <1>13, <1>15 DEF CircuitsFor, S, n
<1> QED  BY <1>1, <1>16

\* What the cache keeps, and what the last call answered.
EntriesFor(dev) == [key : KeysOfPrograms, template : [circuit : CircuitsFor(dev), filler : UNION Programs]]
PipelineInv ==
    /\ programs \in Programs /\ device \in Devices
    /\ answer.circuit = NoCircuit \/ answer.circuit \in CircuitsFor(device)
    /\ cache \in Seq(EntriesFor(device))

LEMMA PositionIs ==
  ASSUME NEW S, NEW c \in Seq(S), NEW key, Found(c, key) # {}
  PROVE  Position(c, key) \in DOMAIN c /\ c[Position(c, key)].key = key
<1>1. Found(c, key) \in SUBSET Nat
  <2>1. DOMAIN c = 1 .. Len(c)  BY LenProperties
  <2> QED  BY <2>1 DEF Found
<1>2. \E i \in Found(c, key) : \A j \in Found(c, key) : i <= j
  <2> DEFINE K == Found(c, key)
  <2>1. K \in SUBSET Nat /\ K # {}  BY <1>1
  <2> HIDE DEF K
  <2>2. \E n \in K : \A j \in K : n <= j  BY <2>1, Least
  <2> QED  BY <2>2 DEF K
<1>3. Position(c, key) \in Found(c, key)  BY <1>2, Zenon DEF Position
<1> QED  BY <1>3 DEF Found

LEMMA RemovedIs ==
  ASSUME NEW S, NEW c \in Seq(S), NEW i \in DOMAIN c
  PROVE  RemoveAt(c, i) \in Seq(S)
<1> DEFINE a == SubSeq(c, 1, i - 1)
           b == SubSeq(c, i + 1, Len(c))
<1>1. i \in 1 .. Len(c) /\ Len(c) \in Nat  BY LenProperties
<1>2. a \in Seq(S) /\ b \in Seq(S)  BY <1>1
<1>3. RemoveAt(c, i) = a \o b  BY DEF RemoveAt
<1> HIDE DEF a, b
<1> QED  BY <1>2, <1>3, ConcatProperties

LEMMA AppendedIs ==
  ASSUME NEW S, NEW c \in Seq(S), NEW x \in S
  PROVE  /\ Append(c, x) \in Seq(S)
         /\ \E i \in DOMAIN Append(c, x) : Append(c, x)[i] = x
<1> DEFINE d == Append(c, x)
<1>1. d \in Seq(S) /\ Len(d) = Len(c) + 1 /\ d[Len(c) + 1] = x /\ Len(c) \in Nat  BY AppendProperties, LenProperties
<1> HIDE DEF d
<1>2. Len(c) + 1 \in DOMAIN d  BY <1>1, LenProperties
<1>3. d \in Seq(S) /\ \E i \in DOMAIN d : d[i] = x  BY <1>1, <1>2
<1> QED  BY <1>3 DEF d

LEMMA InsertedIs ==
  ASSUME NEW S, NEW c \in Seq(S), NEW key, NEW t, CachedCircuit(key, t) \in S
  PROVE  /\ Inserted(c, key, t) \in Seq(S)
         /\ \E i \in DOMAIN Inserted(c, key, t) : Inserted(c, key, t)[i] = CachedCircuit(key, t)
<1> DEFINE a == Without(c, key)
           b == Trimmed(a)
           x == CachedCircuit(key, t)
<1>1. a \in Seq(S)
  <2>1. CASE Found(c, key) = {}  BY <2>1 DEF Without
  <2>2. CASE Found(c, key) # {}
    <3>1. Position(c, key) \in DOMAIN c  BY <2>2, PositionIs
    <3>2. RemoveAt(c, Position(c, key)) \in Seq(S)  BY <3>1, RemovedIs
    <3> QED  BY <2>2, <3>2 DEF Without
  <2> QED  BY <2>1, <2>2
<1> HIDE DEF a
<1>2. b \in Seq(S)
  <2>1. CASE Len(a) >= Capacity
    <3>1. Len(a) \in Nat /\ DOMAIN a = 1 .. Len(a)  BY <1>1, LenProperties
    <3>2. 1 \in DOMAIN a  BY <2>1, <3>1, CapacityAssumption
    <3>3. RemoveAt(a, 1) \in Seq(S)  BY <1>1, <3>2, RemovedIs
    <3> QED  BY <2>1, <3>3 DEF Trimmed
  <2>2. CASE ~(Len(a) >= Capacity)  BY <1>1, <2>2 DEF Trimmed
  <2> QED  BY <2>1, <2>2
<1>3. Inserted(c, key, t) = Append(b, x)  BY DEF Inserted, a
<1>4. x \in S  OBVIOUS
<1> HIDE DEF b, x
<1>5. Append(b, x) \in Seq(S) /\ \E i \in DOMAIN Append(b, x) : Append(b, x)[i] = x  BY <1>2, <1>4, AppendedIs
<1> QED  BY <1>3, <1>5 DEF x

LEMMA ProgramOf ==
  ASSUME NEW p \in programs, PipelineInv
  PROVE  IsProgram(p) /\ IsDevice(device) /\ p \in UNION Programs /\ StructureKey(p) \in KeysOfPrograms
<1>1. p \in UNION Programs  BY DEF PipelineInv
<1> QED  BY <1>1, ProgramsAssumption, DevicesAssumption DEF PipelineInv, KeysOfPrograms

LEMMA HitKeeps ==
  ASSUME PipelineInv, NEW p \in programs, SynthesizeCached(p)
  PROVE  PipelineInv'
<1> DEFINE key == StructureKey(p)
           i == Position(cache, key)
           e == cache[i]
           E == EntriesFor(device)
           dev == device
<1>1. Hit(key) /\ UNCHANGED <<programs, device>>
      /\ answer'.circuit = Rebound(e.template.circuit, Params(p))
  BY DEF SynthesizeCached
<1>2. cache \in Seq(E)  BY DEF PipelineInv
<1>3. Found(cache, key) # {} /\ cache' = Append(RemoveAt(cache, i), e)  BY <1>1 DEF Hit
<1> HIDE DEF key, E
<1>4. i \in DOMAIN cache  BY <1>2, <1>3, PositionIs
<1> HIDE DEF i
<1>5. e \in E /\ RemoveAt(cache, i) \in Seq(E)
  <2>1. i \in 1 .. Len(cache)  BY <1>2, <1>4, LenProperties
  <2> QED  BY <1>2, <1>4, <2>1, ElementOfSeq, RemovedIs
<1> HIDE DEF e
<1>6. cache' \in Seq(E)  BY <1>3, <1>5, AppendedIs
<1>7. e.template.circuit \in CircuitsFor(dev)  BY <1>5 DEF E, EntriesFor
<1>8. Params(p) \in Seq(Int)  BY ProgramOf, ParamsAre
<1> DEFINE c == e.template.circuit
           params == Params(p)
<1> HIDE DEF c, params, dev
<1>9. Rebound(c, params) \in CircuitsFor(dev)  BY <1>7, <1>8, ReboundIs DEF c, params
<1> QED  BY <1>1, <1>6, <1>9 DEF PipelineInv, c, params, dev, E

LEMMA CompileKeeps ==
  ASSUME PipelineInv, NEW p \in programs, SynthesizeCompiled(p)
  PROVE  /\ PipelineInv'
         /\ \/ UNCHANGED <<cache, served, turn>>
            \/ \E t \in [circuit : CircuitsFor(device), filler : UNION Programs] :
                  /\ Insert(StructureKey(p), t)
                  /\ \E i \in DOMAIN cache' : cache'[i] = CachedCircuit(StructureKey(p), t)
<1> DEFINE key == StructureKey(p)
           c == Compiled(p)
           t == [circuit |-> c, filler |-> p]
           E == EntriesFor(device)
<1>0. IsProgram(p) /\ IsDevice(device) /\ p \in UNION Programs /\ key \in KeysOfPrograms  BY ProgramOf
<1>1. c = NoCircuit \/ c \in CircuitsFor(device)  BY <1>0, CompileIs
<1>2. Kept(key, p, c) /\ UNCHANGED <<programs, device>>  BY DEF SynthesizeCompiled
<1>3. cache \in Seq(E)  BY DEF PipelineInv
<1> HIDE DEF c, key, E
<1>4. CASE c = NoCircuit
  <2>1. answer'.circuit = NoCircuit /\ UNCHANGED <<cache, served, turn>>  BY <1>2, <1>4 DEF Kept
  <2>2. PipelineInv'  BY <1>2, <2>1 DEF PipelineInv
  <2> QED  BY <2>1, <2>2
<1>5. CASE c # NoCircuit
  <2>1. answer'.circuit = c /\ Insert(key, t)  BY <1>2, <1>5 DEF Kept
  <2>2. t \in [circuit : CircuitsFor(device), filler : UNION Programs]  BY <1>0, <1>1, <1>5
  <2> HIDE DEF t
  <2>3. CachedCircuit(key, t) \in E  BY <1>0, <2>2 DEF CachedCircuit, E, EntriesFor
  <2>4. cache' = Inserted(cache, key, t)  BY <2>1 DEF Insert
  <2>5. cache' \in Seq(E) /\ \E i \in DOMAIN cache' : cache'[i] = CachedCircuit(key, t)
    <3> DEFINE list == cache
    <3>1. list \in Seq(E) /\ cache' = Inserted(list, key, t)  BY <1>3, <2>4
    <3> HIDE DEF list
    <3>2. Inserted(list, key, t) \in Seq(E) /\ \E i \in DOMAIN Inserted(list, key, t) : Inserted(list, key, t)[i] = CachedCircuit(key, t)
      BY <2>3, <3>1, InsertedIs
    <3> QED  BY <3>1, <3>2
  <2>6. PipelineInv'  BY <1>1, <1>2, <1>5, <2>1, <2>5 DEF PipelineInv, E
  <2> QED  BY <2>1, <2>2, <2>5, <2>6 DEF key
<1> QED  BY <1>4, <1>5

(***************************************************************************)
(* The inductive invariant: for all programs and devices, what the last    *)
(* call returned and every circuit in the cache is native, on the wires it *)
(* has, and on the couplings of this device; a hit that writes other       *)
(* angles into a circuit keeps it so (pipeline.rs, rebind).                *)
(***************************************************************************)
THEOREM PipelineInvHolds == Spec => []PipelineInv
<1>1. Init => PipelineInv
  <2> SUFFICES ASSUME Init  PROVE PipelineInv  OBVIOUS
  <2>1. answer.circuit = NoCircuit /\ cache = <<>> /\ programs \in Programs /\ device \in Devices
    BY DEF Init, EmptyCache
  <2>2. <<>> \in Seq(EntriesFor(device))  BY EmptySeq
  <2> QED  BY <2>1, <2>2 DEF PipelineInv
<1>2. PipelineInv /\ [Next]_vars => PipelineInv'
  <2> SUFFICES ASSUME PipelineInv, [Next]_vars  PROVE PipelineInv'  OBVIOUS
  <2>1. ASSUME NEW p \in programs, SynthesizeCached(p)  PROVE PipelineInv'  BY <2>1, HitKeeps
  <2>2. ASSUME NEW p \in programs, SynthesizeCompiled(p)  PROVE PipelineInv'  BY <2>2, CompileKeeps
  <2>3. CASE Clone
    <3>1. cache' = <<>> /\ UNCHANGED <<programs, device, answer>>  BY <2>3 DEF Clone, NewCache
    <3>2. <<>> \in Seq(EntriesFor(device))  BY EmptySeq
    <3> QED  BY <3>1, <3>2 DEF PipelineInv
  <2>4. CASE UNCHANGED vars
    <3>1. UNCHANGED <<programs, device, answer, cache>>  BY <2>4 DEF vars, cacheVars
    <3> QED  BY <3>1 DEF PipelineInv
  <2> QED  BY <2>1, <2>2, <2>3, <2>4 DEF Next
<1> QED  BY <1>1, <1>2, PTL DEF Spec

\* A circuit for the device is a native circuit.
LEMMA ForIsNative ==
  ASSUME NEW dev
  PROVE  CircuitsFor(dev) \subseteq NativeCircuits
<1> SUFFICES ASSUME NEW c \in CircuitsFor(dev)  PROVE c \in NativeCircuits  OBVIOUS
<1> DEFINE ops == c.ops
           n == c.wires
           S == NativeOn(dev, n)
<1>1. /\ c \in [wires : Nat \ {0}, ops : Seq(Operations), swaps : Nat, at : Seq(Nat)]
      /\ Len(c.at) = c.wires /\ ops \in Seq(S)
  BY DEF CircuitsFor
<1>2. \A k \in DOMAIN ops : ops[k] \in S
  <2> HIDE DEF S, ops
  <2>1. DOMAIN ops = 1 .. Len(ops)  BY <1>1, LenProperties
  <2> QED  BY <1>1, <2>1, ElementOfSeq
<1>3. \A o \in S : IsNative(o, n)
  <2> TAKE o \in S
  <2>1. o \in NativeOperations /\ o.wires \in Seq(0 .. (n - 1)) /\ IsInjective(o.wires)  BY DEF NativeOn
  <2>2. Range(o.wires) \subseteq 0 .. (n - 1)
    <3> DEFINE Q == 0 .. (n - 1)
    <3>1. o.wires \in Seq(Q)  BY <2>1
    <3> HIDE DEF Q
    <3>2. DOMAIN o.wires = 1 .. Len(o.wires)  BY <3>1, LenProperties
    <3>3. \A i \in DOMAIN o.wires : o.wires[i] \in Q  BY <3>1, <3>2, ElementOfSeq
    <3> QED  BY <3>3 DEF Range, Q
  <2> QED  BY <2>1, <2>2 DEF IsNative
<1> HIDE DEF S
<1>4. \A k \in DOMAIN c.ops : IsNative(c.ops[k], c.wires)  BY <1>2, <1>3
<1> QED  BY <1>1, <1>4 DEF NativeCircuits

\* The instance of CacheCalls has the operators of CircuitCache.
LEMMA SameCache ==
  ASSUME NEW c, NEW key, NEW t
  PROVE  /\ \A i : Calls!RemoveAt(c, i) = RemoveAt(c, i)
         /\ Calls!Found(c, key) = Found(c, key)
         /\ Calls!Position(c, key) = Position(c, key)
         /\ Calls!TakesTurn(key, t) <=> TakesTurn(key, t)
         /\ Calls!Inserted(c, key, t) = Inserted(c, key, t)
<1>0. \A d, i : Calls!RemoveAt(d, i) = RemoveAt(d, i)  BY DEF Calls!RemoveAt, RemoveAt
<1>1. \A d : Calls!Found(d, key) = Found(d, key)  BY DEF Calls!Found, Found
<1>2. \A d : Calls!Position(d, key) = Position(d, key)  BY <1>1 DEF Calls!Position, Position
<1>3. Calls!TakesTurn(key, t) <=> TakesTurn(key, t)  BY DEF Calls!TakesTurn, TakesTurn
<1>4. Calls!Without(c, key) = Without(c, key)
  <2>1. Calls!Found(c, key) = Found(c, key) /\ Calls!Position(c, key) = Position(c, key)  BY <1>1, <1>2
  <2> QED  BY <1>0, <2>1 DEF Calls!Without, Without
<1>5. \A d : Calls!Trimmed(d) = Trimmed(d)  BY <1>0 DEF Calls!Trimmed, Trimmed
<1>6. Calls!CachedCircuit(key, t) = CachedCircuit(key, t)  BY DEF Calls!CachedCircuit, CachedCircuit
<1>7. Calls!Inserted(c, key, t) = Inserted(c, key, t)
  <2> DEFINE a == Without(c, key)
  <2>1. Calls!Inserted(c, key, t) = Append(Calls!Trimmed(Calls!Without(c, key)), Calls!CachedCircuit(key, t))
    BY DEF Calls!Inserted
  <2>2. Calls!Trimmed(a) = Trimmed(a)  BY <1>5
  <2>3. Inserted(c, key, t) = Append(Trimmed(a), CachedCircuit(key, t))  BY DEF Inserted
  <2> HIDE DEF a
  <2>4. Calls!Without(c, key) = a  BY <1>4 DEF a
  <2> QED  BY <1>6, <2>1, <2>2, <2>3, <2>4, Zenon
<1> QED  BY <1>0, <1>1, <1>2, <1>3, <1>7

(***************************************************************************)
(* The pipeline is a caller of its cache as CacheCalls has it: whatever    *)
(* it compiles, for whatever programs and device, it keeps no circuit that *)
(* a stage failed on, and none that is not native (pipeline.rs:            *)
(* CompilationPipeline::synthesize; cache.rs).                             *)
(***************************************************************************)
THEOREM PipelineCallsTheCache == Spec => ImplementsCache
<1>1. Init => Calls!EmptyCache  BY DEF Init, EmptyCache, Calls!EmptyCache
<1>2. PipelineInv /\ [Next]_vars => [Calls!CacheNext]_(Calls!cacheVars)
  <2> SUFFICES ASSUME PipelineInv, [Next]_vars  PROVE Calls!CacheNext \/ UNCHANGED Calls!cacheVars  OBVIOUS
  <2>1. ASSUME NEW p \in programs, SynthesizeCached(p)  PROVE Calls!CacheNext
    <3> DEFINE key == StructureKey(p)
    <3>1. key \in KeysOfPrograms /\ Hit(key)  BY <2>1, ProgramOf DEF SynthesizeCached
    <3> HIDE DEF key
    <3> DEFINE t == served[key].template
               i == Position(cache, key)
    <3>3. Calls!Found(cache, key) = Found(cache, key)  BY SameCache
    <3>4. Calls!Position(cache, key) = i  BY SameCache
    <3>5. Calls!TakesTurn(key, t) <=> TakesTurn(key, t)  BY SameCache
    <3>6. /\ Found(cache, key) # {} /\ cache' = Append(RemoveAt(cache, i), cache[i])
          /\ hits' = hits + 1 /\ TakesTurn(key, t) /\ UNCHANGED misses
      BY <3>1 DEF Hit
    <3>9. Calls!RemoveAt(cache, i) = RemoveAt(cache, i)  BY SameCache
    <3> HIDE DEF t, i
    <3>7. Calls!TakesTurn(key, t)  BY <3>5, <3>6
    <3>8. Calls!Found(cache, key) # {}  BY <3>3, <3>6
    <3>2. Calls!Hit(key)  BY <3>4, <3>6, <3>7, <3>8, <3>9, Zenon DEF Calls!Hit, t
    <3> QED  BY <3>1, <3>2 DEF Calls!CacheNext
  <2>2. ASSUME NEW p \in programs, SynthesizeCompiled(p)  PROVE Calls!CacheNext
    <3> DEFINE key == StructureKey(p)
    <3>1. key \in KeysOfPrograms /\ Miss(key)  BY <2>2, ProgramOf DEF SynthesizeCompiled
    <3>2. \/ UNCHANGED <<cache, served, turn>>
          \/ \E t \in [circuit : CircuitsFor(device), filler : UNION Programs] :
                /\ Insert(key, t)
                /\ \E i \in DOMAIN cache' : cache'[i] = CachedCircuit(key, t)
      BY <2>2, CompileKeeps
    <3> HIDE DEF key
    <3>3. Calls!Miss(key)  BY <3>1 DEF Miss, Calls!Miss, Found, Calls!Found
    <3>4. CASE UNCHANGED <<cache, served, turn>>  BY <3>1, <3>3, <3>4 DEF Calls!CacheNext
    <3>5. ASSUME NEW t \in [circuit : CircuitsFor(device), filler : UNION Programs], Insert(key, t),
                 \E i \in DOMAIN cache' : cache'[i] = CachedCircuit(key, t)
          PROVE  Calls!CacheNext
      <4> DEFINE e == CachedCircuit(key, t)
      <4>1. e.key = key /\ e.template = t  BY DEF CachedCircuit
      <4>2. t \in NativeTemplates  BY ForIsNative DEF NativeTemplates
      <4>3. Calls!Insert(key, t)
        <5>1. cache' = Inserted(cache, key, t) /\ TakesTurn(key, t)  BY <3>5 DEF Insert
        <5>2. Calls!Inserted(cache, key, t) = Inserted(cache, key, t)  BY SameCache
        <5>3. Calls!TakesTurn(key, t) <=> TakesTurn(key, t)  BY SameCache
        <5> QED  BY <5>1, <5>2, <5>3, Zenon DEF Calls!Insert
      <4>4. e \in Calls!Stored'  BY <3>5 DEF Calls!Stored
      <4> HIDE DEF e
      <4>5. Calls!Store(e)  BY <3>1, <3>3, <4>1, <4>2, <4>3 DEF Calls!Store
      <4> QED  BY <4>4, <4>5 DEF Calls!CacheNext
    <3> QED  BY <3>2, <3>4, <3>5
  <2>3. CASE Clone  BY <2>3 DEF Clone, NewCache, Calls!NewCache, Calls!CacheNext
  <2>4. CASE UNCHANGED vars  BY <2>4 DEF vars, cacheVars, Calls!cacheVars
  <2> QED  BY <2>1, <2>2, <2>3, <2>4 DEF Next
<1> QED  BY <1>1, <1>2, PipelineInvHolds, PTL DEF Spec, ImplementsCache, Calls!CacheSpec

(***************************************************************************)
(* What is sent                                                            *)
(***************************************************************************)
\* The four kinds of operation, and their fields.
LEMMA NativeKinds ==
  ASSUME NEW o \in NativeOperations
  PROVE  /\ o.op \in {"gate", "bit", "reset", "barrier"}
         /\ o.wires \in Seq(Nat) /\ o.args \in Seq(Int)
         /\ o.op = "gate" => \/ o.name \in {"rz", "sx", "x"} /\ Len(o.wires) = 1
                             \/ o.name = "cx" /\ Len(o.wires) = 2
         /\ o.op = "gate" => Len(o.args) = IF o.name = "rz" THEN 1 ELSE 0
         /\ o.op = "reset" => Len(o.wires) = 1
         /\ o.op = "bit" => Len(o.wires) = 1 /\ Len(o.args) = 1
<1>1. IsNativeOp(o) /\ o \in Operations  BY DEF NativeOperations
<1>2. o.wires \in Seq(Nat) /\ o.args \in Seq(Int)  BY <1>1 DEF Operations
<1>3. /\ DOMAIN NativeGates = {"rz", "sx", "x", "cx"}
      /\ NativeGates["rz"] = 1 /\ NativeGates["sx"] = 1 /\ NativeGates["x"] = 1 /\ NativeGates["cx"] = 2
  BY DEF NativeGates
<1> QED  BY <1>1, <1>2, <1>3 DEF IsNativeOp

LEMMA SingleIs ==
  ASSUME NEW S, NEW s \in Seq(S), Len(s) = 1
  PROVE  s[1] \in S /\ s = <<s[1]>> /\ DOMAIN s = {1}
<1>1. 1 \in 1 .. Len(s)  OBVIOUS
<1>2. s[1] \in S  BY <1>1, ElementOfSeq
<1> DEFINE x == s[1]
           t == <<x>>
<1>3. t \in Seq(S) /\ Len(t) = 1 /\ t[1] = x  BY <1>2, SeqSingle
<1> HIDE DEF t
<1>4. \A i \in 1 .. Len(s) : s[i] = t[i]  BY <1>3
<1>5. s = t  BY <1>3, <1>4, SeqEqual
<1>6. DOMAIN s = 1 .. 1  BY LenProperties
<1> QED  BY <1>2, <1>5, <1>6 DEF t

LEMMA PairIs ==
  ASSUME NEW S, NEW s \in Seq(S), Len(s) = 2
  PROVE  s[1] \in S /\ s[2] \in S /\ s = <<s[1], s[2]>>
<1>1. 1 \in 1 .. Len(s) /\ 2 \in 1 .. Len(s)  OBVIOUS
<1>2. s[1] \in S /\ s[2] \in S  BY <1>1, ElementOfSeq
<1> DEFINE x == s[1]
           y == s[2]
           t == <<x, y>>
<1>3. t \in Seq(S) /\ Len(t) = 2 /\ t[1] = x /\ t[2] = y  BY <1>2
<1> HIDE DEF t
<1>4. \A i \in 1 .. Len(s) : s[i] = t[i]
  <2> TAKE i \in 1 .. Len(s)
  <2>1. i = 1 \/ i = 2  OBVIOUS
  <2> QED  BY <1>3, <2>1
<1>5. s = t  BY <1>3, <1>4, SeqEqual
<1> QED  BY <1>2, <1>5 DEF t

LEMMA ReversedPair ==
  ASSUME NEW a \in Nat, NEW b \in Nat
  PROVE  Reverse(<<a, b>>) = <<b, a>>
<1> DEFINE s == <<a, b>>
           t == <<b, a>>
           r == [i \in 1 .. Len(s) |-> s[(Len(s) - i) + 1]]
<1>1. Reverse(s) = r  BY DEF Reverse
<1>2. Len(s) = 2 /\ s[1] = a /\ s[2] = b  OBVIOUS
<1>3. t \in Seq(Nat) /\ Len(t) = 2 /\ t[1] = b /\ t[2] = a  OBVIOUS
<1> HIDE DEF s, t
<1>4. r = [i \in 1 .. 2 |-> s[(2 - i) + 1]]  BY <1>2
<1> HIDE DEF r
<1>5. r[1] = b /\ r[2] = a
  <2>1. 1 \in 1 .. 2 /\ 2 \in 1 .. 2 /\ (2 - 1) + 1 = 2 /\ (2 - 2) + 1 = 1  OBVIOUS
  <2>2. r[1] = s[(2 - 1) + 1] /\ r[2] = s[(2 - 2) + 1]  BY <1>4, <2>1
  <2> QED  BY <1>2, <2>1, <2>2
<1>6. r = [i \in 1 .. 2 |-> r[i]]  BY <1>4
<1>7. \A i \in 1 .. 2 : r[i] \in Nat
  <2> TAKE i \in 1 .. 2
  <2>1. i = 1 \/ i = 2  OBVIOUS
  <2> QED  BY <1>5, <2>1
<1>8. r \in Seq(Nat) /\ Len(r) = 2
  <2> DEFINE n == 2
  <2>1. n \in Nat /\ r = [i \in 1 .. n |-> r[i]] /\ \A i \in 1 .. n : r[i] \in Nat  BY <1>6, <1>7
  <2> HIDE DEF n
  <2>2. r \in Seq(Nat) /\ Len(r) = n  BY <2>1, FunctionIsSeq
  <2> QED  BY <2>2 DEF n
<1>9. r = t
  <2>1. \A i \in 1 .. Len(r) : r[i] = t[i]
    <3> TAKE i \in 1 .. Len(r)
    <3>1. i = 1 \/ i = 2  BY <1>8
    <3> QED  BY <1>3, <1>5, <3>1
  <2> QED  BY <1>3, <1>8, <2>1, SeqEqual
<1> QED  BY <1>1, <1>9 DEF s, t

\* An operation on the couplings of the device is one of its target.
LEMMA DeviceTakes ==
  ASSUME NEW dev, NEW o \in NativeOn(dev, dev.size), NEW basis \in {DefaultBasis, {}}
  PROVE  Takes(TargetOf(dev, basis), Converted(o))
<1> DEFINE i == Converted(o)
           Z == TargetOf(dev, basis)
<1>0. o \in NativeOperations /\ o.wires \in Seq(0 .. (dev.size - 1)) /\ CxCoupled(dev, o)  BY DEF NativeOn
<1>1. /\ o.op \in {"gate", "bit", "reset", "barrier"}
      /\ o.op = "gate" => \/ o.name \in {"rz", "sx", "x"} /\ Len(o.wires) = 1
                          \/ o.name = "cx" /\ Len(o.wires) = 2
  BY <1>0, NativeKinds
<1>2. Entry("measure", {}) \in Z /\ Entry("reset", {}) \in Z
  BY DEF TargetOf, DeviceTarget, IbmTarget, Anywhere
<1>a. ASSUME NEW name \in {"rz", "sx", "x", "cx"}
      PROVE  Entry(name, IF basis = {} THEN {} ELSE IF name = "cx" THEN dev.edges ELSE {<<q>> : q \in 0 .. (dev.size - 1)}) \in Z
  <2>1. CASE basis = {}
    <3>1. Entry(name, {}) \in IbmTarget  BY DEF IbmTarget
    <3> QED  BY <2>1, <3>1 DEF TargetOf
  <2>2. CASE basis # {}
    <3>1. basis = DefaultBasis  BY <2>2
    <3>2. name \in basis \cap KnownGates  BY <3>1 DEF DefaultBasis, KnownGates, OneQubitGates
    <3>3. name \in TwoQubitGates <=> name = "cx"  BY DEF TwoQubitGates
    <3>4. Entry(name, IF name \in TwoQubitGates THEN dev.edges ELSE {<<q>> : q \in 0 .. (dev.size - 1)}) \in DeviceTarget(dev, basis)
      BY <3>2 DEF DeviceTarget
    <3> QED  BY <2>2, <3>3, <3>4 DEF TargetOf
  <2> QED  BY <2>1, <2>2
<1> HIDE DEF Z
<1>3. CASE o.op = "barrier"
  <2>1. i.kind = "barrier"  BY <1>3 DEF Converted, Instruction
  <2> QED  BY <2>1 DEF Takes, Z
<1>4. CASE o.op = "bit"
  <2>1. i.name = "measure"  BY <1>4 DEF Converted, Instruction
  <2>2. Entry("measure", {}).gate = "measure" /\ Entry("measure", {}).on = {}  BY DEF Entry
  <2>3. \E e \in Z : e.gate = i.name /\ e.on = {}  BY <1>2, <2>1, <2>2
  <2> QED  BY <2>3 DEF Takes, Z
<1>5. CASE o.op = "reset"
  <2>1. i.name = "reset"  BY <1>5 DEF Converted, Instruction
  <2>2. Entry("reset", {}).gate = "reset" /\ Entry("reset", {}).on = {}  BY DEF Entry
  <2>3. \E e \in Z : e.gate = i.name /\ e.on = {}  BY <1>2, <2>1, <2>2
  <2> QED  BY <2>3 DEF Takes, Z
<1>6. CASE o.op = "gate"
  <2>1. i.name = o.name /\ i.qubits = o.wires
    BY <1>6 DEF Converted, ConvertedGate1, ConvertedGate2, Instruction
  <2> DEFINE name == o.name
             on == IF basis = {} THEN {} ELSE IF name = "cx" THEN dev.edges ELSE {<<q>> : q \in 0 .. (dev.size - 1)}
             e == Entry(name, on)
  <2>2. e \in Z  BY <1>1, <1>6, <1>a
  <2>3. e.gate = name /\ e.on = on  BY DEF Entry
  <2>4. on = {} \/ {i.qubits, Reverse(i.qubits)} \cap on # {}
    <3>1. CASE basis = {}  BY <3>1
    <3>2. CASE basis # {} /\ name = "cx"
      <4> DEFINE w == o.wires
                 a == w[1]
                 b == w[2]
      <4>1. on = dev.edges /\ Len(w) = 2 /\ w \in Seq(Nat)  BY <1>0, <1>1, <1>6, <3>2, NativeKinds
      <4>2. {<<a, b>>, <<b, a>>} \cap dev.edges # {}  BY <1>0, <1>6, <3>2 DEF CxCoupled, Coupled
      <4> HIDE DEF w, on
      <4>3. w = <<a, b>> /\ a \in Nat /\ b \in Nat  BY <4>1, PairIs
      <4> HIDE DEF a, b
      <4>4. Reverse(w) = <<b, a>>  BY <4>3, ReversedPair
      <4>5. i.qubits = w  BY <2>1 DEF w
      <4>6. {i.qubits, Reverse(i.qubits)} = {<<a, b>>, <<b, a>>}  BY <4>3, <4>4, <4>5, Zenon
      <4> QED  BY <4>1, <4>2, <4>6
    <3>3. CASE basis # {} /\ name # "cx"
      <4> DEFINE w == o.wires
                 Q == 0 .. (dev.size - 1)
      <4>1. on = {<<q>> : q \in Q}  BY <3>3
      <4>2. Len(w) = 1 /\ w \in Seq(Q)  BY <1>0, <1>1, <1>6, <3>3
      <4> HIDE DEF w, on, Q
      <4>3. w[1] \in Q /\ w = <<w[1]>>  BY <4>2, SingleIs
      <4>4. w \in on  BY <4>1, <4>3
      <4>5. i.qubits = w  BY <2>1 DEF w
      <4> QED  BY <4>4, <4>5
    <3> QED  BY <3>1, <3>2, <3>3
  <2> HIDE DEF e, on, i
  <2>5. \E x \in Z : x.gate = i.name /\ (x.on = {} \/ {i.qubits, Reverse(i.qubits)} \cap x.on # {})
    BY <2>1, <2>2, <2>3, <2>4
  <2> QED  BY <2>5 DEF Takes, Z, i
<1> QED  BY <1>1, <1>3, <1>4, <1>5, <1>6

(***************************************************************************)
(* For all programs and devices: a circuit for the whole device runs on it *)
(* as it is.  No stage after the router, and no angle written into a       *)
(* circuit of the cache, puts a cx where there is no coupling (route.rs,   *)
(* synthesize.rs, optimize.rs; target_from_connectivity).                  *)
(***************************************************************************)
THEOREM CxOnCouplings == Spec => []OnlyCoupledPairs
<1>1. PipelineInv => OnlyCoupledPairs
  <2> SUFFICES ASSUME PipelineInv, answer.circuit.wires = device.size,
                      NEW basis \in {DefaultBasis, {}}, NEW k \in DOMAIN QiskitCircuit(answer.circuit).ops
               PROVE  Takes(TargetOf(device, basis), QiskitCircuit(answer.circuit).ops[k])
    BY DEF OnlyCoupledPairs
  <2> DEFINE c == answer.circuit
             ops == c.ops
             dev == device
             S == NativeOn(dev, dev.size)
  <2>1. IsDevice(dev)  BY DevicesAssumption DEF PipelineInv
  <2>2. c # NoCircuit
    <3>1. dev.size # 0  BY <2>1 DEF IsDevice
    <3> QED  BY <3>1 DEF NoCircuit
  <2>3. c \in CircuitsFor(dev)  BY <2>2 DEF PipelineInv
  <2>4. ops \in Seq(S)  BY <2>3 DEF CircuitsFor
  <2>5. k \in DOMAIN ops /\ QiskitCircuit(c).ops[k] = Converted(ops[k])  BY DEF QiskitCircuit
  <2> HIDE DEF c, ops, S, dev
  <2>6. ops[k] \in S
    <3>1. k \in 1 .. Len(ops)  BY <2>4, <2>5, LenProperties
    <3> QED  BY <2>4, <3>1, ElementOfSeq
  <2> DEFINE o == ops[k]
  <2>7. o \in NativeOn(dev, dev.size)  BY <2>6 DEF S
  <2> HIDE DEF o
  <2>8. Takes(TargetOf(dev, basis), Converted(o))  BY <2>7, DeviceTakes
  <2> QED  BY <2>5, <2>8 DEF o, c, dev
<1> QED  BY <1>1, PipelineInvHolds, PTL

\* What an operation becomes for either service.
Instructions_ ==
    [kind : {"gate", "measure", "reset", "barrier"}, name : Names \cup {"measure", "reset", "barrier"},
     qubits : Seq(Nat), clbits : Seq(Int), params : Seq(Int)]
IonqGates == [gate : {"v", "x", "rz", "cnot"}, control : Seq(Nat), target : Nat, rotation : Seq(Int)]
OneStatement(o, s) ==
    /\ s \in Seq(Instructions_) /\ Len(s) = 1
    /\ s[1].kind = "gate" <=> o.op = "gate"
    /\ o.op = "gate" => s[1] = Instruction("gate", o.name, o.wires, <<>>, IF o.name = "rz" THEN o.args ELSE <<>>)
AsIonq(o, s) ==
    /\ s \in Seq(IonqGates)
    /\ o.op # "gate" => Len(s) = 0
    /\ o.op = "gate" => /\ Len(s) = 1
                        /\ QisName[s[1].gate] = o.name
                        /\ s[1].control \o <<s[1].target>> = o.wires
                        /\ s[1].rotation = IF o.name = "rz" THEN o.args ELSE <<>>

LEMMA StatementIs ==
  ASSUME NEW o \in NativeOperations
  PROVE  OneStatement(o, Statements(Converted(o)))
<1> DEFINE i == Converted(o)
           none == <<>>
           args == IF o.name = "rz" THEN o.args ELSE none
           g == Instruction("gate", o.name, o.wires, none, args)
           m == Instruction("measure", "measure", o.wires, o.args, none)
           r == Instruction("reset", "reset", o.wires, none, none)
           b == Instruction("barrier", "barrier", o.wires, none, none)
<1>1. /\ o.op \in {"gate", "bit", "reset", "barrier"}
      /\ o.wires \in Seq(Nat) /\ o.args \in Seq(Int)
      /\ o.op = "gate" => \/ o.name \in {"rz", "sx", "x"} /\ Len(o.wires) = 1
                          \/ o.name = "cx" /\ Len(o.wires) = 2
      /\ o.op = "reset" => Len(o.wires) = 1
      /\ o.op = "bit" => Len(o.wires) = 1 /\ Len(o.args) = 1
  BY NativeKinds
<1>2. none \in Seq(Int) /\ args \in Seq(Int)
  <2>1. none \in Seq(Int)  BY EmptySeq
  <2> QED  BY <1>1, <2>1
<1>3. o.name \in Names  BY DEF NativeOperations, Operations
<1>4. CASE o.op = "gate"
  <2>1. i = g
    <3>1. CASE Len(o.wires) = 1  BY <1>4, <3>1 DEF Converted, ConvertedGate1
    <3>2. CASE Len(o.wires) = 2
      <4>1. o.name # "rz" /\ Len(o.wires) # 1  BY <1>1, <1>4, <3>2
      <4> QED  BY <1>4, <4>1 DEF Converted, ConvertedGate2
    <3> QED  BY <1>1, <1>4, <3>1, <3>2
  <2> HIDE DEF args, none, i
  <2>2. g \in Instructions_ /\ g.kind = "gate"  BY <1>1, <1>2, <1>3 DEF Instruction, Instructions_
  <2> HIDE DEF g
  <2>3. Statements(i) = <<g>>  BY <2>1, <2>2 DEF Statements
  <2>4. <<g>> \in Seq(Instructions_) /\ Len(<<g>>) = 1 /\ <<g>>[1] = g  BY <2>2, SeqSingle
  <2>5. OneStatement(o, <<g>>)  BY <1>4, <2>2, <2>4 DEF OneStatement, g, args, none
  <2> QED  BY <2>3, <2>5 DEF i
<1>5. CASE o.op = "bit"
  <2>1. i = m  BY <1>5 DEF Converted
  <2> DEFINE s == [k \in DOMAIN i.qubits \cap DOMAIN i.clbits |->
                     Instruction("measure", "measure", <<i.qubits[k]>>, <<i.clbits[k]>>, <<>>)]
             q == o.wires[1]
             c == o.args[1]
             ws == <<q>>
             cs == <<c>>
             x == Instruction("measure", "measure", ws, cs, none)
  <2>2. i.kind = "measure" /\ i.qubits = o.wires /\ i.clbits = o.args  BY <2>1 DEF Instruction
  <2>3. Statements(i) = s  BY <2>2 DEF Statements
  <2>4. q \in Nat /\ c \in Int /\ DOMAIN o.wires = {1} /\ DOMAIN o.args = {1}  BY <1>1, <1>5, SingleIs
  <2>5. s = [k \in 1 .. 1 |-> s[k]] /\ s[1] = x
    <3>1. DOMAIN i.qubits \cap DOMAIN i.clbits = 1 .. 1  BY <2>2, <2>4
    <3>2. 1 \in 1 .. 1  OBVIOUS
    <3> QED  BY <2>2, <3>1, <3>2
  <2> HIDE DEF s, q, c, i, none
  <2>6. ws \in Seq(Nat) /\ cs \in Seq(Int)  BY <2>4, SeqSingle
  <2> HIDE DEF ws, cs
  <2>7. x \in Instructions_ /\ x.kind = "measure"  BY <1>2, <2>6 DEF Instruction, Instructions_
  <2> HIDE DEF x
  <2>8. s \in Seq(Instructions_) /\ Len(s) = 1
    <3> DEFINE n == 1
    <3>1. n \in Nat /\ s = [k \in 1 .. n |-> s[k]] /\ \A k \in 1 .. n : s[k] \in Instructions_  BY <2>5, <2>7
    <3> HIDE DEF n
    <3>2. s \in Seq(Instructions_) /\ Len(s) = n  BY <3>1, FunctionIsSeq
    <3> QED  BY <3>2 DEF n
  <2>9. OneStatement(o, s)  BY <1>5, <2>5, <2>7, <2>8 DEF OneStatement
  <2> QED  BY <2>3, <2>9 DEF i
<1>6. CASE o.op = "reset"
  <2>1. i = r  BY <1>6 DEF Converted
  <2> DEFINE s == [k \in DOMAIN i.qubits |-> Instruction("reset", "reset", <<i.qubits[k]>>, <<>>, <<>>)]
             q == o.wires[1]
             ws == <<q>>
             x == Instruction("reset", "reset", ws, none, none)
  <2>2. i.kind = "reset" /\ i.qubits = o.wires  BY <2>1 DEF Instruction
  <2>3. Statements(i) = s  BY <2>2 DEF Statements
  <2>4. q \in Nat /\ DOMAIN o.wires = {1}  BY <1>1, <1>6, SingleIs
  <2>5. s = [k \in 1 .. 1 |-> s[k]] /\ s[1] = x
    <3>1. DOMAIN i.qubits = 1 .. 1  BY <2>2, <2>4
    <3>2. 1 \in 1 .. 1  OBVIOUS
    <3> QED  BY <2>2, <3>1, <3>2
  <2> HIDE DEF s, q, i, none
  <2>6. ws \in Seq(Nat)  BY <2>4, SeqSingle
  <2> HIDE DEF ws
  <2>7. x \in Instructions_ /\ x.kind = "reset"  BY <1>2, <2>6 DEF Instruction, Instructions_
  <2> HIDE DEF x
  <2>8. s \in Seq(Instructions_) /\ Len(s) = 1
    <3> DEFINE n == 1
    <3>1. n \in Nat /\ s = [k \in 1 .. n |-> s[k]] /\ \A k \in 1 .. n : s[k] \in Instructions_  BY <2>5, <2>7
    <3> HIDE DEF n
    <3>2. s \in Seq(Instructions_) /\ Len(s) = n  BY <3>1, FunctionIsSeq
    <3> QED  BY <3>2 DEF n
  <2>9. OneStatement(o, s)  BY <1>6, <2>5, <2>7, <2>8 DEF OneStatement
  <2> QED  BY <2>3, <2>9 DEF i
<1>7. CASE o.op = "barrier"
  <2>1. i = b  BY <1>7 DEF Converted
  <2> HIDE DEF none, i
  <2>2. b \in Instructions_ /\ b.kind = "barrier"  BY <1>1, <1>2 DEF Instruction, Instructions_
  <2> HIDE DEF b
  <2>3. Statements(i) = <<b>>  BY <2>1, <2>2 DEF Statements
  <2>4. <<b>> \in Seq(Instructions_) /\ Len(<<b>>) = 1 /\ <<b>>[1] = b  BY <2>2, SeqSingle
  <2>5. OneStatement(o, <<b>>)  BY <1>7, <2>2, <2>4 DEF OneStatement
  <2> QED  BY <2>3, <2>5 DEF i
<1> QED  BY <1>1, <1>4, <1>5, <1>6, <1>7

LEMMA JoinedPair ==
  ASSUME NEW S, NEW a \in S, NEW b \in S
  PROVE  <<a>> \o <<b>> = <<a, b>>
<1> DEFINE s == <<a>>
           t == <<b>>
           u == s \o t
           v == <<a, b>>
<1>1. s \in Seq(S) /\ Len(s) = 1 /\ s[1] = a /\ t \in Seq(S) /\ Len(t) = 1 /\ t[1] = b  BY SeqSingle
<1>2. v \in Seq(S) /\ Len(v) = 2 /\ v[1] = a /\ v[2] = b  BY SeqDouble
<1> HIDE DEF s, t, v
<1>3. /\ u \in Seq(S) /\ Len(u) = Len(s) + Len(t)
      /\ \A i \in 1 .. Len(s) : u[i] = s[i]
      /\ \A i \in 1 .. Len(t) : u[Len(s) + i] = t[i]
  BY <1>1, Joined
<1> HIDE DEF u
<1>4. Len(u) = 2 /\ u[1] = a /\ u[2] = b
  <2>1. 1 \in 1 .. Len(s) /\ 1 \in 1 .. Len(t) /\ Len(s) + 1 = 2  BY <1>1
  <2>2. u[1] = s[1] /\ u[Len(s) + 1] = t[1]  BY <1>3, <2>1
  <2> QED  BY <1>1, <1>3, <2>1, <2>2
<1>5. u = v
  <2>1. \A i \in 1 .. Len(u) : u[i] = v[i]
    <3> TAKE i \in 1 .. Len(u)
    <3>1. i = 1 \/ i = 2  BY <1>4
    <3> QED  BY <1>2, <1>4, <3>1
  <2> QED  BY <1>2, <1>3, <1>4, <2>1, SeqEqual
<1> QED  BY <1>5 DEF u, s, t, v

LEMMA IonqIs ==
  ASSUME NEW o \in NativeOperations
  PROVE  AsIonq(o, Ionq(o))
<1> DEFINE a == o.wires[1]
           b == o.wires[2]
           none == <<>>
           control == <<a>>
           args == o.args
           v1 == IonqGate("v", none, a, none)
           v2 == IonqGate("x", none, a, none)
           v3 == IonqGate("rz", none, a, args)
           v4 == IonqGate("cnot", control, b, none)
<1>1. /\ o.op \in {"gate", "bit", "reset", "barrier"}
      /\ o.wires \in Seq(Nat) /\ o.args \in Seq(Int)
      /\ o.op = "gate" => \/ o.name \in {"rz", "sx", "x"} /\ Len(o.wires) = 1
                          \/ o.name = "cx" /\ Len(o.wires) = 2
  BY NativeKinds
<1>2. none \in Seq(Int) /\ none \in Seq(Nat)  BY EmptySeq
<1>3. /\ QisName["v"] = "sx" /\ QisName["x"] = "x" /\ QisName["rz"] = "rz" /\ QisName["cnot"] = "cx"
  BY DEF QisName
<1>4. Ionq(o) = CASE o.op = "gate" /\ o.name = "sx" -> <<v1>>
                  [] o.op = "gate" /\ o.name = "x" -> <<v2>>
                  [] o.op = "gate" /\ o.name = "rz" -> <<v3>>
                  [] o.op = "gate" /\ o.name = "cx" -> <<v4>>
                  [] OTHER -> none
  BY DEF Ionq, IonqCnot
<1>5. CASE o.op # "gate"
  <2>1. Ionq(o) = none  BY <1>4, <1>5
  <2>2. none \in Seq(IonqGates) /\ Len(none) = 0  BY EmptySeq
  <2> QED  BY <1>5, <2>1, <2>2 DEF AsIonq
<1>6. ASSUME o.op = "gate", NEW name \in {"v", "x", "rz"}, o.name = QisName[name],
             NEW rot \in Seq(Int), rot = IF o.name = "rz" THEN o.args ELSE <<>>
      PROVE  AsIonq(o, <<IonqGate(name, <<>>, a, rot)>>)
  <2> DEFINE g == IonqGate(name, none, a, rot)
             w == o.wires
  <2>1. w \in Seq(Nat) /\ Len(w) = 1
    <3>1. o.name # "cx"  BY <1>3, <1>6
    <3> QED  BY <1>1, <1>6, <3>1
  <2> HIDE DEF w
  <2>2. w[1] \in Nat /\ w = <<w[1]>>  BY <2>1, SingleIs
  <2>3. a = w[1]  BY DEF w
  <2>4. <<a>> \in Seq(Nat) /\ a \in Nat /\ w = <<a>>
    <3>1. a \in Nat /\ w = <<a>>  BY <2>2, <2>3, Zenon
    <3> QED  BY <2>1, <3>1
  <2> HIDE DEF a, none
  <2>5. g \in IonqGates /\ g.gate = name /\ g.control = none /\ g.target = a /\ g.rotation = rot
    BY <1>2, <2>4 DEF IonqGate, IonqGates
  <2> HIDE DEF g
  <2>6. <<g>> \in Seq(IonqGates) /\ Len(<<g>>) = 1 /\ <<g>>[1] = g  BY <2>5, SeqSingle
  <2>7. none \o <<a>> = <<a>>  BY <2>4, ConcatEmptySeq DEF none
  <2> DEFINE s == <<g>>
             t == <<g.target>>
  <2>8. s[1].control \o <<s[1].target>> = w
    <3>1. s[1] = g  BY <2>6
    <3>2. s[1].control = none /\ s[1].target = a  BY <2>5, <3>1
    <3> QED  BY <2>4, <2>7, <3>2, Zenon
  <2>9. QisName[s[1].gate] = o.name /\ s[1].rotation = IF o.name = "rz" THEN o.args ELSE <<>>
    <3>1. s[1] = g  BY <2>6
    <3> QED  BY <1>6, <2>5, <3>1
  <2> HIDE DEF s
  <2>10. AsIonq(o, s)  BY <1>6, <2>6, <2>8, <2>9 DEF AsIonq, w, s
  <2> QED  BY <2>10 DEF s, g, none
<1>7. CASE o.op = "gate" /\ o.name = "sx"
  <2>1. AsIonq(o, <<IonqGate("v", <<>>, a, <<>>)>>)  BY <1>2, <1>3, <1>6, <1>7
  <2>2. Ionq(o) = <<v1>>  BY <1>4, <1>7
  <2> QED  BY <2>1, <2>2
<1>8. CASE o.op = "gate" /\ o.name = "x"
  <2>1. AsIonq(o, <<IonqGate("x", <<>>, a, <<>>)>>)  BY <1>2, <1>3, <1>6, <1>8
  <2>2. Ionq(o) = <<v2>>  BY <1>4, <1>8
  <2> QED  BY <2>1, <2>2
<1>9. CASE o.op = "gate" /\ o.name = "rz"
  <2>1. AsIonq(o, <<IonqGate("rz", <<>>, a, args)>>)  BY <1>1, <1>3, <1>6, <1>9
  <2>2. Ionq(o) = <<v3>>  BY <1>4, <1>9
  <2> QED  BY <2>1, <2>2
<1>10. CASE o.op = "gate" /\ o.name = "cx"
  <2> DEFINE w == o.wires
             s == <<v4>>
  <2>1. Ionq(o) = s  BY <1>4, <1>10
  <2>2. w \in Seq(Nat) /\ Len(w) = 2  BY <1>1, <1>10
  <2>3. a = w[1] /\ b = w[2]  OBVIOUS
  <2> HIDE DEF w
  <2>4. w[1] \in Nat /\ w[2] \in Nat /\ w = <<w[1], w[2]>>  BY <2>2, PairIs
  <2>5. a \in Nat /\ b \in Nat /\ w = <<a, b>>  BY <2>3, <2>4, Zenon
  <2> HIDE DEF a, b, none
  <2>6. control \in Seq(Nat)  BY <2>5, SeqSingle
  <2>7. control \o <<b>> = w  BY <2>5, JoinedPair
  <2> HIDE DEF control
  <2>8. v4 \in IonqGates /\ v4.gate = "cnot" /\ v4.control = control /\ v4.target = b /\ v4.rotation = none
    BY <1>2, <2>5, <2>6 DEF IonqGate, IonqGates
  <2> HIDE DEF v4
  <2>9. s \in Seq(IonqGates) /\ Len(s) = 1 /\ s[1] = v4  BY <2>8, SeqSingle
  <2> HIDE DEF s
  <2>10. s[1].control \o <<s[1].target>> = w
    <3>1. s[1].control = control /\ s[1].target = b  BY <2>8, <2>9
    <3> QED  BY <2>7, <3>1, Zenon
  <2>11. QisName[s[1].gate] = o.name /\ s[1].rotation = IF o.name = "rz" THEN o.args ELSE <<>>
    <3>1. s[1].gate = "cnot" /\ s[1].rotation = <<>>  BY <2>8, <2>9 DEF none
    <3> QED  BY <1>3, <1>10, <3>1
  <2>12. AsIonq(o, s)  BY <1>10, <2>9, <2>10, <2>11 DEF AsIonq, w
  <2> QED  BY <2>1, <2>12
<1> QED  BY <1>1, <1>5, <1>7, <1>8, <1>9, <1>10

Twins(S, R, n, p, q) ==
    \A k \in 1 .. n : p[k] \in Seq(S) /\ q[k] \in Seq(R) /\ Len(p[k]) = Len(q[k])
LEMMA ConcatTwins ==
  ASSUME NEW S, NEW R, NEW n \in Nat, NEW p, NEW q, Twins(S, R, n, p, q)
  PROVE  Paired(n, p, q, Concat(n, p), Concat(n, q))
<1>1. \A k \in 1 .. n : p[k] \in Seq(S) /\ q[k] \in Seq(R) /\ Len(p[k]) = Len(q[k])  BY DEF Twins
<1> QED  BY <1>1, ConcatPaired

\* Of operations of the device both services are sent the same gates.
SameGates(ops) ==
    LET ionq == Concat(Len(ops), [k \in DOMAIN ops |-> Ionq(ops[k])])
        ibm == GatesOf(Concat(Len(ops), [k \in DOMAIN ops |-> Statements(Converted(ops[k]))]))
    IN  /\ Len(ionq) = Len(ibm)
        /\ \A k \in DOMAIN ionq :
               Op("gate", QisName[ionq[k].gate], ionq[k].control \o <<ionq[k].target>>, ionq[k].rotation)
                  = Read(ibm[k])

LEMMA SameGatesSent ==
  ASSUME NEW ops \in Seq(NativeOperations)
  PROVE  SameGates(ops)
<1> DEFINE L == Len(ops)
           p == [k \in 1 .. L |-> Ionq(ops[k])]
           st == [k \in 1 .. L |-> Statements(Converted(ops[k]))]
           sent == Concat(L, st)
           q == [k \in 1 .. L |-> IF sent[k].kind = "gate" /\ sent[k].name # "id" THEN <<sent[k]>> ELSE <<>>]
           u == Concat(L, p)
           v == Concat(L, q)
           Agree(x, y) == Op("gate", QisName[x.gate], x.control \o <<x.target>>, x.rotation) = Read(y)
<1>1. L \in Nat /\ DOMAIN ops = 1 .. L /\ \A k \in 1 .. L : ops[k] \in NativeOperations
  BY LenProperties, ElementOfSeq
<1>2. \A k \in 1 .. L : p[k] = Ionq(ops[k]) /\ st[k] = Statements(Converted(ops[k]))  OBVIOUS
<1>3. \A k \in 1 .. L : OneStatement(ops[k], st[k]) /\ AsIonq(ops[k], p[k])
  <2> HIDE DEF p, st, L
  <2> TAKE k \in 1 .. L
  <2>1. ops[k] \in NativeOperations  BY <1>1
  <2>2. OneStatement(ops[k], Statements(Converted(ops[k])))  BY <2>1, StatementIs
  <2>3. AsIonq(ops[k], Ionq(ops[k]))  BY <2>1, IonqIs
  <2> QED  BY <1>2, <2>2, <2>3
<1>4. SameGates(ops) <=> /\ Len(u) = Len(GatesOf(sent))
                         /\ \A k \in DOMAIN u : Agree(u[k], GatesOf(sent)[k])
  <2>1. p = [k \in DOMAIN ops |-> Ionq(ops[k])] /\ st = [k \in DOMAIN ops |-> Statements(Converted(ops[k]))]  BY <1>1
  <2> HIDE DEF p, st
  <2> QED  BY <2>1 DEF SameGates
<1> HIDE DEF p, st
<1>5. Len(sent) = L /\ DOMAIN sent = 1 .. L /\ \A k \in 1 .. L : sent[k] = st[k][1] /\ sent[k] \in Instructions_
  <2>1. \A k \in 1 .. L : st[k] \in Seq(Instructions_) /\ Len(st[k]) = 1  BY <1>3 DEF OneStatement
  <2> HIDE DEF L
  <2>2. Len(Concat(L, st)) = L /\ \A k \in 1 .. L : Concat(L, st)[k] = st[k][1]  BY <1>1, <2>1, ConcatSingles
  <2>3. Concat(L, st) \in Seq(Instructions_)  BY <1>1, <2>1, ConcatType
  <2> HIDE DEF sent
  <2>4. sent \in Seq(Instructions_) /\ Len(sent) = L /\ \A k \in 1 .. L : sent[k] = st[k][1]  BY <2>2, <2>3 DEF sent
  <2>5. \A k \in 1 .. L : sent[k] \in Instructions_  BY <2>4, ElementOfSeq
  <2>6. DOMAIN sent = 1 .. Len(sent)  BY <2>4, LenProperties
  <2> QED  BY <2>4, <2>5, <2>6
<1>6. GatesOf(sent) = v
  <2>1. Len(sent) = L /\ DOMAIN sent = 1 .. L  BY <1>5
  <2> HIDE DEF sent, L
  <2>2. q = [k \in DOMAIN sent |-> IF sent[k].kind = "gate" /\ sent[k].name # "id" THEN <<sent[k]>> ELSE <<>>]
    BY <2>1
  <2> HIDE DEF q
  <2> QED  BY <2>1, <2>2 DEF GatesOf
<1>7. ASSUME NEW k \in 1 .. L
      PROVE  /\ p[k] \in Seq(IonqGates) /\ q[k] \in Seq(Instructions_) /\ Len(p[k]) = Len(q[k])
             /\ \A j \in 1 .. Len(p[k]) : Agree(p[k][j], q[k][j])
  <2> DEFINE o == ops[k]
             s == sent[k]
             one == <<s>>
             none == <<>>
  <2>1. OneStatement(o, st[k]) /\ AsIonq(o, p[k]) /\ o \in NativeOperations  BY <1>1, <1>3
  <2>2. s = st[k][1] /\ s \in Instructions_  BY <1>5
  <2>3. q[k] = IF s.kind = "gate" /\ s.name # "id" THEN one ELSE none  OBVIOUS
  <2> HIDE DEF s, q, o, sent, L
  <2>4. one \in Seq(Instructions_) /\ Len(one) = 1 /\ one[1] = s  BY <2>2, SeqSingle
  <2>5. none \in Seq(Instructions_) /\ Len(none) = 0  BY EmptySeq
  <2> HIDE DEF one, none
  <2>6. CASE o.op # "gate"
    <3>1. s.kind # "gate" /\ p[k] \in Seq(IonqGates) /\ Len(p[k]) = 0  BY <2>1, <2>2, <2>6 DEF OneStatement, AsIonq
    <3>2. q[k] = none  BY <2>3, <3>1
    <3>3. \A j \in 1 .. Len(p[k]) : FALSE  BY <3>1
    <3> HIDE DEF Agree
    <3> QED  BY <2>5, <3>1, <3>2, <3>3
  <2>7. CASE o.op = "gate"
    <3> DEFINE args == IF o.name = "rz" THEN o.args ELSE <<>>
               x == p[k][1]
    <3>1. s = Instruction("gate", o.name, o.wires, <<>>, args)  BY <2>1, <2>2, <2>7 DEF OneStatement
    <3>2. o.name \in {"rz", "sx", "x", "cx"}  BY <2>1, <2>7, NativeKinds
    <3>3. s.kind = "gate" /\ s.name = o.name /\ s.qubits = o.wires /\ s.params = args  BY <3>1 DEF Instruction
    <3>4. q[k] = one
      <4>1. s.name # "id"  BY <3>2, <3>3
      <4> QED  BY <2>3, <3>3, <4>1
    <3>5. /\ p[k] \in Seq(IonqGates) /\ Len(p[k]) = 1
          /\ QisName[x.gate] = o.name /\ x.control \o <<x.target>> = o.wires /\ x.rotation = args
      BY <2>1, <2>7 DEF AsIonq
    <3> HIDE DEF x, args
    <3>6. Read(s) = Op("gate", o.name, o.wires, args)  BY <3>3 DEF Read
    <3>7. Agree(x, s)  BY <3>5, <3>6, Zenon
    <3>8. \A j \in 1 .. Len(p[k]) : j = 1  BY <3>5
    <3> HIDE DEF Agree
    <3>9. \A j \in 1 .. Len(p[k]) : Agree(p[k][j], q[k][j])  BY <2>4, <3>4, <3>7, <3>8 DEF x
    <3> QED  BY <2>4, <3>4, <3>5, <3>9
  <2> QED  BY <2>6, <2>7
<1> HIDE DEF q, sent, L, Agree, u, v
<1>8. Paired(L, p, q, u, v)
  <2>1. \A k \in 1 .. L : p[k] \in Seq(IonqGates) /\ q[k] \in Seq(Instructions_) /\ Len(p[k]) = Len(q[k])  BY <1>7
  <2>2. L \in Nat  BY <1>1
  <2>3. Twins(IonqGates, Instructions_, L, p, q)  BY <2>1 DEF Twins
  <2>4. Paired(L, p, q, Concat(L, p), Concat(L, q))  BY <2>2, <2>3, ConcatTwins
  <2> QED  BY <2>4 DEF u, v
<1>9. u \in Seq(IonqGates)
  <2>1. \A k \in 1 .. L : p[k] \in Seq(IonqGates)  BY <1>7
  <2> QED  BY <1>1, <2>1, ConcatType DEF u
<1>10. Len(u) = Len(v) /\ \A i \in 1 .. Len(u) : Agree(u[i], v[i])
  <2>1. \A k \in 1 .. L : \A j \in 1 .. Len(p[k]) : Agree(p[k][j], q[k][j])  BY <1>7
  <2>2. Len(u) = Len(v)  BY <1>8 DEF Paired
  <2>3. ASSUME NEW i \in 1 .. Len(u)  PROVE Agree(u[i], v[i])
    <3>1. PICK k \in 1 .. L : \E j \in 1 .. Len(p[k]) : u[i] = p[k][j] /\ v[i] = q[k][j]  BY <1>8 DEF Paired
    <3>2. PICK j \in 1 .. Len(p[k]) : u[i] = p[k][j] /\ v[i] = q[k][j]  BY <3>1
    <3> QED  BY <2>1, <3>2
  <2> QED  BY <2>2, <2>3
<1>11. DOMAIN u = 1 .. Len(u)  BY <1>9, LenProperties
<1> QED  BY <1>4, <1>6, <1>10, <1>11

(***************************************************************************)
(* For all programs and devices: of one compiled circuit the two services  *)
(* are sent the same gates, on the same qubits and with the same angles,   *)
(* in the same order (convert.rs and qasm.rs of cqam-qpu-ibm, circuit.rs   *)
(* of cqam-qpu-ionq).                                                      *)
(***************************************************************************)
THEOREM ServicesAgree == Spec => []BothServicesRunTheSame
<1>1. ASSUME NEW c, c.ops \in Seq(NativeOperations), answer.circuit = c
      PROVE  BothServicesRunTheSame
  <2> DEFINE ops == c.ops
             qk == [k \in DOMAIN ops |-> Converted(ops[k])]
             st == [k \in DOMAIN ops |-> Statements(Converted(ops[k]))]
  <2>1. SameGates(ops)  BY <1>1, SameGatesSent
  <2>2. SentToIonq(c) = Concat(Len(ops), [k \in DOMAIN ops |-> Ionq(ops[k])])  BY DEF SentToIonq
  <2>3. SentToIbm(c).ops = Concat(Len(qk), [k \in DOMAIN qk |-> Statements(qk[k])])
    BY DEF SentToIbm, Qasm, QiskitCircuit
  <2>4. Len(qk) = Len(ops) /\ [k \in DOMAIN qk |-> Statements(qk[k])] = st
    <3>1. ops \in Seq(NativeOperations)  BY <1>1
    <3> HIDE DEF ops
    <3>2. DOMAIN ops = 1 .. Len(ops) /\ Len(ops) \in Nat  BY <3>1, LenProperties
    <3>3. DOMAIN qk = DOMAIN ops /\ \A k \in DOMAIN ops : qk[k] = Converted(ops[k])  OBVIOUS
    <3>4. qk = [k \in 1 .. Len(ops) |-> qk[k]]  BY <3>2
    <3> HIDE DEF qk
    <3>5. Len(qk) = Len(ops)
      <4> DEFINE n == Len(ops)
                 A == {qk[k] : k \in 1 .. n}
      <4>1. n \in Nat /\ qk = [k \in 1 .. n |-> qk[k]] /\ \A k \in 1 .. n : qk[k] \in A  BY <3>2, <3>4
      <4> HIDE DEF n, A
      <4>2. Len(qk) = n  BY <4>1, FunctionIsSeq
      <4> QED  BY <4>2 DEF n
    <3> QED  BY <3>3, <3>5
  <2>5. SentToIbm(c).ops = Concat(Len(ops), st)
    <3> HIDE DEF qk, st
    <3> QED  BY <2>3, <2>4, Zenon DEF qk
  <2> HIDE DEF qk
  <2> QED  BY <1>1, <2>1, <2>2, <2>5 DEF BothServicesRunTheSame, SameGates
<1>2. PipelineInv => answer.circuit.ops \in Seq(NativeOperations)
  <2> SUFFICES ASSUME PipelineInv  PROVE answer.circuit.ops \in Seq(NativeOperations)  OBVIOUS
  <2>1. CASE answer.circuit = NoCircuit
    <3>1. answer.circuit.ops = <<>>  BY <2>1 DEF NoCircuit
    <3> QED  BY <3>1, EmptySeq
  <2>2. CASE answer.circuit \in CircuitsFor(device)
    <3> DEFINE c == answer.circuit
               S == NativeOn(device, c.wires)
    <3>1. c.ops \in Seq(S)  BY <2>2 DEF CircuitsFor
    <3>2. S \subseteq NativeOperations  BY DEF NativeOn
    <3> HIDE DEF S
    <3> QED  BY <3>1, <3>2, SeqMonotonic
  <2> QED  BY <2>1, <2>2 DEF PipelineInv
<1>3. PipelineInv => BothServicesRunTheSame  BY <1>1, <1>2
<1> QED  BY <1>3, PipelineInvHolds, PTL

=============================================================================
