------------------------- MODULE GraphOps_proofs -------------------------
(***************************************************************************)
(* What the searches of GraphOps compute, for every finite graph.  They    *)
(* stand on induction and recursion without operator parameters: the       *)
(* induction theorems of the library quantify over a predicate; here the   *)
(* predicate is the set of what satisfies it, and a recursive function is  *)
(* the fixed point of a function on functions.  The theorems about other   *)
(* modules use these lemmas too.                                           *)
(***************************************************************************)
EXTENDS GraphOps, Integers, FiniteSets, WellFoundedInduction, FiniteSetTheorems,
        SequencesExt, TLAPS

----------------------------------------------------------------------------
(* Induction, recursion and folds.                                         *)

Less == {p \in Nat \X Nat : p[1] < p[2]}

\* A set of numbers that is not empty has a least element.
LEMMA LeastElement ==
    ASSUME NEW T \in SUBSET Nat, T # {}
    PROVE  \E n \in T : \A m \in T : n <= m
<1>1. IsWellFoundedOn(Less, Nat)
  <2>1. Less = OpToRel(<, Nat)
    BY DEF Less, OpToRel
  <2> QED
    BY <2>1, NatLessThanWellFounded
<1>2. PICK n \in T : \A m \in T : ~ (<<m, n>> \in Less)
  BY <1>1, WFMin
<1>3. ASSUME NEW m \in T
      PROVE  n <= m
  <2>1. <<m, n>> \notin Less
    BY <1>2
  <2>2. m \in Nat /\ n \in Nat
    OBVIOUS
  <2>3. m < n => <<m, n>> \in Less
    BY <2>2 DEF Less
  <2> QED
    BY <2>1, <2>2, <2>3
<1> QED
  BY <1>3

\* Induction over the natural numbers.
LEMMA NatInduct ==
    ASSUME NEW T, 0 \in T, \A n \in Nat : n \in T => n + 1 \in T
    PROVE  Nat \subseteq T
<1> SUFFICES ASSUME Nat \ T # {}
             PROVE  FALSE
  OBVIOUS
<1>1. PICK n \in Nat \ T : \A m \in Nat \ T : n <= m
  BY LeastElement
<1>2. n # 0 /\ n - 1 \in Nat /\ n - 1 + 1 = n
  BY <1>1
<1>3. n - 1 \in T
  BY <1>1, <1>2
<1> QED
  BY <1>1, <1>2, <1>3

\* Induction up to a bound.
LEMMA UpToInduct ==
    ASSUME NEW k \in Nat, NEW T, 0 \in T, \A n \in 0..k-1 : n \in T => n + 1 \in T
    PROVE  0..k \subseteq T
<1> DEFINE U == {n \in Nat : n <= k => n \in T}
<1>1. 0 \in U
  OBVIOUS
<1>2. \A n \in Nat : n \in U => n + 1 \in U
  OBVIOUS
<1> HIDE DEF U
<1>3. Nat \subseteq U
  BY <1>1, <1>2, NatInduct
<1> QED
  BY <1>3 DEF U

\* Max of SequencesExt on a bounded set of numbers.
LEMMA MaxExists ==
    ASSUME NEW S \in SUBSET Nat, NEW b \in Nat, \A x \in S : x <= b, S # {}
    PROVE  Max(S) \in S /\ \A y \in S : y <= Max(S)
<1> DEFINE B == {n \in Nat : \A x \in S : x <= n}
<1>1. PICK n \in B : \A m \in B : n <= m
  <2>1. b \in B
    OBVIOUS
  <2> QED
    BY <2>1, LeastElement
<1>2. n \in S
  <2> SUFFICES ASSUME n \notin S
               PROVE  FALSE
    OBVIOUS
  <2>1. n \in Nat /\ \A x \in S : x <= n /\ x # n
    BY <1>1
  <2>2. n # 0
    <3> PICK x \in S : TRUE
      OBVIOUS
    <3> QED
      BY <2>1
  <2>3. n - 1 \in B
    BY <2>1, <2>2
  <2> QED
    BY <1>1, <2>3
<1>3. n \in S /\ \A y \in S : n >= y
  BY <1>1, <1>2
<1> QED
  BY <1>3 DEF Max

----------------------------------------------------------------------------
(* Recursion.  Phi rewrites a function once by its recursive equation; when *)
(* its value at d depends only on values of smaller rank, some function     *)
(* satisfies the equation everywhere.                                       *)

\* it lists what k applications of Phi make of x0.
Iteration(it, x0, Phi, k) == it[0] = x0 /\ \A n \in 0..k-1 : it[n + 1] = Phi[it[n]]

\* A function can be applied k times in a row.
LEMMA Iterates ==
    ASSUME NEW X, NEW x0 \in X, NEW Phi \in [X -> X], NEW k \in Nat
    PROVE  \E it \in [0..k -> X] : Iteration(it, x0, Phi, k)
<1> USE DEF Iteration
<1> DEFINE Good(n) == \E it \in [0..n -> X] : Iteration(it, x0, Phi, n)
           T == {n \in Nat : Good(n)}
<1>1. 0 \in T
  <2> DEFINE first == [i \in 0..0 |-> x0]
  <2>1. first \in [0..0 -> X] /\ first[0] = x0
    OBVIOUS
  <2>2. \A i \in 0..0-1 : FALSE
    OBVIOUS
  <2> HIDE DEF first
  <2>3. Good(0)
    BY <2>1, <2>2
  <2> QED
    BY <2>3
<1>2. ASSUME NEW n \in Nat, n \in T
      PROVE  n + 1 \in T
  <2> PICK it \in [0..n -> X] : it[0] = x0 /\ \A i \in 0..n-1 : it[i + 1] = Phi[it[i]]
    BY <1>2
  <2> DEFINE next == [i \in 0..n+1 |-> IF i <= n THEN it[i] ELSE Phi[it[n]]]
  <2>1. next \in [0..n+1 -> X]
    OBVIOUS
  <2>2. next[0] = x0
    OBVIOUS
  <2>3. ASSUME NEW i \in 0..n
        PROVE  next[i + 1] = Phi[next[i]]
    <3>1. CASE i = n
      BY <3>1
    <3>2. CASE i # n
      <4>1. i \in 0..n-1 /\ i + 1 <= n /\ i + 1 \in 0..n+1
        BY <3>2
      <4> QED
        BY <4>1
    <3> QED
      BY <3>1, <3>2
  <2>4. 0..(n+1)-1 = 0..n
    OBVIOUS
  <2> QED
    BY <2>1, <2>2, <2>3, <2>4
<1> HIDE DEF T
<1>3. Nat \subseteq T
  BY <1>1, <1>2, NatInduct
<1> QED
  BY <1>3 DEF T

FunctionsOver(X, D) == \A f \in X : f = [d \in D |-> f[d]]

Contracts(Phi, X, D, rank) ==
    \A f, g \in X : \A d \in D :
        (\A e \in D : rank[e] < rank[d] => f[e] = g[e]) => Phi[f][d] = Phi[g][d]

\* A recursive definition that always refers to smaller ranks has a solution.
LEMMA RecursiveFunctionExists ==
    ASSUME NEW D, NEW X, FunctionsOver(X, D), NEW x0 \in X, NEW Phi \in [X -> X],
           NEW k \in Nat, NEW rank \in [D -> 0..k], Contracts(Phi, X, D, rank)
    PROVE  \E f \in X : f = Phi[f]
<1>1. PICK it \in [0..k+2 -> X] : it[0] = x0 /\ \A n \in 0..k+1 : it[n + 1] = Phi[it[n]]
  <2>1. k + 2 \in Nat /\ (k + 2) - 1 = k + 1
    OBVIOUS
  <2>2. \E it \in [0..k+2 -> X] : Iteration(it, x0, Phi, k + 2)
    BY <2>1, Iterates
  <2> QED
    BY <2>1, <2>2 DEF Iteration
<1> DEFINE T == {n \in 0..k+1 : \A d \in D : rank[d] < n => it[n][d] = it[n + 1][d]}
<1>2. 0 \in T
  OBVIOUS
<1>3. ASSUME NEW n \in 0..k, n \in T
      PROVE  n + 1 \in T
  <2> SUFFICES \A d \in D : rank[d] < n + 1 => it[n + 1][d] = it[n + 2][d]
    <3>1. n + 1 \in 0..k+1 /\ (n + 1) + 1 = n + 2
      OBVIOUS
    <3> QED
      BY <3>1
  <2> SUFFICES ASSUME NEW d \in D, rank[d] < n + 1
               PROVE  it[n + 1][d] = it[n + 2][d]
    OBVIOUS
  <2>1. it[n] \in X /\ it[n + 1] \in X
    OBVIOUS
  <2>2. \A e \in D : rank[e] < rank[d] => it[n][e] = it[n + 1][e]
    BY <1>3
  <2>3. Phi[it[n]][d] = Phi[it[n + 1]][d]
    BY <2>1, <2>2 DEF Contracts
  <2>4. it[n + 1] = Phi[it[n]] /\ it[n + 2] = Phi[it[n + 1]]
    <3>1. n \in 0..k+1 /\ n + 1 \in 0..k+1 /\ (n + 1) + 1 = n + 2
      OBVIOUS
    <3> QED
      BY <3>1, <1>1
  <2> QED
    BY <2>3, <2>4
<1> HIDE DEF T
<1>4. 0..k+1 \subseteq T
  <2>1. k + 1 \in Nat /\ (k + 1) - 1 = k
    OBVIOUS
  <2> QED
    BY <1>2, <1>3, <2>1, UpToInduct
<1>5. \A d \in D : it[k + 1][d] = it[k + 2][d]
  <2>1. k + 1 \in T /\ (k + 1) + 1 = k + 2
    BY <1>4
  <2> QED
    BY <2>1 DEF T
<1>6. it[k + 1] \in X /\ it[k + 2] \in X /\ it[k + 2] = Phi[it[k + 1]]
  <2>1. k + 1 \in 0..k+1 /\ k + 1 \in 0..k+2 /\ k + 2 \in 0..k+2 /\ (k + 1) + 1 = k + 2
    OBVIOUS
  <2> QED
    BY <2>1, <1>1
<1>7. it[k + 1] = it[k + 2]
  BY <1>5, <1>6 DEF FunctionsOver
<1> QED
  BY <1>6, <1>7

\* What is left of a finite set gets smaller.
LEMMA LessIsLeft ==
    ASSUME NEW N, IsFiniteSet(N), NEW s \in SUBSET N, NEW t \in SUBSET N,
           s \subseteq t, s # t
    PROVE  /\ Cardinality(N \ s) \in 0..Cardinality(N)
           /\ Cardinality(N \ t) \in 0..Cardinality(N)
           /\ Cardinality(N \ t) < Cardinality(N \ s)
<1>1. IsFiniteSet(N \ s) /\ IsFiniteSet(N \ t)
  BY FS_Subset
<1>2. /\ Cardinality(N \ s) \in Nat /\ Cardinality(N \ t) \in Nat
      /\ Cardinality(N) \in Nat
  BY <1>1, FS_CardinalityType
<1>3. Cardinality(N \ s) <= Cardinality(N) /\ Cardinality(N \ t) <= Cardinality(N)
  BY FS_Subset
<1>4. N \ t \in SUBSET (N \ s) /\ N \ t # N \ s
  OBVIOUS
<1>5. Cardinality(N \ t) <= Cardinality(N \ s) /\ Cardinality(N \ t) # Cardinality(N \ s)
  BY <1>1, <1>4, FS_Subset
<1> QED
  BY <1>2, <1>3, <1>5

\* Induction over the subsets of a finite set, the larger ones first.
LEMMA SupersetInduct ==
    ASSUME NEW N, IsFiniteSet(N), NEW P,
           \A s \in SUBSET N : (\A t \in SUBSET N : s \subseteq t /\ s # t => t \in P) => s \in P
    PROVE  SUBSET N \subseteq P
<1> SUFFICES ASSUME NEW s0 \in SUBSET N, s0 \notin P
             PROVE  FALSE
  OBVIOUS
<1> DEFINE T == {n \in Nat : \E s \in (SUBSET N) \ P : Cardinality(N \ s) = n}
<1>1. ASSUME NEW s \in SUBSET N
      PROVE  Cardinality(N \ s) \in Nat
  BY FS_Subset, FS_CardinalityType
<1>2. T \in SUBSET Nat /\ T # {}
  <2>1. Cardinality(N \ s0) \in T
    BY <1>1
  <2> QED
    BY <2>1
<1> HIDE DEF T
<1>3. PICK n \in T : \A m \in T : n <= m
  BY <1>2, LeastElement
<1>4. PICK s \in (SUBSET N) \ P : n = Cardinality(N \ s)
  BY <1>3 DEF T
<1>5. ASSUME NEW t \in SUBSET N, s \subseteq t, s # t, t \notin P
      PROVE  FALSE
  <2>1. /\ Cardinality(N \ s) \in 0..Cardinality(N)
        /\ Cardinality(N \ t) \in 0..Cardinality(N)
        /\ Cardinality(N \ t) < Cardinality(N \ s)
    BY <1>5, LessIsLeft
  <2>2. Cardinality(N \ t) \in T
    BY <1>1, <1>5 DEF T
  <2>3. n <= Cardinality(N \ t)
    BY <1>3, <2>2
  <2>4. Cardinality(N \ s) \in Nat /\ Cardinality(N \ t) \in Nat
    BY <1>1
  <2> QED
    BY <1>4, <2>1, <2>3, <2>4
<1> QED
  BY <1>4, <1>5

----------------------------------------------------------------------------
(* FoldLeft, step by step.  A proof about a fold goes through the values it *)
(* passes: acc[i] is the accumulator after the first i elements.            *)

FoldOf(F, base, seq) == FoldLeft(LAMBDA acc, x : F[acc][x], base, seq)

FoldSteps(acc, F, base, seq, n) ==
    acc[0] = base /\ \A i \in 1..n : acc[i] = F[acc[i - 1]][seq[i]]

\* The value FoldLeft gives to the positions in s, from its values f at smaller
\* sets of positions.
FoldBody(f, F, base, seq, s) ==
    IF s = {} THEN base ELSE F[f[s \ {Max(s)}]][seq[Max(s)]]

LEMMA FoldUnfold ==
    ASSUME NEW F, NEW base, NEW seq
    PROVE  FoldOf(F, base, seq) =
             (CHOOSE it : it = [s \in SUBSET DOMAIN seq |-> FoldBody(it, F, base, seq, s)])[DOMAIN seq]
  BY DEF FoldOf, FoldLeft, MapThenFoldSet, FoldBody

LEMMA PositionsInductively ==
    ASSUME NEW n \in Nat, NEW s \in SUBSET (1..n)
    PROVE  /\ IsFiniteSet(s) /\ Cardinality(s) \in 0..n
           /\ s # {} => /\ Max(s) \in s
                        /\ s \ {Max(s)} \in SUBSET (1..n)
                        /\ Cardinality(s \ {Max(s)}) = Cardinality(s) - 1
<1>1. IsFiniteSet(1..n) /\ Cardinality(1..n) = n
  BY FS_Interval
<1>2. IsFiniteSet(s) /\ Cardinality(s) \in 0..n
  <2>1. IsFiniteSet(s) /\ Cardinality(s) <= Cardinality(1..n)
    BY <1>1, FS_Subset
  <2>2. Cardinality(s) \in Nat
    BY <2>1, FS_CardinalityType
  <2> QED
    BY <1>1, <2>1, <2>2
<1>3. ASSUME s # {}
      PROVE  Max(s) \in s
  <2>1. s \in SUBSET Nat /\ \A x \in s : x <= n
    OBVIOUS
  <2> QED
    BY <2>1, <1>3, MaxExists
<1>4. ASSUME s # {}
      PROVE  Cardinality(s \ {Max(s)}) = Cardinality(s) - 1
  BY <1>2, <1>3, <1>4, FS_RemoveElement
<1> QED
  BY <1>2, <1>3, <1>4

LEMMA PrefixMax ==
    ASSUME NEW i \in Nat, 1 <= i
    PROVE  Max(1..i) = i /\ (1..i) \ {i} = 1..(i - 1)
<1>1. 1..i \in SUBSET Nat /\ i \in 1..i /\ \A x \in 1..i : x <= i
  OBVIOUS
<1>2. Max(1..i) \in 1..i /\ \A y \in 1..i : y <= Max(1..i)
  BY <1>1, MaxExists
<1>3. Max(1..i) = i
  BY <1>1, <1>2
<1> QED
  BY <1>3

LEMMA FoldTrace ==
    ASSUME NEW F, NEW base, NEW seq, NEW n \in Nat, DOMAIN seq = 1..n
    PROVE  \E acc : FoldSteps(acc, F, base, seq, n) /\ FoldOf(F, base, seq) = acc[n]
<1> DEFINE D == SUBSET (1..n)
           Body(f, s) == FoldBody(f, F, base, seq, s)
           Good(j) == \E f : \A s \in D : Cardinality(s) <= j => f[s] = Body(f, s)
           T == {j \in Nat : Good(j)}
<1>0. ASSUME NEW s \in D
      PROVE  /\ Cardinality(s) \in 0..n
             /\ Cardinality(s) <= 0 => s = {}
             /\ s # {} => /\ s \ {Max(s)} \in D
                          /\ Cardinality(s \ {Max(s)}) = Cardinality(s) - 1
  <2>1. s \in SUBSET (1..n)
    OBVIOUS
  <2>2. IsFiniteSet(s) => (Cardinality(s) = 0 <=> s = {})
    BY FS_EmptySet
  <2>3. /\ IsFiniteSet(s) /\ Cardinality(s) \in 0..n
        /\ s # {} => /\ s \ {Max(s)} \in SUBSET (1..n)
                     /\ Cardinality(s \ {Max(s)}) = Cardinality(s) - 1
    BY ONLY <2>1, n \in Nat, PositionsInductively
  <2> QED
    BY <2>2, <2>3
<1>1. 0 \in T
  <2> DEFINE f == [s \in D |-> base]
  <2>1. ASSUME NEW s \in D, Cardinality(s) <= 0
        PROVE  f[s] = Body(f, s)
    <3>1. s = {}
      BY <2>1, <1>0
    <3> QED
      BY <3>1 DEF FoldBody
  <2> QED
    BY <2>1
<1>2. ASSUME NEW j \in Nat, j \in T
      PROVE  j + 1 \in T
  <2> PICK f : \A s \in D : Cardinality(s) <= j => f[s] = Body(f, s)
    BY <1>2
  <2> DEFINE next == [s \in D |-> Body(f, s)]
  <2>1. ASSUME NEW s \in D, Cardinality(s) <= j + 1
        PROVE  next[s] = Body(next, s)
    <3>1. CASE s = {}
      BY <3>1 DEF FoldBody
    <3>2. CASE s # {}
      <4> DEFINE r == s \ {Max(s)}
      <4>1. r \in D /\ Cardinality(r) <= j
        BY <3>2, <2>1, <1>0
      <4>2. next[r] = f[r]
        BY <4>1
      <4> QED
        BY <3>2, <4>2 DEF FoldBody
    <3> QED
      BY <3>1, <3>2
  <2> HIDE DEF next
  <2> QED
    BY <2>1
<1> HIDE DEF T
<1>3. n \in T
  BY <1>1, <1>2, NatInduct
<1>4. PICK f0 : \A s \in D : Cardinality(s) <= n => f0[s] = Body(f0, s)
  BY <1>3 DEF T
<1>5. \E it : it = [s \in D |-> Body(it, s)]
  <2> DEFINE it == [s \in D |-> f0[s]]
  <2>1. ASSUME NEW s \in D
        PROVE  it[s] = Body(it, s)
    <3>1. f0[s] = Body(f0, s)
      <4>1. Cardinality(s) \in 0..n
        BY <1>0, Zenon
      <4>2. Cardinality(s) <= n
        BY ONLY <4>1, n \in Nat
      <4> QED
        BY <1>4, <4>2, Zenon
    <3>2. CASE s = {}
      BY <3>1, <3>2 DEF FoldBody
    <3>3. CASE s # {}
      <4>1. s \ {Max(s)} \in D
        BY <3>3
      <4> QED
        BY <3>1, <3>3, <4>1 DEF FoldBody
    <3> QED
      BY <3>2, <3>3
  <2>2. it = [s \in D |-> it[s]]
    OBVIOUS
  <2> HIDE DEF it
  <2>3. it = [s \in D |-> Body(it, s)]
    BY <2>1, <2>2
  <2> QED
    BY <2>3
<1> DEFINE iter == CHOOSE it : it = [s \in D |-> Body(it, s)]
<1>6. iter = [s \in D |-> Body(iter, s)]
  BY <1>5
<1>7. FoldOf(F, base, seq) = iter[1..n]
  BY FoldUnfold
<1> HIDE DEF iter
<1> DEFINE acc == [i \in 0..n |-> iter[1..i]]
<1>8. acc[0] = base
  <2>1. 1..0 = {}
    OBVIOUS
  <2>2. iter[{}] = base
    BY <1>6 DEF FoldBody
  <2> QED
    BY <2>1, <2>2
<1>9. ASSUME NEW i \in 1..n
      PROVE  acc[i] = F[acc[i - 1]][seq[i]]
  <2>1. 1..i \in D /\ 1..(i - 1) \in D /\ i \in 1..i /\ i - 1 \in 0..n /\ i \in 0..n
    <3>1. i \in Nat /\ i <= n /\ 1 <= i
      OBVIOUS
    <3>2. 1..i \subseteq 1..n /\ 1..(i - 1) \subseteq 1..n
      BY <3>1
    <3> QED
      BY <3>1, <3>2
  <2>2. Max(1..i) = i /\ (1..i) \ {i} = 1..(i - 1)
    BY PrefixMax
  <2>3. 1..i # {}
    BY <2>1
  <2>4. iter[1..i] = F[iter[1..(i - 1)]][seq[i]]
    BY <1>6, <2>1, <2>2, <2>3 DEF FoldBody
  <2> QED
    BY <2>1, <2>4
<1> HIDE DEF acc
<1>10. FoldSteps(acc, F, base, seq, n)
  BY <1>8, <1>9 DEF FoldSteps
<1> QED
  BY <1>7, <1>10 DEF acc

----------------------------------------------------------------------------
(* FlattenSeq, sequence by sequence.                                       *)

FlatBody(f, seqs, i) == IF i = 1 THEN seqs[i] ELSE f[i - 1] \o seqs[i]

FlatSteps(flat, seqs, n) ==
    /\ flat[1] = seqs[1]
    /\ \A i \in 2..n : flat[i] = flat[i - 1] \o seqs[i]

LEMMA FlattenUnfold ==
    ASSUME NEW seqs, Len(seqs) # 0
    PROVE  FlattenSeq(seqs) =
             (CHOOSE flat : flat = [i \in 1..Len(seqs) |-> FlatBody(flat, seqs, i)])[Len(seqs)]
  BY DEF FlattenSeq, FlatBody

\* seqs is a sequence of n sequences over S.
SequencesOver(seqs, S, n) ==
    DOMAIN seqs = 1..n /\ Len(seqs) = n /\ \A i \in 1..n : seqs[i] \in Seq(S)

LEMMA FlattenTrace ==
    ASSUME NEW S, NEW n \in Nat, NEW seqs, SequencesOver(seqs, S, n), n # 0
    PROVE  \E flat \in [1..n -> Seq(S)] :
              FlatSteps(flat, seqs, n) /\ FlattenSeq(seqs) = flat[n]
<1> DEFINE D    == 1..n
           X    == [D -> Seq(S)]
           Phi  == [f \in X |-> [i \in D |-> FlatBody(f, seqs, i)]]
           rank == [i \in D |-> i]
<1>1. n >= 1 /\ Len(seqs) = n /\ \A i \in D : seqs[i] \in Seq(S)
  BY DEF SequencesOver
<1>2. FunctionsOver(X, D)
  BY DEF FunctionsOver
<1>3. [i \in D |-> seqs[i]] \in X
  BY <1>1
<1>4. ASSUME NEW f \in X, NEW i \in D
      PROVE  FlatBody(f, seqs, i) \in Seq(S)
  <2>1. CASE i = 1
    BY <1>1, <2>1 DEF FlatBody
  <2>2. CASE i # 1
    <3>1. i - 1 \in D
      BY <1>1, <2>2
    <3>2. f[i - 1] \in Seq(S) /\ seqs[i] \in Seq(S)
      BY <1>1, <3>1
    <3> QED
      BY <2>2, <3>2 DEF FlatBody
  <2> QED
    BY <2>1, <2>2
<1>5. Phi \in [X -> X]
  BY <1>4
<1>6. rank \in [D -> 0..n]
  BY <1>1
<1>7. ASSUME NEW f \in X, NEW g \in X, NEW i \in D,
             \A j \in D : rank[j] < rank[i] => f[j] = g[j]
      PROVE  Phi[f][i] = Phi[g][i]
  <2>1. i # 1 => i - 1 \in D /\ rank[i - 1] < rank[i]
    BY <1>1
  <2>2. FlatBody(f, seqs, i) = FlatBody(g, seqs, i)
    BY <1>7, <2>1 DEF FlatBody
  <2> QED
    BY <2>2
<1>8. Contracts(Phi, X, D, rank)
  BY <1>7 DEF Contracts
<1>9. \E f \in X : f = Phi[f]
  <2> HIDE DEF X, Phi, rank, D
  <2> QED
    BY <1>1, <1>2, <1>3, <1>5, <1>6, <1>8, RecursiveFunctionExists
<1>10. PICK f \in X : f = [i \in D |-> FlatBody(f, seqs, i)]
  BY <1>9
<1> DEFINE flat == CHOOSE it : it = [i \in D |-> FlatBody(it, seqs, i)]
<1>11. flat = [i \in D |-> FlatBody(flat, seqs, i)]
  BY <1>10
<1>12. FlattenSeq(seqs) = flat[n]
  BY <1>1, FlattenUnfold
<1> HIDE DEF flat
<1>13. ASSUME NEW g, g = [i \in D |-> FlatBody(g, seqs, i)]
       PROVE  FlatSteps(g, seqs, n)
  <2>1. g[1] = seqs[1]
    BY <1>1, <1>13 DEF FlatBody
  <2>2. ASSUME NEW i \in 2..n
        PROVE  g[i] = g[i - 1] \o seqs[i]
    <3>1. i \in D /\ i # 1
      BY <1>1
    <3>2. g[i] = FlatBody(g, seqs, i)
      BY <1>13, <3>1
    <3> QED
      BY <3>1, <3>2 DEF FlatBody
  <2> QED
    BY <2>1, <2>2 DEF FlatSteps
<1>14. FlatSteps(flat, seqs, n) /\ FlatSteps(f, seqs, n)
  BY <1>10, <1>11, <1>13
<1> DEFINE T == {k \in 0..n : k = 0 \/ flat[k] = f[k]}
<1>15. ASSUME NEW k \in 0..n-1, k \in T
       PROVE  k + 1 \in T
  <2>1. k + 1 \in 0..n
    OBVIOUS
  <2>2. CASE k = 0
    BY <1>14, <2>1, <2>2 DEF FlatSteps
  <2>3. CASE k # 0
    <3>1. k + 1 \in 2..n /\ (k + 1) - 1 = k
      BY <2>3
    <3>2. flat[k + 1] = flat[k] \o seqs[k + 1] /\ f[k + 1] = f[k] \o seqs[k + 1]
      BY <1>14, <3>1 DEF FlatSteps
    <3> QED
      BY <1>15, <2>1, <2>3, <3>2
  <2> QED
    BY <2>2, <2>3
<1>16. 0..n \subseteq T
  <2>1. 0 \in T
    BY <1>1
  <2> HIDE DEF T
  <2> QED
    BY <1>15, <2>1, UpToInduct
<1>17. flat \in X
  <2>1. \A i \in D : flat[i] = f[i]
    BY <1>1, <1>16
  <2>2. \A i \in D : f[i] \in Seq(S)
    OBVIOUS
  <2>3. flat = [i \in D |-> flat[i]]
    BY <1>11
  <2> QED
    BY <2>1, <2>2, <2>3
<1> QED
  BY <1>12, <1>14, <1>17

\* What every sequence of seqs and the empty one has, and what two sequences hand on
\* to their concatenation, FlattenSeq(seqs) has.
LEMMA FlattenHas ==
    ASSUME NEW S, NEW n \in Nat, NEW seqs, SequencesOver(seqs, S, n),
           NEW T, <<>> \in T,
           \A i \in 1..n : seqs[i] \in T,
           \A a, b \in T : a \o b \in T,
           n = 0 => seqs = <<>>
    PROVE  FlattenSeq(seqs) \in T
<1>1. CASE n = 0
  BY <1>1 DEF FlattenSeq, SequencesOver
<1>2. CASE n # 0
  <2>1. PICK flat \in [1..n -> Seq(S)] :
           FlatSteps(flat, seqs, n) /\ FlattenSeq(seqs) = flat[n]
    BY <1>2, FlattenTrace
  <2> DEFINE G == {k \in 0..n : k = 0 \/ flat[k] \in T}
  <2>2. ASSUME NEW k \in 0..n-1, k \in G
        PROVE  k + 1 \in G
    <3>1. k + 1 \in 0..n /\ k + 1 \in 1..n
      OBVIOUS
    <3>2. CASE k = 0
      BY <2>1, <3>1, <3>2 DEF FlatSteps
    <3>3. CASE k # 0
      <4>1. k + 1 \in 2..n /\ (k + 1) - 1 = k
        BY <3>3
      <4>2. flat[k + 1] = flat[k] \o seqs[k + 1]
        BY <2>1, <4>1 DEF FlatSteps
      <4>3. flat[k] \in T /\ seqs[k + 1] \in T
        BY <2>2, <3>1, <3>3
      <4> QED
        BY <3>1, <4>2, <4>3
    <3> QED
      BY <3>2, <3>3
  <2>3. 0..n \subseteq G
    <3>1. 0 \in G
      OBVIOUS
    <3> HIDE DEF G
    <3> QED
      BY <2>2, <3>1, UpToInduct
  <2>4. n \in G /\ n # 0
    BY <1>2, <2>3
  <2> QED
    BY <2>1, <2>4
<1> QED
  BY <1>1, <1>2

LEMMA ConcatHolds ==
    ASSUME NEW S, NEW a \in Seq(S), NEW b \in Seq(S), NEW x, x \in Range(a) \/ x \in Range(b)
    PROVE  x \in Range(a \o b)
<1>1. CASE x \in Range(a)
  <2>1. PICK j \in 1..Len(a) : a[j] = x
    BY <1>1 DEF Range
  <2>2. j \in DOMAIN (a \o b) /\ (a \o b)[j] = x
    BY <2>1
  <2> QED
    BY <2>2 DEF Range
<1>2. CASE x \in Range(b)
  <2>1. PICK j \in 1..Len(b) : b[j] = x
    BY <1>2 DEF Range
  <2>2. Len(a) + j \in DOMAIN (a \o b) /\ (a \o b)[Len(a) + j] = x
    BY <2>1
  <2> QED
    BY <2>2 DEF Range
<1> QED
  BY <1>1, <1>2

\* It has all their elements.
LEMMA FlattenHolds ==
    ASSUME NEW S, NEW n \in Nat, NEW seqs, SequencesOver(seqs, S, n),
           NEW i \in 1..n, NEW x \in Range(seqs[i])
    PROVE  x \in Range(FlattenSeq(seqs))
<1>1. PICK flat \in [1..n -> Seq(S)] :
         FlatSteps(flat, seqs, n) /\ FlattenSeq(seqs) = flat[n]
  <2>1. n # 0
    OBVIOUS
  <2> QED
    BY <2>1, FlattenTrace
<1>2. \A j \in 1..n : seqs[j] \in Seq(S) /\ flat[j] \in Seq(S)
  BY DEF SequencesOver
<1> DEFINE G == {k \in 0..n : k >= i => x \in Range(flat[k])}
<1>3. ASSUME NEW k \in 0..n-1, k \in G
      PROVE  k + 1 \in G
  <2>1. k + 1 \in 0..n /\ k + 1 \in 1..n
    OBVIOUS
  <2>2. CASE k = 0
    BY <1>1, <2>1, <2>2 DEF FlatSteps
  <2>3. CASE k # 0
    <3>1. k + 1 \in 2..n /\ (k + 1) - 1 = k /\ k \in 1..n
      BY <2>3
    <3>2. flat[k + 1] = flat[k] \o seqs[k + 1]
      BY <1>1, <3>1 DEF FlatSteps
    <3>3. flat[k] \in Seq(S) /\ seqs[k + 1] \in Seq(S)
      BY <1>2, <2>1, <3>1
    <3>4. k + 1 >= i => x \in Range(flat[k]) \/ x \in Range(seqs[k + 1])
      BY <1>3, <3>1
    <3>5. k + 1 >= i => x \in Range(flat[k + 1])
      BY <3>2, <3>3, <3>4, ConcatHolds
    <3> QED
      BY <2>1, <3>5
  <2> QED
    BY <2>2, <2>3
<1>4. 0..n \subseteq G
  <2>1. 0 \in G
    OBVIOUS
  <2> HIDE DEF G
  <2> QED
    BY <1>3, <2>1, UpToInduct
<1>5. n \in G /\ n >= i
  BY <1>4
<1> QED
  BY <1>1, <1>5


----------------------------------------------------------------------------
(* Ordered: ids.sort().                                                    *)

Position(ids, id) == Cardinality({j \in ids : j < id})

LEMMA RankBound ==
    ASSUME NEW ids \in SUBSET Nat, IsFiniteSet(ids), NEW id \in ids
    PROVE  Position(ids, id) \in 0..Cardinality(ids) - 1
<1> DEFINE below == {j \in ids : j < id}
<1>1. IsFiniteSet(ids \ {id}) /\ Cardinality(ids \ {id}) = Cardinality(ids) - 1
  BY FS_RemoveElement
<1>2. below \in SUBSET (ids \ {id})
  OBVIOUS
<1>3. IsFiniteSet(below) /\ Cardinality(below) <= Cardinality(ids \ {id})
  BY <1>1, <1>2, FS_Subset
<1>4. Cardinality(below) \in Nat /\ Cardinality(ids) \in Nat
  BY <1>3, FS_CardinalityType
<1> HIDE DEF below
<1>5. Cardinality(below) \in 0..Cardinality(ids) - 1
  BY <1>1, <1>3, <1>4
<1> QED
  BY <1>5 DEF below, Position

LEMMA RankGrows ==
    ASSUME NEW ids \in SUBSET Nat, IsFiniteSet(ids), NEW a \in ids, NEW b \in ids, a < b
    PROVE  Position(ids, a) < Position(ids, b)
<1> DEFINE A == {j \in ids : j < a}
           B == {j \in ids : j < b}
<1>1. IsFiniteSet(A) /\ IsFiniteSet(B)
  <2>1. A \in SUBSET ids /\ B \in SUBSET ids
    OBVIOUS
  <2> QED
    BY <2>1, FS_Subset
<1>2. IsFiniteSet(A \cup {a}) /\ Cardinality(A \cup {a}) = Cardinality(A) + 1
  <2>1. a \notin A
    OBVIOUS
  <2> HIDE DEF A
  <2> QED
    BY <1>1, <2>1, FS_AddElement
<1>3. A \cup {a} \in SUBSET B
  <2>1. a \in Nat /\ b \in Nat /\ \A j \in ids : j \in Nat
    OBVIOUS
  <2>2. \A j \in A \cup {a} : j \in ids /\ j < b
    BY <2>1
  <2> HIDE DEF A
  <2> QED
    BY <2>2
<1> HIDE DEF A, B
<1>4. Cardinality(A \cup {a}) <= Cardinality(B)
  BY <1>1, <1>3, FS_Subset
<1>5. Cardinality(A) \in Nat /\ Cardinality(B) \in Nat
  BY <1>1, FS_CardinalityType
<1>6. Cardinality(A) < Cardinality(B)
  BY <1>2, <1>4, <1>5
<1> QED
  BY <1>6 DEF A, B, Position

LEMMA RankDistinct ==
    ASSUME NEW ids \in SUBSET Nat, IsFiniteSet(ids), NEW a \in ids, NEW b \in ids,
           Position(ids, a) = Position(ids, b)
    PROVE  a = b
<1>1. a \in Nat /\ b \in Nat
  OBVIOUS
<1>2. Position(ids, a) \in Int /\ Position(ids, b) \in Int
  BY RankBound
<1>3. CASE a < b
  BY <1>2, <1>3, RankGrows
<1>4. CASE b < a
  BY <1>2, <1>4, RankGrows
<1> QED
  BY <1>1, <1>3, <1>4

\* Every place of the list has exactly one id of its rank.
LEMMA RankOnto ==
    ASSUME NEW ids \in SUBSET Nat, IsFiniteSet(ids), NEW r \in 0..Cardinality(ids) - 1
    PROVE  \E id \in ids : Position(ids, id) = r
<1> DEFINE n == Cardinality(ids)
           f == [id \in ids |-> Position(ids, id)]
<1>1. n \in Nat
  BY FS_CardinalityType
<1>2. IsFiniteSet(0..n-1) /\ Cardinality(0..n-1) = n
  <2> HIDE DEF n
  <2>1. 0 \in Int /\ n - 1 \in Int
    BY <1>1
  <2>2. IsFiniteSet(0..n-1) /\ Cardinality(0..n-1) = IF 0 > n - 1 THEN 0 ELSE (n - 1) - 0 + 1
    BY <2>1, FS_Interval
  <2> QED
    BY <1>1, <2>2
<1>3. f \in [ids -> 0..n-1]
  BY RankBound
<1>4. \A a, b \in ids : f[a] = f[b] => a = b
  BY RankDistinct
<1>5. f \in Injection(ids, 0..n-1)
  BY <1>3, <1>4 DEF Injection, IsInjective
<1>6. f \in Surjection(ids, 0..n-1)
  BY <1>2, <1>5, FS_Injection
<1>7. \E id \in ids : f[id] = r
  BY <1>6 DEF Surjection
<1> QED
  BY <1>7

\* Ordered lists exactly the ids, each one once, in ascending order.
LEMMA OrderedLists ==
    ASSUME NEW ids \in SUBSET Nat, IsFiniteSet(ids)
    PROVE  /\ Cardinality(ids) \in Nat
           /\ DOMAIN Ordered(ids) = 1..Cardinality(ids)
           /\ \A i \in 1..Cardinality(ids) :
                 Ordered(ids)[i] \in ids /\ Position(ids, Ordered(ids)[i]) = i - 1
           /\ \A id \in ids : \E i \in 1..Cardinality(ids) : Ordered(ids)[i] = id
<1> DEFINE n == Cardinality(ids)
<1>1. n \in Nat
  BY FS_CardinalityType
<1>2. DOMAIN Ordered(ids) = 1..n
  BY DEF Ordered
<1>3. ASSUME NEW i \in 1..n
      PROVE  Ordered(ids)[i] \in ids /\ Position(ids, Ordered(ids)[i]) = i - 1
  <2>1. i - 1 \in 0..n-1
    BY <1>1
  <2>2. \E id \in ids : Position(ids, id) = i - 1
    BY <2>1, RankOnto
  <2>3. Ordered(ids)[i] = CHOOSE id \in ids : Position(ids, id) = i - 1
    BY DEF Ordered, Position
  <2> QED
    BY <2>2, <2>3
<1>4. ASSUME NEW id \in ids
      PROVE  \E i \in 1..n : Ordered(ids)[i] = id
  <2>1. Position(ids, id) \in 0..n-1
    BY RankBound
  <2> DEFINE i == Position(ids, id) + 1
  <2>2. i \in 1..n /\ i - 1 = Position(ids, id)
    BY <1>1, <2>1
  <2> HIDE DEF i
  <2>3. Ordered(ids)[i] \in ids /\ Position(ids, Ordered(ids)[i]) = Position(ids, id)
    BY <1>3, <2>2
  <2>4. Ordered(ids)[i] = id
    <3>1. \A x \in ids : Position(ids, x) = Position(ids, id) => x = id
      BY RankDistinct
    <3> QED
      BY <2>3, <3>1
  <2> QED
    BY <2>2, <2>4
<1> QED
  BY <1>1, <1>2, <1>3, <1>4

----------------------------------------------------------------------------
(* VisitAll.                                                               *)

LEMMA VisitAllTrace ==
    ASSUME NEW visit, NEW w, NEW ids \in SUBSET Nat, IsFiniteSet(ids)
    PROVE  \E acc : /\ FoldSteps(acc, visit, w, Ordered(ids), Cardinality(ids))
                    /\ VisitAll(visit, w, ids) = acc[Cardinality(ids)]
<1>1. VisitAll(visit, w, ids) = FoldOf(visit, w, Ordered(ids))
  BY DEF VisitAll, FoldOf
<1> QED
  BY <1>1, OrderedLists, FoldTrace

\* An invariant of the visits: R[done] holds the accumulators that are possible
\* when the ids in done were visited.
LEMMA VisitAllInvariant ==
    ASSUME NEW visit, NEW w, NEW ids \in SUBSET Nat, IsFiniteSet(ids), NEW R,
           w \in R[{}],
           \A done \in SUBSET ids : \A id \in ids : \A u \in R[done] :
              visit[u][id] \in R[done \cup {id}]
    PROVE  VisitAll(visit, w, ids) \in R[ids]
<1> DEFINE n == Cardinality(ids)
           seq == Ordered(ids)
           Done(i) == {seq[j] : j \in 1..i}
<1>1. /\ n \in Nat
      /\ \A i \in 1..n : seq[i] \in ids
      /\ \A id \in ids : \E i \in 1..n : seq[i] = id
  BY OrderedLists
<1>2. PICK acc : FoldSteps(acc, visit, w, seq, n) /\ VisitAll(visit, w, ids) = acc[n]
  BY VisitAllTrace
<1> DEFINE T == {i \in Nat : i <= n => acc[i] \in R[Done(i)]}
<1>3. 0 \in T
  <2>1. Done(0) = {}
    OBVIOUS
  <2> QED
    BY <1>2, <2>1 DEF FoldSteps
<1>4. ASSUME NEW i \in Nat, i \in T
      PROVE  i + 1 \in T
  <2> SUFFICES ASSUME i + 1 <= n
               PROVE  acc[i + 1] \in R[Done(i + 1)]
    OBVIOUS
  <2>1. i + 1 \in 1..n /\ (i + 1) - 1 = i /\ i <= n
    BY <1>1
  <2>2. acc[i] \in R[Done(i)]
    BY <1>4, <2>1
  <2>3. Done(i) \in SUBSET ids /\ seq[i + 1] \in ids
    BY <1>1, <2>1
  <2>4. Done(i + 1) = Done(i) \cup {seq[i + 1]}
    <3>1. \A j : j \in 1..i + 1 <=> j \in 1..i \/ j = i + 1
      BY <2>1
    <3> QED
      BY <3>1
  <2>5. acc[i + 1] = visit[acc[i]][seq[i + 1]]
    BY <1>2, <2>1 DEF FoldSteps
  <2> HIDE DEF Done, seq
  <2> QED
    BY <2>2, <2>3, <2>4, <2>5
<1> HIDE DEF T
<1>5. n \in T
  BY <1>1, <1>3, <1>4, NatInduct
<1>6. Done(n) = ids
  BY <1>1
<1>7. acc[n] \in R[Done(n)]
  <2> HIDE DEF n, Done
  <2>1. n <= n
    BY <1>1
  <2> QED
    BY <1>5, <2>1 DEF T
<1> HIDE DEF n, Done, seq
<1> QED
  BY <1>2, <1>6, <1>7

\* The same, of visits in ascending order: each one knows what was visited before.
LEMMA VisitAllInOrder ==
    ASSUME NEW visit, NEW w, NEW ids \in SUBSET Nat, IsFiniteSet(ids), NEW R,
           w \in R[{}],
           \A id \in ids : \A u \in R[{j \in ids : j < id}] :
              visit[u][id] \in R[{j \in ids : j < id} \cup {id}]
    PROVE  VisitAll(visit, w, ids) \in R[ids]
<1> DEFINE n == Cardinality(ids)
           seq == Ordered(ids)
           Done(i) == {seq[j] : j \in 1..i}
           Before(id) == {j \in ids : j < id}
<1>1. /\ n \in Nat
      /\ \A i \in 1..n : seq[i] \in ids /\ Position(ids, seq[i]) = i - 1
      /\ \A id \in ids : \E i \in 1..n : seq[i] = id
  BY OrderedLists
<1>2. PICK acc : FoldSteps(acc, visit, w, seq, n) /\ VisitAll(visit, w, ids) = acc[n]
  BY VisitAllTrace
<1> DEFINE T == {i \in Nat : i <= n => acc[i] \in R[Done(i)]}
<1>3. 0 \in T
  <2>1. Done(0) = {}
    OBVIOUS
  <2> QED
    BY <1>2, <2>1 DEF FoldSteps
<1>4. ASSUME NEW i \in Nat, i \in T
      PROVE  i + 1 \in T
  <2> SUFFICES ASSUME i + 1 <= n
               PROVE  acc[i + 1] \in R[Done(i + 1)]
    OBVIOUS
  <2>1. i + 1 \in 1..n /\ (i + 1) - 1 = i /\ i <= n
    BY <1>1
  <2>2. acc[i] \in R[Done(i)]
    BY <1>4, <2>1
  <2> DEFINE x == seq[i + 1]
  <2> HIDE DEF n, seq
  <2>3. x \in ids /\ Position(ids, x) = i
    BY <1>1, <2>1
  <2>4. Done(i) \subseteq Before(x)
    <3> SUFFICES ASSUME NEW j \in 1..i
                 PROVE  seq[j] \in ids /\ seq[j] < x
      OBVIOUS
    <3>1. j \in 1..n /\ j - 1 < i
      BY <1>1, <2>1
    <3>2. seq[j] \in ids /\ Position(ids, seq[j]) = j - 1
      BY <1>1, <3>1
    <3> DEFINE y == seq[j]
    <3> HIDE DEF y
    <3>3. y \in ids /\ x \in Nat /\ y \in Nat
      BY <2>3, <3>2 DEF y
    <3>4. ~(x < y)
      <4> SUFFICES ASSUME x < y
                   PROVE  FALSE
        OBVIOUS
      <4>1. Position(ids, x) < Position(ids, y)
        BY <2>3, <3>3, RankGrows
      <4> QED
        BY <2>3, <3>1, <3>2, <4>1 DEF y
    <3>5. x # y
      BY <2>3, <3>1, <3>2 DEF y
    <3>6. y < x
      BY <3>3, <3>4, <3>5
    <3> QED
      BY <3>3, <3>6 DEF y
  <2>5. Before(x) \subseteq Done(i)
    <3> SUFFICES ASSUME NEW y \in ids, y < x
                 PROVE  \E j \in 1..i : seq[j] = y
      OBVIOUS
    <3>1. PICK j \in 1..n : seq[j] = y
      BY <1>1
    <3>2. j - 1 < i
      BY <1>1, <2>3, <3>1, RankGrows
    <3>3. j \in 1..i
      BY <2>1, <3>2
    <3> QED
      BY <3>1, <3>3
  <2>6. Done(i + 1) = Done(i) \cup {x}
    <3>1. \A j : j \in 1..i + 1 <=> j \in 1..i \/ j = i + 1
      BY <2>1
    <3> QED
      BY <3>1
  <2>7. acc[i + 1] = visit[acc[i]][x]
    BY <1>2, <2>1 DEF FoldSteps
  <2>8. Done(i) = Before(x)
    BY <2>4, <2>5
  <2>9. acc[i] \in R[Before(x)]
    BY <2>2, <2>8
  <2>10. visit[acc[i]][x] \in R[Before(x) \cup {x}]
    BY <2>3, <2>9
  <2> HIDE DEF Done, Before, x
  <2> QED
    BY <2>6, <2>7, <2>8, <2>10
<1> HIDE DEF T
<1>5. n \in T
  BY <1>1, <1>3, <1>4, NatInduct
<1>6. Done(n) = ids
  BY <1>1
<1>7. acc[n] \in R[Done(n)]
  <2> HIDE DEF n, Done
  <2>1. n <= n
    BY <1>1
  <2> QED
    BY <1>5, <2>1 DEF T
<1> HIDE DEF n, Done, seq
<1> QED
  BY <1>2, <1>6, <1>7

\* Visits that agree on the accumulators they pass end in the same one.
LEMMA VisitAllAgree ==
    ASSUME NEW F, NEW G, NEW S, NEW w \in S, NEW ids \in SUBSET Nat, IsFiniteSet(ids),
           \A u \in S : \A id \in ids : F[u][id] \in S /\ F[u][id] = G[u][id]
    PROVE  /\ VisitAll(F, w, ids) \in S
           /\ VisitAll(F, w, ids) = VisitAll(G, w, ids)
<1> DEFINE n == Cardinality(ids)
           seq == Ordered(ids)
<1>1. n \in Nat /\ \A i \in 1..n : seq[i] \in ids
  BY OrderedLists
<1>2. PICK a : FoldSteps(a, F, w, seq, n) /\ VisitAll(F, w, ids) = a[n]
  BY VisitAllTrace
<1>3. PICK b : FoldSteps(b, G, w, seq, n) /\ VisitAll(G, w, ids) = b[n]
  BY VisitAllTrace
<1> DEFINE T == {i \in Nat : i <= n => a[i] \in S /\ a[i] = b[i]}
<1>4. 0 \in T
  BY <1>2, <1>3 DEF FoldSteps
<1>5. ASSUME NEW i \in Nat, i \in T
      PROVE  i + 1 \in T
  <2> SUFFICES ASSUME i + 1 <= n
               PROVE  a[i + 1] \in S /\ a[i + 1] = b[i + 1]
    OBVIOUS
  <2>1. i + 1 \in 1..n /\ (i + 1) - 1 = i /\ i <= n
    <3> HIDE DEF n
    <3>1. n \in Nat
      BY <1>1
    <3> QED
      BY ONLY <3>1, i \in Nat, i + 1 <= n
  <2>2. a[i] \in S /\ a[i] = b[i]
    BY <1>5, <2>1
  <2>3. a[i + 1] = F[a[i]][seq[i + 1]] /\ b[i + 1] = G[b[i]][seq[i + 1]]
    BY <1>2, <1>3, <2>1 DEF FoldSteps
  <2>4. seq[i + 1] \in ids
    BY <1>1, <2>1
  <2> HIDE DEF seq
  <2> QED
    BY <2>2, <2>3, <2>4
<1> HIDE DEF T
<1>6. n \in T
  BY <1>1, <1>4, <1>5, NatInduct
<1> QED
  BY <1>1, <1>2, <1>3, <1>6 DEF T

----------------------------------------------------------------------------
(* Graphs.                                                                 *)

FiniteGraph(g) ==
    /\ g = [id \in DOMAIN g |-> g[id]]
    /\ Nodes(g) \subseteq Nat
    /\ IsFiniteSet(Nodes(g))

Closed(g, S) == \A id \in S : DepsOf(g, id) \subseteq S

\* The ids below id, along one or more dependencies: what every closed set that
\* holds the dependencies of id holds.
Under(g, id) == {b \in Nodes(g) : \A S \in SUBSET Nodes(g) :
                                     DepsOf(g, id) \subseteq S /\ Closed(g, S) => b \in S}

Acyclic(g) == \A id \in Nodes(g) : id \notin Under(g, id)

LEMMA NodesOf ==
    ASSUME NEW g, FiniteGraph(g)
    PROVE  /\ DOMAIN g \in SUBSET Nat /\ IsFiniteSet(DOMAIN g)
           /\ DOMAIN g \subseteq Nodes(g)
           /\ \A id : /\ DepsOf(g, id) \in SUBSET Nat
                      /\ DepsOf(g, id) \subseteq Nodes(g)
                      /\ IsFiniteSet(DepsOf(g, id))
<1>1. DOMAIN g \subseteq Nodes(g)
  BY DEF Nodes
<1>2. ASSUME NEW id
      PROVE  DepsOf(g, id) \subseteq Nodes(g)
  BY DEF Nodes, DepsOf, Range
<1> QED
  BY <1>1, <1>2, FS_Subset DEF FiniteGraph

LEMMA UnderHolds ==
    ASSUME NEW g, FiniteGraph(g), NEW id
    PROVE  /\ DepsOf(g, id) \subseteq Under(g, id)
           /\ Closed(g, Under(g, id))
           /\ Under(g, id) \subseteq Nodes(g)
<1>1. DepsOf(g, id) \subseteq Under(g, id)
  BY NodesOf DEF Under
<1>2. ASSUME NEW b \in Under(g, id), NEW c \in DepsOf(g, b)
      PROVE  c \in Under(g, id)
  <2>1. c \in Nodes(g)
    BY NodesOf DEF Under
  <2>2. ASSUME NEW S \in SUBSET Nodes(g), DepsOf(g, id) \subseteq S, Closed(g, S)
        PROVE  c \in S
    <3>1. b \in S
      BY <2>2 DEF Under
    <3> QED
      BY <2>2, <3>1 DEF Closed
  <2> QED
    BY <2>1, <2>2 DEF Under
<1> QED
  BY <1>1, <1>2 DEF Closed, Under

LEMMA UnderLeast ==
    ASSUME NEW g, NEW id, NEW S \in SUBSET Nodes(g), DepsOf(g, id) \subseteq S, Closed(g, S)
    PROVE  Under(g, id) \subseteq S
  BY DEF Under

----------------------------------------------------------------------------
(* dfs.                                                                    *)

\* What one call does, when f makes the calls below it.
DfsCall(g, f, stack, w, id) ==
    CASE w.cycle -> w
      [] ~w.cycle /\ id \in stack -> [w EXCEPT !.cycle = TRUE]
      [] ~w.cycle /\ id \notin stack /\ id \in w.visited -> w
      [] OTHER -> [VisitAll(f[stack \cup {id}], w, DepsOf(g, id)) EXCEPT !.visited = @ \cup {id}]

DfsEquation(g, f) ==
    f = [stack \in SUBSET Nodes(g) |-> [w \in Searches(Nodes(g)) |-> [id \in Nodes(g) |->
            DfsCall(g, f, stack, w, id)]]]

LEMMA DfsChoice ==
    ASSUME NEW g
    PROVE  Dfs(g) = CHOOSE f : DfsEquation(g, f)
  BY DEF Dfs, DfsEquation, DfsCall

DfsCalls(g) == [Searches(Nodes(g)) -> [Nodes(g) -> Searches(Nodes(g))]]

LEMMA VisitAllSearches ==
    ASSUME NEW g, FiniteGraph(g), NEW f \in DfsCalls(g), NEW w \in Searches(Nodes(g)),
           NEW ids \in SUBSET Nodes(g)
    PROVE  VisitAll(f, w, ids) \in Searches(Nodes(g))
<1>1. ids \in SUBSET Nat /\ IsFiniteSet(ids)
  BY FS_Subset DEF FiniteGraph
<1>2. \A u \in Searches(Nodes(g)) : \A id \in ids : f[u][id] \in Searches(Nodes(g)) /\ f[u][id] = f[u][id]
  BY DEF DfsCalls
<1> QED
  BY <1>1, <1>2, VisitAllAgree

LEMMA DfsCallType ==
    ASSUME NEW g, FiniteGraph(g), NEW f, NEW stack \in SUBSET Nodes(g),
           NEW w \in Searches(Nodes(g)), NEW id \in Nodes(g),
           id \notin stack => f[stack \cup {id}] \in DfsCalls(g)
    PROVE  DfsCall(g, f, stack, w, id) \in Searches(Nodes(g))
<1>1. CASE w.cycle
  BY <1>1 DEF DfsCall
<1>2. CASE ~w.cycle /\ id \in stack
  BY <1>2 DEF DfsCall, Searches
<1>3. CASE ~w.cycle /\ id \notin stack /\ id \in w.visited
  BY <1>3 DEF DfsCall
<1>4. CASE ~w.cycle /\ id \notin stack /\ id \notin w.visited
  <2> DEFINE below == VisitAll(f[stack \cup {id}], w, DepsOf(g, id))
  <2>1. below \in Searches(Nodes(g))
    BY <1>4, NodesOf, VisitAllSearches
  <2>2. DfsCall(g, f, stack, w, id) = [below EXCEPT !.visited = @ \cup {id}]
    BY <1>4 DEF DfsCall
  <2> HIDE DEF below
  <2> QED
    BY <2>1, <2>2 DEF Searches
<1> QED
  BY <1>1, <1>2, <1>3, <1>4

LEMMA DfsCallSame ==
    ASSUME NEW g, NEW f, NEW h, NEW stack, NEW w, NEW id,
           id \notin stack => f[stack \cup {id}] = h[stack \cup {id}]
    PROVE  DfsCall(g, f, stack, w, id) = DfsCall(g, h, stack, w, id)
<1>1. CASE id \in stack
  BY <1>1 DEF DfsCall
<1>2. CASE id \notin stack
  BY <1>2 DEF DfsCall
<1> QED
  BY <1>1, <1>2

LEMMA DfsExists ==
    ASSUME NEW g, FiniteGraph(g)
    PROVE  \E f : DfsEquation(g, f)
<1> DEFINE D == SUBSET Nodes(g)
           X == [D -> DfsCalls(g)]
           Once(f) == [stack \in D |-> [w \in Searches(Nodes(g)) |-> [id \in Nodes(g) |->
                          DfsCall(g, f, stack, w, id)]]]
           Phi == [f \in X |-> Once(f)]
           k == Cardinality(Nodes(g))
           rank == [stack \in D |-> Cardinality(Nodes(g) \ stack)]
           x0 == [stack \in D |-> [w \in Searches(Nodes(g)) |-> [id \in Nodes(g) |-> w]]]
<1>1. x0 \in X
  BY DEF DfsCalls
<1>2. Phi \in [X -> X]
  <2> SUFFICES ASSUME NEW f \in X
               PROVE  Once(f) \in X
    OBVIOUS
  <2>1. ASSUME NEW stack \in D, NEW w \in Searches(Nodes(g)), NEW id \in Nodes(g)
        PROVE  DfsCall(g, f, stack, w, id) \in Searches(Nodes(g))
    <3>1. stack \cup {id} \in D
      OBVIOUS
    <3>2. f[stack \cup {id}] \in DfsCalls(g)
      BY <3>1
    <3> QED
      BY <3>2, DfsCallType
  <2> QED
    BY <2>1 DEF DfsCalls
<1>3. k \in Nat /\ IsFiniteSet(Nodes(g))
  BY FS_CardinalityType DEF FiniteGraph
<1>4. rank \in [D -> 0..k]
  <2>1. ASSUME NEW stack \in D
        PROVE  Cardinality(Nodes(g) \ stack) \in 0..k
    <3>1. IsFiniteSet(Nodes(g) \ stack) /\ Cardinality(Nodes(g) \ stack) <= k
      BY <1>3, FS_Subset
    <3>2. Cardinality(Nodes(g) \ stack) \in Nat
      BY <3>1, FS_CardinalityType
    <3> QED
      BY <1>3, <3>1, <3>2
  <2> QED
    BY <2>1
<1>5. FunctionsOver(X, D)
  BY DEF FunctionsOver
<1>6. Contracts(Phi, X, D, rank)
  <2> SUFFICES ASSUME NEW f \in X, NEW h \in X, NEW stack \in D,
                      \A e \in D : rank[e] < rank[stack] => f[e] = h[e]
               PROVE  Phi[f][stack] = Phi[h][stack]
    BY DEF Contracts
  <2>1. ASSUME NEW id \in Nodes(g), id \notin stack
        PROVE  f[stack \cup {id}] = h[stack \cup {id}]
    <3>1. stack \cup {id} \in D /\ stack \subseteq stack \cup {id} /\ stack # stack \cup {id}
      BY <2>1
    <3>2. Cardinality(Nodes(g) \ (stack \cup {id})) < Cardinality(Nodes(g) \ stack)
      BY <1>3, <3>1, LessIsLeft
    <3> QED
      BY <3>1, <3>2
  <2>2. ASSUME NEW w \in Searches(Nodes(g)), NEW id \in Nodes(g)
        PROVE  DfsCall(g, f, stack, w, id) = DfsCall(g, h, stack, w, id)
    <3>1. id \notin stack => f[stack \cup {id}] = h[stack \cup {id}]
      BY <2>1
    <3> HIDE DEF X, D
    <3> QED
      BY <3>1, DfsCallSame
  <2>3. Phi[f][stack] = Once(f)[stack] /\ Phi[h][stack] = Once(h)[stack]
    <3> HIDE DEF X, Once
    <3> QED
      OBVIOUS
  <2>4. Once(f)[stack] = Once(h)[stack]
    BY <2>2, Zenon
  <2> QED
    BY <2>3, <2>4
<1> HIDE DEF x0, rank, k, Phi, X, D, Once
<1>7. \E f \in X : f = Phi[f]
  BY <1>1, <1>2, <1>3, <1>4, <1>5, <1>6, RecursiveFunctionExists
<1>8. \A f \in X : Phi[f] = Once(f)
  BY DEF Phi
<1>9. PICK f \in X : f = Once(f)
  BY <1>7, <1>8
<1>10. DfsEquation(g, f)
  BY <1>9 DEF DfsEquation, Once, D
<1> QED
  BY <1>10

LEMMA DfsIs ==
    ASSUME NEW g, FiniteGraph(g)
    PROVE  \A stack \in SUBSET Nodes(g) :
              Dfs(g)[stack] = [w \in Searches(Nodes(g)) |-> [id \in Nodes(g) |->
                                  DfsCall(g, Dfs(g), stack, w, id)]]
<1>1. DfsEquation(g, Dfs(g))
  BY DfsExists, DfsChoice
<1> QED
  BY <1>1 DEF DfsEquation

\* Nothing can be found any more below the nodes of S.
Settled(g, S) == Closed(g, S) /\ \A id \in S : id \notin Under(g, id)

\* What one call of the search promises: a search that found no cycle has
\* settled the nodes it visited, id among them; one that found a cycle below a
\* stack that leads to id is right.
DfsGood(g, stack, w, id, r) ==
    /\ w.cycle => r = w
    /\ ~r.cycle => /\ w.visited \subseteq r.visited
                   /\ id \in r.visited
                   /\ Settled(g, w.visited) => Settled(g, r.visited)
    /\ ~w.cycle /\ r.cycle /\ (\A s \in stack : id \in Under(g, s)) => ~Acyclic(g)

StackGood(g, stack) ==
    /\ Dfs(g)[stack] \in DfsCalls(g)
    /\ \A w \in Searches(Nodes(g)) : \A id \in Nodes(g) :
          DfsGood(g, stack, w, id, Dfs(g)[stack][w][id])

\* The search through all dependencies of a node.
LEMMA DfsBelow ==
    ASSUME NEW g, FiniteGraph(g), NEW stack \in SUBSET Nodes(g), NEW w \in Searches(Nodes(g)),
           NEW ids \in SUBSET Nodes(g), StackGood(g, stack), ~w.cycle
    PROVE  LET r == VisitAll(Dfs(g)[stack], w, ids)
           IN  /\ r \in Searches(Nodes(g))
               /\ ~r.cycle => /\ w.visited \subseteq r.visited
                              /\ ids \subseteq r.visited
                              /\ Settled(g, w.visited) => Settled(g, r.visited)
               /\ r.cycle /\ (\A s \in stack : ids \subseteq Under(g, s)) => ~Acyclic(g)
<1> DEFINE f == Dfs(g)[stack]
           Below(u, done) ==
               /\ ~u.cycle => /\ w.visited \subseteq u.visited
                              /\ done \subseteq u.visited
                              /\ Settled(g, w.visited) => Settled(g, u.visited)
               /\ u.cycle /\ (\A s \in stack : ids \subseteq Under(g, s)) => ~Acyclic(g)
           R == [done \in SUBSET ids |-> {u \in Searches(Nodes(g)) : Below(u, done)}]
<1>1. ids \in SUBSET Nat /\ IsFiniteSet(ids)
  BY FS_Subset DEF FiniteGraph
<1>2. w \in R[{}]
  OBVIOUS
<1>3. ASSUME NEW done \in SUBSET ids, NEW id \in ids, NEW u \in R[done]
      PROVE  f[u][id] \in R[done \cup {id}]
  <2>1. u \in Searches(Nodes(g)) /\ Below(u, done)
    OBVIOUS
  <2>2. id \in Nodes(g) /\ done \cup {id} \in SUBSET ids
    OBVIOUS
  <2> DEFINE r == f[u][id]
  <2>3. r \in Searches(Nodes(g)) /\ DfsGood(g, stack, u, id, r)
    BY <2>1, <2>2 DEF StackGood, DfsCalls
  <2> HIDE DEF r, f
  <2>4. Below(r, done \cup {id})
    <3>1. CASE u.cycle
      BY <2>1, <2>3, <3>1 DEF DfsGood
    <3>2. CASE ~u.cycle
      BY <2>1, <2>3, <3>2 DEF DfsGood
    <3> QED
      BY <3>1, <3>2
  <2> HIDE DEF Below
  <2>5. r \in R[done \cup {id}]
    BY <2>2, <2>3, <2>4
  <2> QED
    BY <2>5 DEF r
<1> DEFINE all == VisitAll(f, w, ids)
<1> HIDE DEF R, f
<1>4. all \in R[ids]
  BY <1>1, <1>2, <1>3, VisitAllInvariant
<1> HIDE DEF all
<1>5. all \in Searches(Nodes(g)) /\ Below(all, ids)
  BY <1>4 DEF R
<1> QED
  BY <1>5 DEF all, f

LEMMA SettledGrows ==
    ASSUME NEW g, FiniteGraph(g), NEW id \in Nodes(g), NEW S \in SUBSET Nodes(g),
           Settled(g, S), DepsOf(g, id) \subseteq S
    PROVE  Settled(g, S \cup {id})
<1>1. Under(g, id) \subseteq S
  BY UnderLeast DEF Settled
<1>2. id \notin Under(g, id)
  BY <1>1 DEF Settled
<1> QED
  BY <1>2 DEF Settled, Closed

LEMMA DfsCorrect ==
    ASSUME NEW g, FiniteGraph(g)
    PROVE  \A stack \in SUBSET Nodes(g) : StackGood(g, stack)
<1> DEFINE P == {stack \in SUBSET Nodes(g) : StackGood(g, stack)}
<1>1. ASSUME NEW stack \in SUBSET Nodes(g),
             \A t \in SUBSET Nodes(g) : stack \subseteq t /\ stack # t => t \in P
      PROVE  stack \in P
  <2>1. ASSUME NEW id \in Nodes(g), id \notin stack
        PROVE  stack \cup {id} \in SUBSET Nodes(g) /\ StackGood(g, stack \cup {id})
    BY <1>1, <2>1
  <2>2. Dfs(g)[stack] = [w \in Searches(Nodes(g)) |-> [id \in Nodes(g) |->
                            DfsCall(g, Dfs(g), stack, w, id)]]
    BY DfsIs
  <2>3. ASSUME NEW w \in Searches(Nodes(g)), NEW id \in Nodes(g)
        PROVE  DfsCall(g, Dfs(g), stack, w, id) \in Searches(Nodes(g))
    <3>1. id \notin stack => Dfs(g)[stack \cup {id}] \in DfsCalls(g)
      BY <2>1 DEF StackGood
    <3> QED
      BY <3>1, DfsCallType
  <2>4. Dfs(g)[stack] \in DfsCalls(g)
    BY <2>2, <2>3 DEF DfsCalls
  <2>5. ASSUME NEW w \in Searches(Nodes(g)), NEW id \in Nodes(g)
        PROVE  DfsGood(g, stack, w, id, DfsCall(g, Dfs(g), stack, w, id))
    <3> DEFINE r == DfsCall(g, Dfs(g), stack, w, id)
    <3> SUFFICES DfsGood(g, stack, w, id, r)
      OBVIOUS
    <3>1. CASE w.cycle
      <4>1. r = w
        BY <3>1 DEF DfsCall
      <4> HIDE DEF r
      <4> QED
        BY <3>1, <4>1 DEF DfsGood
    <3>2. CASE ~w.cycle /\ id \in stack
      <4>1. r = [w EXCEPT !.cycle = TRUE]
        BY <3>2 DEF DfsCall
      <4>2. r.cycle
        BY <4>1 DEF Searches
      <4> HIDE DEF r
      <4> QED
        BY <3>2, <4>2 DEF DfsGood, Acyclic
    <3>3. CASE ~w.cycle /\ id \notin stack /\ id \in w.visited
      <4>1. r = w
        BY <3>3 DEF DfsCall
      <4> HIDE DEF r
      <4> QED
        BY <3>3, <4>1 DEF DfsGood
    <3>4. CASE ~w.cycle /\ id \notin stack /\ id \notin w.visited
      <4> DEFINE below == VisitAll(Dfs(g)[stack \cup {id}], w, DepsOf(g, id))
                 up    == stack \cup {id}
      <4>1. r = [below EXCEPT !.visited = @ \cup {id}]
        BY <3>4 DEF DfsCall
      <4>2. DepsOf(g, id) \in SUBSET Nodes(g)
        BY NodesOf
      <4>3. /\ below \in Searches(Nodes(g))
            /\ ~below.cycle => /\ w.visited \subseteq below.visited
                               /\ DepsOf(g, id) \subseteq below.visited
                               /\ Settled(g, w.visited) => Settled(g, below.visited)
            /\ below.cycle /\ (\A s \in up : DepsOf(g, id) \subseteq Under(g, s)) => ~Acyclic(g)
        BY <2>1, <3>4, <4>2, DfsBelow
      <4> HIDE DEF below, r
      <4>4. r.visited = below.visited \cup {id} /\ r.cycle = below.cycle
        BY <4>1, <4>3 DEF Searches
      <4>5. below.visited \in SUBSET Nodes(g)
        BY <4>3 DEF Searches
      <4>6. ASSUME \A s \in stack : id \in Under(g, s)
            PROVE  \A s \in up : DepsOf(g, id) \subseteq Under(g, s)
        BY <4>6, UnderHolds DEF Closed
      <4>7. ~below.cycle /\ Settled(g, w.visited) => Settled(g, r.visited)
        BY <4>3, <4>4, <4>5, SettledGrows
      <4> QED
        BY <3>4, <4>3, <4>4, <4>6, <4>7 DEF DfsGood
    <3> QED
      BY <3>1, <3>2, <3>3, <3>4
  <2>6. StackGood(g, stack)
    BY <2>2, <2>4, <2>5 DEF StackGood
  <2> QED
    BY <2>6
<1> HIDE DEF P
<1>2. SUBSET Nodes(g) \subseteq P
  BY <1>1, SupersetInduct DEF FiniteGraph
<1> QED
  BY <1>2 DEF P

\* validate_acyclic finds a cycle exactly when there is one.
LEMMA FindsCycleIsRight ==
    ASSUME NEW g, FiniteGraph(g)
    PROVE  FindsCycle(g) <=> ~Acyclic(g)
<1> DEFINE w == [visited |-> {}, cycle |-> FALSE]
           r == VisitAll(Dfs(g)[{}], w, DOMAIN g)
<1>1. w \in Searches(Nodes(g)) /\ DOMAIN g \in SUBSET Nodes(g) /\ {} \in SUBSET Nodes(g)
  BY NodesOf DEF Searches
<1>2. StackGood(g, {}) /\ ~w.cycle
  BY <1>1, DfsCorrect
<1>3. /\ r \in Searches(Nodes(g))
      /\ ~r.cycle => /\ DOMAIN g \subseteq r.visited
                     /\ Settled(g, w.visited) => Settled(g, r.visited)
      /\ r.cycle => ~Acyclic(g)
  BY <1>1, <1>2, DfsBelow
<1>4. Settled(g, w.visited)
  BY DEF Settled, Closed
<1> HIDE DEF r
<1>5. ASSUME ~r.cycle
      PROVE  Acyclic(g)
  <2>1. \A id \in DOMAIN g : id \notin Under(g, id)
    BY <1>3, <1>4, <1>5 DEF Settled
  <2>2. ASSUME NEW id \in Nodes(g), id \notin DOMAIN g
        PROVE  Under(g, id) \subseteq {}
    <3>1. DepsOf(g, id) \subseteq {} /\ Closed(g, {}) /\ {} \in SUBSET Nodes(g)
      BY <2>2 DEF DepsOf, Closed
    <3> QED
      BY <3>1, UnderLeast
  <2> QED
    BY <2>1, <2>2 DEF Acyclic
<1>6. FindsCycle(g) = r.cycle
  BY DEF FindsCycle, r
<1> QED
  BY <1>3, <1>5, <1>6

----------------------------------------------------------------------------
(* topo_visit, on graphs that passed validate_dependencies.                *)

AllKnown(g) == FiniteGraph(g) /\ UnknownDependencies(g) = {}

LEMMA CompleteGraph ==
    ASSUME NEW g, AllKnown(g)
    PROVE  /\ FiniteGraph(g)
           /\ Nodes(g) = DOMAIN g
           /\ DOMAIN g \in SUBSET Nat /\ IsFiniteSet(DOMAIN g)
           /\ \A id \in DOMAIN g : /\ g[id] = DepsOf(g, id)
                                   /\ g[id] \in SUBSET DOMAIN g
                                   /\ g[id] \in SUBSET Nat
                                   /\ IsFiniteSet(g[id])
<1>1. FiniteGraph(g) /\ Nodes(g) = DOMAIN g
  BY DEF AllKnown, UnknownDependencies, Nodes
<1> QED
  BY <1>1, NodesOf DEF DepsOf

Enter(w, id) == [w EXCEPT !.visited = @ \cup {id}]
Leave(w, id) == [w EXCEPT !.order = Append(@, id)]

TopoCall(g, f, w, id) ==
    IF id \in w.visited THEN w ELSE Leave(VisitAll(f, Enter(w, id), g[id]), id)

TopoEquation(g, f) ==
    f = [w \in Walks(g) |-> [id \in DOMAIN g |-> TopoCall(g, f, w, id)]]

LEMMA TopoChoice ==
    ASSUME NEW g
    PROVE  TopoVisit(g) = CHOOSE f : TopoEquation(g, f)
  BY DEF TopoVisit, TopoEquation, TopoCall, Enter, Leave

LEMMA EnterLeave ==
    ASSUME NEW g, NEW w \in Walks(g), NEW id \in DOMAIN g
    PROVE  /\ Enter(w, id) \in Walks(g)
           /\ Enter(w, id).visited = w.visited \cup {id}
           /\ Enter(w, id).order = w.order
           /\ Leave(w, id) \in Walks(g)
           /\ Leave(w, id).visited = w.visited
           /\ Leave(w, id).order = Append(w.order, id)
  BY DEF Enter, Leave, Walks

\* The walks that have visited at least the ids in v.
Beyond(g, v) == {u \in Walks(g) : v \subseteq u.visited}

\* f stays among the walks and only visits more, from those walks on.
TypedBeyond(g, v, f) ==
    \A u \in Walks(g) : v \subseteq u.visited =>
        \A id \in DOMAIN g : f[u][id] \in Walks(g) /\ u.visited \subseteq f[u][id].visited

AgreeBeyond(g, v, f, h) == \A u \in Walks(g) : v \subseteq u.visited => f[u] = h[u]

TopoCalls(g) == {f \in [Walks(g) -> [DOMAIN g -> Walks(g)]] : TypedBeyond(g, {}, f)}

\* The calls below a node agree when f and h agree on what was visited further.
LEMMA TopoBelowAgree ==
    ASSUME NEW g, AllKnown(g), NEW f, NEW h,
           NEW w \in Walks(g), NEW id \in DOMAIN g,
           TypedBeyond(g, w.visited \cup {id}, f),
           AgreeBeyond(g, w.visited \cup {id}, f, h)
    PROVE  /\ VisitAll(f, Enter(w, id), g[id]) \in Beyond(g, w.visited \cup {id})
           /\ VisitAll(f, Enter(w, id), g[id]) = VisitAll(h, Enter(w, id), g[id])
<1> DEFINE S == Beyond(g, w.visited \cup {id})
           w0 == Enter(w, id)
<1>1. w0 \in S
  BY EnterLeave DEF Beyond
<1>2. ASSUME NEW u \in S, NEW dep \in g[id]
      PROVE  f[u][dep] \in S /\ f[u][dep] = h[u][dep]
  <2>1. dep \in DOMAIN g /\ u \in Walks(g) /\ w.visited \cup {id} \subseteq u.visited
    BY CompleteGraph DEF Beyond
  <2>2. f[u][dep] \in Walks(g) /\ u.visited \subseteq f[u][dep].visited
    BY <2>1 DEF TypedBeyond
  <2>3. f[u] = h[u]
    BY <2>1 DEF AgreeBeyond
  <2> QED
    BY <2>1, <2>2, <2>3 DEF Beyond
<1>3. g[id] \in SUBSET Nat /\ IsFiniteSet(g[id])
  BY CompleteGraph
<1> HIDE DEF S, w0
<1>4. VisitAll(f, w0, g[id]) \in S /\ VisitAll(f, w0, g[id]) = VisitAll(h, w0, g[id])
  BY <1>1, <1>2, <1>3, VisitAllAgree
<1> QED
  BY <1>4 DEF S, w0

LEMMA TopoCallType ==
    ASSUME NEW g, AllKnown(g), NEW f, NEW w \in Walks(g), NEW id \in DOMAIN g,
           id \notin w.visited => TypedBeyond(g, w.visited \cup {id}, f)
    PROVE  /\ TopoCall(g, f, w, id) \in Walks(g)
           /\ w.visited \subseteq TopoCall(g, f, w, id).visited
<1>1. CASE id \in w.visited
  BY <1>1 DEF TopoCall
<1>2. CASE id \notin w.visited
  <2> DEFINE below == VisitAll(f, Enter(w, id), g[id])
  <2>1. below \in Beyond(g, w.visited \cup {id})
    BY <1>2, TopoBelowAgree DEF AgreeBeyond
  <2>2. TopoCall(g, f, w, id) = Leave(below, id)
    BY <1>2 DEF TopoCall
  <2> HIDE DEF below
  <2>3. below \in Walks(g) /\ w.visited \subseteq below.visited
    BY <2>1 DEF Beyond
  <2>4. Leave(below, id) \in Walks(g) /\ Leave(below, id).visited = below.visited
    BY <2>3, EnterLeave
  <2> QED
    BY <2>2, <2>3, <2>4
<1> QED
  BY <1>1, <1>2

LEMMA TopoExists ==
    ASSUME NEW g, AllKnown(g)
    PROVE  \E f : TopoEquation(g, f)
<1> DEFINE D == Walks(g)
           X == TopoCalls(g)
           Once(f) == [w \in D |-> [id \in DOMAIN g |-> TopoCall(g, f, w, id)]]
           Phi == [f \in X |-> Once(f)]
           k == Cardinality(DOMAIN g)
           rank == [w \in D |-> Cardinality(DOMAIN g \ w.visited)]
           x0 == [w \in D |-> [id \in DOMAIN g |-> w]]
<1>1. x0 \in X
  BY DEF TopoCalls, TypedBeyond
<1>2. Phi \in [X -> X]
  <2> SUFFICES ASSUME NEW f \in X
               PROVE  Once(f) \in X
    OBVIOUS
  <2>1. ASSUME NEW w \in D, NEW id \in DOMAIN g
        PROVE  TopoCall(g, f, w, id) \in Walks(g) /\ w.visited \subseteq TopoCall(g, f, w, id).visited
    <3>1. TypedBeyond(g, w.visited \cup {id}, f)
      BY DEF TopoCalls, TypedBeyond
    <3> QED
      BY <3>1, TopoCallType
  <2> QED
    BY <2>1 DEF TopoCalls, TypedBeyond
<1>3. k \in Nat /\ IsFiniteSet(DOMAIN g)
  BY CompleteGraph, FS_CardinalityType
<1>4. rank \in [D -> 0..k]
  <2>1. ASSUME NEW w \in D
        PROVE  Cardinality(DOMAIN g \ w.visited) \in 0..k
    <3>1. IsFiniteSet(DOMAIN g \ w.visited) /\ Cardinality(DOMAIN g \ w.visited) <= k
      BY <1>3, FS_Subset
    <3>2. Cardinality(DOMAIN g \ w.visited) \in Nat
      BY <3>1, FS_CardinalityType
    <3> QED
      BY <1>3, <3>1, <3>2
  <2> QED
    BY <2>1
<1>5. FunctionsOver(X, D)
  BY DEF FunctionsOver, TopoCalls
<1>6. Contracts(Phi, X, D, rank)
  <2> SUFFICES ASSUME NEW f \in X, NEW h \in X, NEW w \in D,
                      \A e \in D : rank[e] < rank[w] => f[e] = h[e]
               PROVE  Phi[f][w] = Phi[h][w]
    BY DEF Contracts
  <2>1. ASSUME NEW id \in DOMAIN g, id \notin w.visited, NEW u \in Walks(g),
               w.visited \cup {id} \subseteq u.visited
        PROVE  f[u] = h[u]
    <3>1. /\ w.visited \in SUBSET DOMAIN g /\ u.visited \in SUBSET DOMAIN g
          /\ w.visited \subseteq u.visited /\ w.visited # u.visited
      BY <2>1 DEF Walks
    <3>2. Cardinality(DOMAIN g \ u.visited) < Cardinality(DOMAIN g \ w.visited)
      BY <1>3, <3>1, LessIsLeft
    <3> QED
      BY <3>2
  <2>2. ASSUME NEW id \in DOMAIN g
        PROVE  TopoCall(g, f, w, id) = TopoCall(g, h, w, id)
    <3>1. CASE id \in w.visited
      BY <3>1 DEF TopoCall
    <3>2. CASE id \notin w.visited
      <4>1. AgreeBeyond(g, w.visited \cup {id}, f, h)
        BY <2>1, <3>2 DEF AgreeBeyond
      <4>2. TypedBeyond(g, w.visited \cup {id}, f) /\ w \in Walks(g)
        BY DEF TopoCalls, TypedBeyond
      <4>3. VisitAll(f, Enter(w, id), g[id]) = VisitAll(h, Enter(w, id), g[id])
        BY ONLY <3>2, <4>1, <4>2, id \in DOMAIN g, AllKnown(g), TopoBelowAgree
      <4> QED
        BY <3>2, <4>3 DEF TopoCall
    <3> QED
      BY <3>1, <3>2
  <2>3. Phi[f][w] = Once(f)[w] /\ Phi[h][w] = Once(h)[w]
    <3> HIDE DEF X, Once
    <3> QED
      OBVIOUS
  <2>4. Once(f)[w] = Once(h)[w]
    BY <2>2, Zenon
  <2> QED
    BY <2>3, <2>4
<1> HIDE DEF x0, rank, k, Phi, X, D, Once
<1>7. \E f \in X : f = Phi[f]
  BY <1>1, <1>2, <1>3, <1>4, <1>5, <1>6, RecursiveFunctionExists
<1>8. \A f \in X : Phi[f] = Once(f)
  BY DEF Phi
<1>9. PICK f \in X : f = Once(f)
  BY <1>7, <1>8
<1>10. TopoEquation(g, f)
  BY <1>9 DEF TopoEquation, Once, D
<1> QED
  BY <1>10

LEMMA TopoVisitIs ==
    ASSUME NEW g, AllKnown(g)
    PROVE  TopoEquation(g, TopoVisit(g))
  BY TopoExists, TopoChoice

LEMMA TopoVisitType ==
    ASSUME NEW g, AllKnown(g)
    PROVE  TypedBeyond(g, {}, TopoVisit(g))
<1> DEFINE tv == TopoVisit(g)
           P == {v \in SUBSET DOMAIN g : \A w \in Walks(g) : w.visited = v =>
                    \A id \in DOMAIN g : tv[w][id] \in Walks(g) /\ w.visited \subseteq tv[w][id].visited}
<1>1. ASSUME NEW v \in SUBSET DOMAIN g,
             \A t \in SUBSET DOMAIN g : v \subseteq t /\ v # t => t \in P
      PROVE  v \in P
  <2> SUFFICES ASSUME NEW w \in Walks(g), w.visited = v, NEW id \in DOMAIN g
               PROVE  tv[w][id] \in Walks(g) /\ w.visited \subseteq tv[w][id].visited
    OBVIOUS
  <2>1. tv[w][id] = TopoCall(g, tv, w, id)
    BY TopoVisitIs DEF TopoEquation
  <2>2. ASSUME id \notin w.visited
        PROVE  TypedBeyond(g, w.visited \cup {id}, tv)
    <3>1. ASSUME NEW u \in Walks(g), w.visited \cup {id} \subseteq u.visited
          PROVE  u.visited \in P
      <4>1. u.visited \in SUBSET DOMAIN g
        BY DEF Walks
      <4> HIDE DEF P
      <4> QED
        BY <1>1, <2>2, <3>1, <4>1
    <3> QED
      BY <3>1 DEF TypedBeyond
  <2> HIDE DEF tv
  <2> QED
    BY <2>1, <2>2, TopoCallType
<1> HIDE DEF P
<1>2. SUBSET DOMAIN g \subseteq P
  <2>1. IsFiniteSet(DOMAIN g)
    BY CompleteGraph
  <2> QED
    BY <1>1, <2>1, SupersetInduct
<1>3. ASSUME NEW w \in Walks(g)
      PROVE  w.visited \in P
  BY <1>2 DEF Walks
<1> QED
  BY <1>3 DEF P, TypedBeyond

Distinct(order) == \A i, j \in DOMAIN order : order[i] = order[j] => i = j

DepsFirst(g, order) ==
    \A j \in DOMAIN order : \A dep \in g[order[j]] : \E i \in DOMAIN order : i < j /\ order[i] = dep

\* The nodes the walk has entered and not left.
Open(w) == w.visited \ Range(w.order)

Sound(g, w) ==
    /\ Range(w.order) \subseteq w.visited
    /\ Distinct(w.order)
    /\ DepsFirst(g, w.order)

LEMMA Appended ==
    ASSUME NEW S, NEW order \in Seq(S), NEW x \in S
    PROVE  /\ Range(Append(order, x)) = Range(order) \cup {x}
           /\ x \notin Range(order) /\ Distinct(order) => Distinct(Append(order, x))
           /\ \A g : g[x] \subseteq Range(order) /\ DepsFirst(g, order)
                        => DepsFirst(g, Append(order, x))
<1> DEFINE n == Len(order)
           next == Append(order, x)
<1>1. /\ n \in Nat /\ DOMAIN order = 1..n /\ DOMAIN next = 1..n+1
      /\ next[n + 1] = x /\ \A i \in 1..n : next[i] = order[i]
  OBVIOUS
<1> HIDE DEF n, next
<1>2. Range(next) = Range(order) \cup {x}
  <2>1. ASSUME NEW y \in Range(next)
        PROVE  y \in Range(order) \cup {x}
    <3>1. PICK i \in 1..n+1 : next[i] = y
      BY <1>1 DEF Range
    <3>2. i \in 1..n \/ i = n + 1
      BY <1>1
    <3> QED
      BY <1>1, <3>1, <3>2 DEF Range
  <2>2. ASSUME NEW y \in Range(order)
        PROVE  y \in Range(next)
    <3>1. PICK i \in 1..n : order[i] = y
      BY <1>1 DEF Range
    <3>2. i \in 1..n+1
      BY <1>1
    <3> QED
      BY <1>1, <3>1, <3>2 DEF Range
  <2>3. x \in Range(next)
    <3>1. n + 1 \in 1..n+1
      BY <1>1
    <3> QED
      BY <1>1, <3>1 DEF Range
  <2> QED
    BY <2>1, <2>2, <2>3
<1>3. ASSUME x \notin Range(order), Distinct(order)
      PROVE  Distinct(next)
  <2> SUFFICES ASSUME NEW i \in 1..n+1, NEW j \in 1..n+1, next[i] = next[j]
               PROVE  i = j
    BY <1>1 DEF Distinct
  <2>1. \A a \in 1..n : next[a] \in Range(order)
    BY <1>1 DEF Range
  <2>2. (i \in 1..n \/ i = n + 1) /\ (j \in 1..n \/ j = n + 1)
    BY <1>1
  <2> QED
    BY <1>1, <1>3, <2>1, <2>2 DEF Distinct
<1>4. ASSUME NEW g, g[x] \subseteq Range(order), DepsFirst(g, order)
      PROVE  DepsFirst(g, next)
  <2> SUFFICES ASSUME NEW j \in 1..n+1, NEW dep \in g[next[j]]
               PROVE  \E i \in 1..n+1 : i < j /\ next[i] = dep
    BY <1>1 DEF DepsFirst
  <2>1. \E i \in 1..n : i < j /\ order[i] = dep
    <3>1. CASE j \in 1..n
      BY <1>1, <1>4, <3>1 DEF DepsFirst
    <3>2. CASE j = n + 1
      <4>1. PICK i \in 1..n : order[i] = dep
        BY <1>1, <1>4, <3>2 DEF Range
      <4> QED
        BY <1>1, <3>2, <4>1
    <3> QED
      BY <1>1, <3>1, <3>2
  <2> QED
    BY <1>1, <2>1
<1> QED
  BY <1>2, <1>3, <1>4 DEF next

\* What a call at id makes of a sound walk whose open nodes all lead to id.
TopoGood(g, w, id, r) ==
    Sound(g, w) /\ (\A x \in Open(w) : id \in Under(g, x))
       => /\ Sound(g, r)
          /\ Open(r) = Open(w)
          /\ Range(w.order) \cup {id} \subseteq Range(r.order)

\* The calls at the dependencies of a node that was just entered.
LEMMA TopoBelowGood ==
    ASSUME NEW g, AllKnown(g), NEW w \in Walks(g), NEW id \in DOMAIN g,
           id \notin w.visited, Sound(g, w), \A x \in Open(w) : id \in Under(g, x),
           \A u \in Walks(g) : w.visited \cup {id} \subseteq u.visited =>
              \A dep \in DOMAIN g : TopoGood(g, u, dep, TopoVisit(g)[u][dep])
    PROVE  LET below == VisitAll(TopoVisit(g), Enter(w, id), g[id])
           IN  /\ below \in Walks(g)
               /\ Sound(g, below)
               /\ Open(below) = Open(w) \cup {id}
               /\ Range(w.order) \cup g[id] \subseteq Range(below.order)
<1> DEFINE tv == TopoVisit(g)
           w0 == Enter(w, id)
           Good(u, done) ==
               /\ w.visited \cup {id} \subseteq u.visited
               /\ Sound(g, u)
               /\ Open(u) = Open(w) \cup {id}
               /\ Range(w.order) \cup done \subseteq Range(u.order)
           R == [done \in SUBSET g[id] |-> {u \in Walks(g) : Good(u, done)}]
<1>1. w0 \in R[{}]
  <2>1. /\ w0 \in Walks(g) /\ w0.visited = w.visited \cup {id} /\ w0.order = w.order
    BY EnterLeave
  <2> HIDE DEF w0
  <2>2. Sound(g, w0)
    BY <2>1 DEF Sound
  <2>3. Open(w0) = Open(w) \cup {id}
    BY <2>1 DEF Open, Sound
  <2>4. Good(w0, {})
    BY <2>1, <2>2, <2>3
  <2> HIDE DEF Good
  <2> QED
    BY <2>1, <2>4
<1>2. ASSUME NEW done \in SUBSET g[id], NEW dep \in g[id], NEW u \in R[done]
      PROVE  tv[u][dep] \in R[done \cup {dep}]
  <2> DEFINE r == tv[u][dep]
  <2>1. u \in Walks(g) /\ Good(u, done)
    OBVIOUS
  <2>2. dep \in DOMAIN g /\ done \cup {dep} \in SUBSET g[id]
    BY CompleteGraph
  <2>3. r \in Walks(g) /\ u.visited \subseteq r.visited
    BY <2>1, <2>2, TopoVisitType DEF TypedBeyond
  <2>4. \A x \in Open(u) : dep \in Under(g, x)
    <3>1. dep \in DepsOf(g, id)
      BY CompleteGraph
    <3>2. dep \in Under(g, id)
      BY <3>1, CompleteGraph, UnderHolds
    <3>3. ASSUME NEW x \in Open(w)
          PROVE  dep \in Under(g, x)
      <4>1. x \in Nodes(g)
        BY CompleteGraph DEF Open, Walks
      <4> QED
        BY <3>1, <4>1, CompleteGraph, UnderHolds DEF Closed
    <3> QED
      BY <2>1, <3>2, <3>3
  <2>5. TopoGood(g, u, dep, r)
    BY <2>1, <2>2
  <2> HIDE DEF r, tv
  <2>6. Good(r, done \cup {dep})
    BY <2>1, <2>3, <2>4, <2>5 DEF TopoGood
  <2> HIDE DEF Good
  <2>7. r \in R[done \cup {dep}]
    BY <2>2, <2>3, <2>6
  <2> QED
    BY <2>7 DEF r
<1>3. g[id] \in SUBSET Nat /\ IsFiniteSet(g[id])
  BY CompleteGraph
<1> DEFINE below == VisitAll(tv, w0, g[id])
<1> HIDE DEF R, tv, w0
<1>4. below \in R[g[id]]
  BY <1>1, <1>2, <1>3, VisitAllInvariant
<1> HIDE DEF below
<1>5. below \in Walks(g) /\ Good(below, g[id])
  BY <1>4 DEF R
<1> QED
  BY <1>5 DEF below, tv, w0

LEMMA TopoCorrect ==
    ASSUME NEW g, AllKnown(g), Acyclic(g)
    PROVE  \A w \in Walks(g) : \A id \in DOMAIN g : TopoGood(g, w, id, TopoVisit(g)[w][id])
<1> DEFINE tv == TopoVisit(g)
           P == {v \in SUBSET DOMAIN g : \A w \in Walks(g) : w.visited = v =>
                    \A id \in DOMAIN g : TopoGood(g, w, id, tv[w][id])}
<1>1. ASSUME NEW v \in SUBSET DOMAIN g,
             \A t \in SUBSET DOMAIN g : v \subseteq t /\ v # t => t \in P
      PROVE  v \in P
  <2> SUFFICES ASSUME NEW w \in Walks(g), w.visited = v, NEW id \in DOMAIN g
               PROVE  TopoGood(g, w, id, tv[w][id])
    OBVIOUS
  <2> SUFFICES ASSUME Sound(g, w), \A x \in Open(w) : id \in Under(g, x)
               PROVE  /\ Sound(g, tv[w][id])
                      /\ Open(tv[w][id]) = Open(w)
                      /\ Range(w.order) \cup {id} \subseteq Range(tv[w][id].order)
    BY DEF TopoGood
  <2>1. tv[w][id] = TopoCall(g, tv, w, id)
    BY TopoVisitIs DEF TopoEquation
  <2>2. CASE id \in w.visited
    <3>1. tv[w][id] = w
      BY <2>1, <2>2 DEF TopoCall
    <3>2. id \notin Open(w)
      BY CompleteGraph DEF Acyclic
    <3> QED
      BY <2>2, <3>1, <3>2 DEF Open
  <2>3. CASE id \notin w.visited
    <3> DEFINE below == VisitAll(tv, Enter(w, id), g[id])
    <3>1. ASSUME NEW u \in Walks(g), w.visited \cup {id} \subseteq u.visited
          PROVE  u.visited \in P
      <4>1. u.visited \in SUBSET DOMAIN g
        BY DEF Walks
      <4> HIDE DEF P
      <4> QED
        BY <1>1, <2>3, <3>1, <4>1
    <3>2. \A u \in Walks(g) : w.visited \cup {id} \subseteq u.visited =>
              \A dep \in DOMAIN g : TopoGood(g, u, dep, TopoVisit(g)[u][dep])
      BY <3>1
    <3>3. /\ below \in Walks(g)
          /\ Sound(g, below)
          /\ Open(below) = Open(w) \cup {id}
          /\ Range(w.order) \cup g[id] \subseteq Range(below.order)
      BY <2>3, <3>2, TopoBelowGood
    <3>4. tv[w][id] = Leave(below, id)
      BY <2>1, <2>3 DEF TopoCall
    <3> DEFINE r == Leave(below, id)
    <3> HIDE DEF below
    <3>5. r.visited = below.visited /\ r.order = Append(below.order, id)
      BY <3>3, EnterLeave
    <3> HIDE DEF r
    <3>6. id \notin Range(below.order) /\ id \in below.visited
      BY <3>3 DEF Open
    <3>7. below.order \in Seq(DOMAIN g)
      BY <3>3 DEF Walks
    <3>8. /\ Range(r.order) = Range(below.order) \cup {id}
          /\ Distinct(r.order)
          /\ DepsFirst(g, r.order)
      BY <3>3, <3>5, <3>6, <3>7, Appended DEF Sound
    <3>9. Sound(g, r)
      BY <3>3, <3>5, <3>6, <3>8 DEF Sound
    <3>10. Open(r) = Open(w)
      <4>1. id \notin Open(w)
        BY <2>3 DEF Open
      <4> QED
        BY <3>3, <3>5, <3>8, <4>1 DEF Open
    <3> QED
      BY <3>3, <3>4, <3>8, <3>9, <3>10 DEF r
  <2> QED
    BY <2>2, <2>3
<1> HIDE DEF P
<1>2. SUBSET DOMAIN g \subseteq P
  <2>1. IsFiniteSet(DOMAIN g)
    BY CompleteGraph
  <2> QED
    BY <1>1, <2>1, SupersetInduct
<1>3. ASSUME NEW w \in Walks(g)
      PROVE  w.visited \in P
  BY <1>2 DEF Walks
<1> QED
  BY <1>3 DEF P

\* The walk over a complete acyclic graph lists every migration once and after
\* everything it depends on.
LEMMA TopoWalkIsRight ==
    ASSUME NEW g, AllKnown(g), Acyclic(g)
    PROVE  /\ TopoWalk(g) \in Seq(DOMAIN g)
           /\ Range(TopoWalk(g)) = DOMAIN g
           /\ Distinct(TopoWalk(g))
           /\ DepsFirst(g, TopoWalk(g))
<1> DEFINE tv == TopoVisit(g)
           w0 == [visited |-> {}, order |-> <<>>]
           Good(u, done) ==
               /\ Sound(g, u)
               /\ Open(u) = {}
               /\ done \subseteq Range(u.order)
           R == [done \in SUBSET DOMAIN g |-> {u \in Walks(g) : Good(u, done)}]
           all == VisitAll(tv, w0, DOMAIN g)
<1>1. w0 \in R[{}]
  <2>1. w0 \in Walks(g)
    BY DEF Walks
  <2>2. Good(w0, {})
    BY DEF Sound, Open, Distinct, DepsFirst, Range
  <2> HIDE DEF w0, Good
  <2> QED
    BY <2>1, <2>2
<1>2. ASSUME NEW done \in SUBSET DOMAIN g, NEW id \in DOMAIN g, NEW u \in R[done]
      PROVE  tv[u][id] \in R[done \cup {id}]
  <2>1. u \in Walks(g) /\ Good(u, done)
    OBVIOUS
  <2>2. tv[u][id] \in Walks(g)
    BY <2>1, TopoVisitType DEF TypedBeyond
  <2>3. TopoGood(g, u, id, tv[u][id])
    BY <2>1, TopoCorrect
  <2> HIDE DEF tv
  <2>4. Good(tv[u][id], done \cup {id})
    BY <2>1, <2>3 DEF TopoGood
  <2> HIDE DEF Good
  <2> QED
    BY <2>2, <2>4
<1>3. DOMAIN g \in SUBSET Nat /\ IsFiniteSet(DOMAIN g)
  BY CompleteGraph
<1> HIDE DEF R, tv, w0
<1>4. all \in R[DOMAIN g]
  BY <1>1, <1>2, <1>3, VisitAllInvariant
<1> HIDE DEF all
<1>5. all \in Walks(g) /\ Good(all, DOMAIN g)
  BY <1>4 DEF R
<1>6. TopoWalk(g) = all.order
  BY DEF TopoWalk, all, tv, w0
<1>7. all.order \in Seq(DOMAIN g) /\ all.visited \subseteq DOMAIN g
  BY <1>5 DEF Walks
<1> QED
  BY <1>5, <1>6, <1>7 DEF Sound, Open


\* topological_order, for every finite graph of migrations: it succeeds exactly
\* when no dependency is missing and none is cyclic, and its order is then a
\* linear extension of the dependencies.
THEOREM TopologicalOrderIsRight ==
    ASSUME NEW g, FiniteGraph(g)
    PROVE  LET result == TopologicalOrder(g)
           IN  /\ result.ok \in BOOLEAN
               /\ result.ok <=> Acyclic(g) /\ UnknownDependencies(g) = {}
               /\ ~result.ok => (result.error = "CycleDetected" <=> ~Acyclic(g))
               /\ result.ok => /\ result = [ok |-> TRUE, order |-> TopoWalk(g)]
                               /\ result.order \in Seq(DOMAIN g)
                               /\ Range(result.order) = DOMAIN g
                               /\ Distinct(result.order)
                               /\ DepsFirst(g, result.order)
<1>1. FindsCycle(g) <=> ~Acyclic(g)
  BY FindsCycleIsRight
<1>2. CASE ~Acyclic(g)
  <2>1. TopologicalOrder(g) = [ok |-> FALSE, error |-> "CycleDetected"]
    BY <1>1, <1>2 DEF TopologicalOrder
  <2> QED
    BY <1>2, <2>1
<1>3. CASE Acyclic(g) /\ UnknownDependencies(g) # {}
  <2>1. TopologicalOrder(g) = [ok |-> FALSE, error |-> "UnknownDependency"]
    BY <1>1, <1>3 DEF TopologicalOrder
  <2> QED
    BY <1>3, <2>1
<1>4. CASE Acyclic(g) /\ UnknownDependencies(g) = {}
  <2>1. TopologicalOrder(g) = [ok |-> TRUE, order |-> TopoWalk(g)]
    BY <1>1, <1>4 DEF TopologicalOrder
  <2>2. AllKnown(g)
    BY <1>4 DEF AllKnown
  <2> QED
    BY <1>4, <2>1, <2>2, TopoWalkIsRight
<1> QED
  BY <1>2, <1>3, <1>4

----------------------------------------------------------------------------
(* A migration that sorts last and depends on what is there.               *)

LEMMA OrderedLast ==
    ASSUME NEW ids \in SUBSET Nat, IsFiniteSet(ids), NEW x \in Nat, \A id \in ids : id < x
    PROVE  LET n == Cardinality(ids)
               all == ids \cup {x}
           IN  /\ n \in Nat /\ IsFiniteSet(all) /\ Cardinality(all) = n + 1
               /\ \A i \in 1..n : Ordered(all)[i] = Ordered(ids)[i]
               /\ Ordered(all)[n + 1] = x
<1> DEFINE n == Cardinality(ids)
           all == ids \cup {x}
<1>1. x \notin ids
  OBVIOUS
<1>2. n \in Nat /\ IsFiniteSet(all) /\ Cardinality(all) = n + 1
  BY <1>1, FS_AddElement, FS_CardinalityType
<1>3. Position(all, x) = n
  <2>1. ~(x < x)
    OBVIOUS
  <2>2. {j \in all : j < x} = ids
    BY <2>1, Zenon
  <2> QED
    BY <2>2 DEF Position
<1>4. ASSUME NEW id \in ids
      PROVE  Position(all, id) = Position(ids, id)
  <2>1. id \in Nat /\ id < x
    OBVIOUS
  <2>2. {j \in all : j < id} = {j \in ids : j < id}
    BY <2>1
  <2> QED
    BY <2>2 DEF Position
<1>5. all \in SUBSET Nat /\ ids \subseteq all /\ x \in all
  OBVIOUS
<1> HIDE DEF all
<1>6. \A i \in 1..n : Ordered(ids)[i] \in ids /\ Position(ids, Ordered(ids)[i]) = i - 1
  BY OrderedLists
<1>7. \A i \in 1..n+1 : Ordered(all)[i] \in all /\ Position(all, Ordered(all)[i]) = i - 1
  <2>1. \A i \in 1..Cardinality(all) : Ordered(all)[i] \in all /\ Position(all, Ordered(all)[i]) = i - 1
    BY <1>2, <1>5, OrderedLists
  <2> QED
    BY <1>2, <2>1
<1>8. \A a, b \in all : Position(all, a) = Position(all, b) => a = b
  BY <1>2, <1>5, RankDistinct
<1> HIDE DEF n
<1>9. ASSUME NEW i \in 1..n
      PROVE  Ordered(all)[i] = Ordered(ids)[i]
  <2>1. i \in 1..n+1
    BY <1>2
  <2>2. Position(all, Ordered(ids)[i]) = i - 1 /\ Ordered(ids)[i] \in all
    BY <1>4, <1>5, <1>6
  <2> QED
    BY <1>7, <1>8, <2>1, <2>2
<1>10. Ordered(all)[n + 1] = x
  <2>1. n + 1 \in 1..n+1 /\ (n + 1) - 1 = n
    BY <1>2
  <2> QED
    BY <1>3, <1>5, <1>7, <1>8, <2>1
<1> QED
  BY <1>2, <1>9, <1>10 DEF n, all

LEMMA VisitAllLast ==
    ASSUME NEW F, NEW w, NEW ids \in SUBSET Nat, IsFiniteSet(ids),
           NEW x \in Nat, \A id \in ids : id < x
    PROVE  VisitAll(F, w, ids \cup {x}) = F[VisitAll(F, w, ids)][x]
<1> DEFINE n == Cardinality(ids)
           all == ids \cup {x}
<1>1. /\ n \in Nat /\ IsFiniteSet(all) /\ Cardinality(all) = n + 1
      /\ \A i \in 1..n : Ordered(all)[i] = Ordered(ids)[i]
      /\ Ordered(all)[n + 1] = x
  BY OrderedLast
<1>2. PICK a : FoldSteps(a, F, w, Ordered(ids), n) /\ VisitAll(F, w, ids) = a[n]
  BY VisitAllTrace
<1>3. all \in SUBSET Nat
  OBVIOUS
<1> HIDE DEF n, all
<1>4. PICK b : FoldSteps(b, F, w, Ordered(all), n + 1) /\ VisitAll(F, w, all) = b[n + 1]
  BY <1>1, <1>3, VisitAllTrace
<1> DEFINE T == {i \in Nat : i <= n => a[i] = b[i]}
<1>5. 0 \in T
  BY <1>2, <1>4 DEF FoldSteps
<1>6. ASSUME NEW i \in Nat, i \in T
      PROVE  i + 1 \in T
  <2> SUFFICES ASSUME i + 1 <= n
               PROVE  a[i + 1] = b[i + 1]
    OBVIOUS
  <2>1. i + 1 \in 1..n /\ i + 1 \in 1..n+1 /\ (i + 1) - 1 = i /\ i <= n
    BY <1>1
  <2>2. a[i + 1] = F[a[i]][Ordered(ids)[i + 1]] /\ b[i + 1] = F[b[i]][Ordered(all)[i + 1]]
    BY <1>2, <1>4, <2>1 DEF FoldSteps
  <2>3. a[i] = b[i]
    BY <1>6, <2>1
  <2> QED
    BY <1>1, <2>1, <2>2, <2>3
<1> HIDE DEF T
<1>7. n \in T
  BY <1>1, <1>5, <1>6, NatInduct
<1>8. a[n] = b[n]
  BY <1>1, <1>7 DEF T
<1>9. b[n + 1] = F[b[n]][x]
  <2>1. n + 1 \in 1..n+1 /\ (n + 1) - 1 = n
    BY <1>1
  <2> QED
    BY <1>1, <1>4, <2>1 DEF FoldSteps
<1> QED
  BY <1>2, <1>4, <1>8, <1>9 DEF all

\* h is g and one more migration that depends on what g holds.
Extends(h, g, x) ==
    /\ x \notin DOMAIN g
    /\ DOMAIN h = DOMAIN g \cup {x}
    /\ \A id \in DOMAIN g : h[id] = g[id]
    /\ h[x] \subseteq DOMAIN g

LEMMA ExtendedComplete ==
    ASSUME NEW g, NEW h, NEW x, FiniteGraph(h), AllKnown(g), Acyclic(g), Extends(h, g, x)
    PROVE  AllKnown(h) /\ Acyclic(h)
<1>1. Nodes(g) = DOMAIN g /\ DOMAIN g \subseteq DOMAIN h
  BY CompleteGraph DEF Extends
<1>2. ASSUME NEW id \in DOMAIN h
      PROVE  h[id] \subseteq DOMAIN g
  BY <1>2, CompleteGraph DEF Extends
<1>3. UnknownDependencies(h) = {}
  BY <1>1, <1>2 DEF UnknownDependencies, Range
<1>4. AllKnown(h) /\ Nodes(h) = DOMAIN h
  BY <1>3, CompleteGraph DEF AllKnown
<1>5. \A id \in DOMAIN g : DepsOf(h, id) = DepsOf(g, id)
  BY <1>1 DEF DepsOf, Extends
<1>6. ASSUME NEW id \in DOMAIN g
      PROVE  id \notin Under(h, id)
  <2>1. Under(g, id) \subseteq DOMAIN g /\ DepsOf(g, id) \subseteq Under(g, id) /\ Closed(g, Under(g, id))
    BY <1>1, CompleteGraph, UnderHolds
  <2>2. Closed(h, Under(g, id))
    BY <1>5, <2>1 DEF Closed
  <2>3. Under(h, id) \subseteq Under(g, id)
    BY <1>1, <1>4, <1>5, <2>1, <2>2, UnderLeast
  <2> QED
    BY <1>1, <2>3 DEF Acyclic
<1>7. x \notin Under(h, x)
  <2>1. DepsOf(h, x) \subseteq DOMAIN g /\ Closed(h, DOMAIN g)
    BY <1>1, <1>2 DEF DepsOf, Closed
  <2>2. Under(h, x) \subseteq DOMAIN g
    BY <1>1, <1>4, <2>1, UnderLeast
  <2> QED
    BY <2>2 DEF Extends
<1> QED
  BY <1>4, <1>6, <1>7 DEF Acyclic, Extends

LEMMA TopoVisitExtended ==
    ASSUME NEW g, NEW h, NEW x, AllKnown(g), AllKnown(h), Extends(h, g, x)
    PROVE  \A w \in Walks(g) : \A id \in DOMAIN g : TopoVisit(h)[w][id] = TopoVisit(g)[w][id]
<1> DEFINE tg == TopoVisit(g)
           th == TopoVisit(h)
           P == {v \in SUBSET DOMAIN g : \A w \in Walks(g) : w.visited = v =>
                    \A id \in DOMAIN g : th[w][id] = tg[w][id]}
<1>1. ASSUME NEW v \in SUBSET DOMAIN g,
             \A t \in SUBSET DOMAIN g : v \subseteq t /\ v # t => t \in P
      PROVE  v \in P
  <2> SUFFICES ASSUME NEW w \in Walks(g), w.visited = v, NEW id \in DOMAIN g
               PROVE  th[w][id] = tg[w][id]
    OBVIOUS
  <2>1. w \in Walks(h) /\ id \in DOMAIN h /\ h[id] = g[id]
    BY DEF Walks, Extends
  <2>2. tg[w][id] = TopoCall(g, tg, w, id) /\ th[w][id] = TopoCall(h, th, w, id)
    BY <2>1, TopoVisitIs DEF TopoEquation
  <2>3. CASE id \in w.visited
    BY <2>2, <2>3 DEF TopoCall
  <2>4. CASE id \notin w.visited
    <3> DEFINE S == Beyond(g, w.visited \cup {id})
               w0 == Enter(w, id)
    <3>1. w0 \in S
      BY EnterLeave DEF Beyond
    <3>2. ASSUME NEW u \in S, NEW dep \in g[id]
          PROVE  tg[u][dep] \in S /\ tg[u][dep] = th[u][dep]
      <4>1. dep \in DOMAIN g /\ u \in Walks(g) /\ w.visited \cup {id} \subseteq u.visited
        BY CompleteGraph DEF Beyond
      <4>2. tg[u][dep] \in Walks(g) /\ u.visited \subseteq tg[u][dep].visited
        BY <4>1, TopoVisitType DEF TypedBeyond
      <4>3. u.visited \in P
        <5>1. u.visited \in SUBSET DOMAIN g
          BY <4>1 DEF Walks
        <5> HIDE DEF P
        <5> QED
          BY <1>1, <2>4, <4>1, <5>1
      <4> QED
        BY <4>1, <4>2, <4>3 DEF Beyond
    <3>3. g[id] \in SUBSET Nat /\ IsFiniteSet(g[id])
      BY CompleteGraph
    <3> HIDE DEF S, tg, th, P
    <3>4. VisitAll(tg, w0, g[id]) = VisitAll(th, w0, g[id])
      BY <3>1, <3>2, <3>3, VisitAllAgree
    <3> QED
      BY <2>1, <2>2, <2>4, <3>4 DEF TopoCall
  <2> QED
    BY <2>3, <2>4
<1> HIDE DEF P
<1>2. SUBSET DOMAIN g \subseteq P
  <2>1. IsFiniteSet(DOMAIN g)
    BY CompleteGraph
  <2> QED
    BY <1>1, <2>1, SupersetInduct
<1>3. ASSUME NEW w \in Walks(g)
      PROVE  w.visited \in P
  BY <1>2 DEF Walks
<1> QED
  BY <1>3 DEF P

LEMMA TopoWalkExtended ==
    ASSUME NEW g, NEW h, NEW x, FiniteGraph(h), AllKnown(g), Acyclic(g), Extends(h, g, x),
           \A id \in DOMAIN g : id < x
    PROVE  TopoWalk(h) = Append(TopoWalk(g), x)
<1> DEFINE tg == TopoVisit(g)
           th == TopoVisit(h)
           w0 == [visited |-> {}, order |-> <<>>]
           before == VisitAll(tg, w0, DOMAIN g)
<1>1. AllKnown(h) /\ Acyclic(h)
  BY ExtendedComplete
<1>2. /\ DOMAIN g \in SUBSET Nat /\ IsFiniteSet(DOMAIN g) /\ x \in Nat
      /\ DOMAIN h = DOMAIN g \cup {x} /\ x \in DOMAIN h /\ x \notin DOMAIN g
      /\ h[x] \subseteq DOMAIN g /\ IsFiniteSet(h[x])
  BY <1>1, CompleteGraph DEF Extends
<1>3. before \in Walks(g) /\ before = VisitAll(th, w0, DOMAIN g)
  <2>1. w0 \in Walks(g)
    BY DEF Walks
  <2>2. \A u \in Walks(g) : \A id \in DOMAIN g : tg[u][id] \in Walks(g) /\ tg[u][id] = th[u][id]
    BY <1>1, TopoVisitType, TopoVisitExtended DEF TypedBeyond
  <2> HIDE DEF tg, th, w0
  <2> QED
    BY <1>2, <2>1, <2>2, VisitAllAgree
<1>4. before.visited = DOMAIN g
  <2>1. TopoWalk(g) = before.order
    BY DEF TopoWalk
  <2>2. Range(before.order) = DOMAIN g
    BY <2>1, TopoWalkIsRight
  <2> DEFINE S == [done \in SUBSET DOMAIN g |-> {u \in Walks(g) : done \subseteq u.visited}]
  <2>3. w0 \in S[{}]
    BY DEF Walks
  <2>4. ASSUME NEW done \in SUBSET DOMAIN g, NEW id \in DOMAIN g, NEW u \in S[done]
        PROVE  tg[u][id] \in S[done \cup {id}]
    <3>1. u \in Walks(g) /\ done \subseteq u.visited /\ done \cup {id} \in SUBSET DOMAIN g
      OBVIOUS
    <3>2. tg[u][id] \in Walks(g) /\ u.visited \subseteq tg[u][id].visited
      BY <3>1, TopoVisitType DEF TypedBeyond
    <3>3. id \in tg[u][id].visited
      <4>1. tg[u][id] = TopoCall(g, tg, u, id)
        BY <3>1, TopoVisitIs DEF TopoEquation
      <4>2. CASE id \in u.visited
        BY <3>2, <4>2
      <4>3. CASE id \notin u.visited
        <5> DEFINE below == VisitAll(tg, Enter(u, id), g[id])
        <5>1. TypedBeyond(g, u.visited \cup {id}, tg) /\ AgreeBeyond(g, u.visited \cup {id}, tg, tg)
          BY TopoVisitType DEF TypedBeyond, AgreeBeyond
        <5>2. below \in Beyond(g, u.visited \cup {id})
          BY <3>1, <5>1, TopoBelowAgree
        <5>3. tg[u][id] = Leave(below, id)
          BY <4>1, <4>3 DEF TopoCall
        <5> HIDE DEF below
        <5>4. below \in Walks(g) /\ id \in below.visited
          BY <5>2 DEF Beyond
        <5> QED
          BY <5>3, <5>4, EnterLeave
      <4> QED
        BY <4>2, <4>3
    <3> HIDE DEF tg
    <3> QED
      BY <3>1, <3>2, <3>3
  <2> HIDE DEF S, tg, w0
  <2>5. before \in S[DOMAIN g]
    BY <1>2, <2>3, <2>4, VisitAllInvariant
  <2> HIDE DEF before
  <2>6. DOMAIN g \subseteq before.visited
    BY <2>5 DEF S
  <2> QED
    BY <1>3, <2>6 DEF Walks
<1>5. VisitAll(th, w0, DOMAIN h) = th[before][x]
  <2> HIDE DEF th, w0, before
  <2>1. VisitAll(th, w0, DOMAIN g \cup {x}) = th[VisitAll(th, w0, DOMAIN g)][x]
    BY <1>2, VisitAllLast
  <2> QED
    BY <1>2, <1>3, <2>1
<1> DEFINE w1 == Enter(before, x)
           after == VisitAll(th, w1, h[x])
<1>6. before \in Walks(h)
  BY <1>2, <1>3 DEF Walks
<1>7. th[before][x] = Leave(after, x)
  <2> HIDE DEF before
  <2> QED
    BY <1>1, <1>2, <1>4, <1>6, TopoVisitIs DEF TopoEquation, TopoCall
<1> HIDE DEF before
<1>8. w1 \in Walks(h) /\ w1.visited = DOMAIN g \cup {x} /\ w1.order = before.order
  BY <1>2, <1>4, <1>6, EnterLeave
<1> HIDE DEF w1
<1>9. after = w1
  <2>1. ASSUME NEW dep \in h[x]
        PROVE  th[w1][dep] = w1
    <3>1. dep \in DOMAIN h /\ dep \in w1.visited
      BY <1>2, <1>8
    <3> QED
      BY <1>1, <1>8, <3>1, TopoVisitIs DEF TopoEquation, TopoCall
  <2> DEFINE S == {w1}
  <2>2. w1 \in S /\ \A u \in S : \A dep \in h[x] : th[u][dep] \in S /\ th[u][dep] = th[u][dep]
    BY <2>1
  <2>3. h[x] \in SUBSET Nat
    BY <1>2
  <2> HIDE DEF S, th
  <2>4. after \in S
    BY <1>2, <2>2, <2>3, VisitAllAgree
  <2> QED
    BY <2>4 DEF S
<1>10. Leave(w1, x).order = Append(before.order, x)
  BY <1>2, <1>8, EnterLeave
<1> QED
  BY <1>5, <1>7, <1>9, <1>10 DEF TopoWalk, before

\* Such a migration is replayed and applied last, and moves no other.
THEOREM NewestComesLast ==
    ASSUME NEW g, NEW h, NEW x, FiniteGraph(g), FiniteGraph(h), Extends(h, g, x),
           \A id \in DOMAIN g : id < x, TopologicalOrder(g).ok
    PROVE  TopologicalOrder(h) = [ok |-> TRUE, order |-> Append(TopologicalOrder(g).order, x)]
<1>1. Acyclic(g) /\ AllKnown(g) /\ TopologicalOrder(g).order = TopoWalk(g)
  BY TopologicalOrderIsRight DEF AllKnown
<1>2. AllKnown(h) /\ Acyclic(h)
  BY <1>1, ExtendedComplete
<1>3. TopologicalOrder(h) = [ok |-> TRUE, order |-> TopoWalk(h)]
  BY <1>2, TopologicalOrderIsRight DEF AllKnown
<1> QED
  BY <1>1, <1>3, TopoWalkExtended

----------------------------------------------------------------------------
(* Graphs whose dependencies have smaller ids.                             *)

Growing(g)   == \A id \in DOMAIN g : g[id] \subseteq {d \in DOMAIN g : d < id}
PartOf(g, S)   == [id \in S |-> g[id]]
Sealed(g, S) == S \subseteq DOMAIN g /\ \A id \in S : g[id] \subseteq S

Lists(order, g, S) == TopologicalOrder(PartOf(g, S)) = [ok |-> TRUE, order |-> order]

\* order is the order of S, and what it begins with is the order of that alone.
OrderedInParts(g, S, order, n) ==
    /\ Lists(order, g, S)
    /\ order \in Seq(S) /\ Len(order) = n /\ Range(order) = S /\ Distinct(order)
    /\ \A m \in 0..n : /\ Sealed(g, Range(SubSeq(order, 1, m)))
                       /\ Lists(SubSeq(order, 1, m), g, Range(SubSeq(order, 1, m)))

LEMMA PartIsGraph ==
    ASSUME NEW g, FiniteGraph(g), NEW S, Sealed(g, S)
    PROVE  FiniteGraph(PartOf(g, S)) /\ IsFiniteSet(S) /\ S \subseteq Nat /\ Nodes(PartOf(g, S)) = S
<1> DEFINE p == PartOf(g, S)
<1>1. p = [id \in DOMAIN p |-> p[id]] /\ DOMAIN p = S
  BY DEF PartOf
<1>2. Nodes(p) = S
  <2>1. UNION Range(p) \subseteq S
    BY DEF PartOf, Range, Sealed
  <2> HIDE DEF p
  <2> QED
    BY <1>1, <2>1 DEF Nodes
<1>3. DOMAIN g \subseteq Nat /\ IsFiniteSet(DOMAIN g)
  BY NodesOf
<1>4. S \subseteq DOMAIN g
  BY DEF Sealed
<1>5. S \subseteq Nat /\ IsFiniteSet(S)
  BY <1>3, <1>4, FS_Subset
<1> HIDE DEF p
<1>6. FiniteGraph(p)
  BY <1>1, <1>2, <1>5 DEF FiniteGraph
<1> QED
  BY <1>2, <1>5, <1>6 DEF p

LEMMA EmptyOrder ==
    ASSUME NEW g, FiniteGraph(g)
    PROVE  OrderedInParts(g, {}, <<>>, 0)
<1> DEFINE p == PartOf(g, {})
           result == TopologicalOrder(p)
<1>1. Sealed(g, {})
  BY DEF Sealed
<1>2. FiniteGraph(p) /\ Nodes(p) = {}
  BY <1>1, PartIsGraph
<1>3. Acyclic(p) /\ UnknownDependencies(p) = {} /\ DOMAIN p = {}
  <2>1. DOMAIN p = {}
    BY DEF PartOf
  <2>2. UnknownDependencies(p) = {}
    BY <1>2 DEF UnknownDependencies, Nodes
  <2> QED
    BY <1>2, <2>1, <2>2 DEF Acyclic
<1> HIDE DEF p
<1>4. /\ result.ok /\ result = [ok |-> TRUE, order |-> TopoWalk(p)]
      /\ result.order \in Seq(DOMAIN p)
  BY <1>2, <1>3, TopologicalOrderIsRight
<1>5. result.order = <<>>
  BY <1>3, <1>4
<1>6. Lists(<<>>, g, {})
  BY <1>4, <1>5 DEF Lists, p
<1>7. /\ SubSeq(<<>>, 1, 0) = <<>> /\ Range(<<>>) = {} /\ Len(<<>>) = 0
      /\ DOMAIN <<>> = {} /\ <<>> \in Seq({})
  BY DEF Range
<1>8. Distinct(<<>>)
  BY <1>7 DEF Distinct
<1>9. ASSUME NEW m \in 0..0
      PROVE  /\ Sealed(g, Range(SubSeq(<<>>, 1, m)))
             /\ Lists(SubSeq(<<>>, 1, m), g, Range(SubSeq(<<>>, 1, m)))
  <2>1. m = 0
    OBVIOUS
  <2> QED
    BY <1>1, <1>6, <1>7, <2>1
<1> QED
  BY <1>6, <1>7, <1>8, <1>9 DEF OrderedInParts

LEMMA OneMoreOrdered ==
    ASSUME NEW g, FiniteGraph(g), Growing(g), NEW S, Sealed(g, S), NEW x \in S,
           \A id \in S \ {x} : id < x, Sealed(g, S \ {x}),
           NEW n \in Nat, NEW order, OrderedInParts(g, S \ {x}, order, n)
    PROVE  OrderedInParts(g, S, Append(order, x), n + 1)
<1> DEFINE R    == S \ {x}
           more == Append(order, x)
<1>1. /\ order \in Seq(R) /\ Len(order) = n /\ Range(order) = R /\ Distinct(order)
      /\ Lists(order, g, R)
  BY DEF OrderedInParts
<1>2. Lists(more, g, S)
  <2> DEFINE p == PartOf(g, R)
             q == PartOf(g, S)
  <2>1. FiniteGraph(p) /\ FiniteGraph(q)
    BY PartIsGraph
  <2>2. Extends(q, p, x)
    <3>1. DOMAIN q = S /\ DOMAIN p = R /\ S = R \cup {x}
      BY DEF PartOf
    <3>2. \A id \in R : q[id] = p[id]
      BY DEF PartOf
    <3>3. q[x] \subseteq R
      <4>1. q[x] = g[x] /\ g[x] \subseteq S /\ x \in DOMAIN g
        BY DEF PartOf, Sealed
      <4>2. x \in Nat
        BY PartIsGraph
      <4>3. x \notin g[x]
        BY <4>1, <4>2 DEF Growing
      <4> QED
        BY <4>1, <4>3
    <3> HIDE DEF p, q
    <3> QED
      BY <3>1, <3>2, <3>3 DEF Extends
  <2>3. TopologicalOrder(p) = [ok |-> TRUE, order |-> order]
    BY <1>1 DEF Lists
  <2>4. \A id \in DOMAIN p : id < x
    BY DEF PartOf
  <2>5. TopologicalOrder(p).ok /\ TopologicalOrder(p).order = order
    BY <2>3
  <2> HIDE DEF p, q
  <2>6. TopologicalOrder(q) = [ok |-> TRUE, order |-> Append(TopologicalOrder(p).order, x)]
    BY <2>1, <2>2, <2>4, <2>5, NewestComesLast
  <2> QED
    BY <2>5, <2>6 DEF Lists, q
<1>3. /\ more \in Seq(S) /\ Len(more) = n + 1
      /\ \A i \in 1..n : more[i] = order[i] /\ more[i] \in R
      /\ more[n + 1] = x
  BY <1>1
<1>4. Range(more) = S
  <2>1. DOMAIN order = 1..n /\ DOMAIN more = 1..n + 1
    BY <1>1, <1>3
  <2>2. \A y \in R : \E i \in 1..n : order[i] = y
    BY <1>1, <2>1 DEF Range
  <2>3. \A y \in S : \E i \in 1..n + 1 : more[i] = y
    <3>1. n + 1 \in 1..n + 1 /\ 1..n \subseteq 1..n + 1
      OBVIOUS
    <3> HIDE DEF more
    <3> QED
      BY <1>3, <2>2, <3>1
  <2>4. \A i \in 1..n + 1 : more[i] \in S
    BY <1>3, <2>1
  <2> HIDE DEF more
  <2> QED
    BY <2>1, <2>3, <2>4 DEF Range
<1>5. Distinct(more)
  <2>1. DOMAIN order = 1..n /\ DOMAIN more = 1..n + 1
    BY <1>1, <1>3
  <2>2. \A i, j \in 1..n : order[i] = order[j] => i = j
    BY <1>1, <2>1 DEF Distinct
  <2>3. \A i \in 1..n + 1 : i # n + 1 => i \in 1..n
    OBVIOUS
  <2> HIDE DEF more
  <2>4. \A i, j \in 1..n + 1 : more[i] = more[j] => i = j
    BY <1>3, <2>2, <2>3
  <2> QED
    BY <2>1, <2>4 DEF Distinct
<1>6. ASSUME NEW m \in 0..n + 1
      PROVE  /\ Sealed(g, Range(SubSeq(more, 1, m)))
             /\ Lists(SubSeq(more, 1, m), g, Range(SubSeq(more, 1, m)))
  <2>1. CASE m = n + 1
    <3>1. SubSeq(more, 1, m) = more
      BY <1>3, <2>1
    <3> HIDE DEF more
    <3> QED
      BY <1>2, <1>4, <3>1
  <2>2. CASE m # n + 1
    <3>1. m \in 0..n
      BY <2>2
    <3>2. SubSeq(more, 1, m) = SubSeq(order, 1, m)
      BY <1>1, <1>3, <3>1
    <3> HIDE DEF more
    <3> QED
      BY <3>1, <3>2 DEF OrderedInParts
  <2> QED
    BY <2>1, <2>2
<1> HIDE DEF more
<1> QED
  BY <1>2, <1>3, <1>4, <1>5, <1>6 DEF OrderedInParts, more

\* What a growing history begins with is ordered as it would be alone: a checkout
\* that lacks the rest replays and applies the same migrations in the same order.
THEOREM PrefixesOrderedAlike ==
    ASSUME NEW g, FiniteGraph(g), Growing(g), NEW S, Sealed(g, S)
    PROVE  OrderedInParts(g, S, TopologicalOrder(PartOf(g, S)).order, Cardinality(S))
<1> DEFINE Good(R, n) == \E order : OrderedInParts(g, R, order, n)
           T == {n \in Nat : \A R \in SUBSET DOMAIN g : Sealed(g, R) /\ Cardinality(R) = n => Good(R, n)}
<1>1. 0 \in T
  <2>1. ASSUME NEW R \in SUBSET DOMAIN g, Sealed(g, R), Cardinality(R) = 0 PROVE Good(R, 0)
    <3>1. IsFiniteSet(R)
      BY <2>1, PartIsGraph
    <3>2. R = {}
      BY <2>1, <3>1, FS_EmptySet
    <3> QED
      BY <3>2, EmptyOrder
  <2> HIDE DEF Good
  <2> QED
    BY <2>1
<1>2. ASSUME NEW n \in Nat, n \in T PROVE n + 1 \in T
  <2>1. ASSUME NEW R \in SUBSET DOMAIN g, Sealed(g, R), Cardinality(R) = n + 1
        PROVE  Good(R, n + 1)
    <3>1. IsFiniteSet(R) /\ R \in SUBSET Nat
      BY <2>1, PartIsGraph
    <3>2. R # {}
      BY <2>1, FS_EmptySet
    <3>3. PICK x \in R : \A id \in R : id <= x
      <4>1. n \in 0..Cardinality(R) - 1
        BY <2>1
      <4>2. PICK x \in R : Position(R, x) = n
        BY <3>1, <4>1, RankOnto
      <4>3. ASSUME NEW id \in R, x < id PROVE FALSE
        <5>1. Position(R, x) < Position(R, id) /\ Position(R, id) \in 0..Cardinality(R) - 1
          BY <3>1, <4>3, RankGrows, RankBound
        <5> QED
          BY <2>1, <4>2, <5>1
      <4>4. \A id \in R : id \in Nat
        BY <3>1
      <4>5. ASSUME NEW id \in R PROVE id <= x
        BY <4>3, <4>4, <4>5
      <4> QED
        BY <4>5
    <3>4. IsFiniteSet(R \ {x}) /\ Cardinality(R \ {x}) = n
      BY <2>1, <3>1, FS_RemoveElement
    <3>5. \A id \in R \ {x} : id < x
      BY <3>1, <3>3
    <3>6. Sealed(g, R \ {x})
      <4>1. ASSUME NEW id \in R \ {x}, NEW d \in g[id] PROVE d \in R \ {x}
        <5>1. d \in R /\ d < id
          BY <2>1 DEF Sealed, Growing
        <5> QED
          BY <3>1, <3>5, <5>1
      <4> QED
        BY <2>1, <4>1 DEF Sealed
    <3>7. R \ {x} \in SUBSET DOMAIN g
      OBVIOUS
    <3>8. PICK order : OrderedInParts(g, R \ {x}, order, n)
      BY <1>2, <3>4, <3>6, <3>7
    <3>9. OrderedInParts(g, R, Append(order, x), n + 1)
      BY <2>1, <3>5, <3>6, <3>8, OneMoreOrdered
    <3> QED
      BY <3>9
  <2> HIDE DEF Good
  <2> QED
    BY <2>1
<1>3. Nat \subseteq T
  <2> HIDE DEF T
  <2> QED
    BY <1>1, <1>2, NatInduct
<1>4. Cardinality(S) \in Nat /\ S \in SUBSET DOMAIN g
  <2>1. IsFiniteSet(S)
    BY PartIsGraph
  <2> QED
    BY <2>1, FS_CardinalityType DEF Sealed
<1>5. PICK order : OrderedInParts(g, S, order, Cardinality(S))
  BY <1>3, <1>4
<1>6. TopologicalOrder(PartOf(g, S)).order = order
  BY <1>5 DEF OrderedInParts, Lists
<1> QED
  BY <1>5, <1>6

==========================================================================
