------------------------- MODULE SchemaMake_proofs -------------------------
(***************************************************************************)
(* Theorems about make, in four parts: the list a set is put in and Kahn's *)
(* algorithm on it, which together sort the operations; what the schemas   *)
(* and operations of the program look like, and that replay keeps them so; *)
(* the diff of two schemas, which orders all that has changed; and the     *)
(* conversation with the clarifier, which ends after two rounds.           *)
(***************************************************************************)
EXTENDS SchemaAdopt, SchemaOps_proofs

----------------------------------------------------------------------------
(* Recursion over the subsets of a finite set: the list of a set, and what *)
(* is left to order.                                                       *)

\* What Phi makes of a set depends only on its proper subsets.
FromSmaller(Phi, N, V) ==
  \A f, g \in [SUBSET N -> V] : \A s \in SUBSET N :
     (\A t \in SUBSET N : t \subseteq s /\ t # s => f[t] = g[t]) => Phi[f][s] = Phi[g][s]

OverSubsets(X, N, V) == X = [SUBSET N -> V]

\* A recursive function on the subsets of a finite set is what its body says.
LEMMA SubsetRecursion ==
  ASSUME NEW N, IsFiniteSet(N), NEW V, NEW v0 \in V,
         NEW X, OverSubsets(X, N, V), NEW Phi \in [X -> X], FromSmaller(Phi, N, V)
  PROVE  \E f \in X : f = Phi[f]
<1>0. X = [SUBSET N -> V]
  BY DEF OverSubsets
<1> DEFINE D == SUBSET N
           x0 == [s \in D |-> v0]
<1>1. PICK k \in Nat : \E rank \in [D -> 0..k] : Contracts(Phi, X, D, rank)
  <2> DEFINE size == [s \in D |-> Cardinality(s)]
  <2>1. \A s \in D : IsFiniteSet(s) /\ Cardinality(s) \in Nat /\ Cardinality(s) <= Cardinality(N)
    BY FS_Subset, FS_CardinalityType
  <2>2. \A s, t \in D : t \subseteq s /\ t # s => Cardinality(t) < Cardinality(s)
    BY <2>1, FS_Subset
  <2>3. Cardinality(N) \in Nat /\ size \in [D -> 0..Cardinality(N)]
    BY <2>1, FS_CardinalityType
  <2>4. Contracts(Phi, X, D, size)
    <3> SUFFICES ASSUME NEW f \in X, NEW g \in X, NEW s \in D,
                        \A t \in D : size[t] < size[s] => f[t] = g[t]
                 PROVE  Phi[f][s] = Phi[g][s]
      BY DEF Contracts
    <3>1. \A t \in D : t \subseteq s /\ t # s => f[t] = g[t]
      BY <2>2
    <3> QED
      BY <1>0, <3>1 DEF FromSmaller
  <2> HIDE DEF size, D
  <2> QED
    BY <2>3, <2>4
<1>2. FunctionsOver(X, D)
  BY <1>0 DEF FunctionsOver
<1>3. x0 \in X /\ Phi \in [X -> X]
  BY <1>0
<1> HIDE DEF D, x0
<1>4. PICK rank \in [D -> 0..k] : Contracts(Phi, X, D, rank)
  BY <1>1
<1>5. \E f \in X : f = Phi[f]
  BY ONLY <1>2, <1>3, <1>4, RecursiveFunctionExists
<1> QED
  BY <1>5

\* What holds of a set when it holds of its proper subsets holds of all.
LEMMA SubsetInduct ==
  ASSUME NEW N, IsFiniteSet(N), NEW P,
         \A s \in SUBSET N : (\A t \in SUBSET N : t \subseteq s /\ t # s => t \in P) => s \in P
  PROVE  SUBSET N \subseteq P
<1> DEFINE Q == {s \in SUBSET N : N \ s \in P}
<1>1. ASSUME NEW s \in SUBSET N, \A t \in SUBSET N : s \subseteq t /\ s # t => t \in Q
      PROVE  s \in Q
  <2>1. ASSUME NEW u \in SUBSET N, u \subseteq N \ s, u # N \ s
        PROVE  u \in P
    <3>1. N \ u \in SUBSET N /\ s \subseteq N \ u /\ s # N \ u /\ N \ (N \ u) = u
      BY <2>1
    <3>2. N \ u \in Q
      BY <3>1, <1>1
    <3>3. N \ (N \ u) \in P
      BY <3>2
    <3> QED
      BY <3>1, <3>3, Zenon
  <2>2. N \ s \in SUBSET N
    OBVIOUS
  <2>3. N \ s \in P
    BY <2>1, <2>2, Zenon
  <2> QED
    BY <2>3
<1>2. SUBSET N \subseteq Q
  <2> HIDE DEF Q
  <2> QED
    BY <1>1, SupersetInduct
<1>3. ASSUME NEW s \in SUBSET N
      PROVE  s \in P
  <2>1. N \ s \in Q
    BY <1>2
  <2>2. N \ (N \ s) \in P /\ N \ (N \ s) = s
    BY <2>1
  <2> QED
    BY <2>2, Zenon
<1> QED
  BY <1>3

-----------------------------------------------------------------------------
(* The list of a set.                                                      *)

ListBody(f, s) == IF s = {} THEN <<>>
                  ELSE Append(f[s \ {CHOOSE x \in s : TRUE}], CHOOSE x \in s : TRUE)

\* The fold that lists a set, as a recursion over its subsets.
LEMMA ListedUnfold ==
  ASSUME NEW S
  PROVE  Listed(S) = (CHOOSE it : it = [s \in SUBSET S |-> ListBody(it, s)])[S]
BY DEF Listed, FoldSet, MapThenFoldSet, ListBody

\* seq lists the members of s, each once.
Enumerates(seq, s) == /\ seq \in Seq(s) /\ Len(seq) = Cardinality(s)
                 /\ Range(seq) = s
                 /\ \A i, j \in DOMAIN seq : seq[i] = seq[j] => i = j

\* One member more.
LEMMA EnumeratesAppend ==
  ASSUME NEW s, IsFiniteSet(s), NEW x \in s, NEW seq, Enumerates(seq, s \ {x})
  PROVE  Enumerates(Append(seq, x), s)
<1> DEFINE n   == Len(seq)
           new == Append(seq, x)
<1>1. seq \in Seq(s \ {x}) /\ seq \in Seq(s) /\ n \in Nat /\ DOMAIN seq = 1..n
  BY DEF Enumerates
<1>2. /\ new \in Seq(s) /\ Len(new) = n + 1 /\ DOMAIN new = 1..n+1
      /\ \A i \in 1..n : new[i] = seq[i]
      /\ new[n + 1] = x
  BY <1>1
<1>3. Cardinality(s) = n + 1
  <2>1. Cardinality(s \ {x}) = Cardinality(s) - 1 /\ Cardinality(s) \in Nat
    BY FS_RemoveElement, FS_CardinalityType
  <2> QED
    BY <2>1, <1>1 DEF Enumerates
<1>4. \A i \in 1..n : seq[i] \in s \ {x}
  BY <1>1
<1>5. Range(new) = s
  <2>1. ASSUME NEW y \in s
        PROVE  \E i \in 1..n+1 : new[i] = y
    <3>1. CASE y = x
      BY <3>1, <1>1, <1>2
    <3>2. CASE y # x
      <4>1. y \in Range(seq)
        BY <3>2 DEF Enumerates
      <4>2. PICK i \in 1..n : seq[i] = y
        BY <4>1, <1>1 DEF Range
      <4>3. i \in 1..n+1 /\ new[i] = y
        BY <4>2, <1>1, <1>2
      <4> QED
        BY <4>3
    <3> QED
      BY <3>1, <3>2
  <2>2. \A i \in 1..n+1 : new[i] \in s
    BY <1>2
  <2> HIDE DEF new
  <2> QED
    BY <2>1, <2>2, <1>2 DEF Range
<1>6. ASSUME NEW i \in 1..n+1, NEW j \in 1..n+1, new[i] = new[j]
      PROVE  i = j
  <2>1. CASE i \in 1..n /\ j \in 1..n
    <3>1. seq[i] = seq[j]
      BY <1>2, <1>6, <2>1
    <3> QED
      BY <2>1, <3>1, <1>1 DEF Enumerates
  <2>2. CASE i = n + 1 /\ j \in 1..n
    BY <1>2, <1>4, <1>6, <2>2
  <2>3. CASE i \in 1..n /\ j = n + 1
    BY <1>2, <1>4, <1>6, <2>3
  <2>4. i \in 1..n \/ i = n + 1
    BY <1>1
  <2>5. j \in 1..n \/ j = n + 1
    BY <1>1
  <2> QED
    BY <2>1, <2>2, <2>3, <2>4, <2>5
<1> HIDE DEF new, n
<1>7. Enumerates(new, s)
  BY <1>2, <1>3, <1>5, <1>6 DEF Enumerates
<1> QED
  BY <1>7 DEF new

\* Listed gives every member of a finite set once.
LEMMA ListedRight ==
  ASSUME NEW S, IsFiniteSet(S)
  PROVE  Enumerates(Listed(S), S)
<1> DEFINE V   == Seq(S)
           X   == [SUBSET S -> V]
           Phi == [f \in X |-> [s \in SUBSET S |-> ListBody(f, s)]]
           it  == CHOOSE it : it = [s \in SUBSET S |-> ListBody(it, s)]
           P   == {s \in SUBSET S : Enumerates(it[s], s)}
<1>1. \A s \in SUBSET S : s # {} => (CHOOSE x \in s : TRUE) \in s
  OBVIOUS
<1>2. \E f : f = [s \in SUBSET S |-> ListBody(f, s)]
  <2>1. ASSUME NEW f \in X, NEW s \in SUBSET S
        PROVE  ListBody(f, s) \in V
    <3>1. CASE s = {}
      BY <3>1 DEF ListBody
    <3>2. CASE s # {}
      <4> PICK x \in s : x = (CHOOSE y \in s : TRUE)
        BY <1>1, <3>2
      <4>1. s \ {x} \in SUBSET S /\ f[s \ {x}] \in V /\ x \in S
        OBVIOUS
      <4>2. ListBody(f, s) = Append(f[s \ {x}], x)
        BY <3>2 DEF ListBody
      <4> QED
        BY <4>1, <4>2
    <3> QED
      BY <3>1, <3>2
  <2>2. Phi \in [X -> X]
    BY <2>1
  <2>3. <<>> \in V
    OBVIOUS
  <2>4. ASSUME NEW f \in X, NEW g \in X, NEW s \in SUBSET S,
               \A t \in SUBSET S : t \subseteq s /\ t # s => f[t] = g[t]
        PROVE  Phi[f][s] = Phi[g][s]
    <3>1. CASE s = {}
      BY <3>1 DEF ListBody
    <3>2. CASE s # {}
      <4> PICK x \in s : x = (CHOOSE y \in s : TRUE)
        BY <1>1, <3>2
      <4>1. f[s \ {x}] = g[s \ {x}]
        BY <2>4
      <4> QED
        BY <4>1 DEF ListBody
    <3> QED
      BY <3>1, <3>2
  <2>5. FromSmaller(Phi, S, V)
    BY <2>4 DEF FromSmaller
  <2>8. OverSubsets(X, S, V)
    BY DEF OverSubsets
  <2> HIDE DEF X, V, Phi
  <2>6. \E f \in X : f = Phi[f]
    BY ONLY IsFiniteSet(S), <2>2, <2>3, <2>5, <2>8, SubsetRecursion
  <2>7. PICK f \in X : f = Phi[f]
    BY <2>6
  <2> QED
    BY <2>7 DEF Phi
<1>3. it = [s \in SUBSET S |-> ListBody(it, s)]
  BY <1>2
<1> HIDE DEF it
<1>4. ASSUME NEW s \in SUBSET S, \A t \in SUBSET S : t \subseteq s /\ t # s => t \in P
      PROVE  s \in P
  <2>0. IsFiniteSet(s)
    BY FS_Subset
  <2>1. CASE s = {}
    <3>1. it[s] = <<>>
      BY <1>3, <2>1 DEF ListBody
    <3>2. Cardinality(s) = 0
      BY <2>1, FS_EmptySet
    <3>3. Enumerates(<<>>, s)
      BY <2>1, <3>2 DEF Enumerates, Range
    <3> QED
      BY <3>1, <3>3
  <2>2. CASE s # {}
    <3> PICK x \in s : x = (CHOOSE y \in s : TRUE)
      BY <1>1, <2>2
    <3>1. s \ {x} \in SUBSET S /\ s \ {x} \subseteq s /\ s \ {x} # s
      OBVIOUS
    <3>2. Enumerates(it[s \ {x}], s \ {x})
      BY <1>4, <3>1
    <3>3. it[s] = Append(it[s \ {x}], x)
      <4>1. it[s] = ListBody(it, s)
        BY <1>3
      <4> QED
        BY <4>1, <2>2 DEF ListBody
    <3>4. Enumerates(it[s], s)
      BY ONLY <2>0, <3>2, <3>3, x \in s, EnumeratesAppend
    <3> QED
      BY <3>4
  <2> QED
    BY <2>1, <2>2
<1>5. S \in P
  <2>1. SUBSET S \subseteq P
    <3> HIDE DEF P
    <3> QED
      BY <1>4, SubsetInduct
  <2> QED
    BY <2>1
<1> QED
  BY <1>5, ListedUnfold DEF it
-----------------------------------------------------------------------------
(* The algorithm (sort_operations): one after the other, those that are    *)
(* ready.                                                                  *)

\* Those of rest that nothing in rest holds back, and the one that is taken.
Unheld(held, rest) == {i \in rest : held[i] \cap rest = {}}
IsLightest(i, held, weight, rest) ==
  i \in Unheld(held, rest) /\ \A y \in Unheld(held, rest) : weight[i] <= weight[y]
Taken(held, weight, rest) ==
  CHOOSE x \in Unheld(held, rest) : \A y \in Unheld(held, rest) : weight[x] <= weight[y]

\* x before the members of seq.
Before(x, seq) == <<x>> \o seq

KahnBody(f, list, held, weight, rest) ==
  IF Unheld(held, rest) = {} THEN <<>>
  ELSE Before(list[Taken(held, weight, rest)], f[rest \ {Taken(held, weight, rest)}])

\* Kahn, as a recursion over the subsets of what is left.
LEMMA KahnUnfold ==
  ASSUME NEW list, NEW held, NEW weight
  PROVE  Kahn(list, held, weight) =
           (CHOOSE f : f = [rest \in SUBSET DOMAIN list |-> KahnBody(f, list, held, weight, rest)])[DOMAIN list]
BY DEF Kahn, KahnBody, Unheld, Taken, Before

\* The next one is ready, when any is.
LEMMA TakenIs ==
  ASSUME NEW D, NEW held, NEW weight, \A i \in D : weight[i] \in Nat,
         NEW rest \in SUBSET D, Unheld(held, rest) # {}
  PROVE  IsLightest(Taken(held, weight, rest), held, weight, rest)
<1> DEFINE U == Unheld(held, rest)
           W == {weight[i] : i \in U}
<1>1. U \in SUBSET D
  BY DEF Unheld
<1>2. W \in SUBSET Nat /\ W # {}
  BY <1>1
<1>3. PICK w \in W : \A v \in W : w <= v
  <2> HIDE DEF W
  <2> QED
    BY <1>2, LeastElement
<1>4. PICK x \in U : w = weight[x]
  OBVIOUS
<1>5. \A y \in U : weight[x] <= weight[y]
  BY <1>3, <1>4
<1> HIDE DEF U
<1>6. Taken(held, weight, rest) \in U /\ \A y \in U : weight[Taken(held, weight, rest)] <= weight[y]
  BY <1>5 DEF Taken, U
<1> QED
  BY <1>6 DEF IsLightest, U

\* idx takes members of rest, each once, none before what holds it back; it stops when
\* all that is left is held back by what is left; and while there is one that nothing
\* in rest holds back, nothing heavier is taken.
Follows(idx, held, rest) ==
  \A p \in DOMAIN idx : \A j \in held[idx[p]] \cap rest : \E q \in DOMAIN idx : q < p /\ idx[q] = j
Stuck(idx, held, rest) ==
  \A i \in rest \ Range(idx) : held[i] \cap (rest \ Range(idx)) # {}
Lightly(idx, held, weight, rest) ==
  \A p \in DOMAIN idx : \A x \in Unheld(held, rest) :
     (\A q \in DOMAIN idx : q < p => idx[q] # x) => weight[idx[p]] <= weight[x]

Orders(idx, held, weight, rest) ==
  /\ idx \in Seq(rest)
  /\ \A p, q \in DOMAIN idx : idx[p] = idx[q] => p = q
  /\ Follows(idx, held, rest)
  /\ Stuck(idx, held, rest)
  /\ Lightly(idx, held, weight, rest)

\* Taking one puts it before what was ordered of the rest.
LEMMA OrdersOneMore ==
  ASSUME NEW held, NEW weight, NEW rest, NEW i, IsLightest(i, held, weight, rest),
         NEW idx, Orders(idx, held, weight, rest \ {i})
  PROVE  Orders(Before(i, idx), held, weight, rest)
<1> DEFINE n   == Len(idx)
           new == Before(i, idx)
           less == rest \ {i}
<1>1. i \in rest /\ held[i] \cap rest = {} /\ i \in Unheld(held, rest)
  BY DEF IsLightest, Unheld
<1>2. /\ idx \in Seq(less) /\ idx \in Seq(rest) /\ n \in Nat /\ DOMAIN idx = 1..n
      /\ \A p \in 1..n : idx[p] \in less
  BY DEF Orders
<1>3. /\ new \in Seq(rest) /\ DOMAIN new = 1..n+1 /\ new[1] = i
      /\ \A p \in 1..n : new[p + 1] = idx[p]
  BY <1>1, <1>2 DEF Before
<1>4. \A p \in 1..n+1 : p = 1 \/ \E r \in 1..n : p = r + 1
  <2> SUFFICES ASSUME NEW p \in 1..n+1, p # 1 PROVE \E r \in 1..n : p = r + 1
    OBVIOUS
  <2>1. p - 1 \in 1..n /\ p = (p - 1) + 1
    BY <1>2
  <2> QED
    BY <2>1
<1>5. \A r \in 1..n : r + 1 \in 1..n+1 /\ 1 < r + 1
  BY <1>2
<1> HIDE DEF new, n
<1>6. Range(new) = {i} \cup Range(idx)
  <2>1. ASSUME NEW y \in Range(new) PROVE y \in {i} \cup Range(idx)
    <3>1. PICK p \in 1..n+1 : y = new[p]
      BY <1>3 DEF Range
    <3>2. CASE p = 1
      BY <1>3, <3>1, <3>2
    <3>3. CASE p # 1
      <4> PICK r \in 1..n : p = r + 1
        BY <1>4, <3>3
      <4>1. y = idx[r] /\ r \in DOMAIN idx
        BY <1>2, <1>3, <3>1
      <4> QED
        BY <4>1 DEF Range
    <3> QED
      BY <3>2, <3>3
  <2>2. i \in Range(new)
    <3>1. 1 \in 1..n+1
      BY <1>2
    <3> QED
      BY <1>3, <3>1 DEF Range
  <2>3. ASSUME NEW y \in Range(idx) PROVE y \in Range(new)
    <3>1. PICK r \in 1..n : y = idx[r]
      BY <1>2 DEF Range
    <3> QED
      BY <1>3, <1>5, <3>1 DEF Range
  <2> QED
    BY <2>1, <2>2, <2>3
<1>7. ASSUME NEW p \in 1..n+1, NEW q \in 1..n+1, new[p] = new[q]
      PROVE  p = q
  <2>1. CASE p = 1 /\ q = 1
    BY <2>1
  <2>2. CASE p = 1 /\ q # 1
    <3> PICK r \in 1..n : q = r + 1
      BY <1>4, <2>2
    <3> QED
      BY <1>2, <1>3, <1>7, <2>2
  <2>3. CASE p # 1 /\ q = 1
    <3> PICK r \in 1..n : p = r + 1
      BY <1>4, <2>3
    <3> QED
      BY <1>2, <1>3, <1>7, <2>3
  <2>4. CASE p # 1 /\ q # 1
    <3> PICK r \in 1..n : p = r + 1
      BY <1>4, <2>4
    <3> PICK t \in 1..n : q = t + 1
      BY <1>4, <2>4
    <3>1. idx[r] = idx[t]
      BY <1>3, <1>7
    <3> QED
      BY <1>2, <3>1 DEF Orders
  <2> QED
    BY <2>1, <2>2, <2>3, <2>4
<1>8. Follows(new, held, rest)
  <2> SUFFICES ASSUME NEW p \in 1..n+1, NEW j \in held[new[p]] \cap rest
               PROVE  \E q \in 1..n+1 : q < p /\ new[q] = j
    BY <1>3 DEF Follows
  <2>1. CASE p = 1
    BY <1>1, <1>3, <2>1
  <2>2. CASE p # 1
    <3> PICK r \in 1..n : p = r + 1
      BY <1>4, <2>2
    <3>1. j \in held[idx[r]]
      BY <1>3
    <3>2. CASE j = i
      <4>1. 1 \in 1..n+1 /\ 1 < p /\ new[1] = j
        BY <1>2, <1>3, <1>5, <3>2
      <4> QED
        BY <4>1
    <3>3. CASE j # i
      <4>1. PICK t \in 1..n : t < r /\ idx[t] = j
        <5>1. Follows(idx, held, less) /\ j \in held[idx[r]] \cap less
          BY <3>1, <3>3 DEF Orders
        <5> QED
          BY <1>2, <5>1 DEF Follows
      <4>2. t + 1 \in 1..n+1 /\ t + 1 < p /\ new[t + 1] = j
        BY <1>2, <1>3, <1>5, <4>1
      <4> QED
        BY <4>2
    <3> QED
      BY <3>2, <3>3
  <2> QED
    BY <2>1, <2>2
<1>9. Stuck(new, held, rest)
  <2>1. rest \ Range(new) = less \ Range(idx)
    BY <1>6
  <2>2. Stuck(idx, held, less)
    BY DEF Orders
  <2> QED
    BY <2>1, <2>2 DEF Stuck
<1>10. Lightly(new, held, weight, rest)
  <2> SUFFICES ASSUME NEW p \in 1..n+1, NEW x \in Unheld(held, rest),
                      \A q \in 1..n+1 : q < p => new[q] # x
               PROVE  weight[new[p]] <= weight[x]
    BY <1>3 DEF Lightly
  <2>1. CASE p = 1
    BY <1>3, <2>1 DEF IsLightest
  <2>2. CASE p # 1
    <3> PICK r \in 1..n : p = r + 1
      BY <1>4, <2>2
    <3>1. x # i
      <4>1. 1 \in 1..n+1 /\ 1 < p
        BY <1>2, <1>5
      <4> QED
        BY <1>3, <4>1
    <3>2. x \in Unheld(held, less)
      BY <3>1 DEF Unheld
    <3>3. \A q \in 1..n : q < r => idx[q] # x
      <4> SUFFICES ASSUME NEW q \in 1..n, q < r PROVE idx[q] # x
        OBVIOUS
      <4>1. q + 1 \in 1..n+1 /\ q + 1 < p
        BY <1>2, <1>5
      <4> QED
        BY <1>3, <4>1
    <3>4. Lightly(idx, held, weight, less)
      BY DEF Orders
    <3>5. weight[idx[r]] <= weight[x]
      BY <1>2, <3>2, <3>3, <3>4 DEF Lightly
    <3> QED
      BY <1>3, <3>5
  <2> QED
    BY <2>1, <2>2
<1>11. Orders(new, held, weight, rest)
  BY <1>3, <1>7, <1>8, <1>9, <1>10 DEF Orders
<1> QED
  BY <1>11 DEF new

\* The members of list in the order of idx.
Along(list, idx) == [p \in 1..Len(idx) |-> list[idx[p]]]

LEMMA AlongOneMore ==
  ASSUME NEW D, NEW list, NEW i \in D, NEW idx, idx \in Seq(D)
  PROVE  Before(list[i], Along(list, idx)) = Along(list, Before(i, idx))
<1> DEFINE n   == Len(idx)
           new == Before(i, idx)
           old == Along(list, idx)
           S   == {list[x] : x \in D}
<1>1. n \in Nat /\ Len(new) = n + 1 /\ new[1] = i /\ \A p \in 2..n+1 : new[p] = idx[p - 1] /\ p - 1 \in 1..n
  BY DEF Before
<1>2. old \in Seq(S) /\ Len(old) = n /\ \A p \in 1..n : old[p] = list[idx[p]]
  BY DEF Along
<1> HIDE DEF new, old
<1>3. Before(list[i], old) = [p \in 1..n+1 |-> IF p = 1 THEN list[i] ELSE old[p - 1]]
  BY <1>1, <1>2 DEF Before
<1>4. Along(list, new) = [p \in 1..n+1 |-> list[new[p]]]
  BY <1>1 DEF Along
<1>5. \A p \in 1..n+1 : list[new[p]] = IF p = 1 THEN list[i] ELSE old[p - 1]
  BY <1>1, <1>2
<1> QED
  BY <1>3, <1>4, <1>5 DEF old, new

LEMMA AlongOrdered ==
  ASSUME NEW list, NEW held, NEW weight, NEW rest, NEW i, IsLightest(i, held, weight, rest),
         NEW idx, Orders(idx, held, weight, rest \ {i})
  PROVE  Before(list[i], Along(list, idx)) = Along(list, Before(i, idx))
<1>1. i \in rest
  BY DEF IsLightest, Unheld
<1>2. idx \in Seq(rest)
  BY DEF Orders
<1> QED
  BY ONLY <1>1, <1>2, AlongOneMore

\* What is taken from s, and what remains to be done.
PickOf(list, held, weight, s, D) ==
  \E i \in D : /\ IsLightest(i, held, weight, s) /\ i \in s
              /\ \A f : KahnBody(f, list, held, weight, s) = Before(list[i], f[s \ {i}])

\* Kahn's algorithm takes every member of list that is not held back for ever, each
\* once, after what holds it back.
LEMMA KahnRight ==
  ASSUME NEW n \in Nat, NEW list, DOMAIN list = 1..n, NEW held, NEW weight,
         \A i \in 1..n : weight[i] \in Nat
  PROVE  \E idx : /\ Orders(idx, held, weight, 1..n)
                  /\ Kahn(list, held, weight) = Along(list, idx)
<1> DEFINE D   == 1..n
           V   == Seq({list[i] : i \in D})
           X   == [SUBSET D -> V]
           Phi == [f \in X |-> [s \in SUBSET D |-> KahnBody(f, list, held, weight, s)]]
           it  == CHOOSE f : f = [s \in SUBSET D |-> KahnBody(f, list, held, weight, s)]
           P   == {s \in SUBSET D : \E idx : Orders(idx, held, weight, s) /\ it[s] = Along(list, idx)}
<1>0. \A i \in D : \A b \in V : Before(list[i], b) \in V
  <2> DEFINE S == {list[i] : i \in D}
  <2>0. \A i \in D : list[i] \in S
    OBVIOUS
  <2> HIDE DEF S, D
  <2>1. \A i \in D : \A b \in Seq(S) : Before(list[i], b) \in Seq(S)
    BY <2>0 DEF Before
  <2> QED
    BY <2>1 DEF S
<1>1. ASSUME NEW s \in SUBSET D, Unheld(held, s) # {}
      PROVE  PickOf(list, held, weight, s, D)
  <2> PICK i : i = Taken(held, weight, s)
    OBVIOUS
  <2>1. IsLightest(i, held, weight, s)
    <3> HIDE DEF D
    <3>1. \A x \in D : weight[x] \in Nat
      BY DEF D
    <3> QED
      BY <1>1, <3>1, TakenIs
  <2>2. i \in D /\ i \in s
    BY <2>1 DEF IsLightest, Unheld
  <2>3. \A f : KahnBody(f, list, held, weight, s) = Before(list[i], f[s \ {i}])
    BY <1>1 DEF KahnBody
  <2> QED
    BY <2>1, <2>2, <2>3 DEF PickOf
<1>2. \E f : f = [s \in SUBSET D |-> KahnBody(f, list, held, weight, s)]
  <2>1. ASSUME NEW f \in X, NEW s \in SUBSET D
        PROVE  KahnBody(f, list, held, weight, s) \in V
    <3>1. CASE Unheld(held, s) = {}
      BY <3>1 DEF KahnBody
    <3>2. CASE Unheld(held, s) # {}
      <4> PICK i \in D : /\ i \in s
                         /\ \A g : KahnBody(g, list, held, weight, s) = Before(list[i], g[s \ {i}])
        BY <1>1, <3>2 DEF PickOf
      <4>1. f[s \ {i}] \in V
        OBVIOUS
      <4>2. Before(list[i], f[s \ {i}]) \in V
        BY <1>0, <4>1
      <4> QED
        BY <4>2
    <3> QED
      BY <3>1, <3>2
  <2>2. Phi \in [X -> X]
    BY <2>1
  <2>3. <<>> \in V
    OBVIOUS
  <2>4. ASSUME NEW f \in X, NEW g \in X, NEW s \in SUBSET D,
               \A t \in SUBSET D : t \subseteq s /\ t # s => f[t] = g[t]
        PROVE  Phi[f][s] = Phi[g][s]
    <3>1. CASE Unheld(held, s) = {}
      BY <3>1 DEF KahnBody
    <3>2. CASE Unheld(held, s) # {}
      <4> PICK i \in D : /\ i \in s
                         /\ \A h : KahnBody(h, list, held, weight, s) = Before(list[i], h[s \ {i}])
        BY <1>1, <3>2 DEF PickOf
      <4>1. f[s \ {i}] = g[s \ {i}]
        BY <2>4
      <4>2. KahnBody(f, list, held, weight, s) = KahnBody(g, list, held, weight, s)
        BY <4>1
      <4>3. Phi[f][s] = KahnBody(f, list, held, weight, s) /\ Phi[g][s] = KahnBody(g, list, held, weight, s)
        OBVIOUS
      <4> QED
        BY <4>2, <4>3, Zenon
    <3> QED
      BY <3>1, <3>2
  <2>5. FromSmaller(Phi, D, V)
    BY <2>4 DEF FromSmaller
  <2>6. OverSubsets(X, D, V)
    BY DEF OverSubsets
  <2>7. IsFiniteSet(D)
    BY FS_Interval
  <2> HIDE DEF X, V, Phi, D
  <2>8. \E f \in X : f = Phi[f]
    BY ONLY <2>2, <2>3, <2>5, <2>6, <2>7, SubsetRecursion
  <2>9. PICK f \in X : f = Phi[f]
    BY <2>8
  <2> QED
    BY <2>9 DEF Phi
<1>3. it = [s \in SUBSET D |-> KahnBody(it, list, held, weight, s)]
  BY <1>2
<1>4. Kahn(list, held, weight) = it[D]
  BY KahnUnfold
<1> HIDE DEF it
<1>5. ASSUME NEW s \in SUBSET D, \A t \in SUBSET D : t \subseteq s /\ t # s => t \in P
      PROVE  s \in P
  <2>0. it[s] = KahnBody(it, list, held, weight, s)
    BY <1>3
  <2>1. CASE Unheld(held, s) = {}
    <3>1. it[s] = <<>> /\ Along(list, <<>>) = <<>>
      BY <2>0, <2>1 DEF KahnBody, Along
    <3>2. Stuck(<<>>, held, s)
      BY <2>1 DEF Stuck, Unheld, Range
    <3>3. Orders(<<>>, held, weight, s)
      BY <3>2 DEF Orders, Follows, Lightly
    <3> QED
      BY <3>1, <3>3
  <2>2. CASE Unheld(held, s) # {}
    <3> PICK i \in D : /\ IsLightest(i, held, weight, s) /\ i \in s
                       /\ \A f : KahnBody(f, list, held, weight, s) = Before(list[i], f[s \ {i}])
      BY <1>1, <2>2 DEF PickOf
    <3>1. s \ {i} \in P
      BY <1>5
    <3> PICK idx : Orders(idx, held, weight, s \ {i}) /\ it[s \ {i}] = Along(list, idx)
      BY <3>1
    <3>2. it[s] = Before(list[i], Along(list, idx))
      BY <2>0, Zenon
    <3> HIDE DEF D, P
    <3>4. Before(list[i], Along(list, idx)) = Along(list, Before(i, idx))
      BY AlongOrdered
    <3>5. Orders(Before(i, idx), held, weight, s)
      BY OrdersOneMore
    <3>6. it[s] = Along(list, Before(i, idx))
      BY <3>2, <3>4, Zenon
    <3>7. s \in SUBSET D
      OBVIOUS
    <3> QED
      BY <3>5, <3>6, <3>7 DEF P
  <2> QED
    BY <2>1, <2>2
<1>6. D \in P
  <2>1. IsFiniteSet(D) /\ D \in SUBSET D
    BY FS_Interval
  <2> HIDE DEF P, D
  <2> QED
    BY <1>5, <2>1, SubsetInduct
<1> QED
  BY <1>4, <1>6

-----------------------------------------------------------------------------
(* What an order of a set is, given what must come before what.            *)

\* Each member of C waits for another member of C.
Circular(C, rel) == C # {} /\ \A y \in C : \E x \in C : <<x, y>> \in rel

\* order has members of S, each at most once, each after what must come before it,
\* and it has them all exactly when none of them wait for each other.
Sorts(order, S, rel) ==
  /\ order \in Seq(S)
  /\ \A p, q \in DOMAIN order : order[p] = order[q] => p = q
  /\ \A p, q \in DOMAIN order : <<order[p], order[q]>> \in rel => p < q
  /\ Range(order) = S => ~\E C \in SUBSET S : Circular(C, rel)
  /\ Range(order) # S => \E C \in SUBSET S : Circular(C, rel)

\* The same of the members themselves.
LEMMA KahnSorts ==
  ASSUME NEW S, IsFiniteSet(S), NEW list, Enumerates(list, S), NEW rel,
         NEW held, held = [i \in DOMAIN list |-> {j \in DOMAIN list : <<list[j], list[i]>> \in rel}],
         NEW weight, \A i \in DOMAIN list : weight[i] \in Nat
  PROVE  Sorts(Kahn(list, held, weight), S, rel)
<1>0. Len(list) \in Nat /\ DOMAIN list = 1..Len(list) /\ \A i \in DOMAIN list : list[i] \in S
  BY DEF Enumerates
<1> PICK n \in Nat : n = Len(list)
  BY <1>0
<1>1. n \in Nat /\ DOMAIN list = 1..n /\ \A i \in 1..n : list[i] \in S
  BY <1>0
<1>2. \A i, j \in 1..n : list[i] = list[j] => i = j
  BY <1>1 DEF Enumerates
<1>3. \A x \in S : \E i \in 1..n : list[i] = x
  BY <1>1 DEF Enumerates, Range
<1>4. PICK idx : /\ Orders(idx, held, weight, 1..n)
                 /\ Kahn(list, held, weight) = Along(list, idx)
  <2>1. \A i \in 1..n : weight[i] \in Nat
    BY <1>1
  <2> QED
    BY ONLY <1>1, <2>1, KahnRight
<1> DEFINE order == Along(list, idx)
<1> PICK m : m = Len(idx)
  OBVIOUS
<1>5. /\ idx \in Seq(1..n) /\ m \in Nat /\ DOMAIN idx = 1..m
      /\ \A p \in 1..m : idx[p] \in 1..n
  BY <1>4 DEF Orders
<1>6. /\ order \in Seq(S) /\ DOMAIN order = 1..m
      /\ \A p \in 1..m : order[p] = list[idx[p]]
  BY <1>1, <1>5 DEF Along
<1> HIDE DEF order
<1>7. \A i, j \in 1..n : j \in held[i] <=> <<list[j], list[i]>> \in rel
  BY <1>1
<1>8. ASSUME NEW p \in 1..m, NEW q \in 1..m, order[p] = order[q]
      PROVE  p = q
  <2>1. idx[p] = idx[q]
    BY <1>2, <1>5, <1>6, <1>8
  <2> QED
    BY <1>4, <1>5, <2>1 DEF Orders
<1>9. ASSUME NEW p \in 1..m, NEW q \in 1..m, <<order[p], order[q]>> \in rel
      PROVE  p < q
  <2>1. idx[p] \in held[idx[q]] \cap 1..n
    BY <1>5, <1>6, <1>7, <1>9
  <2>2. Follows(idx, held, 1..n)
    BY <1>4 DEF Orders
  <2>3. PICK r \in 1..m : r < q /\ idx[r] = idx[p]
    BY <1>5, <2>1, <2>2 DEF Follows
  <2>4. r = p
    BY <1>4, <1>5, <2>3 DEF Orders
  <2> QED
    BY <2>3, <2>4
<1>10. ASSUME NEW C \in SUBSET S, Circular(C, rel), Range(order) = S
       PROVE  FALSE
  <2> DEFINE T == {p \in 1..m : order[p] \in C}
  <2>1. T \in SUBSET Nat
    OBVIOUS
  <2>2. \A y \in C : \E p \in T : order[p] = y
    BY <1>6, <1>10 DEF Range
  <2>3. T # {}
    BY <1>10, <2>2 DEF Circular
  <2>4. PICK p \in T : \A q \in T : p <= q
    <3> HIDE DEF T
    <3> QED
      BY <2>1, <2>3, LeastElement
  <2>5. PICK x \in C : <<x, order[p]>> \in rel
    BY <1>10 DEF Circular
  <2>6. PICK q \in T : order[q] = x
    BY <2>2
  <2>7. q < p
    BY <1>9, <2>5, <2>6
  <2> QED
    BY <2>1, <2>4, <2>7
<1>11. ASSUME Range(order) # S
       PROVE  \E C \in SUBSET S : Circular(C, rel)
  <2> DEFINE L == 1..n \ Range(idx)
             C == {list[i] : i \in L}
  <2>1. Stuck(idx, held, 1..n)
    BY <1>4 DEF Orders
  <2>2. C \in SUBSET S
    BY <1>1
  <2>3. PICK x \in S : x \notin Range(order)
    <3>1. Range(order) \subseteq S
      BY <1>6 DEF Range
    <3> QED
      BY <1>11, <3>1
  <2>4. PICK i \in 1..n : list[i] = x
    BY <1>3
  <2>5. i \in L
    <3> SUFFICES ASSUME i \in Range(idx) PROVE FALSE
      OBVIOUS
    <3>1. PICK p \in 1..m : idx[p] = i
      BY <1>5 DEF Range
    <3>2. order[p] = x
      BY <1>6, <2>4, <3>1
    <3> QED
      BY <1>6, <2>3, <3>2 DEF Range
  <2>6. ASSUME NEW y \in C
        PROVE  \E z \in C : <<z, y>> \in rel
    <3>1. PICK k \in L : list[k] = y
      OBVIOUS
    <3>2. PICK j \in L : j \in held[k]
      BY <2>1 DEF Stuck
    <3>3. <<list[j], list[k]>> \in rel
      BY <1>7, <3>2
    <3> QED
      BY <3>1, <3>3
  <2>7. C # {}
    BY <2>5
  <2> HIDE DEF C
  <2> QED
    BY <2>2, <2>6, <2>7 DEF Circular
<1>12. Sorts(order, S, rel)
  BY <1>6, <1>8, <1>9, <1>10, <1>11 DEF Sorts
<1> QED
  BY <1>4, <1>12 DEF order

\* As many members as the set has are all of them.
LEMMA WholeLength ==
  ASSUME NEW S, IsFiniteSet(S), NEW order \in Seq(S),
         \A p, q \in DOMAIN order : order[p] = order[q] => p = q
  PROVE  /\ Len(order) <= Cardinality(S)
         /\ Len(order) = Cardinality(S) <=> Range(order) = S
<1> DEFINE m == Len(order)
           R == Range(order)
<1>1. m \in Nat /\ DOMAIN order = 1..m /\ R \subseteq S
  BY DEF Range
<1>2. order \in Bijection(1..m, R)
  <2>1. order \in [1..m -> R] /\ \A y \in R : \E p \in 1..m : order[p] = y
    BY <1>1 DEF Range
  <2>2. \A p, q \in 1..m : order[p] = order[q] => p = q
    BY <1>1
  <2> HIDE DEF R, m
  <2> QED
    <3>1. order \in Injection(1..m, R)
      <4>1. DOMAIN order = 1..m
        BY ONLY <2>1
      <4>2. IsInjective(order)
        BY ONLY <4>1, <2>2 DEF IsInjective
      <4> QED
        BY ONLY <2>1, <4>2, Zenon DEF Injection
    <3>2. order \in Surjection(1..m, R)
      BY ONLY <2>1, Zenon DEF Surjection
    <3> QED
      BY <3>1, <3>2, Zenon DEF Bijection
<1>3. IsFiniteSet(1..m) /\ Cardinality(1..m) = m
  BY <1>1, FS_Interval
<1>4. IsFiniteSet(R) /\ Cardinality(R) = m
  <2>1. ExistsBijection(1..m, R)
    BY <1>2 DEF ExistsBijection
  <2> HIDE DEF R
  <2> QED
    BY <1>3, <2>1, FS_Bijection
<1> HIDE DEF R, m
<1>5. Cardinality(R) <= Cardinality(S) /\ (Cardinality(R) = Cardinality(S) => R = S)
  BY <1>1, FS_Subset
<1> QED
  BY <1>4, <1>5 DEF R, m

Precedence(ops) == {p \in ops \X ops : MustPrecede(p[1], p[2])}

\* sort_operations (diff/mod.rs): whatever operations there are, the order has each at
\* most once and every one after all those that must precede it; it is complete exactly
\* when no operations wait for each other in a circle, and only then is the diff not
\* refused for a cycle.
THEOREM SortedIsRight ==
  ASSUME NEW ops, IsFiniteSet(ops), \A o \in ops : Weight(o) \in Nat
  PROVE  /\ Sorts(Sorted(ops), ops, Precedence(ops))
         /\ InOrder(ops).err = "none" <=> ~\E C \in SUBSET ops : Circular(C, Precedence(ops))
         /\ InOrder(ops).err = "none" => InOrder(ops).ops = Sorted(ops)
<1> DEFINE list   == Listed(ops)
           rel    == Precedence(ops)
           held   == [i \in DOMAIN list |-> {j \in DOMAIN list : MustPrecede(list[j], list[i])}]
           weight == [i \in DOMAIN list |-> Weight(list[i])]
<1>1. Enumerates(list, ops)
  BY ListedRight
<1>2. \A i \in DOMAIN list : list[i] \in ops
  BY <1>1 DEF Enumerates
<1>3. \A i, j \in DOMAIN list : <<list[j], list[i]>> \in rel <=> MustPrecede(list[j], list[i])
  BY <1>2 DEF Precedence
<1>4. held = [i \in DOMAIN list |-> {j \in DOMAIN list : <<list[j], list[i]>> \in rel}]
  BY <1>3
<1>5. \A i \in DOMAIN list : weight[i] \in Nat
  BY <1>2
<1>6. Sorted(ops) = Kahn(list, held, weight)
  BY DEF Sorted
<1> HIDE DEF list, rel, held, weight
<1>7. Sorts(Sorted(ops), ops, rel)
  BY <1>1, <1>4, <1>5, <1>6, KahnSorts
<1>8. Len(Sorted(ops)) = Cardinality(ops) <=> Range(Sorted(ops)) = ops
  BY <1>7, WholeLength DEF Sorts
<1>9. InOrder(ops).err = "none" <=> Range(Sorted(ops)) = ops
  BY <1>8 DEF InOrder, Complete, Refused, Found
<1>10. InOrder(ops).err = "none" => InOrder(ops).ops = Sorted(ops)
  BY DEF InOrder, Complete, Refused, Found
<1> QED
  BY <1>7, <1>9, <1>10 DEF Sorts, rel

-----------------------------------------------------------------------------
(* Step by step along a sequence.                                          *)

\* f begins with x0 and goes on with Step.
Goes(f, x0, Step, n) == f = [i \in 0..n |-> IF i = 0 THEN x0 ELSE Step[f[i - 1]][i]]

\* A sequence can be stepped along from any beginning, in one way.
LEMMA StepsExist ==
  ASSUME NEW n \in Nat, NEW X, NEW x0 \in X, NEW Step \in [X -> [1..n -> X]]
  PROVE  \E f \in [0..n -> X] : Goes(f, x0, Step, n)
<1> DEFINE D    == 0..n
           XX   == [D -> X]
           Phi  == [f \in XX |-> [i \in D |-> IF i = 0 THEN x0 ELSE Step[f[i - 1]][i]]]
           rank == [i \in D |-> i]
           f0   == [i \in D |-> x0]
<1>1. FunctionsOver(XX, D)
  BY DEF FunctionsOver
<1>2. f0 \in XX
  OBVIOUS
<1>3. Phi \in [XX -> XX]
  <2>1. ASSUME NEW f \in XX, NEW i \in D, i # 0
        PROVE  Step[f[i - 1]][i] \in X
    <3>1. i - 1 \in D /\ i \in 1..n
      BY <2>1
    <3>2. f[i - 1] \in X
      BY <3>1
    <3> QED
      BY <3>1, <3>2
  <2> QED
    BY <2>1
<1>4. rank \in [D -> 0..n]
  OBVIOUS
<1>5. Contracts(Phi, XX, D, rank)
  <2> SUFFICES ASSUME NEW f \in XX, NEW g \in XX, NEW i \in D,
                      \A e \in D : rank[e] < rank[i] => f[e] = g[e]
               PROVE  Phi[f][i] = Phi[g][i]
    BY DEF Contracts
  <2>1. CASE i = 0
    BY <2>1
  <2>2. CASE i # 0
    <3>1. i - 1 \in D /\ rank[i - 1] < rank[i]
      BY <2>2
    <3>2. f[i - 1] = g[i - 1]
      BY <3>1
    <3> QED
      BY <2>2, <3>2
  <2> QED
    BY <2>1, <2>2
<1> HIDE DEF D, XX, Phi, rank, f0
<1>6. \E f \in XX : f = Phi[f]
  BY ONLY <1>1, <1>2, <1>3, <1>4, <1>5, n \in Nat, RecursiveFunctionExists
<1> QED
  BY <1>6 DEF XX, Phi, D, Goes

SelectBody(f, seq, some, i) ==
  IF i = 0 THEN <<>> ELSE IF seq[i] \in some THEN Append(f[i - 1], seq[i]) ELSE f[i - 1]

\* SelectSeq, as steps.
LEMMA SelectUnfold ==
  ASSUME NEW seq, NEW some
  PROVE  Selected(seq, some) =
           (CHOOSE f : f = [i \in 0 .. Len(seq) |-> SelectBody(f, seq, some, i)])[Len(seq)]
BY DEF Selected, SelectBody

\* A selection has the members that pass the test, in their order.
LEMMA SelectedIs ==
  ASSUME NEW S, NEW seq \in Seq(S), NEW some
  PROVE  Selected(seq, some) \in Seq(S)
<1> DEFINE X == Seq(S)
<1> PICK n \in Nat : n = Len(seq)
  OBVIOUS
<1> DEFINE Step == [x \in X |-> [i \in 1..n |-> IF seq[i] \in some THEN Append(x, seq[i]) ELSE x]]
<1>1. \A i \in 1..n : seq[i] \in S
  OBVIOUS
<1>2. Step \in [X -> [1..n -> X]] /\ <<>> \in X
  BY <1>1
<1>3. \E f \in [0..n -> X] : Goes(f, <<>>, Step, n)
  <2> HIDE DEF X, Step
  <2> QED
    BY ONLY <1>2, n \in Nat, StepsExist
<1>4. PICK f \in [0..n -> X] : f = [i \in 0..n |-> IF i = 0 THEN <<>> ELSE Step[f[i - 1]][i]]
  BY <1>3 DEF Goes
<1>5. f = [i \in 0..n |-> SelectBody(f, seq, some, i)]
  <2>1. ASSUME NEW i \in 0..n
        PROVE  f[i] = SelectBody(f, seq, some, i)
    <3>1. CASE i = 0
      BY <1>4, <3>1 DEF SelectBody
    <3>2. CASE i # 0
      <4>1. i - 1 \in 0..n /\ i \in 1..n
        BY <3>2
      <4>2. f[i - 1] \in X
        BY <4>1
      <4> QED
        BY <1>4, <3>2, <4>1, <4>2 DEF SelectBody
    <3> QED
      BY <3>1, <3>2
  <2> QED
    BY <2>1
<1> DEFINE it == CHOOSE g : g = [i \in 0..n |-> SelectBody(g, seq, some, i)]
<1>6. it = [i \in 0..n |-> SelectBody(it, seq, some, i)]
  BY <1>5
<1>7. Selected(seq, some) = it[n]
  BY SelectUnfold
<1> HIDE DEF it
<1> DEFINE T == {k \in 0..n : it[k] \in X}
<1>8. 0 \in T
  BY <1>6 DEF SelectBody
<1>9. ASSUME NEW k \in 0..n-1, k \in T
      PROVE  k + 1 \in T
  <2>1. k + 1 \in 0..n /\ (k + 1) - 1 = k /\ k + 1 # 0 /\ seq[k + 1] \in S
    BY <1>1
  <2>2. it[k + 1] = SelectBody(it, seq, some, k + 1)
    BY <1>6, <2>1
  <2>3. it[k] \in Seq(S)
    BY <1>9
  <2>4. Append(it[k], seq[k + 1]) \in Seq(S)
    BY <2>1, <2>3
  <2>5. it[k + 1] \in Seq(S)
    BY <2>1, <2>2, <2>3, <2>4, Zenon DEF SelectBody
  <2> QED
    BY <2>1, <2>5
<1>10. 0..n \subseteq T
  <2> HIDE DEF T
  <2> QED
    BY <1>8, <1>9, UpToInduct
<1> QED
  BY <1>7, <1>10

-----------------------------------------------------------------------------
(* What schemas and operations are made of: every schema that make meets   *)
(* has finitely many entities, under keys that have names.                 *)

NamedSub(sub) ==
  IsFiniteSet(DOMAIN sub) /\ \A k \in DOMAIN sub : k \in EntityKeys /\ k.kind \in ChildKinds

IsOperation(o) ==
  o = [act |-> o.act, key |-> o.key, old |-> o.old, new |-> o.new,
       sub |-> o.sub, cast |-> o.cast, down |-> o.down]

\* An operation on an entity that has a key; what it carries is as in a schema.
OnEntity(o) ==
  /\ IsOperation(o)
  /\ o.act \in {"create", "drop", "alter", "acknowledge", "rename", "rename_value"}
  /\ o.key \in EntityKeys
  /\ NamedSub(o.sub)
  /\ o.key.kind # "table" => o.sub = NoSub
  /\ o.key.kind = "enum" => /\ o.act \in {"create", "alter"} => IsEnum(o.new)
                            /\ o.act = "drop" => IsEnum(o.old)
  /\ o.act = "acknowledge" => o.key.kind = "table"
  /\ o.act = "rename" => \/ o.key.kind = "table" /\ o.new \in DOMAIN Bare
                         \/ o.key.kind = "column" /\ o.new \in DOMAIN Rank

MadeOp(o) == o.act = "statement" \/ OnEntity(o)

LEMMA KeyIs ==
  ASSUME NEW k \in EntityKeys
  PROVE  /\ k = Key(k.kind, k.table, k.name)
         /\ k.kind \in RootKinds \cup ChildKinds \cup {"row"}
         /\ k.table \in DOMAIN Rank \cup {None} /\ k.name \in DOMAIN Rank
         /\ k.table = None <=> k.kind \in RootKinds
         /\ k.kind = "table" => k.name \in DOMAIN Bare /\ k = TableKey(k.name)
BY DEF EntityKeys, Key, TableKey, RootKinds

LEMMA KeyMade ==
  /\ \A t \in DOMAIN Bare : TableKey(t) \in EntityKeys /\ TableKey(t).kind = "table"
                            /\ TableKey(t).name = t /\ TableKey(t).table = None
  /\ \A kind \in ChildKinds \cup {"row"} : \A t, n \in DOMAIN Rank :
        Key(kind, t, n) \in EntityKeys /\ Key(kind, t, n).kind = kind
BY NamesAssumption DEF EntityKeys, Key, TableKey, RootKinds, ChildKinds

LEMMA SubNone == NamedSub(NoSub)
BY FS_EmptySet DEF NamedSub, NoSub

\* A list with some values renamed is a list.
LEMMA ReplacedList ==
  ASSUME NEW seq, seq \in Seq(Range(seq)), NEW old, NEW new
  PROVE  LET r == ReplaceFirst(seq, old, new) IN r \in Seq(Range(r))
<1> PICK n \in Nat : n = Len(seq)
  OBVIOUS
<1> PICK r : r = ReplaceFirst(seq, old, new)
  OBVIOUS
<1>1. DOMAIN r = 1..n /\ r = [i \in 1..n |-> r[i]]
  BY DEF ReplaceFirst
<1>2. \A i \in 1..n : r[i] \in Range(r)
  BY <1>1 DEF Range
<1>3. r \in Seq(Range(r))
  BY <1>1, <1>2
<1> QED
  BY <1>3

LEMMA NothingNamed == Named(EmptySchema)
BY FS_EmptySet DEF Named, EmptySchema

\* One entity more.
LEMMA PutNamed ==
  ASSUME NEW s, Named(s), NEW k \in EntityKeys, NEW d, k.kind = "enum" => IsEnum(d)
  PROVE  Named(Put(s, k, d))
<1>1. DOMAIN Put(s, k, d) = DOMAIN s \cup {k}
  BY DEF Put
<1>2. IsFiniteSet(DOMAIN Put(s, k, d))
  BY <1>1, FS_AddElement DEF Named
<1>3. \A x \in DOMAIN Put(s, k, d) : Put(s, k, d)[x] = IF x = k THEN d ELSE s[x]
  BY DEF Put
<1> QED
  BY <1>1, <1>2, <1>3 DEF Named

\* The entities of one schema over those of another.
LEMMA OverNamed ==
  ASSUME NEW s, Named(s), NEW sub, Named(sub)
  PROVE  Named(Over(s, sub))
<1>1. DOMAIN Over(s, sub) = DOMAIN s \cup DOMAIN sub
  BY DEF Over
<1>2. IsFiniteSet(DOMAIN Over(s, sub))
  BY <1>1, FS_Union DEF Named
<1>3. \A x \in DOMAIN Over(s, sub) : Over(s, sub)[x] = IF x \in DOMAIN sub THEN sub[x] ELSE s[x]
  BY DEF Over
<1> QED
  BY <1>1, <1>2, <1>3 DEF Named

LEMMA SubNamed ==
  ASSUME NEW sub, NamedSub(sub)
  PROVE  Named(sub)
BY DEF Named, NamedSub, ChildKinds

\* Fewer entities, the enums as before.
LEMMA LessNamed ==
  ASSUME NEW s, Named(s), NEW r, DOMAIN r \subseteq DOMAIN s,
         \A k \in DOMAIN r : k.kind = "enum" => r[k] = s[k]
  PROVE  Named(r)
BY FS_Subset DEF Named

\* Replay of a creation, states/replay.rs.
LEMMA CreateNamed ==
  ASSUME NEW s, Named(s), NEW op, OnEntity(op), op.act = "create"
  PROVE  Named(ResultCreate(s, op))
<1>1. CASE op.key.kind = "table"
  <2> DEFINE made == WithPrimaryKey(op.key.name, op.new, op.sub)
  <2>1. DOMAIN made.sub = DOMAIN op.sub
    BY DEF WithPrimaryKey
  <2> HIDE DEF made
  <2>2. Named(made.sub)
    <3>1. NamedSub(made.sub)
      BY <2>1 DEF OnEntity, NamedSub
    <3> QED
      BY <3>1, SubNamed
  <2>3. Named(Put(s, op.key, made.def))
    BY <1>1, PutNamed DEF OnEntity
  <2>4. Named(Over(Put(s, op.key, made.def), made.sub))
    BY <2>2, <2>3, OverNamed
  <2> QED
    BY <1>1, <2>4 DEF ResultCreate, made
<1>2. CASE op.key.kind # "table"
  <2>1. op.key.kind = "enum" => IsEnum(op.new)
    BY DEF OnEntity
  <2>2. Named(Put(s, op.key, op.new))
    BY <2>1, PutNamed DEF OnEntity
  <2> QED
    BY <1>2, <2>2 DEF ResultCreate
<1> QED
  BY <1>1, <1>2

\* Replay of a removal, with all that belongs to the entity.
LEMMA DropNamed ==
  ASSUME NEW s, Named(s), NEW op, OnEntity(op)
  PROVE  Named(ResultDrop(s, op))
<1> DEFINE r == ResultDrop(s, op)
<1>1. DOMAIN r \subseteq DOMAIN s
  BY DEF ResultDrop, Without
<1>2. ASSUME NEW k \in DOMAIN r, k.kind = "enum"
      PROVE  r[k] = s[k]
  BY <1>2 DEF ResultDrop, Without, RowsOf
<1> HIDE DEF r
<1>3. Named(r)
  BY <1>1, <1>2, LessNamed
<1> QED
  BY <1>3 DEF r

\* The image of a finite set.
LEMMA FiniteImage ==
  ASSUME NEW S, IsFiniteSet(S), NEW f, NEW T, T = {f[x] : x \in S}
  PROVE  IsFiniteSet(T)
<1> DEFINE g == [x \in S |-> f[x]]
<1>1. g \in [S -> T] /\ \A t \in T : \E x \in S : g[x] = t
  OBVIOUS
<1> HIDE DEF g
<1>2. g \in Surjection(S, T)
  BY ONLY <1>1, Zenon DEF Surjection
<1> QED
  BY <1>2, FS_Surjection

\* Replay of a table rename moves its children to the new name.
LEMMA RenamedTableNamed ==
  ASSUME NEW s, Named(s), NEW old \in DOMAIN Bare, NEW new \in DOMAIN Bare
  PROVE  Named(ResultRenameTable(s, old, new))
<1> DEFINE r == ResultRenameTable(s, old, new)
           f == [x \in DOMAIN s |-> Renamed(x, old, new)]
<1>1. DOMAIN r = {Renamed(x, old, new) : x \in DOMAIN s}
  BY DEF ResultRenameTable
<1>2. IsFiniteSet(DOMAIN r)
  <2>1. DOMAIN r = {f[x] : x \in DOMAIN s}
    BY <1>1
  <2> HIDE DEF f, r
  <2> QED
    BY <2>1, FiniteImage DEF Named
<1>3. old \in DOMAIN Rank /\ new \in DOMAIN Rank /\ old # None /\ new # None
  BY NamesAssumption
<1>4. TableKey(new) \in EntityKeys /\ TableKey(new).kind = "table"
  BY KeyMade
<1>5. ASSUME NEW x \in DOMAIN s
      PROVE  /\ Renamed(x, old, new) \in EntityKeys
             /\ x.kind = "enum" => Renamed(x, old, new) = x /\ Renamed(x, new, old) = x
             /\ Renamed(x, old, new).kind = x.kind
  <2>1. x \in EntityKeys
    BY DEF Named
  <2>2. /\ x = Key(x.kind, x.table, x.name)
        /\ x.kind \in RootKinds \cup ChildKinds \cup {"row"}
        /\ x.name \in DOMAIN Rank
        /\ x.table = None <=> x.kind \in RootKinds
    BY <2>1, KeyIs
  <2>3. CASE x = TableKey(old)
    <3>1. x.kind = "table" /\ Renamed(x, old, new) = TableKey(new)
      BY <2>3, KeyMade DEF Renamed
    <3> QED
      BY <3>1, <1>4
  <2>4. CASE x # TableKey(old) /\ x.table = old
    <3>1. Renamed(x, old, new) = Key(x.kind, new, x.name)
      BY <2>2, <2>4 DEF Renamed, Key
    <3>2. x.kind \in ChildKinds \cup {"row"}
      BY <1>3, <2>2, <2>4
    <3>3. x.kind # "enum"
      BY <3>2 DEF ChildKinds
    <3>4. Key(x.kind, new, x.name) \in EntityKeys /\ Key(x.kind, new, x.name).kind = x.kind
      BY <1>3, <2>2, <3>2, KeyMade
    <3> QED
      BY <3>1, <3>3, <3>4
  <2>5. CASE x # TableKey(old) /\ x.table # old
    <3>1. Renamed(x, old, new) = x
      BY <2>5 DEF Renamed
    <3>2. ASSUME x.kind = "enum" PROVE Renamed(x, new, old) = x
      <4>1. x # TableKey(new)
        BY <1>4, <3>2
      <4>2. x.table # new
        BY <1>3, <2>2, <3>2 DEF RootKinds
      <4> QED
        BY <4>1, <4>2 DEF Renamed
    <3> QED
      BY <2>1, <3>1, <3>2
  <2> QED
    BY <2>3, <2>4, <2>5
<1>6. DOMAIN r \subseteq EntityKeys
  BY <1>1, <1>5
<1>7. ASSUME NEW k \in DOMAIN r, k.kind = "enum"
      PROVE  IsEnum(r[k])
  <2>1. PICK x \in DOMAIN s : k = Renamed(x, old, new)
    BY <1>1
  <2>2. k = x /\ Renamed(k, new, old) = x
    BY <1>5, <1>7, <2>1
  <2>3. r[k] = FollowTable(k, s[x], old, new)
    BY <2>2 DEF ResultRenameTable
  <2>4. r[k] = s[x]
    BY <1>7, <2>3 DEF FollowTable
  <2> QED
    BY <1>7, <2>2, <2>4 DEF Named
<1> HIDE DEF r
<1>8. Named(r)
  BY <1>2, <1>6, <1>7 DEF Named
<1> QED
  BY <1>8 DEF r

LEMMA RenamedColumnNamed ==
  ASSUME NEW s, Named(s), NEW t, NEW old, NEW new, Key("column", t, new) \in EntityKeys
  PROVE  Named(ResultRenameColumn(s, t, old, new))
<1> DEFINE r == ResultRenameColumn(s, t, old, new)
           newKey == Key("column", t, new)
<1>1. DOMAIN r \subseteq DOMAIN s \cup {newKey}
  BY DEF ResultRenameColumn
<1>2. IsFiniteSet(DOMAIN s \cup {newKey})
  BY FS_AddElement DEF Named
<1>3. ASSUME NEW k \in DOMAIN r, k.kind = "enum"
      PROVE  k \in DOMAIN s /\ r[k] = s[k]
  <2>1. newKey.kind = "column"
    BY DEF Key
  <2>2. k # newKey
    BY <1>3, <2>1
  <2> QED
    BY <1>1, <1>3, <2>2 DEF ResultRenameColumn, FollowColumn
<1> HIDE DEF r
<1>4. Named(r)
  <2>1. IsFiniteSet(DOMAIN r)
    BY <1>1, <1>2, FS_Subset
  <2>2. DOMAIN r \subseteq EntityKeys
    BY <1>1 DEF Named
  <2> QED
    BY <1>3, <2>1, <2>2 DEF Named
<1> QED
  BY <1>4 DEF r

\* What changes one definition.
LEMMA ChangeNamed ==
  ASSUME NEW s, Named(s), NEW k, NEW r, DOMAIN r = DOMAIN s,
         \A x \in DOMAIN s : x # k => r[x] = s[x],
         k \in DOMAIN s /\ k.kind = "enum" => IsEnum(r[k])
  PROVE  Named(r)
BY DEF Named

\* Replay of one operation.
LEMMA ResultNamed ==
  ASSUME NEW s, Named(s), NEW op, MadeOp(op)
  PROVE  Named(Result(s, op))
<1>1. CASE op.act = "statement"
  BY <1>1 DEF Result
<1>2. CASE op.act = "create" /\ OnEntity(op)
  BY <1>2, CreateNamed DEF Result
<1>3. CASE op.act = "drop" /\ OnEntity(op)
  BY <1>3, DropNamed DEF Result
<1>4. CASE op.act = "alter" /\ OnEntity(op)
  <2> DEFINE r == [s EXCEPT ![op.key] = op.new]
  <2>1. /\ DOMAIN r = DOMAIN s
        /\ \A x \in DOMAIN s : r[x] = IF x = op.key THEN op.new ELSE s[x]
    OBVIOUS
  <2>2. op.key.kind = "enum" => IsEnum(op.new)
    BY <1>4 DEF OnEntity
  <2> HIDE DEF r
  <2>3. Named(r)
    BY <2>1, <2>2, ChangeNamed
  <2> QED
    BY <1>4, <2>3 DEF Result, r
<1>5. CASE op.act = "acknowledge" /\ OnEntity(op)
  <2> DEFINE r == [s EXCEPT ![op.key].opts = op.new]
  <2>1. /\ DOMAIN r = DOMAIN s
        /\ \A x \in DOMAIN s : x # op.key => r[x] = s[x]
    OBVIOUS
  <2>2. op.key.kind # "enum"
    BY <1>5 DEF OnEntity
  <2> HIDE DEF r
  <2>3. Named(r)
    BY <2>1, <2>2, ChangeNamed
  <2> QED
    BY <1>5, <2>3 DEF Result, r
<1>6. CASE op.act = "rename" /\ OnEntity(op)
  <2>1. CASE op.key.kind = "table"
    <3>1. op.key.name \in DOMAIN Bare /\ op.new \in DOMAIN Bare
      BY <1>6, <2>1, KeyIs DEF OnEntity
    <3> QED
      BY <1>6, <2>1, <3>1, RenamedTableNamed DEF Result
  <2>2. CASE op.key.kind = "column"
    <3>1. op.key.table \in DOMAIN Rank /\ op.new \in DOMAIN Rank
      BY <1>6, <2>2, KeyIs DEF OnEntity, RootKinds
    <3>2. Key("column", op.key.table, op.new) \in EntityKeys
      BY <3>1, KeyMade DEF ChildKinds
    <3> QED
      BY <1>6, <2>2, <3>2, RenamedColumnNamed DEF Result
  <2> QED
    BY <1>6, <2>1, <2>2 DEF OnEntity
<1>7. CASE op.act = "rename_value" /\ OnEntity(op)
  <2> DEFINE r == [s EXCEPT ![op.key].values = ReplaceFirst(@, op.old, op.new)]
  <2>1. /\ DOMAIN r = DOMAIN s
        /\ \A x \in DOMAIN s : x # op.key => r[x] = s[x]
        /\ op.key \in DOMAIN s =>
             r[op.key] = [s[op.key] EXCEPT !.values = ReplaceFirst(s[op.key].values, op.old, op.new)]
    OBVIOUS
  <2>2. ASSUME op.key \in DOMAIN s, op.key.kind = "enum"
        PROVE  IsEnum(r[op.key])
    <3> PICK d : d = s[op.key]
      OBVIOUS
    <3> PICK vals : vals = ReplaceFirst(d.values, op.old, op.new)
      OBVIOUS
    <3>1. d = [values |-> d.values] /\ d.values \in Seq(Range(d.values))
      BY <2>2 DEF Named, IsEnum
    <3>2. r[op.key] = [d EXCEPT !.values = vals]
      BY <2>1, <2>2
    <3>3. vals \in Seq(Range(vals))
      BY <3>1, ReplacedList
    <3>4. [d EXCEPT !.values = vals] = [values |-> vals]
      BY <3>1
    <3> HIDE DEF r
    <3> QED
      BY <3>2, <3>3, <3>4 DEF IsEnum
  <2> HIDE DEF r
  <2>3. Named(r)
    BY <2>1, <2>2, ChangeNamed
  <2> QED
    BY <1>7, <2>3 DEF Result, r
<1> QED
  BY <1>1, <1>2, <1>3, <1>4, <1>5, <1>6, <1>7 DEF MadeOp, OnEntity

\* Sequences of operations.
MadeOps(ops) == \E O : ops \in Seq(O) /\ \A o \in O : MadeOp(o)

\* Replay of a migration: the schema stays one that has names.
LEMMA ReplayNamed ==
  ASSUME NEW s, Named(s), NEW ops, MadeOps(ops)
  PROVE  Named(Replay(s, ops).schema)
<1> PICK O : ops \in Seq(O) /\ \A o \in O : MadeOp(o)
  BY DEF MadeOps
<1> PICK n \in Nat : n = Len(ops)
  OBVIOUS
<1>1. \A i \in 1..n : MadeOp(ops[i])
  OBVIOUS
<1>2. PICK st : ReplaySteps(st, s, ops, n) /\ Replay(s, ops) = st[n]
  BY ReplayTrace
<1> DEFINE T == {k \in 0..n : Named(st[k].schema)}
<1>3. 0 \in T
  BY <1>2 DEF ReplaySteps, Begun
<1>4. ASSUME NEW k \in 0..n-1, k \in T
      PROVE  k + 1 \in T
  <2>1. k + 1 \in 1..n /\ k + 1 \in 0..n /\ (k + 1) - 1 = k
    OBVIOUS
  <2>2. st[k + 1] = OneMore(st[k], ops[k + 1], k + 1)
    BY <1>2, <2>1 DEF ReplaySteps
  <2>3. Named(Result(st[k].schema, ops[k + 1]))
    BY <1>1, <1>4, <2>1, ResultNamed
  <2>4. st[k + 1].schema \in {st[k].schema, Result(st[k].schema, ops[k + 1])}
    <3>1. CASE ~st[k].ok
      BY <2>2, <3>1 DEF OneMore
    <3>2. CASE st[k].ok /\ ~Accepts(st[k].schema, ops[k + 1])
      BY <2>2, <3>2 DEF OneMore
    <3>3. CASE st[k].ok /\ Accepts(st[k].schema, ops[k + 1])
      BY <2>2, <3>3, BegunIs DEF OneMore
    <3> QED
      BY <3>1, <3>2, <3>3
  <2> QED
    BY <1>4, <2>1, <2>3, <2>4
<1>5. 0..n \subseteq T
  <2> HIDE DEF T
  <2> QED
    BY <1>3, <1>4, UpToInduct
<1> QED
  BY <1>2, <1>5

-----------------------------------------------------------------------------
(* What the diff finds.                                                    *)

DiffOp(o) == OnEntity(o) /\ o.act \in {"create", "drop", "alter", "acknowledge"}

\* The constructors of the diff make operations on entities.
LEMMA EntityOps ==
  ASSUME NEW k \in EntityKeys, NEW p, NEW d, k.kind = "enum" => IsEnum(d)
  PROVE  /\ DiffOp(Create(k, d)) /\ DiffOp(Drop(k, d)) /\ DiffOp(Alter(k, p, d))
         /\ \A c : DiffOp([Alter(k, p, d) EXCEPT !.cast = c])
BY SubNone DEF DiffOp, OnEntity, IsOperation, Create, Drop, Alter, Op

LEMMA SubOfNamed ==
  ASSUME NEW s, Named(s), NEW t
  PROVE  NamedSub(SubOf(s, t))
<1>1. DOMAIN SubOf(s, t) = Children(s, t) /\ Children(s, t) \subseteq DOMAIN s
  BY DEF SubOf, Children
<1>2. IsFiniteSet(DOMAIN SubOf(s, t))
  BY <1>1, FS_Subset DEF Named
<1> QED
  BY <1>1, <1>2 DEF NamedSub, Named, Children

LEMMA RootOps ==
  ASSUME NEW s, Named(s), NEW k \in DOMAIN s
  PROVE  DiffOp(CreateRoot(s, k)) /\ DiffOp(DropRoot(s, k))
<1>1. k \in EntityKeys /\ (k.kind = "enum" => IsEnum(s[k]))
  BY DEF Named
<1>2. CASE k.kind # "table"
  BY <1>1, <1>2, EntityOps DEF CreateRoot, DropRoot
<1>3. CASE k.kind = "table"
  <2> PICK sub : sub = SubOf(s, k.name)
    OBVIOUS
  <2> PICK def : def = s[k]
    OBVIOUS
  <2>1. NamedSub(sub)
    BY SubOfNamed
  <2>2. TableKey(k.name) = k
    BY <1>1, <1>3, KeyIs
  <2>3. CreateRoot(s, k) = [Create(k, def) EXCEPT !.sub = sub] /\ DropRoot(s, k) = [Drop(k, def) EXCEPT !.sub = sub]
    BY <1>3, <2>2 DEF CreateRoot, DropRoot, CreateTable, DropTable
  <2> QED
    BY <1>1, <1>3, <2>1, <2>3 DEF DiffOp, OnEntity, IsOperation, Create, Drop, Op
<1> QED
  BY <1>2, <1>3

\* What may be found of the entity k.
Appearing(cur, k)     == IF k \in DOMAIN cur THEN {Create(k, cur[k]), CreateRoot(cur, k)} ELSE {}
Disappearing(prev, k) == IF k \in DOMAIN prev THEN {Drop(k, prev[k]), DropRoot(prev, k)} ELSE {}
Changing(cur, prev, k) ==
  IF k \in DOMAIN cur /\ k \in DOMAIN prev
  THEN {Alter(k, prev[k], cur[k])}
       \cup (IF k.kind = "table" THEN {Op("acknowledge", k, prev[k].opts, cur[k].opts)} ELSE {})
  ELSE {}
ChangeOf(cur, prev, k) == Appearing(cur, k) \cup Disappearing(prev, k) \cup Changing(cur, prev, k)

LEMMA PairFinite ==
  ASSUME NEW x, NEW y
  PROVE  IsFiniteSet({x} \cup {y})
BY FS_Singleton, FS_Union

\* What one key comes to.
LEMMA ChangeOfMade ==
  ASSUME NEW cur, Named(cur), NEW prev, Named(prev), NEW k
  PROVE  IsFiniteSet(ChangeOf(cur, prev, k)) /\ \A o \in ChangeOf(cur, prev, k) : DiffOp(o)
<1>1. IsFiniteSet(Appearing(cur, k)) /\ \A o \in Appearing(cur, k) : DiffOp(o)
  <2>1. CASE k \in DOMAIN cur
    <3>1. DiffOp(Create(k, cur[k])) /\ DiffOp(CreateRoot(cur, k))
      BY <2>1, EntityOps, RootOps DEF Named
    <3>2. Appearing(cur, k) = {Create(k, cur[k])} \cup {CreateRoot(cur, k)}
      BY <2>1 DEF Appearing
    <3> QED
      BY <3>1, <3>2, PairFinite
  <2>2. CASE k \notin DOMAIN cur
    BY <2>2, FS_EmptySet DEF Appearing
  <2> QED
    BY <2>1, <2>2
<1>2. IsFiniteSet(Disappearing(prev, k)) /\ \A o \in Disappearing(prev, k) : DiffOp(o)
  <2>1. CASE k \in DOMAIN prev
    <3>1. DiffOp(Drop(k, prev[k])) /\ DiffOp(DropRoot(prev, k))
      BY <2>1, EntityOps, RootOps DEF Named
    <3>2. Disappearing(prev, k) = {Drop(k, prev[k])} \cup {DropRoot(prev, k)}
      BY <2>1 DEF Disappearing
    <3> QED
      BY <3>1, <3>2, PairFinite
  <2>2. CASE k \notin DOMAIN prev
    BY <2>2, FS_EmptySet DEF Disappearing
  <2> QED
    BY <2>1, <2>2
<1>3. IsFiniteSet(Changing(cur, prev, k)) /\ \A o \in Changing(cur, prev, k) : DiffOp(o)
  <2>1. CASE k \in DOMAIN cur /\ k \in DOMAIN prev
    <3> DEFINE alter == Alter(k, prev[k], cur[k])
               ack   == Op("acknowledge", k, prev[k].opts, cur[k].opts)
    <3>1. DiffOp(alter)
      BY <2>1, EntityOps DEF Named
    <3>2. k.kind = "table" => DiffOp(ack)
      <4>1. k \in EntityKeys
        BY <2>1 DEF Named
      <4> QED
        BY <4>1, SubNone DEF DiffOp, OnEntity, IsOperation, Op
    <3>3. Changing(cur, prev, k) = {alter} \cup (IF k.kind = "table" THEN {ack} ELSE {})
      BY <2>1 DEF Changing
    <3> HIDE DEF alter, ack
    <3>4. IsFiniteSet({alter}) /\ IsFiniteSet(IF k.kind = "table" THEN {ack} ELSE {})
      BY FS_Singleton, FS_EmptySet
    <3> QED
      BY <3>1, <3>2, <3>3, <3>4, FS_Union
  <2>2. CASE ~(k \in DOMAIN cur /\ k \in DOMAIN prev)
    BY <2>2, FS_EmptySet DEF Changing
  <2> QED
    BY <2>1, <2>2
<1>4. IsFiniteSet(ChangeOf(cur, prev, k))
  BY <1>1, <1>2, <1>3, FS_Union DEF ChangeOf
<1> QED
  BY <1>1, <1>2, <1>3, <1>4 DEF ChangeOf

\* The changes, key by key.
LEMMA ChangesFound ==
  ASSUME NEW cur, Named(cur), NEW prev, Named(prev), NEW o \in Changes(cur, prev)
  PROVE  \E k \in DOMAIN cur \cup DOMAIN prev : o \in ChangeOf(cur, prev, k)
<1> DEFINE A == {CreateRoot(cur, k) : k \in RootKeys(cur) \ RootKeys(prev)}
           B == {DropRoot(prev, k) : k \in RootKeys(prev) \ RootKeys(cur)}
           T == UNION {TableChanges(cur, prev, t) : t \in Tables(cur) \cap Tables(prev)}
<1>1. CASE o \in A
  BY <1>1 DEF RootKeys, ChangeOf, Appearing, Disappearing, Changing
<1>2. CASE o \in B
  BY <1>2 DEF RootKeys, ChangeOf, Appearing, Disappearing, Changing
<1>3. CASE o \in ModifiedRoots(cur, prev)
  <2>1. PICK k \in RootKeys(cur) \cap RootKeys(prev) : o \in Modified(k, prev[k], cur[k])
    BY <1>3 DEF ModifiedRoots
  <2> QED
    BY <2>1 DEF Modified, RootKeys, ChangeOf, Appearing, Disappearing, Changing
<1>4. CASE o \in T
  <2>1. PICK t \in Tables(cur) \cap Tables(prev) : o \in TableChanges(cur, prev, t)
    BY <1>4
  <2> DEFINE created == {Create(k, cur[k]) : k \in Children(cur, t) \ Children(prev, t)}
             dropped == {Drop(k, prev[k]) : k \in Children(prev, t) \ Children(cur, t)}
             altered == UNION {Modified(k, prev[k], cur[k]) :
                                   k \in {x \in Children(cur, t) \cap Children(prev, t) : ~SameDef(x, prev[x], cur[x])}}
             options == IF cur[TableKey(t)].opts = prev[TableKey(t)].opts THEN {}
                        ELSE {Op("acknowledge", TableKey(t), prev[TableKey(t)].opts, cur[TableKey(t)].opts)}
  <2>2. CASE o \in created
    BY <2>2 DEF Children, ChangeOf, Appearing, Disappearing, Changing
  <2>3. CASE o \in dropped
    BY <2>3 DEF Children, ChangeOf, Appearing, Disappearing, Changing
  <2>4. CASE o \in altered
    <3>1. PICK k \in Children(cur, t) \cap Children(prev, t) : o \in Modified(k, prev[k], cur[k])
      BY <2>4
    <3> QED
      BY <3>1 DEF Modified, Children, ChangeOf, Appearing, Disappearing, Changing
  <2>5. CASE o \in options
    <3>1. PICK x \in DOMAIN cur : x.kind = "table" /\ x.name = t
      BY <2>1 DEF Tables
    <3>2. PICK y \in DOMAIN prev : y.kind = "table" /\ y.name = t
      BY <2>1 DEF Tables
    <3>3. TableKey(t) = x /\ TableKey(t) = y
      BY <3>1, <3>2, KeyIs DEF Named
    <3> QED
      BY <2>5, <3>1, <3>2, <3>3 DEF ChangeOf, Changing
  <2>6. TableChanges(cur, prev, t) = created \cup dropped \cup altered \cup options
    BY DEF TableChanges
  <2> HIDE DEF created, dropped, altered, options
  <2> QED
    BY <2>1, <2>2, <2>3, <2>4, <2>5, <2>6
<1>5. CASE o \in RowChanges(cur, prev)
  BY <1>5 DEF RowChanges, ChangeOf, Appearing, Disappearing, Changing
<1>6. Changes(cur, prev) = A \cup B \cup ModifiedRoots(cur, prev) \cup T \cup RowChanges(cur, prev)
  BY DEF Changes
<1> HIDE DEF A, B, T
<1> QED
  BY <1>1, <1>2, <1>3, <1>4, <1>5, <1>6

\* Finitely many operations on entities.
DiffOps(ops) == IsFiniteSet(ops) /\ \A o \in ops : DiffOp(o)

\* There are finitely many changes, each an operation of the diff.
LEMMA ChangesMade ==
  ASSUME NEW cur, Named(cur), NEW prev, Named(prev)
  PROVE  DiffOps(Changes(cur, prev))
<1> DEFINE K == DOMAIN cur \cup DOMAIN prev
           f == [k \in K |-> ChangeOf(cur, prev, k)]
           F == {f[k] : k \in K}
<1>1. IsFiniteSet(K)
  BY FS_Union DEF Named
<1>2. IsFiniteSet(F)
  <2> HIDE DEF f, K
  <2> QED
    BY <1>1, FiniteImage
<1>3. \A S \in F : IsFiniteSet(S) /\ \A o \in S : DiffOp(o)
  BY ChangeOfMade
<1>4. Changes(cur, prev) \subseteq UNION F
  BY ChangesFound
<1> HIDE DEF F
<1>5. IsFiniteSet(UNION F)
  BY <1>2, <1>3, FS_UNION
<1> QED
  BY <1>3, <1>4, <1>5, FS_Subset DEF DiffOps

\* What the changes imply is of the same make.
LEMMA OrphansMade ==
  ASSUME NEW ops, DiffOps(ops), NEW prev, Named(prev)
  PROVE  DiffOps(WithOrphans(ops, prev))
<1> DEFINE gone == {o.old.fn : o \in {x \in ops : x.act = "drop" /\ x.key.kind = "function"}}
           K == {x \in DOMAIN prev : /\ x.kind = "trigger"
                                     /\ x.table \notin DroppedTables(ops)
                                     /\ prev[x].fn \in gone
                                     /\ ~\E o \in ops : o.act = "drop" /\ o.key = x}
           f == [k \in K |-> Drop(k, prev[k])]
           T == {f[k] : k \in K}
<1>1. OrphanTriggers(ops, prev) = T
  BY DEF OrphanTriggers
<1>2. IsFiniteSet(K) /\ K \subseteq DOMAIN prev
  BY FS_Subset DEF Named
<1>3. \A o \in T : DiffOp(o)
  <2>1. \A k \in K : k \in EntityKeys /\ k.kind # "enum"
    BY DEF Named
  <2>2. \A k \in K : DiffOp(f[k])
    BY <2>1, EntityOps
  <2> HIDE DEF f
  <2> QED
    BY <2>2
<1>4. IsFiniteSet(T)
  <2> HIDE DEF f, K
  <2> QED
    BY <1>2, FiniteImage
<1> QED
  BY <1>1, <1>3, <1>4, FS_Union DEF DiffOps, WithOrphans

LEMMA CastsMade ==
  ASSUME NEW ops, DiffOps(ops), NEW prev, Named(prev)
  PROVE  DiffOps(WithCasts(ops, prev))
<1> DEFINE K == {k \in DOMAIN prev :
                   /\ k.kind = "column"
                   /\ k.table \notin DroppedTables(ops)
                   /\ prev[k].type \in RecreatedEnums(ops)
                   /\ ~\E o \in ops : o.act \in {"drop", "alter"} /\ o.key = k}
           text(k) == [prev[k] EXCEPT !.type = "text"]
           f == [k \in K |-> [Alter(k, prev[k], text(k)) EXCEPT !.cast = "to text"]]
           g == [k \in K |-> [Alter(k, text(k), prev[k]) EXCEPT !.cast = "from text"]]
           S == {f[k] : k \in K}
           T == {g[k] : k \in K}
<1>1. EnumCasts(ops, prev) = S \cup T
  <2>1. S = {[Alter(k, prev[k], text(k)) EXCEPT !.cast = "to text"] : k \in K}
    OBVIOUS
  <2>2. T = {[Alter(k, text(k), prev[k]) EXCEPT !.cast = "from text"] : k \in K}
    OBVIOUS
  <2> QED
    BY <2>1, <2>2 DEF EnumCasts
<1>2. IsFiniteSet(K) /\ K \subseteq DOMAIN prev
  BY FS_Subset DEF Named
<1>3. \A o \in S \cup T : DiffOp(o)
  <2>1. \A k \in K : k \in EntityKeys /\ k.kind # "enum"
    BY DEF Named
  <2>2. \A k \in K : DiffOp(f[k]) /\ DiffOp(g[k])
    BY <2>1, EntityOps
  <2> HIDE DEF f, g
  <2> QED
    BY <2>2
<1>4. IsFiniteSet(S) /\ IsFiniteSet(T)
  <2> HIDE DEF f, g, K
  <2> QED
    BY <1>2, FiniteImage
<1> HIDE DEF S, T
<1> QED
  BY <1>1, <1>3, <1>4, FS_Union DEF DiffOps, WithCasts

\* A table is created with its children.
LEMMA PartsMade ==
  ASSUME NEW o, DiffOp(o)
  PROVE  DiffOps(Parts(o))
<1> DEFINE K       == {k \in DOMAIN o.sub : k.kind # "column"}
           part(k) == [k EXCEPT !.table = Bare[o.key.name]]
           f       == [k \in K |-> IF o.act = "create" THEN Create(part(k), o.sub[k]) ELSE Drop(part(k), o.sub[k])]
           T       == {f[k] : k \in K}
           rest    == Restrict(o.sub, DOMAIN o.sub \ K)
           left    == [o EXCEPT !.sub = rest]
<1>1. Parts(o) = {left} \cup T
  BY DEF Parts
<1>2. IsFiniteSet(K) /\ K \subseteq DOMAIN o.sub
  BY FS_Subset DEF DiffOp, OnEntity, NamedSub
<1>3. ASSUME NEW k \in K PROVE DiffOp(f[k])
  <2>1. k \in EntityKeys /\ k.kind \in ChildKinds
    BY DEF DiffOp, OnEntity, NamedSub
  <2>2. o.key.kind = "table"
    BY DEF DiffOp, OnEntity, NoSub
  <2>3. o.key.name \in DOMAIN Bare /\ Bare[o.key.name] \in DOMAIN Rank
    <3>1. o.key.name \in DOMAIN Bare
      BY <2>2, KeyIs DEF DiffOp, OnEntity
    <3> QED
      BY <3>1, NamesAssumption
  <2>4. k = Key(k.kind, k.table, k.name) /\ k.name \in DOMAIN Rank
    BY <2>1, KeyIs
  <2>5. part(k) = Key(k.kind, Bare[o.key.name], k.name)
    BY <2>4 DEF Key
  <2>6. part(k) \in EntityKeys /\ part(k).kind = k.kind
    BY <2>1, <2>3, <2>4, <2>5, KeyMade
  <2>7. part(k).kind # "enum"
    BY <2>1, <2>6 DEF ChildKinds
  <2> HIDE DEF part
  <2> QED
    BY <2>6, <2>7, EntityOps
<1>4. DiffOp(left)
  <2>1. NamedSub(rest)
    <3>1. DOMAIN rest \subseteq DOMAIN o.sub
      BY DEF Restrict
    <3> HIDE DEF rest
    <3> QED
      BY <3>1, FS_Subset DEF DiffOp, OnEntity, NamedSub
  <2>3. o.sub = NoSub => rest = NoSub
    BY DEF Restrict, NoSub
  <2> HIDE DEF rest
  <2>2. left = [act |-> o.act, key |-> o.key, old |-> o.old, new |-> o.new,
                sub |-> rest, cast |-> o.cast, down |-> o.down]
    BY DEF DiffOp, OnEntity, IsOperation
  <2> HIDE DEF left
  <2> QED
    BY <2>1, <2>2, <2>3 DEF DiffOp, OnEntity, IsOperation
<1>5. IsFiniteSet(T)
  <2> HIDE DEF f, K
  <2> QED
    BY <1>2, FiniteImage
<1>6. \A x \in T : DiffOp(x)
  <2> HIDE DEF f
  <2> QED
    BY <1>3
<1> HIDE DEF left, T
<1>7. IsFiniteSet({left} \cup T)
  BY <1>5, FS_Singleton, FS_Union
<1> QED
  BY <1>1, <1>4, <1>6, <1>7 DEF DiffOps

\* All that the diff has to order.
LEMMA AllChangesMade ==
  ASSUME NEW cur, Named(cur), NEW prev, Named(prev)
  PROVE  DiffOps(AllChanges(cur, prev))
<1> PICK ops : ops = WithCasts(WithOrphans(Changes(cur, prev), prev), prev)
  OBVIOUS
<1>1. DiffOps(ops)
  BY ChangesMade, OrphansMade, CastsMade
<1> DEFINE f == [o \in ops |-> Parts(o)]
           F == {f[o] : o \in ops}
<1>2. IsFiniteSet(F)
  <2> HIDE DEF f
  <2> QED
    BY <1>1, FiniteImage DEF DiffOps
<1>3. \A S \in F : DiffOps(S)
  BY <1>1, PartsMade DEF DiffOps
<1>4. AllChanges(cur, prev) = UNION F
  BY DEF AllChanges, Decomposed
<1> HIDE DEF F
<1>5. IsFiniteSet(UNION F)
  BY <1>2, <1>3, FS_UNION DEF DiffOps
<1> QED
  BY <1>3, <1>4, <1>5 DEF DiffOps

-----------------------------------------------------------------------------
(* The diff orders what it finds.                                          *)

LEMMA NameRankIs ==
  ASSUME NEW n \in DOMAIN Rank \cup {None}
  PROVE  NameRank(n) \in Nat
BY NamesAssumption DEF NameRank

LEMMA ItemPriorityIs ==
  ASSUME NEW o, DiffOp(o), o.key.kind \in ChildKinds \/ o.act = "acknowledge"
  PROVE  ItemPriority(o) \in Nat
<1>1. CASE o.act = "acknowledge" \/ (o.act = "alter" /\ o.key.kind = "column")
  BY <1>1 DEF ItemPriority
<1>2. CASE o.act # "acknowledge" /\ ~(o.act = "alter" /\ o.key.kind = "column")
  <2>1. o.key.kind \in {"column", "foreign_key", "index", "constraint", "trigger"}
    BY <1>2 DEF ChildKinds
  <2>2. CASE o.act = "drop"
    <3>1. ItemPriority(o) = [trigger |-> 0, constraint |-> 1, index |-> 2, foreign_key |-> 3, column |-> 4][o.key.kind]
      BY <1>2, <2>2 DEF ItemPriority
    <3> QED
      BY <2>1, <3>1
  <2>3. CASE o.act # "drop"
    <3>1. ItemPriority(o) = [column |-> 6, foreign_key |-> 7, index |-> 8, constraint |-> 9, trigger |-> 10][o.key.kind]
      BY <1>2, <2>3 DEF ItemPriority
    <3> QED
      BY <2>1, <3>1
  <2> QED
    BY <2>2, <2>3
<1> QED
  BY <1>1, <1>2

LEMMA ClassIs ==
  ASSUME NEW o, DiffOp(o)
  PROVE  /\ Class(o) \in Nat
         /\ Class(o) = TableItem => o.key.kind \in ChildKinds \/ o.act = "acknowledge"
<1>1. CASE o.key.kind \in ChildKinds \/ o.act = "acknowledge"
  BY <1>1 DEF Class, TableItem
<1>2. CASE ~(o.key.kind \in ChildKinds \/ o.act = "acknowledge")
  <2>1. o.key.kind \in {"table", "view", "function", "enum", "extension", "sequence", "row"}
    <3>1. o.key.kind \in RootKinds \cup ChildKinds \cup {"row"}
      BY KeyIs DEF DiffOp, OnEntity
    <3> QED
      BY <1>2, <3>1 DEF RootKinds
  <2>2. CASE IsDrop(o)
    <3>1. Class(o) = [view |-> 2, table |-> 4, row |-> 7, function |-> 10, enum |-> 12,
                      extension |-> 13, sequence |-> 13][o.key.kind]
      BY <1>2, <2>2 DEF Class
    <3> QED
      BY <2>1, <3>1 DEF TableItem
  <2>3. CASE ~IsDrop(o)
    <3>1. Class(o) = [extension |-> 0, sequence |-> 0, enum |-> 1, function |-> 5, table |-> 6,
                      view |-> 11, row |-> 9][o.key.kind]
      BY <1>2, <2>3 DEF Class
    <3> QED
      BY <2>1, <3>1 DEF TableItem
  <2> QED
    BY <2>2, <2>3
<1> QED
  BY <1>1, <1>2

\* The weight of an operation of the diff is a number.
LEMMA WeightIs ==
  ASSUME NEW o, DiffOp(o)
  PROVE  Weight(o) \in Nat
<1> DEFINE major == IF o.key.kind = "row" THEN o.key.table ELSE o.key.name
           minor == IF o.key.kind = "row" THEN o.key.name ELSE o.key.table
           within == IF Class(o) = TableItem THEN ItemPriority(o)
                     ELSE IF <<o.act, o.key.kind>> \in {<<"create", "sequence">>, <<"alter", "row">>}
                     THEN 1 ELSE 0
           last == IF o.cast = "from text" THEN 1 ELSE 0
<1>1. within \in Nat
  BY ClassIs, ItemPriorityIs
<1>2. Priority(o) = 16 * Class(o) + within
  BY DEF Priority
<1>3. NameRank(major) \in Nat /\ NameRank(minor) \in Nat
  BY KeyIs, NameRankIs DEF DiffOp, OnEntity
<1>4. last \in Nat
  OBVIOUS
<1>5. Weight(o) = 100000 * Priority(o) + 1000 * NameRank(major) + 10 * NameRank(minor) + last
  BY DEF Weight
<1> HIDE DEF within, last, major, minor
<1> QED
  BY <1>1, <1>2, <1>3, <1>4, <1>5, ClassIs

\* The places of some positions among themselves.
LEMMA Placed ==
  ASSUME NEW n \in Nat, NEW slots \in SUBSET (1..n),
         NEW place, place = [i \in slots |-> Cardinality({j \in slots : j <= i})]
  PROVE  /\ place \in Bijection(slots, 1..Cardinality(slots))
         /\ \A i, j \in slots : i < j <=> place[i] < place[j]
<1> DEFINE below(i) == {j \in slots : j <= i}
           m == Cardinality(slots)
<1>1. IsFiniteSet(slots) /\ m \in Nat
  <2>1. IsFiniteSet(1..n)
    BY FS_Interval
  <2> QED
    BY <2>1, FS_Subset, FS_CardinalityType
<1>2. ASSUME NEW i \in slots
      PROVE  IsFiniteSet(below(i)) /\ Cardinality(below(i)) \in Nat /\ Cardinality(below(i)) \in 1..m
  <2>1. below(i) \in SUBSET slots /\ below(i) # {}
    OBVIOUS
  <2> HIDE DEF below
  <2>2. IsFiniteSet(below(i)) /\ Cardinality(below(i)) <= m /\ Cardinality(below(i)) \in Nat
    BY <1>1, <2>1, FS_Subset, FS_CardinalityType
  <2>3. Cardinality(below(i)) # 0
    BY <2>1, <2>2, FS_EmptySet
  <2> QED
    BY <1>1, <2>2, <2>3
<1>3. place \in [slots -> 1..m] /\ \A i \in slots : place[i] = Cardinality(below(i))
  BY <1>2
<1>4. ASSUME NEW i \in slots, NEW j \in slots, i < j
      PROVE  place[i] < place[j]
  <2>1. below(i) \in SUBSET below(j) /\ j \in below(j) /\ j \notin below(i)
    <3>1. \A k \in slots : k \in Nat
      OBVIOUS
    <3>2. i \in Nat /\ j \in Nat
      BY <3>1
    <3>3. j <= j /\ ~(j <= i)
      BY <1>4, <3>2
    <3>4. \A k \in slots : k <= i => k <= j
      BY <1>4, <3>1, <3>2
    <3> QED
      BY <3>3, <3>4
  <2> HIDE DEF below
  <2>2. Cardinality(below(i)) <= Cardinality(below(j)) /\ Cardinality(below(i)) # Cardinality(below(j))
    BY <1>2, <2>1, FS_Subset
  <2> QED
    BY <1>2, <1>3, <2>2
<1>5. \A i, j \in slots : i \in Nat /\ place[i] \in Nat
  BY <1>3
<1>6. \A i, j \in slots : i < j <=> place[i] < place[j]
  <2> HIDE DEF below, m
  <2> TAKE i, j \in slots
  <2>1. i < j \/ i = j \/ j < i
    BY <1>5
  <2> QED
    BY <1>4, <1>5, <2>1
<1>7. \A i, j \in slots : place[i] = place[j] => i = j
  <2> HIDE DEF below, m
  <2> TAKE i, j \in slots
  <2>1. i < j \/ i = j \/ j < i
    BY <1>5
  <2> QED
    BY <1>4, <1>5, <2>1
<1>8. place \in Injection(slots, 1..m)
  <2> HIDE DEF m
  <2>1. DOMAIN place = slots
    BY ONLY <1>3
  <2> QED
    BY <1>3, <1>7, <2>1, Zenon DEF Injection, IsInjective
<1>9. IsFiniteSet(1..m) /\ Cardinality(1..m) = m
  <2> HIDE DEF m
  <2> QED
    BY <1>1, FS_Interval
<1>10. place \in Surjection(slots, 1..m)
  BY <1>1, <1>8, <1>9, FS_Injection
<1> QED
  BY <1>6, <1>8, <1>10 DEF Bijection

LEMMA TwoFound ==
  ASSUME NEW S, IsFiniteSet(S), NEW x \in S, NEW y \in S, x # y
  PROVE  Cardinality(S) >= 2
<1>1. IsFiniteSet({x}) /\ Cardinality({x}) = 1
  BY FS_Singleton
<1>2. Cardinality({x} \cup {y}) = 2
  BY <1>1, FS_AddElement
<1>3. {x} \cup {y} \in SUBSET S
  OBVIOUS
<1> QED
  BY <1>2, <1>3, FS_Subset, FS_CardinalityType

\* The rows of a group in the places the sort gave to them: no operation is lost and
\* none comes before a row of the group that must precede it.
GroupOrdered(ops, new, s, deleting) ==
  /\ DOMAIN new = DOMAIN ops /\ Range(new) = Range(ops)
  /\ \A i \in DOMAIN ops \ RowGroup(ops, deleting) : new[i] = ops[i]
  /\ RowGroup(new, deleting) = RowGroup(ops, deleting)
  /\ \A i, j \in RowGroup(new, deleting) :
       i # j /\ RowPrecedes(new[i], new[j], s, deleting) => i < j

\* A single row needs no order.
LEMMA GroupSmall ==
  ASSUME NEW S, NEW ops \in Seq(S), NEW s, NEW deleting,
         Cardinality(RowGroup(ops, deleting)) < 2
  PROVE  GroupOrdered(ops, ops, s, deleting)
<1> PICK n \in Nat : n = Len(ops)
  OBVIOUS
<1>1. RowGroup(ops, deleting) \in SUBSET (1..n)
  BY DEF RowGroup
<1>2. IsFiniteSet(RowGroup(ops, deleting))
  <2>1. IsFiniteSet(1..n)
    BY FS_Interval
  <2> QED
    BY <1>1, <2>1, FS_Subset
<1>3. \A i, j \in RowGroup(ops, deleting) : i = j
  <2> SUFFICES ASSUME NEW i \in RowGroup(ops, deleting), NEW j \in RowGroup(ops, deleting), i # j
               PROVE  FALSE
    OBVIOUS
  <2>1. Cardinality(RowGroup(ops, deleting)) >= 2
    BY <1>2, TwoFound
  <2>2. Cardinality(RowGroup(ops, deleting)) \in Nat
    BY <1>2, FS_CardinalityType
  <2> QED
    BY <2>1, <2>2
<1> QED
  BY <1>3 DEF GroupOrdered

\* Rows put in order in the places they had leave the others where they were.
LEMMA GroupReplaced ==
  ASSUME NEW S, NEW ops \in Seq(S), NEW s, NEW deleting \in BOOLEAN, NEW rel,
         NEW G, G = {ops[i] : i \in RowGroup(ops, deleting)},
         \A x, y \in G : RowPrecedes(x, y, s, deleting) => <<x, y>> \in rel,
         NEW order, Sorts(order, G, rel), Len(order) = Cardinality(RowGroup(ops, deleting)),
         NEW new, new = Replaced(ops, RowGroup(ops, deleting), order).ops
  PROVE  new \in Seq(S) /\ GroupOrdered(ops, new, s, deleting)
<1> PICK n \in Nat : n = Len(ops)
  OBVIOUS
<1> DEFINE slots == RowGroup(ops, deleting)
           place == [i \in slots |-> Cardinality({j \in slots : j <= i})]
           m == Cardinality(slots)
<1>1. slots \in SUBSET (1..n) /\ IsFiniteSet(slots) /\ m \in Nat
  <2>1. slots \in SUBSET (1..n)
    BY DEF RowGroup
  <2>2. IsFiniteSet(1..n)
    BY FS_Interval
  <2> HIDE DEF slots
  <2> QED
    BY <2>1, <2>2, FS_Subset, FS_CardinalityType
<1>2. /\ place \in Bijection(slots, 1..m)
      /\ \A i, j \in slots : i < j <=> place[i] < place[j]
  <2> HIDE DEF slots, place
  <2> QED
    BY <1>1, Placed DEF place
<1>3. new = [i \in 1..n |-> IF i \in slots THEN order[place[i]] ELSE ops[i]]
  BY DEF Replaced, Refused, Found
<1>4. order \in Seq(G) /\ DOMAIN order = 1..m
  BY DEF Sorts
<1>5. IsFiniteSet(G) /\ Cardinality(G) <= m
  <2> DEFINE f == [i \in slots |-> ops[i]]
  <2>1. f \in [slots -> G] /\ \A y \in G : \E i \in slots : f[i] = y
    OBVIOUS
  <2> HIDE DEF f, slots
  <2>2. f \in Surjection(slots, G)
    BY ONLY <2>1, Zenon DEF Surjection
  <2> QED
    BY <1>1, <2>2, FS_Surjection
<1>6. Range(order) = G
  <2>1. Len(order) <= Cardinality(G) /\ (Len(order) = Cardinality(G) => Range(order) = G)
    BY <1>5, WholeLength DEF Sorts
  <2>2. Cardinality(G) \in Nat
    BY <1>5, FS_CardinalityType
  <2> QED
    BY <1>1, <1>5, <2>1, <2>2
<1>7. /\ \A i \in slots : place[i] \in 1..m
      /\ \A p \in 1..m : \E i \in slots : place[i] = p
  <2> HIDE DEF place, slots, m
  <2> QED
    BY <1>2 DEF Bijection, Surjection, Injection
<1> HIDE DEF place
<1>8. \A i \in slots : new[i] = order[place[i]] /\ new[i] \in G
  <2> HIDE DEF slots, m
  <2> TAKE i \in slots
  <2>1. i \in 1..n /\ place[i] \in DOMAIN order
    BY <1>1, <1>4, <1>7
  <2> QED
    BY <1>3, <1>6, <2>1 DEF Range
<1>9. G \subseteq S
  BY <1>1
<1>10. new \in Seq(S)
  <2>1. \A i \in 1..n : new[i] \in S
    <3> HIDE DEF slots
    <3> TAKE i \in 1..n
    <3>1. CASE i \in slots
      BY <1>8, <1>9, <3>1
    <3>2. CASE i \notin slots
      BY <1>3, <3>2
    <3> QED
      BY <3>1, <3>2
  <2>2. DOMAIN new = 1..n /\ new = [i \in 1..n |-> new[i]]
    BY <1>3
  <2> HIDE DEF slots
  <2> QED
    BY <2>1, <2>2
<1>11. \A x \in G : x.key.kind = "row" /\ IsDrop(x) = deleting
  BY DEF RowGroup
<1>12. \A i \in 1..n \ slots : new[i] = ops[i]
  BY <1>3
<1>13. RowGroup(new, deleting) = slots
  <2>1. \A i \in 1..n : i \in slots <=> ops[i].key.kind = "row" /\ IsDrop(ops[i]) = deleting
    BY DEF RowGroup
  <2>2. \A i \in 1..n : i \in slots <=> new[i].key.kind = "row" /\ IsDrop(new[i]) = deleting
    <3> HIDE DEF slots
    <3> QED
      BY <1>8, <1>11, <1>12, <2>1
  <2>3. RowGroup(new, deleting) = {i \in 1..n : new[i].key.kind = "row" /\ IsDrop(new[i]) = deleting}
    BY <1>3 DEF RowGroup
  <2> HIDE DEF slots
  <2> QED
    BY <1>1, <2>2, <2>3
<1>14. Range(new) = Range(ops)
  <2>1. ASSUME NEW x \in Range(ops) PROVE x \in Range(new)
    <3>1. PICK i \in 1..n : x = ops[i]
      BY DEF Range
    <3>2. CASE i \notin slots
      BY <1>3, <3>1, <3>2 DEF Range
    <3>3. CASE i \in slots
      <4>1. PICK p \in 1..m : order[p] = x
        BY <1>4, <1>6, <3>1, <3>3 DEF Range
      <4>2. PICK k \in slots : place[k] = p
        BY <1>7
      <4> QED
        BY <1>1, <1>3, <1>8, <4>1, <4>2 DEF Range
    <3> QED
      BY <3>2, <3>3
  <2>2. ASSUME NEW x \in Range(new) PROVE x \in Range(ops)
    <3>1. PICK i \in 1..n : x = new[i]
      BY <1>3 DEF Range
    <3>2. x = ops[i] \/ x \in G
      BY <1>8, <1>12, <3>1
    <3>3. G \subseteq Range(ops) /\ ops[i] \in Range(ops)
      BY <1>1 DEF Range
    <3> QED
      BY <3>1, <3>2, <3>3
  <2> QED
    BY <2>1, <2>2
<1>15. ASSUME NEW i \in slots, NEW j \in slots, i # j, RowPrecedes(new[i], new[j], s, deleting)
       PROVE  i < j
  <2>1. <<order[place[i]], order[place[j]]>> \in rel
    BY <1>8, <1>15
  <2>2. place[i] < place[j]
    BY <1>4, <1>7, <2>1 DEF Sorts
  <2> QED
    BY <1>2, <2>2
<1> QED
  <2>1. DOMAIN new = DOMAIN ops
    BY <1>3
  <2> HIDE DEF slots
  <2> QED
    BY <1>10, <1>12, <1>13, <1>14, <1>15, <2>1 DEF GroupOrdered, slots

\* Ordering the rows is refused for a cycle or keeps every operation.
LEMMA RowsOrderedIs ==
  ASSUME NEW S, \A o \in S : DiffOp(o), NEW ops \in Seq(S), NEW s, NEW deleting \in BOOLEAN,
         NEW res, res = RowsOrdered(Found(ops), s, deleting)
  PROVE  \/ res = Refused("cycle")
         \/ \E new \in Seq(S) : res = Found(new) /\ GroupOrdered(ops, new, s, deleting)
<1> DEFINE slots == RowGroup(ops, deleting)
           G == {ops[i] : i \in slots}
           list == Listed(G)
           rel == {p \in G \X G : RowPrecedes(p[1], p[2], s, deleting)}
           held == [i \in DOMAIN list |-> {j \in DOMAIN list : RowPrecedes(list[j], list[i], s, deleting)}]
           weight == [i \in DOMAIN list |-> 100 * NameRank(list[i].key.table) + NameRank(list[i].key.name)]
           order == Kahn(list, held, weight)
<1>1. res = IF Cardinality(slots) < 2 THEN Found(ops) ELSE Replaced(ops, slots, order)
  BY DEF RowsOrdered, RowsInOrder, Found
<1>2. CASE Cardinality(slots) < 2
  BY <1>1, <1>2, GroupSmall
<1>3. CASE ~(Cardinality(slots) < 2) /\ Len(order) # Cardinality(slots)
  BY <1>1, <1>3 DEF Replaced
<1>4. CASE ~(Cardinality(slots) < 2) /\ Len(order) = Cardinality(slots)
  <2>1. IsFiniteSet(slots) /\ slots \subseteq DOMAIN ops
    <3> PICK n \in Nat : n = Len(ops)
      OBVIOUS
    <3>1. IsFiniteSet(1..n)
      BY FS_Interval
    <3>2. slots \in SUBSET (1..n) /\ slots \subseteq DOMAIN ops
      BY DEF RowGroup
    <3> HIDE DEF slots
    <3> QED
      BY <3>1, <3>2, FS_Subset
  <2>2. IsFiniteSet(G) /\ G \subseteq S
    <3>1. G \subseteq S
      BY <2>1
    <3> HIDE DEF slots
    <3> QED
      BY <2>1, <3>1, FiniteImage
  <2> HIDE DEF G
  <2>3. Enumerates(list, G)
    BY <2>2, ListedRight
  <2>4. \A i \in DOMAIN list : list[i] \in G
    BY <2>3 DEF Enumerates
  <2>5. held = [i \in DOMAIN list |-> {j \in DOMAIN list : <<list[j], list[i]>> \in rel}]
    BY <2>4
  <2>6. ASSUME NEW i \in DOMAIN list PROVE weight[i] \in Nat
    <3>1. list[i].key \in EntityKeys
      BY <2>2, <2>4 DEF DiffOp, OnEntity
    <3>2. NameRank(list[i].key.table) \in Nat /\ NameRank(list[i].key.name) \in Nat
      BY <3>1, KeyIs, NameRankIs
    <3>3. weight[i] = 100 * NameRank(list[i].key.table) + NameRank(list[i].key.name)
      OBVIOUS
    <3> HIDE DEF weight, list
    <3> QED
      BY <3>2, <3>3
  <2> HIDE DEF list, held, weight
  <2>7. Sorts(order, G, rel)
    BY <2>2, <2>3, <2>5, <2>6, KahnSorts
  <2>8. \A x, y \in G : RowPrecedes(x, y, s, deleting) => <<x, y>> \in rel
    OBVIOUS
  <2> HIDE DEF rel, order
  <2> PICK new : new = Replaced(ops, slots, order).ops
    OBVIOUS
  <2>9. new \in Seq(S) /\ GroupOrdered(ops, new, s, deleting)
    BY <1>4, <2>7, <2>8, GroupReplaced DEF G
  <2>10. res = Found(new)
    BY <1>1, <1>4 DEF Replaced, Found
  <2> QED
    BY <2>9, <2>10
<1> QED
  BY <1>2, <1>3, <1>4

LEMMA RefusalStays ==
  ASSUME NEW err, NEW s, NEW deleting
  PROVE  RowsOrdered(Refused(err), s, deleting) = Refused(err)
<1>1. RowGroup(<<>>, deleting) = {}
  BY DEF RowGroup
<1> QED
  BY <1>1, FS_EmptySet DEF RowsOrdered, Refused

\* The order of the diff, before children are folded into their tables.
Arranged(cur, prev) ==
  RowsOrdered(RowsOrdered(InOrder(AllChanges(cur, prev)), cur, FALSE), prev, TRUE)

\* The rows are written parents first and deleted children first, and everything else
\* comes after what must precede it.
WellOrdered(ops, cur, prev) ==
  /\ \A i, j \in DOMAIN ops : /\ ops[i].key.kind # "row" /\ ops[j].key.kind # "row"
                             /\ MustPrecede(ops[i], ops[j]) => i < j
  /\ \A i, j \in RowGroup(ops, FALSE) : i # j /\ RowPrecedes(ops[i], ops[j], cur, FALSE) => i < j
  /\ \A i, j \in RowGroup(ops, TRUE)  : i # j /\ RowPrecedes(ops[i], ops[j], prev, TRUE) => i < j

OrdersAll(cur, prev) ==
  \/ Arranged(cur, prev) = Refused("cycle")
  \/ \E ops \in Seq(AllChanges(cur, prev)) :
       /\ Arranged(cur, prev) = Found(ops) /\ Range(ops) = AllChanges(cur, prev)
       /\ WellOrdered(ops, cur, prev)

\* sort_operations and order_row_writes (diff/mod.rs, managed_rows/diff.rs): the diff of two
\* schemas orders all that has changed or is refused for a cycle.  No operation is lost; every
\* operation that is not about a row comes after those that must precede it, a row is written
\* after every row of the tables its table refers to, and deleted before them.
THEOREM DiffArranges ==
  ASSUME NEW cur, Named(cur), NEW prev, Named(prev)
  PROVE  OrdersAll(cur, prev)
<1> PICK S : S = AllChanges(cur, prev)
  OBVIOUS
<1>1. IsFiniteSet(S) /\ \A o \in S : DiffOp(o)
  BY AllChangesMade DEF DiffOps
<1>2. \A o \in S : Weight(o) \in Nat
  BY <1>1, WeightIs
<1>3. Sorts(Sorted(S), S, Precedence(S))
  BY <1>1, <1>2, SortedIsRight
<1>4. CASE InOrder(S) = Refused("cycle")
  BY <1>4, RefusalStays DEF Arranged, OrdersAll
<1>5. CASE InOrder(S) # Refused("cycle")
  <2> PICK first : first = Sorted(S)
    OBVIOUS
  <2>1. InOrder(S) = Found(first) /\ Len(first) = Cardinality(S)
    BY <1>5 DEF InOrder, Complete
  <2>2. first \in Seq(S) /\ Range(first) = S
    BY <1>1, <1>3, <2>1, WholeLength DEF Sorts
  <2> PICK second : second = RowsOrdered(Found(first), cur, FALSE)
    OBVIOUS
  <2>3. CASE second = Refused("cycle")
    BY <2>1, <2>3, RefusalStays DEF Arranged, OrdersAll
  <2>4. CASE second # Refused("cycle")
    <3>1. PICK ops2 \in Seq(S) : second = Found(ops2) /\ GroupOrdered(first, ops2, cur, FALSE)
      BY <1>1, <2>2, <2>4, RowsOrderedIs
    <3> PICK third : third = RowsOrdered(Found(ops2), prev, TRUE)
      OBVIOUS
    <3>2. Arranged(cur, prev) = third
      BY <2>1, <3>1 DEF Arranged
    <3>3. CASE third = Refused("cycle")
      BY <3>2, <3>3 DEF OrdersAll
    <3>4. CASE third # Refused("cycle")
      <4>1. PICK ops \in Seq(S) : third = Found(ops) /\ GroupOrdered(ops2, ops, prev, TRUE)
        BY <1>1, <3>1, <3>4, RowsOrderedIs
      <4>2. Range(ops) = S
        BY <2>2, <3>1, <4>1 DEF GroupOrdered
      <4>3. \A i, j \in RowGroup(ops, TRUE) : i # j /\ RowPrecedes(ops[i], ops[j], prev, TRUE) => i < j
        BY <4>1 DEF GroupOrdered
      <4>4. \A i \in DOMAIN ops : i \notin RowGroup(ops, TRUE) => ops[i] = ops2[i]
        BY <4>1 DEF GroupOrdered
      <4>5. ASSUME NEW i \in RowGroup(ops, FALSE)
            PROVE  ops[i] = ops2[i] /\ i \in RowGroup(ops2, FALSE)
        <5>1. i \in DOMAIN ops /\ i \notin RowGroup(ops, TRUE)
          BY DEF RowGroup
        <5>2. i \in DOMAIN ops2 /\ ops[i] = ops2[i]
          BY <4>1, <4>4, <5>1 DEF GroupOrdered
        <5> QED
          BY <5>2 DEF RowGroup
      <4>6. \A i, j \in RowGroup(ops2, FALSE) : i # j /\ RowPrecedes(ops2[i], ops2[j], cur, FALSE) => i < j
        BY <3>1 DEF GroupOrdered
      <4>7. \A i, j \in RowGroup(ops, FALSE) : i # j /\ RowPrecedes(ops[i], ops[j], cur, FALSE) => i < j
        BY <4>5, <4>6
      <4>8. ASSUME NEW i \in DOMAIN ops, ops[i].key.kind # "row"
            PROVE  i \in DOMAIN first /\ ops[i] = first[i]
        <5>1. i \in DOMAIN ops2 /\ ops[i] = ops2[i]
          BY <4>1, <4>4, <4>8 DEF GroupOrdered, RowGroup
        <5> QED
          BY <3>1, <4>8, <5>1 DEF GroupOrdered, RowGroup
      <4>9. ASSUME NEW i \in DOMAIN ops, NEW j \in DOMAIN ops,
                   ops[i].key.kind # "row", ops[j].key.kind # "row", MustPrecede(ops[i], ops[j])
            PROVE  i < j
        <5>1. i \in DOMAIN first /\ ops[i] = first[i] /\ j \in DOMAIN first /\ ops[j] = first[j]
          BY <4>8, <4>9
        <5>2. ops[i] \in S /\ ops[j] \in S
          BY <4>1
        <5>3. <<first[i], first[j]>> \in Precedence(S)
          BY <4>9, <5>1, <5>2 DEF Precedence
        <5> QED
          BY <1>3, <2>1, <5>1, <5>3 DEF Sorts
      <4>10. WellOrdered(ops, cur, prev)
        BY <4>3, <4>7, <4>9 DEF WellOrdered
      <4> QED
        BY <3>2, <4>1, <4>2, <4>10 DEF OrdersAll
    <3> QED
      BY <3>3, <3>4
  <2> QED
    BY <2>3, <2>4
<1> QED
  BY <1>4, <1>5

-----------------------------------------------------------------------------
(* The operations of the diff, folded and narrowed.                        *)

\* Folding children into their tables gives operations of the same make.
LEMMA FoldedMade ==
  ASSUME NEW S, \A o \in S : DiffOp(o), NEW ops \in Seq(S)
  PROVE  MadeOps(Merged(ops))
<1> DEFINE folded(t) == {o \in Range(ops) : Folds(ops, o) /\ o.key.table = t}
           sub(t)    == [k \in {o.key : o \in folded(t)} |-> (CHOOSE o \in folded(t) : o.key = k).new]
           whole(o)  == IF o.act = "create" /\ o.key.kind = "table"
                        THEN [o EXCEPT !.sub = Over(@, sub(o.key.name))] ELSE o
           some      == {o \in Range(ops) : ~Folds(ops, o)}
           kept      == Selected(ops, some)
<1>1. kept \in Seq(S)
  BY SelectedIs
<1>2. Merged(ops) = [i \in DOMAIN kept |-> whole(kept[i])]
  BY DEF Merged
<1>3. IsFiniteSet(Range(ops)) /\ Range(ops) \subseteq S
  <2> PICK n \in Nat : n = Len(ops)
    OBVIOUS
  <2>1. IsFiniteSet(1..n)
    BY FS_Interval
  <2>2. Range(ops) = {ops[i] : i \in 1..n}
    BY DEF Range
  <2>3. IsFiniteSet(Range(ops))
    BY <2>1, <2>2, FiniteImage
  <2> QED
    BY <2>2, <2>3
<1>4. ASSUME NEW t PROVE NamedSub(sub(t))
  <2> DEFINE T == folded(t)
             f == [o \in T |-> o.key]
             D == {f[o] : o \in T}
  <2>1. IsFiniteSet(T)
    BY <1>3, FS_Subset
  <2>2. IsFiniteSet(D)
    <3> HIDE DEF T, f
    <3> QED
      BY <2>1, FiniteImage
  <2>3. DOMAIN sub(t) = D
    OBVIOUS
  <2>4. \A k \in D : k \in EntityKeys /\ k.kind \in ChildKinds
    BY <1>3, MergeKindsAssumption DEF Folds, DiffOp, OnEntity
  <2> HIDE DEF sub, D
  <2> QED
    BY <2>2, <2>3, <2>4 DEF NamedSub
<1> HIDE DEF sub
<1>5. ASSUME NEW o \in S PROVE DiffOp(whole(o))
  <2>1. CASE o.act = "create" /\ o.key.kind = "table"
    <3> PICK all : all = Over(o.sub, sub(o.key.name))
      OBVIOUS
    <3>1. DOMAIN all = DOMAIN o.sub \cup DOMAIN sub(o.key.name)
      BY DEF Over
    <3>2. NamedSub(all)
      <4>1. NamedSub(o.sub) /\ NamedSub(sub(o.key.name))
        BY <1>4 DEF DiffOp, OnEntity
      <4>2. IsFiniteSet(DOMAIN all)
        BY <3>1, <4>1, FS_Union DEF NamedSub
      <4> QED
        BY <3>1, <4>1, <4>2 DEF NamedSub
    <3>3. whole(o) = [act |-> o.act, key |-> o.key, old |-> o.old, new |-> o.new,
                      sub |-> all, cast |-> o.cast, down |-> o.down]
      BY <2>1 DEF DiffOp, OnEntity, IsOperation
    <3> HIDE DEF whole
    <3> QED
      BY <2>1, <3>2, <3>3 DEF DiffOp, OnEntity, IsOperation
  <2>2. CASE ~(o.act = "create" /\ o.key.kind = "table")
    BY <2>2
  <2> QED
    BY <2>1, <2>2
<1> HIDE DEF whole, kept
<1>6. Merged(ops) \in Seq({whole(x) : x \in S})
  <2> PICK n \in Nat : n = Len(kept)
    BY <1>1
  <2>1. Merged(ops) = [i \in 1..n |-> whole(kept[i])]
    BY <1>1, <1>2
  <2>2. \A i \in 1..n : whole(kept[i]) \in {whole(x) : x \in S}
    BY <1>1
  <2> QED
    BY <2>1, <2>2
<1>7. \A o \in {whole(x) : x \in S} : MadeOp(o)
  BY <1>5 DEF MadeOp, DiffOp
<1> QED
  BY <1>6, <1>7 DEF MadeOps

\* So the diff is refused or gives operations that can be replayed.
LEMMA DiffMade ==
  ASSUME NEW cur, Named(cur), NEW prev, Named(prev)
  PROVE  /\ Diff(cur, prev).err \in {"none", "cycle", "partition", "primary key"}
         /\ Diff(cur, prev).err = "none" => MadeOps(Diff(cur, prev).ops)
<1>1. CASE \E k \in SharedTables(cur, prev) : cur[k].parent # prev[k].parent
  BY <1>1 DEF Diff, Refused
<1>2. CASE /\ ~\E k \in SharedTables(cur, prev) : cur[k].parent # prev[k].parent
           /\ \E k \in SharedTables(cur, prev) : cur[k].pk # prev[k].pk
  BY <1>2 DEF Diff, Refused
<1>3. CASE /\ ~\E k \in SharedTables(cur, prev) : cur[k].parent # prev[k].parent
           /\ ~\E k \in SharedTables(cur, prev) : cur[k].pk # prev[k].pk
  <2> PICK found : found = Arranged(cur, prev)
    OBVIOUS
  <2>1. Diff(cur, prev) = [found EXCEPT !.ops = Merged(@)]
    BY <1>3 DEF Diff, Arranged
  <2>2. CASE found = Refused("cycle")
    BY <2>1, <2>2 DEF Refused
  <2>3. CASE \E ops \in Seq(AllChanges(cur, prev)) : found = Found(ops)
    <3>1. PICK ops \in Seq(AllChanges(cur, prev)) : found = Found(ops)
      BY <2>3
    <3>2. Diff(cur, prev).err = "none" /\ Diff(cur, prev).ops = Merged(ops)
      BY <2>1, <3>1 DEF Found
    <3> QED
      BY <3>2, FoldedMade, AllChangesMade DEF DiffOps
  <2> QED
    BY <2>2, <2>3, DiffArranges DEF OrdersAll
<1> QED
  BY <1>1, <1>2, <1>3

LEMMA FilteredMade ==
  ASSUME NEW ops, MadeOps(ops), NEW roots, NEW prev
  PROVE  MadeOps(Filtered(ops, roots, prev))
BY SelectedIs DEF Filtered, MadeOps

-----------------------------------------------------------------------------
(* What is asked: finitely many questions, none about types.               *)

\* A migration has finitely many operations.
LEMMA MadeOf ==
  ASSUME NEW ops, MadeOps(ops)
  PROVE  ops \in Seq(Range(ops)) /\ IsFiniteSet(Range(ops)) /\ \A o \in Range(ops) : MadeOp(o)
<1> PICK O : ops \in Seq(O) /\ \A o \in O : MadeOp(o)
  BY DEF MadeOps
<1> PICK n \in Nat : n = Len(ops)
  OBVIOUS
<1>1. Range(ops) = {ops[i] : i \in 1..n}
  BY DEF Range
<1>2. IsFiniteSet(1..n)
  BY FS_Interval
<1>3. IsFiniteSet(Range(ops))
  BY <1>1, <1>2, FiniteImage
<1>4. ops = [i \in 1..n |-> ops[i]] /\ \A i \in 1..n : ops[i] \in Range(ops)
  BY <1>1
<1>5. ops \in Seq(Range(ops))
  BY <1>4
<1> QED
  BY <1>1, <1>3, <1>5

\* A question that is well put: an identity, which is not about a type, and choices.
Asked(q) == /\ q = [id |-> q.id, choices |-> q.choices]
            /\ q.id = [ask |-> q.id.ask, key |-> q.id.key, of |-> q.id.of]
            /\ q.id.ask # "type"

LEMMA QuestionAsked ==
  ASSUME NEW ask, ask # "type", NEW key, NEW of, NEW choices
  PROVE  Asked(Question(ask, key, of, choices))
BY DEF Asked, Question

LEMMA SomeFinite ==
  ASSUME NEW R, IsFiniteSet(R), NEW K, K \subseteq R, NEW f, NEW T, T = {f[x] : x \in K}
  PROVE  IsFiniteSet(T)
<1>1. IsFiniteSet(K)
  BY FS_Subset
<1> QED
  BY <1>1, FiniteImage

LEMMA RiskFinite ==
  ASSUME NEW ops, IsFiniteSet(Range(ops))
  PROVE  IsFiniteSet(RiskQuestions(ops)) /\ \A q \in RiskQuestions(ops) : Asked(q)
<1> DEFINE R == Range(ops)
           A == {x \in Made(ops, "column") : ~x.new.nullable /\ x.new.dflt = None /\ ~x.new.pk}
           B == {x \in Range(ops) : /\ x.act = "alter" /\ x.key.kind = "column"
                                    /\ x.old.nullable /\ ~x.new.nullable}
           C == {x \in Range(ops) : x.act = "alter" /\ x.key.kind = "column" /\ x.old.type # x.new.type}
           f == [o \in R |-> Question("add not null", o.key, None, {"default", "nullable", "manual"})]
           g == [o \in R |-> Question("set not null", o.key, None, {"default", "nullable", "manual"})]
           h == [o \in R |-> Question("cast", o.key, None, {"using", "implicit"})]
           X == {f[o] : o \in A}
           Y == {g[o] : o \in B}
           Z == {h[o] : o \in C}
<1>1. A \subseteq R /\ B \subseteq R /\ C \subseteq R
  BY DEF Made
<1>2. RiskQuestions(ops) = X \cup Y \cup Z
  <2>1. X = {Question("add not null", o.key, None, {"default", "nullable", "manual"}) : o \in A}
    BY <1>1
  <2>2. Y = {Question("set not null", o.key, None, {"default", "nullable", "manual"}) : o \in B}
    BY <1>1
  <2>3. Z = {Question("cast", o.key, None, {"using", "implicit"}) : o \in C}
    BY <1>1
  <2> HIDE DEF X, Y, Z
  <2> QED
    BY <2>1, <2>2, <2>3 DEF RiskQuestions
<1>3. \A o \in R : Asked(f[o]) /\ Asked(g[o]) /\ Asked(h[o])
  BY QuestionAsked
<1> HIDE DEF A, B, C, f, g, h
<1>4. IsFiniteSet(X) /\ IsFiniteSet(Y) /\ IsFiniteSet(Z)
  BY <1>1, SomeFinite
<1>5. \A q \in X \cup Y \cup Z : Asked(q)
  BY <1>1, <1>3
<1> HIDE DEF X, Y, Z
<1> QED
  BY <1>2, <1>4, <1>5, FS_Union

LEMMA AcceptFinite ==
  ASSUME NEW ops, IsFiniteSet(Range(ops))
  PROVE  IsFiniteSet(AcceptQuestions(ops)) /\ \A q \in AcceptQuestions(ops) : Asked(q)
<1> DEFINE R == Range(ops)
           A == {x \in Range(ops) : \/ x.act = "acknowledge"
                                    \/ x.act = "create" /\ x.key.kind = "table" /\ x.new.opts # None
                                    \/ x.act = "drop" /\ x.key.kind = "row"}
           f == [o \in R |-> Question("accept", o.key, None, {"accept"})]
           X == {f[o] : o \in A}
<1>1. A \subseteq R
  OBVIOUS
<1>2. AcceptQuestions(ops) = X
  <2>1. X = {Question("accept", o.key, None, {"accept"}) : o \in A}
    BY <1>1
  <2> HIDE DEF X
  <2> QED
    BY <2>1 DEF AcceptQuestions
<1>3. \A o \in R : Asked(f[o])
  BY QuestionAsked
<1> HIDE DEF A, f
<1>4. IsFiniteSet(X)
  BY <1>1, SomeFinite
<1>5. \A q \in X : Asked(q)
  BY <1>1, <1>3
<1> HIDE DEF X
<1> QED
  BY <1>2, <1>4, <1>5

\* The questions about the values of one enum that is dropped and created.
ValueQuestions(o, n) ==
  {Question("rename", o.key, v, ValueCandidates(o.old.values, n.new.values, v) \cup {"no"}) :
     v \in {x \in Range(o.old.values) \ Range(n.new.values) :
              ValueCandidates(o.old.values, n.new.values, x) # {}}}
EnumQuestions(ops, o) == UNION {ValueQuestions(o, n) : n \in {x \in Made(ops, "enum") : x.key = o.key}}

LEMMA ValuesFinite ==
  ASSUME NEW o, IsEnum(o.old), NEW n
  PROVE  IsFiniteSet(ValueQuestions(o, n)) /\ \A q \in ValueQuestions(o, n) : Asked(q)
<1> DEFINE values == o.old.values
           R == Range(values)
           K == {x \in R \ Range(n.new.values) : ValueCandidates(o.old.values, n.new.values, x) # {}}
           f == [v \in R |-> Question("rename", o.key, v, ValueCandidates(o.old.values, n.new.values, v) \cup {"no"})]
           X == {f[v] : v \in K}
<1>1. IsFiniteSet(R)
  <2> PICK seq : seq = values /\ seq \in Seq(Range(seq))
    BY DEF IsEnum
  <2> PICK k \in Nat : k = Len(seq)
    OBVIOUS
  <2>1. R = {seq[i] : i \in 1..k}
    BY DEF Range
  <2>2. IsFiniteSet(1..k)
    BY FS_Interval
  <2> HIDE DEF R
  <2> QED
    BY <2>1, <2>2, FiniteImage
<1>2. K \subseteq R
  OBVIOUS
<1>3. ValueQuestions(o, n) = X
  BY DEF ValueQuestions
<1>4. \A v \in R : Asked(f[v])
  BY QuestionAsked
<1> HIDE DEF R, K, f
<1>5. IsFiniteSet(X)
  BY <1>1, <1>2, SomeFinite
<1>6. \A q \in X : Asked(q)
  BY <1>2, <1>4
<1> HIDE DEF X
<1> QED
  BY <1>3, <1>5, <1>6

LEMMA RenameFinite ==
  ASSUME NEW ops, IsFiniteSet(Range(ops)), \A o \in Range(ops) : MadeOp(o)
  PROVE  IsFiniteSet(RenameQuestions(ops)) /\ \A q \in RenameQuestions(ops) : Asked(q)
<1> DEFINE R == Range(ops)
           A == {x \in Gone(ops, "column") : ColumnCandidates(ops, x) # {}}
           B == {x \in Gone(ops, "table") : TableCandidates(ops, x) # {}}
           C == Gone(ops, "enum")
           f == [o \in R |-> Question("rename", o.key, None, ColumnCandidates(ops, o) \cup {"no"})]
           g == [o \in R |-> Question("rename", TableKey(Bare[o.key.name]), None, TableCandidates(ops, o) \cup {"no"})]
           h == [o \in R |-> EnumQuestions(ops, o)]
           X == {f[o] : o \in A}
           Y == {g[o] : o \in B}
           Z == {h[o] : o \in C}
<1>1. A \subseteq R /\ B \subseteq R /\ C \subseteq R
  BY DEF Gone
<1>2. RenameQuestions(ops) = X \cup Y \cup UNION Z
  <2>1. X = {Question("rename", o.key, None, ColumnCandidates(ops, o) \cup {"no"}) : o \in A}
    BY <1>1
  <2>2. Y = {Question("rename", TableKey(Bare[o.key.name]), None, TableCandidates(ops, o) \cup {"no"}) : o \in B}
    BY <1>1
  <2>3. Z = {EnumQuestions(ops, o) : o \in C}
    BY <1>1
  <2> HIDE DEF X, Y, Z
  <2> QED
    BY <2>1, <2>2, <2>3 DEF RenameQuestions, EnumQuestions, ValueQuestions
<1>3. \A o \in R : Asked(f[o]) /\ Asked(g[o])
  BY QuestionAsked
<1>4. ASSUME NEW o \in C
      PROVE  IsFiniteSet(h[o]) /\ \A q \in h[o] : Asked(q)
  <2>1. o \in R /\ IsEnum(o.old)
    BY DEF Gone, MadeOp, OnEntity
  <2> DEFINE N == {x \in Made(ops, "enum") : x.key = o.key}
             v == [n \in R |-> ValueQuestions(o, n)]
             V == {v[n] : n \in N}
  <2>2. N \subseteq R
    BY DEF Made
  <2>3. h[o] = UNION V
    BY <2>1, <2>2 DEF EnumQuestions
  <2>4. \A n \in N : IsFiniteSet(v[n]) /\ \A q \in v[n] : Asked(q)
    BY <2>1, <2>2, ValuesFinite
  <2> HIDE DEF N, v, h
  <2>5. IsFiniteSet(V) /\ \A S \in V : IsFiniteSet(S) /\ \A q \in S : Asked(q)
    BY <2>2, <2>4, SomeFinite
  <2> HIDE DEF V
  <2>6. IsFiniteSet(UNION V)
    BY <2>5, FS_UNION
  <2> QED
    BY <2>3, <2>5, <2>6
<1> HIDE DEF A, B, C, f, g, h
<1>5. IsFiniteSet(X) /\ IsFiniteSet(Y) /\ IsFiniteSet(Z)
  BY <1>1, SomeFinite
<1>6. \A q \in X \cup Y : Asked(q)
  BY <1>1, <1>3
<1>7. \A S \in Z : IsFiniteSet(S) /\ \A q \in S : Asked(q)
  BY <1>4
<1> HIDE DEF X, Y, Z
<1>8. IsFiniteSet(UNION Z)
  BY <1>5, <1>7, FS_UNION
<1> QED
  BY <1>2, <1>5, <1>6, <1>7, <1>8, FS_Union

\* The questions of a migration, of every kind.
LEMMA QuestionsFinite ==
  ASSUME NEW ops, MadeOps(ops)
  PROVE  IsFiniteSet(Questions(ops)) /\ \A q \in Questions(ops) : Asked(q)
<1>1. IsFiniteSet(Range(ops)) /\ \A o \in Range(ops) : MadeOp(o)
  BY MadeOf
<1>2. /\ IsFiniteSet(RenameQuestions(ops)) /\ \A q \in RenameQuestions(ops) : Asked(q)
      /\ IsFiniteSet(RiskQuestions(ops)) /\ \A q \in RiskQuestions(ops) : Asked(q)
      /\ IsFiniteSet(AcceptQuestions(ops)) /\ \A q \in AcceptQuestions(ops) : Asked(q)
  BY <1>1, RenameFinite, RiskFinite, AcceptFinite
<1> QED
  BY <1>2, FS_Union DEF Questions

-----------------------------------------------------------------------------
(* What the answers leave.                                                 *)

\* The three kinds of renames that are asked.
ColumnQuestions(ops) ==
  {Question("rename", o.key, None, ColumnCandidates(ops, o) \cup {"no"}) :
     o \in {x \in Gone(ops, "column") : ColumnCandidates(ops, x) # {}}}
TableQuestions(ops) ==
  {Question("rename", TableKey(Bare[o.key.name]), None, TableCandidates(ops, o) \cup {"no"}) :
     o \in {x \in Gone(ops, "table") : TableCandidates(ops, x) # {}}}

\* A rename that was decided was asked.
LEMMA RenameAsked ==
  ASSUME NEW ops, NEW q \in Questions(ops), q.id.ask = "rename"
  PROVE  \/ q \in ColumnQuestions(ops)
         \/ q \in TableQuestions(ops)
         \/ \E o \in Gone(ops, "enum") : q \in EnumQuestions(ops, o)
<1> DEFINE A == {Question("add not null", o.key, None, {"default", "nullable", "manual"}) :
                   o \in {x \in Made(ops, "column") : ~x.new.nullable /\ x.new.dflt = None /\ ~x.new.pk}}
           B == {Question("set not null", o.key, None, {"default", "nullable", "manual"}) :
                   o \in {x \in Range(ops) : /\ x.act = "alter" /\ x.key.kind = "column"
                                             /\ x.old.nullable /\ ~x.new.nullable}}
           C == {Question("cast", o.key, None, {"using", "implicit"}) :
                   o \in {x \in Range(ops) : x.act = "alter" /\ x.key.kind = "column" /\ x.old.type # x.new.type}}
<1>1. q \notin A /\ q \notin B /\ q \notin C
  <2>1. \A ask, key, of, choices : Question(ask, key, of, choices).id.ask = ask
    BY DEF Question
  <2>2. ASSUME q \in A PROVE FALSE
    <3> DEFINE ask == "add not null"
    <3>1. PICK o : q = Question(ask, o.key, None, {"default", "nullable", "manual"})
      BY <2>2
    <3>2. ask # "rename"
      OBVIOUS
    <3> HIDE DEF ask
    <3> QED
      BY <2>1, <3>1, <3>2
  <2>3. ASSUME q \in B PROVE FALSE
    <3> DEFINE ask == "set not null"
    <3>1. PICK o : q = Question(ask, o.key, None, {"default", "nullable", "manual"})
      BY <2>3
    <3>2. ask # "rename"
      OBVIOUS
    <3> HIDE DEF ask
    <3> QED
      BY <2>1, <3>1, <3>2
  <2>4. q \notin C
    BY <2>1
  <2> QED
    BY <2>2, <2>3, <2>4
<1>2. RiskQuestions(ops) = A \cup B \cup C
  BY DEF RiskQuestions
<1>3. q \notin AcceptQuestions(ops)
  BY DEF AcceptQuestions, Question
<1> HIDE DEF A, B, C
<1>4. q \in RenameQuestions(ops)
  BY <1>1, <1>2, <1>3 DEF Questions
<1> DEFINE U == UNION {EnumQuestions(ops, o) : o \in Gone(ops, "enum")}
<1>5. RenameQuestions(ops) = ColumnQuestions(ops) \cup TableQuestions(ops) \cup U
  BY DEF RenameQuestions, ColumnQuestions, TableQuestions, EnumQuestions, ValueQuestions
<1>6. q \in U => \E o \in Gone(ops, "enum") : q \in EnumQuestions(ops, o)
  OBVIOUS
<1> HIDE DEF U
<1> QED
  BY <1>4, <1>5, <1>6

\* An answer to a question about a name is a name of the kind.
LEMMA RenamedToName ==
  ASSUME NEW ops, MadeOps(ops), NEW d, ValidDecisions(ops, d),
         NEW key, NEW of, RenamedTo(d, key, of) # None, key.kind \in {"column", "table"}
  PROVE  RenamedTo(d, key, of) \in IF key.kind = "table" THEN DOMAIN Bare ELSE DOMAIN Rank
<1> DEFINE id == [ask |-> "rename", key |-> key, of |-> of]
<1> PICK to : to = RenamedTo(d, key, of)
  OBVIOUS
<1>1. id \in DOMAIN d /\ to = d[id] /\ to # "no"
  BY DEF RenamedTo
<1>2. PICK q \in Questions(ops) : q.id = id /\ to \in q.choices
  BY <1>1 DEF ValidDecisions
<1>3. \A o \in Range(ops) : MadeOp(o)
  BY MadeOf
<1>4. CASE q \in ColumnQuestions(ops)
  <2>1. PICK o \in Gone(ops, "column") : q = Question("rename", o.key, None, ColumnCandidates(ops, o) \cup {"no"})
    BY <1>4 DEF ColumnQuestions
  <2>2. o.key = key /\ to \in ColumnCandidates(ops, o) /\ o.key.kind = "column"
    BY <1>1, <1>2, <2>1 DEF Question, Gone
  <2>3. PICK a \in Range(ops) : a.act = "create" /\ to = a.key.name
    BY <2>2 DEF ColumnCandidates, Made
  <2>4. a.key \in EntityKeys
    BY <1>3, <2>3 DEF MadeOp, OnEntity
  <2>5. to \in DOMAIN Rank
    BY <2>3, <2>4, KeyIs
  <2> QED
    BY <2>2, <2>5
<1>5. CASE q \in TableQuestions(ops)
  <2>1. PICK o \in Gone(ops, "table") :
          q = Question("rename", TableKey(Bare[o.key.name]), None, TableCandidates(ops, o) \cup {"no"})
    BY <1>5 DEF TableQuestions
  <2>2. TableKey(Bare[o.key.name]) = key /\ to \in TableCandidates(ops, o) /\ key.kind = "table"
    BY <1>1, <1>2, <2>1 DEF Question, TableKey, Key
  <2>3. PICK a \in Range(ops) : a.act = "create" /\ a.key.kind = "table" /\ to = Bare[a.key.name]
    BY <2>2 DEF TableCandidates, Made
  <2>4. a.key \in EntityKeys
    BY <1>3, <2>3 DEF MadeOp, OnEntity
  <2>5. to \in DOMAIN Bare
    BY <2>3, <2>4, KeyIs, NamesAssumption
  <2> QED
    BY <2>2, <2>5
<1>6. CASE \E o \in Gone(ops, "enum") : q \in EnumQuestions(ops, o)
  <2>1. PICK o \in Gone(ops, "enum") : q \in EnumQuestions(ops, o)
    BY <1>6
  <2>2. PICK n : q \in ValueQuestions(o, n)
    BY <2>1 DEF EnumQuestions
  <2>3. q.id.key = o.key
    BY <2>2 DEF ValueQuestions, Question
  <2> QED
    BY <1>2, <2>1, <2>3 DEF Gone
<1> QED
  BY <1>2, <1>4, <1>5, <1>6, RenameAsked

\* A value of an enum is renamed only when the enum is also created.
LEMMA RenamedValue ==
  ASSUME NEW ops, MadeOps(ops), NEW d, ValidDecisions(ops, d),
         NEW key, key.kind = "enum", NEW of, RenamedTo(d, key, of) # None
  PROVE  \E n \in Made(ops, "enum") : n.key = key
<1> DEFINE id == [ask |-> "rename", key |-> key, of |-> of]
<1>1. id \in DOMAIN d
  BY DEF RenamedTo
<1>2. PICK q \in Questions(ops) : q.id = id
  BY <1>1 DEF ValidDecisions
<1>3. CASE q \in ColumnQuestions(ops)
  BY <1>2, <1>3 DEF ColumnQuestions, Question, Gone
<1>4. CASE q \in TableQuestions(ops)
  BY <1>2, <1>4 DEF TableQuestions, Question, TableKey, Key
<1>5. CASE \E o \in Gone(ops, "enum") : q \in EnumQuestions(ops, o)
  <2>1. PICK o \in Gone(ops, "enum") : q \in EnumQuestions(ops, o)
    BY <1>5
  <2>2. PICK n \in Made(ops, "enum") : n.key = o.key /\ q \in ValueQuestions(o, n)
    BY <2>1 DEF EnumQuestions
  <2>3. q.id.key = o.key
    BY <2>2 DEF ValueQuestions, Question
  <2> QED
    BY <1>2, <2>2, <2>3
<1> QED
  BY <1>2, <1>3, <1>4, <1>5, RenameAsked

LEMMA NoneMade == MadeOps(<<>>)
<1> PICK O : O = {}
  OBVIOUS
<1>1. <<>> \in Seq(O) /\ \A o \in O : MadeOp(o)
  OBVIOUS
<1> QED
  BY <1>1 DEF MadeOps

LEMMA OneMade ==
  ASSUME NEW o, MadeOp(o)
  PROVE  MadeOps(<<o>>)
<1> PICK O : O = {o}
  OBVIOUS
<1>1. <<o>> \in Seq(O) /\ \A x \in O : MadeOp(x)
  OBVIOUS
<1> QED
  BY <1>1 DEF MadeOps

LEMMA ConcatMade ==
  ASSUME NEW a, MadeOps(a), NEW b, MadeOps(b)
  PROVE  MadeOps(a \o b)
<1> PICK A : a \in Seq(A) /\ \A o \in A : MadeOp(o)
  BY DEF MadeOps
<1> PICK B : b \in Seq(B) /\ \A o \in B : MadeOp(o)
  BY DEF MadeOps
<1>1. a \in Seq(A \cup B) /\ b \in Seq(A \cup B)
  OBVIOUS
<1>2. a \o b \in Seq(A \cup B)
  BY <1>1
<1> QED
  BY <1>2 DEF MadeOps

\* Seen from i on, an enum without its old value: one rename each.
LEMMA ValueRenamesMade ==
  ASSUME NEW op, OnEntity(op), op.key.kind = "enum", op.act = "drop", NEW d
  PROVE  MadeOps(ValueRenames(op, ValuesRenamed(d, op)))
<1> PICK values : values = op.old.values
  OBVIOUS
<1> PICK renamed : renamed = ValuesRenamed(d, op)
  OBVIOUS
<1>1. values \in Seq(Range(values))
  BY DEF OnEntity, IsEnum
<1> PICK n \in Nat : n = Len(values)
  BY <1>1
<1>2. DOMAIN renamed = 1..n
  BY <1>1 DEF ValuesRenamed
<1> DEFINE ids     == [i \in DOMAIN renamed |-> i]
           some    == {i \in DOMAIN renamed : renamed[i] # op.old.values[i]}
           changed == Selected(ids, some)
           O       == {Op("rename_value", op.key, op.old.values[i], renamed[i]) : i \in Nat}
<1>3. changed \in Seq(Nat)
  <2>1. ids \in Seq(Nat)
    BY <1>2
  <2> HIDE DEF ids, some
  <2> QED
    BY <2>1, SelectedIs
<1>4. ValueRenames(op, renamed) =
        [k \in DOMAIN changed |-> Op("rename_value", op.key, op.old.values[changed[k]], renamed[changed[k]])]
  BY DEF ValueRenames
<1> HIDE DEF changed
<1>5. ValueRenames(op, renamed) \in Seq(O)
  <2> PICK m \in Nat : m = Len(changed)
    BY <1>3
  <2>1. DOMAIN changed = 1..m /\ \A k \in 1..m : changed[k] \in Nat
    BY <1>3
  <2>2. \A k \in 1..m : Op("rename_value", op.key, op.old.values[changed[k]], renamed[changed[k]]) \in O
    BY <2>1
  <2> HIDE DEF O
  <2> QED
    BY <1>4, <2>1, <2>2
<1>6. \A o \in O : MadeOp(o)
  BY SubNone DEF MadeOp, OnEntity, IsOperation, Op
<1> QED
  BY <1>5, <1>6 DEF MadeOps

LEMMA EnumMade ==
  ASSUME NEW ops, MadeOps(ops), NEW d, ValidDecisions(ops, d), NEW op \in Range(ops),
         op.act = "drop", op.key.kind = "enum"
  PROVE  MadeOps(EnumApplied(ops, d, op))
<1> PICK renamed : renamed = ValuesRenamed(d, op)
  OBVIOUS
<1> PICK found : found = (CHOOSE n \in Made(ops, "enum") : n.key = op.key)
  OBVIOUS
<1>1. OnEntity(op) /\ \A o \in Range(ops) : MadeOp(o)
  BY MadeOf DEF MadeOp
<1>2. EnumApplied(ops, d, op) = EnumRewritten(op, renamed, found.new)
  BY DEF EnumApplied
<1>3. CASE renamed = op.old.values
  BY <1>1, <1>2, <1>3, OneMade DEF EnumRewritten, MadeOp
<1>4. CASE renamed # op.old.values
  <2>1. op.old.values \in Seq(Range(op.old.values)) /\ op.old = [values |-> op.old.values]
    BY <1>1 DEF OnEntity, IsEnum
  <2>2. \E i \in DOMAIN op.old.values : RenamedTo(d, op.key, op.old.values[i]) # None
    <3> SUFFICES ASSUME \A i \in DOMAIN op.old.values : RenamedTo(d, op.key, op.old.values[i]) = None
                 PROVE  renamed = op.old.values
      BY <1>4
    <3>1. renamed = [i \in DOMAIN op.old.values |-> op.old.values[i]]
      BY DEF ValuesRenamed
    <3> QED
      BY <2>1, <3>1
  <2>3. \E n \in Made(ops, "enum") : n.key = op.key
    BY <2>2, RenamedValue
  <2>4. found \in Made(ops, "enum") /\ found.key = op.key
    BY <2>3
  <2>5. IsEnum(found.new)
    BY <1>1, <2>4 DEF Made, MadeOp, OnEntity
  <2>6. MadeOps(ValueRenames(op, renamed))
    BY <1>1, ValueRenamesMade
  <2> DEFINE rest == Alter(op.key, [op.old EXCEPT !.values = renamed], found.new)
  <2>7. MadeOp(rest)
    BY <1>1, <2>5, SubNone DEF MadeOp, OnEntity, IsOperation, Alter, Op
  <2> HIDE DEF rest
  <2>8. MadeOps(<<rest>>) /\ MadeOps(<<>>)
    BY <2>7, OneMade, NoneMade
  <2>9. EnumRewritten(op, renamed, found.new) =
          ValueRenames(op, renamed) \o (IF renamed = found.new.values THEN <<>> ELSE <<rest>>)
    BY <1>4 DEF EnumRewritten, rest
  <2> QED
    BY <1>2, <2>6, <2>8, <2>9, ConcatMade
<1> QED
  BY <1>3, <1>4

\* An operation on anything but an enum with other definitions.
LEMMA OtherwiseMade ==
  ASSUME NEW o, OnEntity(o), o.key.kind # "enum", o.act # "rename", NEW x, NEW y
  PROVE  /\ MadeOp([o EXCEPT !.new = x]) /\ MadeOp([o EXCEPT !.old = x])
         /\ MadeOp([o EXCEPT !.new = x, !.cast = y])
<1>1. [o EXCEPT !.new = x] = [act |-> o.act, key |-> o.key, old |-> o.old, new |-> x,
                              sub |-> o.sub, cast |-> o.cast, down |-> o.down]
  BY DEF OnEntity, IsOperation
<1>2. [o EXCEPT !.old = x] = [act |-> o.act, key |-> o.key, old |-> x, new |-> o.new,
                              sub |-> o.sub, cast |-> o.cast, down |-> o.down]
  BY DEF OnEntity, IsOperation
<1>3. [o EXCEPT !.new = x, !.cast = y] = [act |-> o.act, key |-> o.key, old |-> o.old, new |-> x,
                                          sub |-> o.sub, cast |-> y, down |-> o.down]
  <2> PICK p : p = [o EXCEPT !.new = x]
    OBVIOUS
  <2>1. [p EXCEPT !.cast = y] = [act |-> o.act, key |-> o.key, old |-> o.old, new |-> x,
                                 sub |-> o.sub, cast |-> y, down |-> o.down]
    <3>1. /\ IsOperation(p) /\ p.act = o.act /\ p.key = o.key /\ p.old = o.old /\ p.new = x
          /\ p.sub = o.sub /\ p.cast = o.cast /\ p.down = o.down
      BY <1>1 DEF IsOperation
    <3>2. [p EXCEPT !.cast = y] = [act |-> p.act, key |-> p.key, old |-> p.old, new |-> p.new,
                                   sub |-> p.sub, cast |-> y, down |-> p.down]
      <4>1. p = [act |-> p.act, key |-> p.key, old |-> p.old, new |-> p.new,
                 sub |-> p.sub, cast |-> p.cast, down |-> p.down]
        BY <3>1 DEF IsOperation
      <4> QED
        BY ONLY <4>1
    <3> QED
      BY <3>1, <3>2
  <2>2. [o EXCEPT !.new = x, !.cast = y] = [p EXCEPT !.cast = y]
    OBVIOUS
  <2> QED
    BY <2>1, <2>2
<1> QED
  BY <1>1, <1>2, <1>3 DEF MadeOp, OnEntity, IsOperation

\* What becomes of one operation under the answers.
LEMMA AppliedMade ==
  ASSUME NEW ops, MadeOps(ops), NEW d, ValidDecisions(ops, d), NEW i \in DOMAIN ops
  PROVE  MadeOps(Applied(ops, d, i))
<1> PICK op : op = ops[i]
  OBVIOUS
<1> PICK bare : bare = IF op.key.kind = "table" THEN TableKey(Bare[op.key.name]) ELSE op.key
  OBVIOUS
<1> PICK to : to = RenamedTo(d, bare, None)
  OBVIOUS
<1> PICK added : added = NullableAnswer(d, "add not null", op.key, op.new)
  OBVIOUS
<1>0. op \in Range(ops) /\ MadeOp(op)
  <2>1. op \in Range(ops)
    BY DEF Range
  <2> QED
    BY <2>1, MadeOf
<1>1. CASE op.act = "drop" /\ op.key.kind \in {"column", "table"}
  <2>1. Applied(ops, d, i) = IF to = None THEN <<op>> ELSE <<Op("rename", bare, None, to)>>
    BY <1>1 DEF Applied
  <2>2. OnEntity(op)
    BY <1>0, <1>1 DEF MadeOp
  <2>3. bare \in EntityKeys /\ bare.kind = op.key.kind
    <3>1. CASE op.key.kind = "table"
      <4>1. op.key.name \in DOMAIN Bare
        BY <2>2, <3>1, KeyIs DEF OnEntity
      <4>2. Bare[op.key.name] \in DOMAIN Bare
        BY <4>1, NamesAssumption
      <4> QED
        BY <3>1, <4>2, KeyMade
    <3>2. CASE op.key.kind # "table"
      BY <2>2, <3>2 DEF OnEntity
    <3> QED
      BY <3>1, <3>2
  <2>4. to # None => to \in IF bare.kind = "table" THEN DOMAIN Bare ELSE DOMAIN Rank
    <3>1. bare.kind \in {"column", "table"}
      BY <1>1, <2>3
    <3> QED
      BY ONLY <3>1, MadeOps(ops), ValidDecisions(ops, d), to = RenamedTo(d, bare, None), RenamedToName
  <2>5. to # None => MadeOp(Op("rename", bare, None, to))
    BY <1>1, <2>3, <2>4, SubNone DEF MadeOp, OnEntity, IsOperation, Op
  <2> QED
    BY <1>0, <2>1, <2>5, OneMade
<1>2. CASE op.act = "create" /\ op.key.kind \in {"column", "table"} /\ RenameTarget(d, bare)
  <2>1. Applied(ops, d, i) = <<>>
    BY <1>2 DEF Applied
  <2> QED
    BY <2>1, NoneMade
<1>3. CASE op.act = "create" /\ op.key.kind = "column" /\ ~RenameTarget(d, bare)
  <2> PICK def : def = IF Answer(d, "add not null", op.key) = "default"
                       THEN [added EXCEPT !.dflt = "answered"] ELSE added
    OBVIOUS
  <2>1. Applied(ops, d, i) = <<[op EXCEPT !.new = def]>>
    BY <1>3 DEF Applied
  <2>2. MadeOp([op EXCEPT !.new = def])
    BY <1>0, <1>3, OtherwiseMade DEF MadeOp
  <2> QED
    BY <2>1, <2>2, OneMade
<1>4. CASE op.act = "create" /\ op.key.kind = "row" /\ RenameTarget(d, OwnerKey(op.key))
  <2>1. Applied(ops, d, i) = <<>>
    BY <1>4 DEF Applied
  <2> QED
    BY <2>1, NoneMade
<1>5. CASE op.act = "alter" /\ op.key.kind = "row"
  <2>1. Applied(ops, d, i) = RowApplied(d, op)
    BY <1>5 DEF Applied
  <2>2. \A x : MadeOp([op EXCEPT !.old = x])
    BY <1>0, <1>5, OtherwiseMade DEF MadeOp
  <2>3. RowApplied(d, op) = <<>> \/ \E x : RowApplied(d, op) = <<[op EXCEPT !.old = x]>>
    BY DEF RowApplied
  <2> QED
    BY <2>1, <2>2, <2>3, NoneMade, OneMade
<1>6. CASE op.act = "alter" /\ op.key.kind = "column"
  <2>1. Applied(ops, d, i) = ColumnApplied(d, op)
    BY <1>6 DEF Applied
  <2>2. \A x, y : MadeOp([op EXCEPT !.new = x, !.cast = y])
    BY <1>0, <1>6, OtherwiseMade DEF MadeOp
  <2>3. MadeOp(Statement("fill", None))
    BY DEF MadeOp, Statement, Op
  <2>4. \E x, y : ColumnApplied(d, op) \in {<<>> \o <<[op EXCEPT !.new = x, !.cast = y]>>,
                                           <<Statement("fill", None)>> \o <<[op EXCEPT !.new = x, !.cast = y]>>}
    BY DEF ColumnApplied
  <2>5. PICK x, y : ColumnApplied(d, op) \in {<<>> \o <<[op EXCEPT !.new = x, !.cast = y]>>,
                                             <<Statement("fill", None)>> \o <<[op EXCEPT !.new = x, !.cast = y]>>}
    BY <2>4
  <2>6. MadeOps(<<[op EXCEPT !.new = x, !.cast = y]>>)
    BY <2>2, OneMade
  <2> PICK last : last = <<[op EXCEPT !.new = x, !.cast = y]>>
    OBVIOUS
  <2>7. MadeOps(<<>> \o last) /\ MadeOps(<<Statement("fill", None)>> \o last)
    BY <2>3, <2>6, NoneMade, OneMade, ConcatMade
  <2> QED
    BY <2>1, <2>5, <2>7
<1>7. CASE op.act = "drop" /\ op.key.kind = "enum"
  <2>1. Applied(ops, d, i) = EnumApplied(ops, d, op)
    BY <1>7 DEF Applied
  <2> QED
    BY <1>0, <1>7, <2>1, EnumMade
<1> DEFINE replaced == \E j \in 1 .. i - 1 : ops[j].act = "drop" /\ ops[j].key = op.key
                                /\ ValuesRenamed(d, ops[j]) # ops[j].old.values
<1>8. CASE op.act = "create" /\ op.key.kind = "enum" /\ replaced
  <2>1. Applied(ops, d, i) = <<>>
    BY <1>8 DEF Applied
  <2> QED
    BY <2>1, NoneMade
<1>9. CASE /\ ~(op.act = "drop" /\ op.key.kind \in {"column", "table"})
           /\ ~(op.act = "create" /\ op.key.kind \in {"column", "table"} /\ RenameTarget(d, bare))
           /\ ~(op.act = "create" /\ op.key.kind = "column" /\ ~RenameTarget(d, bare))
           /\ ~(op.act = "create" /\ op.key.kind = "row" /\ RenameTarget(d, OwnerKey(op.key)))
           /\ ~(op.act = "alter" /\ op.key.kind = "row")
           /\ ~(op.act = "alter" /\ op.key.kind = "column")
           /\ ~(op.act = "drop" /\ op.key.kind = "enum")
           /\ ~(op.act = "create" /\ op.key.kind = "enum" /\ replaced)
  <2>1. Applied(ops, d, i) = <<op>>
    BY <1>9 DEF Applied
  <2> QED
    BY <1>0, <2>1, OneMade
<1> QED
  BY <1>1, <1>2, <1>3, <1>4, <1>5, <1>6, <1>7, <1>8, <1>9

\* Migrations one after the other.
LEMMA FlattenMade ==
  ASSUME NEW n \in Nat, NEW seqs, seqs = [i \in 1..n |-> seqs[i]], \A i \in 1..n : MadeOps(seqs[i])
  PROVE  MadeOps(FlattenSeq(seqs))
<1> DEFINE O == UNION {Range(seqs[i]) : i \in 1..n}
           T == Seq(O)
<1>1. \A i \in 1..n : seqs[i] \in T
  <2> TAKE i \in 1..n
  <2>1. seqs[i] \in Seq(Range(seqs[i])) /\ Range(seqs[i]) \subseteq O
    BY MadeOf
  <2> HIDE DEF O
  <2> QED
    BY <2>1
<1>2. \A o \in O : MadeOp(o)
  BY MadeOf
<1>3. Len(seqs) = n /\ DOMAIN seqs = 1..n /\ (n = 0 => seqs = <<>>)
  <2>1. seqs \in Seq({seqs[i] : i \in 1..n})
    OBVIOUS
  <2> QED
    BY <2>1
<1> HIDE DEF O
<1>4. <<>> \in T /\ \A a, b \in T : a \o b \in T
  OBVIOUS
<1>5. SequencesOver(seqs, O, n)
  BY <1>1, <1>3 DEF SequencesOver
<1> HIDE DEF T
<1>6. FlattenSeq(seqs) \in T
  BY ONLY n \in Nat, <1>1, <1>3, <1>4, <1>5, FlattenHas
<1> QED
  BY <1>2, <1>6 DEF MadeOps, T

\* Applying the answers gives operations of the same make.
LEMMA ApplyMade ==
  ASSUME NEW ops, MadeOps(ops), NEW d, ValidDecisions(ops, d)
  PROVE  MadeOps(ApplyDecisions(ops, d))
<1> DEFINE seqs == [i \in DOMAIN ops |-> Applied(ops, d, i)]
<1> PICK n \in Nat : n = Len(ops) /\ DOMAIN ops = 1..n
  BY MadeOf
<1>1. seqs = [i \in 1..n |-> seqs[i]] /\ \A i \in 1..n : MadeOps(seqs[i])
  BY AppliedMade
<1>2. ApplyDecisions(ops, d) = FlattenSeq(seqs)
  BY DEF ApplyDecisions
<1> HIDE DEF seqs
<1> QED
  BY <1>1, <1>2, FlattenMade

-----------------------------------------------------------------------------
(* Asked and answered.                                                     *)

\* d answers each of the questions, with one of its choices, and nothing else.
AnswersAll(d, questions) ==
  /\ DOMAIN d = {q.id : q \in questions}
  /\ \A id \in DOMAIN d : \E q \in questions : q.id = id /\ d[id] \in q.choices

\* An answer is taken over from before, or is one of the choices of q.
LEMMA PutAnswer ==
  ASSUME NEW d, NEW Q, AnswersAll(d, Q), NEW q, NEW choice \in q.choices
  PROVE  AnswersAll(Put(d, q.id, choice), Q \cup {q})
<1> DEFINE e == Put(d, q.id, choice)
<1>1. DOMAIN e = DOMAIN d \cup {q.id} /\ \A id \in DOMAIN e : e[id] = IF id = q.id THEN choice ELSE d[id]
  BY DEF Put
<1> HIDE DEF e
<1>2. DOMAIN e = {x.id : x \in Q \cup {q}}
  BY <1>1 DEF AnswersAll
<1>3. ASSUME NEW id \in DOMAIN e
      PROVE  \E x \in Q \cup {q} : x.id = id /\ e[id] \in x.choices
  <2>1. CASE id = q.id
    BY <1>1, <2>1
  <2>2. CASE id # q.id
    BY <1>1, <2>2 DEF AnswersAll
  <2> QED
    BY <2>1, <2>2
<1>4. AnswersAll(e, Q \cup {q})
  BY <1>2, <1>3 DEF AnswersAll
<1> QED
  BY <1>4 DEF e

UptoBody(f, list, n) ==
  IF n = 0 THEN {NoDecisions}
  ELSE {Put(d, list[n].id, choice) : d \in f[n - 1], choice \in list[n].choices}

LEMMA AnswersUnfold ==
  ASSUME NEW questions
  PROVE  Answers(questions) =
           (CHOOSE f : f = [n \in 0 .. Len(Listed(questions)) |-> UptoBody(f, Listed(questions), n)])
             [Len(Listed(questions))]
BY DEF Answers, UptoBody

\* What answers k questions, over those of all of them.
LEMMA AnswersRight ==
  ASSUME NEW questions, IsFiniteSet(questions), NEW answers \in Answers(questions)
  PROVE  AnswersAll(answers, questions)
<1> PICK list : list = Listed(questions)
  OBVIOUS
<1> PICK n : n = Len(list)
  OBVIOUS
<1>1. Enumerates(list, questions)
  BY ListedRight
<1>2. n \in Nat /\ list \in Seq(questions) /\ DOMAIN list = 1..n /\ Range(list) = questions
  BY <1>1 DEF Enumerates
<1> DEFINE Ids == {list[i].id : i \in 1..n}
           Chosen == UNION {list[i].choices : i \in 1..n}
           All == UNION {[D -> Chosen] : D \in SUBSET Ids}
           V == SUBSET All
           Step == [S \in V |-> [i \in 1..n |-> {Put(d, list[i].id, choice) : d \in S, choice \in list[i].choices}]]
<1>3. ASSUME NEW i \in 1..n, NEW d \in All, NEW choice \in list[i].choices
      PROVE  Put(d, list[i].id, choice) \in All
  <2> PICK D \in SUBSET Ids : d \in [D -> Chosen]
    OBVIOUS
  <2>1. D \cup {list[i].id} \in SUBSET Ids /\ choice \in Chosen
    OBVIOUS
  <2> HIDE DEF Ids, Chosen
  <2>2. Put(d, list[i].id, choice) \in [D \cup {list[i].id} -> Chosen]
    BY <2>1 DEF Put
  <2> QED
    BY <2>1, <2>2
<1>4. Step \in [V -> [1..n -> V]]
  <2>1. ASSUME NEW S \in V, NEW i \in 1..n
        PROVE  {Put(d, list[i].id, choice) : d \in S, choice \in list[i].choices} \in V
    <3> HIDE DEF All
    <3> QED
      BY <1>3
  <2> HIDE DEF V
  <2> QED
    BY <2>1
<1>5. {NoDecisions} \in V
  <2>1. NoDecisions \in [{} -> Chosen]
    BY DEF NoDecisions
  <2>2. {} \in SUBSET Ids
    OBVIOUS
  <2> HIDE DEF Ids, Chosen
  <2>3. NoDecisions \in All
    BY <2>1, <2>2
  <2> HIDE DEF All
  <2> QED
    BY <2>3
<1>6. \E f \in [0..n -> V] : Goes(f, {NoDecisions}, Step, n)
  <2> HIDE DEF V, Step
  <2> QED
    BY ONLY <1>2, <1>4, <1>5, StepsExist
<1>7. PICK f \in [0..n -> V] : f = [i \in 0..n |-> IF i = 0 THEN {NoDecisions} ELSE Step[f[i - 1]][i]]
  <2> HIDE DEF V, Step
  <2> QED
    BY <1>6 DEF Goes
<1>8. f = [i \in 0..n |-> UptoBody(f, list, i)]
  <2>1. ASSUME NEW i \in 0..n
        PROVE  f[i] = UptoBody(f, list, i)
    <3>1. CASE i = 0
      BY <1>7, <3>1 DEF UptoBody
    <3>2. CASE i # 0
      <4>1. i - 1 \in 0..n /\ i \in 1..n
        BY <1>2, <3>2
      <4>2. f[i - 1] \in V
        BY <4>1
      <4> HIDE DEF V
      <4>3. f[i] = Step[f[i - 1]][i]
        <5> HIDE DEF Step
        <5> QED
          BY <1>7, <3>2
      <4> QED
        BY <3>2, <4>1, <4>2, <4>3 DEF UptoBody
    <3> QED
      BY <3>1, <3>2
  <2> QED
    BY <1>7, <2>1
<1> DEFINE it == CHOOSE g : g = [i \in 0..n |-> UptoBody(g, list, i)]
<1>9. it = [i \in 0..n |-> UptoBody(it, list, i)]
  BY <1>8
<1>10. Answers(questions) = it[n]
  BY AnswersUnfold
<1> HIDE DEF it
<1> DEFINE T == {k \in 0..n : \A d \in it[k] : AnswersAll(d, {list[i] : i \in 1..k})}
<1>11. 0 \in T
  <2>1. it[0] = {NoDecisions}
    BY <1>2, <1>9 DEF UptoBody
  <2>2. AnswersAll(NoDecisions, {list[i] : i \in 1..0})
    BY DEF AnswersAll, NoDecisions
  <2>3. 0 \in 0..n /\ \A d \in it[0] : d = NoDecisions
    BY <1>2, <2>1
  <2> QED
    BY <2>2, <2>3
<1>12. ASSUME NEW k \in 0..n-1, k \in T
       PROVE  k + 1 \in T
  <2>1. k + 1 \in 0..n /\ k + 1 \in 1..n /\ (k + 1) - 1 = k /\ k + 1 # 0
    BY <1>2
  <2>2. it[k + 1] = {Put(d, list[k + 1].id, choice) : d \in it[k], choice \in list[k + 1].choices}
    <3>1. it[k + 1] = UptoBody(it, list, k + 1)
      BY <1>9, <2>1
    <3> QED
      BY <2>1, <3>1 DEF UptoBody
  <2>3. {list[i] : i \in 1..k+1} = {list[i] : i \in 1..k} \cup {list[k + 1]}
    BY <1>2
  <2>4. ASSUME NEW e \in it[k + 1]
        PROVE  AnswersAll(e, {list[i] : i \in 1..k+1})
    <3>1. PICK d \in it[k], choice \in list[k + 1].choices : e = Put(d, list[k + 1].id, choice)
      BY <2>2
    <3>2. AnswersAll(d, {list[i] : i \in 1..k})
      BY <1>12
    <3> PICK q : q = list[k + 1]
      OBVIOUS
    <3> PICK Q : Q = {list[i] : i \in 1..k}
      OBVIOUS
    <3>3. AnswersAll(e, Q \cup {q})
      BY <3>1, <3>2, PutAnswer
    <3> QED
      BY <2>3, <3>3
  <2> QED
    BY <2>1, <2>4
<1>13. 0..n \subseteq T
  <2> HIDE DEF T
  <2> QED
    BY <1>2, <1>11, <1>12, UpToInduct
<1>14. {list[i] : i \in 1..n} = questions
  BY <1>2 DEF Range
<1> QED
  BY <1>2, <1>10, <1>13, <1>14

\* Before anything is answered nothing is decided or claimed.
LEMMA NothingDecided ==
  /\ DOMAIN NoDecisions = {} /\ TypeDecisions(NoDecisions) = {} /\ Renames(NoDecisions) = {}
  /\ \A q : Asked(q) => Unclaimed(q, NoDecisions) = q
<1>1. DOMAIN NoDecisions = {}
  BY DEF NoDecisions
<1>2. TypeDecisions(NoDecisions) = {} /\ Renames(NoDecisions) = {}
  BY <1>1 DEF TypeDecisions, Renames
<1>3. ASSUME NEW q, Asked(q) PROVE Unclaimed(q, NoDecisions) = q
  <2>1. CASE q.id.ask # "rename"
    BY <2>1 DEF Unclaimed
  <2>2. CASE q.id.ask = "rename"
    <3> DEFINE claimed == {NoDecisions[i] : i \in {x \in Renames(NoDecisions) : Scope(x) = Scope(q.id)}}
    <3>1. claimed = {}
      BY <1>2
    <3>2. Unclaimed(q, NoDecisions) = [q EXCEPT !.choices = @ \ claimed]
      BY <2>2 DEF Unclaimed
    <3> HIDE DEF claimed
    <3> PICK left : left = q.choices \ claimed
      OBVIOUS
    <3>3. left = q.choices
      BY <3>1
    <3>4. q = [id |-> q.id, choices |-> q.choices]
      BY <1>3 DEF Asked
    <3>5. [q EXCEPT !.choices = left] = [id |-> q.id, choices |-> left]
      BY ONLY <3>4
    <3>6. Unclaimed(q, NoDecisions) = [q EXCEPT !.choices = left]
      BY <3>2
    <3> QED
      BY ONLY <3>3, <3>4, <3>5, <3>6
  <2> QED
    BY <2>1, <2>2
<1> QED
  BY <1>1, <1>2, <1>3

\* What is left to ask when nothing has been answered.
LEMMA PendingFirst ==
  ASSUME NEW ops, MadeOps(ops)
  PROVE  /\ Pending(ops, NoDecisions) = {q \in Questions(ops) : q.choices # {"no"}}
         /\ IsFiniteSet(Pending(ops, NoDecisions))
<1> DEFINE P == {q \in Questions(ops) : q.choices # {"no"}}
<1>1. \A q \in Questions(ops) : q.id \notin DOMAIN NoDecisions /\ Unclaimed(q, NoDecisions) = q
  BY QuestionsFinite, NothingDecided
<1>2. Pending(ops, NoDecisions) = P
  BY <1>1 DEF Pending
<1>3. P \subseteq Questions(ops)
  OBVIOUS
<1> HIDE DEF P
<1>4. IsFiniteSet(P)
  BY <1>3, QuestionsFinite, FS_Subset
<1> QED
  BY <1>2, <1>4 DEF P

\* One round of answers settles everything: the answers are valid, and nothing is left
\* to ask, though the answered renames take candidates from the other questions.
LEMMA AnswersSettle ==
  ASSUME NEW ops, MadeOps(ops), NEW d, AnswersAll(d, Pending(ops, NoDecisions))
  PROVE  /\ ValidDecisions(ops, d)
         /\ Pending(ops, d) = {}
         /\ \A id \in DOMAIN d : id.ask # "type"
<1> PICK P : P = Pending(ops, NoDecisions)
  OBVIOUS
<1>1. P = {q \in Questions(ops) : q.choices # {"no"}} /\ \A q \in Questions(ops) : Asked(q)
  BY PendingFirst, QuestionsFinite
<1>2. DOMAIN d = {q.id : q \in P} /\ \A id \in DOMAIN d : \E q \in P : q.id = id /\ d[id] \in q.choices
  BY DEF AnswersAll
<1>3. ValidDecisions(ops, d)
  BY <1>1, <1>2 DEF ValidDecisions
<1>4. \A id \in DOMAIN d : id.ask # "type"
  BY <1>1, <1>2 DEF Asked
<1>5. ASSUME NEW q \in Pending(ops, d) PROVE FALSE
  <2>1. PICK x \in Questions(ops) : x.id \notin DOMAIN d /\ q = Unclaimed(x, d) /\ q.choices # {"no"}
    BY <1>5 DEF Pending
  <2>2. x \notin P
    BY <1>2, <2>1
  <2>3. x.choices = {"no"}
    BY <1>1, <2>2
  <2>4. CASE x.id.ask # "rename"
    BY <2>1, <2>3, <2>4 DEF Unclaimed
  <2>5. CASE x.id.ask = "rename"
    <3> DEFINE claimed == {d[i] : i \in {y \in Renames(d) : Scope(y) = Scope(x.id)}}
    <3>1. "no" \notin claimed
      BY DEF Renames
    <3>2. q = [x EXCEPT !.choices = @ \ claimed]
      BY <2>1, <2>5 DEF Unclaimed
    <3> HIDE DEF claimed
    <3>3. q.choices = x.choices \ claimed
      BY <1>1, <3>2 DEF Asked
    <3> QED
      BY <2>1, <2>3, <3>1, <3>3
  <2> QED
    BY <2>4, <2>5
<1> QED
  BY <1>3, <1>4, <1>5

\* What a response may be.
NeedsInput(res)    == res.reply.kind = "needs input"
UnknownAnswer(res) == res.reply.cause = "unknown answer"
IsCreated(res)     == res.reply.kind = "created"

LEMMA RefusalIs ==
  ASSUME NEW cause
  PROVE  /\ ~NeedsInput(Refusal(cause)) /\ ~IsCreated(Refusal(cause))
         /\ UnknownAnswer(Refusal(cause)) => cause = "unknown answer"
<1>1. Refusal(cause).reply.kind = "refused" /\ Refusal(cause).reply.cause = cause
  BY DEF Refusal, Reply
<1>2. "refused" # "needs input" /\ "refused" # "created"
  OBVIOUS
<1> QED
  BY <1>1, <1>2, Zenon DEF NeedsInput, IsCreated, UnknownAnswer

LEMMA AskingIs ==
  ASSUME NEW questions
  PROVE  /\ NeedsInput(Asking(questions)) /\ ~IsCreated(Asking(questions)) /\ ~UnknownAnswer(Asking(questions))
         /\ Asking(questions).reply.ask = questions
<1> DEFINE kind == "needs input"
<1>1. /\ Asking(questions).reply.kind = kind /\ Asking(questions).reply.cause = "none"
      /\ Asking(questions).reply.ask = questions
  BY DEF Asking, Reply
<1>2. kind # "created" /\ "none" # "unknown answer"
  OBVIOUS
<1> QED
  BY <1>1, <1>2, Zenon DEF NeedsInput, IsCreated, UnknownAnswer

LEMMA CreatedIs ==
  ASSUME NEW ops
  PROVE  /\ ~NeedsInput(Created(ops)) /\ IsCreated(Created(ops)) /\ ~UnknownAnswer(Created(ops))
         /\ Created(ops).ops = ops
<1>1. /\ Created(ops).reply.kind = "created" /\ Created(ops).reply.cause = "none"
      /\ Created(ops).ops = ops
  BY DEF Created, Reply
<1>2. "created" # "needs input" /\ "none" # "unknown answer"
  OBVIOUS
<1> QED
  BY <1>1, <1>2, Zenon DEF NeedsInput, IsCreated, UnknownAnswer

LEMMA NoChangesIs == ~NeedsInput(NoChanges) /\ ~IsCreated(NoChanges) /\ ~UnknownAnswer(NoChanges)
<1> DEFINE kind == "no changes"
<1>1. NoChanges.reply.kind = kind /\ NoChanges.reply.cause = "none"
  BY DEF NoChanges, Reply
<1>2. kind # "needs input" /\ kind # "created" /\ "none" # "unknown answer"
  OBVIOUS
<1> QED
  BY <1>1, <1>2, Zenon DEF NeedsInput, IsCreated, UnknownAnswer

\* The clarified operations: an answer is unknown only when there is no such question.
LEMMA CandidateIs ==
  ASSUME NEW ops, MadeOps(ops), NEW d, ValidDecisions(ops, d), NEW prev, NEW roots,
         NEW res, res = Candidate(prev, roots, Process(ops, d))
  PROVE  /\ ~UnknownAnswer(res)
         /\ NeedsInput(res) => res.reply.ask = Pending(ops, d) /\ Pending(ops, d) # {}
         /\ IsCreated(res) => MadeOps(res.ops)
<1> PICK asked : asked = Process(ops, d)
  OBVIOUS
<1>1. CASE Conflicting(d)
  <2>1. asked.kind = "conflict"
    BY <1>1 DEF Process
  <2>2. res = Refusal("conflict")
    BY <2>1, Zenon DEF Candidate
  <2>3. "conflict" # "unknown answer"
    OBVIOUS
  <2> QED
    BY <2>2, <2>3, RefusalIs, Zenon
<1>2. CASE ~Conflicting(d) /\ Pending(ops, d) # {}
  <2> DEFINE kind == "needs input"
  <2>1. asked.kind = kind /\ asked.ask = Pending(ops, d)
    BY <1>2 DEF Process
  <2>2. kind # "unknown answer" /\ kind # "conflict"
    OBVIOUS
  <2>3. res = Asking(Pending(ops, d))
    BY <2>1, <2>2, Zenon DEF Candidate
  <2> QED
    BY <1>2, <2>3, AskingIs, Zenon
<1>3. CASE ~Conflicting(d) /\ Pending(ops, d) = {}
  <2> PICK left : left = ApplyDecisions(ops, d)
    OBVIOUS
  <2>1. asked.kind = "resolved" /\ asked.ops = left
    BY <1>3 DEF Process
  <2>2. "resolved" # "unknown answer" /\ "resolved" # "conflict" /\ "resolved" # "needs input"
    OBVIOUS
  <2>3. res \in {Refusal("candidate"), Created(left)}
    BY <2>1, <2>2, Zenon DEF Candidate
  <2>4. MadeOps(left)
    BY ApplyMade
  <2>5. "candidate" # "unknown answer"
    OBVIOUS
  <2> QED
    BY <2>3, <2>4, <2>5, RefusalIs, CreatedIs, Zenon
<1> QED
  BY <1>1, <1>2, <1>3

-----------------------------------------------------------------------------
(* Types, then everything else: a conversation has two rounds.             *)

AnsweredTypes(d, asks) ==
  \A id \in TypeDecisions(d) : \E q \in asks : q.id = id /\ d[id] \in q.choices

\* Types are asked of finitely many columns.
LEMMA TypeQuestionsAre ==
  ASSUME NEW cur, Named(cur), NEW prev, NEW tables,
         NEW asks, asks = TypeQuestions(cur, prev, tables)
  PROVE  /\ IsFiniteSet(asks)
         /\ \A q \in asks : q.id.ask = "type" /\ q.id.key.kind = "column"
<1> DEFINE K == {x \in DOMAIN cur : /\ x.kind = "column" /\ x.table \in tables
                                    /\ cur[x].type \notin Catalog \cup EnumNames(cur) \cup ColumnTypes(prev)}
           f == [k \in K |-> Question("type", k, None, {"keep"} \cup Catalog)]
           T == {f[k] : k \in K}
<1>1. asks = T
  BY DEF TypeQuestions
<1>2. IsFiniteSet(K)
  BY FS_Subset DEF Named
<1>3. \A k \in K : f[k].id.ask = "type" /\ f[k].id.key.kind = "column"
  BY DEF Question
<1> HIDE DEF K, f
<1>4. IsFiniteSet(T)
  BY <1>2, FiniteImage
<1> QED
  BY <1>1, <1>3, <1>4

\* Taking types leaves the names.
LEMMA TypedNamed ==
  ASSUME NEW cur, Named(cur), NEW prev, NEW tables, NEW d,
         AnsweredTypes(d, TypeQuestions(cur, prev, tables))
  PROVE  Named(Typed(cur, d))
<1>1. DOMAIN Typed(cur, d) = DOMAIN cur
  BY DEF Typed
<1>2. \A id \in TypeDecisions(d) : id.key.kind = "column"
  BY TypeQuestionsAre DEF AnsweredTypes
<1>3. ASSUME NEW k \in DOMAIN cur, k.kind = "enum"
      PROVE  Typed(cur, d)[k] = cur[k]
  <2>1. {id \in TypeDecisions(d) : id.key = k /\ d[id] # "keep"} = {}
    BY <1>2, <1>3
  <2> QED
    BY <2>1 DEF Typed
<1> QED
  BY <1>1, <1>3 DEF Named

\* The answers about types alone say which types are taken.
LEMMA TypedAlike ==
  ASSUME NEW cur, NEW d, NEW e, TypeDecisions(d) = TypeDecisions(e),
         \A id \in TypeDecisions(d) : d[id] = e[id]
  PROVE  Typed(cur, d) = Typed(cur, e)
<1>1. ASSUME NEW k \in DOMAIN cur
      PROVE  Typed(cur, d)[k] = Typed(cur, e)[k]
  <2> DEFINE D == {id \in TypeDecisions(d) : id.key = k /\ d[id] # "keep"}
             E == {id \in TypeDecisions(e) : id.key = k /\ e[id] # "keep"}
  <2>1. D = E
    OBVIOUS
  <2> PICK it : it = CHOOSE id \in D : TRUE
    OBVIOUS
  <2>2. D # {} => d[it] = e[it]
    OBVIOUS
  <2>3. /\ Typed(cur, d)[k] = IF D = {} THEN cur[k] ELSE [cur[k] EXCEPT !.type = d[CHOOSE id \in D : TRUE]]
        /\ Typed(cur, e)[k] = IF E = {} THEN cur[k] ELSE [cur[k] EXCEPT !.type = e[CHOOSE id \in E : TRUE]]
    BY DEF Typed
  <2> HIDE DEF D, E
  <2> QED
    BY <2>1, <2>2, <2>3
<1> QED
  BY <1>1 DEF Typed

\* Some response that neither asks nor makes anything, nor refuses an answer.
Unasking(res) == ~NeedsInput(res) /\ ~UnknownAnswer(res) /\ ~IsCreated(res)

\* What is planned comes down to the operations that are clarified.
LEMMA PlannedIs ==
  ASSUME NEW cur, Named(cur), NEW prev, Named(prev), NEW roots
  PROVE  \/ \E res : Unasking(res) /\ \A d : Planned(prev, roots, d, Diff(cur, prev)) = res
         \/ \E ops : /\ MadeOps(ops)
                     /\ \A d : Planned(prev, roots, d, Diff(cur, prev)) =
                                 Candidate(prev, roots, Process(ops, NonTypeDecisions(d)))
<1> PICK diff : diff = Diff(cur, prev)
  OBVIOUS
<1>1. /\ diff.err \in {"none", "cycle", "partition", "primary key"}
      /\ diff.err = "none" => MadeOps(diff.ops)
  BY DiffMade
<1>2. CASE diff.err # "none"
  <2>1. \A d : Planned(prev, roots, d, diff) = Refusal(diff.err)
    BY <1>2 DEF Planned
  <2>2. diff.err # "unknown answer"
    <3> DEFINE unknown == "unknown answer"
    <3>1. "none" # unknown /\ "cycle" # unknown /\ "partition" # unknown /\ "primary key" # unknown
      OBVIOUS
    <3> HIDE DEF unknown
    <3>2. diff.err # unknown
      BY <1>1, <3>1, Zenon
    <3> QED
      BY <3>2 DEF unknown
  <2> QED
    BY <2>1, <2>2, RefusalIs, Zenon DEF Unasking
<1>3. CASE diff.err = "none"
  <2> PICK ops : ops = Filtered(diff.ops, roots, prev)
    OBVIOUS
  <2>1. MadeOps(ops)
    BY <1>1, <1>3, FilteredMade
  <2>2. \A d : Planned(prev, roots, d, diff) = Clarified(prev, roots, d, ops)
    BY <1>3 DEF Planned
  <2>3. CASE ops = <<>>
    BY <2>2, <2>3, NoChangesIs DEF Clarified, Unasking
  <2>4. CASE ops # <<>>
    BY <2>1, <2>2, <2>4 DEF Clarified
  <2> QED
    BY <2>3, <2>4
<1> QED
  BY <1>2, <1>3

\* Answers about types alone leave the clarifier none.
LEMMA NonTypesOf ==
  ASSUME NEW d
  PROVE  /\ DOMAIN NonTypeDecisions(d) = {id \in DOMAIN d : id.ask # "type"}
         /\ \A id \in DOMAIN NonTypeDecisions(d) : NonTypeDecisions(d)[id] = d[id]
         /\ TypeDecisions(d) = DOMAIN d => NonTypeDecisions(d) = NoDecisions
<1>1. NonTypeDecisions(d) = [id \in {x \in DOMAIN d : x.ask # "type"} |-> d[id]]
  BY DEF NonTypeDecisions, Restrict
<1>2. ASSUME TypeDecisions(d) = DOMAIN d
      PROVE  NonTypeDecisions(d) = NoDecisions
  <2>1. {x \in DOMAIN d : x.ask # "type"} = {}
    BY <1>2 DEF TypeDecisions
  <2> QED
    BY <1>1, <2>1 DEF NoDecisions
<1> QED
  BY <1>1, <1>2

\* The three outcomes of the questions about types.
LEMMA TypingIs ==
  ASSUME NEW cur, NEW prev, NEW roots, NEW d, NEW asks
  PROVE  /\ ~AnsweredTypes(d, asks) => Typing(cur, prev, roots, d, asks) = Refusal("unknown answer")
         /\ AnsweredTypes(d, asks) /\ (\E q \in asks : q.id \notin DOMAIN d) =>
              Typing(cur, prev, roots, d, asks) = Asking({q \in asks : q.id \notin DOMAIN d})
         /\ AnsweredTypes(d, asks) /\ ~(\E q \in asks : q.id \notin DOMAIN d) =>
              Typing(cur, prev, roots, d, asks) = Planned(prev, roots, d, Diff(Typed(cur, d), prev))
BY Zenon DEF Typing, AnsweredTypes

\* A call that is given answers about types alone.
LEMMA FirstRound ==
  ASSUME NEW cur, Named(cur), NEW prev, Named(prev), NEW roots, NEW tables,
         NEW asks, asks = TypeQuestions(cur, prev, tables),
         NEW d, TypeDecisions(d) = DOMAIN d, AnsweredTypes(d, asks),
         NEW res, res = Typing(cur, prev, roots, d, asks)
  PROVE  /\ ~UnknownAnswer(res)
         /\ IsCreated(res) => MadeOps(res.ops)
<1>1. CASE \E q \in asks : q.id \notin DOMAIN d
  <2> PICK A : A = {q \in asks : q.id \notin DOMAIN d}
    OBVIOUS
  <2>1. res = Asking(A)
    BY <1>1, TypingIs, Zenon
  <2> QED
    BY <2>1, AskingIs
<1>2. CASE ~\E q \in asks : q.id \notin DOMAIN d
  <2> PICK typed : typed = Typed(cur, d)
    OBVIOUS
  <2>1. Named(typed)
    BY TypedNamed
  <2>2. res = Planned(prev, roots, d, Diff(typed, prev))
    BY <1>2, TypingIs
  <2>3. CASE \E x : Unasking(x) /\ \A e : Planned(prev, roots, e, Diff(typed, prev)) = x
    BY <2>2, <2>3 DEF Unasking
  <2>4. CASE \E ops : /\ MadeOps(ops)
                      /\ \A e : Planned(prev, roots, e, Diff(typed, prev)) =
                                  Candidate(prev, roots, Process(ops, NonTypeDecisions(e)))
    <3>1. PICK ops : /\ MadeOps(ops)
                     /\ \A e : Planned(prev, roots, e, Diff(typed, prev)) =
                                 Candidate(prev, roots, Process(ops, NonTypeDecisions(e)))
      BY <2>4
    <3>2. res = Candidate(prev, roots, Process(ops, NoDecisions))
      BY <2>2, <3>1, NonTypesOf
    <3>3. ValidDecisions(ops, NoDecisions)
      BY NothingDecided DEF ValidDecisions
    <3> QED
      BY <3>1, <3>2, <3>3, CandidateIs
  <2> QED
    BY <2>1, <2>3, <2>4, PlannedIs
<1> QED
  BY <1>1, <1>2

\* A call that is given answers about types, and all the answers to what it asked.
LEMMA SecondRound ==
  ASSUME NEW cur, Named(cur), NEW prev, Named(prev), NEW roots, NEW tables,
         NEW asks, asks = TypeQuestions(cur, prev, tables),
         NEW d, TypeDecisions(d) = DOMAIN d,
         NEW before, before = Typing(cur, prev, roots, d, asks), NeedsInput(before),
         NEW a \in Answers(before.reply.ask), NEW e, e = Over(d, a),
         NEW res, res = Typing(cur, prev, roots, e, asks)
  PROVE  /\ ~UnknownAnswer(res)
         /\ NeedsInput(res) => TypeDecisions(e) = DOMAIN e
         /\ IsCreated(res) => MadeOps(res.ops)
<1>1. AnsweredTypes(d, asks)
  BY TypingIs, RefusalIs
<1>2. /\ DOMAIN e = DOMAIN d \cup DOMAIN a
      /\ \A id \in DOMAIN e : e[id] = IF id \in DOMAIN a THEN a[id] ELSE d[id]
  BY DEF Over
<1>3. IsFiniteSet(asks) /\ \A q \in asks : q.id.ask = "type"
  BY TypeQuestionsAre
<1>4. \A id \in DOMAIN d : id.ask = "type"
  BY DEF TypeDecisions
<1>5. CASE \E q \in asks : q.id \notin DOMAIN d
  <2> PICK A : A = {q \in asks : q.id \notin DOMAIN d}
    OBVIOUS
  <2>1. before.reply.ask = A
    <3>1. before = Asking(A)
      BY <1>1, <1>5, TypingIs, Zenon
    <3> QED
      BY <3>1, AskingIs
  <2>2. IsFiniteSet(A) /\ A \subseteq asks
    BY <1>3, FS_Subset
  <2>3. AnswersAll(a, A)
    BY <2>1, <2>2, AnswersRight
  <2>4. \A id \in DOMAIN a : \E q \in asks : q.id = id /\ a[id] \in q.choices
    BY <2>2, <2>3 DEF AnswersAll
  <2>5. TypeDecisions(e) = DOMAIN e
    BY <1>2, <1>3, <1>4, <2>4 DEF TypeDecisions
  <2>6. AnsweredTypes(e, asks)
    BY <1>1, <1>2, <2>4 DEF AnsweredTypes, TypeDecisions
  <2> QED
    BY <2>5, <2>6, FirstRound
<1>6. CASE ~\E q \in asks : q.id \notin DOMAIN d
  <2> PICK typed : typed = Typed(cur, d)
    OBVIOUS
  <2>1. Named(typed)
    BY <1>1, TypedNamed
  <2>2. before = Planned(prev, roots, d, Diff(typed, prev))
    BY <1>1, <1>6, TypingIs
  <2>3. PICK ops : /\ MadeOps(ops)
                   /\ \A x : Planned(prev, roots, x, Diff(typed, prev)) =
                               Candidate(prev, roots, Process(ops, NonTypeDecisions(x)))
    BY <2>1, <2>2, PlannedIs DEF Unasking
  <2>4. before.reply.ask = Pending(ops, NoDecisions)
    <3>1. before = Candidate(prev, roots, Process(ops, NoDecisions))
      BY <2>2, <2>3, NonTypesOf
    <3>2. ValidDecisions(ops, NoDecisions)
      BY NothingDecided DEF ValidDecisions
    <3> QED
      BY <2>3, <3>1, <3>2, CandidateIs
  <2> PICK P : P = Pending(ops, NoDecisions)
    OBVIOUS
  <2>5. AnswersAll(a, P)
    BY <2>3, <2>4, PendingFirst, AnswersRight
  <2>6. \A id \in DOMAIN a : id.ask # "type"
    BY <2>3, <2>5, AnswersSettle
  <2>7. TypeDecisions(e) = DOMAIN d /\ \A id \in DOMAIN d : e[id] = d[id]
    BY <1>2, <1>4, <2>6 DEF TypeDecisions
  <2> PICK left : left = NonTypeDecisions(e)
    OBVIOUS
  <2>8. DOMAIN left = DOMAIN a /\ \A id \in DOMAIN a : left[id] = a[id]
    BY <1>2, <1>4, <2>6, NonTypesOf
  <2>9. AnswersAll(left, P)
    BY <2>5, <2>8 DEF AnswersAll
  <2>10. ValidDecisions(ops, left) /\ Pending(ops, left) = {}
    BY <2>3, <2>9, AnswersSettle
  <2>11. Typed(cur, e) = typed
    BY <2>7, TypedAlike
  <2>12. AnsweredTypes(e, asks) /\ ~\E q \in asks : q.id \notin DOMAIN e
    BY <1>1, <1>2, <1>6, <2>7 DEF AnsweredTypes
  <2>13. res = Candidate(prev, roots, Process(ops, left))
    BY <2>3, <2>11, <2>12, TypingIs
  <2> QED
    BY <2>3, <2>10, <2>13, CandidateIs
<1> QED
  BY <1>5, <1>6

-----------------------------------------------------------------------------
(* A conversation, call by call.                                           *)

\* Every call of a conversation returns the same, or comes to the same questions
\* about types, whatever has been answered.
LEMMA ResponseIs ==
  ASSUME NEW h, NEW prev, prev = Baseline(h).schema, Named(prev), NEW cur, Named(cur), NEW roots
  PROVE  \/ \E res : Unasking(res) /\ \A d : Response(h, cur, roots, d) = res
         \/ \E tables : \A d : Response(h, cur, roots, d) =
                                 Typing(cur, prev, roots, d, TypeQuestions(cur, prev, tables))
<1> DEFINE unknown == "unknown answer"
<1> PICK base : base = Baseline(h)
  OBVIOUS
<1>1. \A d : Response(h, cur, roots, d) = Answered(base, cur, roots, d)
  BY DEF Response
<1>2. "replay" # unknown /\ "baseline" # unknown /\ "none" # unknown
      /\ "cycle" # unknown /\ "partition" # unknown /\ "primary key" # unknown
  OBVIOUS
<1>3. \A cause : cause # unknown => Unasking(Refusal(cause))
  BY RefusalIs, Zenon DEF Unasking
<1> HIDE DEF unknown
<1>4. CASE ~base.ok
  <2>1. \A d : Response(h, cur, roots, d) = Refusal("replay")
    BY <1>1, <1>4 DEF Answered
  <2> QED
    BY <1>2, <1>3, <2>1, Zenon
<1>5. CASE base.ok /\ ~Valid(base.schema)
  <2>1. \A d : Response(h, cur, roots, d) = Refusal("baseline")
    BY <1>1, <1>5 DEF Answered
  <2> QED
    BY <1>2, <1>3, <2>1, Zenon
<1>6. CASE base.ok /\ Valid(base.schema) /\ roots = {}
  <2>1. \A d : Response(h, cur, roots, d) =
                 Typing(cur, prev, roots, d, TypeQuestions(cur, prev, Tables(cur)))
    BY <1>1, <1>6 DEF Answered
  <2> QED
    BY <2>1
<1>7. CASE base.ok /\ Valid(base.schema) /\ roots # {}
  <2> PICK diff : diff = Diff(cur, prev)
    OBVIOUS
  <2>1. diff.err \in {"none", "cycle", "partition", "primary key"}
    BY DiffMade
  <2>2. \A d : Response(h, cur, roots, d) = Narrowed(cur, prev, roots, d, diff)
    BY <1>1, <1>7 DEF Answered
  <2>3. CASE diff.err # "none"
    <3>1. \A d : Response(h, cur, roots, d) = Refusal(diff.err)
      BY <2>2, <2>3 DEF Narrowed
    <3>2. diff.err # unknown
      BY <1>2, <2>1, Zenon
    <3> QED
      BY <1>3, <3>1, <3>2, Zenon
  <2>4. CASE diff.err = "none"
    <3> PICK ops : ops = Filtered(diff.ops, roots, prev)
      OBVIOUS
    <3>1. \A d : Response(h, cur, roots, d) = TypingAbout(cur, prev, roots, d, ops)
      BY <2>2, <2>4 DEF Narrowed
    <3>2. CASE ops = <<>>
      <4>1. \A d : Response(h, cur, roots, d) = NoChanges
        BY <3>1, <3>2 DEF TypingAbout
      <4> QED
        BY <4>1, NoChangesIs, Zenon DEF Unasking
    <3>3. CASE ops # <<>>
      <4> PICK tables : tables = {OperationRoot(o).name : o \in {x \in Range(ops) : OperationRoot(x).kind = "table"}}
        OBVIOUS
      <4>1. \A d : Response(h, cur, roots, d) =
                     Typing(cur, prev, roots, d, TypeQuestions(cur, prev, tables))
        BY <3>1, <3>3 DEF TypingAbout
      <4> QED
        BY <4>1
    <3> QED
      BY <3>2, <3>3
  <2> QED
    BY <2>3, <2>4
<1> QED
  BY <1>4, <1>5, <1>6, <1>7

\* A call without answers.
LEMMA FirstCall ==
  ASSUME NEW h, NEW prev, prev = Baseline(h).schema, Named(prev), NEW cur, Named(cur), NEW roots,
         NEW res, res = Response(h, cur, roots, NoDecisions)
  PROVE  ~UnknownAnswer(res) /\ (IsCreated(res) => MadeOps(res.ops))
<1>1. CASE \E x : Unasking(x) /\ \A d : Response(h, cur, roots, d) = x
  BY <1>1 DEF Unasking
<1>2. CASE \E tables : \A d : Response(h, cur, roots, d) =
                                Typing(cur, prev, roots, d, TypeQuestions(cur, prev, tables))
  <2>1. PICK tables : \A d : Response(h, cur, roots, d) =
                               Typing(cur, prev, roots, d, TypeQuestions(cur, prev, tables))
    BY <1>2
  <2>2. TypeDecisions(NoDecisions) = DOMAIN NoDecisions
    BY NothingDecided
  <2>3. \A asks : AnsweredTypes(NoDecisions, asks)
    BY NothingDecided DEF AnsweredTypes
  <2> QED
    BY <2>1, <2>2, <2>3, FirstRound
<1> QED
  BY <1>1, <1>2, ResponseIs

\* The call again, with all the answers to what was asked.
LEMMA NextCall ==
  ASSUME NEW h, NEW prev, prev = Baseline(h).schema, Named(prev), NEW cur, Named(cur), NEW roots,
         NEW d, TypeDecisions(d) = DOMAIN d,
         NEW before, before = Response(h, cur, roots, d), NeedsInput(before),
         NEW a \in Answers(before.reply.ask), NEW e, e = Over(d, a),
         NEW res, res = Response(h, cur, roots, e)
  PROVE  /\ ~UnknownAnswer(res)
         /\ NeedsInput(res) => TypeDecisions(e) = DOMAIN e
         /\ IsCreated(res) => MadeOps(res.ops)
<1>1. CASE \E x : Unasking(x) /\ \A y : Response(h, cur, roots, y) = x
  BY <1>1 DEF Unasking
<1>2. CASE \E tables : \A y : Response(h, cur, roots, y) =
                                Typing(cur, prev, roots, y, TypeQuestions(cur, prev, tables))
  <2>1. PICK tables : \A y : Response(h, cur, roots, y) =
                               Typing(cur, prev, roots, y, TypeQuestions(cur, prev, tables))
    BY <1>2
  <2> PICK asks : asks = TypeQuestions(cur, prev, tables)
    OBVIOUS
  <2>2. before = Typing(cur, prev, roots, d, asks) /\ res = Typing(cur, prev, roots, e, asks)
    BY <2>1
  <2> QED
    BY <2>2, SecondRound
<1> QED
  BY <1>1, <1>2, ResponseIs

-----------------------------------------------------------------------------
(* The inductive invariant of make and adopt.                              *)

HistoryMade(h) == \E M : h \in Seq(M) /\ \A ops \in M : MadeOps(ops)

\* The schema of a history that make wrote.
LEMMA BaselineNamed ==
  ASSUME NEW h, HistoryMade(h)
  PROVE  Named(Baseline(h).schema)
<1>1. PICK M : h \in Seq(M) /\ \A ops \in M : MadeOps(ops)
  BY DEF HistoryMade
<1> PICK n \in Nat : n = Len(h)
  BY <1>1
<1>2. h = [i \in 1..n |-> h[i]] /\ \A i \in 1..n : MadeOps(h[i])
  BY <1>1
<1>3. MadeOps(FlattenSeq(h))
  BY <1>2, FlattenMade
<1> QED
  BY <1>3, NothingNamed, ReplayNamed DEF Baseline

LEMMA HistoryGrows ==
  ASSUME NEW h, HistoryMade(h), NEW ops, MadeOps(ops)
  PROVE  HistoryMade(Append(h, ops))
<1>1. PICK M : h \in Seq(M) /\ \A x \in M : MadeOps(x)
  BY DEF HistoryMade
<1> PICK N : N = M \cup {ops}
  OBVIOUS
<1>2. h \in Seq(N) /\ \A x \in N : MadeOps(x)
  BY <1>1
<1>3. Append(h, ops) \in Seq(N)
  BY <1>2
<1> QED
  BY <1>2, <1>3 DEF HistoryMade

\* What a conversation has come to: the answers given before the last reply were about
\* types alone if it asks for more, and no answer has been refused as unknown.
Conversing ==
  /\ reply.cause # "unknown answer"
  /\ reply.kind = "needs input" =>
       /\ TypeDecisions(decisions) = DOMAIN decisions
       /\ reply = Response(history, desired, filters, decisions).reply

MakeInv == Named(desired) /\ HistoryMade(history) /\ Conversing

\* A call that returns: what is true of the response is true of the state it leaves.
LEMMA Returned ==
  ASSUME HistoryMade(history), NEW cur, Named(cur), desired' = cur,
         NEW roots, NEW d, NEW res, Return(roots, d, res), ~UnknownAnswer(res),
         IsCreated(res) => MadeOps(res.ops),
         NeedsInput(res) => TypeDecisions(d) = DOMAIN d /\ res = Response(history, cur, roots, d)
  PROVE  MakeInv'
<1> DEFINE asked == "needs input"
<1>1. filters' = roots /\ decisions' = d /\ reply' = res.reply
  BY DEF Return
<1>2. HistoryMade(history')
  <2>1. CASE IsCreated(res)
    <3>1. history' = Append(history, res.ops)
      BY <2>1 DEF Return, IsCreated
    <3> QED
      BY <2>1, <3>1, HistoryGrows
  <2>2. CASE ~IsCreated(res)
    <3>1. history' = history
      BY <2>2 DEF Return, IsCreated
    <3> QED
      BY <3>1
  <2> QED
    BY <2>1, <2>2
<1>3. asked # "created"
  OBVIOUS
<1> HIDE DEF asked
<1>4. ASSUME reply'.kind = asked
      PROVE  /\ TypeDecisions(decisions') = DOMAIN decisions'
             /\ reply' = Response(history', desired', filters', decisions').reply
  <2>1. NeedsInput(res)
    BY <1>1, <1>4 DEF NeedsInput, asked
  <2>2. history' = history
    BY <1>1, <1>3, <1>4, Zenon DEF Return
  <2>3. res = Response(history', desired', filters', decisions')
    BY <1>1, <2>1, <2>2
  <2> QED
    BY <1>1, <2>1, <2>3
<1>5. reply'.cause # "unknown answer"
  BY <1>1, Zenon DEF UnknownAnswer
<1> QED
  BY <1>2, <1>4, <1>5 DEF MakeInv, Conversing, asked

\* An adoption takes what is inspected into the schema files.
LEMMA InspectedNamed ==
  ASSUME NEW live, Named(live), NEW roots
  PROVE  Named(Inspected(live, roots))
<1> PICK r : r = Inspected(live, roots)
  OBVIOUS
<1>1. DOMAIN r \subseteq DOMAIN live
  BY DEF Inspected
<1>2. \A k \in DOMAIN r : k.kind = "enum" => r[k] = live[k]
  BY DEF Inspected
<1> QED
  BY <1>1, <1>2, LessNamed

\* The invariant holds at first,
LEMMA MakeInvInit == ASSUME AdoptInit PROVE MakeInv
<1>1. Named(desired)
  BY ProjectsAssumption DEF AdoptInit, Init
<1>2. HistoryMade(history)
  <2>1. history \in Seq({}) /\ \A x \in {} : MadeOps(x)
    BY DEF AdoptInit, Init
  <2> QED
    BY <2>1 DEF HistoryMade
<1>3. Conversing
  <2> DEFINE asked == "needs input"
             unknown == "unknown answer"
  <2>1. reply.kind = "none" /\ reply.cause = "none"
    BY DEF AdoptInit, Init, NoReply, Reply
  <2>2. "none" # asked /\ "none" # unknown
    OBVIOUS
  <2> QED
    BY <2>1, <2>2, Zenon DEF Conversing
<1> QED
  BY <1>1, <1>2, <1>3 DEF MakeInv

\* and every step keeps it.
LEMMA MakeInvStep == ASSUME MakeInv, [AdoptNext]_adoptVars PROVE MakeInv'
<1>1. Named(desired) /\ HistoryMade(history) /\ Named(Baseline(history).schema)
  BY BaselineNamed DEF MakeInv
<1>2. CASE Edit
  <2>1. Named(desired')
    BY <1>2, ProjectsAssumption DEF Edit
  <2>2. history' = history /\ reply' = NoReply
    BY <1>2 DEF Edit
  <2>3. Conversing'
    <3> DEFINE asked == "needs input"
               unknown == "unknown answer"
    <3>1. reply'.kind = "none" /\ reply'.cause = "none"
      BY <2>2 DEF NoReply, Reply
    <3>2. "none" # asked /\ "none" # unknown
      OBVIOUS
    <3> QED
      BY <3>1, <3>2, Zenon DEF Conversing
  <2> QED
    BY <1>1, <2>1, <2>2, <2>3 DEF MakeInv
<1>3. CASE Make
  <2>1. PICK roots : Respond(roots, NoDecisions)
    BY <1>3 DEF Make
  <2> PICK res : res = Response(history, desired, roots, NoDecisions)
    OBVIOUS
  <2>2. Return(roots, NoDecisions, res) /\ desired' = desired
    BY <2>1 DEF Respond
  <2>3. ~UnknownAnswer(res) /\ (IsCreated(res) => MadeOps(res.ops))
    BY <1>1, FirstCall
  <2>4. TypeDecisions(NoDecisions) = DOMAIN NoDecisions
    BY NothingDecided
  <2> QED
    BY <1>1, <2>2, <2>3, <2>4, Returned
<1>4. CASE AnswerAll
  <2>1. PICK a \in Answers(reply.ask) : Respond(filters, Over(decisions, a))
    BY <1>4 DEF AnswerAll
  <2> PICK before : before = Response(history, desired, filters, decisions)
    OBVIOUS
  <2> PICK e : e = Over(decisions, a)
    OBVIOUS
  <2> PICK res : res = Response(history, desired, filters, e)
    OBVIOUS
  <2>2. TypeDecisions(decisions) = DOMAIN decisions /\ reply = before.reply /\ NeedsInput(before)
    BY <1>4, Zenon DEF AnswerAll, MakeInv, Conversing, NeedsInput
  <2>3. Return(filters, e, res) /\ desired' = desired
    BY <2>1 DEF Respond
  <2>4. /\ ~UnknownAnswer(res)
        /\ NeedsInput(res) => TypeDecisions(e) = DOMAIN e
        /\ IsCreated(res) => MadeOps(res.ops)
    BY <1>1, <2>2, NextCall
  <2> QED
    BY <1>1, <2>3, <2>4, Returned
<1>5. CASE Adopt
  <2> PICK project \in Projects : \E x \in project : \E y : AdoptFragment(Inspected(x, y))
    BY <1>5 DEF Adopt
  <2> PICK live \in project : \E y : AdoptFragment(Inspected(live, y))
    OBVIOUS
  <2>1. PICK roots : AdoptFragment(Inspected(live, roots))
    OBVIOUS
  <2> PICK cur : cur = Over(desired, Inspected(live, roots))
    OBVIOUS
  <2>2. Named(cur)
    BY <1>1, InspectedNamed, OverNamed, ProjectsAssumption
  <2>3. Persist(cur)
    BY <2>1 DEF AdoptFragment
  <2>4. desired' = cur
    BY <2>3 DEF Persist
  <2> PICK res : res = Response(history, cur, {}, NoDecisions)
    OBVIOUS
  <2>5. CASE Return({}, NoDecisions, res)
    <3>1. ~UnknownAnswer(res) /\ (IsCreated(res) => MadeOps(res.ops))
      BY <1>1, <2>2, FirstCall
    <3>2. TypeDecisions(NoDecisions) = DOMAIN NoDecisions
      BY NothingDecided
    <3> QED
      BY <1>1, <2>2, <2>4, <2>5, <3>1, <3>2, Returned
  <2>6. CASE Return({}, NoDecisions, Refusal("interrupted"))
    <3>1. "interrupted" # "unknown answer"
      OBVIOUS
    <3> PICK none : none = Refusal("interrupted")
      OBVIOUS
    <3>2. ~UnknownAnswer(none) /\ ~IsCreated(none) /\ ~NeedsInput(none)
      BY <3>1, RefusalIs, Zenon
    <3> QED
      BY <1>1, <2>2, <2>4, <2>6, <3>2, Returned
  <2> QED
    BY <2>3, <2>5, <2>6 DEF Persist
<1>6. CASE UNCHANGED adoptVars
  BY <1>6 DEF adoptVars, vars, MakeInv, Conversing
<1> QED
  BY <1>2, <1>3, <1>4, <1>5, <1>6 DEF AdoptNext

\* cli/dispatch.rs (run_with_clarifications) against clarifier/resolve.rs and
\* offline_planner.rs: the conversation of a make ends.  No answer to its own questions is
\* refused as unknown, although the operations are computed again for each call and a rename
\* takes its candidate from the other questions; after the answers to everything else
\* nothing is asked, so there are at most two rounds.
THEOREM ConversationEndsCorrect == AdoptSpec => []ConversationEnds
<1>1. AdoptInit => MakeInv
  BY MakeInvInit
<1>2. MakeInv /\ [AdoptNext]_adoptVars => MakeInv'
  BY MakeInvStep
<1>3. MakeInv => ConversationEnds
  BY Zenon DEF MakeInv, Conversing, ConversationEnds
<1> QED
  BY <1>1, <1>2, <1>3, PTL DEF AdoptSpec

\* offline_planner.rs: whenever make compares the schema files with the replayed history,
\* the operations of all the migrations in it having been made by make and by adopt, the
\* comparison is refused for a cycle or orders all the changes, none before what must
\* precede it.
THEOREM MakeArranges == AdoptSpec => []OrdersAll(desired, Current)
<1>1. AdoptInit => MakeInv
  BY MakeInvInit
<1>2. MakeInv /\ [AdoptNext]_adoptVars => MakeInv'
  BY MakeInvStep
<1>3. MakeInv => OrdersAll(desired, Current)
  BY BaselineNamed, DiffArranges DEF MakeInv, Current
<1> QED
  BY <1>1, <1>2, <1>3, PTL DEF AdoptSpec
=============================================================================
