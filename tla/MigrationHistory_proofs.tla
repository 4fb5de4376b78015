--------------------- MODULE MigrationHistory_proofs ---------------------
(***************************************************************************)
(* The properties of MigrationHistory, for any number of make commands,    *)
(* directories and names.                                                  *)
(***************************************************************************)
EXTENDS MigrationHistory, GraphOps_proofs

----------------------------------------------------------------------------
(* The root migrations of a graph that no other namespace depends on, and  *)
(* whose dependencies among themselves go from larger to smaller ids.      *)

Layered(g) ==
    \A id \in DOMAIN g : \A dep \in g[id] :
        Namespace(dep) = 0 => Namespace(id) = 0 /\ dep < id

RootsOf(order) == {id \in Range(order) : Namespace(id) = 0}

Ascends(order) ==
    \A i, j \in DOMAIN order :
        i < j /\ Namespace(order[i]) = 0 /\ Namespace(order[j]) = 0 => order[i] < order[j]

LEMMA AppendedChild ==
    ASSUME NEW S, NEW order \in Seq(S), NEW x \in S, Namespace(x) # 0
    PROVE  /\ RootsOf(Append(order, x)) = RootsOf(order)
           /\ Ascends(order) => Ascends(Append(order, x))
<1> DEFINE n == Len(order)
           next == Append(order, x)
<1>1. /\ n \in Nat /\ DOMAIN order = 1..n /\ DOMAIN next = 1..n + 1
      /\ \A i \in 1..n : next[i] = order[i]
      /\ next[n + 1] = x
  OBVIOUS
<1>2. RootsOf(next) = RootsOf(order)
  BY Appended DEF RootsOf
<1>3. ASSUME Ascends(order), NEW i \in 1..n + 1, NEW j \in 1..n + 1,
             i < j, Namespace(next[i]) = 0, Namespace(next[j]) = 0
      PROVE  next[i] < next[j]
  <2>1. i # n + 1 /\ j # n + 1
    BY <1>1, <1>3
  <2>2. i \in 1..n /\ j \in 1..n
    BY <1>1, <2>1
  <2> QED
    BY <1>1, <1>3, <2>2 DEF Ascends
<1> HIDE DEF next
<1> QED
  BY <1>1, <1>2, <1>3 DEF Ascends, next

LEMMA AppendedRoot ==
    ASSUME NEW S, NEW order \in Seq(S), NEW x \in S, Ascends(order),
           \A y \in RootsOf(order) : y < x
    PROVE  /\ RootsOf(Append(order, x)) \subseteq RootsOf(order) \cup {x}
           /\ Ascends(Append(order, x))
<1> DEFINE n == Len(order)
           next == Append(order, x)
<1>1. /\ n \in Nat /\ DOMAIN order = 1..n /\ DOMAIN next = 1..n + 1
      /\ \A i \in 1..n : next[i] = order[i]
      /\ next[n + 1] = x
  OBVIOUS
<1>2. RootsOf(next) \subseteq RootsOf(order) \cup {x}
  BY Appended DEF RootsOf
<1>3. ASSUME NEW i \in 1..n + 1, NEW j \in 1..n + 1,
             i < j, Namespace(next[i]) = 0, Namespace(next[j]) = 0
      PROVE  next[i] < next[j]
  <2>1. i \in 1..n
    BY <1>1, <1>3
  <2>2. CASE j \in 1..n
    BY <1>1, <1>3, <2>1, <2>2 DEF Ascends
  <2>3. CASE j = n + 1
    <3>1. order[i] \in RootsOf(order)
      BY <1>1, <1>3, <2>1 DEF RootsOf, Range
    <3> QED
      BY <1>1, <2>1, <2>3, <3>1
  <2> QED
    BY <1>1, <2>2, <2>3
<1> HIDE DEF next
<1> QED
  BY <1>1, <1>2, <1>3 DEF Ascends, next

\* From w to u no root was listed.
KeepsRoots(w, u) ==
    /\ RootsOf(u.order) = RootsOf(w.order)
    /\ Ascends(w.order) => Ascends(u.order)

\* A visit of a node of another namespace, or of a visited one, lists no root.
VisitKeeps(g, w) ==
    \A id \in DOMAIN g : Namespace(id) # 0 \/ id \in w.visited =>
        KeepsRoots(w, TopoVisit(g)[w][id])

LEMMA BelowKeeps ==
    ASSUME NEW g, AllKnown(g), NEW w \in Walks(g), NEW id \in DOMAIN g,
           \A dep \in g[id] : Namespace(dep) # 0 \/ dep \in w.visited,
           \A u \in Walks(g) : w.visited \cup {id} \subseteq u.visited => VisitKeeps(g, u)
    PROVE  LET below == VisitAll(TopoVisit(g), Enter(w, id), g[id])
           IN  below \in Walks(g) /\ KeepsRoots(w, below)
<1> DEFINE tv == TopoVisit(g)
           w0 == Enter(w, id)
           below == VisitAll(tv, w0, g[id])
           S == {u \in Walks(g) : w.visited \cup {id} \subseteq u.visited /\ KeepsRoots(w, u)}
           R == [done \in SUBSET g[id] |-> S]
<1>1. w0 \in S
  BY EnterLeave DEF KeepsRoots
<1>2. ASSUME NEW dep \in g[id], NEW u \in S
      PROVE  tv[u][dep] \in S
  <2>1. u \in Walks(g) /\ w.visited \cup {id} \subseteq u.visited /\ KeepsRoots(w, u)
    OBVIOUS
  <2>2. dep \in DOMAIN g
    BY CompleteGraph
  <2>3. tv[u][dep] \in Walks(g) /\ u.visited \subseteq tv[u][dep].visited
    BY <2>1, <2>2, TopoVisitType DEF TypedBeyond
  <2>4. Namespace(dep) # 0 \/ dep \in u.visited
    BY <2>1
  <2>5. KeepsRoots(u, tv[u][dep])
    BY <2>1, <2>2, <2>4 DEF VisitKeeps
  <2> HIDE DEF tv
  <2>6. KeepsRoots(w, tv[u][dep])
    BY <2>1, <2>5 DEF KeepsRoots
  <2> QED
    BY <2>1, <2>3, <2>6
<1>3. g[id] \in SUBSET Nat /\ IsFiniteSet(g[id])
  BY CompleteGraph
<1>4. w0 \in R[{}]
  BY <1>1
<1>5. \A done \in SUBSET g[id] : \A dep \in g[id] : \A u \in R[done] : tv[u][dep] \in R[done \cup {dep}]
  <2> HIDE DEF S, tv
  <2> QED
    BY <1>2
<1> HIDE DEF R, tv, w0
<1>6. below \in R[g[id]]
  BY <1>3, <1>4, <1>5, VisitAllInvariant
<1>7. below \in S
  BY <1>6 DEF R
<1> HIDE DEF below
<1>8. below \in Walks(g) /\ KeepsRoots(w, below)
  BY <1>7
<1> QED
  BY <1>8 DEF below, tv, w0

LEMMA VisitsKeep ==
    ASSUME NEW g, AllKnown(g), Layered(g)
    PROVE  \A w \in Walks(g) : VisitKeeps(g, w)
<1> DEFINE tv == TopoVisit(g)
           P == {v \in SUBSET DOMAIN g : \A w \in Walks(g) : w.visited = v => VisitKeeps(g, w)}
<1>1. ASSUME NEW v \in SUBSET DOMAIN g,
             \A t \in SUBSET DOMAIN g : v \subseteq t /\ v # t => t \in P
      PROVE  v \in P
  <2> SUFFICES ASSUME NEW w \in Walks(g), w.visited = v, NEW id \in DOMAIN g,
                      Namespace(id) # 0 \/ id \in w.visited
               PROVE  KeepsRoots(w, tv[w][id])
    BY DEF VisitKeeps
  <2>1. tv[w][id] = TopoCall(g, tv, w, id)
    BY TopoVisitIs DEF TopoEquation
  <2>2. CASE id \in w.visited
    BY <2>1, <2>2 DEF TopoCall, KeepsRoots
  <2>3. CASE id \notin w.visited
    <3> DEFINE below == VisitAll(tv, Enter(w, id), g[id])
    <3>1. ASSUME NEW u \in Walks(g), w.visited \cup {id} \subseteq u.visited
          PROVE  VisitKeeps(g, u)
      <4>1. u.visited \in SUBSET DOMAIN g
        BY DEF Walks
      <4>2. u.visited \in P
        <5> HIDE DEF P
        <5> QED
          BY <1>1, <2>3, <3>1, <4>1
      <4> QED
        BY <4>2
    <3>2. \A dep \in g[id] : Namespace(dep) # 0 \/ dep \in w.visited
      BY <2>3 DEF Layered
    <3>3. below \in Walks(g) /\ KeepsRoots(w, below)
      BY <3>1, <3>2, BelowKeeps
    <3>4. tv[w][id] = Leave(below, id)
      BY <2>1, <2>3 DEF TopoCall
    <3> HIDE DEF below, tv
    <3>5. tv[w][id].order = Append(below.order, id) /\ below.order \in Seq(DOMAIN g)
      <4>1. below.order \in Seq(DOMAIN g)
        BY <3>3 DEF Walks
      <4>2. Leave(below, id).order = Append(below.order, id)
        BY <3>3, EnterLeave
      <4> QED
        BY <3>4, <4>1, <4>2
    <3>6. /\ RootsOf(Append(below.order, id)) = RootsOf(below.order)
          /\ Ascends(below.order) => Ascends(Append(below.order, id))
      BY <2>3, <3>5, AppendedChild
    <3> QED
      BY <3>3, <3>5, <3>6 DEF KeepsRoots
  <2> QED
    BY <2>2, <2>3
<1> HIDE DEF P
<1>2. SUBSET DOMAIN g \subseteq P
  <2>1. IsFiniteSet(DOMAIN g)
    BY CompleteGraph
  <2> QED
    BY <1>1, <2>1, SupersetInduct
<1>3. ASSUME NEW w \in Walks(g)
      PROVE  w.visited \in P
  BY <1>2 DEF Walks
<1> QED
  BY <1>3 DEF P

\* The walk lists the roots of such a graph in the order of their ids.
LEMMA RootsAscend ==
    ASSUME NEW g, AllKnown(g), Layered(g)
    PROVE  Ascends(TopoWalk(g))
<1> DEFINE tv == TopoVisit(g)
           w0 == [visited |-> {}, order |-> <<>>]
           Good(u, done) ==
               /\ done \subseteq u.visited
               /\ RootsOf(u.order) \subseteq done
               /\ Ascends(u.order)
           R == [done \in SUBSET DOMAIN g |-> {u \in Walks(g) : Good(u, done)}]
           all == VisitAll(tv, w0, DOMAIN g)
<1>1. w0 \in R[{}]
  <2>1. w0 \in Walks(g)
    BY DEF Walks
  <2>2. Good(w0, {})
    BY DEF RootsOf, Ascends, Range
  <2> HIDE DEF w0, Good
  <2> QED
    BY <2>1, <2>2
<1>2. ASSUME NEW id \in DOMAIN g, NEW u \in R[{j \in DOMAIN g : j < id}]
      PROVE  tv[u][id] \in R[{j \in DOMAIN g : j < id} \cup {id}]
  <2> DEFINE done == {j \in DOMAIN g : j < id}
             r == tv[u][id]
  <2>1. u \in Walks(g) /\ Good(u, done)
    OBVIOUS
  <2>2. r = TopoCall(g, tv, u, id)
    BY <2>1, TopoVisitIs DEF TopoEquation
  <2>3. r \in Walks(g) /\ u.visited \subseteq r.visited
    BY <2>1, TopoVisitType DEF TypedBeyond
  <2>4. Good(r, done \cup {id})
    <3>1. CASE id \in u.visited
      <4>1. r = u
        BY <2>2, <3>1 DEF TopoCall
      <4> QED
        BY <2>1, <3>1, <4>1
    <3>2. CASE id \notin u.visited
      <4> DEFINE below == VisitAll(tv, Enter(u, id), g[id])
      <4>1. \A dep \in g[id] : Namespace(dep) # 0 \/ dep \in u.visited
        <5> SUFFICES ASSUME NEW dep \in g[id], Namespace(dep) = 0
                     PROVE  dep \in u.visited
          OBVIOUS
        <5>1. dep < id /\ dep \in DOMAIN g
          BY CompleteGraph DEF Layered
        <5> QED
          BY <2>1, <5>1
      <4>2. below \in Walks(g) /\ KeepsRoots(u, below)
        BY <2>1, <4>1, VisitsKeep, BelowKeeps
      <4>3. r = Leave(below, id)
        BY <2>2, <3>2 DEF TopoCall
      <4> HIDE DEF below, r
      <4>4. /\ r.order = Append(below.order, id)
            /\ below.order \in Seq(DOMAIN g)
            /\ r.visited = below.visited
        <5>1. below.order \in Seq(DOMAIN g)
          BY <4>2 DEF Walks
        <5>2. /\ Leave(below, id).order = Append(below.order, id)
              /\ Leave(below, id).visited = below.visited
          BY <4>2, EnterLeave
        <5> QED
          BY <4>3, <5>1, <5>2
      <4>5. Ascends(below.order) /\ RootsOf(below.order) \subseteq done
        BY <2>1, <4>2 DEF KeepsRoots
      <4>6. /\ RootsOf(r.order) \subseteq RootsOf(below.order) \cup {id}
            /\ Ascends(r.order)
        <5>1. \A y \in RootsOf(below.order) : y < id
          BY <4>5
        <5> QED
          BY <4>4, <4>5, <5>1, AppendedRoot
      <4>7. id \in r.visited
        <5>1. below \in Beyond(g, u.visited \cup {id})
          <6>1. TypedBeyond(g, u.visited \cup {id}, tv) /\ AgreeBeyond(g, u.visited \cup {id}, tv, tv)
            BY TopoVisitType DEF TypedBeyond, AgreeBeyond
          <6> QED
            BY <2>1, <6>1, TopoBelowAgree DEF below
        <5> QED
          BY <4>4, <5>1 DEF Beyond
      <4> QED
        BY <2>1, <2>3, <4>5, <4>6, <4>7
    <3> QED
      BY <3>1, <3>2
  <2>5. done \cup {id} \in SUBSET DOMAIN g
    OBVIOUS
  <2> HIDE DEF done, r, tv, Good
  <2>6. r \in R[done \cup {id}]
    BY <2>3, <2>4, <2>5
  <2> HIDE DEF R
  <2> QED
    BY <2>6 DEF done, r
<1>3. DOMAIN g \in SUBSET Nat /\ IsFiniteSet(DOMAIN g)
  BY CompleteGraph
<1> HIDE DEF R, tv, w0
<1>4. all \in R[DOMAIN g]
  BY <1>1, <1>2, <1>3, VisitAllInOrder
<1> HIDE DEF all
<1>5. all \in Walks(g) /\ Good(all, DOMAIN g)
  BY <1>4 DEF R
<1>6. TopoWalk(g) = all.order
  BY DEF TopoWalk, all, tv, w0
<1> QED
  BY <1>5, <1>6

----------------------------------------------------------------------------
(* The graph of a history: the files in ids, and the child history ch.     *)

RootNumbers == 0..(NsWidth - 1)

RootsIn(ids) == {id \in ids : Namespace(id) = 0}

HistoryGraph(tree, ids, ch) == Joined([id \in ids |-> tree[id].deps], ch)

\* ids, read from tree, lacks none of its dependencies.
WholeTree(tree, ids, ch) ==
    /\ ids \subseteq RootNumbers
    /\ \A id \in ids :
          /\ tree[id].deps \subseteq ids \cup DOMAIN ch
          /\ \A dep \in tree[id].deps : Namespace(dep) = 0 => Number(dep) < Number(id)

ChildHistory(ch) ==
    /\ FiniteGraph(ch) /\ UnknownDependencies(ch) = {} /\ Acyclic(ch)
    /\ \A id \in DOMAIN ch : Namespace(id) # 0

\* Root ids and their numbers.
LEMMA RootArithmetic ==
    /\ \A id \in RootNumbers : Namespace(id) = 0 /\ Number(id) \in Nat
    /\ \A a, b \in RootNumbers : Number(a) < Number(b) => a < b
    /\ \A n \in 1..(NsWidth \div NameWidth - 1) : \A name \in 0..(NameWidth - 1) :
          MakeId(n, name) \in RootNumbers /\ Number(MakeId(n, name)) = n
<1>1. NsWidth = 1000 /\ NameWidth = 10 /\ NsWidth \div NameWidth - 1 = 99
  BY DEF NsWidth, NameWidth
<1>2. ASSUME NEW id \in 0..999
      PROVE  Namespace(id) = 0 /\ Number(id) = id \div 10 /\ id \div 10 \in Nat
  <2>1. id \div 1000 = 0 /\ id % 1000 = id /\ id \div 10 \in Nat
    OBVIOUS
  <2> QED
    BY <1>1, <2>1 DEF Namespace, Number
<1>3. \A a, b \in 0..999 : a \div 10 < b \div 10 => a < b
  OBVIOUS
<1>4. ASSUME NEW n \in 1..99, NEW name \in 0..9
      PROVE  n * 10 + name \in 0..999 /\ (n * 10 + name) \div 10 = n
  OBVIOUS
<1> QED
  <2>1. RootNumbers = 0..999 /\ NameWidth - 1 = 9
    BY <1>1 DEF RootNumbers
  <2>2. ASSUME NEW a \in RootNumbers, NEW b \in RootNumbers, Number(a) < Number(b)
        PROVE  a < b
    <3>1. a \in 0..999 /\ b \in 0..999
      BY <2>1
    <3>2. Number(a) = a \div 10 /\ Number(b) = b \div 10
      BY <1>2, <3>1
    <3>3. a \div 10 < b \div 10
      BY <2>2, <3>2
    <3> QED
      BY <1>3, <3>1, <3>3
  <2>3. ASSUME NEW n \in 1..(NsWidth \div NameWidth - 1), NEW name \in 0..(NameWidth - 1)
        PROVE  MakeId(n, name) \in RootNumbers /\ Number(MakeId(n, name)) = n
    <3>1. n \in 1..99 /\ name \in 0..9
      BY <1>1, <2>1
    <3>2. MakeId(n, name) = n * 10 + name
      BY <1>1 DEF MakeId
    <3>3. MakeId(n, name) \in 0..999 /\ MakeId(n, name) \div 10 = n
      BY <1>4, <3>1, <3>2
    <3> QED
      BY <1>2, <2>1, <3>3
  <2>4. \A id \in RootNumbers : Namespace(id) = 0 /\ Number(id) \in Nat
    <3> SUFFICES ASSUME NEW id \in RootNumbers
                 PROVE  Namespace(id) = 0 /\ Number(id) \in Nat
      OBVIOUS
    <3>1. id \in 0..999
      BY <2>1
    <3>2. Number(id) = id \div 10 /\ id \div 10 \in Nat /\ Namespace(id) = 0
      BY <1>2, <3>1
    <3> QED
      BY <3>2
  <2> QED
    BY <2>2, <2>3, <2>4

LEMMA TreeGraphShape ==
    ASSUME NEW tree, NEW ids, NEW ch, WholeTree(tree, ids, ch), ChildHistory(ch)
    PROVE  LET g == HistoryGraph(tree, ids, ch)
           IN  /\ DOMAIN g = ids \cup DOMAIN ch
               /\ \A id \in ids : Namespace(id) = 0 /\ g[id] = tree[id].deps
               /\ \A id \in DOMAIN ch : Namespace(id) # 0 /\ g[id] = ch[id] /\ ch[id] \subseteq DOMAIN ch
               /\ AllKnown(g)
               /\ Layered(g)
<1> DEFINE g == HistoryGraph(tree, ids, ch)
<1>1. /\ DOMAIN g = ids \cup DOMAIN ch
      /\ g = [id \in DOMAIN g |-> g[id]]
      /\ \A id \in ids : g[id] = tree[id].deps
      /\ \A id \in DOMAIN ch \ ids : g[id] = ch[id]
  BY DEF HistoryGraph, Joined
<1>2. \A id \in ids : Namespace(id) = 0 /\ id \in RootNumbers
  BY RootArithmetic DEF WholeTree
<1>3. \A id \in DOMAIN ch : Namespace(id) # 0 /\ g[id] = ch[id] /\ ch[id] \subseteq DOMAIN ch
  BY <1>1, <1>2 DEF ChildHistory, UnknownDependencies, Range
<1> HIDE DEF g
<1>4. \A id \in DOMAIN g : g[id] \subseteq DOMAIN g
  BY <1>1, <1>3 DEF WholeTree
<1>5. UnknownDependencies(g) = {} /\ Nodes(g) = DOMAIN g
  BY <1>4 DEF UnknownDependencies, Nodes, Range
<1>6. IsFiniteSet(DOMAIN g) /\ DOMAIN g \subseteq Nat
  <2>1. IsFiniteSet(RootNumbers) /\ RootNumbers \subseteq Nat
    <3>1. NsWidth - 1 \in Int
      BY DEF NsWidth
    <3> QED
      BY <3>1, FS_Interval DEF RootNumbers
  <2>2. IsFiniteSet(ids)
    BY <2>1, FS_Subset DEF WholeTree
  <2>3. IsFiniteSet(DOMAIN ch) /\ DOMAIN ch \in SUBSET Nat
    BY NodesOf DEF ChildHistory
  <2>4. IsFiniteSet(ids \cup DOMAIN ch)
    BY <2>2, <2>3, FS_Union
  <2> QED
    BY <1>1, <2>1, <2>3, <2>4 DEF WholeTree
<1>7. AllKnown(g)
  BY <1>1, <1>5, <1>6 DEF AllKnown, FiniteGraph
<1>8. Layered(g)
  <2> SUFFICES ASSUME NEW id \in DOMAIN g, NEW dep \in g[id], Namespace(dep) = 0
               PROVE  Namespace(id) = 0 /\ dep < id
    BY DEF Layered
  <2>1. id \in ids
    BY <1>1, <1>3
  <2>2. dep \in ids /\ Number(dep) < Number(id)
    BY <1>1, <1>3, <2>1 DEF WholeTree
  <2> QED
    BY <1>2, <2>1, <2>2, RootArithmetic
<1> QED
  BY <1>1, <1>2, <1>3, <1>7, <1>8 DEF g

\* Such a graph has no cycle: children are below children only, and among the roots
\* dependencies go from larger to smaller ids.
LEMMA TreeGraphAcyclic ==
    ASSUME NEW tree, NEW ids, NEW ch, WholeTree(tree, ids, ch), ChildHistory(ch)
    PROVE  Acyclic(HistoryGraph(tree, ids, ch))
<1> DEFINE g == HistoryGraph(tree, ids, ch)
<1>1. /\ DOMAIN g = ids \cup DOMAIN ch
      /\ \A id \in ids : Namespace(id) = 0 /\ g[id] = tree[id].deps
      /\ \A id \in DOMAIN ch : Namespace(id) # 0 /\ g[id] = ch[id] /\ ch[id] \subseteq DOMAIN ch
      /\ AllKnown(g)
      /\ Layered(g)
  BY TreeGraphShape
<1> HIDE DEF g
<1>2. DOMAIN g \in SUBSET Nat /\ Nodes(g) = DOMAIN g
  BY <1>1, CompleteGraph
<1>3. ASSUME NEW id \in ids
      PROVE  id \notin Under(g, id)
  <2> DEFINE S == {x \in DOMAIN g : Namespace(x) = 0 => x < id}
  <2>1. DepsOf(g, id) \subseteq S
    BY <1>1, CompleteGraph DEF DepsOf, Layered
  <2>2. Closed(g, S)
    <3> SUFFICES ASSUME NEW x \in S, NEW dep \in DepsOf(g, x)
                 PROVE  dep \in S
      BY DEF Closed
    <3>1. x \in DOMAIN g /\ dep \in g[x] /\ dep \in DOMAIN g
      BY <1>1, CompleteGraph DEF DepsOf
    <3>2. Namespace(dep) = 0 => Namespace(x) = 0 /\ dep < x
      BY <1>1, <3>1 DEF Layered
    <3>3. Namespace(dep) = 0 => dep < x /\ x < id
      BY <3>2
    <3>4. dep \in Nat /\ x \in Nat /\ id \in Nat
      BY <1>1, <1>2, <3>1
    <3>5. Namespace(dep) = 0 => dep < id
      BY <3>3, <3>4
    <3> QED
      BY <3>1, <3>5
  <2>3. Under(g, id) \subseteq S
    <3>1. S \in SUBSET Nodes(g)
      BY <1>2
    <3> HIDE DEF S
    <3> QED
      BY <2>1, <2>2, <3>1, UnderLeast
  <2>4. ~(id < id)
    BY <1>1, <1>2
  <2> QED
    BY <1>1, <2>3, <2>4
<1>4. ASSUME NEW id \in DOMAIN ch
      PROVE  id \notin Under(g, id)
  <2> DEFINE S == Under(ch, id)
  <2>1. DepsOf(ch, id) \subseteq S /\ Closed(ch, S) /\ S \subseteq Nodes(ch)
    BY UnderHolds DEF ChildHistory
  <2>2. Nodes(ch) = DOMAIN ch
    BY DEF Nodes, ChildHistory, UnknownDependencies
  <2>3. \A x \in DOMAIN ch : DepsOf(g, x) = DepsOf(ch, x)
    BY <1>1 DEF DepsOf
  <2>4. id \notin S
    BY <2>2 DEF ChildHistory, Acyclic
  <2> HIDE DEF S
  <2>5. DepsOf(g, id) \subseteq S /\ Closed(g, S) /\ S \in SUBSET Nodes(g)
    BY <1>1, <1>2, <2>1, <2>2, <2>3 DEF Closed
  <2> QED
    BY <2>4, <2>5, UnderLeast
<1>5. Acyclic(g)
  BY <1>1, <1>2, <1>3, <1>4 DEF Acyclic
<1> QED
  BY <1>5 DEF g

\* What the graph of a whole tree is.
HistoryShape(g, tree, ids, ch) ==
    /\ DOMAIN g = ids \cup DOMAIN ch
    /\ RootsIn(DOMAIN g) = ids
    /\ \A id \in ids : g[id] = tree[id].deps
    /\ AllKnown(g) /\ Acyclic(g) /\ Layered(g)
    /\ TopologicalOrder(g).ok
    /\ TopologicalOrder(g).order = TopoWalk(g)

LEMMA TreeGraph ==
    ASSUME NEW tree, NEW ids, NEW ch, WholeTree(tree, ids, ch), ChildHistory(ch)
    PROVE  HistoryShape(HistoryGraph(tree, ids, ch), tree, ids, ch)
<1> DEFINE g == HistoryGraph(tree, ids, ch)
<1>1. /\ DOMAIN g = ids \cup DOMAIN ch
      /\ \A id \in ids : Namespace(id) = 0 /\ g[id] = tree[id].deps
      /\ \A id \in DOMAIN ch : Namespace(id) # 0 /\ g[id] = ch[id] /\ ch[id] \subseteq DOMAIN ch
      /\ AllKnown(g)
      /\ Layered(g)
  BY TreeGraphShape
<1>2. Acyclic(g)
  BY TreeGraphAcyclic
<1> HIDE DEF g
<1>3. RootsIn(DOMAIN g) = ids
  BY <1>1 DEF RootsIn
<1>4. TopologicalOrder(g).ok /\ TopologicalOrder(g) = [ok |-> TRUE, order |-> TopoWalk(g)]
  BY <1>1, <1>2, TopologicalOrderIsRight DEF AllKnown
<1>5. HistoryShape(g, tree, ids, ch)
  BY <1>1, <1>2, <1>3, <1>4 DEF HistoryShape
<1> QED
  BY <1>5 DEF g

----------------------------------------------------------------------------
(* The inductive invariant.                                                *)

\* What a migration (a file, or the job of a command) saw is in tree, holds its
\* dependencies, and has the smaller numbers.
Authored(m, id, tree, ch) ==
    /\ m.deps \subseteq m.saw
    /\ m.saw \subseteq DOMAIN tree \cup DOMAIN ch
    /\ \A seen \in m.saw : Namespace(seen) = 0 => Number(seen) < Number(id)

FilesOk(tree, ch) ==
    /\ DOMAIN tree \subseteq RootNumbers
    /\ \A id \in DOMAIN tree : Authored(tree[id], id, tree, ch)

\* The compiled history is one the directory once had.
CompiledOk(ids, tree, ch) ==
    /\ ids \subseteq DOMAIN tree
    /\ \A id \in ids : tree[id].deps \subseteq ids \cup DOMAIN ch

\* The job depends on a head of the root namespace its command saw, if there was
\* one, and a merge on all heads.
Planned(j, tree, ch) ==
    LET g == HistoryGraph(tree, RootsIn(j.saw), ch)
    IN  /\ RootHeads(g) # {} => \E head \in RootHeads(g) : head \in j.deps
        /\ j.merge => j.deps = Heads(g)

JobOk(j, tree, ch) ==
    /\ j.id \in RootNumbers
    /\ Authored(j, j.id, tree, ch)
    /\ Planned(j, tree, ch)

Shape ==
    /\ setup \in Setups
    /\ files = [d \in Dirs |-> files[d]]
    /\ compiled = [d \in Dirs |-> compiled[d]]
    /\ pc = [w \in Workers |-> pc[w]]
    /\ job = [w \in Workers |-> job[w]]

HistoryInv ==
    /\ Shape
    /\ \A d \in Dirs : /\ FilesOk(files[d], Children)
                       /\ CompiledOk(compiled[d], files[d], Children)
    /\ \A w \in Workers : pc[w] # "idle" => JobOk(job[w], files[Home[w]], Children)


LEMMA SetupFacts ==
    ASSUME Shape
    PROVE  /\ ChildHistory(Children)
           /\ MaxNumber \in 1..(NsWidth \div NameWidth - 1)
           /\ \A w \in Workers : Home[w] \in Dirs
           /\ \A d \in Dirs : Children = <<>> \/ d \in Embedded
<1>1. /\ MaxNumber \in 1..(NsWidth \div NameWidth - 1)
      /\ Children \in [DOMAIN Children -> SUBSET Nat]
      /\ IsFiniteSet(Nodes(Children))
      /\ \A id \in DOMAIN Children : id \in Nat /\ Namespace(id) # 0
      /\ TopologicalOrder(Children).ok
      /\ \A w \in Workers : Children = <<>> \/ Home[w] \in Embedded
  BY SetupsAssumption DEF Shape, Children, Home, Embedded, MaxNumber
<1>2. FiniteGraph(Children)
  <2>1. Nodes(Children) \subseteq Nat
    BY <1>1 DEF Nodes, Range
  <2> QED
    BY <1>1, <2>1 DEF FiniteGraph
<1>3. Acyclic(Children) /\ UnknownDependencies(Children) = {}
  BY <1>1, <1>2, TopologicalOrderIsRight
<1> QED
  BY <1>1, <1>2, <1>3 DEF ChildHistory, Dirs

LEMMA LoadedIs ==
    ASSUME Shape, NEW d \in Dirs, NEW ids
    PROVE  Loaded(d, ids) = HistoryGraph(files[d], ids, Children)
<1>1. d \in Embedded \/ Children = <<>>
  BY SetupFacts
<1> QED
  BY <1>1 DEF Loaded, HistoryGraph

LEMMA FilesAreWhole ==
    ASSUME NEW tree, NEW ch, FilesOk(tree, ch)
    PROVE  WholeTree(tree, DOMAIN tree, ch)
  BY DEF FilesOk, WholeTree, Authored

LEMMA SnapshotIs ==
    ASSUME Shape, NEW d \in Dirs, FilesOk(files[d], Children),
           CompiledOk(compiled[d], files[d], Children)
    PROVE  \E ids \in SUBSET DOMAIN files[d] :
              /\ Snapshot(d) = HistoryGraph(files[d], ids, Children)
              /\ WholeTree(files[d], ids, Children)
<1>1. CASE d \in Embedded
  <2>1. Snapshot(d) = HistoryGraph(files[d], compiled[d], Children)
    BY <1>1, LoadedIs DEF Snapshot
  <2>2. WholeTree(files[d], compiled[d], Children)
    BY DEF WholeTree, FilesOk, CompiledOk, Authored
  <2> QED
    BY <2>1, <2>2 DEF CompiledOk
<1>2. CASE d \notin Embedded
  <2>1. Snapshot(d) = HistoryGraph(files[d], DOMAIN files[d], Children)
    BY <1>2, LoadedIs DEF Snapshot
  <2> QED
    BY <2>1, FilesAreWhole
<1> QED
  BY <1>1, <1>2

\* The last migration of a namespace is one of the graph; that of the root
\* namespace is a head, when the root namespace has one.
LEMMA LastOfIs ==
    ASSUME NEW g, AllKnown(g), Acyclic(g), Layered(g), NEW ns
    PROVE  /\ LastOf(g, ns) \subseteq DOMAIN g
           /\ RootHeads(g) # {} => \E head \in RootHeads(g) : head \in LastOf(g, 0)
<1> DEFINE order == TopologicalOrder(g).order
           mine(k) == {i \in DOMAIN order : Namespace(order[i]) = k}
<1>1. /\ order \in Seq(DOMAIN g)
      /\ Range(order) = DOMAIN g
      /\ Distinct(order)
      /\ DepsFirst(g, order)
  BY TopologicalOrderIsRight DEF AllKnown
<1>2. \A k : LastOf(g, k) = IF mine(k) = {} THEN {} ELSE {order[Max(mine(k))]}
  BY DEF LastOf
<1> HIDE DEF order
<1>3. Len(order) \in Nat /\ DOMAIN order = 1..Len(order) /\ \A i \in DOMAIN order : order[i] \in DOMAIN g
  BY <1>1
<1>4. ASSUME NEW k, mine(k) # {}
      PROVE  Max(mine(k)) \in mine(k) /\ \A i \in mine(k) : i <= Max(mine(k))
  <2>1. mine(k) \in SUBSET Nat /\ \A i \in mine(k) : i <= Len(order)
    BY <1>3
  <2> HIDE DEF mine
  <2> QED
    BY <1>3, <1>4, <2>1, MaxExists
<1>5. LastOf(g, ns) \subseteq DOMAIN g
  <2>1. CASE mine(ns) = {}
    BY <1>2, <2>1
  <2>2. CASE mine(ns) # {}
    <3>1. Max(mine(ns)) \in DOMAIN order
      BY <1>4, <2>2
    <3>2. order[Max(mine(ns))] \in DOMAIN g
      BY <1>3, <3>1
    <3> HIDE DEF mine
    <3> QED
      BY <1>2, <2>2, <3>2
  <2> QED
    BY <2>1, <2>2
<1>6. ASSUME RootHeads(g) # {}
      PROVE  \E head \in RootHeads(g) : head \in LastOf(g, 0)
  <2>1. mine(0) # {}
    <3>1. PICK root \in RootHeads(g) : TRUE
      BY <1>6
    <3>2. root \in DOMAIN g /\ Namespace(root) = 0
      BY DEF RootHeads, Heads
    <3>3. PICK i \in DOMAIN order : order[i] = root
      BY <1>1, <3>2 DEF Range
    <3> QED
      BY <3>2, <3>3
  <2> DEFINE m == Max(mine(0))
             last == order[m]
  <2>2. m \in DOMAIN order /\ Namespace(last) = 0 /\ \A i \in mine(0) : i <= m
    BY <1>4, <2>1
  <2> HIDE DEF m
  <2>3. last \in DOMAIN g
    BY <1>3, <2>2
  <2>4. ASSUME NEW id \in DOMAIN g, last \in g[id]
        PROVE  FALSE
    <3>1. Namespace(id) = 0
      BY <2>2, <2>4 DEF Layered
    <3>2. PICK j \in DOMAIN order : order[j] = id
      BY <1>1 DEF Range
    <3>3. PICK i \in DOMAIN order : i < j /\ order[i] = last
      BY <1>1, <2>4, <3>2 DEF DepsFirst
    <3>4. i = m
      BY <1>1, <2>2, <3>3 DEF Distinct
    <3>5. j <= m
      BY <2>2, <3>1, <3>2
    <3> QED
      BY <1>3, <2>2, <3>3, <3>4, <3>5
  <2>5. last \in RootHeads(g)
    BY <2>2, <2>3, <2>4 DEF RootHeads, Heads, Range
  <2>6. last \in LastOf(g, 0)
    BY <1>2, <2>1 DEF m
  <2> QED
    BY <2>5, <2>6
<1> QED
  BY <1>5, <1>6

\* The next number is above all numbers of the root namespace.
LEMMA NextNumberIsAbove ==
    ASSUME NEW g, NEW ids \in SUBSET RootNumbers, RootsIn(DOMAIN g) = ids
    PROVE  /\ NextNumber(g) \in Nat /\ NextNumber(g) >= 1
           /\ \A id \in ids : Number(id) < NextNumber(g)
<1> DEFINE S == {0} \cup {Number(id) : id \in ids}
<1>1. NextNumber(g) = 1 + Max(S)
  BY DEF NextNumber, RootsIn
<1>2. \A id \in RootNumbers : Number(id) \in 0..NsWidth
  <2>1. RootNumbers = 0..999 /\ NsWidth = 1000 /\ NameWidth = 10
    BY DEF RootNumbers, NsWidth, NameWidth
  <2>2. \A id \in 0..999 : (id % 1000) \div 10 \in 0..1000
    OBVIOUS
  <2> QED
    BY <2>1, <2>2 DEF Number
<1>3. NsWidth \in Nat
  BY DEF NsWidth
<1>4. S \in SUBSET Nat /\ S # {} /\ \A x \in S : x <= NsWidth
  BY <1>2, <1>3
<1> HIDE DEF S
<1>5. Max(S) \in S /\ \A x \in S : x <= Max(S)
  BY <1>3, <1>4, MaxExists
<1>6. Max(S) \in Nat
  BY <1>4, <1>5
<1>7. ASSUME NEW id \in ids
      PROVE  Number(id) <= Max(S) /\ Number(id) \in Nat
  <2>1. Number(id) \in S
    BY DEF S
  <2> QED
    BY <1>4, <1>5, <2>1
<1> QED
  BY <1>1, <1>6, <1>7

\* A plan from a snapshot is a job the invariant allows.
LEMMA PlanIsOk ==
    ASSUME HistoryInv, NEW w \in Workers, NEW name \in Names, NEW deps, NEW atomic, NEW merge,
           LET g == Snapshot(Home[w])
           IN  /\ Plan(w, g, name, deps, atomic, merge)
               /\ deps \subseteq DOMAIN g
               /\ RootHeads(g) # {} => \E head \in RootHeads(g) : head \in deps
               /\ merge => deps = Heads(g)
    PROVE  /\ UNCHANGED <<setup, files, compiled>>
           /\ Shape'
           /\ \A other \in Workers \ {w} : job'[other] = job[other] /\ pc'[other] = pc[other]
           /\ JobOk(job'[w], files[Home[w]], Children)
<1> DEFINE d == Home[w]
           g == Snapshot(d)
           id == MakeId(NextNumber(g), name)
           planned == [id |-> id, deps |-> deps, atomic |-> atomic, saw |-> DOMAIN g, merge |-> merge]
<1>1. d \in Dirs /\ Shape /\ FilesOk(files[d], Children) /\ CompiledOk(compiled[d], files[d], Children)
  BY SetupFacts DEF HistoryInv
<1>2. PICK ids \in SUBSET DOMAIN files[d] : /\ g = HistoryGraph(files[d], ids, Children)
                                            /\ WholeTree(files[d], ids, Children)
  BY <1>1, SnapshotIs
<1>3. /\ ChildHistory(Children)
      /\ MaxNumber \in 1..(NsWidth \div NameWidth - 1)
  BY <1>1, SetupFacts
<1>4. DOMAIN g = ids \cup DOMAIN Children /\ RootsIn(DOMAIN g) = ids
  <2>1. HistoryShape(g, files[d], ids, Children)
    BY <1>2, <1>3, TreeGraph
  <2> HIDE DEF g
  <2> QED
    BY <2>1 DEF HistoryShape
<1>5. ids \in SUBSET RootNumbers
  BY <1>2 DEF WholeTree
<1>6. /\ NextNumber(g) <= MaxNumber
      /\ job' = [job EXCEPT ![w] = planned]
      /\ pc' = [pc EXCEPT ![w] = "check"]
      /\ UNCHANGED <<setup, files, compiled>>
  BY DEF Plan
<1>7. /\ deps \subseteq DOMAIN g
      /\ RootHeads(g) # {} => \E head \in RootHeads(g) : head \in deps
      /\ merge => deps = Heads(g)
  OBVIOUS
<1> HIDE DEF g
<1>8. NextNumber(g) \in Nat /\ NextNumber(g) >= 1 /\ \A seen \in ids : Number(seen) < NextNumber(g)
  BY <1>4, <1>5, NextNumberIsAbove
<1>9. id \in RootNumbers /\ Number(id) = NextNumber(g)
  <2>1. NextNumber(g) \in 1..(NsWidth \div NameWidth - 1)
    <3>1. NsWidth \div NameWidth - 1 \in Int
      BY DEF NsWidth, NameWidth
    <3> HIDE DEF NsWidth, NameWidth
    <3> QED
      BY <1>3, <1>6, <1>8, <3>1
  <2>2. name \in 0..(NameWidth - 1)
    BY NamesAssumption
  <2> QED
    BY <2>1, <2>2, RootArithmetic
<1> HIDE DEF id
<1>10. /\ job'[w].id = id /\ job'[w].deps = deps /\ job'[w].saw = DOMAIN g /\ job'[w].merge = merge
       /\ \A other \in Workers \ {w} : job'[other] = job[other] /\ pc'[other] = pc[other]
       /\ job' = [x \in Workers |-> job'[x]] /\ pc' = [x \in Workers |-> pc'[x]]
  BY <1>1, <1>6 DEF Shape
<1>11. Shape'
  BY <1>1, <1>6, <1>10 DEF Shape, Dirs, Home
<1>12. Authored(job'[w], id, files[d], Children)
  <2>1. \A seen \in DOMAIN g : Namespace(seen) = 0 => Number(seen) < Number(id)
    BY <1>4, <1>8, <1>9 DEF RootsIn
  <2> QED
    BY <1>4, <1>7, <1>10, <2>1 DEF Authored
<1>13. Planned(job'[w], files[d], Children)
  <2>1. HistoryGraph(files[d], RootsIn(job'[w].saw), Children) = g
    BY <1>2, <1>4, <1>10
  <2> QED
    BY <1>7, <1>10, <2>1 DEF Planned
<1>14. JobOk(job'[w], files[Home[w]], Children)
  BY <1>9, <1>10, <1>12, <1>13 DEF JobOk
<1> QED
  BY <1>6, <1>10, <1>11, <1>14

----------------------------------------------------------------------------
(* Trees only grow, and what holds of a tree holds of one it grew to.      *)

TreeGrows(tree, later) ==
    \A id \in DOMAIN tree : id \in DOMAIN later /\ later[id] = tree[id]

LEMMA AuthoredStays ==
    ASSUME NEW m, NEW id, NEW tree, NEW later, NEW ch,
           Authored(m, id, tree, ch), TreeGrows(tree, later)
    PROVE  Authored(m, id, later, ch)
  BY DEF Authored, TreeGrows

LEMMA JobStays ==
    ASSUME NEW j, NEW tree, NEW later, NEW ch, FilesOk(tree, ch), ChildHistory(ch),
           JobOk(j, tree, ch), TreeGrows(tree, later)
    PROVE  JobOk(j, later, ch)
<1> DEFINE ids == RootsIn(j.saw)
<1>1. ids \subseteq DOMAIN tree
  BY DEF RootsIn, JobOk, Authored, ChildHistory
<1>2. HistoryGraph(tree, ids, ch) = HistoryGraph(later, ids, ch)
  <2>1. [id \in ids |-> tree[id].deps] = [id \in ids |-> later[id].deps]
    BY <1>1 DEF TreeGrows
  <2> QED
    BY <2>1 DEF HistoryGraph
<1> HIDE DEF ids
<1>3. Planned(j, later, ch)
  BY <1>2 DEF Planned, JobOk, ids
<1> QED
  BY <1>3, AuthoredStays DEF JobOk

LEMMA CompiledStays ==
    ASSUME NEW ids, NEW tree, NEW later, NEW ch,
           CompiledOk(ids, tree, ch), TreeGrows(tree, later)
    PROVE  CompiledOk(ids, later, ch)
  BY DEF CompiledOk, TreeGrows

\* Joining two trees, and storing a migration.
LEMMA JoinedOk ==
    ASSUME NEW tree, NEW other, NEW ch, FilesOk(tree, ch), FilesOk(other, ch)
    PROVE  LET later == Joined(tree, other)
           IN  FilesOk(later, ch) /\ TreeGrows(tree, later)
<1> DEFINE later == Joined(tree, other)
<1>1. /\ DOMAIN later = DOMAIN tree \cup DOMAIN other
      /\ \A id \in DOMAIN tree : later[id] = tree[id]
      /\ \A id \in DOMAIN other \ DOMAIN tree : later[id] = other[id]
  BY DEF Joined
<1> HIDE DEF later
<1>2. ASSUME NEW id \in DOMAIN later
      PROVE  Authored(later[id], id, later, ch)
  <2>1. CASE id \in DOMAIN tree
    BY <1>1, <2>1 DEF FilesOk, Authored
  <2>2. CASE id \notin DOMAIN tree
    BY <1>1, <2>2 DEF FilesOk, Authored
  <2> QED
    BY <2>1, <2>2
<1>3. FilesOk(later, ch) /\ TreeGrows(tree, later)
  BY <1>1, <1>2 DEF FilesOk, TreeGrows
<1> QED
  BY <1>3 DEF later

LEMMA InsertedOk ==
    ASSUME NEW tree, NEW ch, NEW id \in RootNumbers, NEW m,
           FilesOk(tree, ch), Authored(m, id, tree, ch), id \notin DOMAIN tree
    PROVE  LET later == Inserted(tree, id, m)
           IN  FilesOk(later, ch) /\ TreeGrows(tree, later)
<1> DEFINE later == Inserted(tree, id, m)
<1>1. /\ DOMAIN later = DOMAIN tree \cup {id}
      /\ \A x \in DOMAIN tree : later[x] = tree[x]
      /\ later[id] = m
  BY DEF Inserted
<1> HIDE DEF later
<1>2. ASSUME NEW x \in DOMAIN later
      PROVE  Authored(later[x], x, later, ch)
  <2>1. CASE x \in DOMAIN tree
    BY <1>1, <2>1 DEF FilesOk, Authored
  <2>2. CASE x \notin DOMAIN tree
    BY <1>1, <2>2 DEF Authored
  <2> QED
    BY <2>1, <2>2
<1>3. FilesOk(later, ch) /\ TreeGrows(tree, later)
  BY <1>1, <1>2 DEF FilesOk, TreeGrows
<1> QED
  BY <1>3 DEF later

\* What a make, an empty or a merge migration is planned to depend on.
LEMMA MakePlans ==
    ASSUME HistoryInv, NEW w \in Workers, NEW name \in Names, NEW touched,
           Make(w, name, touched) \/ MakeEmpty(w, name) \/ MakeMerge(w, name)
    PROVE  /\ UNCHANGED <<setup, files, compiled>>
           /\ Shape'
           /\ \A other \in Workers \ {w} : job'[other] = job[other] /\ pc'[other] = pc[other]
           /\ JobOk(job'[w], files[Home[w]], Children)
<1> DEFINE d == Home[w]
           g == Snapshot(d)
<1>1. d \in Dirs /\ Shape /\ FilesOk(files[d], Children) /\ CompiledOk(compiled[d], files[d], Children)
  BY SetupFacts DEF HistoryInv
<1>2. AllKnown(g) /\ Acyclic(g) /\ Layered(g)
  <2>1. PICK ids \in SUBSET DOMAIN files[d] : /\ g = HistoryGraph(files[d], ids, Children)
                                              /\ WholeTree(files[d], ids, Children)
    BY <1>1, SnapshotIs
  <2>2. HistoryShape(g, files[d], ids, Children)
    BY <1>1, <2>1, SetupFacts, TreeGraph
  <2> HIDE DEF g
  <2> QED
    BY <2>2 DEF HistoryShape
<1>3. RootHeads(g) \subseteq Heads(g) /\ Heads(g) \subseteq DOMAIN g
  BY DEF RootHeads, Heads
<1>4. CASE Make(w, name, touched)
  <2> DEFINE deps == ComputeDeps(g, touched)
  <2>1. Plan(w, g, name, deps, TransactionalDdl, FALSE)
    BY <1>4 DEF Make
  <2>2. /\ \A ns : LastOf(g, ns) \subseteq DOMAIN g
        /\ RootHeads(g) # {} => \E head \in RootHeads(g) : head \in LastOf(g, 0)
    BY <1>2, LastOfIs
  <2>3. /\ deps \subseteq DOMAIN g
        /\ LastOf(g, 0) \subseteq deps
    BY <2>2 DEF ComputeDeps
  <2> HIDE DEF deps
  <2> QED
    BY <2>1, <2>2, <2>3, PlanIsOk
<1>5. CASE MakeEmpty(w, name)
  <2>1. Plan(w, g, name, Heads(g), TransactionalDdl, FALSE)
    BY <1>5 DEF MakeEmpty
  <2> QED
    BY <1>3, <2>1, PlanIsOk
<1>6. CASE MakeMerge(w, name)
  <2>1. Plan(w, g, name, MergeDependencies(g).deps, TRUE, TRUE) /\ MergeDependencies(g).ok
    BY <1>6 DEF MakeMerge
  <2>2. MergeDependencies(g).deps = Heads(g)
    BY <2>1 DEF MergeDependencies
  <2> QED
    BY <1>3, <2>1, <2>2, PlanIsOk
<1> QED
  BY <1>4, <1>5, <1>6


----------------------------------------------------------------------------
(* Every step.                                                             *)

\* The tree a directory has after a step.
StepOk ==
    /\ setup' = setup
    /\ Shape'
    /\ \A d \in Dirs : /\ TreeGrows(files[d], files'[d])
                       /\ FilesOk(files'[d], Children)
                       /\ CompiledOk(compiled'[d], files'[d], Children)
    /\ \A w \in Workers : pc'[w] # "idle" => JobOk(job'[w], files'[Home[w]], Children)

\* A step that stores no file and builds no binary keeps the rest, when the job of
\* each command that is not idle is its old one or right.
LEMMA JobStep ==
    ASSUME HistoryInv, UNCHANGED <<setup, files, compiled>>, Shape',
           \A w \in Workers : pc'[w] # "idle" =>
               \/ pc[w] # "idle" /\ job'[w] = job[w]
               \/ JobOk(job'[w], files[Home[w]], Children)
    PROVE  StepOk
<1>1. \A d \in Dirs : /\ TreeGrows(files[d], files'[d])
                      /\ FilesOk(files'[d], Children)
                      /\ CompiledOk(compiled'[d], files'[d], Children)
  BY DEF HistoryInv, TreeGrows
<1>2. \A w \in Workers : pc'[w] # "idle" => JobOk(job'[w], files'[Home[w]], Children)
  BY DEF HistoryInv
<1> QED
  BY <1>1, <1>2 DEF StepOk

\* A step that changes no compiled history and lets trees grow well.
LEMMA TreeStep ==
    ASSUME HistoryInv, UNCHANGED <<setup, compiled>>, Shape',
           \A d \in Dirs : TreeGrows(files[d], files'[d]) /\ FilesOk(files'[d], Children),
           \A w \in Workers : pc'[w] # "idle" => pc[w] # "idle" /\ job'[w] = job[w]
    PROVE  StepOk
<1>1. ChildHistory(Children) /\ \A w \in Workers : Home[w] \in Dirs
  BY SetupFacts DEF HistoryInv
<1>2. ASSUME NEW d \in Dirs
      PROVE  CompiledOk(compiled'[d], files'[d], Children)
  <2>1. CompiledOk(compiled[d], files[d], Children) /\ TreeGrows(files[d], files'[d])
    BY DEF HistoryInv
  <2>2. CompiledOk(compiled[d], files'[d], Children)
    BY <2>1, CompiledStays
  <2> QED
    BY <2>2
<1>3. ASSUME NEW w \in Workers, pc'[w] # "idle"
      PROVE  JobOk(job'[w], files'[Home[w]], Children)
  <2> DEFINE d == Home[w]
  <2>1. d \in Dirs /\ JobOk(job[w], files[d], Children) /\ FilesOk(files[d], Children)
    BY <1>1, <1>3 DEF HistoryInv
  <2>2. TreeGrows(files[d], files'[d])
    BY <2>1
  <2>3. JobOk(job[w], files'[d], Children)
    BY <1>1, <2>1, <2>2, JobStays
  <2> QED
    BY <1>3, <2>3
<1> QED
  BY <1>2, <1>3 DEF StepOk

LEMMA ShapeStays ==
    ASSUME Shape, setup' = setup,
           files' = [d \in Dirs |-> files'[d]], compiled' = [d \in Dirs |-> compiled'[d]],
           pc' = [w \in Workers |-> pc'[w]], job' = [w \in Workers |-> job'[w]]
    PROVE  Shape'
<1>1. Dirs' = Dirs
  BY DEF Dirs, Home
<1> QED
  BY <1>1 DEF Shape

\* One value of a function over Dirs is replaced.
LEMMA OneChanges ==
    ASSUME NEW F, NEW G, NEW D, NEW d, NEW v, F = [x \in D |-> F[x]], G = [F EXCEPT ![d] = v]
    PROVE  /\ G = [x \in D |-> G[x]]
           /\ \A x \in D : G[x] = F[x] \/ (x = d /\ G[x] = v)
<1>1. DOMAIN F = D
  OBVIOUS
<1>2. G = [x \in D |-> IF x = d THEN v ELSE F[x]]
  BY <1>1
<1> QED
  BY ONLY <1>2

LEMMA FinishShape ==
    ASSUME Shape, NEW w \in Workers, Finish(w), setup' = setup
    PROVE  /\ pc' = [x \in Workers |-> pc'[x]] /\ job' = [x \in Workers |-> job'[x]]
           /\ pc'[w] = "idle"
           /\ \A x \in Workers \ {w} : pc'[x] = pc[x] /\ job'[x] = job[x]
  BY DEF Shape, Finish

LEMMA PersistStep ==
    ASSUME HistoryInv, NEW w \in Workers, Persist(w)
    PROVE  StepOk
<1> DEFINE d == Home[w]
           id == job[w].id
           saved == [deps |-> job[w].deps, field |-> WriteAtomic(job[w].atomic),
                     made |-> job[w].atomic, saw |-> job[w].saw]
<1>1. /\ pc[w] = "persist" /\ Finish(w) /\ UNCHANGED <<setup, compiled>>
      /\ files' = IF id \in DOMAIN files[d]
                    THEN files ELSE [files EXCEPT ![d] = Inserted(@, id, saved)]
  BY DEF Persist
<1>2. Shape /\ d \in Dirs /\ FilesOk(files[d], Children) /\ JobOk(job[w], files[d], Children)
  BY <1>1, SetupFacts DEF HistoryInv
<1>3. /\ pc' = [x \in Workers |-> pc'[x]] /\ job' = [x \in Workers |-> job'[x]]
      /\ pc'[w] = "idle"
      /\ \A x \in Workers \ {w} : pc'[x] = pc[x] /\ job'[x] = job[x]
  BY <1>1, <1>2, FinishShape
<1>4. Authored(saved, id, files[d], Children) /\ id \in RootNumbers
  BY <1>2 DEF JobOk, Authored
<1> HIDE DEF saved, id
<1>5. /\ files' = [x \in Dirs |-> files'[x]]
      /\ \A x \in Dirs : files'[x] = files[x]
            \/ (x = d /\ id \notin DOMAIN files[d] /\ files'[x] = Inserted(files[d], id, saved))
  <2>1. files = [x \in Dirs |-> files[x]]
    BY <1>2 DEF Shape
  <2>2. CASE files' = files
    BY <2>1, <2>2
  <2>3. CASE id \notin DOMAIN files[d] /\ files' = [files EXCEPT ![d] = Inserted(files[d], id, saved)]
    BY <2>1, <2>3, OneChanges
  <2> QED
    BY <1>1, <2>2, <2>3
<1>6. Shape'
  <2>1. compiled' = [x \in Dirs |-> compiled'[x]]
    BY <1>1, <1>2 DEF Shape
  <2> QED
    BY <1>1, <1>2, <1>3, <1>5, <2>1, ShapeStays
<1>7. ASSUME NEW x \in Dirs
      PROVE  TreeGrows(files[x], files'[x]) /\ FilesOk(files'[x], Children)
  <2>1. FilesOk(files[x], Children)
    BY DEF HistoryInv
  <2>2. CASE files'[x] = files[x]
    BY <2>1, <2>2 DEF TreeGrows
  <2>3. CASE x = d /\ id \notin DOMAIN files[d] /\ files'[x] = Inserted(files[d], id, saved)
    BY <1>4, <2>1, <2>3, InsertedOk
  <2> QED
    BY <1>5, <2>2, <2>3
<1>8. \A x \in Workers : pc'[x] # "idle" => pc[x] # "idle" /\ job'[x] = job[x]
  BY <1>3
<1> QED
  BY <1>1, <1>6, <1>7, <1>8, TreeStep

LEMMA PullStep ==
    ASSUME HistoryInv, NEW d \in Dirs, NEW from \in Dirs, Pull(d, from)
    PROVE  StepOk
<1>1. /\ files' = [files EXCEPT ![d] = Joined(@, files[from])]
      /\ UNCHANGED <<setup, compiled, pc, job>>
  BY DEF Pull
<1>2. Shape
  BY DEF HistoryInv
<1>3. /\ files' = [x \in Dirs |-> files'[x]]
      /\ \A x \in Dirs : files'[x] = files[x] \/ files'[x] = Joined(files[x], files[from])
  BY <1>1, <1>2 DEF Shape
<1>4. Shape'
  BY <1>1, <1>2, <1>3 DEF Shape, Dirs, Home
<1>5. ASSUME NEW x \in Dirs
      PROVE  TreeGrows(files[x], files'[x]) /\ FilesOk(files'[x], Children)
  <2>1. FilesOk(files[x], Children) /\ FilesOk(files[from], Children)
    BY DEF HistoryInv
  <2>2. CASE files'[x] = files[x]
    BY <2>1, <2>2 DEF TreeGrows
  <2>3. CASE files'[x] = Joined(files[x], files[from])
    BY <2>1, <2>3, JoinedOk
  <2> QED
    BY <1>3, <2>2, <2>3
<1> QED
  BY <1>1, <1>4, <1>5, TreeStep

LEMMA RebuildStep ==
    ASSUME HistoryInv, NEW d \in Dirs, Rebuild(d)
    PROVE  StepOk
<1>1. /\ compiled' = [compiled EXCEPT ![d] = DOMAIN files[d]]
      /\ UNCHANGED <<setup, files, pc, job>>
  BY DEF Rebuild
<1>2. Shape /\ FilesOk(files[d], Children)
  BY DEF HistoryInv
<1>3. /\ compiled' = [x \in Dirs |-> compiled'[x]]
      /\ \A x \in Dirs : compiled'[x] = compiled[x] \/ (x = d /\ compiled'[x] = DOMAIN files[d])
  BY <1>1, <1>2, OneChanges DEF Shape
<1>4. Shape'
  BY <1>1, <1>2, <1>3 DEF Shape, Dirs, Home
<1>5. CompiledOk(DOMAIN files[d], files[d], Children)
  BY <1>2 DEF CompiledOk, FilesOk, Authored
<1>6. \A x \in Dirs : /\ TreeGrows(files[x], files'[x])
                      /\ FilesOk(files'[x], Children)
                      /\ CompiledOk(compiled'[x], files'[x], Children)
  BY <1>1, <1>3, <1>5 DEF HistoryInv, TreeGrows
<1>7. \A w \in Workers : pc'[w] # "idle" => JobOk(job'[w], files'[Home[w]], Children)
  BY <1>1 DEF HistoryInv
<1> QED
  BY <1>1, <1>4, <1>6, <1>7 DEF StepOk

LEMMA NextStep ==
    ASSUME HistoryInv, [Next]_vars
    PROVE  StepOk
<1> Shape
  BY DEF HistoryInv
<1>1. ASSUME NEW w \in Workers, NEW name \in Names, NEW touched,
             Make(w, name, touched) \/ MakeEmpty(w, name) \/ MakeMerge(w, name)
      PROVE  StepOk
  <2>1. /\ UNCHANGED <<setup, files, compiled>>
        /\ Shape'
        /\ \A other \in Workers \ {w} : job'[other] = job[other] /\ pc'[other] = pc[other]
        /\ JobOk(job'[w], files[Home[w]], Children)
    BY <1>1, MakePlans
  <2> QED
    BY <2>1, JobStep
<1>2. ASSUME NEW w \in Workers, CheckExists(w) \/ Abandon(w)
      PROVE  StepOk
  <2>1. UNCHANGED <<setup, files, compiled>> /\ pc[w] # "idle"
    BY <1>2 DEF CheckExists, Abandon
  <2>2. Finish(w) \/ (pc' = [pc EXCEPT ![w] = "persist"] /\ UNCHANGED job)
    BY <1>2 DEF CheckExists, Abandon
  <2>3. /\ pc' = [x \in Workers |-> pc'[x]] /\ job' = [x \in Workers |-> job'[x]]
        /\ \A x \in Workers : pc'[x] # "idle" => pc[x] # "idle" /\ job'[x] = job[x]
    <3>1. CASE Finish(w)
      BY <2>1, <3>1, FinishShape
    <3>2. CASE pc' = [pc EXCEPT ![w] = "persist"] /\ UNCHANGED job
      BY <2>1, <3>2 DEF Shape
    <3> QED
      BY <2>2, <3>1, <3>2
  <2>4. Shape'
    BY <2>1, <2>3 DEF Shape, Dirs, Home
  <2> QED
    BY <2>1, <2>3, <2>4, JobStep
<1>3. CASE UNCHANGED vars
  <2>1. UNCHANGED <<setup, files, compiled, pc, job>>
    BY <1>3 DEF vars
  <2>2. Shape'
    BY <2>1 DEF Shape, Dirs, Home
  <2> QED
    BY <2>1, <2>2, JobStep
<1>4. CASE Next
  BY <1>1, <1>2, <1>4, PersistStep, PullStep, RebuildStep DEF Next
<1> QED
  BY <1>3, <1>4

\* The invariant holds of every reachable repository.
THEOREM HistoryInvariant == Spec => []HistoryInv
<1>1. Init => HistoryInv
  <2> SUFFICES ASSUME Init
               PROVE  HistoryInv
    OBVIOUS
  <2>1. /\ setup \in Setups
        /\ files = [d \in Dirs |-> <<>>]
        /\ compiled = [d \in Dirs |-> {}]
        /\ pc = [w \in Workers |-> "idle"]
        /\ job = [w \in Workers |-> NoJob]
    BY DEF Init
  <2>2. Shape
    BY <2>1 DEF Shape
  <2>3. ASSUME NEW d \in Dirs
        PROVE  FilesOk(files[d], Children) /\ CompiledOk(compiled[d], files[d], Children)
    <3>1. DOMAIN files[d] = {} /\ compiled[d] = {}
      BY <2>1
    <3> QED
      BY <3>1 DEF FilesOk, CompiledOk
  <2>4. \A w \in Workers : pc[w] = "idle"
    BY <2>1
  <2> QED
    BY <2>2, <2>3, <2>4 DEF HistoryInv
<1>2. HistoryInv /\ [Next]_vars => HistoryInv'
  <2> SUFFICES ASSUME HistoryInv, [Next]_vars
               PROVE  HistoryInv'
    OBVIOUS
  <2>1. StepOk
    BY NextStep
  <2>2. Dirs' = Dirs /\ Home' = Home /\ Children' = Children
    BY <2>1 DEF StepOk, Dirs, Home, Children
  <2> QED
    BY <2>1, <2>2 DEF StepOk, HistoryInv
<1> QED
  BY <1>1, <1>2, PTL DEF Spec

\* CommittedFilesNeverChange, for any number of commands, directories and names: a
\* store that lost the race writes nothing, and a pull keeps what is there.
THEOREM FilesNeverChange == Spec => CommittedFilesNeverChange
<1> DEFINE Kept == \A d \in Dirs : \A id \in DOMAIN files[d] :
                      id \in DOMAIN files'[d] /\ files'[d][id] = files[d][id]
<1>1. HistoryInv /\ [Next]_vars => Kept
  BY NextStep DEF StepOk, TreeGrows
<1>2. Spec => [][Kept]_vars
  BY <1>1, HistoryInvariant, PTL DEF Spec
<1> QED
  BY <1>2 DEF CommittedFilesNeverChange

\* The graph of a directory, in a good state.
LEMMA GraphIs ==
    ASSUME HistoryInv, NEW d \in Dirs
    PROVE  /\ HistoryShape(Graph(d), files[d], DOMAIN files[d], Children)
           /\ Graph(d) = HistoryGraph(files[d], DOMAIN files[d], Children)
<1>1. Shape /\ FilesOk(files[d], Children)
  BY DEF HistoryInv
<1>2. Graph(d) = HistoryGraph(files[d], DOMAIN files[d], Children)
  BY <1>1, LoadedIs DEF Graph
<1>3. WholeTree(files[d], DOMAIN files[d], Children) /\ ChildHistory(Children)
  BY <1>1, FilesAreWhole, SetupFacts
<1> QED
  BY <1>2, <1>3, TreeGraph

\* HistoryAlwaysOrders, for any number of commands, directories and names.
THEOREM AlwaysOrders == Spec => []HistoryAlwaysOrders
<1>1. HistoryInv => HistoryAlwaysOrders
  BY GraphIs DEF HistoryAlwaysOrders, HistoryShape
<1> QED
  BY <1>1, HistoryInvariant, PTL

\* NumbersGrowAlongDependencies: what a migration depends on its author saw, and the
\* number was chosen above all of it.
THEOREM NumbersGrow == Spec => []NumbersGrowAlongDependencies
<1>1. HistoryInv => NumbersGrowAlongDependencies
  BY DEF HistoryInv, FilesOk, Authored, NumbersGrowAlongDependencies
<1> QED
  BY <1>1, HistoryInvariant, PTL

\* OrderedAfterWhatItsAuthorSaw: the walk lists the root migrations in the order of
\* their numbers, whatever was pulled, and a new number is above all that was seen.
THEOREM OrderedAfterSeen == Spec => []OrderedAfterWhatItsAuthorSaw
<1>1. HistoryInv => OrderedAfterWhatItsAuthorSaw
  <2> SUFFICES ASSUME HistoryInv, NEW d \in Dirs, NEW id \in DOMAIN files[d],
                      NEW seen \in files[d][id].saw, Namespace(seen) = 0
               PROVE  LET order == TopologicalOrder(Graph(d)).order
                          At(x) == CHOOSE i \in DOMAIN order : order[i] = x
                      IN  At(seen) < At(id)
    BY DEF OrderedAfterWhatItsAuthorSaw
  <2> DEFINE g == Graph(d)
             order == TopologicalOrder(g).order
             At(x) == CHOOSE i \in DOMAIN order : order[i] = x
  <2>1. FilesOk(files[d], Children) /\ ChildHistory(Children)
    BY SetupFacts DEF HistoryInv
  <2>2. HistoryShape(g, files[d], DOMAIN files[d], Children)
    BY GraphIs
  <2> HIDE DEF g
  <2>3. /\ AllKnown(g) /\ Acyclic(g) /\ Layered(g) /\ order = TopoWalk(g)
        /\ DOMAIN g = DOMAIN files[d] \cup DOMAIN Children
    BY <2>2 DEF HistoryShape
  <2>4. Ascends(order)
    BY <2>3, RootsAscend
  <2>5. order \in Seq(DOMAIN g) /\ Range(order) = DOMAIN g
    BY <2>3, TopologicalOrderIsRight DEF AllKnown
  <2> HIDE DEF order
  <2>6. /\ seen \in DOMAIN files[d] /\ seen \in RootNumbers /\ id \in RootNumbers
        /\ Number(seen) < Number(id) /\ Namespace(id) = 0
    BY <2>1, RootArithmetic DEF FilesOk, Authored, ChildHistory
  <2>7. seen < id /\ seen \in Nat /\ id \in Nat
    <3>1. RootNumbers \subseteq Nat
      BY DEF RootNumbers
    <3> QED
      BY <2>6, <3>1, RootArithmetic
  <2>8. \A x \in DOMAIN g : At(x) \in DOMAIN order /\ order[At(x)] = x
    BY <2>5 DEF Range
  <2>9. seen \in DOMAIN g /\ id \in DOMAIN g
    BY <2>3, <2>6
  <2>10. At(seen) \in Nat /\ At(id) \in Nat
    BY <2>5, <2>8, <2>9
  <2>11. At(seen) # At(id)
    BY <2>7, <2>8, <2>9
  <2>12. ~(At(id) < At(seen))
    <3> SUFFICES ASSUME At(id) < At(seen)
                 PROVE  FALSE
      OBVIOUS
    <3>1. id < seen
      BY <2>4, <2>6, <2>8, <2>9 DEF Ascends
    <3> QED
      BY <2>7, <3>1
  <2> HIDE DEF At
  <2>13. At(seen) < At(id)
    BY <2>10, <2>11, <2>12
  <2> QED
    BY <2>13 DEF At, order, g
<1> QED
  BY <1>1, HistoryInvariant, PTL


----------------------------------------------------------------------------
(* What a save does to the heads.                                          *)

\* Only the worker's own persist step saves its migration.
LEMMA SavesIsPersist ==
    ASSUME Shape, [Next]_vars, NEW w \in Workers, Saves(w)
    PROVE  Persist(w)
<1>1. pc[w] = "persist" /\ pc'[w] = "idle" /\ files' # files
  BY DEF Saves
<1>2. Next
  BY <1>1 DEF vars
<1>3. ASSUME NEW x \in Workers, Persist(x)
      PROVE  Persist(w)
  <2>1. x = w
    BY <1>1, <1>3 DEF Persist, Finish, Shape
  <2> QED
    BY <1>3, <2>1
<1>4. ASSUME NEW x \in Workers, NEW name \in Names, NEW touched,
             Make(x, name, touched) \/ MakeEmpty(x, name) \/ MakeMerge(x, name)
      PROVE  FALSE
  BY <1>1, <1>4 DEF Make, MakeEmpty, MakeMerge, Plan
<1>5. ASSUME NEW x \in Workers, CheckExists(x) \/ Abandon(x)
      PROVE  FALSE
  BY <1>1, <1>5 DEF CheckExists, Abandon
<1>6. ASSUME NEW d \in Dirs, NEW from \in Dirs, Pull(d, from)
      PROVE  FALSE
  BY <1>1, <1>6 DEF Pull
<1>7. ASSUME NEW d \in Dirs, Rebuild(d)
      PROVE  FALSE
  BY <1>1, <1>7 DEF Rebuild
<1> QED
  BY <1>2, <1>3, <1>4, <1>5, <1>6, <1>7 DEF Next

\* h is g with x, which depends on deps and which nothing depends on.
NewNode(g, h, x, deps) ==
    /\ IsFiniteSet(DOMAIN g)
    /\ DOMAIN h = DOMAIN g \cup {x}
    /\ x \notin DOMAIN g
    /\ \A id \in DOMAIN g : h[id] = g[id]
    /\ h[x] = deps

LEMMA SaveAddsNode ==
    ASSUME HistoryInv, [Next]_vars, NEW w \in Workers, Saves(w),
           job[w].saw = DOMAIN Graph(Home[w])
    PROVE  LET g == Graph(Home[w])
           IN  /\ NewNode(g, Graph(Home[w])', job[w].id, job[w].deps)
               /\ RootHeads(g) # {} => \E head \in RootHeads(g) : head \in job[w].deps
               /\ job[w].merge => job[w].deps = Heads(g)
<1> DEFINE d == Home[w]
           g == Graph(d)
           h == Graph(d)'
           x == job[w].id
           saved == [deps |-> job[w].deps, field |-> WriteAtomic(job[w].atomic),
                     made |-> job[w].atomic, saw |-> job[w].saw]
<1>1. /\ Shape /\ d \in Dirs /\ ChildHistory(Children)
      /\ FilesOk(files[d], Children)
  BY SetupFacts DEF HistoryInv
<1>2. Persist(w)
  BY <1>1, SavesIsPersist
<1>3. JobOk(job[w], files[d], Children)
  BY <1>2 DEF HistoryInv, Persist
<1>4. /\ HistoryShape(g, files[d], DOMAIN files[d], Children)
      /\ g = HistoryGraph(files[d], DOMAIN files[d], Children)
  BY <1>1, GraphIs
<1>5. /\ setup' = setup /\ x \notin DOMAIN files[d]
      /\ files' = [files EXCEPT ![d] = Inserted(files[d], x, saved)]
  BY <1>2 DEF Persist, Saves
<1>6. files'[d] = Inserted(files[d], x, saved)
  <2>1. files = [y \in Dirs |-> files[y]]
    BY <1>1 DEF Shape
  <2> HIDE DEF saved, x, d
  <2> QED
    BY <1>1, <1>5, <2>1
<1>7. h = HistoryGraph(files'[d], DOMAIN files'[d], Children)
  <2>1. d \in Embedded \/ Children = <<>>
    BY <1>1, SetupFacts
  <2>2. h = Joined([id \in DOMAIN files'[d] |-> files'[d][id].deps],
                   IF d \in Embedded THEN Children ELSE <<>>)
    BY <1>5 DEF Graph, Loaded, Home, Embedded, Children
  <2> QED
    BY <2>1, <2>2 DEF HistoryGraph
<1>8. saved.deps = job[w].deps
  OBVIOUS
<1>9. DOMAIN g = DOMAIN files[d] \cup DOMAIN Children /\ IsFiniteSet(DOMAIN g)
  <2> HIDE DEF g
  <2> QED
    BY <1>4, CompleteGraph DEF HistoryShape
<1>10. RootsIn(job[w].saw) = DOMAIN files[d]
  <2> HIDE DEF g
  <2>1. RootsIn(DOMAIN g) = DOMAIN files[d]
    BY <1>4 DEF HistoryShape
  <2> QED
    BY <2>1 DEF g
<1>11. /\ RootHeads(g) # {} => \E head \in RootHeads(g) : head \in job[w].deps
       /\ job[w].merge => job[w].deps = Heads(g)
  BY <1>3, <1>4, <1>10 DEF JobOk, Planned
<1>12. x \notin DOMAIN Children
  BY <1>1, <1>3, RootArithmetic DEF JobOk, ChildHistory
<1> HIDE DEF saved, x, g, h
<1>13. /\ DOMAIN files'[d] = DOMAIN files[d] \cup {x}
       /\ \A id \in DOMAIN files[d] : files'[d][id] = files[d][id]
       /\ files'[d][x] = saved
  BY <1>5, <1>6 DEF Inserted
<1>14. /\ DOMAIN h = DOMAIN files'[d] \cup DOMAIN Children
       /\ \A id \in DOMAIN files'[d] : h[id] = files'[d][id].deps
       /\ \A id \in DOMAIN Children \ DOMAIN files'[d] : h[id] = Children[id]
  BY <1>7 DEF HistoryGraph, Joined
<1>15. /\ \A id \in DOMAIN files[d] : g[id] = files[d][id].deps
       /\ \A id \in DOMAIN Children \ DOMAIN files[d] : g[id] = Children[id]
  BY <1>4 DEF HistoryGraph, Joined
<1>16. h[x] = job[w].deps
  BY <1>8, <1>13, <1>14
<1>17. ASSUME NEW id \in DOMAIN g
       PROVE  h[id] = g[id]
  <2>1. CASE id \in DOMAIN files[d]
    BY <1>13, <1>14, <1>15, <2>1
  <2>2. CASE id \notin DOMAIN files[d]
    <3>1. id \in DOMAIN Children /\ id # x
      BY <1>9, <1>12, <2>2
    <3>2. id \notin DOMAIN files'[d]
      BY <1>13, <2>2, <3>1
    <3> QED
      BY <1>14, <1>15, <2>2, <3>1, <3>2
  <2> QED
    BY <2>1, <2>2
<1>18. x \notin DOMAIN g /\ DOMAIN h = DOMAIN g \cup {x}
  BY <1>5, <1>9, <1>12, <1>13, <1>14
<1>19. NewNode(g, h, x, job[w].deps)
  BY <1>9, <1>16, <1>17, <1>18 DEF NewNode
<1> QED
  BY <1>11, <1>19 DEF g, h, x

\* The heads of h are those of g that the new node does not depend on, and itself.
LEMMA HeadsAfter ==
    ASSUME NEW g, NEW h, NEW x, NEW deps, NewNode(g, h, x, deps)
    PROVE  /\ Heads(h) \subseteq (Heads(g) \ deps) \cup {x}
           /\ RootHeads(h) \subseteq (RootHeads(g) \ deps) \cup {x}
           /\ IsFiniteSet(RootHeads(g)) /\ IsFiniteSet(Heads(h)) /\ IsFiniteSet(RootHeads(h))
<1>1. ASSUME NEW head \in Heads(h), head # x
      PROVE  head \in Heads(g) \ deps
  <2>1. head \in DOMAIN g /\ \A id \in DOMAIN h : head \notin h[id]
    BY <1>1 DEF Heads, Range, NewNode
  <2>2. \A id \in DOMAIN g : head \notin g[id]
    BY <2>1 DEF NewNode
  <2>3. head \notin deps
    BY <2>1 DEF NewNode
  <2> QED
    BY <2>1, <2>2, <2>3 DEF Heads, Range
<1>2. IsFiniteSet(DOMAIN g) /\ IsFiniteSet(DOMAIN h)
  BY FS_AddElement DEF NewNode
<1>3. RootHeads(g) \in SUBSET DOMAIN g /\ RootHeads(h) \in SUBSET DOMAIN h /\ Heads(h) \in SUBSET DOMAIN h
  BY DEF RootHeads, Heads
<1>4. IsFiniteSet(RootHeads(g)) /\ IsFiniteSet(Heads(h)) /\ IsFiniteSet(RootHeads(h))
  BY <1>2, <1>3, FS_Subset
<1>5. RootHeads(h) \subseteq (RootHeads(g) \ deps) \cup {x}
  BY <1>1 DEF RootHeads
<1> QED
  BY <1>1, <1>4, <1>5

LEMMA AtMostOne ==
    ASSUME NEW S, NEW x, S \subseteq {x}
    PROVE  Cardinality(S) \in Nat /\ Cardinality(S) <= 1
<1>1. IsFiniteSet({x}) /\ Cardinality({x}) = 1
  BY FS_Singleton
<1>2. S \in SUBSET {x}
  OBVIOUS
<1>3. IsFiniteSet(S) /\ Cardinality(S) <= Cardinality({x})
  BY <1>1, <1>2, FS_Subset
<1> QED
  BY <1>1, <1>3, FS_CardinalityType

\* UpToDateMakeNeverForks, for any number of commands, directories and names: the
\* last root migration in graph order is a head, so a make takes one head away.
THEOREM NeverForks == Spec => UpToDateMakeNeverForks
<1> DEFINE Kept ==
      \A w \in Workers :
          ( /\ Saves(w)
            /\ job[w].saw = DOMAIN Graph(Home[w]) )
          => Cardinality(RootHeads(Graph(Home[w])')) <= Max({1, Cardinality(RootHeads(Graph(Home[w])))})
<1>1. HistoryInv /\ [Next]_vars => Kept
  <2> SUFFICES ASSUME HistoryInv, [Next]_vars, NEW w \in Workers, Saves(w),
                      job[w].saw = DOMAIN Graph(Home[w])
               PROVE  Cardinality(RootHeads(Graph(Home[w])')) <=
                        Max({1, Cardinality(RootHeads(Graph(Home[w])))})
    OBVIOUS
  <2> DEFINE g == Graph(Home[w])
             h == Graph(Home[w])'
             x == job[w].id
             deps == job[w].deps
             c == Cardinality(RootHeads(g))
  <2>1. /\ NewNode(g, h, x, deps)
        /\ RootHeads(g) # {} => \E head \in RootHeads(g) : head \in deps
    BY SaveAddsNode
  <2> HIDE DEF g, h, x, deps
  <2>2. /\ RootHeads(h) \subseteq (RootHeads(g) \ deps) \cup {x}
        /\ IsFiniteSet(RootHeads(g)) /\ IsFiniteSet(RootHeads(h))
    BY <2>1, HeadsAfter
  <2>3. c \in Nat
    BY <2>2, FS_CardinalityType
  <2>4. 1 <= Max({1, c}) /\ c <= Max({1, c}) /\ Max({1, c}) \in Nat
    <3> HIDE DEF c
    <3>1. {1, c} \in SUBSET Nat /\ c + 1 \in Nat /\ \A y \in {1, c} : y <= c + 1
      BY <2>3
    <3>2. Max({1, c}) \in {1, c} /\ \A y \in {1, c} : y <= Max({1, c})
      BY <3>1, MaxExists
    <3> QED
      BY <3>1, <3>2
  <2>5. Cardinality(RootHeads(h)) \in Nat
    BY <2>2, FS_CardinalityType
  <2>6. CASE RootHeads(g) = {}
    <3>1. RootHeads(h) \subseteq {x}
      BY <2>2, <2>6
    <3>2. Cardinality(RootHeads(h)) <= 1
      BY <3>1, AtMostOne
    <3> HIDE DEF c
    <3>3. Cardinality(RootHeads(h)) <= Max({1, c})
      BY <2>4, <2>5, <3>2
    <3> QED
      BY <3>3 DEF c, g, h
  <2>7. CASE RootHeads(g) # {}
    <3>1. PICK head \in RootHeads(g) : head \in deps
      BY <2>1, <2>7
    <3> DEFINE less == RootHeads(g) \ {head}
               more == less \cup {x}
    <3>2. IsFiniteSet(less) /\ Cardinality(less) = c - 1
      BY <2>2, FS_RemoveElement
    <3>3. RootHeads(h) \in SUBSET more
      BY <2>2, <3>1
    <3> HIDE DEF less, c
    <3>4. IsFiniteSet(more) /\ Cardinality(more) <= c
      <4>1. IsFiniteSet(more) /\ (Cardinality(more) = Cardinality(less) \/ Cardinality(more) = Cardinality(less) + 1)
        BY <3>2, FS_AddElement
      <4> QED
        BY <2>3, <3>2, <4>1
    <3> HIDE DEF more
    <3>5. Cardinality(RootHeads(h)) <= Cardinality(more) /\ Cardinality(more) \in Nat
      BY <3>3, <3>4, FS_Subset, FS_CardinalityType
    <3>6. Cardinality(RootHeads(h)) <= Max({1, c})
      BY <2>3, <2>4, <2>5, <3>4, <3>5
    <3> QED
      BY <3>6 DEF c, g, h
  <2> QED
    BY <2>6, <2>7
<1>2. Spec => [][Kept]_vars
  BY <1>1, HistoryInvariant, PTL DEF Spec
<1> QED
  BY <1>2 DEF UpToDateMakeNeverForks

\* UpToDateMergeEndsTheConflict, likewise: the merge is the only head left.
THEOREM MergeEndsConflict == Spec => UpToDateMergeEndsTheConflict
<1> DEFINE Kept ==
      \A w \in Workers :
          ( /\ Saves(w)
            /\ job[w].saw = DOMAIN Graph(Home[w])
            /\ job[w].merge )
          => ~HasConflict(Graph(Home[w])')
<1>1. HistoryInv /\ [Next]_vars => Kept
  <2> SUFFICES ASSUME HistoryInv, [Next]_vars, NEW w \in Workers, Saves(w),
                      job[w].saw = DOMAIN Graph(Home[w]), job[w].merge
               PROVE  ~HasConflict(Graph(Home[w])')
    OBVIOUS
  <2> DEFINE g == Graph(Home[w])
             h == Graph(Home[w])'
             x == job[w].id
             deps == job[w].deps
  <2>1. NewNode(g, h, x, deps) /\ deps = Heads(g)
    BY SaveAddsNode
  <2> HIDE DEF g, h, x, deps
  <2>2. Heads(h) \subseteq {x}
    BY <2>1, HeadsAfter
  <2>3. ~HasConflict(h)
    BY <2>2, AtMostOne DEF HasConflict
  <2> QED
    BY <2>3 DEF h
<1>2. Spec => [][Kept]_vars
  BY <1>1, HistoryInvariant, PTL DEF Spec
<1> QED
  BY <1>2 DEF UpToDateMergeEndsTheConflict
==========================================================================
