------------------------------ MODULE BusProofs ------------------------------
(***************************************************************************)
(* A theorem about the start of the process on the bus, for every list of   *)
(* elements and of events and every failure: the trees of callbacks lead to *)
(* the callbacks of each name and to no other.                              *)
(***************************************************************************)
EXTENDS Webconfig, FiniteSetTheorems, WellFoundedInduction, TLAPS

(* A set of numbers has a least one, because the intervals below them are   *)
(* finite sets.                                                             *)
LEMMA LeastNumber ==
  ASSUME NEW T \in SUBSET Nat, T # {}
  PROVE  \E x \in T : \A y \in T : x <= y
<1> DEFINE I == {0 .. x : x \in T}
<1>1. I \subseteq FiniteSubsetsOf(Nat) /\ I # {}
  <2>1. \A x \in T : IsFiniteSet(0 .. x)
    BY FS_Interval
  <2>2. \A x \in T : 0 .. x \in SUBSET Nat
    OBVIOUS
  <2> QED BY <2>1, <2>2 DEF FiniteSubsetsOf
<1>2. PICK k \in I : \A j \in I : <<j, k>> \notin StrictSubsetOrdering(Nat)
  <2> HIDE DEF I
  <2> QED BY <1>1, FS_StrictSubsetOrderingWellFounded, WFMin
<1>3. PICK x \in T : k = 0 .. x
  OBVIOUS
<1>4. ASSUME NEW y \in T PROVE x <= y
  <2>1. <<0 .. y, 0 .. x>> \notin StrictSubsetOrdering(Nat)
    BY <1>2, <1>3
  <2>2. x \in Nat /\ y \in Nat /\ 0 .. x \in SUBSET Nat /\ 0 .. y \in SUBSET Nat
    OBVIOUS
  <2>3. ~(0 .. y \subseteq 0 .. x /\ 0 .. y # 0 .. x)
    BY <2>1, <2>2 DEF StrictSubsetOrdering
  <2>4. y < x => 0 .. y \subseteq 0 .. x /\ x \in 0 .. x /\ x \notin 0 .. y
    BY <2>2
  <2> QED BY <2>2, <2>3, <2>4
<1> QED BY <1>4

(* A bounded one has a greatest.                                            *)
LEMMA GreatestNumber ==
  ASSUME NEW N \in Nat, NEW T \in SUBSET (0 .. N), T # {}
  PROVE  \E x \in T : \A y \in T : y <= x
<1> DEFINE M == {N - x : x \in T}
<1>1. M \in SUBSET Nat /\ M # {}
  <2>1. \A x \in T : N - x \in Nat
    OBVIOUS
  <2>2. PICK x \in T : TRUE
    OBVIOUS
  <2>3. N - x \in M
    OBVIOUS
  <2> QED BY <2>1, <2>3
<1>2. PICK z \in M : \A y \in M : z <= y
  <2> HIDE DEF M
  <2> QED BY <1>1, LeastNumber
<1>3. PICK x \in T : z = N - x
  OBVIOUS
<1>4. ASSUME NEW y \in T PROVE y <= x
  <2>1. N - x <= N - y
    BY <1>2, <1>3
  <2> QED BY <2>1
<1> QED BY <1>4

------------------------------------------------------------------------------
(* The shape of a tree of N nodes: a node comes after its parent, the lists *)
(* of children are in the order in which they came, and two children of a   *)
(* node have different names.                                               *)
IsLeast(k, S) ==
  \/ k = Null /\ S = {}
  \/ k \in S /\ \A j \in S : k <= j

Children(tree, N, p) == {n \in 1 .. N : tree[n].parent = p}

Later(tree, N, n) == {k \in n + 1 .. N : tree[k].parent = tree[n].parent}

AreNodes(tree, N) ==
  /\ DOMAIN tree = 1 .. N
  /\ \A n \in 1 .. N :
       tree[n] = [name |-> tree[n].name, parent |-> tree[n].parent,
                  child |-> tree[n].child, next |-> tree[n].next,
                  data |-> tree[n].data]

Ordered(tree, N) ==
  /\ tree[Root].parent = Null
  /\ \A n \in 2 .. N : tree[n].parent \in 1 .. n - 1

Linked(tree, N) ==
  \A n \in 1 .. N : /\ IsLeast(tree[n].child, Children(tree, N, n))
                    /\ IsLeast(tree[n].next, Later(tree, N, n))

Named(tree, N) ==
  \A m, n \in 1 .. N :
    tree[m].parent = tree[n].parent /\ tree[m].name = tree[n].name => m = n

Shape(tree, N) ==
  /\ N \in Nat \ {0} /\ tree = [n \in 1 .. N |-> tree[n]]
  /\ AreNodes(tree, N) /\ Ordered(tree, N) /\ Linked(tree, N) /\ Named(tree, N)

LEMMA EmptyShape ==
  /\ Shape(EmptyTree, 1)
  /\ EmptyTree[Root].data = NoData
<1> DEFINE T == EmptyTree
<1>1. T[1] = [name |-> "", parent |-> 0, child |-> 0, next |-> 0, data |-> NoData]
  BY DEF EmptyTree, Root, Node, Null
<1>0. T = [n \in {1} |-> T[n]]
  BY DEF EmptyTree, Root, Node, Null
<1> HIDE DEF T
<1>2. 1 .. 1 = {1} /\ 2 .. 1 = {} /\ 1 + 1 .. 1 = {}
  OBVIOUS
<1>3. /\ T[1].parent = 0 /\ T[1].child = 0 /\ T[1].next = 0
      /\ T[1].name = "" /\ T[1].data = NoData
  BY DEF T, EmptyTree, Root, Node, Null
<1>4. Children(T, 1, 1) = {} /\ Later(T, 1, 1) = {}
  BY <1>2, <1>3 DEF Children, Later
<1>5. AreNodes(T, 1)
  BY <1>0, <1>1, <1>2, <1>3 DEF AreNodes
<1>6. Linked(T, 1)
  BY <1>2, <1>3, <1>4 DEF Linked, IsLeast, Null
<1>7. Ordered(T, 1) /\ Named(T, 1)
  BY <1>2, <1>3 DEF Ordered, Named, Root, Null
<1>8. Shape(T, 1) /\ T[Root].data = NoData
  BY <1>0, <1>2, <1>3, <1>5, <1>6, <1>7 DEF Shape, Root
<1> QED BY <1>8 DEF T

(* What the links of a tree say of one node.                                *)
LEMMA Links ==
  ASSUME NEW T, NEW N, Shape(T, N), NEW n \in 1 .. N
  PROVE  /\ N \in Nat \ {0} /\ DOMAIN T = 1 .. N
         /\ T[n].next = Null \/ T[n].next \in n + 1 .. N
         /\ T[n].next # Null => T[T[n].next].parent = T[n].parent
         /\ \A k \in n + 1 .. N :
              T[k].parent = T[n].parent => T[n].next # Null /\ T[n].next <= k
         /\ T[n].child = Null \/ T[n].child \in n + 1 .. N
         /\ T[n].child # Null => T[T[n].child].parent = n
         /\ \A k \in 1 .. N :
              T[k].parent = n => T[n].child # Null /\ T[n].child <= k
<1>1. N \in Nat \ {0} /\ DOMAIN T = 1 .. N
  BY DEF Shape, AreNodes
<1>2. IsLeast(T[n].child, Children(T, N, n)) /\ IsLeast(T[n].next, Later(T, N, n))
  BY DEF Shape, Linked
<1>3. \A k \in 1 .. N : T[k].parent = n => k \in n + 1 .. N
  <2> SUFFICES ASSUME NEW k \in 1 .. N, T[k].parent = n PROVE k \in n + 1 .. N
    OBVIOUS
  <2>1. k # 1
    BY <1>1 DEF Shape, Ordered, Root, Null
  <2>2. k \in 2 .. N
    BY <1>1, <2>1
  <2>3. n \in 1 .. k - 1
    BY <2>2 DEF Shape, Ordered
  <2> QED BY <1>1, <2>3
<1>4. /\ T[n].next = Null \/ T[n].next \in n + 1 .. N
      /\ T[n].next # Null => T[T[n].next].parent = T[n].parent
      /\ \A k \in n + 1 .. N :
           T[k].parent = T[n].parent => T[n].next # Null /\ T[n].next <= k
  BY <1>1, <1>2 DEF IsLeast, Later, Null
<1>5. /\ T[n].child = Null \/ T[n].child \in n + 1 .. N
      /\ T[n].child # Null => T[T[n].child].parent = n
      /\ \A k \in 1 .. N :
           T[k].parent = n => T[n].child # Null /\ T[n].child <= k
  BY <1>1, <1>2, <1>3 DEF IsLeast, Children, Null
<1> QED BY <1>1, <1>4, <1>5

------------------------------------------------------------------------------
(* The search for a name in the rest of a list.                             *)
IsMatch(T, N, name, n, r) ==
  IF n = Null THEN r = Null
  ELSE \/ r \in n .. N /\ T[r].parent = T[n].parent /\ T[r].name = name
       \/ /\ r = Null
          /\ \A k \in n .. N : T[k].parent = T[n].parent => T[k].name # name

IsSearch(f, T, name) ==
  f = [n \in DOMAIN T \cup {Null} |->
         IF n = Null \/ T[n].name = name THEN n ELSE f[T[n].next]]

LEMMA MatchOfNext ==
  ASSUME NEW T, NEW N, Shape(T, N), NEW name, NEW n \in 1 .. N,
         T[n].name # name, NEW r, IsMatch(T, N, name, T[n].next, r)
  PROVE  IsMatch(T, N, name, n, r)
<1>1. n # Null /\ n \in Nat /\ N \in Nat
  BY Links DEF Null
<1>2. CASE T[n].next = Null
  <2>1. \A k \in n + 1 .. N : T[k].parent # T[n].parent
    BY <1>2, Links
  <2>2. \A k \in n .. N : k = n \/ k \in n + 1 .. N
    BY <1>1
  <2> QED BY <1>1, <1>2, <2>1, <2>2 DEF IsMatch
<1>3. CASE T[n].next # Null
  <2>1. /\ T[n].next \in n + 1 .. N /\ T[T[n].next].parent = T[n].parent
        /\ \A k \in n + 1 .. N : T[k].parent = T[n].parent => T[n].next <= k
    BY <1>3, Links
  <2>2. \A k \in n .. N :
          T[k].parent = T[n].parent => k = n \/ k \in T[n].next .. N
    BY <1>1, <2>1
  <2>3. \A k \in T[n].next .. N : k \in n .. N
    BY <1>1, <2>1
  <2> QED BY <1>1, <1>3, <2>1, <2>2, <2>3 DEF IsMatch
<1> QED BY <1>2, <1>3

LEMMA OneMatch ==
  ASSUME NEW T, NEW N, Shape(T, N), NEW name, NEW n \in 0 .. N
  PROVE  /\ \E r : IsMatch(T, N, name, n, r)
         /\ \A r, s : IsMatch(T, N, name, n, r) /\ IsMatch(T, N, name, n, s)
                      => r = s
<1>1. N \in Nat /\ Null = 0
  BY DEF Shape, Null
<1>2. \A r, s \in 1 .. N :
        T[r].parent = T[s].parent /\ T[r].name = T[s].name => r = s
  BY DEF Shape, Named
<1>3. CASE n = 0
  BY <1>1, <1>3 DEF IsMatch
<1>4. CASE n # 0
  <2>1. \A k \in n .. N : k \in 1 .. N /\ k # 0
    BY <1>1, <1>4
  <2> QED BY <1>1, <1>2, <1>4, <2>1 DEF IsMatch
<1> QED BY <1>3, <1>4

LEMMA MatchStep ==
  ASSUME NEW T, NEW N, Shape(T, N), NEW name, NEW n \in 0 .. N
  PROVE  IF n = Null \/ T[n].name = name THEN IsMatch(T, N, name, n, n)
         ELSE /\ T[n].next \in 0 .. N
              /\ \A r : IsMatch(T, N, name, T[n].next, r)
                        => IsMatch(T, N, name, n, r)
<1>1. N \in Nat /\ Null = 0
  BY DEF Shape, Null
<1>2. CASE n = Null
  BY <1>2 DEF IsMatch
<1>3. CASE n # Null
  <2>1. n \in 1 .. N /\ n \in n .. N
    BY <1>1, <1>3
  <2>2. T[n].next \in 0 .. N
    BY <1>1, <2>1, Links
  <2>3. T[n].name = name => IsMatch(T, N, name, n, n)
    BY <2>1 DEF IsMatch
  <2> QED BY <1>3, <2>1, <2>2, <2>3, MatchOfNext
<1> QED BY <1>2, <1>3

LEMMA SearchExists ==
  ASSUME NEW T, NEW N, Shape(T, N), NEW name
  PROVE  \E f : IsSearch(f, T, name)
<1> DEFINE f == [n \in 0 .. N |-> CHOOSE r : IsMatch(T, N, name, n, r)]
<1>1. DOMAIN T \cup {Null} = 0 .. N
  BY DEF Shape, AreNodes, Null
<1>2. \A n \in 0 .. N : IsMatch(T, N, name, n, f[n])
  BY OneMatch
<1>3. f = [n \in 0 .. N |-> f[n]]
  OBVIOUS
<1> HIDE DEF f
<1>4. \A n \in 0 .. N :
        f[n] = IF n = Null \/ T[n].name = name THEN n ELSE f[T[n].next]
  <2> SUFFICES ASSUME NEW n \in 0 .. N
               PROVE  f[n] = IF n = Null \/ T[n].name = name THEN n
                             ELSE f[T[n].next]
    OBVIOUS
  <2>1. CASE n = Null \/ T[n].name = name
    <3>1. IsMatch(T, N, name, n, n)
      BY <2>1, MatchStep
    <3> QED BY <1>2, <2>1, <3>1, OneMatch
  <2>2. CASE ~(n = Null \/ T[n].name = name)
    <3>1. IsMatch(T, N, name, n, f[T[n].next])
      BY <1>2, <2>2, MatchStep
    <3> QED BY <1>2, <2>2, <3>1, OneMatch
  <2> QED BY <2>1, <2>2
<1> QED BY <1>1, <1>3, <1>4 DEF IsSearch

LEMMA SearchFinds ==
  ASSUME NEW T, NEW N, Shape(T, N), NEW name, NEW f, IsSearch(f, T, name)
  PROVE  \A n \in 0 .. N : IsMatch(T, N, name, n, f[n])
<1> DEFINE Bad == {n \in 0 .. N : ~IsMatch(T, N, name, n, f[n])}
<1>1. DOMAIN T \cup {Null} = 0 .. N /\ N \in Nat /\ Null = 0
  BY DEF Shape, AreNodes, Null
<1>2. \A n \in 0 .. N :
        f[n] = IF n = Null \/ T[n].name = name THEN n ELSE f[T[n].next]
  BY <1>1 DEF IsSearch
<1>3. ASSUME Bad # {} PROVE FALSE
  <2>1. PICK n \in Bad : \A k \in Bad : k <= n
    <3>1. Bad \in SUBSET (0 .. N)
      OBVIOUS
    <3> HIDE DEF Bad
    <3> QED BY <1>1, <1>3, <3>1, GreatestNumber
  <2>2. n \in 0 .. N /\ ~IsMatch(T, N, name, n, f[n])
    OBVIOUS
  <2>3. n # Null /\ T[n].name # name
    BY <1>2, <2>2, MatchStep
  <2>4. f[n] = f[T[n].next] /\ n \in 1 .. N
    BY <1>1, <1>2, <2>2, <2>3
  <2>5. T[n].next \in 0 .. N /\ (T[n].next = 0 \/ T[n].next > n)
    BY <1>1, <2>4, Links
  <2>6. IsMatch(T, N, name, T[n].next, f[T[n].next])
    <3>1. CASE T[n].next = 0
      <4>1. f[0] = 0
        BY <1>1, <1>2
      <4> QED BY <1>1, <3>1, <4>1 DEF IsMatch
    <3>2. CASE T[n].next > n
      BY <2>1, <2>2, <2>5, <3>2
    <3> QED BY <2>5, <3>1, <3>2
  <2> QED BY <2>2, <2>3, <2>4, <2>6, MatchOfNext
<1> QED BY <1>3

(* A node has at most one child of a name, and the search finds it.         *)
LEMMA BelowIs ==
  ASSUME NEW T, NEW N, Shape(T, N), NEW p \in 1 .. N, NEW name
  PROVE  \/ /\ Below(T, p, name) \in p + 1 .. N
            /\ T[Below(T, p, name)].parent = p
            /\ T[Below(T, p, name)].name = name
         \/ /\ Below(T, p, name) = Null
            /\ \A k \in 1 .. N : T[k].parent = p => T[k].name # name
<1> DEFINE f == CHOOSE h : IsSearch(h, T, name)
           n == T[p].child
<1>1. IsSearch(f, T, name)
  BY SearchExists
<1>2. Below(T, p, name) = f[n]
  <2>1. Below(T, p, name) = Sibling(T, n, name)
    BY DEF Below, Null
  <2>2. Sibling(T, n, name) = f[n]
    BY DEF Sibling, IsSearch
  <2> QED BY <2>1, <2>2
<1> HIDE DEF f
<1>3. /\ N \in Nat /\ Null = 0 /\ n \in 0 .. N
      /\ n # 0 => n \in p + 1 .. N /\ T[n].parent = p
      /\ \A k \in 1 .. N : T[k].parent = p => n # 0 /\ n <= k
  <2>1. /\ N \in Nat \ {0}
        /\ n = Null \/ n \in p + 1 .. N
        /\ n # Null => T[n].parent = p
        /\ \A k \in 1 .. N : T[k].parent = p => n # Null /\ n <= k
    BY Links
  <2> HIDE DEF n
  <2>2. n \in 0 .. N
    BY <2>1 DEF Null
  <2> QED BY <2>1, <2>2 DEF Null
<1>4. IsMatch(T, N, name, n, f[n])
  BY <1>1, <1>3, SearchFinds
<1> HIDE DEF n
<1>5. CASE n = 0
  BY <1>2, <1>3, <1>4, <1>5 DEF IsMatch
<1>6. CASE n # 0
  <2>1. \A k \in n .. N : k \in p + 1 .. N
    BY <1>3, <1>6
  <2>2. \A k \in 1 .. N : T[k].parent = p => k \in n .. N
    BY <1>3, <1>6
  <2> QED BY <1>2, <1>3, <1>4, <1>6, <2>1, <2>2 DEF IsMatch
<1> QED BY <1>5, <1>6

------------------------------------------------------------------------------
(* The end of a list.                                                       *)
IsLast(T, N, n, r) ==
  /\ r \in n .. N /\ T[r].parent = T[n].parent
  /\ \A k \in n .. N : T[k].parent = T[n].parent => k <= r

IsEnd(f, T) ==
  f = [n \in DOMAIN T |-> IF T[n].next = Null THEN n ELSE f[T[n].next]]

LEMMA OneLast ==
  ASSUME NEW T, NEW N, Shape(T, N), NEW n \in 1 .. N
  PROVE  /\ \E r : IsLast(T, N, n, r)
         /\ \A r, s : IsLast(T, N, n, r) /\ IsLast(T, N, n, s) => r = s
<1> DEFINE S == {k \in n .. N : T[k].parent = T[n].parent}
<1>1. N \in Nat /\ n \in S /\ S \in SUBSET (0 .. N)
  BY DEF Shape
<1>2. PICK r \in S : \A k \in S : k <= r
  <2> HIDE DEF S
  <2> QED BY <1>1, GreatestNumber
<1>3. IsLast(T, N, n, r)
  BY <1>2 DEF IsLast
<1>4. \A s, t : IsLast(T, N, n, s) /\ IsLast(T, N, n, t) => s = t
  BY <1>1 DEF IsLast
<1> QED BY <1>3, <1>4

LEMMA LastStep ==
  ASSUME NEW T, NEW N, Shape(T, N), NEW n \in 1 .. N
  PROVE  IF T[n].next = Null THEN IsLast(T, N, n, n)
         ELSE /\ T[n].next \in n + 1 .. N
              /\ \A r : IsLast(T, N, T[n].next, r) => IsLast(T, N, n, r)
<1>1. /\ N \in Nat \ {0} /\ n \in Nat
      /\ T[n].next = Null \/ T[n].next \in n + 1 .. N
      /\ T[n].next # Null => T[T[n].next].parent = T[n].parent
      /\ \A k \in n + 1 .. N :
           T[k].parent = T[n].parent => T[n].next # Null /\ T[n].next <= k
  BY Links
<1>2. \A k \in n .. N : k = n \/ k \in n + 1 .. N
  BY <1>1
<1>3. CASE T[n].next = Null
  BY <1>1, <1>2, <1>3 DEF IsLast
<1>4. CASE T[n].next # Null
  <2>1. \A k \in T[n].next .. N : k \in n .. N
    BY <1>1, <1>4
  <2>2. \A k \in n .. N :
          T[k].parent = T[n].parent => k = n \/ k \in T[n].next .. N
    BY <1>1, <1>2, <1>4
  <2> QED BY <1>1, <1>4, <2>1, <2>2 DEF IsLast
<1> QED BY <1>3, <1>4

LEMMA EndExists ==
  ASSUME NEW T, NEW N, Shape(T, N)
  PROVE  \E f : IsEnd(f, T)
<1> DEFINE f == [n \in 1 .. N |-> CHOOSE r : IsLast(T, N, n, r)]
<1>1. DOMAIN T = 1 .. N /\ N \in Nat
  BY DEF Shape, AreNodes
<1>2. \A n \in 1 .. N : IsLast(T, N, n, f[n])
  BY OneLast
<1>3. f = [n \in 1 .. N |-> f[n]]
  OBVIOUS
<1> HIDE DEF f
<1>4. \A n \in 1 .. N : f[n] = IF T[n].next = Null THEN n ELSE f[T[n].next]
  <2> SUFFICES ASSUME NEW n \in 1 .. N
               PROVE  f[n] = IF T[n].next = Null THEN n ELSE f[T[n].next]
    OBVIOUS
  <2>1. CASE T[n].next = Null
    <3>1. IsLast(T, N, n, n)
      BY <2>1, LastStep
    <3> QED BY <1>2, <2>1, <3>1, OneLast
  <2>2. CASE T[n].next # Null
    <3>1. T[n].next \in n + 1 .. N
      BY <2>2, LastStep
    <3>2. T[n].next \in 1 .. N
      BY <1>1, <3>1
    <3>3. IsLast(T, N, n, f[T[n].next])
      BY <1>2, <2>2, <3>2, LastStep
    <3> QED BY <1>2, <2>2, <3>3, OneLast
  <2> QED BY <2>1, <2>2
<1> QED BY <1>1, <1>3, <1>4 DEF IsEnd

LEMMA EndIsLast ==
  ASSUME NEW T, NEW N, Shape(T, N), NEW f, IsEnd(f, T)
  PROVE  \A n \in 1 .. N : IsLast(T, N, n, f[n])
<1> DEFINE Bad == {n \in 1 .. N : ~IsLast(T, N, n, f[n])}
<1>1. DOMAIN T = 1 .. N /\ N \in Nat
  BY DEF Shape, AreNodes
<1>2. \A n \in 1 .. N : f[n] = IF T[n].next = Null THEN n ELSE f[T[n].next]
  BY <1>1 DEF IsEnd
<1>3. ASSUME Bad # {} PROVE FALSE
  <2>1. PICK n \in Bad : \A k \in Bad : k <= n
    <3>1. Bad \in SUBSET (0 .. N)
      OBVIOUS
    <3> HIDE DEF Bad
    <3> QED BY <1>1, <1>3, <3>1, GreatestNumber
  <2>2. n \in 1 .. N /\ ~IsLast(T, N, n, f[n])
    OBVIOUS
  <2>3. T[n].next # Null
    BY <1>2, <2>2, LastStep
  <2>4. f[n] = f[T[n].next] /\ T[n].next \in n + 1 .. N
    BY <1>2, <2>2, <2>3, LastStep
  <2>5. T[n].next \in 1 .. N /\ ~(T[n].next <= n)
    BY <1>1, <2>2, <2>4
  <2>6. IsLast(T, N, T[n].next, f[T[n].next])
    BY <2>1, <2>5
  <2>7. IsLast(T, N, n, f[n])
    BY <2>2, <2>3, <2>4, <2>6, LastStep
  <2> QED BY <2>2, <2>7
<1> QED BY <1>3

(* The last child of a node that has one.                                   *)
LEMMA LastChild ==
  ASSUME NEW T, NEW N, Shape(T, N), NEW p \in 1 .. N, T[p].child # Null
  PROVE  LET last == LastSibling(T, T[p].child) IN
         /\ last \in p + 1 .. N /\ T[last].parent = p
         /\ \A k \in 1 .. N : T[k].parent = p => k <= last
<1> DEFINE f == CHOOSE h : IsEnd(h, T)
           n == T[p].child
<1>1. IsEnd(f, T)
  BY EndExists
<1>2. LastSibling(T, n) = f[n]
  BY DEF LastSibling, IsEnd
<1> HIDE DEF f
<1>3. /\ N \in Nat \ {0} /\ n \in p + 1 .. N /\ T[n].parent = p
      /\ \A k \in 1 .. N : T[k].parent = p => n <= k
  BY Links
<1> HIDE DEF n
<1>4. n \in 1 .. N
  BY <1>3
<1>5. IsLast(T, N, n, f[n])
  BY <1>1, <1>4, EndIsLast
<1>6. \A k \in n .. N : k \in p + 1 .. N
  BY <1>3
<1>7. \A k \in 1 .. N : T[k].parent = p => k \in n .. N
  BY <1>3
<1> QED BY <1>2, <1>3, <1>5, <1>6, <1>7 DEF IsLast, n

------------------------------------------------------------------------------
(* A new node.                                                              *)
IsNode(r) ==
  r = [name |-> r.name, parent |-> r.parent, child |-> r.child,
       next |-> r.next, data |-> r.data]

LEMMA NodeFields ==
  ASSUME NEW a, NEW b, NEW c, NEW d, NEW e,
         NEW r, r = [name |-> a, parent |-> b, child |-> c, next |-> d, data |-> e]
  PROVE  /\ r.name = a /\ r.parent = b /\ r.child = c /\ r.next = d /\ r.data = e
         /\ IsNode(r)
BY DEF IsNode

LEMMA NodeExcept ==
  ASSUME NEW r, IsNode(r), NEW x
  PROVE  /\ [r EXCEPT !.child = x] =
              [name |-> r.name, parent |-> r.parent, child |-> x,
               next |-> r.next, data |-> r.data]
         /\ [r EXCEPT !.next = x] =
              [name |-> r.name, parent |-> r.parent, child |-> r.child,
               next |-> x, data |-> r.data]
         /\ [r EXCEPT !.data = x] =
              [name |-> r.name, parent |-> r.parent, child |-> r.child,
               next |-> r.next, data |-> x]
BY DEF IsNode

(* What two trees have in common when the second one has grown from the     *)
(* first.                                                                   *)
SameNode(S, T, n) ==
  S[n].name = T[n].name /\ S[n].parent = T[n].parent /\ S[n].data = T[n].data

(* The links of a tree after AddNode(). *)
Grown(S, T, N, p, name) ==
  /\ DOMAIN S = 1 .. N + 1 /\ S = [n \in 1 .. N + 1 |-> S[n]]
  /\ \A n \in 1 .. N + 1 : IsNode(S[n])
  /\ \A n \in 1 .. N :
       /\ SameNode(S, T, n)
       /\ S[n].child = IF n = p /\ T[p].child = Null THEN N + 1 ELSE T[n].child
       /\ S[n].next = IF T[p].child # Null /\ n = LastSibling(T, T[p].child)
                      THEN N + 1 ELSE T[n].next
  /\ S[N + 1].name = name /\ S[N + 1].parent = p /\ S[N + 1].data = NoData
  /\ S[N + 1].child = Null /\ S[N + 1].next = Null

LEMMA AddNodeGrows ==
  ASSUME NEW T, NEW N, Shape(T, N), NEW p \in 1 .. N, NEW name
  PROVE  /\ AddNode(T, p, name).at = N + 1
         /\ Grown(AddNode(T, p, name).tree, T, N, p, name)
<1> DEFINE G == [n \in 1 .. N + 1 |-> IF n = N + 1 THEN Node(name, p) ELSE T[n]]
           first == T[p].child
           last == LastSibling(T, first)
           S == IF first = Null THEN [G EXCEPT ![p].child = N + 1]
                ELSE [G EXCEPT ![last].next = N + 1]
<1>1. /\ DOMAIN T = 1 .. N /\ N \in Nat \ {0} /\ Null = 0
      /\ \A n \in 1 .. N : IsNode(T[n])
  BY DEF Shape, AreNodes, IsNode, Null
<1>2. Max(DOMAIN T) + 1 = N + 1
  <2>1. Max(DOMAIN T) = N
    BY <1>1 DEF Max
  <2> QED BY <2>1
<1>3. DOMAIN T \cup {N + 1} = 1 .. N + 1
  BY <1>1
<1>4. AddNode(T, p, name) = [at |-> N + 1, tree |-> S]
  BY <1>2, <1>3 DEF AddNode
<1>5. /\ Node(name, p) = [name |-> name, parent |-> p, child |-> Null,
                          next |-> Null, data |-> NoData]
  BY DEF Node
<1>6. /\ N + 1 \in 1 .. N + 1 /\ G[N + 1] = Node(name, p)
      /\ \A n \in 1 .. N : n \in 1 .. N + 1 /\ n # N + 1 /\ G[n] = T[n]
  BY <1>1
<1>7. first # Null => last \in 1 .. N
  <2>1. first # Null => last \in p + 1 .. N
    BY LastChild
  <2> QED BY <1>1, <2>1
<1>8. DOMAIN G = 1 .. N + 1
  OBVIOUS
<1> HIDE DEF G, first, last
<1>9. CASE first = Null
  <2>1. S = [G EXCEPT ![p] = [G[p] EXCEPT !.child = N + 1]]
    BY <1>9
  <2> HIDE DEF S
  <2>2. DOMAIN S = 1 .. N + 1 /\ S = [n \in 1 .. N + 1 |-> S[n]]
    BY <1>8, <2>1
  <2>3. /\ S[p] = [T[p] EXCEPT !.child = N + 1]
        /\ \A n \in 1 .. N + 1 : n # p => S[n] = G[n]
    BY <1>6, <1>8, <2>1
  <2>4. S[p] = [name |-> T[p].name, parent |-> T[p].parent, child |-> N + 1,
                next |-> T[p].next, data |-> T[p].data]
    BY <1>1, <2>3, NodeExcept
  <2>5. /\ IsNode(S[p]) /\ SameNode(S, T, p)
        /\ S[p].child = N + 1 /\ S[p].next = T[p].next
    BY <2>4, NodeFields DEF SameNode
  <2>6. \A n \in 1 .. N : n # p => S[n] = T[n]
    BY <1>6, <2>3
  <2>7. p # N + 1
    BY <1>1
  <2>8. S[N + 1] = [name |-> name, parent |-> p, child |-> Null,
                    next |-> Null, data |-> NoData]
    BY <1>5, <1>6, <2>3, <2>7
  <2>9. /\ IsNode(S[N + 1])
        /\ S[N + 1].name = name /\ S[N + 1].parent = p /\ S[N + 1].data = NoData
        /\ S[N + 1].child = Null /\ S[N + 1].next = Null
    BY <2>8, NodeFields
  <2>10. \A n \in 1 .. N + 1 : n \in 1 .. N \/ n = N + 1
    BY <1>1
  <2>11. \A n \in 1 .. N + 1 : IsNode(S[n])
    BY <1>1, <2>5, <2>6, <2>9, <2>10
  <2>12. \A n \in 1 .. N : SameNode(S, T, n)
    BY <2>5, <2>6 DEF SameNode
  <2>13. Grown(S, T, N, p, name)
    BY <1>9, <2>2, <2>5, <2>6, <2>9, <2>11, <2>12 DEF Grown, first
  <2> QED BY <1>4, <2>13
<1>10. CASE first # Null
  <2>1. S = [G EXCEPT ![last] = [G[last] EXCEPT !.next = N + 1]]
    BY <1>10
  <2>2. last \in 1 .. N
    BY <1>7, <1>10
  <2> HIDE DEF S
  <2>3. DOMAIN S = 1 .. N + 1 /\ S = [n \in 1 .. N + 1 |-> S[n]]
    BY <1>8, <2>1
  <2>4. /\ S[last] = [T[last] EXCEPT !.next = N + 1]
        /\ \A n \in 1 .. N + 1 : n # last => S[n] = G[n]
    BY <1>6, <1>8, <2>1, <2>2
  <2>5. S[last] = [name |-> T[last].name, parent |-> T[last].parent,
                   child |-> T[last].child, next |-> N + 1,
                   data |-> T[last].data]
    BY <1>1, <2>2, <2>4, NodeExcept
  <2>6. /\ IsNode(S[last]) /\ SameNode(S, T, last)
        /\ S[last].child = T[last].child /\ S[last].next = N + 1
    BY <2>5, NodeFields DEF SameNode
  <2>7. \A n \in 1 .. N : n # last => S[n] = T[n]
    BY <1>6, <2>4
  <2>8. last # N + 1
    BY <1>1, <2>2
  <2>9. S[N + 1] = [name |-> name, parent |-> p, child |-> Null,
                    next |-> Null, data |-> NoData]
    BY <1>5, <1>6, <2>4, <2>8
  <2>10. /\ IsNode(S[N + 1])
         /\ S[N + 1].name = name /\ S[N + 1].parent = p /\ S[N + 1].data = NoData
         /\ S[N + 1].child = Null /\ S[N + 1].next = Null
    BY <2>9, NodeFields
  <2>11. \A n \in 1 .. N + 1 : n \in 1 .. N \/ n = N + 1
    BY <1>1
  <2>12. \A n \in 1 .. N + 1 : IsNode(S[n])
    BY <1>1, <2>6, <2>7, <2>10, <2>11
  <2>13. \A n \in 1 .. N : SameNode(S, T, n)
    BY <2>6, <2>7 DEF SameNode
  <2>14. \A n \in 1 .. N : S[n].child = T[n].child
    BY <2>6, <2>7
  <2>15. \A n \in 1 .. N : S[n].next = IF n = last THEN N + 1 ELSE T[n].next
    BY <2>6, <2>7
  <2>16. Grown(S, T, N, p, name)
    BY <1>10, <2>3, <2>10, <2>12, <2>13, <2>14, <2>15 DEF Grown, first, last
  <2> QED BY <1>4, <2>16
<1> QED BY <1>9, <1>10

LEMMA GrownShape ==
  ASSUME NEW T, NEW N, Shape(T, N), NEW p \in 1 .. N, NEW name,
         \A k \in 1 .. N : T[k].parent = p => T[k].name # name,
         NEW S, Grown(S, T, N, p, name)
  PROVE  Shape(S, N + 1)
<1> DEFINE first == T[p].child
           last == LastSibling(T, first)
<1>1. N \in Nat \ {0} /\ Null = 0 /\ N + 1 \in Nat \ {0} /\ p \in 1 .. N
  BY DEF Shape, Null
<1>2. /\ \A n \in 1 .. N : n \in 1 .. N + 1 /\ n # N + 1
      /\ \A n \in 1 .. N + 1 : n \in 1 .. N \/ n = N + 1
  BY <1>1
<1>3. /\ \A n \in 1 .. N :
           /\ S[n].name = T[n].name /\ S[n].parent = T[n].parent
           /\ S[n].child = IF n = p /\ first = Null THEN N + 1 ELSE T[n].child
           /\ S[n].next = IF first # Null /\ n = last THEN N + 1 ELSE T[n].next
      /\ S[N + 1].name = name /\ S[N + 1].parent = p
      /\ S[N + 1].child = Null /\ S[N + 1].next = Null
  BY DEF Grown, SameNode
<1>4. /\ \A k \in 1 .. N : T[k].parent = p => first # Null
      /\ first # Null =>
           /\ last \in p + 1 .. N /\ T[last].parent = p
           /\ \A k \in 1 .. N : T[k].parent = p => k <= last
  <2>1. \A k \in 1 .. N : T[k].parent = p => first # Null
    BY Links
  <2>2. first # Null =>
           /\ last \in p + 1 .. N /\ T[last].parent = p
           /\ \A k \in 1 .. N : T[k].parent = p => k <= last
    BY LastChild
  <2> QED BY <2>1, <2>2
<1> HIDE DEF first, last
<1>5. AreNodes(S, N + 1)
  BY DEF Grown, AreNodes, IsNode
<1>6. Ordered(S, N + 1)
  <2>1. S[Root].parent = Null
    <3>1. T[Root].parent = Null /\ Root \in 1 .. N
      BY <1>1 DEF Shape, Ordered, Root
    <3> QED BY <1>3, <3>1
  <2>2. ASSUME NEW n \in 2 .. N + 1 PROVE S[n].parent \in 1 .. n - 1
    <3>1. CASE n = N + 1
      BY <1>1, <1>3, <3>1
    <3>2. CASE n # N + 1
      <4>1. n \in 2 .. N /\ n \in 1 .. N
        BY <1>1, <3>2
      <4>2. T[n].parent \in 1 .. n - 1
        BY <4>1 DEF Shape, Ordered
      <4> QED BY <1>3, <4>1, <4>2
    <3> QED BY <3>1, <3>2
  <2> QED BY <2>1, <2>2 DEF Ordered
<1>7. Named(S, N + 1)
  <2> SUFFICES ASSUME NEW m \in 1 .. N + 1, NEW n \in 1 .. N + 1,
                      S[m].parent = S[n].parent, S[m].name = S[n].name
               PROVE  m = n
    BY DEF Named
  <2>1. CASE m \in 1 .. N /\ n \in 1 .. N
    <3>1. T[m].parent = T[n].parent /\ T[m].name = T[n].name
      BY <1>3, <2>1
    <3> QED BY <2>1, <3>1 DEF Shape, Named
  <2>2. CASE m = N + 1 /\ n \in 1 .. N
    BY <1>3, <2>2
  <2>3. CASE m \in 1 .. N /\ n = N + 1
    BY <1>3, <2>3
  <2> QED BY <1>2, <2>1, <2>2, <2>3
<1>8. Linked(S, N + 1)
  <2>1. ASSUME NEW n \in 1 .. N
        PROVE  /\ IsLeast(S[n].child, Children(S, N + 1, n))
               /\ IsLeast(S[n].next, Later(S, N + 1, n))
    <3>1. /\ IsLeast(T[n].child, Children(T, N, n))
          /\ IsLeast(T[n].next, Later(T, N, n))
      BY DEF Shape, Linked
    <3>2. Children(S, N + 1, n) =
            Children(T, N, n) \cup (IF n = p THEN {N + 1} ELSE {})
      <4>1. N + 1 \in 1 .. N + 1
        BY <1>1
      <4> QED BY <1>2, <1>3, <4>1 DEF Children
    <3>3. Later(S, N + 1, n) =
            Later(T, N, n) \cup (IF T[n].parent = p THEN {N + 1} ELSE {})
      <4>1. \A k \in n + 1 .. N + 1 : k \in n + 1 .. N \/ k = N + 1
        BY <1>1
      <4>2. /\ N + 1 \in n + 1 .. N + 1
            /\ \A k \in n + 1 .. N : k \in 1 .. N /\ k \in n + 1 .. N + 1
        BY <1>1
      <4> QED BY <1>3, <4>1, <4>2 DEF Later
    <3>4. /\ \A k \in Children(T, N, n) : k \in 1 .. N /\ T[k].parent = n
          /\ \A k \in Later(T, N, n) : k \in n + 1 .. N /\ T[k].parent = T[n].parent
      BY DEF Children, Later
    <3>5. IsLeast(S[n].child, Children(S, N + 1, n))
      <4>1. CASE n = p /\ first = Null
        <5>1. Children(T, N, n) = {}
          BY <1>4, <3>4, <4>1
        <5> QED BY <1>1, <1>3, <3>2, <4>1, <5>1 DEF IsLeast
      <4>2. CASE n # p
        BY <1>3, <3>1, <3>2, <4>2
      <4>3. CASE n = p /\ first # Null
        <5>1. S[n].child = T[n].child /\ T[n].child # Null
          BY <1>3, <4>3 DEF first
        <5>2. /\ T[n].child \in Children(T, N, n)
              /\ \A j \in Children(T, N, n) : T[n].child <= j
          BY <3>1, <5>1 DEF IsLeast
        <5>3. T[n].child <= N + 1
          BY <1>1, <3>4, <5>2
        <5> QED BY <3>2, <5>1, <5>2, <5>3 DEF IsLeast
      <4> QED BY <4>1, <4>2, <4>3
    <3>6. IsLeast(S[n].next, Later(S, N + 1, n))
      <4>1. CASE T[n].parent # p
        <5>1. S[n].next = T[n].next
          BY <1>3, <1>4, <4>1
        <5> QED BY <3>1, <3>3, <4>1, <5>1
      <4>2. CASE T[n].parent = p
        <5>1. /\ first # Null /\ last \in p + 1 .. N /\ T[last].parent = p
              /\ \A k \in 1 .. N : T[k].parent = p => k <= last
              /\ n <= last
          BY <1>4, <4>2
        <5>2. CASE n = last
          <6>1. Later(T, N, n) = {}
            <7> SUFFICES ASSUME NEW k \in Later(T, N, n) PROVE FALSE
              OBVIOUS
            <7>1. k \in n + 1 .. N /\ T[k].parent = p
              BY <3>4, <4>2
            <7>2. k \in 1 .. N /\ ~(k <= n)
              BY <1>1, <7>1
            <7> QED BY <5>1, <5>2, <7>1, <7>2
          <6> QED BY <1>1, <1>3, <3>3, <4>2, <5>1, <5>2, <6>1 DEF IsLeast
        <5>3. CASE n # last
          <6>1. last \in n + 1 .. N
            BY <1>1, <5>1, <5>3
          <6>2. last \in Later(T, N, n)
            BY <4>2, <5>1, <6>1 DEF Later
          <6>3. /\ T[n].next \in Later(T, N, n)
                /\ \A j \in Later(T, N, n) : T[n].next <= j
            BY <3>1, <6>2 DEF IsLeast
          <6>4. T[n].next <= N + 1
            BY <1>1, <3>4, <6>3
          <6>5. S[n].next = T[n].next
            BY <1>3, <5>3
          <6> QED BY <3>3, <6>3, <6>4, <6>5 DEF IsLeast
        <5> QED BY <5>2, <5>3
      <4> QED BY <4>1, <4>2
    <3> QED BY <3>5, <3>6
  <2>2. /\ IsLeast(S[N + 1].child, Children(S, N + 1, N + 1))
        /\ IsLeast(S[N + 1].next, Later(S, N + 1, N + 1))
    <3>1. \A k \in 1 .. N + 1 : S[k].parent # N + 1
      <4>1. \A k \in 2 .. N + 1 : S[k].parent \in 1 .. k - 1
        BY <1>6 DEF Ordered
      <4>2. S[1].parent = 0
        BY <1>1, <1>6 DEF Ordered, Root
      <4>3. \A k \in 1 .. N + 1 : k = 1 \/ k \in 2 .. N + 1
        BY <1>1
      <4>4. \A k \in 2 .. N + 1 : N + 1 \notin 1 .. k - 1
        BY <1>1
      <4> QED BY <1>1, <4>1, <4>2, <4>3, <4>4
    <3>2. Children(S, N + 1, N + 1) = {}
      BY <3>1 DEF Children
    <3>3. Later(S, N + 1, N + 1) = {}
      BY <1>1 DEF Later
    <3> QED BY <1>3, <3>2, <3>3 DEF IsLeast
  <2> QED BY <1>2, <2>1, <2>2 DEF Linked
<1> QED BY <1>1, <1>5, <1>6, <1>7, <1>8 DEF Shape, Grown

------------------------------------------------------------------------------
(* A walk along the parts of a name.                                        *)
IsWalk(w, T, path, l) ==
  w = [k \in 0 .. l |-> IF k = 0 THEN Root ELSE Below(T, w[k - 1], path[k])]

LEMMA WalkExists ==
  ASSUME NEW T, NEW path, NEW l \in Nat
  PROVE  \E w : IsWalk(w, T, path, l)
<1> DEFINE Missing == {k \in Nat : ~ \E w : IsWalk(w, T, path, k)}
<1> SUFFICES ASSUME Missing # {} PROVE FALSE
  OBVIOUS
<1>1. PICK k \in Missing : \A j \in Missing : k <= j
  <2>1. Missing \in SUBSET Nat
    OBVIOUS
  <2> HIDE DEF Missing
  <2> QED BY <2>1, LeastNumber
<1>2. k # 0
  <2> DEFINE w == [n \in 0 .. 0 |-> Root]
  <2>1. IsWalk(w, T, path, 0)
    BY DEF IsWalk
  <2> QED BY <2>1, <1>1
<1>3. k - 1 \in Nat /\ k - 1 \notin Missing
  BY <1>1, <1>2
<1>4. PICK w : IsWalk(w, T, path, k - 1)
  BY <1>3
<1> DEFINE g == [n \in 0 .. k |-> IF n = k THEN Below(T, w[k - 1], path[k])
                                  ELSE w[n]]
<1>5. ASSUME NEW n \in 0 .. k
      PROVE  g[n] = IF n = 0 THEN Root ELSE Below(T, g[n - 1], path[n])
  <2>1. CASE n = k
    <3>1. k - 1 \in 0 .. k /\ k - 1 # k
      BY <1>3
    <3>2. g[k - 1] = w[k - 1]
      BY <3>1
    <3> QED BY <1>2, <2>1, <3>2
  <2>2. CASE n # k
    <3>1. n \in 0 .. k - 1
      BY <1>3, <2>2
    <3>2. w[n] = IF n = 0 THEN Root ELSE Below(T, w[n - 1], path[n])
      BY <1>4, <3>1 DEF IsWalk
    <3>3. n # 0 => n - 1 \in 0 .. k /\ n - 1 # k
      BY <1>3, <3>1
    <3>4. g[n] = w[n] /\ (n # 0 => g[n - 1] = w[n - 1])
      BY <2>2, <3>3
    <3> QED BY <3>2, <3>4
  <2> QED BY <2>1, <2>2
<1>6. g = [n \in 0 .. k |-> g[n]]
  OBVIOUS
<1> HIDE DEF g
<1>7. IsWalk(g, T, path, k)
  BY <1>5, <1>6 DEF IsWalk
<1> QED BY <1>1, <1>7

(* Each node of a walk is the child of the one before that has the name of  *)
(* this part, and there is none when the search ends.                       *)
Walks(w, T, N, path) ==
  /\ w[0] = Root
  /\ \A k \in 0 .. Len(path) : w[k] \in 0 .. N
  /\ \A k \in 1 .. Len(path) :
       \/ w[k] # 0 /\ w[k - 1] # 0
          /\ T[w[k]].parent = w[k - 1] /\ T[w[k]].name = path[k]
       \/ w[k] = 0 /\ w[k - 1] # 0
          /\ \A n \in 1 .. N : T[n].parent = w[k - 1] => T[n].name # path[k]
       \/ w[k] = 0 /\ w[k - 1] = 0

(* retrieve_instance_elem_node() and get_bus_cb_data_info(). *)
LEMMA Retrieves ==
  ASSUME NEW T, NEW N, Shape(T, N), NEW path, Len(path) \in Nat
  PROVE  \E w : /\ Walks(w, T, N, path)
                /\ get_bus_cb_data_info(T, path) =
                     IF w[Len(path)] = 0 THEN NoData ELSE T[w[Len(path)]].data
<1> DEFINE l == Len(path)
           w == CHOOSE h : IsWalk(h, T, path, l)
<1>1. IsWalk(w, T, path, l)
  BY WalkExists
<1>2. retrieve_instance_elem_node(T, path) = w[l]
  BY DEF retrieve_instance_elem_node, IsWalk
<1> HIDE DEF w
<1>3. /\ w[0] = Root
      /\ \A k \in 1 .. l : w[k] = Below(T, w[k - 1], path[k])
  <2>1. /\ 0 \in 0 .. l
        /\ \A k \in 1 .. l : k \in 0 .. l /\ k # 0
    OBVIOUS
  <2> QED BY <1>1, <2>1 DEF IsWalk
<1>4. N \in Nat \ {0} /\ Null = 0 /\ Root = 1
  BY DEF Shape, Null, Root
<1>5. ASSUME NEW k \in 1 .. l, w[k - 1] \in 0 .. N
      PROVE  /\ w[k] \in 0 .. N
             /\ \/ w[k] # 0 /\ w[k - 1] # 0
                   /\ T[w[k]].parent = w[k - 1] /\ T[w[k]].name = path[k]
                \/ w[k] = 0 /\ w[k - 1] # 0
                   /\ \A n \in 1 .. N :
                        T[n].parent = w[k - 1] => T[n].name # path[k]
                \/ w[k] = 0 /\ w[k - 1] = 0
  <2>1. CASE w[k - 1] = 0
    BY <1>3, <1>4, <2>1 DEF Below
  <2>2. CASE w[k - 1] # 0
    <3> DEFINE p == w[k - 1]
               b == Below(T, p, path[k])
    <3>1. p \in 1 .. N
      BY <1>4, <1>5, <2>2
    <3>2. w[k] = b
      BY <1>3
    <3>3. \/ b \in p + 1 .. N /\ T[b].parent = p /\ T[b].name = path[k]
          \/ b = Null /\ \A n \in 1 .. N : T[n].parent = p => T[n].name # path[k]
      BY <3>1, BelowIs
    <3> HIDE DEF b
    <3>4. b \in 0 .. N /\ (b # Null => b # 0)
      BY <1>4, <3>1, <3>3
    <3>5. b \in p + 1 .. N => b # 0
      BY <3>1
    <3> QED BY <1>4, <2>2, <3>2, <3>3, <3>4, <3>5
  <2> QED BY <2>1, <2>2
<1>6. \A k \in 0 .. l : w[k] \in 0 .. N
  <2> DEFINE Bad == {k \in 0 .. l : w[k] \notin 0 .. N}
  <2> SUFFICES ASSUME Bad # {} PROVE FALSE
    OBVIOUS
  <2>1. PICK k \in Bad : \A j \in Bad : k <= j
    <3>1. Bad \in SUBSET Nat
      OBVIOUS
    <3> HIDE DEF Bad
    <3> QED BY <3>1, LeastNumber
  <2>2. k \in 0 .. l /\ k # 0
    BY <1>3, <1>4
  <2>3. k \in 1 .. l /\ k - 1 \in 0 .. l /\ ~(k <= k - 1)
    BY <2>2
  <2>4. w[k - 1] \in 0 .. N
    BY <2>1, <2>3
  <2> QED BY <1>5, <2>3, <2>4
<1>7. Walks(w, T, N, path)
  <2>1. \A k \in 1 .. l : k - 1 \in 0 .. l
    OBVIOUS
  <2> QED BY <1>3, <1>5, <1>6, <2>1 DEF Walks
<1>8. get_bus_cb_data_info(T, path) = IF w[l] = 0 THEN NoData ELSE T[w[l]].data
  BY <1>2, <1>4 DEF get_bus_cb_data_info
<1> QED BY <1>7, <1>8

------------------------------------------------------------------------------
(* A chain of nodes, from the root, with the first k parts of a name.       *)
Chain(w, T, N, path, k) ==
  /\ k \in Nat /\ w[0] = Root
  /\ \A j \in 0 .. k : w[j] \in 1 .. N
  /\ \A j \in 1 .. k : T[w[j]].parent = w[j - 1] /\ T[w[j]].name = path[j]

LEMMA ShorterChain ==
  ASSUME NEW w, NEW T, NEW N, NEW path, NEW k \in Nat, k # 0,
         Chain(w, T, N, path, k)
  PROVE  Chain(w, T, N, path, k - 1)
<1>1. /\ k - 1 \in Nat
      /\ \A j \in 0 .. k - 1 : j \in 0 .. k
      /\ \A j \in 1 .. k - 1 : j \in 1 .. k
  OBVIOUS
<1> QED BY <1>1 DEF Chain

(* Nothing comes back after the end of a walk. *)
LEMMA WalkIsChain ==
  ASSUME NEW T, NEW N, N \in Nat \ {0}, NEW path, Len(path) \in Nat,
         NEW w, Walks(w, T, N, path),
         NEW k \in 0 .. Len(path), w[k] # 0
  PROVE  Chain(w, T, N, path, k)
<1> DEFINE Bad == {j \in 0 .. k : w[j] = 0}
<1>1. k \in Nat /\ k <= Len(path)
  OBVIOUS
<1>2. Bad = {}
  <2> SUFFICES ASSUME Bad # {} PROVE FALSE
    OBVIOUS
  <2>1. PICK j \in Bad : \A i \in Bad : i <= j
    <3>1. Bad \in SUBSET (0 .. k)
      OBVIOUS
    <3> HIDE DEF Bad
    <3> QED BY <1>1, <3>1, GreatestNumber
  <2>2. j \in 0 .. k /\ w[j] = 0 /\ j # k
    OBVIOUS
  <2>3. j + 1 \in 0 .. k /\ j + 1 \in 1 .. Len(path) /\ ~(j + 1 <= j)
        /\ (j + 1) - 1 = j
    BY <1>1, <2>2
  <2>4. w[j + 1] # 0
    BY <2>1, <2>3
  <2>5. w[(j + 1) - 1] # 0
    BY <2>3, <2>4 DEF Walks
  <2> QED BY <2>2, <2>3, <2>5
<1>3. \A j \in 0 .. k : w[j] \in 1 .. N
  <2> SUFFICES ASSUME NEW j \in 0 .. k PROVE w[j] \in 1 .. N
    OBVIOUS
  <2>1. j \in 0 .. Len(path) /\ w[j] # 0
    BY <1>1, <1>2
  <2>2. w[j] \in 0 .. N
    BY <2>1 DEF Walks
  <2> QED BY <2>1, <2>2
<1>4. \A j \in 1 .. k : T[w[j]].parent = w[j - 1] /\ T[w[j]].name = path[j]
  <2> SUFFICES ASSUME NEW j \in 1 .. k
               PROVE  T[w[j]].parent = w[j - 1] /\ T[w[j]].name = path[j]
    OBVIOUS
  <2>1. j \in 1 .. Len(path) /\ j \in 0 .. k
    BY <1>1
  <2>2. w[j] # 0
    BY <1>2, <2>1
  <2> QED BY <2>1, <2>2 DEF Walks
<1> QED BY <1>1, <1>3, <1>4 DEF Chain, Walks

(* Two chains that end at one node have the same parts.                     *)
LEMMA ChainsDiffer ==
  ASSUME NEW T, NEW N, Shape(T, N), NEW p, NEW q, NEW u, NEW w,
         NEW i, NEW j, Chain(u, T, N, p, i), Chain(w, T, N, q, j), u[i] = w[j]
  PROVE  i = j /\ \A n \in 1 .. i : p[n] = q[n]
<1> DEFINE Bad == {k \in Nat : \E m \in Nat :
                     /\ Chain(u, T, N, p, k) /\ Chain(w, T, N, q, m)
                     /\ u[k] = w[m]
                     /\ ~(k = m /\ \A n \in 1 .. k : p[n] = q[n])}
<1>1. i \in Nat /\ j \in Nat
  BY DEF Chain
<1>2. SUFFICES ASSUME Bad # {} PROVE FALSE
  BY <1>1
<1>3. PICK k \in Bad : \A h \in Bad : k <= h
  <2>1. Bad \in SUBSET Nat
    OBVIOUS
  <2> HIDE DEF Bad
  <2> QED BY <1>2, <2>1, LeastNumber
<1>4. PICK m \in Nat :
        /\ Chain(u, T, N, p, k) /\ Chain(w, T, N, q, m)
        /\ u[k] = w[m]
        /\ ~(k = m /\ \A n \in 1 .. k : p[n] = q[n])
  OBVIOUS
<1>5. k \in Nat
  OBVIOUS
<1>6. /\ T[1].parent = 0 /\ Root = 1 /\ N \in Nat
  BY DEF Shape, Ordered, Root, Null
<1>7. /\ u[0] = 1 /\ w[0] = 1
      /\ k # 0 => T[u[k]].parent = u[k - 1] /\ u[k - 1] \in 1 .. N
                  /\ T[u[k]].name = p[k]
      /\ m # 0 => T[w[m]].parent = w[m - 1] /\ w[m - 1] \in 1 .. N
                  /\ T[w[m]].name = q[m]
  <2>1. k # 0 => k \in 1 .. k /\ k - 1 \in 0 .. k
    BY <1>5
  <2>2. m # 0 => m \in 1 .. m /\ m - 1 \in 0 .. m
    OBVIOUS
  <2> QED BY <1>4, <1>6, <2>1, <2>2 DEF Chain
<1>8. CASE k = 0
  <2>1. m = 0
    BY <1>4, <1>6, <1>7, <1>8
  <2> QED BY <1>4, <1>8, <2>1
<1>9. CASE k # 0
  <2>1. m # 0
    BY <1>4, <1>6, <1>7, <1>9
  <2>2. u[k - 1] = w[m - 1] /\ p[k] = q[m]
    BY <1>4, <1>7, <1>9, <2>1
  <2>3. k - 1 \in Nat /\ m - 1 \in Nat /\ ~(k <= k - 1)
    BY <1>5, <1>9, <2>1
  <2>4. Chain(u, T, N, p, k - 1) /\ Chain(w, T, N, q, m - 1)
    BY <1>4, <1>5, <1>9, <2>1, ShorterChain
  <2>5. k - 1 \notin Bad
    BY <1>3, <2>3
  <2>6. k - 1 = m - 1 /\ \A n \in 1 .. k - 1 : p[n] = q[n]
    BY <2>2, <2>3, <2>4, <2>5
  <2>7. k = m
    BY <1>5, <2>6
  <2>8. \A n \in 1 .. k : n \in 1 .. k - 1 \/ n = k
    BY <1>5
  <2> QED BY <1>4, <2>2, <2>6, <2>7, <2>8
<1> QED BY <1>8, <1>9

(* A walk finds the chain that has all the parts.                           *)
LEMMA WalkFindsChain ==
  ASSUME NEW T, NEW N, Shape(T, N), NEW path, Len(path) \in Nat,
         NEW u, Walks(u, T, N, path),
         NEW w, Chain(w, T, N, path, Len(path))
  PROVE  u[Len(path)] = w[Len(path)]
<1> DEFINE Bad == {k \in 0 .. Len(path) : u[k] # w[k]}
<1> SUFFICES ASSUME Bad # {} PROVE FALSE
  OBVIOUS
<1>1. PICK k \in Bad : \A h \in Bad : k <= h
  <2>1. Bad \in SUBSET Nat
    OBVIOUS
  <2> HIDE DEF Bad
  <2> QED BY <2>1, LeastNumber
<1>2. k \in 0 .. Len(path) /\ u[k] # w[k]
  OBVIOUS
<1>3. k # 0
  BY <1>2 DEF Walks, Chain
<1>4. k \in 1 .. Len(path) /\ k - 1 \in 0 .. Len(path) /\ ~(k <= k - 1)
  BY <1>2, <1>3
<1>5. u[k - 1] = w[k - 1]
  BY <1>1, <1>4
<1>6. /\ w[k] \in 1 .. N /\ w[k - 1] \in 1 .. N
      /\ T[w[k]].parent = w[k - 1] /\ T[w[k]].name = path[k]
  BY <1>2, <1>4 DEF Chain
<1>7. u[k] # 0 /\ T[u[k]].parent = w[k - 1] /\ T[u[k]].name = path[k]
  <2>1. w[k - 1] # 0
    BY <1>6
  <2>2. \/ u[k] # 0 /\ T[u[k]].parent = u[k - 1] /\ T[u[k]].name = path[k]
        \/ \A n \in 1 .. N : T[n].parent = u[k - 1] => T[n].name # path[k]
    BY <1>4, <1>5, <2>1 DEF Walks
  <2> QED BY <1>5, <1>6, <2>2
<1>8. u[k] \in 1 .. N
  <2>1. u[k] \in 0 .. N
    BY <1>2 DEF Walks
  <2> QED BY <1>7, <2>1
<1>9. u[k] = w[k]
  BY <1>6, <1>7, <1>8 DEF Shape, Named
<1> QED BY <1>2, <1>9

(* Nodes that are added do not change what a walk finds, but for new nodes. *)
LEMMA OldWalk ==
  ASSUME NEW T, NEW N, Shape(T, N), NEW S, NEW M, Shape(S, M), N <= M,
         \A n \in 1 .. N :
           S[n].name = T[n].name /\ S[n].parent = T[n].parent,
         NEW q, Len(q) \in Nat,
         NEW v, Walks(v, T, N, q), NEW u, Walks(u, S, M, q)
  PROVE  \A k \in 0 .. Len(q) :
           IF v[k] # 0 THEN u[k] = v[k] ELSE u[k] \notin 1 .. N
<1> DEFINE Good(k) == IF v[k] # 0 THEN u[k] = v[k] ELSE u[k] \notin 1 .. N
           Bad == {k \in 0 .. Len(q) : ~Good(k)}
<1> SUFFICES ASSUME Bad # {} PROVE FALSE
  OBVIOUS
<1>1. PICK k \in Bad : \A h \in Bad : k <= h
  <2>1. Bad \in SUBSET Nat
    OBVIOUS
  <2> HIDE DEF Bad
  <2> QED BY <2>1, LeastNumber
<1>2. k \in 0 .. Len(q) /\ ~Good(k)
  OBVIOUS
<1>3. N \in Nat \ {0} /\ M \in Nat \ {0} /\ Root = 1
  BY DEF Shape, Root
<1>4. k # 0
  BY <1>2, <1>3 DEF Walks
<1>5. k \in 1 .. Len(q) /\ k - 1 \in 0 .. Len(q) /\ ~(k <= k - 1)
  BY <1>2, <1>4
<1>6. Good(k - 1)
  <2> HIDE DEF Good
  <2> QED BY <1>1, <1>5
<1>7. /\ v[k] \in 0 .. N /\ v[k - 1] \in 0 .. N
      /\ u[k] \in 0 .. M /\ u[k - 1] \in 0 .. M
  BY <1>5 DEF Walks
<1>8. CASE v[k] # 0
  <2>1. /\ v[k] \in 1 .. N /\ v[k] \in 1 .. M
        /\ v[k - 1] # 0 /\ v[k - 1] \in 1 .. N
        /\ T[v[k]].parent = v[k - 1] /\ T[v[k]].name = q[k]
    <3>1. /\ v[k - 1] # 0
          /\ T[v[k]].parent = v[k - 1] /\ T[v[k]].name = q[k]
      BY <1>5, <1>8 DEF Walks
    <3>2. v[k] \in 1 .. N /\ v[k - 1] \in 1 .. N
      BY <1>7, <1>8, <3>1
    <3> QED BY <1>3, <3>1, <3>2
  <2>2. u[k - 1] = v[k - 1]
    BY <1>6, <2>1
  <2>3. S[v[k]].parent = u[k - 1] /\ S[v[k]].name = q[k]
    BY <2>1, <2>2
  <2>4. u[k] # 0 /\ S[u[k]].parent = u[k - 1] /\ S[u[k]].name = q[k]
    BY <1>5, <2>1, <2>2, <2>3 DEF Walks
  <2>5. u[k] \in 1 .. M
    BY <1>7, <2>4
  <2>6. u[k] = v[k]
    <3>1. \A m, n \in 1 .. M :
            S[m].parent = S[n].parent /\ S[m].name = S[n].name => m = n
      BY DEF Shape, Named
    <3>2. v[k] \in 1 .. M
      BY <2>1
    <3>3. S[u[k]].parent = S[v[k]].parent /\ S[u[k]].name = S[v[k]].name
      BY <2>3, <2>4
    <3> QED BY <2>5, <3>1, <3>2, <3>3
  <2> QED BY <1>2, <1>8, <2>6
<1>9. CASE v[k] = 0
  <2>1. u[k] \in 1 .. N
    BY <1>2, <1>9
  <2>2. u[k] # 0
    BY <2>1
  <2>3. u[k - 1] # 0 /\ S[u[k]].parent = u[k - 1] /\ S[u[k]].name = q[k]
    BY <1>5, <2>2 DEF Walks
  <2>4. T[u[k]].parent = u[k - 1] /\ T[u[k]].name = q[k]
    BY <2>1, <2>3
  <2>5. u[k - 1] \in 1 .. N
    <3>1. u[k] # 1
      BY <2>3, <2>4 DEF Shape, Ordered, Root, Null
    <3>2. u[k] \in 2 .. N
      BY <1>3, <2>1, <3>1
    <3>3. T[u[k]].parent \in 1 .. u[k] - 1
      BY <3>2 DEF Shape, Ordered
    <3> QED BY <1>3, <2>1, <2>4, <3>3
  <2>6. v[k - 1] = u[k - 1] /\ v[k - 1] # 0
    BY <1>6, <2>3, <2>5
  <2>7. \A n \in 1 .. N : T[n].parent = v[k - 1] => T[n].name # q[k]
    BY <1>5, <1>9, <2>6 DEF Walks
  <2> QED BY <2>1, <2>4, <2>6, <2>7
<1> QED BY <1>8, <1>9

------------------------------------------------------------------------------
(* The way down of bus_insert_elem_node(), which adds what is missing.      *)
IsDescent(f, T, path, l) ==
  f = [k \in 0 .. l |-> IF k = 0 THEN [tree |-> T, at |-> Root]
                        ELSE Descend(f[k - 1], path[k])]

LEMMA DescentExists ==
  ASSUME NEW T, NEW path, NEW l \in Nat
  PROVE  \E f : IsDescent(f, T, path, l)
<1> DEFINE Missing == {k \in Nat : ~ \E f : IsDescent(f, T, path, k)}
           start == [tree |-> T, at |-> Root]
<1> HIDE DEF start
<1> SUFFICES ASSUME Missing # {} PROVE FALSE
  OBVIOUS
<1>1. PICK k \in Missing : \A j \in Missing : k <= j
  <2>1. Missing \in SUBSET Nat
    OBVIOUS
  <2> HIDE DEF Missing
  <2> QED BY <2>1, LeastNumber
<1>2. k # 0
  <2> DEFINE f == [n \in 0 .. 0 |-> start]
  <2>1. IsDescent(f, T, path, 0)
    BY DEF IsDescent, start
  <2> QED BY <2>1, <1>1
<1>3. k - 1 \in Nat /\ k - 1 \notin Missing
  BY <1>1, <1>2
<1>4. PICK f : IsDescent(f, T, path, k - 1)
  BY <1>3
<1> DEFINE g == [n \in 0 .. k |-> IF n = k THEN Descend(f[k - 1], path[k])
                                  ELSE f[n]]
<1>5. ASSUME NEW n \in 0 .. k
      PROVE  g[n] = IF n = 0 THEN start ELSE Descend(g[n - 1], path[n])
  <2>1. CASE n = k
    <3>1. k - 1 \in 0 .. k /\ k - 1 # k
      BY <1>3
    <3>2. g[k - 1] = f[k - 1]
      BY <3>1
    <3> QED BY <1>2, <2>1, <3>2
  <2>2. CASE n # k
    <3>1. n \in 0 .. k - 1
      BY <1>3, <2>2
    <3>2. f[n] = IF n = 0 THEN start ELSE Descend(f[n - 1], path[n])
      BY <1>4, <3>1 DEF IsDescent, start
    <3>3. n # 0 => n - 1 \in 0 .. k /\ n - 1 # k
      BY <1>3, <3>1
    <3>4. g[n] = f[n] /\ (n # 0 => g[n - 1] = f[n - 1])
      BY <2>2, <3>3
    <3> QED BY <3>2, <3>4
  <2> QED BY <2>1, <2>2
<1>6. g = [n \in 0 .. k |-> g[n]]
  OBVIOUS
<1> HIDE DEF g
<1>7. IsDescent(g, T, path, k)
  BY <1>5, <1>6 DEF IsDescent, start
<1> QED BY <1>1, <1>7

(* S has the nodes of T and others, that carry no callbacks yet.            *)
Extends(S, M, T, N) ==
  /\ Shape(S, M) /\ N <= M
  /\ \A n \in 1 .. N : SameNode(S, T, n)
  /\ \A n \in N + 1 .. M : S[n].data = NoData

LEMMA DescendExtends ==
  ASSUME NEW S, NEW M, Shape(S, M), NEW pl, pl.tree = S, pl.at \in 1 .. M,
         pl = [tree |-> pl.tree, at |-> pl.at], NEW name
  PROVE  LET d == Descend(pl, name) IN
         /\ d = [tree |-> d.tree, at |-> d.at]
         /\ \E K : /\ Extends(d.tree, K, S, M) /\ d.at \in 1 .. K
                   /\ d.tree[d.at].parent = pl.at
                   /\ d.tree[d.at].name = name
<1> DEFINE d == Descend(pl, name)
           a == pl.at
           b == Below(S, a, name)
<1>1. M \in Nat \ {0} /\ Null = 0
  BY DEF Shape, Null
<1>2. \/ b \in a + 1 .. M /\ S[b].parent = a /\ S[b].name = name
      \/ b = Null /\ \A k \in 1 .. M : S[k].parent = a => S[k].name # name
  BY BelowIs
<1>3. CASE b # Null
  <2>1. d = [tree |-> S, at |-> b]
    <3>1. d = [pl EXCEPT !.at = b]
      BY <1>3 DEF Descend
    <3>2. [pl EXCEPT !.at = b] = [tree |-> S, at |-> b]
      <4> HIDE DEF b
      <4> QED OBVIOUS
    <3> QED BY <3>1, <3>2
  <2>2. d.tree = S /\ d.at = b
    BY <2>1
  <2>3. Extends(S, M, S, M)
    BY <1>1 DEF Extends, SameNode
  <2>4. b \in 1 .. M
    BY <1>1, <1>2, <1>3
  <2> HIDE DEF d, b
  <2>5. d = [tree |-> d.tree, at |-> d.at]
    BY <2>1, <2>2
  <2> QED BY <1>2, <1>3, <2>2, <2>3, <2>4, <2>5 DEF d
<1>4. CASE b = Null
  <2>1. \A k \in 1 .. M : S[k].parent = a => S[k].name # name
    BY <1>1, <1>2, <1>4
  <2>2. d = AddNode(S, a, name)
    BY <1>4 DEF Descend
  <2>3. d.at = M + 1 /\ Grown(d.tree, S, M, a, name)
    BY <2>2, AddNodeGrows
  <2>4. d = [tree |-> d.tree, at |-> d.at]
    BY <2>2 DEF AddNode
  <2> HIDE DEF d
  <2>5. Shape(d.tree, M + 1)
    BY <2>1, <2>3, GrownShape
  <2>6. \A n \in M + 1 .. M + 1 : n = M + 1
    BY <1>1
  <2>7. Extends(d.tree, M + 1, S, M)
    BY <1>1, <2>3, <2>5, <2>6 DEF Extends, Grown
  <2>8. M + 1 \in 1 .. M + 1
    BY <1>1
  <2>9. d.tree[d.at].parent = a /\ d.tree[d.at].name = name
    BY <2>3 DEF Grown
  <2> QED BY <2>3, <2>4, <2>7, <2>8, <2>9 DEF d
<1> QED BY <1>3, <1>4

LEMMA ExtendsAgain ==
  ASSUME NEW R, NEW K, NEW S, NEW M, NEW T, NEW N, N \in Nat,
         Extends(R, K, S, M), Extends(S, M, T, N)
  PROVE  Extends(R, K, T, N)
<1>1. K \in Nat /\ M \in Nat /\ M <= K /\ N <= M
  BY DEF Extends, Shape
<1>2. /\ \A n \in 1 .. N : n \in 1 .. M
      /\ \A n \in N + 1 .. K :
           (n \in N + 1 .. M /\ n \in 1 .. M) \/ n \in M + 1 .. K
  BY <1>1
<1>3. N <= K
  BY <1>1
<1> QED BY <1>2, <1>3 DEF Extends, SameNode

(* The places on the way down are a chain of the tree that has grown.       *)
LEMMA DescentIsChain ==
  ASSUME NEW T, NEW N, Shape(T, N), NEW path, NEW l \in Nat,
         NEW f, IsDescent(f, T, path, l)
  PROVE  \A k \in 0 .. l :
           /\ f[k] = [tree |-> f[k].tree, at |-> f[k].at]
           /\ \E M : /\ Extends(f[k].tree, M, T, N)
                     /\ Chain([j \in 0 .. l |-> f[j].at], f[k].tree, M, path, k)
<1> DEFINE w == [j \in 0 .. l |-> f[j].at]
           Good(k) == /\ f[k] = [tree |-> f[k].tree, at |-> f[k].at]
                      /\ \E M : /\ Extends(f[k].tree, M, T, N)
                                /\ Chain(w, f[k].tree, M, path, k)
           Bad == {k \in 0 .. l : ~Good(k)}
<1> SUFFICES ASSUME Bad # {} PROVE FALSE
  OBVIOUS
<1>0. \A j \in 0 .. l : w[j] = f[j].at
  OBVIOUS
<1> HIDE DEF w
<1>1. PICK k \in Bad : \A h \in Bad : k <= h
  <2>1. Bad \in SUBSET Nat
    OBVIOUS
  <2> HIDE DEF Bad
  <2> QED BY <2>1, LeastNumber
<1>2. k \in 0 .. l /\ ~Good(k)
  OBVIOUS
<1>3. N \in Nat \ {0} /\ Root = 1
  BY DEF Shape, Root
<1>4. k # 0
  <2>1. f[0] = [tree |-> T, at |-> Root] /\ 0 \in 0 .. l
    BY DEF IsDescent
  <2>2. f[0].tree = T /\ f[0].at = Root
    BY <2>1
  <2>3. Extends(T, N, T, N)
    BY <1>3 DEF Extends, SameNode
  <2>4. w[0] = Root /\ Root \in 1 .. N
    BY <1>0, <1>3, <2>1, <2>2
  <2>5. \A j \in 0 .. 0 : j = 0
    OBVIOUS
  <2>6. Chain(w, T, N, path, 0)
    BY <2>4, <2>5 DEF Chain
  <2>7. Good(0)
    BY <2>1, <2>2, <2>3, <2>6
  <2> QED BY <1>2, <2>7
<1>5. k - 1 \in 0 .. l /\ k - 1 \in Nat /\ k \in Nat /\ ~(k <= k - 1)
  BY <1>2, <1>4
<1>6. Good(k - 1)
  <2> HIDE DEF Good
  <2> QED BY <1>1, <1>5
<1>7. PICK M : /\ Extends(f[k - 1].tree, M, T, N)
               /\ Chain(w, f[k - 1].tree, M, path, k - 1)
  BY <1>6
<1> DEFINE S == f[k - 1].tree
           R == f[k].tree
<1>8. f[k] = Descend(f[k - 1], path[k])
  BY <1>2, <1>4 DEF IsDescent
<1>9. /\ w[k - 1] = f[k - 1].at /\ w[k] = f[k].at /\ k - 1 \in 0 .. k - 1
  BY <1>0, <1>2, <1>5
<1>10. Shape(S, M) /\ w[k - 1] \in 1 .. M /\ w[0] = Root
  BY <1>7, <1>9 DEF Extends, Chain
<1>11. /\ f[k] = [tree |-> f[k].tree, at |-> f[k].at]
       /\ \E K : /\ Extends(R, K, S, M) /\ w[k] \in 1 .. K
                 /\ R[w[k]].parent = w[k - 1]
                 /\ R[w[k]].name = path[k]
  <2>1. f[k - 1] = [tree |-> f[k - 1].tree, at |-> f[k - 1].at]
    BY <1>6
  <2> QED BY <1>8, <1>9, <1>10, <2>1, DescendExtends
<1>12. PICK K : /\ Extends(R, K, S, M) /\ w[k] \in 1 .. K
                /\ R[w[k]].parent = w[k - 1]
                /\ R[w[k]].name = path[k]
  BY <1>11
<1> HIDE DEF S, R
<1>13. Extends(R, K, T, N)
  BY <1>3, <1>7, <1>12, ExtendsAgain DEF S
<1>14. M \in Nat /\ K \in Nat /\ M <= K
  BY <1>12, <1>10 DEF Extends, Shape
<1>15. Chain(w, R, K, path, k)
  <2>1. /\ \A j \in 0 .. k - 1 : w[j] \in 1 .. M
        /\ \A j \in 1 .. k - 1 : S[w[j]].parent = w[j - 1] /\ S[w[j]].name = path[j]
    BY <1>7 DEF Chain, S
  <2>2. /\ \A j \in 0 .. k : j \in 0 .. k - 1 \/ j = k
        /\ \A j \in 1 .. k : (j \in 1 .. k - 1 /\ j \in 0 .. k - 1) \/ j = k
    BY <1>5
  <2>3. \A n \in 1 .. M : n \in 1 .. K /\ SameNode(R, S, n)
    BY <1>12, <1>14 DEF Extends
  <2>4. \A j \in 0 .. k : w[j] \in 1 .. K
    BY <1>12, <2>1, <2>2, <2>3
  <2>5. \A j \in 1 .. k : R[w[j]].parent = w[j - 1] /\ R[w[j]].name = path[j]
    BY <1>12, <2>1, <2>2, <2>3 DEF SameNode
  <2> QED BY <1>5, <1>10, <2>4, <2>5 DEF Chain
<1>16. Good(k)
  BY <1>11, <1>13, <1>15 DEF R
<1> QED BY <1>2, <1>16

------------------------------------------------------------------------------
(* The callbacks of a node are no part of the shape.                        *)
WithData(S, a, d) == [S EXCEPT ![a].data = d]

LEMMA DataKeepsShape ==
  ASSUME NEW S, NEW M, Shape(S, M), NEW a \in 1 .. M, NEW d,
         NEW R, R = WithData(S, a, d)
  PROVE  /\ Shape(R, M)
         /\ \A n \in 1 .. M :
              /\ R[n].name = S[n].name /\ R[n].parent = S[n].parent
              /\ R[n].data = IF n = a THEN d ELSE S[n].data
<1>1. DOMAIN S = 1 .. M /\ M \in Nat \ {0} /\ \A n \in 1 .. M : IsNode(S[n])
  BY DEF Shape, AreNodes, IsNode
<1>2. R = [S EXCEPT ![a] = [S[a] EXCEPT !.data = d]]
  BY DEF WithData
<1>3. DOMAIN R = 1 .. M /\ R = [n \in 1 .. M |-> R[n]]
  BY <1>1, <1>2
<1>4. R[a] = [S[a] EXCEPT !.data = d] /\ \A n \in 1 .. M : n # a => R[n] = S[n]
  BY <1>1, <1>2
<1>5. R[a] = [name |-> S[a].name, parent |-> S[a].parent, child |-> S[a].child,
              next |-> S[a].next, data |-> d]
  BY <1>1, <1>4, NodeExcept
<1>6. /\ IsNode(R[a]) /\ R[a].name = S[a].name /\ R[a].parent = S[a].parent
      /\ R[a].child = S[a].child /\ R[a].next = S[a].next /\ R[a].data = d
  BY <1>5, NodeFields
<1>7. \A n \in 1 .. M :
        /\ IsNode(R[n]) /\ R[n].name = S[n].name /\ R[n].parent = S[n].parent
        /\ R[n].child = S[n].child /\ R[n].next = S[n].next
        /\ R[n].data = IF n = a THEN d ELSE S[n].data
  BY <1>1, <1>4, <1>6
<1>8. AreNodes(R, M)
  BY <1>3, <1>7 DEF AreNodes, IsNode
<1>9. Ordered(R, M)
  <2>1. Root \in 1 .. M /\ \A n \in 2 .. M : n \in 1 .. M
    BY <1>1 DEF Root
  <2> QED BY <1>7, <2>1 DEF Shape, Ordered
<1>10. Named(R, M)
  <2>1. \A m, n \in 1 .. M :
          S[m].parent = S[n].parent /\ S[m].name = S[n].name => m = n
    BY DEF Shape, Named
  <2> QED BY <1>7, <2>1 DEF Named
<1>11. Linked(R, M)
  <2> SUFFICES ASSUME NEW n \in 1 .. M
               PROVE  /\ IsLeast(R[n].child, Children(R, M, n))
                      /\ IsLeast(R[n].next, Later(R, M, n))
    BY DEF Linked
  <2>1. Children(R, M, n) = Children(S, M, n)
    BY <1>7 DEF Children
  <2>2. Later(R, M, n) = Later(S, M, n)
    <3>1. \A k \in n + 1 .. M : k \in 1 .. M
      BY <1>1
    <3> QED BY <1>7, <3>1 DEF Later
  <2>3. /\ IsLeast(S[n].child, Children(S, M, n))
        /\ IsLeast(S[n].next, Later(S, M, n))
    BY DEF Shape, Linked
  <2> QED BY <1>7, <2>1, <2>2, <2>3
<1>12. Shape(R, M)
  BY <1>1, <1>3, <1>8, <1>9, <1>10, <1>11 DEF Shape
<1> QED BY <1>7, <1>12

LEMMA Inserts ==
  ASSUME NEW T, NEW N, Shape(T, N), NEW path, Len(path) \in Nat, NEW d
  PROVE  LET R == bus_insert_elem_node(T, path, d) IN
         \E M, w :
           /\ Shape(R, M) /\ N <= M
           /\ \A n \in 1 .. N :
                R[n].name = T[n].name /\ R[n].parent = T[n].parent
           /\ Chain(w, R, M, path, Len(path))
           /\ \A n \in 1 .. M :
                R[n].data = IF n = w[Len(path)] THEN d
                            ELSE IF n \in 1 .. N THEN T[n].data ELSE NoData
<1> DEFINE l == Len(path)
           f == CHOOSE h : IsDescent(h, T, path, l)
           w == [j \in 0 .. l |-> f[j].at]
           R == bus_insert_elem_node(T, path, d)
<1>1. IsDescent(f, T, path, l)
  BY DescentExists
<1>2. R = [f[l].tree EXCEPT ![f[l].at].data = d]
  BY DEF bus_insert_elem_node, IsDescent
<1> HIDE DEF f, R
<1>3. l \in 0 .. l /\ w[l] = f[l].at
  OBVIOUS
<1>4. PICK M : /\ Extends(f[l].tree, M, T, N)
               /\ Chain(w, f[l].tree, M, path, l)
  <2>1. \A k \in 0 .. l :
          /\ f[k] = [tree |-> f[k].tree, at |-> f[k].at]
          /\ \E M : /\ Extends(f[k].tree, M, T, N)
                    /\ Chain([j \in 0 .. l |-> f[j].at], f[k].tree, M, path, k)
    <3> HIDE DEF l
    <3>1. l \in Nat
      BY DEF l
    <3> QED BY <1>1, <3>1, DescentIsChain
  <2> QED BY <1>3, <2>1
<1> DEFINE S == f[l].tree
<1> HIDE DEF S, w
<1>5. Shape(S, M) /\ N <= M /\ w[l] \in 1 .. M
  BY <1>3, <1>4 DEF Extends, Chain, S
<1>6. R = WithData(S, w[l], d)
  BY <1>2, <1>3 DEF S, WithData
<1>7. /\ Shape(R, M)
      /\ \A n \in 1 .. M :
           /\ R[n].name = S[n].name /\ R[n].parent = S[n].parent
           /\ R[n].data = IF n = w[l] THEN d ELSE S[n].data
  <2>1. PICK a : a = w[l]
    OBVIOUS
  <2>2. a \in 1 .. M /\ R = WithData(S, a, d)
    BY <1>5, <1>6, <2>1
  <2>3. /\ Shape(R, M)
        /\ \A n \in 1 .. M :
             /\ R[n].name = S[n].name /\ R[n].parent = S[n].parent
             /\ R[n].data = IF n = a THEN d ELSE S[n].data
    BY <1>5, <2>2, DataKeepsShape
  <2> QED BY <2>1, <2>3
<1>8. N \in Nat \ {0} /\ M \in Nat \ {0}
  BY <1>5 DEF Shape
<1>9. /\ \A n \in 1 .. N : n \in 1 .. M
      /\ \A n \in 1 .. M : n \in 1 .. N \/ n \in N + 1 .. M
      /\ \A n \in N + 1 .. M : n \notin 1 .. N
  BY <1>5, <1>8
<1>10. \A n \in 1 .. N : R[n].name = T[n].name /\ R[n].parent = T[n].parent
  BY <1>4, <1>7, <1>9 DEF Extends, SameNode, S
<1>11. Chain(w, R, M, path, l)
  <2>1. \A j \in 1 .. l : j \in 0 .. l
    OBVIOUS
  <2> QED BY <1>4, <1>7, <2>1 DEF Chain, S
<1>12. \A n \in 1 .. M :
         R[n].data = IF n = w[l] THEN d
                     ELSE IF n \in 1 .. N THEN T[n].data ELSE NoData
  <2>1. \A n \in 1 .. M : S[n].data = IF n \in 1 .. N THEN T[n].data ELSE NoData
    BY <1>4, <1>9 DEF Extends, SameNode, S
  <2> QED BY <1>7, <2>1
<1> QED BY <1>5, <1>7, <1>10, <1>11, <1>12 DEF R

(* After the callbacks of a name are inserted they are found under this     *)
(* name, and those of all other names are what they were.                   *)
THEOREM InsertFinds ==
  ASSUME NEW T, NEW N, Shape(T, N), NEW names, NEW path \in Seq(names), NEW d
  PROVE  LET R == bus_insert_elem_node(T, path, d) IN
         /\ \E M : Shape(R, M)
         /\ get_bus_cb_data_info(R, path) = d
         /\ \A q \in Seq(names) :
              q # path => get_bus_cb_data_info(R, q) = get_bus_cb_data_info(T, q)
<1> DEFINE R == bus_insert_elem_node(T, path, d)
           l == Len(path)
<1> HIDE DEF R
<1>0. l \in Nat
  OBVIOUS
<1>1. PICK M, w :
        /\ Shape(R, M) /\ N <= M
        /\ \A n \in 1 .. N :
             R[n].name = T[n].name /\ R[n].parent = T[n].parent
        /\ Chain(w, R, M, path, l)
        /\ \A n \in 1 .. M :
             R[n].data = IF n = w[l] THEN d
                         ELSE IF n \in 1 .. N THEN T[n].data ELSE NoData
  BY <1>0, Inserts DEF R
<1>2. M \in Nat \ {0} /\ N \in Nat \ {0} /\ w[l] \in 1 .. M
  <2>1. l \in 0 .. l
    BY <1>0
  <2> QED BY <1>1, <2>1 DEF Shape, Chain
<1>3. get_bus_cb_data_info(R, path) = d
  <2>1. PICK u : /\ Walks(u, R, M, path)
                 /\ get_bus_cb_data_info(R, path) =
                      IF u[l] = 0 THEN NoData ELSE R[u[l]].data
    BY <1>0, <1>1, Retrieves
  <2>2. u[l] = w[l]
    BY <1>0, <1>1, <2>1, WalkFindsChain
  <2> QED BY <1>1, <1>2, <2>1, <2>2
<1>4. ASSUME NEW q \in Seq(names), q # path
      PROVE  get_bus_cb_data_info(R, q) = get_bus_cb_data_info(T, q)
  <2> DEFINE m == Len(q)
  <2>0. m \in Nat /\ m \in 0 .. m
    OBVIOUS
  <2>1. PICK u : /\ Walks(u, R, M, q)
                 /\ get_bus_cb_data_info(R, q) =
                      IF u[m] = 0 THEN NoData ELSE R[u[m]].data
    BY <1>1, <2>0, Retrieves
  <2>2. PICK v : /\ Walks(v, T, N, q)
                 /\ get_bus_cb_data_info(T, q) =
                      IF v[m] = 0 THEN NoData ELSE T[v[m]].data
    BY <2>0, Retrieves
  <2>3. u[m] \in 0 .. M /\ v[m] \in 0 .. N
    BY <2>0, <2>1, <2>2 DEF Walks
  <2>4. IF v[m] # 0 THEN u[m] = v[m] ELSE u[m] \notin 1 .. N
    BY <1>1, <2>0, <2>1, <2>2, OldWalk
  <2>5. u[m] # 0 => u[m] # w[l]
    <3> SUFFICES ASSUME u[m] # 0, u[m] = w[l] PROVE FALSE
      OBVIOUS
    <3>1. Chain(u, R, M, q, m)
      BY <1>2, <2>0, <2>1, WalkIsChain
    <3>2. m = l /\ \A n \in 1 .. m : q[n] = path[n]
      BY <1>1, <3>1, ChainsDiffer
    <3>3. q = path
      BY <3>2
    <3> QED BY <1>4, <3>3
  <2>6. CASE u[m] = 0
    <3>1. v[m] = 0
      BY <2>4, <2>6
    <3> QED BY <2>1, <2>2, <2>6, <3>1
  <2>7. CASE u[m] # 0
    <3>1. u[m] \in 1 .. M
      BY <1>2, <2>3, <2>7
    <3>2. R[u[m]].data = IF u[m] \in 1 .. N THEN T[u[m]].data ELSE NoData
      BY <1>1, <2>5, <2>7, <3>1
    <3>3. CASE v[m] # 0
      <4>1. v[m] \in 1 .. N /\ u[m] = v[m]
        BY <1>2, <2>3, <2>4, <3>3
      <4> QED BY <2>1, <2>2, <2>7, <3>2, <3>3, <4>1
    <3>4. CASE v[m] = 0
      BY <2>1, <2>2, <2>4, <2>7, <3>2, <3>4
    <3> QED BY <3>3, <3>4
  <2> QED BY <2>6, <2>7
<1> QED BY <1>1, <1>3, <1>4 DEF R

------------------------------------------------------------------------------
(* The start of the process.  The callbacks of an element are in the tree   *)
(* when rbus knows it, but for the element that is being registered; those  *)
(* of an event are there before rbus delivers it.                           *)
Tree(T) == \E N \in DOMAIN T : Shape(T, N)

All == {elements[k] : k \in DOMAIN elements}
Pending == IF pc = "insert" THEN {elements[tried + 1]} ELSE {}

HandlersInv ==
  pc \in {"register", "insert"} \/ known # {} =>
    /\ Tree(handlers)
    /\ \A e \in All \ Pending :
         get_bus_cb_data_info(handlers, e) = IF e \in known THEN e ELSE NoData

SubsInv ==
  /\ Tree(subs)
  /\ listening \subseteq Seq(STRING)
  /\ \A e \in listening : get_bus_cb_data_info(subs, e) = e

Turn ==
  /\ elements \in ElementLists
  /\ tried \in Nat
  /\ pc = "insert" => tried < Len(elements) /\ elements[tried + 1] \in known
  /\ pc = "subscribe" => tried < Len(Events)
  /\ pc = "unregister" => tried = 0

BusInv == Turn /\ HandlersInv /\ SubsInv

LEMMA IsTree ==
  ASSUME NEW T, NEW N, Shape(T, N)
  PROVE  Tree(T)
<1>1. N \in DOMAIN T
  <2>1. DOMAIN T = 1 .. N /\ N \in Nat \ {0}
    BY DEF Shape, AreNodes
  <2> QED BY <2>1
<1> QED BY <1>1 DEF Tree

LEMMA InsertTree ==
  ASSUME NEW T, Tree(T), NEW path \in Seq(STRING), NEW d
  PROVE  LET R == bus_insert_elem_node(T, path, d) IN
         /\ Tree(R)
         /\ get_bus_cb_data_info(R, path) = d
         /\ \A q \in Seq(STRING) :
              q # path => get_bus_cb_data_info(R, q) = get_bus_cb_data_info(T, q)
<1> DEFINE R == bus_insert_elem_node(T, path, d)
<1>1. PICK N : Shape(T, N)
  BY DEF Tree
<1>2. /\ \E M : Shape(R, M)
      /\ get_bus_cb_data_info(R, path) = d
      /\ \A q \in Seq(STRING) :
           q # path => get_bus_cb_data_info(R, q) = get_bus_cb_data_info(T, q)
  BY <1>1, InsertFinds
<1> HIDE DEF R
<1>3. Tree(R)
  BY <1>2, IsTree
<1> QED BY <1>2, <1>3 DEF R

LEMMA EmptyFinds ==
  ASSUME NEW q \in Seq(STRING)
  PROVE  get_bus_cb_data_info(EmptyTree, q) = NoData
<1>1. Shape(EmptyTree, 1) /\ EmptyTree[1].data = NoData
  BY EmptyShape DEF Root
<1>2. Len(q) \in Nat /\ Len(q) \in 0 .. Len(q)
  OBVIOUS
<1>3. PICK w : /\ Walks(w, EmptyTree, 1, q)
               /\ get_bus_cb_data_info(EmptyTree, q) =
                    IF w[Len(q)] = 0 THEN NoData ELSE EmptyTree[w[Len(q)]].data
  BY <1>1, <1>2, Retrieves
<1>4. w[Len(q)] \in 0 .. 1
  BY <1>2, <1>3 DEF Walks
<1>5. w[Len(q)] = 0 \/ w[Len(q)] = 1
  BY <1>4
<1> QED BY <1>1, <1>3, <1>5

LEMMA Names ==
  ASSUME Turn
  PROVE  /\ Len(elements) \in Nat /\ DOMAIN elements = 1 .. Len(elements)
         /\ All \subseteq Seq(STRING)
         /\ tried < Len(elements) =>
              /\ tried + 1 \in DOMAIN elements
              /\ elements[tried + 1] \in All
         /\ Len(Events) \in Nat \ {0}
         /\ tried < Len(Events) => Events[tried + 1] \in Seq(STRING)
<1>1. elements \in Seq(Seq(STRING)) /\ tried \in Nat
  BY BusAssumption DEF Turn
<1>2. Len(elements) \in Nat /\ DOMAIN elements = 1 .. Len(elements)
  BY <1>1
<1>3. \A k \in DOMAIN elements : elements[k] \in Seq(STRING)
  BY <1>1
<1>4. tried < Len(elements) => tried + 1 \in DOMAIN elements
  BY <1>1, <1>2
<1>5. Len(Events) \in Nat \ {0} /\ Events \in Seq(Seq(STRING))
  BY BusAssumption, WebconfigAssumption
<1>6. tried < Len(Events) => tried + 1 \in 1 .. Len(Events)
  BY <1>1, <1>5
<1>7. tried < Len(Events) => Events[tried + 1] \in Seq(STRING)
  BY <1>5, <1>6
<1> QED BY <1>2, <1>3, <1>4, <1>5, <1>7 DEF All

LEMMA BusInvInit == Init => BusInv
<1> SUFFICES ASSUME Init PROVE BusInv
  OBVIOUS
<1>1. /\ pc = "register" /\ elements \in ElementLists /\ tried = 0
      /\ known = {} /\ listening = {}
      /\ handlers = EmptyTree /\ subs = EmptyTree
  BY DEF Init, BusInit
<1>2. Turn
  BY <1>1 DEF Turn
<1>3. Tree(EmptyTree)
  BY EmptyShape, IsTree
<1>4. HandlersInv
  <2>1. All \subseteq Seq(STRING)
    BY <1>2, Names
  <2> QED BY <1>1, <1>3, <2>1, EmptyFinds DEF HandlersInv
<1>5. SubsInv
  BY <1>1, <1>3 DEF SubsInv
<1> QED BY <1>2, <1>4, <1>5 DEF BusInv

(* The next element, or the next part of the start.                         *)
LEMMA TriedNext ==
  ASSUME tried \in Nat, tried < Len(elements), Len(elements) \in Nat,
         NEW next, Tried(next)
  PROVE  /\ tried' \in Nat
         /\ pc' \in {"register", next}
         /\ pc' = next /\ next # "register" => tried' = 0
BY DEF Tried

LEMMA SubsUnchanged ==
  ASSUME SubsInv, UNCHANGED <<subs, listening>>
  PROVE  SubsInv'
BY DEF SubsInv

LEMMA HandlersUnchanged ==
  ASSUME HandlersInv, UNCHANGED <<elements, known, handlers>>,
         pc' \notin {"register", "insert"} \/ pc = "register",
         pc # "insert", pc' # "insert"
  PROVE  HandlersInv'
<1>1. All' = All /\ Pending' = Pending
  BY DEF All, Pending
<1> QED BY <1>1 DEF HandlersInv

LEMMA BusInvRegister ==
  ASSUME BusInv, RegisterElement
  PROVE  BusInv'
<1>1. /\ pc = "register" /\ pc' = "insert" /\ tried < Len(elements)
      /\ known' = known \cup {elements[tried + 1]}
      /\ UNCHANGED <<elements, tried, handlers, listening, subs>>
  BY DEF RegisterElement
<1>2. Turn'
  BY <1>1 DEF BusInv, Turn
<1>3. Pending' = {elements[tried + 1]} /\ Pending = {} /\ All' = All
  BY <1>1 DEF Pending, All
<1>4. HandlersInv'
  BY <1>1, <1>3 DEF BusInv, HandlersInv
<1> QED BY <1>1, <1>2, <1>4, SubsUnchanged DEF BusInv

LEMMA BusInvInsert ==
  ASSUME BusInv, mux_bus_cb_registration
  PROVE  BusInv'
<1> DEFINE path == elements[tried + 1]
<1>1. /\ pc = "insert" /\ tried < Len(elements) /\ path \in known /\ tried \in Nat
      /\ handlers' = bus_insert_elem_node(handlers, path, path)
      /\ Tried("subscribe")
      /\ UNCHANGED <<elements, known, listening, subs>>
  BY DEF mux_bus_cb_registration, BusInv, Turn
<1>2. /\ Len(elements) \in Nat /\ All \subseteq Seq(STRING) /\ path \in All
      /\ Len(Events) \in Nat \ {0}
  BY <1>1, Names DEF BusInv
<1>3. /\ tried' \in Nat /\ pc' \in {"register", "subscribe"}
      /\ pc' = "subscribe" => tried' = 0
  BY <1>1, <1>2, TriedNext
<1>4. Turn'
  BY <1>1, <1>2, <1>3 DEF BusInv, Turn
<1>5. Pending = {path} /\ Pending' = {} /\ All' = All
  BY <1>1, <1>3 DEF Pending, All
<1> HIDE DEF path
<1>6. Tree(handlers) /\ \A e \in All \ {path} :
        get_bus_cb_data_info(handlers, e) = IF e \in known THEN e ELSE NoData
  BY <1>1, <1>5 DEF BusInv, HandlersInv
<1>7. path \in Seq(STRING)
  BY <1>2
<1>8. /\ Tree(handlers') /\ get_bus_cb_data_info(handlers', path) = path
      /\ \A q \in Seq(STRING) :
           q # path =>
             get_bus_cb_data_info(handlers', q) = get_bus_cb_data_info(handlers, q)
  BY <1>1, <1>6, <1>7, InsertTree
<1>9. \A e \in All :
        get_bus_cb_data_info(handlers', e) = IF e \in known THEN e ELSE NoData
  BY <1>1, <1>2, <1>6, <1>8
<1>10. HandlersInv'
  BY <1>1, <1>5, <1>8, <1>9 DEF HandlersInv
<1> QED BY <1>1, <1>4, <1>10, SubsUnchanged DEF BusInv

LEMMA BusInvSubscribe ==
  ASSUME BusInv, bus_event_subscribe \/ SubscribeFails
  PROVE  BusInv'
<1> DEFINE event == Events[tried + 1]
<1>1. /\ pc = "subscribe" /\ tried < Len(Events) /\ tried \in Nat
      /\ subs' = bus_insert_elem_node(subs, event, event)
      /\ listening' = listening \cup {event} \/ listening' = listening
      /\ \/ tried' = tried /\ pc' = "idle"
         \/ tried' = tried + 1 /\ pc' = (IF tried' = Len(Events) THEN "get" ELSE pc)
      /\ UNCHANGED <<elements, known, handlers>>
  BY DEF bus_event_subscribe, SubscribeFails, Heard, BusInv, Turn
<1>2. event \in Seq(STRING) /\ Len(Events) \in Nat
  BY <1>1, Names DEF BusInv
<1>3. Turn'
  BY <1>1, <1>2 DEF BusInv, Turn
<1>4. HandlersInv'
  BY <1>1, HandlersUnchanged DEF BusInv
<1> HIDE DEF event
<1>5. /\ Tree(subs') /\ get_bus_cb_data_info(subs', event) = event
      /\ \A q \in Seq(STRING) :
           q # event => get_bus_cb_data_info(subs', q) = get_bus_cb_data_info(subs, q)
  BY <1>1, <1>2, InsertTree DEF BusInv, SubsInv
<1>6. SubsInv'
  BY <1>1, <1>2, <1>5 DEF BusInv, SubsInv
<1> QED BY <1>3, <1>4, <1>6 DEF BusInv

(* The steps that leave the trees alone, or give up one of them.            *)
LEMMA BusInvOthers ==
  ASSUME BusInv, OpenFails \/ RegisterFails \/ Unregister
  PROVE  BusInv'
<1>1. Len(elements) \in Nat /\ Len(Events) \in Nat \ {0} /\ tried \in Nat
  BY Names DEF BusInv, Turn
<1>2. CASE OpenFails
  <2>1. /\ pc \in {"register", "subscribe"} /\ tried = 0 /\ tried' = tried
        /\ pc' \in {"subscribe", "idle"}
        /\ UNCHANGED <<elements, known, handlers, listening, subs>>
    BY <1>2 DEF OpenFails, treeVars
  <2>2. Turn'
    BY <1>1, <2>1 DEF BusInv, Turn
  <2> QED BY <2>1, <2>2, HandlersUnchanged, SubsUnchanged DEF BusInv
<1>3. CASE RegisterFails
  <2>1. /\ pc = "register" /\ tried < Len(elements) /\ Tried("unregister")
        /\ UNCHANGED <<elements, known, handlers, listening, subs>>
    BY <1>3 DEF RegisterFails, treeVars
  <2>2. /\ tried' \in Nat /\ pc' \in {"register", "unregister"}
        /\ pc' = "unregister" => tried' = 0
    BY <1>1, <2>1, TriedNext
  <2>3. Turn'
    BY <2>1, <2>2 DEF BusInv, Turn
  <2> QED BY <2>1, <2>2, <2>3, HandlersUnchanged, SubsUnchanged DEF BusInv
<1>4. CASE Unregister
  <2>1. /\ pc = "unregister" /\ pc' = "subscribe" /\ known' = {}
        /\ UNCHANGED <<elements, tried, listening, subs>>
    BY <1>4 DEF Unregister
  <2>2. Turn'
    BY <1>1, <2>1 DEF BusInv, Turn
  <2>3. HandlersInv'
    BY <2>1 DEF HandlersInv
  <2> QED BY <2>1, <2>2, <2>3, SubsUnchanged DEF BusInv
<1> QED BY <1>2, <1>3, <1>4

LEMMA BusInvUnchanged ==
  ASSUME BusInv, UNCHANGED <<tried, treeVars>>,
         pc' = pc \/ pc' \in {"idle", "init", "store", "test", "crashed"},
         pc' = pc \/ pc \in {"get", "init", "store", "idle", "test"}
  PROVE  BusInv'
<1>1. UNCHANGED <<elements, known, handlers, listening, subs>>
  BY DEF treeVars
<1>2. Turn'
  BY <1>1 DEF BusInv, Turn
<1>3. HandlersInv'
  <2>1. All' = All /\ Pending' = Pending
    BY <1>1 DEF All, Pending
  <2> QED BY <1>1, <2>1 DEF BusInv, HandlersInv
<1> QED BY <1>1, <1>2, <1>3, SubsUnchanged DEF BusInv

LEMMA BusInvStep == BusInv /\ [Next]_vars => BusInv'
<1> SUFFICES ASSUME BusInv, [Next]_vars PROVE BusInv'
  OBVIOUS
<1>1. CASE BusStart /\ UNCHANGED <<gatewayVars, cacheVars, testVars>>
  BY <1>1, BusInvRegister, BusInvInsert, BusInvSubscribe, BusInvOthers DEF BusStart
<1>2. CASE bus_init
  BY <1>2, BusInvUnchanged DEF bus_init, GetInit, webconfig_init, Store, GivesUp
<1>3. CASE OneWifi \/ BusThread
  BY <1>3, BusInvUnchanged DEF OneWifi, BusThread
<1>4. CASE TestThread
  <2>1. UNCHANGED <<tried, treeVars>>
    BY <1>4 DEF TestThread
  <2>2. CASE StartTest \/ ExecuteFails \/ ExecuteConfig \/ ExecuteStation
    BY <2>1, <2>2, BusInvUnchanged
    DEF StartTest, ExecuteFails, ExecuteConfig, ExecuteStation, Requested
  <2>3. CASE Deliver \/ step_timeout \/ NextStep
    BY <2>1, <2>3, BusInvUnchanged DEF Deliver, step_timeout, NextStep
  <2> QED BY <1>4, <2>2, <2>3 DEF TestThread
<1>5. CASE Finished \/ UNCHANGED vars
  BY <1>5, BusInvUnchanged DEF Finished, vars
<1> QED BY <1>1, <1>2, <1>3, <1>4, <1>5 DEF Next

(* mux_bus_cb_registration() and bus_event_subscribe(): a request or an     *)
(* event that rbus delivers finds the callbacks of its own name in the tree *)
(* and never those of another, however the names share their parts, and a   *)
(* request for an element that could not be registered finds none.          *)
THEOREM CallbacksAreServed == Spec => []Served
<1>1. BusInv => Served
  BY DEF BusInv, HandlersInv, SubsInv, Served, All, Pending
<1> QED BY <1>1, BusInvInit, BusInvStep, PTL DEF Spec
=============================================================================
