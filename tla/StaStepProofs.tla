---------------------------- MODULE StaStepProofs ----------------------------
(***************************************************************************)
(* Theorems about StaStep, for every number of steps, devices, clients,    *)
(* test cases, frames and failures and every configuration of the steps.   *)
(***************************************************************************)
EXTENDS StaStep, FiniteSetTheorems, SequenceTheorems, WellFoundedInduction,
        TLAPS

(* A set of numbers has a least one, because the intervals below them are   *)
(* finite sets.                                                             *)
LEMMA LeastNumber ==
  ASSUME NEW T \in SUBSET Nat, T # {}
  PROVE  \E x \in T : \A y \in T : x <= y
<1> DEFINE I == {0 .. x : x \in T}
<1>1. I \subseteq FiniteSubsetsOf(Nat) /\ I # {}
  <2>1. \A x \in T : IsFiniteSet(0 .. x)
    BY FS_Interval
  <2>2. \A x \in T : 0 .. x \in SUBSET Nat
    OBVIOUS
  <2> QED BY <2>1, <2>2 DEF FiniteSubsetsOf
<1>2. PICK k \in I : \A j \in I : <<j, k>> \notin StrictSubsetOrdering(Nat)
  <2> HIDE DEF I
  <2> QED BY <1>1, FS_StrictSubsetOrderingWellFounded, WFMin
<1>3. PICK x \in T : k = 0 .. x
  OBVIOUS
<1>4. ASSUME NEW y \in T PROVE x <= y
  <2>1. <<0 .. y, 0 .. x>> \notin StrictSubsetOrdering(Nat)
    BY <1>2, <1>3
  <2>2. x \in Nat /\ y \in Nat /\ 0 .. x \in SUBSET Nat /\ 0 .. y \in SUBSET Nat
    OBVIOUS
  <2>3. ~(0 .. y \subseteq 0 .. x /\ 0 .. y # 0 .. x)
    BY <2>1, <2>2 DEF StrictSubsetOrdering
  <2>4. y < x => 0 .. y \subseteq 0 .. x /\ x \in 0 .. x /\ x \notin 0 .. y
    BY <2>2
  <2> QED BY <2>2, <2>3, <2>4
<1> QED BY <1>4

------------------------------------------------------------------------------
(* The hash map.                                                            *)
LEMMA FirstMatch ==
  ASSUME NEW S, NEW m \in Seq(S), NEW M
  PROVE  \/ /\ hash_map_find(m, M) = 0
            /\ \A j \in 1 .. Len(m) : m[j] \notin M
         \/ /\ hash_map_find(m, M) \in 1 .. Len(m)
            /\ m[hash_map_find(m, M)] \in M
            /\ \A j \in 1 .. Len(m) : m[j] \in M => hash_map_find(m, M) <= j
<1> DEFINE places == {i \in DOMAIN m : m[i] \in M}
<1>1. hash_map_find(m, M) =
        IF places = {} THEN 0
        ELSE CHOOSE i \in places : \A j \in places : i <= j
  BY DEF hash_map_find
<1>2. places \in SUBSET Nat /\ DOMAIN m = 1 .. Len(m)
  OBVIOUS
<1>3. places # {} => \E i \in places : \A j \in places : i <= j
  <2> HIDE DEF places
  <2> QED BY <1>2, LeastNumber
<1>4. CASE places = {}
  BY <1>1, <1>2, <1>4
<1>5. CASE places # {}
  <2>1. /\ hash_map_find(m, M) \in places
        /\ \A j \in places : hash_map_find(m, M) <= j
    <3> HIDE DEF places
    <3> QED BY <1>1, <1>3, <1>5
  <2> QED BY <1>2, <2>1
<1> QED BY <1>4, <1>5

LEMMA WithoutPlace ==
  ASSUME NEW S, NEW m \in Seq(S), NEW i \in 1 .. Len(m)
  PROVE  /\ RemoveAt(m, i) \in Seq(S)
         /\ Len(RemoveAt(m, i)) = Len(m) - 1
         /\ \A j \in 1 .. Len(m) - 1 :
              RemoveAt(m, i)[j] = IF j < i THEN m[j] ELSE m[j + 1]
<1> DEFINE a == SubSeq(m, 1, i - 1)
           b == SubSeq(m, i + 1, Len(m))
<1>1. RemoveAt(m, i) = a \o b
  BY DEF RemoveAt
<1>2. /\ a \in Seq(S) /\ Len(a) = i - 1
      /\ \A j \in 1 .. i - 1 : a[j] = m[j]
  OBVIOUS
<1>3. b \in Seq(S) /\ Len(b) = Len(m) - i
  OBVIOUS
<1>4. \A j \in 1 .. Len(m) - i : b[j] = m[i + j]
  OBVIOUS
<1>5. Len(m) \in Nat /\ i \in 1 .. Len(m)
  OBVIOUS
<1> HIDE DEF a, b
<1>6. /\ a \o b \in Seq(S) /\ Len(a \o b) = Len(m) - 1
      /\ \A j \in 1 .. Len(m) - 1 :
           (a \o b)[j] = IF j <= i - 1 THEN a[j] ELSE b[j - (i - 1)]
  <2>1. /\ a \o b \in Seq(S) /\ Len(a \o b) = Len(a) + Len(b)
        /\ \A j \in 1 .. Len(a) + Len(b) :
             (a \o b)[j] = IF j <= Len(a) THEN a[j] ELSE b[j - Len(a)]
    BY <1>2, <1>3, ConcatProperties
  <2>2. Len(a) + Len(b) = Len(m) - 1
    BY <1>2, <1>3, <1>5
  <2> QED BY <1>2, <2>1, <2>2
<1>7. ASSUME NEW j \in 1 .. Len(m) - 1
      PROVE  (a \o b)[j] = IF j < i THEN m[j] ELSE m[j + 1]
  <2>1. CASE j < i
    BY <1>2, <1>5, <1>6, <2>1
  <2>2. CASE ~(j < i)
    <3>1. /\ j - (i - 1) \in 1 .. Len(m) - i /\ i + (j - (i - 1)) = j + 1
          /\ ~(j <= i - 1)
      BY <1>5, <2>2
    <3>2. b[j - (i - 1)] = m[j + 1]
      BY <1>4, <3>1
    <3> QED BY <1>6, <2>2, <3>1, <3>2
  <2> QED BY <2>1, <2>2
<1> QED BY <1>1, <1>6, <1>7

------------------------------------------------------------------------------
(* A longer name stands for a higher number.                                *)
LEMMA BeginsOrder ==
  ASSUME NEW d \in Devices, NEW e \in Devices, Begins(d, e)
  PROVE  d <= e
<1>1. d \in Nat /\ e \in Nat /\ Base \in Nat \ {0, 1}
  BY StaAssumption DEF Devices
<1>2. CASE e \div Base = d
  <2>1. e = (Base * (e \div Base)) + (e % Base) /\ e % Base \in 0 .. Base - 1
    BY <1>1
  <2>2. Base * d >= d
    BY <1>1
  <2> QED BY <1>1, <1>2, <2>1, <2>2
<1> QED BY <1>1, <1>2 DEF Begins

------------------------------------------------------------------------------
(* The stations of a pool: each on a device of its own, and those of the    *)
(* clients of a step before all others that have the number of the step,    *)
(* which an earlier test case has left there.                               *)
KeysOf(cl, s) == {Key(s, cl[s][i]) : i \in DOMAIN cl[s]}

OwnDevices(m) == \A i, j \in DOMAIN m : i # j => m[i].dev # m[j].dev

Together(m, cl) ==
  \A i, j \in DOMAIN m :
    /\ j < i /\ m[j].num = m[i].num
    /\ m[i] \in KeysOf(cl, m[i].num)
    => m[j] \in KeysOf(cl, m[i].num)

Pool(m, cl) == m \in Seq(Keys) /\ OwnDevices(m) /\ Together(m, cl)

(* Of the clients of step k.num whose station is in the pool none but k has *)
(* a name that begins with that of k.                                       *)
Alone(m, cl, k) ==
  \A e \in ToSet(m) : e \in Matching(k) /\ e \in KeysOf(cl, k.num) => e = k

LEMMA RemoveOne ==
  ASSUME NEW m, NEW cl, Pool(m, cl), NEW k \in Keys
  PROVE  /\ Pool(remove_sta(m, k), cl)
         /\ ToSet(remove_sta(m, k)) \subseteq ToSet(m)
         /\ \A e \in ToSet(m) : e.num # k.num => e \in ToSet(remove_sta(m, k))
         /\ Alone(m, cl, k) =>
              /\ k \in KeysOf(cl, k.num) => k \notin ToSet(remove_sta(m, k))
              /\ \A e \in ToSet(m) :
                   e \in KeysOf(cl, k.num) /\ e # k
                   => e \in ToSet(remove_sta(m, k))
<1> DEFINE r == remove_sta(m, k)
           M == Matching(k)
           f == hash_map_find(m, M)
<1>1. /\ m \in Seq(Keys) /\ Len(m) \in Nat /\ DOMAIN m = 1 .. Len(m)
      /\ OwnDevices(m) /\ Together(m, cl)
  BY DEF Pool
<1>2. ToSet(m) = {m[j] : j \in 1 .. Len(m)}
  BY <1>1 DEF ToSet
<1>3. \A e \in M : e \in Keys /\ e.num = k.num
  BY DEF Matching
<1>4. k \in M
  BY DEF Matching, Begins
<1>5. r = IF f = 0 THEN m ELSE queue_remove(m, f - 1)
  BY DEF remove_sta, hash_map_remove
<1>6. CASE f = 0
  <2>1. r = m /\ \A j \in 1 .. Len(m) : m[j] \notin M
    BY <1>1, <1>5, <1>6, FirstMatch
  <2>2. k \notin ToSet(r)
    BY <1>2, <1>4, <2>1
  <2> HIDE DEF r, M
  <2> QED BY <2>1, <2>2 DEF r
<1>7. CASE f \in 1 .. Len(m) /\ m[f] \in M
           /\ \A j \in 1 .. Len(m) : m[j] \in M => f <= j
  <2>1. r = RemoveAt(m, f)
    <3>1. f # 0 /\ (f - 1) + 1 = f
      BY <1>1, <1>7
    <3> HIDE DEF f
    <3> QED BY <1>5, <3>1 DEF queue_remove
  <2> HIDE DEF f, r, M
  <2>2. /\ r \in Seq(Keys) /\ Len(r) = Len(m) - 1
        /\ \A j \in 1 .. Len(m) - 1 : r[j] = IF j < f THEN m[j] ELSE m[j + 1]
    BY <1>1, <1>7, <2>1, WithoutPlace
  <2>3. DOMAIN r = 1 .. Len(m) - 1
    BY <2>2
  <2> DEFINE at(j) == IF j < f THEN j ELSE j + 1
  <2>4. \A j \in DOMAIN r : at(j) \in 1 .. Len(m) /\ r[j] = m[at(j)]
    BY <1>1, <1>7, <2>2, <2>3
  <2>5. \A i, j \in DOMAIN r : i < j => at(i) < at(j)
    BY <1>1, <1>7, <2>3
  <2>6. \A i, j \in DOMAIN r : i # j => at(i) # at(j)
    BY <1>1, <1>7, <2>3
  <2>7. \A e \in ToSet(m) : e # m[f] => e \in ToSet(r)
    <3> SUFFICES ASSUME NEW j \in 1 .. Len(m), m[j] # m[f]
                 PROVE  m[j] \in ToSet(r)
      BY <1>2
    <3>1. CASE j < f
      <4>1. j \in DOMAIN r /\ r[j] = m[j]
        BY <1>1, <1>7, <2>2, <2>3, <3>1
      <4> QED BY <4>1 DEF ToSet
    <3>2. CASE f < j
      <4>1. /\ j - 1 \in DOMAIN r /\ ~(j - 1 < f) /\ (j - 1) + 1 = j
        BY <1>1, <1>7, <2>3, <3>2
      <4>2. r[j - 1] = m[j]
        BY <2>2, <2>3, <4>1
      <4> QED BY <4>1, <4>2 DEF ToSet
    <3>3. j = f \/ j < f \/ f < j
      BY <1>1, <1>7
    <3> QED BY <3>1, <3>2, <3>3
  <2>8. ToSet(r) \subseteq ToSet(m)
    BY <1>2, <2>4 DEF ToSet
  <2>9. m[f] \notin ToSet(r)
    <3> SUFFICES ASSUME NEW j \in DOMAIN r, r[j] = m[f] PROVE FALSE
      BY DEF ToSet
    <3>1. at(j) \in 1 .. Len(m) /\ at(j) # f /\ m[at(j)] = m[f]
      BY <1>1, <1>7, <2>3, <2>4
    <3> QED BY <1>1, <1>7, <3>1 DEF OwnDevices
  <2> HIDE DEF at
  <2>10. OwnDevices(r)
    BY <1>1, <2>4, <2>6 DEF OwnDevices
  <2>11. Together(r, cl)
    <3> SUFFICES ASSUME NEW i \in DOMAIN r, NEW j \in DOMAIN r,
                        j < i, r[j].num = r[i].num,
                        r[i] \in KeysOf(cl, r[i].num)
                 PROVE  r[j] \in KeysOf(cl, r[i].num)
      BY DEF Together
    <3>1. /\ at(i) \in DOMAIN m /\ at(j) \in DOMAIN m /\ at(j) < at(i)
          /\ r[i] = m[at(i)] /\ r[j] = m[at(j)]
      BY <1>1, <2>4, <2>5
    <3> QED BY <1>1, <3>1 DEF Together
  <2>12. m[f] \in ToSet(m) /\ m[f].num = k.num
    BY <1>2, <1>3, <1>7
  <2>13. ASSUME Alone(m, cl, k), k \in KeysOf(cl, k.num)
         PROVE  k \notin ToSet(r)
    <3>1. ASSUME k \in ToSet(m) PROVE k = m[f]
      <4>1. PICK j \in 1 .. Len(m) : m[j] = k
        BY <1>2, <3>1
      <4>2. f <= j
        BY <1>4, <1>7, <4>1
      <4>3. m[f] \in KeysOf(cl, k.num)
        <5>1. CASE f = j
          BY <2>13, <4>1, <5>1
        <5>2. CASE f < j
          BY <1>1, <1>7, <2>12, <2>13, <4>1, <5>2 DEF Together
        <5> QED BY <1>1, <1>7, <4>2, <5>1, <5>2
      <4> QED BY <1>7, <2>12, <2>13, <4>3 DEF Alone, M
    <3> QED BY <2>8, <2>9, <3>1
  <2>14. ASSUME Alone(m, cl, k), NEW e \in ToSet(m),
                e \in KeysOf(cl, k.num), e # k
         PROVE  e \in ToSet(r)
    BY <1>7, <2>7, <2>14 DEF Alone, M
  <2>15. Pool(r, cl)
    BY <2>2, <2>10, <2>11 DEF Pool
  <2>16. \A e \in ToSet(m) : e.num # k.num => e \in ToSet(r)
    BY <2>7, <2>12
  <2> QED BY <2>8, <2>13, <2>14, <2>15, <2>16 DEF r
<1> QED BY <1>1, <1>6, <1>7, FirstMatch

------------------------------------------------------------------------------
(* The loops over clients.                                                  *)
IsLoop(f, s, q, whom, l) ==
  f = [n \in 0 .. l |->
         IF n = 0 THEN map
         ELSE IF q[n] \in whom THEN remove_sta(f[n - 1], Key(s, q[n]))
         ELSE f[n - 1]]

LEMMA LoopExists ==
  ASSUME NEW s, NEW q, NEW whom, NEW l \in Nat
  PROVE  \E f : IsLoop(f, s, q, whom, l)
<1> DEFINE Missing == {k \in Nat : ~ \E f : IsLoop(f, s, q, whom, k)}
<1> SUFFICES Missing = {}
  OBVIOUS
<1> SUFFICES ASSUME Missing # {} PROVE FALSE
  OBVIOUS
<1>1. PICK k \in Missing : \A j \in Missing : k <= j
  <2>1. Missing \in SUBSET Nat
    OBVIOUS
  <2> HIDE DEF Missing
  <2> QED BY <2>1, LeastNumber
<1>2. k # 0
  <2> DEFINE f == [n \in 0 .. 0 |-> map]
  <2>1. IsLoop(f, s, q, whom, 0)
    BY DEF IsLoop
  <2> QED BY <2>1, <1>1
<1>3. k - 1 \in Nat /\ k - 1 \notin Missing
  BY <1>1, <1>2
<1>4. PICK f : IsLoop(f, s, q, whom, k - 1)
  BY <1>3
<1> DEFINE Go(m, n) ==
             IF q[n] \in whom THEN remove_sta(m, Key(s, q[n])) ELSE m
           g == [n \in 0 .. k |-> IF n = k THEN Go(f[k - 1], k) ELSE f[n]]
<1> HIDE DEF Go
<1>5. ASSUME NEW n \in 0 .. k
      PROVE  g[n] = IF n = 0 THEN map ELSE Go(g[n - 1], n)
  <2>1. CASE n = k
    <3>1. k - 1 \in 0 .. k /\ k - 1 # k
      BY <1>3
    <3>2. g[k - 1] = f[k - 1]
      BY <3>1
    <3> QED BY <1>2, <2>1, <3>2
  <2>2. CASE n # k
    <3>1. n \in 0 .. k - 1
      BY <1>3, <2>2
    <3>2. f[n] = IF n = 0 THEN map ELSE Go(f[n - 1], n)
      BY <1>4, <3>1 DEF IsLoop, Go
    <3>3. n # 0 => n - 1 \in 0 .. k /\ n - 1 # k
      BY <1>3, <3>1
    <3>4. g[n] = f[n] /\ (n # 0 => g[n - 1] = f[n - 1])
      BY <2>2, <3>3
    <3> QED BY <3>2, <3>4
  <2> QED BY <2>1, <2>2
<1>6. g = [n \in 0 .. k |-> g[n]]
  OBVIOUS
<1> HIDE DEF g
<1>7. IsLoop(g, s, q, whom, k)
  BY <1>5, <1>6 DEF IsLoop, Go
<1> QED BY <1>1, <1>7

LEMMA LoopIs ==
  ASSUME NEW s, NEW q, NEW whom, Len(q) \in Nat
  PROVE  \E f : /\ IsLoop(f, s, q, whom, Len(q))
                /\ RemoveClients(s, q, whom) = f[Len(q)]
<1>1. PICK f : IsLoop(f, s, q, whom, Len(q))
  BY LoopExists
<1> DEFINE after == CHOOSE h : IsLoop(h, s, q, whom, Len(q))
<1>2. IsLoop(after, s, q, whom, Len(q))
  BY <1>1
<1>3. RemoveClients(s, q, whom) = after[Len(q)]
  BY DEF RemoveClients, IsLoop
<1> QED BY <1>2, <1>3

(* When a client is removed, those whose names begin with its own have been *)
(* removed before.                                                          *)
InTurn(q, whom) ==
  \A n, i \in DOMAIN q :
    i # n /\ Begins(q[n].dev, q[i].dev) => i < n /\ q[i] \in whom

LEMMA Removal ==
  ASSUME NEW cl, Pool(map, cl), NEW s \in Steps, NEW q \in Seq(Clients),
         NEW whom, KeysOf(cl, s) = {Key(s, q[i]) : i \in DOMAIN q}
  PROVE  LET r == RemoveClients(s, q, whom) IN
         /\ Pool(r, cl)
         /\ ToSet(r) \subseteq ToSet(map)
         /\ \A e \in ToSet(map) : e.num # s => e \in ToSet(r)
         /\ InTurn(q, whom) =>
              \A i \in DOMAIN q : q[i] \in whom => Key(s, q[i]) \notin ToSet(r)
<1>1. Len(q) \in Nat /\ DOMAIN q = 1 .. Len(q)
  OBVIOUS
<1>2. PICK f : /\ IsLoop(f, s, q, whom, Len(q))
               /\ RemoveClients(s, q, whom) = f[Len(q)]
  BY <1>1, LoopIs
<1> DEFINE Good(n) ==
      /\ Pool(f[n], cl)
      /\ ToSet(f[n]) \subseteq ToSet(map)
      /\ \A e \in ToSet(map) : e.num # s => e \in ToSet(f[n])
      /\ InTurn(q, whom) =>
           \A i \in 1 .. n : q[i] \in whom => Key(s, q[i]) \notin ToSet(f[n])
<1>3. Good(0)
  <2>1. f[0] = map
    BY <1>1, <1>2 DEF IsLoop
  <2> QED BY <2>1
<1>4. ASSUME NEW n \in 1 .. Len(q), Good(n - 1) PROVE Good(n)
  <2>1. f[n] = IF q[n] \in whom THEN remove_sta(f[n - 1], Key(s, q[n]))
               ELSE f[n - 1]
    BY <1>1, <1>2 DEF IsLoop
  <2> DEFINE k == Key(s, q[n])
             m == f[n - 1]
  <2>2. /\ k \in Keys /\ k.num = s /\ k.dev = q[n].dev /\ k \in KeysOf(cl, s)
    <3>1. q[n] \in Clients
      BY <1>1
    <3> QED BY <1>1, <3>1 DEF Key, Keys, Clients
  <2>3. /\ Pool(m, cl) /\ ToSet(m) \subseteq ToSet(map)
        /\ \A e \in ToSet(map) : e.num # s => e \in ToSet(m)
        /\ InTurn(q, whom) =>
             \A i \in 1 .. n - 1 : q[i] \in whom => Key(s, q[i]) \notin ToSet(m)
    BY <1>4
  <2>4. \A i \in 1 .. n : i = n \/ i \in 1 .. n - 1
    BY <1>1
  <2> HIDE DEF k, m
  <2>5. CASE q[n] \notin whom
    <3>1. f[n] = m
      BY <2>1, <2>5 DEF m
    <3> QED BY <2>3, <2>4, <2>5, <3>1
  <2>6. CASE q[n] \in whom
    <3>1. f[n] = remove_sta(m, k)
      BY <2>1, <2>6 DEF m, k
    <3>2. /\ Pool(f[n], cl) /\ ToSet(f[n]) \subseteq ToSet(m)
          /\ \A e \in ToSet(m) : e.num # s => e \in ToSet(f[n])
          /\ Alone(m, cl, k) => k \notin ToSet(f[n])
      BY <2>2, <2>3, <3>1, RemoveOne
    <3>3. ASSUME InTurn(q, whom) PROVE Alone(m, cl, k)
      <4> SUFFICES ASSUME NEW e \in ToSet(m), e \in Matching(k),
                          e \in KeysOf(cl, k.num)
                   PROVE  e = k
        BY DEF Alone
      <4>1. PICK i \in DOMAIN q : e = Key(s, q[i])
        BY <2>2
      <4>2. Begins(q[n].dev, q[i].dev)
        BY <2>2, <4>1 DEF Matching, Key
      <4>3. ASSUME i # n PROVE FALSE
        <5>1. i < n /\ q[i] \in whom
          BY <1>1, <3>3, <4>2, <4>3 DEF InTurn
        <5>2. i \in 1 .. n - 1
          BY <1>1, <5>1
        <5> QED BY <2>3, <3>3, <4>1, <5>1, <5>2
      <4> QED BY <4>1, <4>3 DEF k
    <3>4. InTurn(q, whom) =>
            \A i \in 1 .. n : q[i] \in whom => Key(s, q[i]) \notin ToSet(f[n])
      BY <2>3, <2>4, <3>2, <3>3 DEF k
    <3> QED BY <2>3, <3>2, <3>4
  <2> QED BY <2>5, <2>6
<1>5. Good(Len(q))
  <2> DEFINE Bad == {n \in 0 .. Len(q) : ~Good(n)}
  <2> HIDE DEF Good
  <2> SUFFICES ASSUME Bad # {} PROVE FALSE
    BY <1>1
  <2>1. PICK n \in Bad : \A j \in Bad : n <= j
    <3>1. Bad \in SUBSET Nat
      BY <1>1
    <3> HIDE DEF Bad
    <3> QED BY <3>1, LeastNumber
  <2>2. n # 0
    BY <1>3, <2>1
  <2>3. n \in 1 .. Len(q) /\ n - 1 \in 0 .. Len(q) /\ n - 1 \notin Bad
    BY <1>1, <2>1, <2>2
  <2> QED BY <1>4, <2>1, <2>3
<1> QED BY <1>1, <1>2, <1>5

------------------------------------------------------------------------------
(* The devices that a step takes.                                           *)
LEMMA DevicesFinite ==
  /\ IsFiniteSet(Devices)
  /\ Devices \in SUBSET Nat
  /\ \A S \in SUBSET Devices : IsFiniteSet(S) /\ Cardinality(S) \in Nat
<1>1. IsFiniteSet(Devices) /\ Devices \in SUBSET Nat
  BY FS_Interval, StaAssumption DEF Devices
<1> QED BY <1>1, FS_Subset, FS_CardinalityType

(* There are as many devices that come first as there are free ones.        *)
FirstOf(S, k) ==
  /\ Cardinality(S) = k
  /\ \A d \in S, e \in Free \ S : d < e

LEMMA FirstOnesExist ==
  ASSUME NEW k \in Nat, k <= Cardinality(Free)
  PROVE  \E S \in SUBSET Free : FirstOf(S, k)
<1> DEFINE Missing == {n \in 0 .. k : ~ \E S \in SUBSET Free : FirstOf(S, n)}
<1> SUFFICES ASSUME Missing # {} PROVE FALSE
  OBVIOUS
<1>0. Free \in SUBSET Devices /\ Free \in SUBSET Nat
  BY DevicesFinite DEF Free
<1>1. PICK n \in Missing : \A j \in Missing : n <= j
  <2>1. Missing \in SUBSET Nat
    OBVIOUS
  <2> HIDE DEF Missing
  <2> QED BY <2>1, LeastNumber
<1>2. n # 0
  <2>1. FirstOf({}, 0)
    BY FS_EmptySet DEF FirstOf
  <2> QED BY <1>1, <2>1
<1>3. n - 1 \in 0 .. k /\ n - 1 \notin Missing
  BY <1>1, <1>2
<1>4. PICK S \in SUBSET Free : FirstOf(S, n - 1)
  BY <1>3
<1>5. IsFiniteSet(S) /\ S # Free
  <2>1. IsFiniteSet(S)
    BY <1>0, DevicesFinite
  <2>2. n - 1 < k
    BY <1>1, <1>2
  <2>3. Cardinality(Free) \in Nat
    BY <1>0, DevicesFinite
  <2> QED BY <1>3, <1>4, <2>1, <2>2, <2>3 DEF FirstOf
<1>6. PICK d \in Free \ S : \A e \in Free \ S : d <= e
  <2>1. Free \ S \in SUBSET Nat /\ Free \ S # {}
    BY <1>0, <1>5
  <2> QED BY <2>1, LeastNumber
<1>7. Cardinality(S \cup {d}) = n
  BY <1>3, <1>4, <1>5, <1>6, FS_AddElement DEF FirstOf
<1>8. ASSUME NEW c \in S \cup {d}, NEW e \in Free \ (S \cup {d}) PROVE c < e
  <2>1. e \in Free \ S /\ e # d /\ d \in Nat /\ e \in Nat
    BY <1>0, <1>6
  <2> QED BY <1>4, <1>6, <2>1 DEF FirstOf
<1> QED BY <1>1, <1>6, <1>7, <1>8 DEF FirstOf

LEMMA FirstFreeIsFree ==
  ASSUME NEW k \in Nat, k <= Cardinality(Free)
  PROVE  FirstFree(k) \in SUBSET Free
<1>1. \E S \in SUBSET Free : FirstOf(S, k)
  BY FirstOnesExist
<1>2. FirstFree(k) = CHOOSE S \in SUBSET Free : FirstOf(S, k)
  BY DEF FirstFree, FirstOf
<1> QED BY <1>1, <1>2

(* The devices of a set, the highest number first.                          *)
Falls(q) == \A i, j \in DOMAIN q : i < j => q[i] > q[j]

LEMMA FallingExists ==
  ASSUME NEW C \in SUBSET Devices
  PROVE  \E q \in [1 .. Cardinality(C) -> C] : Falls(q)
<1> DEFINE Misses(n) == \E S \in SUBSET Devices :
             /\ Cardinality(S) = n
             /\ ~ \E q \in [1 .. Cardinality(S) -> S] : Falls(q)
           Missing == {n \in Nat : Misses(n)}
<1> SUFFICES ASSUME Missing # {} PROVE FALSE
  BY DevicesFinite
<1>1. PICK n \in Missing : \A j \in Missing : n <= j
  <2>1. Missing \in SUBSET Nat
    OBVIOUS
  <2> HIDE DEF Missing
  <2> QED BY <2>1, LeastNumber
<1>2. PICK S \in SUBSET Devices :
        /\ Cardinality(S) = n
        /\ ~ \E q \in [1 .. Cardinality(S) -> S] : Falls(q)
  BY <1>1
<1>3. IsFiniteSet(S) /\ S \in SUBSET Nat
  BY DevicesFinite
<1>4. n # 0
  <2> SUFFICES ASSUME n = 0 PROVE FALSE
    OBVIOUS
  <2> DEFINE q == [i \in 1 .. 0 |-> 0]
  <2>1. q \in [1 .. 0 -> S] /\ Falls(q)
    BY DEF Falls
  <2> QED BY <1>2, <2>1
<1>5. S # {}
  BY <1>2, <1>4, FS_EmptySet
<1>6. PICK d \in S : \A e \in S : d <= e
  BY <1>3, <1>5, LeastNumber
<1>7. Cardinality(S \ {d}) = n - 1 /\ S \ {d} \in SUBSET Devices
  BY <1>2, <1>3, FS_RemoveElement
<1>8. n - 1 \in Nat /\ n - 1 \notin Missing
  BY <1>1, <1>4
<1>9. PICK p \in [1 .. n - 1 -> S \ {d}] : Falls(p)
  BY <1>7, <1>8
<1> DEFINE q == [i \in 1 .. n |-> IF i = n THEN d ELSE p[i]]
<1>10. q \in [1 .. n -> S]
  <2> SUFFICES ASSUME NEW i \in 1 .. n PROVE q[i] \in S
    OBVIOUS
  <2>1. i # n => i \in 1 .. n - 1
    BY <1>8
  <2> QED BY <1>9, <2>1
<1>11. Falls(q)
  <2> SUFFICES ASSUME NEW i \in 1 .. n, NEW j \in 1 .. n, i < j
               PROVE  q[i] > q[j]
    BY DEF Falls
  <2>1. i \in 1 .. n - 1 /\ q[i] = p[i] /\ p[i] \in S \ {d}
    BY <1>8, <1>9
  <2>2. CASE j = n
    <3>1. p[i] \in Nat /\ d \in Nat /\ d <= p[i] /\ p[i] # d /\ q[j] = d
      BY <1>3, <1>6, <2>1, <2>2
    <3> QED BY <2>1, <3>1
  <2>3. CASE j # n
    <3>1. j \in 1 .. n - 1 /\ q[j] = p[j]
      BY <1>8, <2>3
    <3> QED BY <1>9, <2>1, <3>1 DEF Falls
  <2> QED BY <2>2, <2>3
<1> QED BY <1>2, <1>10, <1>11

LEMMA DescendingIs ==
  ASSUME NEW C \in SUBSET Devices
  PROVE  /\ Descending(C) \in Seq(Devices)
         /\ Falls(Descending(C))
         /\ {Descending(C)[i] : i \in DOMAIN Descending(C)} = C
<1> DEFINE n == Cardinality(C)
           q == Descending(C)
<1>1. n \in Nat /\ IsFiniteSet(C) /\ C \in SUBSET Nat
  BY DevicesFinite
<1>2. Descending(C) = CHOOSE p \in [1 .. n -> C] : Falls(p)
  BY DEF Descending, Falls
<1>3. q \in [1 .. n -> C] /\ Falls(q)
  BY <1>2, FallingExists
<1>4. /\ DOMAIN q = 1 .. n /\ DOMAIN q \in SUBSET Nat
      /\ \A i \in DOMAIN q : q[i] \in C /\ q[i] \in Nat /\ q[i] \in Devices
  <2> HIDE DEF q, n
  <2>1. DOMAIN q = 1 .. n
    BY <1>3
  <2>2. 1 .. n \in SUBSET Nat
    OBVIOUS
  <2>3. \A i \in DOMAIN q : q[i] \in C
    BY <1>3
  <2>4. \A c \in C : c \in Nat /\ c \in Devices
    BY <1>1
  <2> QED BY <2>1, <2>2, <2>3, <2>4
<1> HIDE DEF q
<1>5. q \in Injection(1 .. n, C)
  <2> SUFFICES ASSUME NEW i \in 1 .. n, NEW j \in 1 .. n, q[i] = q[j]
               PROVE  i = j
    BY <1>3 DEF Injection, IsInjective
  <2>1. q[i] \in Nat /\ i \in Nat /\ j \in Nat
    BY <1>4
  <2>2. ~(i < j) /\ ~(j < i)
    <3> HIDE DEF n
    <3> QED BY <1>3, <1>4, <2>1 DEF Falls
  <2> QED BY <2>1, <2>2
<1>6. IsFiniteSet(1 .. n) /\ Cardinality(1 .. n) = n
  BY <1>1, FS_Interval
<1>7. q \in Surjection(1 .. n, C)
  BY <1>1, <1>5, <1>6, FS_Injection
<1>8. {q[i] : i \in DOMAIN q} = C
  BY <1>3, <1>7 DEF Surjection
<1>9. q \in Seq(Devices)
  <2>1. q = [i \in 1 .. n |-> q[i]]
    BY <1>3
  <2> HIDE DEF n
  <2> QED BY <1>1, <1>4, <2>1
<1> QED BY <1>3, <1>8, <1>9 DEF q

------------------------------------------------------------------------------
(* What SetStations makes of the devices.                                   *)
DevicesOf(m) == {e.dev : e \in ToSet(m)}

LEMMA Freed ==
  ASSUME NEW m \in Seq(Keys), map \in Seq(Keys), OwnDevices(map),
         ToSet(m) \subseteq ToSet(map), SetStations(m)
  PROVE  /\ busy' \subseteq busy
         /\ DevicesOf(map) \subseteq busy => DevicesOf(m) \subseteq busy'
         /\ DevicesOf(map) = busy => DevicesOf(m) = busy'
<1>1. busy' = busy \ {e.dev : e \in ToSet(map) \ ToSet(m)}
  BY DEF SetStations
<1>2. \A d, e \in ToSet(map) : d.dev = e.dev => d = e
  BY DEF OwnDevices, ToSet
<1>3. \A e \in ToSet(m) : e.dev \notin {d.dev : d \in ToSet(map) \ ToSet(m)}
  BY <1>2
<1> QED BY <1>1, <1>3 DEF DevicesOf

------------------------------------------------------------------------------
(* The invariant.  A client may be without its station or not associated,   *)
(* but it is of the device that its step took, and the devices of a step    *)
(* fall from the newest client to the oldest: so a loop that begins with    *)
(* the newest finds the longer one of two names first.                      *)
StaTypes ==
  /\ plan \in [Steps -> Config]
  /\ st \in [Steps -> StepStates \cup {"removed"}]
  /\ clients \in [Steps -> Seq(Clients)]
  /\ busy \in SUBSET Devices

PoolInv == Pool(map, clients) /\ DevicesOf(map) \subseteq busy

FallingNames(q) == \A i, j \in DOMAIN q : i < j => q[i].dev > q[j].dev

QueueInv ==
  \A s \in Steps :
    /\ FallingNames(clients[s])
    /\ st[s] \in {"request", "removed"} \/ plan[s].conn = "real"
       => clients[s] = <<>>

Names(q) == {q[i].dev : i \in DOMAIN q}

(* As long as nothing has leaked, every station is that of a client, and a  *)
(* client that still has one is associated or will be made to join again.   *)
Kept(q, again) == \A i \in DOMAIN q : q[i].gone \/ q[i].assoc \/ again

CleanInv ==
  clean =>
    /\ DevicesOf(map) = busy
    /\ \A e \in ToSet(map) : e \in KeysOf(clients, e.num)
    /\ \A s \in Steps :
         /\ ~Collide(Names(clients[s]))
         /\ Kept(clients[s], plan[s].reconnect /\ st[s] \in Waiting)

StaInv ==
  StaTypes /\ PoolInv /\ QueueInv /\ RemovalIsOwn /\ EndedIsDisconnected
  /\ CleanInv

(* The parts of RemovalIsOwn and EndedIsDisconnected for one queue.         *)
Own(q, s, m) ==
  ~Collide(Names(q)) =>
    \A i \in DOMAIN q : q[i].gone <=> Key(s, q[i]) \notin ToSet(m)

Without(q, s, m) ==
  \A i \in DOMAIN q : q[i].gone /\ Key(s, q[i]) \notin ToSet(m)

AtEnd(p, x) == x = "results" /\ p.conn = "internal" /\ p.capture

LEMMA ByQueue ==
  /\ RemovalIsOwn <=> \A s \in Steps : Own(clients[s], s, map)
  /\ EndedIsDisconnected <=>
       \A s \in Steps :
         AtEnd(plan[s], st[s]) => Without(clients[s], s, map)
<1>1. RemovalIsOwn <=> \A s \in Steps : Own(clients[s], s, map)
  BY DEF RemovalIsOwn, Own, Names
<1>2. EndedIsDisconnected <=>
        \A s \in Steps :
          AtEnd(plan[s], st[s]) => Without(clients[s], s, map)
  BY DEF EndedIsDisconnected, AtEnd, Without
<1> QED BY <1>1, <1>2

LEMMA StaInit ==
  Init => StaInv
<1> SUFFICES ASSUME Init PROVE StaInv
  OBVIOUS
<1>1. /\ plan \in [Steps -> Configs] /\ st = NewStates /\ clients = NewClients
      /\ busy = {} /\ map = <<>>
  BY DEF Init
<1>2. /\ \A s \in Steps : clients[s] = <<>> /\ st[s] = "request"
      /\ ToSet(map) = {} /\ DevicesOf(map) = {}
  BY <1>1 DEF NewStates, NewClients, ToSet, DevicesOf
<1>3. StaTypes
  BY <1>1, StaAssumption
  DEF StaTypes, NewStates, NewClients, StepStates
<1>4. PoolInv
  BY <1>1, <1>2 DEF PoolInv, Pool, OwnDevices, Together
<1>5. QueueInv
  BY <1>2 DEF QueueInv, FallingNames
<1>6. RemovalIsOwn /\ EndedIsDisconnected
  BY <1>2 DEF RemovalIsOwn, EndedIsDisconnected
<1>7. CleanInv
  BY <1>1, <1>2 DEF CleanInv, Names, Collide, Kept
<1> QED BY <1>3, <1>4, <1>5, <1>6, <1>7 DEF StaInv

(* What a step does to its clients leaves them on their devices.            *)
SameNames(q, p) ==
  DOMAIN q = DOMAIN p /\ \A i \in DOMAIN p : q[i].dev = p[i].dev

LEMMA SameKeys ==
  ASSUME NEW cl \in [Steps -> Seq(Clients)], NEW s \in Steps,
         NEW q \in Seq(Clients), SameNames(q, cl[s]),
         NEW new, new = [cl EXCEPT ![s] = q], NEW m
  PROVE  /\ \A t \in Steps : KeysOf(new, t) = KeysOf(cl, t)
         /\ Names(q) = Names(cl[s])
         /\ Pool(m, cl) <=> Pool(m, new)
<1>1. \A t \in Steps : t # s => new[t] = cl[t]
  OBVIOUS
<1>2. new[s] = q
  OBVIOUS
<1>3. KeysOf(new, s) = KeysOf(cl, s)
  BY <1>2 DEF KeysOf, SameNames, Key
<1>4. ASSUME NEW t \in Steps PROVE KeysOf(new, t) = KeysOf(cl, t)
  <2>1. CASE t = s
    BY <1>3, <2>1
  <2>2. CASE t # s
    <3>1. new[t] = cl[t]
      BY <1>1, <2>2
    <3> QED BY <3>1 DEF KeysOf
  <2> QED BY <2>1, <2>2
<1>5. Names(q) = Names(cl[s])
  BY DEF Names, SameNames
<1>6. ASSUME m \in Seq(Keys) PROVE Together(m, cl) <=> Together(m, new)
  <2>1. \A i \in DOMAIN m : m[i].num \in Steps
    <3>1. \A i \in DOMAIN m : m[i] \in Keys
      BY <1>6
    <3> QED BY <3>1 DEF Keys
  <2> QED BY <1>4, <2>1 DEF Together
<1> QED BY <1>4, <1>5, <1>6 DEF Pool

(* A step that changes itself, its clients and the pool.                    *)
LEMMA StepChange ==
  ASSUME StaInv, NEW s \in Steps,
         NEW q \in Seq(Clients), SameNames(q, clients[s]),
         NEW x \in StepStates, x = "request" => st[s] = "request",
         NEW m, Pool(m, clients), ToSet(m) \subseteq ToSet(map),
         \A e \in ToSet(map) : e.num # s => e \in ToSet(m),
         Own(q, s, m),
         AtEnd(plan[s], x) => Without(q, s, m),
         clean => Kept(q, plan[s].reconnect /\ x \in Waiting),
         plan' = plan, clean' = clean, SetStations(m),
         clients' = [clients EXCEPT ![s] = q],
         st' = [st EXCEPT ![s] = x]
  PROVE  StaInv'
<1>1. StaTypes /\ PoolInv /\ QueueInv /\ CleanInv
  BY DEF StaInv
<1>2. /\ clients \in [Steps -> Seq(Clients)]
      /\ st \in [Steps -> StepStates \cup {"removed"}]
  BY <1>1 DEF StaTypes
<1>3. /\ clients'[s] = q /\ st'[s] = x
      /\ \A t \in Steps : t # s => clients'[t] = clients[t] /\ st'[t] = st[t]
  BY <1>2
<1>4. /\ \A t \in Steps : KeysOf(clients', t) = KeysOf(clients, t)
      /\ Names(q) = Names(clients[s])
      /\ Pool(m, clients')
  BY <1>2, SameKeys
<1>5. map' = m
  BY DEF SetStations
<1>6. /\ busy' \subseteq busy
      /\ DevicesOf(map) \subseteq busy => DevicesOf(m) \subseteq busy'
      /\ DevicesOf(map) = busy => DevicesOf(m) = busy'
  <2>1. m \in Seq(Keys) /\ map \in Seq(Keys) /\ OwnDevices(map)
    BY <1>1 DEF PoolInv, Pool
  <2> QED BY <2>1, Freed
<1>7. StaTypes'
  BY <1>1, <1>6 DEF StaTypes
<1>8. PoolInv'
  BY <1>1, <1>4, <1>5, <1>6 DEF PoolInv
<1>9. QueueInv'
  <2>1. FallingNames(q)
    BY <1>1 DEF QueueInv, FallingNames, SameNames
  <2>2. x \in {"request", "removed"} \/ plan[s].conn = "real" => q = <<>>
    <3>1. x \in {"request", "removed"} \/ plan[s].conn = "real"
          => clients[s] = <<>>
      BY <1>1 DEF QueueInv, StepStates
    <3>2. clients[s] = <<>> => q = <<>>
      BY DEF SameNames
    <3> QED BY <3>1, <3>2
  <2> QED BY <1>1, <1>3, <2>1, <2>2 DEF QueueInv
<1>10. ASSUME NEW t \in Steps, t # s, NEW i \in DOMAIN clients[t]
       PROVE  Key(t, clients[t][i]) \in ToSet(map)
              <=> Key(t, clients[t][i]) \in ToSet(m)
  BY <1>10 DEF Key
<1>11. RemovalIsOwn'
  <2>1. ASSUME NEW t \in Steps PROVE Own(clients'[t], t, m)
    <3>1. CASE t = s
      BY <1>3, <3>1
    <3>2. CASE t # s
      <4>1. Own(clients[t], t, map)
        BY ByQueue DEF StaInv
      <4> QED BY <1>3, <1>10, <3>2, <4>1 DEF Own
    <3> QED BY <3>1, <3>2
  <2> QED BY <1>5, <2>1 DEF RemovalIsOwn, Own, Names
<1>12. EndedIsDisconnected'
  <2>1. ASSUME NEW t \in Steps, AtEnd(plan[t], st'[t])
        PROVE  Without(clients'[t], t, m)
    <3>1. CASE t = s
      BY <1>3, <2>1, <3>1
    <3>2. CASE t # s
      <4>1. Without(clients[t], t, map)
        BY <1>3, <2>1, <3>2, ByQueue DEF StaInv
      <4> QED BY <1>3, <3>2, <4>1 DEF Without
    <3> QED BY <3>1, <3>2
  <2> QED BY <1>5, <2>1 DEF EndedIsDisconnected, AtEnd, Without
<1>13. CleanInv'
  <2> SUFFICES ASSUME clean
               PROVE  /\ DevicesOf(m) = busy'
                      /\ \A e \in ToSet(m) : e \in KeysOf(clients', e.num)
                      /\ \A t \in Steps :
                           /\ ~Collide(Names(clients'[t]))
                           /\ Kept(clients'[t],
                                   plan[t].reconnect /\ st'[t] \in Waiting)
    BY <1>5 DEF CleanInv
  <2>1. DevicesOf(m) = busy'
    BY <1>1, <1>6 DEF CleanInv
  <2>2. ASSUME NEW e \in ToSet(m) PROVE e \in KeysOf(clients', e.num)
    <3>1. e \in KeysOf(clients, e.num)
      BY <1>1 DEF CleanInv
    <3>2. e \in Keys
      BY DEF Pool, ToSet
    <3> QED BY <1>4, <3>1, <3>2 DEF Keys
  <2>3. ASSUME NEW t \in Steps
        PROVE  /\ ~Collide(Names(clients'[t]))
               /\ Kept(clients'[t], plan[t].reconnect /\ st'[t] \in Waiting)
    <3>1. CASE t = s
      <4>1. ~Collide(Names(clients[s]))
        BY <1>1 DEF CleanInv
      <4> QED BY <1>3, <1>4, <3>1, <4>1
    <3>2. CASE t # s
      BY <1>1, <1>3, <3>2 DEF CleanInv
    <3> QED BY <3>1, <3>2
  <2> QED BY <2>1, <2>2, <2>3
<1> QED BY <1>7, <1>8, <1>9, <1>11, <1>12, <1>13 DEF StaInv

(* A step that leaves the pool as it is.                                    *)
LEMMA SamePool ==
  ASSUME StaInv, NEW s \in Steps,
         NEW q \in Seq(Clients), SameNames(q, clients[s]),
         \A i \in DOMAIN q : q[i].gone = clients[s][i].gone,
         NEW x \in StepStates, x = "request" => st[s] = "request",
         ~AtEnd(plan[s], x),
         clean => Kept(q, plan[s].reconnect /\ x \in Waiting),
         plan' = plan, clean' = clean, UNCHANGED poolVars,
         clients' = [clients EXCEPT ![s] = q],
         st' = [st EXCEPT ![s] = x]
  PROVE  StaInv'
<1>1. SetStations(map)
  BY DEF SetStations, poolVars
<1>2. Pool(map, clients) /\ clients \in [Steps -> Seq(Clients)]
  BY DEF StaInv, PoolInv, StaTypes
<1>3. Own(q, s, map)
  <2>1. Own(clients[s], s, map)
    BY ByQueue DEF StaInv
  <2>2. Names(q) = Names(clients[s])
    BY DEF Names, SameNames
  <2>3. \A i \in DOMAIN q : Key(s, q[i]) = Key(s, clients[s][i])
    BY DEF Key, SameNames
  <2> QED BY <2>1, <2>2, <2>3 DEF Own, SameNames
<1> QED BY <1>1, <1>2, <1>3, StepChange

(* The orders in which the loops over clients go.                           *)
LEMMA FallingInTurn ==
  ASSUME NEW q \in Seq(Clients), FallingNames(q)
  PROVE  InTurn(q, ToSet(q))
<1> SUFFICES ASSUME NEW n \in DOMAIN q, NEW i \in DOMAIN q, i # n,
                    Begins(q[n].dev, q[i].dev)
             PROVE  i < n /\ q[i] \in ToSet(q)
  BY DEF InTurn
<1>1. q[n] \in Clients /\ q[i] \in Clients /\ i \in Nat /\ n \in Nat
  OBVIOUS
<1>2. q[n].dev \in Devices /\ q[i].dev \in Devices
  BY <1>1 DEF Clients
<1>3. q[n].dev <= q[i].dev
  BY <1>2, BeginsOrder
<1>4. q[n].dev \in Nat /\ q[i].dev \in Nat
  BY <1>2, DevicesFinite
<1>5. ~(n < i)
  BY <1>3, <1>4 DEF FallingNames
<1> QED BY <1>1, <1>5 DEF ToSet

LEMMA ApartInTurn ==
  ASSUME NEW q \in Seq(Clients), ~Collide(Names(q)), NEW whom,
         \A i, j \in DOMAIN q : i # j => q[i].dev # q[j].dev
  PROVE  InTurn(q, whom)
BY DEF InTurn, Collide, Names

LEMMA FallingApart ==
  ASSUME NEW q \in Seq(Clients), FallingNames(q)
  PROVE  \A i, j \in DOMAIN q : i # j => q[i].dev # q[j].dev
<1> SUFFICES ASSUME NEW i \in DOMAIN q, NEW j \in DOMAIN q, i # j
             PROVE  q[i].dev # q[j].dev
  OBVIOUS
<1>1. i \in Nat /\ j \in Nat /\ q[i] \in Clients /\ q[j] \in Clients
  OBVIOUS
<1>2. q[i].dev \in Nat /\ q[j].dev \in Nat
  BY <1>1, DevicesFinite DEF Clients
<1>3. i < j \/ j < i
  BY <1>1
<1> QED BY <1>2, <1>3 DEF FallingNames

------------------------------------------------------------------------------
(* The actions.                                                             *)
LEMMA GoneIs ==
  ASSUME NEW q \in Seq(Clients)
  PROVE  /\ Gone(q) \in Seq(Clients)
         /\ SameNames(Gone(q), q)
         /\ \A i \in DOMAIN q : Gone(q)[i].gone
<1>1. DOMAIN Gone(q) = DOMAIN q /\ DOMAIN q = 1 .. Len(q)
  BY DEF Gone
<1>2. ASSUME NEW i \in DOMAIN q
      PROVE  /\ Gone(q)[i] \in Clients
             /\ Gone(q)[i].dev = q[i].dev
             /\ Gone(q)[i].gone
  <2>1. q[i] \in Clients
    OBVIOUS
  <2>2. Gone(q)[i] = [q[i] EXCEPT !.gone = TRUE]
    BY DEF Gone
  <2> QED BY <2>1, <2>2 DEF Clients
<1>3. Gone(q) \in Seq(Clients)
  <2>1. Gone(q) = [i \in 1 .. Len(q) |-> Gone(q)[i]]
    BY <1>1 DEF Gone
  <2> QED BY <1>1, <1>2, <2>1
<1> QED BY <1>1, <1>2, <1>3 DEF SameNames

LEMMA RemovesAll ==
  ASSUME StaInv, NEW s \in Steps, NEW q \in Seq(Clients),
         SameNames(q, clients[s]), RemovedAll(s, q),
         plan' = plan, clean' = clean
  PROVE  StaInv'
<1> DEFINE m == RemoveClients(s, q, ToSet(q))
<1>1. Pool(map, clients)
  BY DEF StaInv, PoolInv
<1>2. KeysOf(clients, s) = {Key(s, q[i]) : i \in DOMAIN q}
  BY DEF KeysOf, Key, SameNames
<1>3. FallingNames(q)
  BY DEF StaInv, QueueInv, FallingNames, SameNames
<1>4. InTurn(q, ToSet(q))
  BY <1>3, FallingInTurn
<1>5. /\ Pool(m, clients) /\ ToSet(m) \subseteq ToSet(map)
      /\ \A e \in ToSet(map) : e.num # s => e \in ToSet(m)
      /\ \A i \in DOMAIN q : Key(s, q[i]) \notin ToSet(m)
  <2>1. \A i \in DOMAIN q : q[i] \in ToSet(q)
    BY DEF ToSet
  <2> QED BY <1>1, <1>2, <1>4, <2>1, Removal
<1> HIDE DEF m
<1>6. /\ Gone(q) \in Seq(Clients) /\ SameNames(Gone(q), clients[s])
      /\ \A i \in DOMAIN Gone(q) : Gone(q)[i].gone
      /\ \A i \in DOMAIN Gone(q) : Key(s, Gone(q)[i]) \notin ToSet(m)
  BY <1>5, GoneIs DEF SameNames, Key
<1>7. Own(Gone(q), s, m) /\ Without(Gone(q), s, m)
  BY <1>6 DEF Own, Without
<1>8. \A again : Kept(Gone(q), again)
  BY <1>6 DEF Kept
<1>9. "results" \in StepStates
  BY DEF StepStates
<1>10. /\ SetStations(m) /\ clients' = [clients EXCEPT ![s] = Gone(q)]
       /\ st' = [st EXCEPT ![s] = "results"]
  BY DEF RemovedAll, m
<1> QED BY <1>5, <1>6, <1>7, <1>8, <1>9, <1>10, StepChange

(* A step that only changes its state.                                      *)
LEMMA SameClients ==
  ASSUME StaInv, NEW s \in Steps,
         NEW x \in StepStates, x = "request" => st[s] = "request",
         ~AtEnd(plan[s], x),
         x \in Waiting \/ clients[s] = <<>>,
         st[s] \in Waiting \/ clients[s] = <<>>,
         plan' = plan, clean' = clean, UNCHANGED poolVars,
         clients' = clients, st' = [st EXCEPT ![s] = x]
  PROVE  StaInv'
<1>1. clients \in [Steps -> Seq(Clients)]
  BY DEF StaInv, StaTypes
<1>2. /\ clients[s] \in Seq(Clients) /\ clients = [clients EXCEPT ![s] = @]
      /\ SameNames(clients[s], clients[s])
  BY <1>1 DEF SameNames
<1>3. clean => Kept(clients[s], plan[s].reconnect /\ x \in Waiting)
  <2>1. clean => Kept(clients[s], plan[s].reconnect /\ st[s] \in Waiting)
    BY DEF StaInv, CleanInv
  <2> QED BY <2>1 DEF Kept
<1> QED BY <1>2, <1>3, SamePool

LEMMA ExecuteFailsKeeps ==
  ASSUME StaInv, NEW s \in Steps, ExecuteFails(s) \/ ExecuteReal(s)
  PROVE  StaInv'
<1>1. /\ st[s] = "request" /\ clients[s] = <<>>
      /\ st \in [Steps -> StepStates \cup {"removed"}]
  BY DEF StaInv, QueueInv, StaTypes, ExecuteFails, ExecuteReal, Turn
<1>2. PICK x \in {"abort", "continue", "results"} :
        st' = [st EXCEPT ![s] = x] /\ (x # "abort" => plan[s].conn = "real")
  BY DEF ExecuteFails, ExecuteReal, Aborts, Executed
<1>3. x \in StepStates /\ x # "request" /\ ~AtEnd(plan[s], x)
  BY <1>2 DEF StepStates, AtEnd
<1>4. /\ plan' = plan /\ clean' = clean /\ UNCHANGED poolVars
      /\ clients' = clients
  BY DEF ExecuteFails, ExecuteReal
<1> QED BY <1>1, <1>2, <1>3, <1>4, SameClients

LEMMA TimeoutRealKeeps ==
  ASSUME StaInv, NEW s \in Steps, TimeoutReal(s)
  PROVE  StaInv'
<1>1. /\ st[s] \in Waiting /\ plan[s].conn = "real" /\ clients[s] = <<>>
      /\ st \in [Steps -> StepStates \cup {"removed"}]
  BY DEF StaInv, QueueInv, StaTypes, TimeoutReal, Running
<1>2. PICK x \in {"continue", "results", st[s]} : st' = [st EXCEPT ![s] = x]
  BY DEF TimeoutReal
<1>3. x \in StepStates /\ x # "request" /\ ~AtEnd(plan[s], x)
  BY <1>1, <1>2 DEF StepStates, AtEnd, Waiting
<1>4. /\ plan' = plan /\ clean' = clean /\ UNCHANGED poolVars
      /\ clients' = clients
  BY DEF TimeoutReal
<1> QED BY <1>1, <1>2, <1>3, <1>4, SameClients

LEMMA TimeoutEndsKeeps ==
  ASSUME StaInv, NEW s \in Steps, TimeoutEnds(s)
  PROVE  StaInv'
<1>1. clients[s] \in Seq(Clients) /\ SameNames(clients[s], clients[s])
  BY DEF StaInv, StaTypes, SameNames
<1>2. RemovedAll(s, clients[s]) /\ plan' = plan /\ clean' = clean
  BY DEF TimeoutEnds
<1> QED BY <1>1, <1>2, RemovesAll

LEMMA DisconnectedIs ==
  ASSUME NEW q \in Seq(Clients), NEW s, NEW ok \in BOOLEAN
  PROVE  /\ Disconnected(s, q, ok) \in Seq(Clients)
         /\ SameNames(Disconnected(s, q, ok), q)
         /\ \A i \in DOMAIN q : Disconnected(s, q, ok)[i].gone = q[i].gone
<1> DEFINE d == Disconnected(s, q, ok)
<1>1. DOMAIN d = DOMAIN q /\ DOMAIN q = 1 .. Len(q)
  BY DEF Disconnected
<1>2. ASSUME NEW i \in DOMAIN q
      PROVE  /\ d[i] \in Clients
             /\ d[i].dev = q[i].dev
             /\ d[i].gone = q[i].gone
  <2>1. q[i] \in Clients
    OBVIOUS
  <2>2. d[i] = IF q[i].assoc
                 THEN [q[i] EXCEPT !.assoc = FALSE,
                         !.sent = @ \/ (ok /\ HasStation(map, Key(s, q[i])))]
                 ELSE q[i]
    BY DEF Disconnected
  <2>3. (q[i].sent \/ (ok /\ HasStation(map, Key(s, q[i])))) \in BOOLEAN
    OBVIOUS
  <2> QED BY <2>1, <2>2, <2>3 DEF Clients
<1>3. d \in Seq(Clients)
  <2>1. d = [i \in 1 .. Len(q) |-> d[i]]
    BY <1>1 DEF Disconnected
  <2> HIDE DEF d
  <2> QED BY <1>1, <1>2, <2>1
<1> HIDE DEF d
<1>4. SameNames(d, q)
  BY <1>1, <1>2 DEF SameNames
<1> QED BY <1>2, <1>3, <1>4 DEF d

LEMMA TimeoutInternalKeeps ==
  ASSUME StaInv, NEW s \in Steps, TimeoutInternal(s)
  PROVE  StaInv'
<1>1. /\ st[s] \in Waiting /\ clients \in [Steps -> Seq(Clients)]
      /\ st \in [Steps -> StepStates \cup {"removed"}]
      /\ plan' = plan /\ clean' = clean
  BY DEF StaInv, StaTypes, TimeoutInternal, Running
<1>2. PICK ok \in BOOLEAN :
        \/ RemovedAll(s, AfterInterval(s, ok))
        \/ /\ clients' = [clients EXCEPT ![s] = AfterInterval(s, ok)]
           /\ st' = [st EXCEPT ![s] = WaitState(s, AfterInterval(s, ok))]
           /\ UNCHANGED poolVars
  BY DEF TimeoutInternal
<1> DEFINE q == AfterInterval(s, ok)
           x == WaitState(s, q)
<1>3. /\ q \in Seq(Clients) /\ SameNames(q, clients[s])
      /\ \A i \in DOMAIN q : q[i].gone = clients[s][i].gone
  <2>1. /\ clients[s] \in Seq(Clients)
        /\ q = IF Interval(s) THEN Disconnected(s, clients[s], ok)
               ELSE clients[s]
    BY <1>1 DEF AfterInterval
  <2> HIDE DEF q
  <2> QED BY <2>1, DisconnectedIs DEF SameNames
<1>4. x \in Waiting
  BY <1>1 DEF WaitState, Waiting
<1>5. clean => Kept(q, plan[s].reconnect /\ x \in Waiting)
  <2>1. CASE Interval(s)
    BY <1>4, <2>1 DEF Kept, Interval
  <2>2. CASE ~Interval(s)
    <3>1. q = clients[s]
      BY <2>2 DEF AfterInterval
    <3>2. clean => Kept(clients[s], plan[s].reconnect /\ st[s] \in Waiting)
      BY DEF StaInv, CleanInv
    <3> QED BY <1>1, <1>4, <3>1, <3>2
  <2> QED BY <2>1, <2>2
<1> HIDE DEF q, x
<1>6. x \in StepStates /\ x # "request" /\ ~AtEnd(plan[s], x)
  BY <1>4 DEF StepStates, AtEnd, Waiting
<1>7. CASE RemovedAll(s, q)
  BY <1>1, <1>3, <1>7, RemovesAll
<1>8. CASE /\ clients' = [clients EXCEPT ![s] = q]
           /\ st' = [st EXCEPT ![s] = x]
           /\ UNCHANGED poolVars
  BY <1>1, <1>3, <1>5, <1>6, <1>8, SamePool
<1> QED BY <1>2, <1>7, <1>8 DEF q, x

(* A frame changes one client.                                              *)
LEMMA OneClient ==
  ASSUME NEW p \in Seq(Clients), NEW i \in DOMAIN p, NEW c \in Clients,
         c.dev = p[i].dev
  PROVE  LET q == [p EXCEPT ![i] = c] IN
         /\ q \in Seq(Clients)
         /\ SameNames(q, p)
         /\ q[i] = c /\ \A j \in DOMAIN p : j # i => q[j] = p[j]
<1> DEFINE q == [p EXCEPT ![i] = c]
<1>1. DOMAIN q = DOMAIN p /\ DOMAIN p = 1 .. Len(p) /\ q[i] = c
  OBVIOUS
<1>2. \A j \in DOMAIN p : j # i => q[j] = p[j]
  OBVIOUS
<1>3. q \in Seq(Clients)
  OBVIOUS
<1> HIDE DEF q
<1>4. SameNames(q, p)
  BY <1>1, <1>2 DEF SameNames
<1> QED BY <1>1, <1>2, <1>3, <1>4 DEF q

LEMMA FrameStays ==
  ASSUME StaInv, NEW s \in Steps, NEW i \in DOMAIN clients[s],
         st[s] \in Waiting, NEW c \in Clients,
         c.dev = clients[s][i].dev, c.gone = clients[s][i].gone,
         c.assoc \/ c.assoc = clients[s][i].assoc,
         plan' = plan, clean' = clean, st' = st, UNCHANGED poolVars,
         clients' = [clients EXCEPT ![s][i] = c]
  PROVE  StaInv'
<1> DEFINE p == clients[s]
           q == [p EXCEPT ![i] = c]
<1>1. /\ p \in Seq(Clients) /\ clients' = [clients EXCEPT ![s] = q]
      /\ st' = [st EXCEPT ![s] = @]
  BY DEF StaInv, StaTypes
<1>2. /\ q \in Seq(Clients) /\ SameNames(q, p)
      /\ q[i] = c /\ \A j \in DOMAIN p : j # i => q[j] = p[j]
  BY <1>1, OneClient
<1> HIDE DEF q
<1>3. \A j \in DOMAIN q : q[j].gone = p[j].gone
  BY <1>2 DEF SameNames
<1>4. clean => Kept(q, plan[s].reconnect /\ st[s] \in Waiting)
  <2>1. clean => Kept(p, plan[s].reconnect /\ st[s] \in Waiting)
    BY DEF StaInv, CleanInv
  <2>2. \A j \in DOMAIN q : q[j].assoc \/ q[j].assoc = p[j].assoc
    BY <1>2 DEF SameNames
  <2> QED BY <1>2, <1>3, <2>1, <2>2 DEF Kept, SameNames
<1>5. st[s] \in StepStates /\ st[s] # "request" /\ ~AtEnd(plan[s], st[s])
  BY DEF AtEnd, Waiting, StepStates
<1>6. /\ SameNames(q, clients[s])
      /\ \A j \in DOMAIN q : q[j].gone = clients[s][j].gone
      /\ clients' = [clients EXCEPT ![s] = q]
      /\ st' = [st EXCEPT ![s] = st[s]]
  BY <1>1, <1>2, <1>3
<1> DEFINE x == st[s]
<1>7. /\ x \in StepStates /\ x # "request" /\ ~AtEnd(plan[s], x)
      /\ clean => Kept(q, plan[s].reconnect /\ x \in Waiting)
      /\ st' = [st EXCEPT ![s] = x]
  BY <1>4, <1>5, <1>6
<1> HIDE DEF p, x
<1> QED BY <1>2, <1>6, <1>7, SamePool

LEMMA DeauthKeeps ==
  ASSUME StaInv, NEW s \in Steps, NEW i, Deauth(s, i)
  PROVE  StaInv'
<1> DEFINE c == [clients[s][i] EXCEPT !.sent = TRUE]
<1>1. i \in DOMAIN clients[s] /\ st[s] \in Waiting
  BY DEF Deauth, FrameOf, Running
<1>2. clients[s][i] \in Clients
  BY <1>1 DEF StaInv, StaTypes
<1>3. /\ c \in Clients /\ c.dev = clients[s][i].dev
      /\ c.gone = clients[s][i].gone /\ c.assoc = clients[s][i].assoc
  BY <1>2 DEF Clients
<1>4. /\ plan' = plan /\ clean' = clean /\ st' = st /\ UNCHANGED poolVars
      /\ clients' = [clients EXCEPT ![s][i] = c]
  BY DEF Deauth
<1> HIDE DEF c
<1> QED BY <1>1, <1>3, <1>4, FrameStays

LEMMA JoinedKeeps ==
  ASSUME StaInv, NEW s \in Steps, NEW i, Joined(s, i)
  PROVE  StaInv'
<1>1. i \in DOMAIN clients[s] /\ st[s] \in Waiting
  BY DEF Joined, FrameOf, Running
<1>2. clients[s][i] \in Clients
  BY <1>1 DEF StaInv, StaTypes
<1>3. PICK sent \in {FALSE, clients[s][i].sent} :
        clients' = [clients EXCEPT ![s][i] =
                      [@ EXCEPT !.assoc = TRUE, !.sent = sent]]
  BY DEF Joined
<1> DEFINE c == [clients[s][i] EXCEPT !.assoc = TRUE, !.sent = sent]
<1>4. /\ c \in Clients /\ c.dev = clients[s][i].dev
      /\ c.gone = clients[s][i].gone /\ c.assoc
  BY <1>2 DEF Clients
<1>5. /\ plan' = plan /\ clean' = clean /\ st' = st /\ UNCHANGED poolVars
      /\ clients' = [clients EXCEPT ![s][i] = c]
  BY <1>3 DEF Joined
<1> HIDE DEF c
<1> QED BY <1>1, <1>4, <1>5, FrameStays

LEMMA RemoveOnFrameKeeps ==
  ASSUME StaInv, NEW s \in Steps, NEW i, RemoveOnFrame(s, i)
  PROVE  StaInv'
<1> DEFINE p == clients[s]
           k == Key(s, p[i])
           c == Left(s, p[i])
           q == [p EXCEPT ![i] = c]
           m == remove_sta(map, k)
<1>1. /\ i \in DOMAIN p /\ st[s] \in Waiting
      /\ p \in Seq(Clients) /\ DOMAIN p = 1 .. Len(p)
      /\ Pool(map, clients) /\ FallingNames(p)
  BY DEF StaInv, StaTypes, PoolInv, QueueInv, RemoveOnFrame, FrameOf, Running
<1>2. p[i] \in Clients
  BY <1>1
<1>3. k \in Keys /\ k.num = s /\ k.dev = p[i].dev /\ k \in KeysOf(clients, s)
  BY <1>1, <1>2 DEF Key, Keys, Clients, KeysOf
<1>4. c \in Clients /\ c.dev = p[i].dev /\ c.gone
  <2>1. (p[i].sent \/ HasStation(map, Key(s, p[i]))) \in BOOLEAN
    OBVIOUS
  <2> QED BY <1>2, <2>1 DEF Clients, Left
<1>5. /\ plan' = plan /\ clean' = clean /\ SetStations(m)
      /\ clients' = [clients EXCEPT ![s] = q]
      /\ st' = [st EXCEPT ![s] = @]
  <2>1. /\ plan' = plan /\ clean' = clean /\ st' = st /\ SetStations(m)
        /\ clients' = [clients EXCEPT ![s][i] = c]
    BY DEF RemoveOnFrame
  <2>2. st = [st EXCEPT ![s] = @]
    BY DEF StaInv, StaTypes
  <2>3. clients' = [clients EXCEPT ![s] = q]
    <3> HIDE DEF c
    <3> QED BY <2>1
  <2> QED BY <2>1, <2>2, <2>3
<1> HIDE DEF c
<1>6. /\ q \in Seq(Clients) /\ SameNames(q, p)
      /\ q[i] = c /\ \A j \in DOMAIN p : j # i => q[j] = p[j]
  BY <1>1, <1>4, OneClient
<1> HIDE DEF k, q, m
<1>7. /\ Pool(m, clients) /\ ToSet(m) \subseteq ToSet(map)
      /\ \A e \in ToSet(map) : e.num # s => e \in ToSet(m)
      /\ Alone(map, clients, k) =>
           /\ k \notin ToSet(m)
           /\ \A e \in ToSet(map) :
                e \in KeysOf(clients, s) /\ e # k => e \in ToSet(m)
  BY <1>1, <1>3, RemoveOne DEF m
<1>8. Own(q, s, m)
  <2> SUFFICES ASSUME ~Collide(Names(q)), NEW j \in DOMAIN q
               PROVE  q[j].gone <=> Key(s, q[j]) \notin ToSet(m)
    BY DEF Own
  <2>1. ~Collide(Names(p)) /\ j \in DOMAIN p
    BY <1>6 DEF Names, SameNames
  <2>2. Alone(map, clients, k)
    <3> SUFFICES ASSUME NEW e \in Matching(k), e \in KeysOf(clients, k.num)
                 PROVE  e = k
      BY DEF Alone
    <3>1. PICK h \in DOMAIN p : e = Key(s, p[h])
      BY <1>3 DEF KeysOf
    <3>2. Begins(p[i].dev, p[h].dev)
      BY <1>3, <3>1 DEF Matching, Key
    <3>3. p[i].dev = p[h].dev
      BY <1>1, <2>1, <3>2 DEF Collide, Names
    <3> QED BY <3>1, <3>3 DEF k, Key
  <2>3. CASE j = i
    <3>1. Key(s, q[j]) = k
      BY <1>4, <1>6, <2>3 DEF Key, k
    <3> QED BY <1>4, <1>6, <1>7, <2>2, <2>3, <3>1
  <2>4. CASE j # i
    <3>1. q[j] = p[j]
      BY <1>6, <2>1, <2>4
    <3>2. p[j].gone <=> Key(s, p[j]) \notin ToSet(map)
      <4>1. Own(p, s, map)
        BY ByQueue DEF StaInv
      <4> QED BY <2>1, <4>1 DEF Own
    <3>3. Key(s, p[j]) # k /\ Key(s, p[j]) \in KeysOf(clients, s)
      <4>1. p[j].dev # p[i].dev
        BY <1>1, <2>1, <2>4, FallingApart
      <4> QED BY <1>3, <2>1, <4>1 DEF Key, KeysOf
    <3> QED BY <1>7, <2>2, <3>1, <3>2, <3>3
  <2> QED BY <2>3, <2>4
<1>9. clean => Kept(q, plan[s].reconnect /\ st[s] \in Waiting)
  <2>1. clean => Kept(p, plan[s].reconnect /\ st[s] \in Waiting)
    BY DEF StaInv, CleanInv
  <2>2. \A j \in DOMAIN q : q[j].gone \/ q[j] = p[j]
    BY <1>4, <1>6 DEF SameNames
  <2> QED BY <1>6, <2>1, <2>2 DEF Kept, SameNames
<1>10. st[s] \in StepStates /\ st[s] # "request" /\ ~AtEnd(plan[s], st[s])
  BY <1>1 DEF AtEnd, Waiting, StepStates
<1> QED BY <1>5, <1>6, <1>7, <1>8, <1>9, <1>10, StepChange

LEMMA ReverseIs ==
  ASSUME NEW p \in Seq(Clients)
  PROVE  /\ Reverse(p) \in Seq(Clients)
         /\ DOMAIN Reverse(p) = DOMAIN p
         /\ \A i \in DOMAIN p : /\ Reverse(p)[i] = p[(Len(p) - i) + 1]
                                /\ (Len(p) - i) + 1 \in DOMAIN p
                                /\ Reverse(p)[(Len(p) - i) + 1] = p[i]
<1>1. Len(p) \in Nat /\ DOMAIN p = 1 .. Len(p)
  OBVIOUS
<1>2. Reverse(p) = [i \in 1 .. Len(p) |-> p[(Len(p) - i) + 1]]
  BY DEF Reverse
<1>3. \A i \in 1 .. Len(p) :
        /\ (Len(p) - i) + 1 \in 1 .. Len(p)
        /\ (Len(p) - ((Len(p) - i) + 1)) + 1 = i
  BY <1>1
<1>4. \A i \in 1 .. Len(p) : p[(Len(p) - i) + 1] \in Clients
  BY <1>3
<1> QED BY <1>1, <1>2, <1>3, <1>4

LEMMA RemoveStepKeeps ==
  ASSUME StaInv, NEW s \in Steps, RemoveStep(s)
  PROVE  StaInv'
<1> DEFINE p == clients[s]
           q == Reverse(p)
           m == RemoveClients(s, q, Associated(p))
<1>1. /\ clients' = [clients EXCEPT ![s] = <<>>]
      /\ st' = [st EXCEPT ![s] = "removed"]
      /\ plan' = plan /\ SetStations(m)
      /\ clean' = (clean /\ ~(plan[s].reconnect /\ st[s] \in Waiting))
  BY DEF RemoveStep, step_remove, queue_popped
<1>2. /\ StaTypes /\ PoolInv /\ QueueInv /\ CleanInv
      /\ clients \in [Steps -> Seq(Clients)] /\ p \in Seq(Clients)
      /\ st \in [Steps -> StepStates \cup {"removed"}]
      /\ Pool(map, clients) /\ FallingNames(p)
  BY DEF StaInv, StaTypes, PoolInv, QueueInv
<1>3. /\ q \in Seq(Clients) /\ DOMAIN q = DOMAIN p
      /\ \A i \in DOMAIN p : /\ q[i] = p[(Len(p) - i) + 1]
                             /\ (Len(p) - i) + 1 \in DOMAIN p
                             /\ q[(Len(p) - i) + 1] = p[i]
  BY <1>2, ReverseIs
<1> HIDE DEF q
<1>4. KeysOf(clients, s) = {Key(s, q[i]) : i \in DOMAIN q}
  BY <1>3 DEF KeysOf
<1>5. /\ Pool(m, clients) /\ ToSet(m) \subseteq ToSet(map)
      /\ \A e \in ToSet(map) : e.num # s => e \in ToSet(m)
      /\ InTurn(q, Associated(p)) =>
           \A i \in DOMAIN q :
             q[i] \in Associated(p) => Key(s, q[i]) \notin ToSet(m)
  BY <1>2, <1>3, <1>4, Removal
<1> HIDE DEF m
<1>6. map' = m
  BY <1>1 DEF SetStations
<1>7. /\ clients'[s] = <<>> /\ st'[s] = "removed"
      /\ \A t \in Steps : t # s => clients'[t] = clients[t] /\ st'[t] = st[t]
  BY <1>1, <1>2
<1>8. /\ \A t \in Steps : t # s => KeysOf(clients', t) = KeysOf(clients, t)
      /\ KeysOf(clients', s) = {}
  BY <1>7 DEF KeysOf
<1>9. /\ m \in Seq(Keys) /\ map \in Seq(Keys) /\ OwnDevices(map)
      /\ \A i \in DOMAIN m : m[i].num \in Steps
  <2>1. m \in Seq(Keys) /\ map \in Seq(Keys) /\ OwnDevices(map)
    BY <1>2, <1>5 DEF Pool
  <2>2. \A i \in DOMAIN m : m[i] \in Keys
    BY <2>1
  <2> QED BY <2>1, <2>2 DEF Keys
<1>10. /\ busy' \subseteq busy
       /\ DevicesOf(map) \subseteq busy => DevicesOf(m) \subseteq busy'
       /\ DevicesOf(map) = busy => DevicesOf(m) = busy'
  BY <1>1, <1>5, <1>9, Freed
<1>11. StaTypes'
  <2>1. <<>> \in Seq(Clients)
    OBVIOUS
  <2> QED BY <1>1, <1>2, <1>10, <2>1 DEF StaTypes
<1>12. PoolInv'
  <2>1. Together(m, clients')
    BY <1>5, <1>8, <1>9 DEF Pool, Together
  <2> QED BY <1>2, <1>5, <1>6, <1>10, <2>1 DEF PoolInv, Pool
<1>13. QueueInv'
  <2>1. FallingNames(<<>>)
    BY DEF FallingNames
  <2> QED BY <1>1, <1>2, <1>7, <2>1 DEF QueueInv
<1>14. ASSUME NEW t \in Steps, t # s, NEW i \in DOMAIN clients[t]
       PROVE  Key(t, clients[t][i]) \in ToSet(map)
              <=> Key(t, clients[t][i]) \in ToSet(m)
  BY <1>5, <1>14 DEF Key
<1>15. RemovalIsOwn'
  <2>1. ASSUME NEW t \in Steps PROVE Own(clients'[t], t, m)
    <3>1. CASE t = s
      BY <1>7, <3>1 DEF Own
    <3>2. CASE t # s
      <4>1. Own(clients[t], t, map)
        BY ByQueue DEF StaInv
      <4> QED BY <1>7, <1>14, <3>2, <4>1 DEF Own
    <3> QED BY <3>1, <3>2
  <2> QED BY <1>6, <2>1 DEF RemovalIsOwn, Own, Names
<1>16. EndedIsDisconnected'
  <2>1. ASSUME NEW t \in Steps, AtEnd(plan[t], st'[t])
        PROVE  Without(clients'[t], t, m)
    <3>1. t # s
      BY <1>7, <2>1 DEF AtEnd
    <3>2. Without(clients[t], t, map)
      BY <1>7, <2>1, <3>1, ByQueue DEF StaInv
    <3> QED BY <1>7, <1>14, <3>1, <3>2 DEF Without
  <2> QED BY <1>1, <1>6, <2>1 DEF EndedIsDisconnected, AtEnd, Without
<1>17. CleanInv'
  <2> SUFFICES ASSUME clean, ~(plan[s].reconnect /\ st[s] \in Waiting)
               PROVE  /\ DevicesOf(m) = busy'
                      /\ \A e \in ToSet(m) : e \in KeysOf(clients', e.num)
                      /\ \A t \in Steps :
                           /\ ~Collide(Names(clients'[t]))
                           /\ Kept(clients'[t],
                                   plan[t].reconnect /\ st'[t] \in Waiting)
    BY <1>1, <1>6 DEF CleanInv
  <2>1. DevicesOf(m) = busy'
    BY <1>2, <1>10 DEF CleanInv
  <2>2. /\ ~Collide(Names(p)) /\ Kept(p, FALSE)
        /\ \A e \in ToSet(map) : e \in KeysOf(clients, e.num)
    BY <1>2 DEF CleanInv, Kept
  <2>3. InTurn(q, Associated(p))
    <3>1. Names(q) = Names(p)
      <4>1. Names(q) \subseteq Names(p)
        <5>1. \A i \in DOMAIN q : \E j \in DOMAIN p : q[i].dev = p[j].dev
          BY <1>3
        <5> QED BY <5>1 DEF Names
      <4>2. Names(p) \subseteq Names(q)
        <5>1. \A i \in DOMAIN p : \E j \in DOMAIN q : p[i].dev = q[j].dev
          BY <1>3
        <5> QED BY <5>1 DEF Names
      <4> QED BY <4>1, <4>2
    <3>2. \A i, j \in DOMAIN p : i # j => p[i].dev # p[j].dev
      BY <1>2, FallingApart
    <3>3. DOMAIN p = 1 .. Len(p) /\ Len(p) \in Nat
      BY <1>2
    <3>4. \A i, j \in DOMAIN q : i # j => q[i].dev # q[j].dev
      <4> SUFFICES ASSUME NEW i \in DOMAIN p, NEW j \in DOMAIN p, i # j
                   PROVE  q[i].dev # q[j].dev
        BY <1>3
      <4>1. (Len(p) - i) + 1 # (Len(p) - j) + 1
        BY <3>3
      <4> QED BY <1>3, <3>2, <4>1
    <3> QED BY <1>3, <2>2, <3>1, <3>4, ApartInTurn
  <2>4. ASSUME NEW i \in DOMAIN p, Key(s, p[i]) \in ToSet(m) PROVE FALSE
    <3>1. ~p[i].gone
      <4>1. Own(p, s, map)
        BY ByQueue DEF StaInv
      <4> QED BY <1>5, <2>2, <2>4, <4>1 DEF Own
    <3>2. p[i] \in Associated(p)
      BY <2>2, <3>1 DEF Kept, Associated, ToSet
    <3> QED BY <1>3, <1>5, <2>3, <2>4, <3>2
  <2>5. ASSUME NEW e \in ToSet(m) PROVE e \in KeysOf(clients', e.num)
    <3>1. e \in KeysOf(clients, e.num)
      BY <1>5, <2>2
    <3>2. e.num # s
      BY <2>4, <3>1 DEF KeysOf
    <3>3. e.num \in Steps
      BY <1>9 DEF ToSet
    <3> QED BY <1>8, <3>1, <3>2, <3>3
  <2>6. ASSUME NEW t \in Steps
        PROVE  /\ ~Collide(Names(clients'[t]))
               /\ Kept(clients'[t], plan[t].reconnect /\ st'[t] \in Waiting)
    <3>1. CASE t = s
      BY <1>7, <3>1 DEF Collide, Names, Kept
    <3>2. CASE t # s
      BY <1>2, <1>7, <3>2 DEF CleanInv
    <3> QED BY <3>1, <3>2
  <2> QED BY <2>1, <2>5, <2>6
<1> QED BY <1>11, <1>12, <1>13, <1>15, <1>16, <1>17 DEF StaInv

(* What was marked for a step that could not prepare its devices stays.     *)
LEMMA PrepareFailsKeeps ==
  ASSUME StaInv, NEW s \in Steps, PrepareFails(s)
  PROVE  StaInv'
<1>1. /\ st' = [st EXCEPT ![s] = "abort"] /\ st[s] = "request"
      /\ plan' = plan /\ clients' = clients /\ map' = map /\ ~clean'
  BY DEF PrepareFails, Turn, Aborts
<1>2. StaTypes /\ PoolInv /\ QueueInv
  BY DEF StaInv
<1>3. busy \subseteq busy' /\ busy' \subseteq Devices
  <2>1. CASE \E k \in 1 .. plan[s].clients :
               k <= Cardinality(Free) /\ busy' = busy \cup FirstFree(k)
    <3>1. PICK k \in 1 .. plan[s].clients :
            k <= Cardinality(Free) /\ busy' = busy \cup FirstFree(k)
      BY <2>1
    <3>2. k \in Nat
      OBVIOUS
    <3>3. FirstFree(k) \in SUBSET Free
      BY <3>1, <3>2, FirstFreeIsFree
    <3> QED BY <1>2, <3>1, <3>3 DEF StaTypes, Free
  <2>2. CASE busy' = Devices
    BY <1>2, <2>2 DEF StaTypes
  <2> QED BY <2>1, <2>2 DEF PrepareFails, ConfigureFails, NoneFree
<1>4. st \in [Steps -> StepStates \cup {"removed"}]
  BY <1>2 DEF StaTypes
<1>5. st'[s] = "abort" /\ \A t \in Steps : t # s => st'[t] = st[t]
  BY <1>1, <1>4
<1>6. StaTypes'
  <2>1. "abort" \in StepStates
    BY DEF StepStates
  <2> QED BY <1>1, <1>2, <1>3, <2>1 DEF StaTypes
<1>7. PoolInv'
  BY <1>1, <1>2, <1>3 DEF PoolInv
<1>8. QueueInv'
  BY <1>1, <1>2, <1>5 DEF QueueInv
<1>9. RemovalIsOwn'
  BY <1>1 DEF StaInv, RemovalIsOwn
<1>10. EndedIsDisconnected'
  BY <1>1, <1>5 DEF StaInv, EndedIsDisconnected
<1>11. CleanInv'
  BY <1>1 DEF CleanInv
<1> QED BY <1>6, <1>7, <1>8, <1>9, <1>10, <1>11 DEF StaInv

LEMMA NextCaseKeeps ==
  ASSUME StaInv, NextCase
  PROVE  StaInv'
<1>1. /\ plan' \in [Steps -> Configs] /\ st' = NewStates
      /\ clients' = NewClients /\ map' = map /\ busy' = busy
      /\ clean' = clean
  BY DEF NextCase, poolVars
<1>2. StaTypes /\ PoolInv /\ QueueInv /\ CleanInv
  BY DEF StaInv
<1>3. \A s \in Steps : clients'[s] = <<>> /\ st'[s] = "request"
  BY <1>1 DEF NewStates, NewClients
<1>4. \A s \in Steps : clients[s] = <<>>
  BY <1>2 DEF QueueInv, NextCase, AllRemoved
<1>5. \A s \in Steps : KeysOf(clients, s) = {} /\ KeysOf(clients', s) = {}
  BY <1>3, <1>4 DEF KeysOf
<1>6. map \in Seq(Keys) /\ \A i \in DOMAIN map : map[i].num \in Steps
  <2>1. map \in Seq(Keys)
    BY <1>2 DEF PoolInv, Pool
  <2>2. \A i \in DOMAIN map : map[i] \in Keys
    BY <2>1
  <2> QED BY <2>1, <2>2 DEF Keys
<1>7. StaTypes'
  <2>1. plan' \in [Steps -> Config]
    BY <1>1, StaAssumption
  <2>2. st' \in [Steps -> StepStates \cup {"removed"}]
    BY <1>1 DEF NewStates, StepStates
  <2>3. clients' \in [Steps -> Seq(Clients)]
    BY <1>1 DEF NewClients
  <2> QED BY <1>1, <1>2, <2>1, <2>2, <2>3 DEF StaTypes
<1>8. PoolInv'
  <2>1. Together(map, clients')
    BY <1>5, <1>6 DEF Together
  <2> QED BY <1>1, <1>2, <2>1 DEF PoolInv, Pool
<1>9. QueueInv'
  BY <1>3 DEF QueueInv, FallingNames
<1>10. RemovalIsOwn' /\ EndedIsDisconnected'
  BY <1>3 DEF RemovalIsOwn, EndedIsDisconnected
<1>11. CleanInv'
  <2> SUFFICES ASSUME clean
               PROVE  /\ DevicesOf(map) = busy
                      /\ ToSet(map) = {}
                      /\ \A s \in Steps :
                           /\ ~Collide(Names(clients'[s]))
                           /\ \A again : Kept(clients'[s], again)
    BY <1>1 DEF CleanInv
  <2>1. \A e \in ToSet(map) : FALSE
    BY <1>2, <1>5, <1>6 DEF CleanInv, ToSet
  <2>2. \A s \in Steps : /\ ~Collide(Names(clients'[s]))
                         /\ \A again : Kept(clients'[s], again)
    BY <1>3 DEF Names, Collide, Kept
  <2> QED BY <1>2, <2>1, <2>2 DEF CleanInv
<1> QED BY <1>7, <1>8, <1>9, <1>10, <1>11 DEF StaInv

(* The clients of a step that begins, and their stations.                   *)
NewQueue(C) == [i \in DOMAIN Descending(C) |-> NewClient(Descending(C)[i])]

LEMMA NewQueueIs ==
  ASSUME NEW C \in SUBSET Devices
  PROVE  /\ NewQueue(C) \in Seq(Clients)
         /\ FallingNames(NewQueue(C))
         /\ Names(NewQueue(C)) = C
         /\ \A i \in DOMAIN NewQueue(C) :
              NewQueue(C)[i].assoc /\ ~NewQueue(C)[i].gone
<1> DEFINE D == Descending(C)
           q == NewQueue(C)
<1>1. /\ D \in Seq(Devices) /\ Falls(D) /\ {D[i] : i \in DOMAIN D} = C
  BY DescendingIs
<1>2. DOMAIN D = 1 .. Len(D) /\ Len(D) \in Nat
  BY <1>1
<1>3. q = [i \in 1 .. Len(D) |-> NewClient(D[i])]
  BY <1>2 DEF NewQueue
<1> HIDE DEF D, q
<1>4. ASSUME NEW i \in 1 .. Len(D)
      PROVE  q[i] \in Clients /\ q[i].dev = D[i] /\ q[i].assoc /\ ~q[i].gone
  <2>1. D[i] \in Devices /\ q[i] = NewClient(D[i])
    BY <1>1, <1>3
  <2> QED BY <2>1 DEF NewClient, Clients
<1>5. DOMAIN q = DOMAIN D /\ q \in Seq(Clients)
  <2>1. DOMAIN q = 1 .. Len(D)
    BY <1>3
  <2>2. q = [i \in 1 .. Len(D) |-> q[i]]
    BY <1>3
  <2> QED BY <1>2, <1>4, <2>1, <2>2
<1>6. FallingNames(q)
  BY <1>1, <1>2, <1>4, <1>5 DEF FallingNames, Falls
<1>7. Names(q) = C
  BY <1>1, <1>2, <1>4, <1>5 DEF Names
<1> QED BY <1>2, <1>4, <1>5, <1>6, <1>7 DEF q

LEMMA AddedIs ==
  ASSUME map \in Seq(Keys), NEW s \in Steps, NEW C \in SUBSET Devices
  PROVE  LET q == NewQueue(C)
             n == Len(q)
             m == AddedTo(map, s, C) IN
         /\ m \in Seq(Keys) /\ Len(m) = n + Len(map)
         /\ \A i \in 1 .. n : m[i] = Key(s, q[i])
         /\ \A i \in 1 .. Len(m) : i > n => /\ i - n \in DOMAIN map
                                            /\ m[i] = map[i - n]
         /\ ToSet(m) = {Key(s, q[i]) : i \in 1 .. n} \cup ToSet(map)
<1> DEFINE D == Descending(C)
           q == NewQueue(C)
           n == Len(q)
           a == [i \in DOMAIN D |-> [num |-> s, dev |-> D[i]]]
           m == a \o map
<1>1. AddedTo(map, s, C) = m
  BY DEF AddedTo
<1>2. q \in Seq(Clients) /\ n \in Nat /\ DOMAIN q = 1 .. n
  BY NewQueueIs
<1>3. D \in Seq(Devices) /\ DOMAIN D = 1 .. n /\ Len(D) = n
  <2>1. D \in Seq(Devices) /\ DOMAIN D = 1 .. Len(D) /\ Len(D) \in Nat
    BY DescendingIs
  <2>2. DOMAIN q = DOMAIN D
    BY DEF NewQueue
  <2> DEFINE l == Len(D)
  <2> HIDE DEF D, q, n, a, m
  <2>3. 1 .. n = 1 .. Len(D)
    BY <1>2, <2>1, <2>2
  <2>4. n = l
    <3>1. n \in Nat /\ l \in Nat /\ 1 .. n = 1 .. l
      BY <1>2, <2>1, <2>3
    <3> HIDE DEF l
    <3>2. (n \in 1 .. l \/ n = 0) /\ (l \in 1 .. n \/ l = 0)
      BY <3>1
    <3> QED BY <3>1, <3>2
  <2> QED BY <1>2, <2>1, <2>4
<1>4. \A i \in 1 .. n : a[i] = Key(s, q[i]) /\ a[i] \in Keys
  <2> SUFFICES ASSUME NEW i \in 1 .. n
               PROVE  a[i] = Key(s, q[i]) /\ a[i] \in Keys
    OBVIOUS
  <2>1. a[i] = [num |-> s, dev |-> D[i]] /\ q[i] = NewClient(D[i])
    BY <1>3 DEF NewQueue
  <2>2. D[i] \in Devices
    BY <1>3
  <2> QED BY <2>1, <2>2 DEF Key, Keys, NewClient
<1>5. a \in Seq(Keys) /\ Len(a) = n
  <2>1. a = [i \in 1 .. n |-> a[i]]
    BY <1>3
  <2> HIDE DEF a, n
  <2> QED BY <1>2, <1>4, <2>1
<1> HIDE DEF a, n, D, q
<1>6. /\ m \in Seq(Keys) /\ Len(m) = n + Len(map)
      /\ \A i \in 1 .. n + Len(map) : m[i] = IF i <= n THEN a[i] ELSE map[i - n]
  BY <1>5, ConcatProperties
<1>7. Len(map) \in Nat /\ DOMAIN map = 1 .. Len(map)
  OBVIOUS
<1> HIDE DEF m
<1>8. \A i \in 1 .. n : m[i] = Key(s, q[i])
  BY <1>2, <1>4, <1>6, <1>7
<1>9. \A i \in 1 .. Len(m) : i > n => /\ i - n \in DOMAIN map
                                      /\ m[i] = map[i - n]
  BY <1>2, <1>6, <1>7
<1>10. ToSet(m) = {Key(s, q[i]) : i \in 1 .. n} \cup ToSet(map)
  <2>0. DOMAIN m = 1 .. n + Len(map)
    BY <1>6
  <2>1. ToSet(m) \subseteq {Key(s, q[i]) : i \in 1 .. n} \cup ToSet(map)
    <3> SUFFICES ASSUME NEW i \in 1 .. n + Len(map)
                 PROVE  \/ \E j \in 1 .. n : m[i] = Key(s, q[j])
                        \/ \E j \in DOMAIN map : m[i] = map[j]
      BY <2>0 DEF ToSet
    <3>1. i \in 1 .. n \/ i > n
      BY <1>2, <1>7
    <3> QED BY <1>6, <1>8, <1>9, <3>1
  <2>2. {Key(s, q[i]) : i \in 1 .. n} \subseteq ToSet(m)
    <3>1. \A i \in 1 .. n : i \in DOMAIN m
      BY <1>2, <1>7, <2>0
    <3> QED BY <1>8, <3>1 DEF ToSet
  <2>3. ToSet(map) \subseteq ToSet(m)
    <3> SUFFICES ASSUME NEW j \in 1 .. Len(map)
                 PROVE  \E i \in DOMAIN m : m[i] = map[j]
      BY <1>7 DEF ToSet
    <3>1. n + j \in 1 .. n + Len(map) /\ n + j > n /\ (n + j) - n = j
      BY <1>2, <1>7
    <3> QED BY <1>6, <1>9, <2>0, <3>1
  <2> QED BY <2>1, <2>2, <2>3
<1> QED BY <1>1, <1>6, <1>8, <1>9, <1>10 DEF n, q

LEMMA ExecuteInternalKeeps ==
  ASSUME StaInv, NEW s \in Steps, ExecuteInternal(s)
  PROVE  StaInv'
<1>1. /\ StaTypes /\ PoolInv /\ QueueInv /\ CleanInv
      /\ clients \in [Steps -> Seq(Clients)]
      /\ st \in [Steps -> StepStates \cup {"removed"}]
      /\ st[s] = "request" /\ plan[s].conn = "internal"
      /\ plan' = plan
  BY DEF StaInv, StaTypes, ExecuteInternal, Turn
<1> DEFINE S == FirstFree(plan[s].clients)
<1>2. S \in SUBSET Free
  <2>1. plan[s] \in Config
    BY <1>1 DEF StaTypes
  <2>2. plan[s].clients \in Nat
    BY <2>1 DEF Config
  <2> QED BY <2>2, FirstFreeIsFree DEF ExecuteInternal
<1>3. PICK C \in SUBSET S :
        /\ busy' = busy \cup S
        /\ map' = AddedTo(map, s, C)
        /\ clients' = [clients EXCEPT ![s] = NewQueue(C)]
        /\ clean' = (clean /\ C = S /\ ~Collide(S))
        /\ \E x \in {"continue", "results", "abort"} :
             /\ st' = [st EXCEPT ![s] = x]
             /\ x = "results" => ~plan[s].capture
  <2>1. PICK C \in SUBSET S :
          /\ busy' = busy \cup S
          /\ map' = AddedTo(map, s, C)
          /\ clients' = [clients EXCEPT ![s] =
               [i \in DOMAIN Descending(C) |-> NewClient(Descending(C)[i])]]
          /\ clean' = (clean /\ C = S /\ ~Collide(S))
          /\ IF C = S THEN Executed(s)
             ELSE st' = [st EXCEPT ![s] =
                           IF plan[s].capture THEN "continue" ELSE "results"]
    BY DEF ExecuteInternal
  <2>2. \E x \in {"continue", "results", "abort"} :
          st' = [st EXCEPT ![s] = x] /\ (x = "results" => ~plan[s].capture)
    BY <2>1 DEF Executed, Aborts
  <2> QED BY <2>1, <2>2 DEF NewQueue
<1>4. PICK x \in {"continue", "results", "abort"} :
        st' = [st EXCEPT ![s] = x] /\ (x = "results" => ~plan[s].capture)
  BY <1>3
<1> HIDE DEF S
<1> DEFINE q == NewQueue(C)
           n == Len(q)
           m == AddedTo(map, s, C)
<1>5. /\ map \in Seq(Keys) /\ OwnDevices(map) /\ Together(map, clients)
      /\ DevicesOf(map) \subseteq busy /\ C \in SUBSET Devices
      /\ \A d \in C : d \notin busy
  BY <1>1, <1>2 DEF PoolInv, Pool, Free
<1>6. /\ q \in Seq(Clients) /\ FallingNames(q) /\ Names(q) = C
      /\ \A i \in DOMAIN q : q[i].assoc /\ ~q[i].gone
      /\ DOMAIN q = 1 .. n /\ n \in Nat
  BY <1>5, NewQueueIs
<1>7. /\ m \in Seq(Keys) /\ DOMAIN m = 1 .. Len(m)
      /\ \A i \in 1 .. n : m[i] = Key(s, q[i])
      /\ \A i \in 1 .. Len(m) : i > n => /\ i - n \in DOMAIN map
                                         /\ m[i] = map[i - n]
      /\ ToSet(m) = {Key(s, q[i]) : i \in 1 .. n} \cup ToSet(map)
  <2>1. /\ m \in Seq(Keys)
        /\ \A i \in 1 .. n : m[i] = Key(s, q[i])
        /\ \A i \in 1 .. Len(m) : i > n => /\ i - n \in DOMAIN map
                                           /\ m[i] = map[i - n]
        /\ ToSet(m) = {Key(s, q[i]) : i \in 1 .. n} \cup ToSet(map)
    BY <1>5, AddedIs
  <2>2. DOMAIN m = 1 .. Len(m)
    <3> HIDE DEF m
    <3> QED BY <2>1
  <2> QED BY <2>1, <2>2
<1> HIDE DEF q, n, m
<1>8. /\ clients'[s] = q /\ st'[s] = x
      /\ \A t \in Steps : t # s => clients'[t] = clients[t] /\ st'[t] = st[t]
  BY <1>1, <1>3, <1>4 DEF q
<1>9. /\ KeysOf(clients', s) = {Key(s, q[i]) : i \in 1 .. n}
      /\ \A t \in Steps : t # s => KeysOf(clients', t) = KeysOf(clients, t)
      /\ \A e \in KeysOf(clients', s) : e.num = s /\ e.dev \in C
  BY <1>6, <1>8 DEF KeysOf, Key, Names
<1>10. map' = m
  BY <1>3 DEF m
<1>11. \A e \in ToSet(map) : e.dev \notin C /\ e \notin KeysOf(clients', s)
  BY <1>5, <1>9 DEF DevicesOf
<1>12. StaTypes'
  <2>1. x \in StepStates
    BY DEF StepStates
  <2>2. clients' \in [Steps -> Seq(Clients)]
    BY <1>1, <1>3, <1>6 DEF q
  <2>3. busy' \in SUBSET Devices
    BY <1>1, <1>2, <1>3 DEF StaTypes, Free
  <2> QED BY <1>1, <1>4, <2>1, <2>2, <2>3 DEF StaTypes
<1>13. OwnDevices(m)
  <2> SUFFICES ASSUME NEW i \in 1 .. Len(m), NEW j \in 1 .. Len(m), i < j
               PROVE  m[i].dev # m[j].dev
    <3>1. \A i, j \in 1 .. Len(m) : i # j => i < j \/ j < i
      OBVIOUS
    <3> QED BY <1>7, <3>1 DEF OwnDevices
  <2>1. CASE j <= n
    <3>1. i \in 1 .. n /\ j \in 1 .. n /\ i # j
      BY <1>6, <2>1
    <3>2. q[i].dev # q[j].dev
      BY <1>6, <3>1, FallingApart
    <3>3. m[i] = Key(s, q[i]) /\ m[j] = Key(s, q[j])
      BY <1>7, <3>1
    <3> QED BY <3>2, <3>3 DEF Key
  <2>2. CASE i <= n /\ j > n
    <3>1. i \in 1 .. n
      BY <1>6, <2>2
    <3>2. m[i] \in KeysOf(clients', s) /\ m[j] \in ToSet(map)
      BY <1>7, <1>9, <2>2, <3>1 DEF ToSet
    <3> QED BY <1>9, <1>11, <3>2
  <2>3. CASE i > n
    <3>1. j > n /\ i - n # j - n
      BY <1>6, <2>3
    <3> QED BY <1>5, <1>7, <2>3, <3>1 DEF OwnDevices
  <2> QED BY <1>6, <2>1, <2>2, <2>3
<1>14. Together(m, clients')
  <2> SUFFICES ASSUME NEW i \in 1 .. Len(m), NEW j \in 1 .. Len(m),
                      j < i, m[j].num = m[i].num,
                      m[i] \in KeysOf(clients', m[i].num)
               PROVE  m[j] \in KeysOf(clients', m[i].num)
    BY <1>7 DEF Together
  <2>1. CASE j <= n
    <3>1. j \in 1 .. n
      BY <1>6, <2>1
    <3>2. m[j] \in KeysOf(clients', s)
      BY <1>7, <1>9, <3>1
    <3> QED BY <1>9, <3>2
  <2>2. CASE j > n
    <3>1. i > n /\ j - n < i - n
      BY <1>6, <2>2
    <3>2. /\ i - n \in DOMAIN map /\ j - n \in DOMAIN map
          /\ m[i] = map[i - n] /\ m[j] = map[j - n]
      BY <1>7, <2>2, <3>1
    <3>3. m[i] \in ToSet(map) /\ m[i] \in Keys
      BY <1>5, <3>2 DEF ToSet
    <3>4. m[i].num \in Steps /\ m[i].num # s
      BY <1>11, <3>3 DEF Keys
    <3>5. m[i] \in KeysOf(clients, m[i].num)
      BY <1>9, <3>4
    <3>6. m[j] \in KeysOf(clients, m[i].num)
      BY <1>5, <3>1, <3>2, <3>5 DEF Together
    <3> QED BY <1>9, <3>4, <3>6
  <2> QED BY <1>6, <2>1, <2>2
<1>15. DevicesOf(m) = C \cup DevicesOf(map)
  <2>1. {e.dev : e \in {Key(s, q[i]) : i \in 1 .. n}} = C
    <3>1. {e.dev : e \in {Key(s, q[i]) : i \in 1 .. n}}
            = {Key(s, q[i]).dev : i \in 1 .. n}
      OBVIOUS
    <3>2. \A i \in 1 .. n : Key(s, q[i]).dev = q[i].dev
      BY DEF Key
    <3>3. {q[i].dev : i \in 1 .. n} = C
      BY <1>6 DEF Names
    <3> QED BY <3>1, <3>2, <3>3
  <2> QED BY <1>7, <2>1 DEF DevicesOf
<1>16. PoolInv'
  <2>1. DevicesOf(m) \subseteq busy'
    BY <1>3, <1>5, <1>15
  <2> QED BY <1>7, <1>10, <1>13, <1>14, <2>1 DEF PoolInv, Pool
<1>17. QueueInv'
  <2>1. x # "request" /\ x # "removed" /\ plan[s].conn # "real"
    BY <1>1
  <2> QED BY <1>1, <1>6, <1>8, <2>1 DEF QueueInv
<1>18. ASSUME NEW t \in Steps, t # s, NEW i \in DOMAIN clients[t]
       PROVE  Key(t, clients[t][i]) \in ToSet(map)
              <=> Key(t, clients[t][i]) \in ToSet(m)
  BY <1>7, <1>18 DEF Key
<1>19. RemovalIsOwn'
  <2>1. ASSUME NEW t \in Steps PROVE Own(clients'[t], t, m)
    <3>1. CASE t = s
      BY <1>6, <1>7, <1>8, <3>1 DEF Own
    <3>2. CASE t # s
      <4>1. Own(clients[t], t, map)
        BY ByQueue DEF StaInv
      <4> QED BY <1>8, <1>18, <3>2, <4>1 DEF Own
    <3> QED BY <3>1, <3>2
  <2> QED BY <1>10, <2>1 DEF RemovalIsOwn, Own, Names
<1>20. EndedIsDisconnected'
  <2>1. ASSUME NEW t \in Steps, AtEnd(plan[t], st'[t])
        PROVE  Without(clients'[t], t, m)
    <3>1. t # s
      BY <1>4, <1>8, <2>1 DEF AtEnd
    <3>2. Without(clients[t], t, map)
      BY <1>8, <2>1, <3>1, ByQueue DEF StaInv
    <3> QED BY <1>8, <1>18, <3>1, <3>2 DEF Without
  <2> QED BY <1>1, <1>10, <2>1 DEF EndedIsDisconnected, AtEnd, Without
<1>21. CleanInv'
  <2> SUFFICES ASSUME clean, C = S, ~Collide(S)
               PROVE  /\ DevicesOf(m) = busy'
                      /\ \A e \in ToSet(m) : e \in KeysOf(clients', e.num)
                      /\ \A t \in Steps :
                           /\ ~Collide(Names(clients'[t]))
                           /\ Kept(clients'[t],
                                   plan[t].reconnect /\ st'[t] \in Waiting)
    BY <1>1, <1>3, <1>10 DEF CleanInv
  <2>1. DevicesOf(m) = busy'
    BY <1>1, <1>3, <1>15 DEF CleanInv
  <2>2. ASSUME NEW e \in ToSet(m) PROVE e \in KeysOf(clients', e.num)
    <3>1. CASE e \in KeysOf(clients', s)
      BY <1>9, <3>1
    <3>2. CASE e \in ToSet(map)
      <4>1. e \in KeysOf(clients, e.num)
        BY <1>1, <3>2 DEF CleanInv
      <4>2. e.num # s
        <5>1. clients[s] = <<>>
          BY <1>1 DEF QueueInv
        <5>2. KeysOf(clients, s) = {}
          BY <5>1 DEF KeysOf
        <5> QED BY <4>1, <5>2
      <4>3. e \in Keys
        BY <1>5, <3>2 DEF ToSet
      <4> QED BY <1>9, <4>1, <4>2, <4>3 DEF Keys
    <3> QED BY <1>7, <1>9, <3>1, <3>2
  <2>3. ASSUME NEW t \in Steps
        PROVE  /\ ~Collide(Names(clients'[t]))
               /\ Kept(clients'[t], plan[t].reconnect /\ st'[t] \in Waiting)
    <3>1. CASE t = s
      BY <1>6, <1>8, <3>1 DEF Kept
    <3>2. CASE t # s
      BY <1>1, <1>8, <3>2 DEF CleanInv
    <3> QED BY <3>1, <3>2
  <2> QED BY <2>1, <2>2, <2>3
<1> QED BY <1>12, <1>16, <1>17, <1>19, <1>20, <1>21 DEF StaInv

------------------------------------------------------------------------------
LEMMA StaNext ==
  ASSUME StaInv, [Next]_vars
  PROVE  StaInv'
<1>1. ASSUME UNCHANGED vars PROVE StaInv'
  BY <1>1 DEF vars, poolVars, StaInv, StaTypes, PoolInv, QueueInv,
              RemovalIsOwn, EndedIsDisconnected, CleanInv, HasStation
<1>2. ASSUME NEW s \in Steps, Execute(s) PROVE StaInv'
  BY <1>2, ExecuteFailsKeeps, PrepareFailsKeeps, ExecuteInternalKeeps
  DEF Execute
<1>3. ASSUME NEW s \in Steps, Timeout(s) PROVE StaInv'
  BY <1>3, TimeoutRealKeeps, TimeoutEndsKeeps, TimeoutInternalKeeps
  DEF Timeout
<1>4. ASSUME NEW s \in Steps, RemoveStep(s) PROVE StaInv'
  BY <1>4, RemoveStepKeeps
<1>5. ASSUME NextCase PROVE StaInv'
  BY <1>5, NextCaseKeeps
<1>6. ASSUME NEW s \in Steps, Frame(s) PROVE StaInv'
  <2>1. PICK i \in 1 .. NDevices :
          Deauth(s, i) \/ RemoveOnFrame(s, i) \/ Joined(s, i)
    BY <1>6 DEF Frame
  <2> QED BY <2>1, DeauthKeeps, RemoveOnFrameKeeps, JoinedKeeps
<1>7. ASSUME Finished PROVE StaInv'
  BY <1>1, <1>7 DEF Finished
<1> QED BY <1>1, <1>2, <1>3, <1>4, <1>5, <1>6, <1>7 DEF Next, Progress

LEMMA StaAlways == Spec => []StaInv
<1>1. Init => StaInv
  BY StaInit
<1>2. StaInv /\ [Next]_vars => StaInv'
  BY StaNext
<1> QED BY <1>1, <1>2, PTL DEF Spec

(* find_first_free_dev() never gives away a device on which a station is    *)
(* registered, whatever earlier test cases, failed operations and removals *)
(* under a wrong name have left in m_sta_map.                              *)
THEOREM DevicesAreOwn == Spec => []StationsOnBusyDevices
<1>1. StaInv => StationsOnBusyDevices
  <2> SUFFICES ASSUME StaInv PROVE StationsOnBusyDevices
    OBVIOUS
  <2>1. OwnDevices(map) /\ DevicesOf(map) \subseteq busy
    BY DEF StaInv, PoolInv, Pool
  <2>2. \A i \in DOMAIN map : map[i] \in ToSet(map)
    BY DEF ToSet
  <2> QED BY <2>1, <2>2 DEF StationsOnBusyDevices, OwnDevices, DevicesOf
<1> QED BY <1>1, StaAlways, PTL

(* Between clients whose names do not begin each other, remove_sta() takes  *)
(* the station it was asked to take, whatever stations of earlier test     *)
(* cases have the same step number.                                        *)
THEOREM RemovalsAreOwn == Spec => []RemovalIsOwn
<1>1. StaInv => RemovalIsOwn
  BY DEF StaInv
<1> QED BY <1>1, StaAlways, PTL

(* A step that ends by its time or its pattern has removed every station of *)
(* its own, even where the names of its clients begin each other: the loop *)
(* goes from the highest name down.                                        *)
THEOREM EndedStepsAreDisconnected == Spec => []EndedIsDisconnected
<1>1. StaInv => EndedIsDisconnected
  BY DEF StaInv
<1> QED BY <1>1, StaAlways, PTL

(* Outside the three named causes nothing of the pool is lost: a test case  *)
(* whose steps are removed has freed each device and each station.         *)
THEOREM NothingIsLeaked == Spec => []NothingLeaked
<1>1. StaInv => NothingLeaked
  <2> SUFFICES ASSUME StaInv, AllRemoved, clean
               PROVE  map = <<>> /\ busy = {}
    BY DEF NothingLeaked
  <2>1. PoolInv /\ QueueInv /\ CleanInv
    BY DEF StaInv
  <2>2. \A s \in Steps : clients[s] = <<>>
    BY <2>1 DEF QueueInv, AllRemoved
  <2>3. \A s \in Steps : KeysOf(clients, s) = {}
    BY <2>2 DEF KeysOf
  <2>4. map \in Seq(Keys) /\ \A e \in ToSet(map) : e \in Keys
    BY <2>1 DEF PoolInv, Pool, ToSet
  <2>5. ToSet(map) = {}
    BY <2>1, <2>3, <2>4 DEF CleanInv, Keys
  <2>6. map = <<>>
    <3>1. \A i \in 1 .. Len(map) : map[i] \in ToSet(map)
      BY <2>4 DEF ToSet
    <3>2. Len(map) = 0
      BY <2>4, <2>5, <3>1
    <3> QED BY <2>4, <3>2
  <2> QED BY <2>1, <2>5, <2>6 DEF CleanInv, DevicesOf
<1> QED BY <1>1, StaAlways, PTL
=============================================================================
