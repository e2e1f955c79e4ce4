---------------------------- MODULE RoutingProofs ----------------------------
(***************************************************************************)
(* Proofs about the computation of the routing tables, for every network   *)
(* that discovery can leave.                                               *)
(***************************************************************************)
EXTENDS RoutingCompute, FiniteSetTheorems, TLAPS

Levels == 0 .. NODES_NUM

\* the nodes of S and those of V one hop from them
Grown(t, V, S) == S \cup {n \in V : \E m \in S : Adjacent(t, m, n)}

\* f has the balls around a up to radius r
Balls(t, V, a, f, r) ==
  f = [k \in 0 .. r |-> IF k = 0 THEN {a} ELSE Grown(t, V, f[k - 1])]

\* b[k] are the nodes of V within k hops of a
Around(t, V, a, b) ==
  /\ b[0] = {a}
  /\ \A k \in Levels : k + 1 \in Levels => b[k + 1] = Grown(t, V, b[k])

-----------------------------------------------------------------------------
(* Balls *)

\* a set of numbers that is closed under successors and has 0 has all of them
LEMMA Upwards ==
  ASSUME NEW S, NEW r \in Nat, 0 \in S, \A k \in 0 .. r : k + 1 \in 0 .. r /\ k \in S => k + 1 \in S
  PROVE  0 .. r \subseteq S
<1> SUFFICES ASSUME NEW j \in 0 .. r, j \notin S PROVE FALSE
  OBVIOUS
<1> DEFINE Bad == {k \in 0 .. r : k \notin S}
<1>1. Bad \subseteq Nat /\ j \in Bad
  OBVIOUS
<1>2. PICK k \in Bad : \A i \in Bad : ~ (<<i, k>> \in OpToRel(<, Nat))
  BY Zenon, <1>1, NatLessThanWellFounded, WFMin
<1>3. \A i \in Bad : ~ (i < k)
  BY Zenon, <1>1, <1>2 DEF OpToRel
<1>4. k # 0 /\ k \in 0 .. r /\ k \notin S
  OBVIOUS
<1>5. k - 1 \in 0 .. r /\ k - 1 < k /\ (k - 1) + 1 = k
  BY <1>4
<1>6. k - 1 \in S
  BY <1>3, <1>5
<1> QED
  BY <1>4, <1>5, <1>6

\* radii are numbers
LEMMA LevelsNat == Levels \subseteq Nat
BY RoutingAssumption DEF Levels

\* the balls of every radius exist
LEMMA BallsExist ==
  ASSUME NEW t, NEW V, NEW a, NEW r \in Nat
  PROVE  \E f : Balls(t, V, a, f, r)
<1> DEFINE S == {k \in 0 .. r : \E f : Balls(t, V, a, f, k)}
<1>1. 0 \in S
  <2> DEFINE f == [k \in 0 .. 0 |-> {a}]
  <2>1. Balls(t, V, a, f, 0)
    BY DEF Balls
  <2> QED
    BY <2>1
<1>2. ASSUME NEW k \in 0 .. r, k + 1 \in 0 .. r, k \in S PROVE k + 1 \in S
  <2>1. PICK f : Balls(t, V, a, f, k)
    BY <1>2
  <2>2. PICK h : h = Grown(t, V, f[k])
    OBVIOUS
  <2> DEFINE g == [j \in 0 .. k + 1 |-> IF j = k + 1 THEN h ELSE f[j]]
  <2>3. Balls(t, V, a, g, k + 1)
    <3>1. \A j \in 0 .. k : f[j] = IF j = 0 THEN {a} ELSE Grown(t, V, f[j - 1])
      BY Zenon, <2>1 DEF Balls
    <3>2. /\ \A j \in 0 .. k + 1 : j # k + 1 => g[j] = f[j]
          /\ g[k + 1] = h /\ k + 1 \in 0 .. k + 1
      OBVIOUS
    <3>3. ASSUME NEW j \in 0 .. k + 1
          PROVE  \/ j = k + 1 /\ j # 0 /\ j - 1 = k /\ k \in 0 .. k + 1 /\ k # k + 1
                 \/ j # k + 1 /\ j \in 0 .. k /\ (j # 0 => j - 1 \in 0 .. k + 1 /\ j - 1 # k + 1)
      OBVIOUS
    <3> HIDE DEF g
    <3>4. \A j \in 0 .. k + 1 : g[j] = IF j = 0 THEN {a} ELSE Grown(t, V, g[j - 1])
      BY Zenon, <2>2, <3>1, <3>2, <3>3
    <3> QED
      BY Zenon, <3>4 DEF Balls, g
  <2> QED
    BY <1>2, <2>3
<1> HIDE DEF S
<1>3. 0 .. r \subseteq S
  BY <1>1, <1>2, Upwards
<1> QED
  BY <1>3 DEF S

\* what Ball defines
LEMMA BallIs ==
  ASSUME NEW t, NEW V, NEW a
  PROVE  Around(t, V, a, Ball(t, V, a))
<1>1. \E f : Balls(t, V, a, f, NODES_NUM)
  BY BallsExist, RoutingAssumption
<1>2. Balls(t, V, a, Ball(t, V, a), NODES_NUM)
  BY Zenon, <1>1 DEF Ball, Balls, Grown
<1>3. PICK b : b = Ball(t, V, a)
  OBVIOUS
<1>4. Balls(t, V, a, b, NODES_NUM)
  BY Zenon, <1>2, <1>3
<1>5. \A k \in Levels : b[k] = IF k = 0 THEN {a} ELSE Grown(t, V, b[k - 1])
  BY Zenon, <1>4 DEF Balls, Levels
<1>6. 0 \in Levels /\ \A k \in Levels : k + 1 # 0 /\ (k + 1) - 1 = k
  BY RoutingAssumption DEF Levels
<1>7. Around(t, V, a, b)
  BY Zenon, <1>5, <1>6 DEF Around
<1> QED
  BY Zenon, <1>3, <1>7

\* more nodes have more within one hop
LEMMA GrownMore ==
  ASSUME NEW t, NEW V, NEW S, NEW T, S \subseteq T
  PROVE  S \subseteq Grown(t, V, S) /\ Grown(t, V, S) \subseteq Grown(t, V, T)
BY Zenon DEF Grown

\* a larger radius has more nodes
LEMMA BallGrows ==
  ASSUME NEW t, NEW V, NEW a, NEW b, Around(t, V, a, b),
         NEW j \in Levels, NEW k \in Levels, j <= k
  PROVE  b[j] \subseteq b[k]
<1>1. \A i \in Levels : i + 1 \in Levels => b[i] \subseteq b[i + 1]
  BY Zenon DEF Around, Grown
<1> DEFINE S == {i \in Levels : j <= i => b[j] \subseteq b[i]}
<1>2. 0 \in S
  BY RoutingAssumption DEF Levels
<1>3. ASSUME NEW i \in 0 .. NODES_NUM, i + 1 \in 0 .. NODES_NUM, i \in S PROVE i + 1 \in S
  <2>1. CASE j <= i
    BY <1>1, <1>3, <2>1 DEF Levels
  <2>2. CASE ~ (j <= i)
    <3>1. j <= i + 1 => j = i + 1
      BY <2>2 DEF Levels
    <3> QED
      BY <1>3, <3>1 DEF Levels
  <2> QED
    BY Zenon, <2>1, <2>2
<1> HIDE DEF S
<1>4. Levels \subseteq S
  BY Zenon, <1>2, <1>3, Upwards, RoutingAssumption DEF Levels
<1> QED
  BY Zenon, <1>4 DEF S

\* a ball around a node of V stays in V
LEMMA BallInside ==
  ASSUME NEW t, NEW V, NEW a \in V, NEW b, Around(t, V, a, b), NEW k \in Levels
  PROVE  b[k] \subseteq V /\ a \in b[k]
<1> DEFINE S == {i \in Levels : b[i] \subseteq V}
<1>1. 0 \in Levels /\ 0 <= k
  BY RoutingAssumption DEF Levels
<1>2. 0 \in S
  BY Zenon, <1>1 DEF Around
<1>3. ASSUME NEW i \in 0 .. NODES_NUM, i + 1 \in 0 .. NODES_NUM, i \in S PROVE i + 1 \in S
  BY Zenon, <1>3 DEF Levels, Around, Grown
<1> HIDE DEF S
<1>4. Levels \subseteq S
  BY Zenon, <1>2, <1>3, Upwards, RoutingAssumption DEF Levels
<1>5. b[0] \subseteq b[k]
  BY Zenon, <1>1, BallGrows
<1> QED
  BY Zenon, <1>4, <1>5 DEF S, Around

\* what is k hops from a neighbour of a is k + 1 hops from a
LEMMA BallThrough ==
  ASSUME NEW t, NEW V, NEW a, NEW b, Around(t, V, a, b), NEW m \in V, NEW c, Around(t, V, m, c),
         Adjacent(t, a, m), NEW k \in Levels, k + 1 \in Levels
  PROVE  c[k] \subseteq b[k + 1]
<1> DEFINE S == {i \in Levels : i + 1 \in Levels => c[i] \subseteq b[i + 1]}
<1>1. 0 \in Levels
  BY RoutingAssumption DEF Levels
<1>2. 0 \in S
  <2>1. c[0] = {m} /\ b[0] = {a} /\ (0 + 1 \in Levels => b[0 + 1] = Grown(t, V, b[0]))
    BY Zenon, <1>1 DEF Around
  <2>2. m \in Grown(t, V, b[0])
    BY Zenon, <2>1 DEF Grown
  <2> QED
    BY Zenon, <1>1, <2>1, <2>2
<1>3. ASSUME NEW i \in 0 .. NODES_NUM, i + 1 \in 0 .. NODES_NUM, i \in S PROVE i + 1 \in S
  BY Zenon, <1>3 DEF Levels, Around, Grown
<1> HIDE DEF S
<1>4. Levels \subseteq S
  BY Zenon, <1>2, <1>3, Upwards, RoutingAssumption DEF Levels
<1> QED
  BY Zenon, <1>4 DEF S

\* the least radius of a ball with n is the distance
LEMMA DistanceIs ==
  ASSUME NEW t, NEW V, NEW a, NEW n, NEW k \in Levels, n \in Ball(t, V, a)[k],
         k # 0 => n \notin Ball(t, V, a)[k - 1]
  PROVE  Distance(t, V, a, n) = k
<1> DEFINE near == {i \in Levels : n \in Ball(t, V, a)[i]}
<1>1. PICK b : Around(t, V, a, b) /\ b = Ball(t, V, a)
  BY Zenon, BallIs
<1>2. k \in near
  OBVIOUS
<1>3. ASSUME NEW j \in near PROVE k <= j
  <2>1. ASSUME NEW i \in Levels
        PROVE  k <= i \/ (k # 0 /\ k - 1 \in Levels /\ i <= k - 1)
    BY ONLY k \in Levels, i \in Levels, RoutingAssumption DEF Levels
  <2>2. ASSUME k # 0, k - 1 \in Levels, j <= k - 1 PROVE FALSE
    BY Zenon, <1>1, <2>2, BallGrows
  <2> QED
    BY Zenon, <2>1, <2>2
<1>4. Distance(t, V, a, n) = IF near = {} THEN NODES_NUM ELSE CHOOSE i \in near : \A j \in near : i <= j
  BY Zenon DEF Distance, Levels
<1>5. near \subseteq Nat
  BY Zenon, LevelsNat
<1> HIDE DEF near
<1>6. PICK d : d = CHOOSE i \in near : \A j \in near : i <= j
  OBVIOUS
<1>7. d \in near /\ \A j \in near : d <= j
  BY Zenon, <1>2, <1>3, <1>6
<1>8. d = k
  BY ONLY <1>2, <1>3, <1>5, <1>7
<1> QED
  BY Zenon, <1>2, <1>4, <1>6, <1>8

-----------------------------------------------------------------------------
(* One search *)

\* interface i of node a leads one hop nearer to node n: n is r hops from a
\* and r - 1 from the node behind i
Nearer(t, V, a, n, i) ==
  /\ i \in RtIfs /\ t[<<a, i>>] \in V
  /\ \E r \in 1 .. NODES_NUM :
       /\ n \in Ball(t, V, a)[r] /\ n \notin Ball(t, V, a)[r - 1]
       /\ n \in Ball(t, V, t[<<a, i>>])[r - 1]

\* V are the nodes of the network with matrix t
Network(t, last, V) == IsNetwork(t, last) /\ V = MASTER_ID .. (last - 1)

Single(t, V) == \A n, m \in V : Cardinality(IfsTo(t, n, m)) <= 1

\* the search s for the table of a has reached the ball of radius k: the nodes
\* in it have a route, and those that are found next are behind nodes of nt0
Reached(t, V, a, s, k) ==
  LET b == Ball(t, V, a) IN
  /\ s.rt \in [RtNodes -> SUBSET RtIfs]
  /\ s.nt0 \subseteq b[k] \ {a} /\ s.nt1 \subseteq b[k] \ {a}
  /\ \A n \in RtNodes : s.rt[n] # {} <=> n \in b[k] \ {a}
  /\ \A n \in V \ {a} : \A i \in s.rt[n] : Nearer(t, V, a, n, i)
  /\ Grown(t, V, b[k]) = b[k] \/ b[k] \ b[k - 1] \subseteq s.nt0
  /\ Cardinality(b[k]) >= k
  /\ s.counter \in Nat /\ (Single(t, V) => s.counter < Cardinality(b[k]))

\* the interfaces of a table lead one hop nearer by the distance, too
LEMMA NearerShortens ==
  ASSUME NEW t, NEW V, NEW a, NEW n, NEW i, Nearer(t, V, a, n, i)
  PROVE  Distance(t, V, t[<<a, i>>], n) = Distance(t, V, a, n) - 1
<1>1. PICK m : m = t[<<a, i>>]
  OBVIOUS
<1>2. PICK r \in 1 .. NODES_NUM :
        /\ n \in Ball(t, V, a)[r] /\ n \notin Ball(t, V, a)[r - 1] /\ n \in Ball(t, V, m)[r - 1]
  BY Zenon, <1>1 DEF Nearer
<1>3. /\ r \in Levels /\ r - 1 \in Levels /\ r # 0 /\ (r - 1) + 1 = r
      /\ r - 1 # 0 => r - 1 - 1 \in Levels /\ (r - 1 - 1) + 1 = r - 1
  BY ONLY r \in 1 .. NODES_NUM, RoutingAssumption DEF Levels
<1>4. Adjacent(t, a, m) /\ m \in V
  BY Zenon, <1>1 DEF Nearer, Adjacent
<1>5. Distance(t, V, a, n) = r
  BY Zenon, <1>2, <1>3, DistanceIs
<1>6. ASSUME r - 1 # 0 PROVE n \notin Ball(t, V, m)[r - 1 - 1]
  <2>1. PICK b, c : /\ Around(t, V, a, b) /\ Around(t, V, m, c)
                    /\ b = Ball(t, V, a) /\ c = Ball(t, V, m)
    BY Zenon, BallIs
  <2>2. c[r - 1 - 1] \subseteq b[(r - 1 - 1) + 1]
    BY Zenon, <1>3, <1>4, <1>6, <2>1, BallThrough
  <2> QED
    BY Zenon, <1>2, <1>3, <1>6, <2>1, <2>2
<1>7. Distance(t, V, m, n) = r - 1
  BY Zenon, <1>2, <1>3, <1>6, DistanceIs
<1> QED
  BY Zenon, <1>1, <1>5, <1>7

\* links lie between different nodes of the network and run both ways
LEMMA Links ==
  ASSUME NEW t, NEW last, NEW V, Network(t, last, V), NEW n \in RtNodes, NEW m \in RtNodes,
         Adjacent(t, n, m)
  PROVE  n \in V /\ m \in V /\ n # m
<1>1. PICK i \in RtIfs : t[<<n, i>>] = m
  BY Zenon DEF Adjacent
<1>2. m # NoNode
  BY RoutingAssumption DEF RtNodes, NoNode
<1> QED
  BY Zenon, <1>1, <1>2 DEF Network, IsNetwork

\* the nodes of a network are among all nodes, and finitely many
LEMMA Members ==
  ASSUME NEW t, NEW last, NEW V, Network(t, last, V)
  PROVE  /\ V \subseteq RtNodes /\ IsFiniteSet(V)
         /\ Cardinality(V) = last - MASTER_ID /\ Cardinality(V) <= NODES_NUM
<1>1. last \in (MASTER_ID + 1) .. NODES_NUM /\ V = MASTER_ID .. (last - 1)
  BY Zenon DEF Network, IsNetwork
<1>2. MASTER_ID \in Nat /\ NODES_NUM \in Nat /\ last \in Nat /\ MASTER_ID < last /\ last <= NODES_NUM
  BY <1>1, RoutingAssumption
<1>3. IsFiniteSet(V) /\ Cardinality(V) = last - MASTER_ID
  <2>1. last - 1 \in Int /\ MASTER_ID \in Int /\ (last - 1) - MASTER_ID + 1 = last - MASTER_ID
        /\ MASTER_ID <= last - 1
    BY <1>2
  <2> QED
    BY <1>1, <2>1, FS_Interval
<1> QED
  BY <1>1, <1>2, <1>3 DEF RtNodes

\* a byte does not count more than there is
LEMMA ByteLeast ==
  ASSUME NEW x \in Nat
  PROVE  Byte(x) \in Nat /\ Byte(x) <= x
<1>1. PICK d : d = NODES_NUM + 1
  OBVIOUS
<1>2. d \in Nat /\ d > 0
  BY <1>1, RoutingAssumption
<1>3. x % d \in 0 .. d - 1 /\ (x < d => x % d = x)
  BY <1>2
<1>4. x % d \in Nat /\ x % d <= x
  BY <1>2, <1>3
<1> QED
  BY Zenon, <1>1, <1>4 DEF Byte

\* no more interfaces are cabled than there are neighbours, when no two cables
\* go to the same one
LEMMA CabledOnce ==
  ASSUME NEW t, NEW last, NEW V, Network(t, last, V), NEW a \in V,
         Single(t, V), NEW T, IsFiniteSet(T), \A n \in V : Adjacent(t, a, n) => n \in T
  PROVE  Cardinality({i \in RtIfs : t[<<a, i>>] # NoNode}) <= Cardinality(T)
<1> DEFINE I == {i \in RtIfs : t[<<a, i>>] # NoNode}
           f == [i \in I |-> t[<<a, i>>]]
<1>1. V \subseteq RtNodes
  BY Zenon, Members
<1>2. ASSUME NEW i \in I PROVE t[<<a, i>>] \in V /\ Adjacent(t, a, t[<<a, i>>])
  BY Zenon, <1>1 DEF Network, IsNetwork, Adjacent
<1>3. \A i \in I : f[i] = t[<<a, i>>] /\ f[i] \in T
  BY Zenon, <1>2
<1>4. ASSUME NEW i \in I, NEW j \in I, t[<<a, i>>] = t[<<a, j>>] PROVE i = j
  <2>1. PICK m : m = t[<<a, i>>]
    OBVIOUS
  <2>2. PICK J : J = IfsTo(t, a, m)
    OBVIOUS
  <2>3. m \in V /\ i \in J /\ j \in J /\ Cardinality(J) <= 1 /\ J \subseteq RtIfs
    <3>1. m \in V /\ t[<<a, i>>] = m /\ t[<<a, j>>] = m
      BY Zenon, <1>2, <1>4, <2>1
    <3>2. i \in J /\ j \in J /\ J \subseteq RtIfs
      BY Zenon, <2>2, <3>1 DEF IfsTo
    <3> QED
      BY Zenon, <2>2, <3>1, <3>2 DEF Single
  <2>4. IsFiniteSet(RtIfs)
    BY FS_Interval, RoutingAssumption DEF RtIfs
  <2>5. IsFiniteSet(J)
    BY Zenon, <2>3, <2>4, FS_Subset
  <2>6. Cardinality(J) \in Nat
    BY Zenon, <2>5, FS_CardinalityType
  <2>7. Cardinality(J) # 0
    BY Zenon, <2>3, <2>5, FS_EmptySet
  <2>8. Cardinality(J) = 1
    BY <2>3, <2>6, <2>7
  <2>9. PICK x : J = {x}
    BY Zenon, <2>5, <2>8, FS_Singleton
  <2> QED
    BY Zenon, <2>3, <2>9
<1>5. f \in [I -> T]
  BY Zenon, <1>3
<1>6. \A i, j \in I : f[i] = f[j] => i = j
  BY Zenon, <1>3, <1>4
<1> HIDE DEF f, I
<1>7. f \in Injection(I, T)
  BY Zenon, <1>5, <1>6 DEF Injection, IsInjective
<1> QED
  BY Zenon, <1>7, FS_Injection DEF I

\* axiom_compute_neighbours_route reaches the neighbours
LEMMA FirstReached ==
  ASSUME NEW t, NEW last, NEW V, Network(t, last, V), NEW a \in V
  PROVE  Reached(t, V, a, FirstLevel(t, a), 1)
<1>1. PICK b : Around(t, V, a, b) /\ b = Ball(t, V, a)
  BY Zenon, BallIs
<1>2. PICK s : s = FirstLevel(t, a)
  OBVIOUS
<1> DEFINE I == {i \in RtIfs : t[<<a, i>>] # NoNode}
<1>3. /\ s.rt = [n \in RtNodes |-> IfsTo(t, a, n)] /\ s.nt1 = {}
      /\ s.nt0 = {n \in RtNodes : Adjacent(t, a, n)}
      /\ s.counter = Byte(Cardinality(I))
  BY <1>2 DEF FirstLevel
<1>4. V \subseteq RtNodes /\ IsFiniteSet(V) /\ a \in RtNodes
  BY Zenon, Members
<1>5. 0 \in Levels /\ 0 + 1 \in Levels /\ 1 \in 1 .. NODES_NUM /\ 0 + 1 = 1 /\ 1 - 1 = 0 /\ 1 \in Levels
  BY RoutingAssumption DEF Levels
<1>6. \A n \in RtNodes : Adjacent(t, a, n) <=> n \in b[1] \ {a}
  <2>1. b[1] = Grown(t, V, {a})
    BY Zenon, <1>1, <1>5 DEF Around
  <2>2. \A n \in RtNodes : Adjacent(t, a, n) => n \in V /\ n # a
    BY Zenon, <1>4, Links
  <2> QED
    BY Zenon, <2>1, <2>2 DEF Grown
<1>7. b[1] \subseteq V /\ a \in b[1] /\ IsFiniteSet(b[1])
  <2>1. b[1] \subseteq V /\ a \in b[1]
    BY Zenon, <1>1, <1>5, BallInside
  <2> QED
    BY Zenon, <1>4, <2>1, FS_Subset
<1>8. s.rt \in [RtNodes -> SUBSET RtIfs] /\ \A n \in RtNodes : s.rt[n] = IfsTo(t, a, n)
  BY Zenon, <1>3 DEF IfsTo
<1>9. \A n \in RtNodes : s.rt[n] # {} <=> n \in b[1] \ {a}
  BY Zenon, <1>6, <1>8 DEF IfsTo, Adjacent
<1>10. ASSUME NEW n \in V \ {a}, NEW i \in s.rt[n] PROVE Nearer(t, V, a, n, i)
  <2>1. i \in RtIfs /\ t[<<a, i>>] = n /\ n \in RtNodes
    BY Zenon, <1>4, <1>8 DEF IfsTo
  <2>2. n \in b[1]
    BY Zenon, <1>9, <2>1
  <2>3. n \notin b[1 - 1]
    BY Zenon, <1>1, <1>5 DEF Around
  <2>4. n \in Ball(t, V, n)[1 - 1]
    <3>1. PICK c : Around(t, V, n, c) /\ c = Ball(t, V, n)
      BY Zenon, BallIs
    <3> QED
      BY Zenon, <1>5, <3>1 DEF Around
  <2> QED
    BY Zenon, <1>1, <1>5, <2>1, <2>2, <2>3, <2>4 DEF Nearer
<1>11. Cardinality(b[1]) \in Nat /\ Cardinality(b[1]) >= 1
  <2>1. Cardinality(b[1]) \in Nat /\ Cardinality(b[1]) # 0
    BY Zenon, <1>7, FS_CardinalityType, FS_EmptySet
  <2> QED
    BY <2>1
<1>12. s.counter \in Nat /\ (Single(t, V) => s.counter < Cardinality(b[1]))
  <2>1. IsFiniteSet(I)
    <3>1. IsFiniteSet(RtIfs)
      BY FS_Interval, RoutingAssumption DEF RtIfs
    <3> QED
      BY Zenon, <3>1, FS_Subset
  <2>2. Cardinality(I) \in Nat
    BY Zenon, <2>1, FS_CardinalityType
  <2>3. s.counter \in Nat /\ s.counter <= Cardinality(I)
    BY Zenon, <1>3, <2>2, ByteLeast
  <2>4. PICK T : /\ IsFiniteSet(T) /\ Cardinality(T) = Cardinality(b[1]) - 1
                 /\ \A n \in V : Adjacent(t, a, n) => n \in T
    BY Zenon, <1>4, <1>6, <1>7, FS_RemoveElement
  <2>5. Single(t, V) => Cardinality(I) <= Cardinality(T)
    BY Zenon, <2>4, CabledOnce
  <2> HIDE DEF I
  <2> QED
    BY <1>11, <2>2, <2>3, <2>4, <2>5
<1>13. s.nt0 \subseteq b[1] \ {a} /\ s.nt1 \subseteq b[1] \ {a} /\ b[1] \ b[1 - 1] \subseteq s.nt0
  <2>1. b[1 - 1] = {a}
    BY Zenon, <1>1, <1>5 DEF Around
  <2> QED
    BY Zenon, <1>3, <1>4, <1>6, <1>7, <2>1
<1> QED
  BY Zenon, <1>1, <1>2, <1>8, <1>9, <1>10, <1>11, <1>12, <1>13 DEF Reached

\* the balls b around a, with what the pass after radius k finds
Beyond(t, V, a, last, s, k, b) ==
  /\ Around(t, V, a, b) /\ b = Ball(t, V, a)
  /\ Found(t, a, last, s) = Grown(t, V, b[k]) \ b[k]

\* the nodes found in a pass are those one hop beyond the ball
LEMMA FoundIs ==
  ASSUME NEW t, NEW last, NEW V, Network(t, last, V), NEW a \in V, NEW s, NEW k \in 1 .. NODES_NUM,
         Reached(t, V, a, s, k)
  PROVE  \E b : Beyond(t, V, a, last, s, k, b)
<1>1. PICK b : Around(t, V, a, b) /\ b = Ball(t, V, a)
  BY Zenon, BallIs
<1>2. k \in Levels /\ k - 1 \in Levels /\ (k - 1) + 1 = k
  BY RoutingAssumption DEF Levels
<1>3. V \subseteq RtNodes /\ V = MASTER_ID .. (last - 1)
  BY Zenon, Members DEF Network
<1>4. b[k] \subseteq V /\ a \in b[k]
  BY Zenon, <1>2, <1>1, BallInside
<1>5. /\ s.nt0 \subseteq b[k] \ {a}
      /\ \A n \in RtNodes : s.rt[n] # {} <=> n \in b[k] \ {a}
      /\ Grown(t, V, b[k]) = b[k] \/ b[k] \ b[k - 1] \subseteq s.nt0
  BY Zenon, <1>1 DEF Reached
<1>6. ASSUME NEW n \in Found(t, a, last, s) PROVE n \in Grown(t, V, b[k]) /\ n \notin b[k]
  <2>1. n \in RtNodes \ {a} /\ s.rt[n] = {} /\ \E f \in s.nt0 : Adjacent(t, f, n)
    BY Zenon DEF Found
  <2>2. PICK f \in s.nt0 : Adjacent(t, f, n)
    BY Zenon, <2>1
  <2>3. f \in b[k] /\ f \in RtNodes
    BY Zenon, <1>3, <1>4, <1>5
  <2>4. n \in V
    BY Zenon, <2>1, <2>2, <2>3, Links
  <2> QED
    BY Zenon, <1>5, <2>1, <2>2, <2>3, <2>4 DEF Grown
<1>7. ASSUME NEW n \in Grown(t, V, b[k]), n \notin b[k] PROVE n \in Found(t, a, last, s)
  <2>1. PICK m \in b[k] : n \in V /\ Adjacent(t, m, n)
    BY Zenon, <1>7 DEF Grown
  <2>2. b[k] = Grown(t, V, b[k - 1])
    BY Zenon, <1>2, <1>1 DEF Around
  <2>3. m \notin b[k - 1]
    BY Zenon, <1>7, <2>1, <2>2 DEF Grown
  <2>4. m \in s.nt0
    BY Zenon, <1>5, <1>7, <2>1, <2>3
  <2>5. n \in RtNodes \ {a} /\ s.rt[n] = {} /\ m \in V
    BY Zenon, <1>3, <1>4, <1>5, <1>7, <2>1
  <2> QED
    BY Zenon, <1>3, <2>1, <2>4, <2>5 DEF Found
<1>8. Found(t, a, last, s) = Grown(t, V, b[k]) \ b[k]
  BY Zenon, <1>6, <1>7
<1> QED
  BY Zenon, <1>1, <1>8 DEF Beyond

\* a set of nodes has a least one
LEMMA LeastOf ==
  ASSUME NEW S, S \subseteq Nat, S # {}
  PROVE  \E f \in S : \A g \in S : f <= g
<1>1. PICK f \in S : \A g \in S : ~ (<<g, f>> \in OpToRel(<, Nat))
  BY Zenon, NatLessThanWellFounded, WFMin
<1>2. ASSUME NEW g \in S PROVE f <= g
  <2>1. f \in Nat /\ g \in Nat /\ ~ (g < f)
    BY Zenon, <1>1 DEF OpToRel
  <2> QED
    BY ONLY <2>1
<1> QED
  BY Zenon, <1>2

\* a node that is found is behind a node of neighbour table 0
LEMMA ViaIs ==
  ASSUME NEW t, NEW a, NEW last, NEW s, NEW n \in Found(t, a, last, s)
  PROVE  /\ Via(t, last, s, n) \in s.nt0 \cap (MASTER_ID .. (last - 1))
         /\ Adjacent(t, Via(t, last, s, n), n)
<1> DEFINE T == s.nt0 \cap (MASTER_ID .. (last - 1))
           S == {f \in T : Adjacent(t, f, n)}
<1>1. S # {}
  BY Zenon DEF Found
<1>2. S \subseteq Nat
  BY RoutingAssumption
<1>3. PICK f \in S : \A g \in S : f <= g
  BY Zenon, <1>1, <1>2, LeastOf
<1>4. \E h \in T : Adjacent(t, h, n) /\ \A g \in T : Adjacent(t, g, n) => h <= g
  BY Zenon, <1>3
<1> QED
  BY Zenon, <1>4 DEF Via

\* a node found at radius k + 1 gets the interfaces of a node at radius k
LEMMA FoundNearer ==
  ASSUME NEW t, NEW V, NEW a, NEW f, NEW n, NEW i, Nearer(t, V, a, f, i), Adjacent(t, f, n),
         NEW b, Around(t, V, a, b), b = Ball(t, V, a), NEW k \in 1 .. NODES_NUM,
         k + 1 \in 1 .. NODES_NUM, f \in b[k], n \in V, n \in b[k + 1], n \notin b[k]
  PROVE  Nearer(t, V, a, n, i)
<1>1. PICK m, c : m = t[<<a, i>>] /\ Around(t, V, m, c) /\ c = Ball(t, V, m)
  BY Zenon, BallIs
<1>2. PICK r \in 1 .. NODES_NUM : f \in b[r] /\ f \notin b[r - 1] /\ f \in c[r - 1]
  BY Zenon, <1>1 DEF Nearer
<1>3. /\ k \in Levels /\ k - 1 \in Levels /\ (k - 1) + 1 = k
      /\ r \in Levels /\ r - 1 \in Levels /\ (k + 1) - 1 = k
      /\ r <= k - 1 \/ k <= r - 1 \/ r = k
  BY ONLY RoutingAssumption, k \in 1 .. NODES_NUM, r \in 1 .. NODES_NUM DEF Levels
<1>4. f \notin b[k - 1]
  <2>1. b[k] = Grown(t, V, b[k - 1])
    BY Zenon, <1>3 DEF Around
  <2> QED
    BY Zenon, <2>1 DEF Grown
<1>5. ~ (r <= k - 1)
  BY Zenon, <1>2, <1>3, <1>4, BallGrows
<1>6. ~ (k <= r - 1)
  BY Zenon, <1>2, <1>3, BallGrows
<1>7. r = k
  BY Zenon, <1>3, <1>5, <1>6
<1>8. n \in c[(k + 1) - 1]
  <2>1. f \in c[k - 1]
    BY Zenon, <1>2, <1>7
  <2>2. c[k] = Grown(t, V, c[k - 1])
    BY Zenon, <1>1, <1>3 DEF Around
  <2> QED
    BY Zenon, <1>3, <2>1, <2>2 DEF Grown
<1>9. n \in b[k + 1] /\ n \notin b[(k + 1) - 1]
  BY Zenon, <1>3
<1>10. i \in RtIfs /\ m \in V
  BY Zenon, <1>1 DEF Nearer
<1> QED
  BY Zenon, <1>1, <1>8, <1>9, <1>10 DEF Nearer

\* a pass of the do ... while loop that finds nothing
LEMMA NothingFound ==
  ASSUME NEW t, NEW last, NEW V, Network(t, last, V), NEW a \in V, NEW s, NEW k \in 1 .. NODES_NUM,
         Reached(t, V, a, s, k), Found(t, a, last, s) = {}
  PROVE  Reached(t, V, a, NextLevel(t, a, last, s), k)
<1>1. PICK b : Beyond(t, V, a, last, s, k, b)
  BY Zenon, FoundIs
<1>2. /\ Around(t, V, a, b) /\ b = Ball(t, V, a)
      /\ Found(t, a, last, s) = Grown(t, V, b[k]) \ b[k]
  BY Zenon, <1>1 DEF Beyond
<1>3. PICK z : z = NextLevel(t, a, last, s)
  OBVIOUS
<1>4. /\ z.rt = [n \in RtNodes |-> s.rt[n]] /\ z.nt0 = s.nt1 /\ z.nt1 = s.nt1
      /\ z.counter = Byte(s.counter + Cardinality({}))
  BY <1>3 DEF NextLevel
<1>5. s.counter \in Nat /\ s.counter + Cardinality({}) = s.counter
  <2>1. s.counter \in Nat /\ Cardinality({}) = 0
    BY Zenon, FS_EmptySet DEF Reached
  <2> QED
    BY ONLY <2>1
<1>6. z.counter \in Nat /\ z.counter <= s.counter
  BY Zenon, <1>4, <1>5, ByteLeast
<1>7. Grown(t, V, b[k]) = b[k]
  <2>1. Grown(t, V, b[k]) \ b[k] = {}
    BY Zenon, <1>2
  <2> QED
    BY Zenon, <2>1 DEF Grown
<1>8. z.rt = s.rt
  BY Zenon, <1>4 DEF Reached
<1>9. Single(t, V) => z.counter < Cardinality(b[k])
  <2>1. IsFiniteSet(b[k])
    <3>1. k \in Levels
      BY DEF Levels
    <3>2. b[k] \subseteq V
      BY Zenon, <1>2, <3>1, BallInside
    <3> QED
      BY Zenon, <3>2, Members, FS_Subset
  <2>2. Cardinality(b[k]) \in Nat
    BY Zenon, <2>1, FS_CardinalityType
  <2>3. Single(t, V) => s.counter < Cardinality(b[k])
    BY Zenon, <1>2 DEF Reached
  <2> QED
    BY ONLY <1>5, <1>6, <2>2, <2>3
<1> QED
  BY Zenon, <1>2, <1>3, <1>4, <1>6, <1>7, <1>8, <1>9 DEF Reached

\* a pass that finds nodes extends the ball by a hop
LEMMA SomethingFound ==
  ASSUME NEW t, NEW last, NEW V, Network(t, last, V), NEW a \in V, NEW s, NEW k \in 1 .. NODES_NUM,
         Reached(t, V, a, s, k), Found(t, a, last, s) # {}
  PROVE  k + 1 \in 1 .. NODES_NUM /\ Reached(t, V, a, NextLevel(t, a, last, s), k + 1)
<1>1. PICK b : Beyond(t, V, a, last, s, k, b)
  BY Zenon, FoundIs
<1>2. /\ Around(t, V, a, b) /\ b = Ball(t, V, a)
      /\ Found(t, a, last, s) = Grown(t, V, b[k]) \ b[k]
  BY Zenon, <1>1 DEF Beyond
<1>3. PICK new : new = Found(t, a, last, s)
  OBVIOUS
<1>4. PICK z : z = NextLevel(t, a, last, s)
  OBVIOUS
<1>5. /\ z.rt = [n \in RtNodes |-> IF n \in new THEN s.rt[Via(t, last, s, n)] ELSE s.rt[n]]
      /\ z.nt0 = s.nt1 \cup new /\ z.nt1 = s.nt1 \cup new
      /\ z.counter = Byte(s.counter + Cardinality(new))
  BY <1>3, <1>4 DEF NextLevel
<1>6. new = Grown(t, V, b[k]) \ b[k] /\ new # {}
  BY Zenon, <1>2, <1>3
<1>7. k \in Levels /\ k \in Nat /\ NODES_NUM \in Nat
  BY RoutingAssumption DEF Levels
<1>8. b[k] \subseteq V /\ a \in b[k] /\ V \subseteq RtNodes /\ IsFiniteSet(V) /\ Cardinality(V) <= NODES_NUM
  <2>1. b[k] \subseteq V /\ a \in b[k]
    BY Zenon, <1>2, <1>7, BallInside
  <2> QED
    BY Zenon, <2>1, Members
<1>9. new \subseteq V /\ Grown(t, V, b[k]) = b[k] \cup new /\ Grown(t, V, b[k]) \subseteq V
  BY Zenon, <1>6, <1>8 DEF Grown
<1>10. /\ Cardinality(Grown(t, V, b[k])) = Cardinality(b[k]) + Cardinality(new)
       /\ Cardinality(Grown(t, V, b[k])) <= Cardinality(V)
       /\ Cardinality(b[k]) \in Nat /\ Cardinality(new) \in Nat /\ Cardinality(new) # 0
       /\ Cardinality(V) \in Nat
  <2>1. IsFiniteSet(new) /\ IsFiniteSet(b[k]) /\ Cardinality(Grown(t, V, b[k])) <= Cardinality(V)
    BY Zenon, <1>8, <1>9, FS_Subset
  <2>2. /\ Cardinality(b[k]) \in Nat /\ Cardinality(new) \in Nat /\ Cardinality(new) # 0
        /\ Cardinality(V) \in Nat
    BY Zenon, <1>6, <1>8, <2>1, FS_CardinalityType, FS_EmptySet
  <2>3. b[k] \cap new = {}
    BY Zenon, <1>6
  <2>4. Cardinality(b[k] \cup new) = Cardinality(b[k]) + Cardinality(new) - Cardinality(b[k] \cap new)
    BY Zenon, <2>1, FS_Union
  <2>5. Cardinality(b[k] \cap new) = 0
    BY Zenon, <2>3, FS_EmptySet
  <2>6. Cardinality(b[k] \cup new) = Cardinality(b[k]) + Cardinality(new)
    BY ONLY <2>2, <2>4, <2>5
  <2> QED
    BY Zenon, <1>9, <2>1, <2>2, <2>6
<1>11. /\ k + 1 \in 1 .. NODES_NUM /\ k + 1 \in Levels /\ (k + 1) - 1 = k
       /\ Cardinality(b[k]) + Cardinality(new) >= k + 1
  <2>1. Cardinality(b[k]) >= k
    BY Zenon, <1>2 DEF Reached
  <2> QED
    BY ONLY <1>7, <1>8, <1>10, <2>1 DEF Levels
<1>12. b[k + 1] = Grown(t, V, b[k])
  BY Zenon, <1>2, <1>7, <1>11 DEF Around
<1>13. b[k + 1] = b[k] \cup new /\ new \cap b[k] = {} /\ a \notin new
  BY Zenon, <1>6, <1>8, <1>9, <1>12
<1>14. /\ s.rt \in [RtNodes -> SUBSET RtIfs] /\ s.nt0 \subseteq b[k] \ {a} /\ s.nt1 \subseteq b[k] \ {a}
       /\ \A n \in RtNodes : s.rt[n] # {} <=> n \in b[k] \ {a}
       /\ \A n \in V \ {a} : \A i \in s.rt[n] : Nearer(t, V, a, n, i)
       /\ s.counter \in Nat /\ (Single(t, V) => s.counter < Cardinality(b[k]))
  BY Zenon, <1>2 DEF Reached
<1>15. ASSUME NEW n \in new
       PROVE  \E f \in b[k] \ {a} : Adjacent(t, f, n) /\ z.rt[n] = s.rt[f]
  <2>1. PICK f : f = Via(t, last, s, n)
    OBVIOUS
  <2>2. f \in s.nt0 /\ Adjacent(t, f, n)
    BY Zenon, <1>3, <2>1, ViaIs
  <2>3. z.rt[n] = s.rt[f]
    BY Zenon, <1>5, <1>8, <1>9, <2>1
  <2> QED
    BY Zenon, <1>14, <2>2, <2>3
<1>16. \A n \in RtNodes : n \notin new => z.rt[n] = s.rt[n]
  BY Zenon, <1>5
<1>17. ASSUME NEW n \in RtNodes
       PROVE  z.rt[n] \subseteq RtIfs /\ (z.rt[n] # {} <=> n \in b[k + 1] \ {a})
  <2>1. CASE n \in new
    <3>1. PICK f \in b[k] \ {a} : z.rt[n] = s.rt[f]
      BY Zenon, <1>15, <2>1
    <3>2. f \in RtNodes
      BY Zenon, <1>8
    <3>3. s.rt[f] # {} /\ s.rt[f] \subseteq RtIfs
      BY Zenon, <1>14, <3>2
    <3> QED
      BY Zenon, <1>13, <2>1, <3>1, <3>3
  <2>2. CASE n \notin new
    <3>1. z.rt[n] = s.rt[n] /\ s.rt[n] \subseteq RtIfs
      BY Zenon, <1>14, <1>16, <2>2
    <3> QED
      BY Zenon, <1>13, <1>14, <2>2, <3>1
  <2> QED
    BY Zenon, <2>1, <2>2
<1>18. z.rt \in [RtNodes -> SUBSET RtIfs]
  BY Zenon, <1>5, <1>17
<1>19. ASSUME NEW n \in V \ {a}, NEW i \in z.rt[n] PROVE Nearer(t, V, a, n, i)
  <2>1. CASE n \in new
    <3>1. PICK f \in b[k] \ {a} : Adjacent(t, f, n) /\ i \in s.rt[f]
      BY Zenon, <1>15, <2>1
    <3>2. Nearer(t, V, a, f, i)
      BY Zenon, <1>8, <1>14, <3>1
    <3>3. f \in b[k] /\ n \in b[k + 1] /\ n \notin b[k]
      BY Zenon, <1>13, <2>1
    <3> QED
      BY Zenon, <1>2, <1>11, <3>1, <3>2, <3>3, FoundNearer
  <2>2. CASE n \notin new
    BY Zenon, <1>8, <1>14, <1>16, <2>2
  <2> QED
    BY Zenon, <2>1, <2>2
<1>20. z.counter \in Nat /\ (Single(t, V) => z.counter < Cardinality(b[k + 1]))
  <2>1. s.counter + Cardinality(new) \in Nat
    BY ONLY <1>10, <1>14
  <2>2. z.counter \in Nat /\ z.counter <= s.counter + Cardinality(new)
    BY Zenon, <1>5, <2>1, ByteLeast
  <2>3. Cardinality(b[k + 1]) = Cardinality(b[k]) + Cardinality(new)
    BY Zenon, <1>10, <1>12
  <2> QED
    BY ONLY <1>10, <1>14, <2>2, <2>3
<1>21. Cardinality(b[k + 1]) >= k + 1
  BY Zenon, <1>10, <1>11, <1>12
<1>22. /\ z.nt0 \subseteq b[k + 1] \ {a} /\ z.nt1 \subseteq b[k + 1] \ {a}
       /\ b[k + 1] \ b[(k + 1) - 1] \subseteq z.nt0
  BY Zenon, <1>5, <1>11, <1>13, <1>14
<1> QED
  BY Zenon, <1>2, <1>4, <1>11, <1>17, <1>18, <1>19, <1>20, <1>21, <1>22 DEF Reached

\* the loop of a node ends only when every node has a route, as long as no two
\* cables go to the same one
LEMMA AllFound ==
  ASSUME NEW t, NEW last, NEW V, Network(t, last, V), NEW a \in V, NEW s, NEW k \in 1 .. NODES_NUM,
         Reached(t, V, a, s, k), ~ MoreLevels(last, s), Single(t, V), NEW n \in V \ {a}
  PROVE  s.rt[n] # {}
<1>1. PICK b : Around(t, V, a, b) /\ b = Ball(t, V, a)
  BY Zenon, BallIs
<1>2. /\ V \subseteq RtNodes /\ IsFiniteSet(V) /\ Cardinality(V) = last - MASTER_ID
      /\ last \in Int /\ MASTER_ID \in Int
  <2>1. last \in (MASTER_ID + 1) .. NODES_NUM
    BY Zenon DEF Network, IsNetwork
  <2>2. last \in Int /\ MASTER_ID \in Int
    BY <2>1, RoutingAssumption
  <2> QED
    BY Zenon, <2>2, Members
<1>3. b[k] \in SUBSET V
  <2>1. k \in Levels
    BY DEF Levels
  <2>2. b[k] \subseteq V
    BY Zenon, <1>1, <2>1, BallInside
  <2> QED
    BY Zenon, <2>2
<1>4. /\ Cardinality(b[k]) \in Nat /\ Cardinality(b[k]) <= Cardinality(V)
      /\ Cardinality(V) = Cardinality(b[k]) => V = b[k]
  BY Zenon, <1>2, <1>3, FS_Subset, FS_CardinalityType
<1>5. /\ s.counter \in Nat /\ s.counter < Cardinality(b[k])
      /\ \A m \in RtNodes : s.rt[m] # {} <=> m \in b[k] \ {a}
  BY Zenon, <1>1 DEF Reached
<1>6. ~ (s.counter < last - MASTER_ID - 1)
  BY Zenon DEF MoreLevels
<1>7. Cardinality(V) = Cardinality(b[k])
  BY ONLY <1>2, <1>4, <1>5, <1>6
<1> QED
  BY Zenon, <1>2, <1>4, <1>5, <1>7

-----------------------------------------------------------------------------
(* The computation *)

\* every interface in the tables R leads one hop nearer
Right(t, V, R) == \A a \in V : \A n \in V \ {a} : \A i \in R[a][n] : Nearer(t, V, a, n, i)

\* the tables R of the nodes before act have a route to every other node
FullUpTo(V, act, R) ==
  \A a \in MASTER_ID .. (act - 1) : \A n \in V \ {a} : R[a][n] # {}

RoutesInv ==
  /\ Network(topology, last_node, Net)
  /\ actual_node_id \in MASTER_ID .. last_node /\ pc \in {"node", "level", "done"}
  /\ pc = "level" => actual_node_id \in Net
  /\ pc = "level" => \E k \in 1 .. NODES_NUM : Reached(topology, Net, actual_node_id, search, k)
  /\ routing_tables \in [RtNodes -> [RtNodes -> SUBSET RtIfs]]
  /\ Right(topology, Net, routing_tables)
  /\ Single(topology, Net) => FullUpTo(Net, actual_node_id, routing_tables)

\* the tables are empty at the start
LEMMA RoutesInit == Init => RoutesInv
<1> SUFFICES ASSUME Init PROVE RoutesInv
  OBVIOUS
<1>1. Network(topology, last_node, Net)
  BY Zenon, RoutingAssumption DEF Init, Network, Net
<1>2. last_node \in (MASTER_ID + 1) .. NODES_NUM
  BY Zenon, <1>1 DEF Network, IsNetwork
<1>3. /\ actual_node_id = MASTER_ID /\ pc = "node"
      /\ routing_tables = [a \in RtNodes |-> [n \in RtNodes |-> {}]]
  BY Zenon DEF Init
<1>4. actual_node_id \in MASTER_ID .. last_node /\ MASTER_ID .. (actual_node_id - 1) = {}
  BY <1>2, <1>3, RoutingAssumption
<1>5. Net \subseteq RtNodes
  BY Zenon, <1>1, Members
<1>6. Right(topology, Net, routing_tables)
  BY Zenon, <1>3, <1>5 DEF Right
<1>7. routing_tables \in [RtNodes -> [RtNodes -> SUBSET RtIfs]]
  BY Zenon, <1>3
<1>8. FullUpTo(Net, actual_node_id, routing_tables)
  BY Zenon, <1>4 DEF FullUpTo
<1> QED
  BY Zenon, <1>1, <1>3, <1>4, <1>6, <1>7, <1>8 DEF RoutesInv

\* a new row that is right, put into tables that are right, leaves them right
LEMMA RowRight ==
  ASSUME NEW t, NEW V, NEW a \in RtNodes, NEW R \in [RtNodes -> [RtNodes -> SUBSET RtIfs]],
         Right(t, V, R), NEW s, NEW k, Reached(t, V, a, s, k)
  PROVE  /\ [R EXCEPT ![a] = s.rt] \in [RtNodes -> [RtNodes -> SUBSET RtIfs]]
         /\ V \subseteq RtNodes => Right(t, V, [R EXCEPT ![a] = s.rt])
<1>1. PICK Q : Q = [R EXCEPT ![a] = s.rt]
  BY Zenon
<1>2. /\ s.rt \in [RtNodes -> SUBSET RtIfs]
      /\ \A n \in V \ {a} : \A i \in s.rt[n] : Nearer(t, V, a, n, i)
  BY Zenon DEF Reached
<1>3. /\ Q \in [RtNodes -> [RtNodes -> SUBSET RtIfs]]
      /\ Q[a] = s.rt /\ \A m \in RtNodes \ {a} : Q[m] = R[m]
  BY ONLY <1>1, <1>2, a \in RtNodes, R \in [RtNodes -> [RtNodes -> SUBSET RtIfs]]
<1>4. ASSUME V \subseteq RtNodes, NEW m \in V, NEW n \in V \ {m}, NEW i \in Q[m][n]
      PROVE  Nearer(t, V, m, n, i)
  <2>1. CASE m = a
    BY Zenon, <1>2, <1>3, <1>4, <2>1
  <2>2. CASE m # a
    BY Zenon, <1>3, <1>4, <2>2 DEF Right
  <2> QED
    BY Zenon, <2>1, <2>2
<1> QED
  BY Zenon, <1>1, <1>3, <1>4 DEF Right

\* StartNode keeps the invariant
LEMMA StartNodeKeeps ==
  ASSUME RoutesInv, StartNode
  PROVE  RoutesInv'
<1>1. PICK t, last, V, a, s, R :
        /\ t = topology /\ last = last_node /\ V = Net /\ a = actual_node_id /\ R = routing_tables
        /\ s = FirstLevel(topology, actual_node_id)
  OBVIOUS
<1>2. /\ topology' = t /\ last_node' = last /\ Net' = V /\ actual_node_id' = a
      /\ search' = s /\ routing_tables' = [R EXCEPT ![a] = s.rt]
      /\ pc' = "level" /\ a < last
  BY Zenon, <1>1 DEF StartNode, Net
<1>3. /\ Network(t, last, V) /\ a \in MASTER_ID .. last
      /\ R \in [RtNodes -> [RtNodes -> SUBSET RtIfs]]
      /\ Right(t, V, R) /\ (Single(t, V) => FullUpTo(V, a, R))
  BY Zenon, <1>1 DEF RoutesInv
<1>4. V \subseteq RtNodes
  BY Zenon, <1>3, Members
<1>5. a \in V
  <2>1. V = MASTER_ID .. (last - 1) /\ last \in (MASTER_ID + 1) .. NODES_NUM
    BY Zenon, <1>3 DEF Network, IsNetwork
  <2> QED
    BY ONLY <2>1, <1>2, <1>3, RoutingAssumption
<1>6. Reached(t, V, a, s, 1)
  <2>1. Reached(t, V, a, FirstLevel(t, a), 1)
    BY Zenon, <1>3, <1>5, FirstReached
  <2> QED
    BY Zenon, <1>1, <2>1
<1>7. 1 \in 1 .. NODES_NUM
  BY RoutingAssumption
<1>8. PICK Q : Q = routing_tables'
  OBVIOUS
<1>9. Q \in [RtNodes -> [RtNodes -> SUBSET RtIfs]] /\ Right(t, V, Q)
  BY Zenon, <1>2, <1>3, <1>4, <1>5, <1>6, <1>8, RowRight
<1>10. ASSUME FullUpTo(V, a, R) PROVE FullUpTo(V, a, Q)
  <2>1. ASSUME NEW m \in MASTER_ID .. (a - 1) PROVE Q[m] = R[m]
    <3>1. a \in Int /\ m # a
      BY <1>3, RoutingAssumption
    <3> QED
      BY ONLY <1>2, <1>3, <1>8, <3>1
  <2> QED
    BY Zenon, <1>10, <2>1 DEF FullUpTo
<1> QED
  BY Zenon, <1>2, <1>3, <1>5, <1>6, <1>7, <1>8, <1>9, <1>10 DEF RoutesInv

\* a pass of the loop, with or without new nodes, reaches a ball again
LEMMA PassReaches ==
  ASSUME NEW t, NEW last, NEW V, Network(t, last, V), NEW a \in V, NEW s,
         \E k \in 1 .. NODES_NUM : Reached(t, V, a, s, k)
  PROVE  \E k \in 1 .. NODES_NUM : Reached(t, V, a, NextLevel(t, a, last, s), k)
<1>1. PICK k \in 1 .. NODES_NUM : Reached(t, V, a, s, k)
  BY Zenon
<1>2. CASE Found(t, a, last, s) = {}
  BY Zenon, <1>1, <1>2, NothingFound
<1>3. CASE Found(t, a, last, s) # {}
  BY Zenon, <1>1, <1>3, SomethingFound
<1> QED
  BY Zenon, <1>2, <1>3

\* Level keeps the invariant
LEMMA LevelKeeps ==
  ASSUME RoutesInv, Level
  PROVE  RoutesInv'
<1>1. PICK t, last, V, a, s, R :
        /\ t = topology /\ last = last_node /\ V = Net /\ a = actual_node_id /\ R = routing_tables
        /\ s = NextLevel(topology, actual_node_id, last_node, search)
  BY Zenon
<1>2. /\ topology' = t /\ last_node' = last /\ Net' = V
      /\ search' = s /\ routing_tables' = [R EXCEPT ![a] = s.rt]
      /\ MoreLevels(last, s) => actual_node_id' = a /\ pc' = "level"
      /\ ~ MoreLevels(last, s) => actual_node_id' = a + 1 /\ pc' = "node"
  BY Zenon, <1>1 DEF Level, Net
<1>3. /\ Network(t, last, V) /\ a \in V
      /\ R \in [RtNodes -> [RtNodes -> SUBSET RtIfs]]
      /\ Right(t, V, R) /\ (Single(t, V) => FullUpTo(V, a, R))
  BY Zenon, <1>1 DEF RoutesInv, Level
<1>4. V \subseteq RtNodes
  BY Zenon, <1>3, Members
<1>5. PICK k \in 1 .. NODES_NUM : Reached(t, V, a, s, k)
  <2>1. \E j \in 1 .. NODES_NUM : Reached(t, V, a, search, j)
    BY Zenon, <1>1 DEF RoutesInv, Level
  <2>2. \E j \in 1 .. NODES_NUM : Reached(t, V, a, NextLevel(t, a, last, search), j)
    BY Zenon, <1>3, <2>1, PassReaches
  <2> QED
    BY Zenon, <1>1, <2>2
<1>6. a \in Int /\ a \in MASTER_ID .. last /\ a + 1 \in MASTER_ID .. last
  <2>1. V = MASTER_ID .. (last - 1) /\ last \in (MASTER_ID + 1) .. NODES_NUM
    BY Zenon, <1>3 DEF Network, IsNetwork
  <2> QED
    BY ONLY <2>1, <1>3, RoutingAssumption
<1>7. PICK Q : Q = routing_tables'
  BY Zenon
<1>8. Q \in [RtNodes -> [RtNodes -> SUBSET RtIfs]] /\ Right(t, V, Q)
  BY Zenon, <1>2, <1>3, <1>4, <1>5, <1>7, RowRight
<1>9. Q[a] = s.rt /\ \A m \in MASTER_ID .. (a - 1) : Q[m] = R[m]
  <2>1. a \in RtNodes
    BY Zenon, <1>3, <1>4
  <2>2. ASSUME NEW m \in MASTER_ID .. (a - 1) PROVE m # a
    BY <1>6, RoutingAssumption
  <2>3. ASSUME NEW m \in MASTER_ID .. (a - 1) PROVE Q[m] = R[m]
    BY ONLY <1>2, <1>3, <1>7, <2>2, <2>3
  <2>4. Q[a] = s.rt
    BY ONLY <1>2, <1>3, <1>7, <2>1
  <2> QED
    BY Zenon, <2>3, <2>4
<1>10. ASSUME Single(t, V) PROVE FullUpTo(V, a, Q)
  BY Zenon, <1>3, <1>9, <1>10 DEF FullUpTo
<1>11. CASE MoreLevels(last, s)
  BY Zenon, <1>2, <1>3, <1>5, <1>6, <1>7, <1>8, <1>10, <1>11 DEF RoutesInv
<1>12. CASE ~ MoreLevels(last, s)
  <2>1. ASSUME Single(t, V), NEW n \in V \ {a} PROVE Q[a][n] # {}
    <3>1. s.rt[n] # {}
      BY Zenon, <1>3, <1>5, <1>12, <2>1, AllFound
    <3> QED
      BY Zenon, <1>9, <3>1
  <2>2. ASSUME NEW m \in MASTER_ID .. ((a + 1) - 1) PROVE m = a \/ m \in MASTER_ID .. (a - 1)
    BY <1>6, RoutingAssumption
  <2>3. ASSUME Single(t, V) PROVE FullUpTo(V, a + 1, Q)
    BY Zenon, <1>10, <2>1, <2>2, <2>3 DEF FullUpTo
  <2>4. pc' = "node" /\ pc' # "level"
    BY <1>2, <1>12
  <2> QED
    BY Zenon, <1>2, <1>3, <1>6, <1>7, <1>8, <1>12, <2>3, <2>4 DEF RoutesInv
<1> QED
  BY Zenon, <1>11, <1>12

\* every step keeps the invariant
LEMMA RoutesStep == RoutesInv /\ [Next]_vars => RoutesInv'
<1> SUFFICES ASSUME RoutesInv, [Next]_vars PROVE RoutesInv'
  OBVIOUS
<1>1. CASE StartNode
  BY Zenon, <1>1, StartNodeKeeps
<1>2. CASE Level
  BY Zenon, <1>2, LevelKeeps
<1>3. CASE Finish
  <2>1. /\ topology' = topology /\ last_node' = last_node /\ Net' = Net
        /\ actual_node_id' = actual_node_id /\ routing_tables' = routing_tables
        /\ pc' = "done"
    BY Zenon, <1>3 DEF Finish, Net
  <2>2. pc' # "level"
    BY <2>1
  <2> QED
    BY Zenon, <2>1, <2>2 DEF RoutesInv
<1>4. CASE UNCHANGED vars
  BY Zenon, <1>4 DEF RoutesInv, vars, Net
<1> QED
  BY Zenon, <1>1, <1>2, <1>3, <1>4 DEF Next

-----------------------------------------------------------------------------
(* Theorems *)

\* the invariant holds throughout
LEMMA RoutesInductive == Spec => []RoutesInv
<1> QED
  BY RoutesInit, RoutesStep, PTL DEF Spec

\* In every network, whatever its size, its cables and the number of interfaces,
\* every interface that axiom_compute_routing_tables has put into a table leads
\* one hop nearer to its destination.
THEOREM RoutesShortenHolds == Spec => []RoutesShorten
<1>1. ASSUME RoutesInv PROVE RoutesShorten
  <2>1. Network(topology, last_node, Net) /\ Right(topology, Net, routing_tables)
    BY Zenon, <1>1 DEF RoutesInv
  <2>2. ASSUME NEW a \in Net, NEW n \in Net \ {a}, NEW i \in routing_tables[a][n]
        PROVE  /\ topology[<<a, i>>] # NoNode
               /\ Distance(topology, Net, topology[<<a, i>>], n)
                    = Distance(topology, Net, a, n) - 1
    <3>1. Nearer(topology, Net, a, n, i)
      BY Zenon, <2>1, <2>2 DEF Right
    <3>2. topology[<<a, i>>] \in RtNodes
      BY Zenon, <2>1, <3>1, Members DEF Nearer
    <3>3. NoNode \notin RtNodes
      BY RoutingAssumption DEF NoNode, RtNodes
    <3> QED
      BY Zenon, <3>1, <3>2, <3>3, NearerShortens
  <2> QED
    BY Zenon, <2>2 DEF RoutesShorten
<1> QED
  BY <1>1, RoutesInductive, PTL

\* Where no two nodes are joined by more than one cable, the loop of
\* axiom_compute_routing_tables ends for a node only when its table has a route
\* to every other node.
THEOREM TablesCompleteHolds == Spec => []TablesComplete
<1>1. ASSUME RoutesInv PROVE TablesComplete
  BY Zenon, <1>1 DEF RoutesInv, TablesComplete, NoParallelLinks, Single, FullUpTo
<1> QED
  BY <1>1, RoutesInductive, PTL

\* Between two passes of the loop the nodes that have a route are those within
\* some number of hops: the search goes level by level, even with the two
\* vectors that each pass swaps.
THEOREM LevelByLevelHolds == Spec => []LevelByLevel
<1>1. ASSUME RoutesInv PROVE LevelByLevel
  <2>1. ASSUME pc = "level"
        PROVE  \E k \in 1 .. NODES_NUM :
                 {n \in Net : search.rt[n] # {}}
                   = Ball(topology, Net, actual_node_id)[k] \ {actual_node_id}
    <3>1. /\ Network(topology, last_node, Net) /\ actual_node_id \in Net
          /\ \E k \in 1 .. NODES_NUM : Reached(topology, Net, actual_node_id, search, k)
      BY Zenon, <1>1, <2>1 DEF RoutesInv
    <3>2. PICK k \in 1 .. NODES_NUM : Reached(topology, Net, actual_node_id, search, k)
      BY Zenon, <3>1
    <3>3. PICK b : Around(topology, Net, actual_node_id, b)
                   /\ b = Ball(topology, Net, actual_node_id)
      BY Zenon, <3>1, BallIs
    <3>4. k \in Levels
      BY DEF Levels
    <3>5. b[k] \subseteq Net /\ Net \subseteq RtNodes
      BY Zenon, <3>1, <3>3, <3>4, BallInside, Members
    <3>6. \A n \in RtNodes : search.rt[n] # {} <=> n \in b[k] \ {actual_node_id}
      BY Zenon, <3>2, <3>3 DEF Reached
    <3>7. {n \in Net : search.rt[n] # {}} = b[k] \ {actual_node_id}
      BY Zenon, <3>5, <3>6
    <3> QED
      BY Zenon, <3>3, <3>7
  <2> QED
    BY Zenon, <2>1 DEF LevelByLevel
<1> QED
  BY <1>1, RoutesInductive, PTL
=============================================================================
