----------------------- MODULE SplitReplicas_proofs -----------------------
(***************************************************************************)
(* Proofs about SplitReplicas, for any policy and any number of replicas.  *)
(* They are by induction along the serving order: FromTo is induction over *)
(* an interval, stated with a set where one would use a predicate.         *)
(***************************************************************************)
EXTENDS MCSplitReplicas, FiniteSetTheorems, TLAPS

-----------------------------------------------------------------------------
(* Induction and recursion.                                                *)

(* A set of natural numbers that is not empty has a least one.             *)
LEMMA LeastNatural ==
    ASSUME NEW T \in SUBSET Nat, T # {}
    PROVE  \E x \in T : \A y \in T : x <= y
<1> DEFINE R == OpToRel(<, Nat)
<1>1. IsWellFoundedOn(R, Nat)
  BY NatLessThanWellFounded
<1>2. R = {ss \in Nat \X Nat : ss[1] < ss[2]}
  BY DEF OpToRel
<1> HIDE DEF R
<1>3. \E x \in T : \A y \in T : ~ (<<y, x>> \in R)
  BY <1>1, WFMin
<1>4. PICK x \in T : \A y \in T : <<y, x>> \notin R
  BY <1>3
<1>5. ASSUME NEW y \in T PROVE x <= y
  <2>1. <<y, x>> \notin {ss \in Nat \X Nat : ss[1] < ss[2]}
    BY <1>2, <1>4, <1>5
  <2>2. QED BY <2>1, <1>5
<1>6. QED BY <1>4, <1>5

(* Induction from a to b.                                                  *)
LEMMA FromTo ==
    ASSUME NEW a \in Nat, NEW b \in Nat, NEW T, a \in T,
           \A i \in a .. b - 1 : i \in T => i + 1 \in T
    PROVE  \A i \in a .. b : i \in T
<1> SUFFICES ASSUME NEW z \in a .. b, z \notin T PROVE FALSE
  OBVIOUS
<1> DEFINE S == {i \in a .. b : i \notin T}
<1>1. S \in SUBSET Nat /\ S # {}
  OBVIOUS
<1> HIDE DEF S
<1>2. PICK x \in S : \A y \in S : x <= y
  BY <1>1, LeastNatural
<1>3. x \in a .. b /\ x \notin T /\ x # a
  BY <1>2 DEF S
<1>4. x - 1 \in a .. b - 1 /\ x - 1 \notin S
  BY <1>2, <1>3
<1>5. x - 1 \in T
  BY <1>4 DEF S
<1>6. (x - 1) + 1 \in T /\ (x - 1) + 1 = x
  BY <1>3, <1>4, <1>5
<1>7. QED BY <1>3, <1>6

IsRecursion(f, N, S, c, step) ==
    /\ f \in [0 .. N -> S] /\ f[0] = c
    /\ \A i \in 1 .. N : f[i] = step[<<i, f[i - 1]>>]

(* What is defined by recursion over an interval exists.                   *)
LEMMA Recursion ==
    ASSUME NEW N \in Nat, NEW S, NEW c \in S, NEW step \in [(1 .. N) \X S -> S]
    PROVE  \E f : IsRecursion(f, N, S, c, step)
<1> DEFINE Upto(n, f) == /\ f \in [0 .. n -> S] /\ f[0] = c
                         /\ \A i \in 1 .. n : f[i] = step[<<i, f[i - 1]>>]
           T == {n \in 0 .. N : \E f : Upto(n, f)}
<1>1. 0 \in T
  <2>1. Upto(0, [i \in 0 .. 0 |-> c])
    OBVIOUS
  <2> HIDE DEF Upto
  <2>2. QED BY <2>1
<1>2. ASSUME NEW n \in 0 .. N - 1, n \in T PROVE n + 1 \in T
  <2>1. PICK f : Upto(n, f)
    BY <1>2
  <2> DEFINE v == step[<<n + 1, f[n]>>]
             g == [i \in 0 .. n + 1 |-> IF i = n + 1 THEN v ELSE f[i]]
  <2>2. v \in S
    <3>1. f[n] \in S /\ n + 1 \in 1 .. N
      BY <2>1
    <3>2. QED BY <3>1
  <2>3. g \in [0 .. n + 1 -> S] /\ g[0] = c
    <3> HIDE DEF v
    <3>1. QED BY <2>1, <2>2
  <2>4. ASSUME NEW i \in 1 .. n + 1 PROVE g[i] = step[<<i, g[i - 1]>>]
    <3>1. g[i - 1] = f[i - 1]
      OBVIOUS
    <3>2. CASE i = n + 1
      <4>1. g[i] = v /\ i - 1 = n
        BY <3>2
      <4> HIDE DEF g
      <4>2. QED BY <3>1, <3>2, <4>1
    <3>3. CASE i # n + 1
      <4>1. g[i] = f[i] /\ i \in 1 .. n
        BY <3>3
      <4> HIDE DEF g
      <4>2. QED BY <2>1, <3>1, <4>1
    <3>4. QED BY <3>2, <3>3
  <2> HIDE DEF g
  <2>5. Upto(n + 1, g)
    BY <2>3, <2>4
  <2> HIDE DEF Upto
  <2>6. QED BY <2>5
<1> HIDE DEF T
<1>3. \A n \in 0 .. N : n \in T
  BY <1>1, <1>2, FromTo
<1>4. N \in T
  BY <1>3
<1>5. QED BY <1>4 DEF T, IsRecursion

-----------------------------------------------------------------------------
(* What one group takes.                                                   *)

(* Products are monotonic.                                                 *)
LEMMA Times ==
    ASSUME NEW a \in Int, NEW b \in Int, NEW n \in Nat, a <= b
    PROVE  a * n <= b * n /\ a * n \in Int /\ b * n \in Int
<1>1. (b - a) * n >= 0
  OBVIOUS
<1>2. QED BY <1>1

(* And strictly so: what is smaller as a product is smaller as a factor.   *)
LEMMA Factor ==
    ASSUME NEW a \in Int, NEW b \in Int, NEW n \in Nat, a * n < b * n
    PROVE  a < b
<1>1. ~(b <= a)
  BY Times
<1>2. QED BY <1>1

(* One group less.                                                         *)
LEMMA OneLess ==
    ASSUME NEW a \in Int, NEW n \in Int
    PROVE  a * (n - 1) = a * n - a /\ (a + 1) * n = a * n + n /\ (a - 1) * n = a * n - n
OBVIOUS

(* Division.                                                               *)
LEMMA Divided ==
    ASSUME NEW l \in Nat, NEW n \in Nat \ {0}
    PROVE  /\ l \div n \in Nat /\ l % n \in 0 .. n - 1
           /\ l = (l \div n) * n + (l % n)
OBVIOUS

(* The quotient, rounded up.                                               *)
LEMMA Ceiling ==
    ASSUME NEW l \in Nat, NEW n \in Nat \ {0}
    PROVE  /\ split(l, n) \in Nat
           /\ l <= split(l, n) * n
           /\ split(l, n) * n < l + n
<1> DEFINE q == l \div n
           r == l % n
<1>1. q \in Nat /\ r \in 0 .. n - 1 /\ l = q * n + r
  BY Divided
<1>2. split(l, n) = IF r = 0 THEN q ELSE q + 1
  BY DEF split
<1>3. (q + 1) * n = q * n + n /\ q * n \in Int
  BY <1>1, OneLess
<1> HIDE DEF q, r
<1>4. CASE r = 0
  BY <1>1, <1>2, <1>3, <1>4
<1>5. CASE r # 0
  <2>1. split(l, n) = q + 1
    BY <1>2, <1>5
  <2>2. QED BY <1>1, <1>3, <1>5, <2>1
<1>6. QED BY <1>4, <1>5

(* A group takes no more than its limit and than there is.                 *)
LEMMA TakeBounds ==
    ASSUME NEW max \in Nat, NEW n \in Nat \ {0}, NEW l \in Nat
    PROVE  /\ Take(max, n, l) \in 0 .. max /\ Take(max, n, l) <= l
           /\ max * n <= l => Take(max, n, l) = max
           /\ l < max * n => Take(max, n, l) = split(l, n)
<1>1. max * n \in Int /\ l * n \in Int
  BY Times
<1>2. CASE max * n <= l
  <2>1. Take(max, n, l) = max
    BY <1>2 DEF Take
  <2>2. 1 * max <= n * max /\ n * max = max * n
    BY Times
  <2>3. QED BY <1>1, <1>2, <2>1, <2>2
<1>3. CASE l < max * n
  <2> DEFINE c == split(l, n)
  <2>1. Take(max, n, l) = c
    BY <1>1, <1>3 DEF Take
  <2>2. c \in Nat /\ c * n < l + n /\ c * n \in Int
    BY Ceiling, Times
  <2> HIDE DEF c
  <2>3. c <= max
    <3>1. (max + 1) * n = max * n + n
      BY OneLess
    <3>2. ~(max + 1 <= c)
      BY <1>1, <1>3, <2>2, <3>1, Times
    <3>3. QED BY <2>2, <3>2
  <2>4. c <= l
    <3>1. (l + 1) * n = l * n + n
      BY OneLess
    <3>2. 1 * l <= n * l /\ n * l = l * n
      BY Times
    <3>3. ~(l + 1 <= c)
      BY <1>1, <2>2, <3>1, <3>2, Times
    <3>4. QED BY <2>2, <3>3
  <2>5. QED BY <1>1, <1>3, <2>1, <2>2, <2>3, <2>4 DEF c
<1>4. QED BY <1>1, <1>2, <1>3

(* If k are left for each of n groups, k are left for each of the others.  *)
LEMMA TakeLeaves ==
    ASSUME NEW max \in Nat, NEW n \in Nat \ {0}, NEW l \in Nat, NEW k \in Nat,
           n > 1, k * n <= l
    PROVE  k * (n - 1) <= l - Take(max, n, l)
<1>1. max * n \in Int /\ k * n \in Int /\ k * (n - 1) = k * n - k /\ max * (n - 1) = max * n - max
  BY Times, OneLess
<1>2. CASE max * n <= l
  <2>1. Take(max, n, l) = max
    BY <1>2, TakeBounds
  <2>2. CASE max <= k
    BY <1>1, <2>1, <2>2
  <2>3. CASE k <= max
    <3>1. k * (n - 1) <= max * (n - 1)
      BY <2>3, Times
    <3>2. QED BY <1>1, <1>2, <2>1, <3>1
  <2>4. QED BY <2>2, <2>3
<1>3. CASE l < max * n
  <2> DEFINE c == split(l, n)
  <2>1. Take(max, n, l) = c
    BY <1>3, TakeBounds
  <2>2. c \in Nat /\ c * n < l + n /\ c * n \in Int
    BY Ceiling, Times
  <2> HIDE DEF c
  <2>3. CASE c <= k
    BY <1>1, <2>1, <2>2, <2>3
  <2>4. CASE k + 1 <= c
    <3>1. (k + 1) * (n - 1) <= c * (n - 1) /\ (k + 1) * (n - 1) = k * (n - 1) + (n - 1)
      BY <2>2, <2>4, Times, OneLess
    <3>2. c * (n - 1) = c * n - c
      BY <2>2, OneLess
    <3>3. QED BY <1>1, <2>1, <2>2, <3>1, <3>2
  <2>5. QED BY <2>2, <2>3, <2>4
<1>4. QED BY <1>1, <1>2, <1>3

(* A group that does not get its limit gets the average, rounded up, and   *)
(* what is left for each of the others is no more than that.               *)
LEMMA TakeTight ==
    ASSUME NEW max \in Nat, NEW n \in Nat \ {0}, NEW l \in Nat, l < max * n
    PROVE  /\ \A m \in Nat : l < m * n =>
                 /\ Take(max, n, l) <= m
                 /\ n > 1 => l - Take(max, n, l) < m * (n - 1)
           /\ \A k \in Nat : k * n <= l => k <= Take(max, n, l)
           /\ n = 1 => Take(max, n, l) = l
<1> DEFINE c == split(l, n)
<1>1. Take(max, n, l) = c
  BY TakeBounds
<1>2. c \in Nat /\ c * n < l + n /\ l <= c * n /\ c * n \in Int
  BY Ceiling, Times
<1> HIDE DEF c
<1>3. ASSUME NEW m \in Nat, l < m * n
      PROVE  c <= m /\ (n > 1 => l - c < m * (n - 1))
  <2>1. m * n \in Int /\ (m + 1) * n = m * n + n /\ m * (n - 1) = m * n - m
        /\ c * (n - 1) = c * n - c
    BY <1>2, Times, OneLess
  <2>2. c <= m
    <3>1. ~(m + 1 <= c)
      BY <1>2, <1>3, <2>1, Times
    <3>2. QED BY <1>2, <3>1
  <2>3. ASSUME n > 1 PROVE l - c < m * (n - 1)
    <3>1. CASE c = m
      BY <1>2, <1>3, <2>1, <3>1
    <3>2. CASE c + 1 <= m
      <4>1. (c + 1) * (n - 1) <= m * (n - 1) /\ (c + 1) * (n - 1) = c * (n - 1) + (n - 1)
        BY <1>2, <2>3, <3>2, Times, OneLess
      <4>2. QED BY <1>2, <2>1, <2>3, <4>1
    <3>3. QED BY <1>2, <2>2, <3>1, <3>2
  <2>4. QED BY <2>2, <2>3
<1>4. ASSUME NEW k \in Nat, k * n <= l PROVE k <= c
  <2>1. (c + 1) * n = c * n + n
    BY <1>2, OneLess
  <2>2. k * n < (c + 1) * n
    BY <1>2, <1>4, <2>1, Times
  <2>3. k < c + 1
    BY <1>2, <2>2, Factor
  <2>4. QED BY <1>2, <2>3
<1>5. ASSUME n = 1 PROVE c = l
  BY <1>2, <1>5
<1>6. QED BY <1>1, <1>3, <1>4, <1>5

(* One replica more: the group takes it, or leaves it to the others.       *)
LEMMA TakeOneMore ==
    ASSUME NEW max \in Nat, NEW n \in Nat \ {0}, NEW l \in Nat
    PROVE  Take(max, n, l + 1) \in {Take(max, n, l), Take(max, n, l) + 1}
<1>1. max * n \in Int
  BY Times
<1>2. CASE max * n <= l
  BY <1>1, <1>2, TakeBounds
<1>3. CASE max * n = l + 1
  <2> DEFINE t == Take(max, n, l)
  <2>1. Take(max, n, l + 1) = max /\ t \in 0 .. max
    BY <1>3, TakeBounds
  <2>2. (max - 1) * n = max * n - n
    BY OneLess
  <2>3. max - 1 \in Nat
    BY <1>3
  <2>4. max - 1 <= t
    <3>1. (max - 1) * n <= l
      BY <1>3, <2>2
    <3>2. QED BY <1>3, <2>3, <3>1, TakeTight
  <2>5. QED BY <2>1, <2>4
<1>4. CASE l + 1 < max * n
  <2> DEFINE c == split(l, n)
             d == split(l + 1, n)
  <2>1. Take(max, n, l) = c /\ Take(max, n, l + 1) = d
    BY <1>1, <1>4, TakeBounds
  <2>2. c \in Nat /\ c * n < l + n /\ l <= c * n /\ c * n \in Int
    BY Ceiling, Times
  <2>3. d \in Nat /\ d * n < l + 1 + n /\ l + 1 <= d * n /\ d * n \in Int
    BY Ceiling, Times
  <2> HIDE DEF c, d
  <2>4. (d + 1) * n = d * n + n /\ ((c + 1) + 1) * n = (c + 1) * n + n /\ (c + 1) * n = c * n + n
    BY <2>2, <2>3, OneLess
  <2>5. c < d + 1
    BY <2>2, <2>3, <2>4, Factor
  <2>6. d < (c + 1) + 1
    BY <2>2, <2>3, <2>4, Factor
  <2>7. QED BY <2>1, <2>2, <2>3, <2>5, <2>6
<1>5. QED BY <1>1, <1>2, <1>3, <1>4

-----------------------------------------------------------------------------
(* The serving order.                                                      *)

Entry == [group : 1 .. GroupCount, priority : Priorities, max : Limits \cup {MaxInt32}]

Sorted(order) ==
    /\ order \in Seq(Entry)
    /\ \A i, j \in 1 .. Len(order) : i < j =>
          ServedBefore(order[i], order[j]) /\ order[i].group # order[j].group

(* The parts of an entry are numbers.                                      *)
LEMMA EntryParts ==
    ASSUME NEW e \in Entry
    PROVE  e.group \in Nat /\ e.priority \in Int /\ e.max \in 0 .. MaxInt32 /\ e.max \in Nat
<1>1. e.group \in 1 .. GroupCount /\ e.priority \in Priorities /\ e.max \in Limits \cup {MaxInt32}
  BY DEF Entry
<1>2. e.max \in 0 .. MaxInt32
  <2>1. MaxInt32 \in 0 .. MaxInt32 /\ Limits \subseteq 0 .. MaxInt32
    BY PolicyAssumption
  <2>2. QED BY <1>1, <2>1
<1>3. e.group \in Nat
  BY <1>1, PolicyAssumption
<1>4. e.priority \in Int
  BY <1>1, PolicyAssumption
<1>5. e.max \in Nat
  BY <1>2, PolicyAssumption
<1>6. QED BY <1>2, <1>3, <1>4, <1>5

(* A policy has finitely many entries, of distinct groups.                 *)
LEMMA PolicyParts ==
    ASSUME NEW p \in MCPolicies
    PROVE  /\ ToSet(p) \subseteq Entry /\ IsFiniteSet(ToSet(p))
           /\ \A a, b \in ToSet(p) : a.group = b.group => a = b
           /\ \E a \in ToSet(p) : a.max = MaxInt32
<1>1. PICK n \in 1 .. GroupCount : p \in [1 .. n -> UNION {Entries(g) : g \in 1 .. GroupCount}]
  BY DEF MCPolicies
<1>2. UNION {Entries(g) : g \in 1 .. GroupCount} \subseteq Entry
  BY DEF Entries, Entry
<1>3. p \in [1 .. n -> Entry]
  BY <1>1, <1>2
<1>4. ToSet(p) = {p[i] : i \in 1 .. n}
  BY <1>3 DEF ToSet
<1>5. IsFiniteSet(ToSet(p))
  <2>1. p \in Surjection(1 .. n, ToSet(p))
    BY <1>3, <1>4 DEF Surjection
  <2>2. IsFiniteSet(1 .. n)
    BY PolicyAssumption, FS_Interval
  <2>3. QED BY <2>1, <2>2, FS_Surjection
<1>6. ASSUME NEW a \in ToSet(p), NEW b \in ToSet(p), a.group = b.group PROVE a = b
  <2>1. PICK i \in 1 .. n, j \in 1 .. n : a = p[i] /\ b = p[j]
    BY <1>4
  <2>2. \A x, y \in 1 .. n : x < y => p[x].group # p[y].group
    BY <1>3 DEF MCPolicies
  <2>3. i \in Int /\ j \in Int /\ ~(i < j) /\ ~(j < i)
    BY <1>6, <2>1, <2>2
  <2>4. i = j
    BY <2>3
  <2>5. QED BY <2>1, <2>4
<1>7. \E a \in ToSet(p) : a.max = MaxInt32
  <2>1. PICK i \in DOMAIN p : p[i].max = MaxInt32
    BY DEF MCPolicies
  <2>2. QED BY <1>3, <1>4, <2>1
<1>8. QED BY <1>3, <1>4, <1>5, <1>6, <1>7

(* Entries of distinct groups are in a strict order.                       *)
LEMMA ServedInOrder ==
    ASSUME NEW a \in Entry, NEW b \in Entry
    PROVE  /\ ~ServedBefore(a, a)
           /\ a.group # b.group => ServedBefore(a, b) \/ ServedBefore(b, a)
           /\ ServedBefore(a, b) => /\ ~ServedBefore(b, a)
                                    /\ a.priority >= b.priority
                                    /\ a.priority = b.priority => a.max <= b.max
           /\ \A c \in Entry : ServedBefore(a, b) /\ ServedBefore(b, c) => ServedBefore(a, c)
BY EntryParts DEF ServedBefore

Place(S, p) == Cardinality({q \in S : ServedBefore(q, p)}) + 1

(* Who is served before another has the smaller place.                     *)
LEMMA Places ==
    ASSUME NEW S, S \subseteq Entry, IsFiniteSet(S),
           \A a, b \in S : a.group = b.group => a = b
    PROVE  /\ \A a \in S : Place(S, a) \in 1 .. Cardinality(S)
           /\ \A a, b \in S : ServedBefore(a, b) => Place(S, a) < Place(S, b)
<1> DEFINE B(a) == {q \in S : ServedBefore(q, a)}
<1>1. ASSUME NEW a \in S
      PROVE  IsFiniteSet(B(a)) /\ Cardinality(B(a)) \in Nat /\ Cardinality(B(a)) < Cardinality(S)
             /\ Cardinality(S) \in Nat
  <2>1. B(a) \in SUBSET S /\ a \notin B(a)
    BY ServedInOrder
  <2> HIDE DEF B
  <2>2. IsFiniteSet(B(a)) /\ Cardinality(B(a)) <= Cardinality(S)
        /\ (Cardinality(S) = Cardinality(B(a)) => S = B(a))
    BY <2>1, FS_Subset
  <2>3. Cardinality(B(a)) \in Nat /\ Cardinality(S) \in Nat
    BY <2>2, FS_CardinalityType
  <2>4. Cardinality(S) # Cardinality(B(a))
    BY <2>1, <2>2
  <2>5. QED BY <2>2, <2>3, <2>4
<1>2. ASSUME NEW a \in S, NEW b \in S, ServedBefore(a, b)
      PROVE  Cardinality(B(a)) < Cardinality(B(b))
  <2>1. B(a) \in SUBSET B(b) /\ a \in B(b) /\ a \notin B(a)
    BY <1>2, ServedInOrder
  <2>2. IsFiniteSet(B(b)) /\ Cardinality(B(b)) \in Nat /\ Cardinality(B(a)) \in Nat
    BY <1>1
  <2> HIDE DEF B
  <2>3. Cardinality(B(a)) <= Cardinality(B(b))
        /\ (Cardinality(B(b)) = Cardinality(B(a)) => B(b) = B(a))
    BY <2>1, <2>2, FS_Subset
  <2>4. Cardinality(B(a)) # Cardinality(B(b))
    BY <2>1, <2>3
  <2>5. QED BY <2>2, <2>3, <2>4
<1>3. \A a \in S : Place(S, a) = Cardinality(B(a)) + 1
  BY DEF Place
<1> HIDE DEF B
<1>4. ASSUME NEW a \in S PROVE Place(S, a) \in 1 .. Cardinality(S)
  BY <1>1, <1>3
<1>5. ASSUME NEW a \in S, NEW b \in S, ServedBefore(a, b) PROVE Place(S, a) < Place(S, b)
  BY <1>1, <1>2, <1>3, <1>5
<1>6. QED BY <1>4, <1>5

(* The serving order has every entry of the policy once, sorted.           *)
LEMMA OrderIsSorted ==
    ASSUME NEW p \in MCPolicies
    PROVE  /\ Sorted(ServingOrder(p))
           /\ ToSet(p) = {ServingOrder(p)[i] : i \in 1 .. Len(ServingOrder(p))}
<1> DEFINE S == ToSet(p)
           N == Cardinality(S)
           place == [a \in S |-> Place(S, a)]
           order == ServingOrder(p)
<1>1. /\ S \subseteq Entry /\ IsFiniteSet(S) /\ N \in Nat
      /\ \A a, b \in S : a.group = b.group => a = b
  BY PolicyParts, FS_CardinalityType
<1>2. order = [i \in 1 .. N |-> CHOOSE a \in S : Place(S, a) = i]
  BY DEF ServingOrder, Place
<1> HIDE DEF order, S
<1>3. /\ \A a \in S : Place(S, a) \in 1 .. N
      /\ \A a, b \in S : ServedBefore(a, b) => Place(S, a) < Place(S, b)
  BY <1>1, Places
<1>4. place \in Injection(S, 1 .. N)
  <2>1. place \in [S -> 1 .. N]
    BY <1>3
  <2>2. ASSUME NEW a \in S, NEW b \in S, place[a] = place[b] PROVE a = b
    <3>1. Place(S, a) = Place(S, b) /\ Place(S, a) \in Int
      BY <1>3, <2>2
    <3>2. ~ServedBefore(a, b) /\ ~ServedBefore(b, a)
      BY <1>3, <3>1
    <3>3. a.group = b.group
      BY <1>1, <3>2, ServedInOrder
    <3>4. QED BY <1>1, <3>3
  <2> HIDE DEF place
  <2>3. QED BY <2>1, <2>2 DEF Injection, IsInjective
<1>5. place \in Surjection(S, 1 .. N)
  <2>1. IsFiniteSet(1 .. N) /\ Cardinality(1 .. N) = N
    BY <1>1, FS_Interval
  <2> HIDE DEF place
  <2>2. QED BY <1>4, <2>1, FS_Injection
<1>6. ASSUME NEW i \in 1 .. N PROVE order[i] \in S /\ Place(S, order[i]) = i
  <2>1. \E a \in S : Place(S, a) = i
    BY <1>5 DEF Surjection
  <2>2. order[i] = CHOOSE a \in S : Place(S, a) = i
    BY <1>2
  <2>3. QED BY <2>1, <2>2
<1>7. order \in Seq(Entry) /\ Len(order) = N
  <2>1. order \in [1 .. N -> Entry]
    BY <1>1, <1>2, <1>6
  <2>2. QED BY <1>1, <2>1
<1>8. ASSUME NEW i \in 1 .. N, NEW j \in 1 .. N, i < j
      PROVE  ServedBefore(order[i], order[j]) /\ order[i].group # order[j].group
  <2>1. order[i] \in S /\ order[j] \in S /\ Place(S, order[i]) = i /\ Place(S, order[j]) = j
    BY <1>6
  <2>2. order[i].group # order[j].group
    <3>1. order[i] # order[j]
      BY <1>8, <2>1
    <3>2. QED BY <1>1, <2>1, <3>1
  <2>3. ~ServedBefore(order[j], order[i])
    BY <1>3, <1>8, <2>1
  <2>4. QED BY <1>1, <2>1, <2>2, <2>3, ServedInOrder
<1>9. ASSUME NEW a \in S PROVE \E i \in 1 .. N : order[i] = a
  <2> DEFINE i == Place(S, a)
  <2>1. i \in 1 .. N
    BY <1>3
  <2>2. order[i] \in S /\ Place(S, order[i]) = Place(S, a)
    BY <1>6, <2>1
  <2>3. order[i] = a
    <3>1. ~ServedBefore(order[i], a) /\ ~ServedBefore(a, order[i])
      BY <1>3, <2>1, <2>2
    <3>2. order[i].group = a.group
      BY <1>1, <2>2, <3>1, ServedInOrder
    <3>3. QED BY <1>1, <2>2, <3>2
  <2>4. QED BY <2>1, <2>3
<1>10. Sorted(order)
  BY <1>7, <1>8 DEF Sorted
<1>11. S = {order[i] : i \in 1 .. Len(order)}
  BY <1>6, <1>7, <1>9
<1>12. QED BY <1>10, <1>11 DEF order, S

(* Along the order priorities fall, and within one priority limits rise.   *)
LEMMA AlongOrder ==
    ASSUME NEW order, Sorted(order), NEW i \in 1 .. Len(order), NEW j \in 1 .. Len(order), i <= j
    PROVE  /\ order[i] \in Entry /\ order[j] \in Entry
           /\ order[j].priority <= order[i].priority
           /\ order[i].priority = order[j].priority => order[i].max <= order[j].max
<1>1. order[i] \in Entry /\ order[j] \in Entry
  BY DEF Sorted
<1>2. CASE i = j
  BY <1>1, <1>2, EntryParts
<1>3. CASE i < j
  <2>1. ServedBefore(order[i], order[j])
    BY <1>3 DEF Sorted
  <2>2. /\ order[i].priority >= order[j].priority
        /\ order[i].priority = order[j].priority => order[i].max <= order[j].max
    BY <1>1, <2>1, ServedInOrder
  <2>3. QED BY <1>1, <2>2, EntryParts
<1>4. Len(order) \in Nat
  BY DEF Sorted
<1>5. QED BY <1>2, <1>3, <1>4

(* The groups of a priority are next to each other, and counted down.      *)
LEMMA CountedDown ==
    ASSUME NEW order, Sorted(order), NEW i \in 1 .. Len(order)
    PROVE  /\ LeftGroups(order, i) \in Nat \ {0}
           /\ i < Len(order) /\ order[i + 1].priority = order[i].priority =>
                 /\ LeftGroups(order, i) > 1
                 /\ LeftGroups(order, i + 1) = LeftGroups(order, i) - 1
           /\ i = Len(order) \/ order[i + 1].priority # order[i].priority =>
                 LeftGroups(order, i) = 1
<1> DEFINE N == Len(order)
           G(k) == {j \in k .. N : order[j].priority = order[k].priority}
<1>1. N \in Nat /\ \A k \in 1 .. N : LeftGroups(order, k) = Cardinality(G(k))
  BY DEF LeftGroups, Sorted
<1>2. ASSUME NEW k \in 1 .. N
      PROVE  IsFiniteSet(G(k)) /\ Cardinality(G(k)) \in Nat \ {0} /\ k \in G(k)
  <2>1. G(k) \in SUBSET (k .. N) /\ k \in G(k) /\ IsFiniteSet(k .. N)
    BY <1>1, FS_Interval
  <2> HIDE DEF G
  <2>2. IsFiniteSet(G(k))
    BY <2>1, FS_Subset
  <2>3. Cardinality(G(k)) \in Nat /\ Cardinality(G(k)) # 0
    BY <2>1, <2>2, FS_CardinalityType, FS_EmptySet
  <2>4. QED BY <2>1, <2>2, <2>3
<1>3. ASSUME i < N, order[i + 1].priority = order[i].priority
      PROVE  Cardinality(G(i)) = Cardinality(G(i + 1)) + 1 /\ i + 1 \in 1 .. N
  <2>1. i + 1 \in 1 .. N /\ G(i) = G(i + 1) \cup {i} /\ i \notin G(i + 1)
    BY <1>1, <1>3
  <2>2. IsFiniteSet(G(i + 1))
    BY <1>2, <2>1
  <2> HIDE DEF G
  <2>3. QED BY <2>1, <2>2, FS_AddElement
<1>4. ASSUME i = N \/ order[i + 1].priority # order[i].priority PROVE Cardinality(G(i)) = 1
  <2>1. ASSUME NEW j \in G(i) PROVE j = i
    <3>1. CASE i = N
      BY <1>1, <3>1
    <3>2. CASE i # N /\ j # i
      <4>1. i + 1 \in 1 .. N /\ j \in 1 .. N /\ i + 1 <= j /\ i <= i + 1
        BY <1>1, <3>2
      <4>2. order[j].priority <= order[i + 1].priority /\ order[i + 1].priority <= order[i].priority
        BY <4>1, AlongOrder
      <4>3. order[j].priority = order[i].priority
        OBVIOUS
      <4>4. order[i].priority \in Int /\ order[i + 1].priority \in Int
        BY <4>1, AlongOrder, EntryParts
      <4>5. QED BY <1>4, <3>2, <4>2, <4>3, <4>4
    <3>3. QED BY <3>1, <3>2
  <2>2. G(i) = {i}
    BY <1>2, <2>1
  <2>3. QED BY <2>2, FS_Singleton
<1> HIDE DEF G
<1>5. LeftGroups(order, i) \in Nat \ {0}
  BY <1>1, <1>2
<1>6. ASSUME i < N, order[i + 1].priority = order[i].priority
      PROVE  LeftGroups(order, i) > 1 /\ LeftGroups(order, i + 1) = LeftGroups(order, i) - 1
  <2>1. Cardinality(G(i)) = Cardinality(G(i + 1)) + 1 /\ i + 1 \in 1 .. N
    BY <1>3, <1>6
  <2>2. Cardinality(G(i + 1)) \in Nat \ {0}
    BY <1>2, <2>1
  <2>3. QED BY <1>1, <2>1, <2>2
<1>7. QED BY <1>1, <1>4, <1>5, <1>6

-----------------------------------------------------------------------------
(* SplitReplicas serves the groups one after another.                      *)

GroupsOf(p) == {q.group : q \in ToSet(p)}

Start(p, t) == [left |-> t, none |-> FALSE, replicas |-> [g \in GroupsOf(p) |-> 0]]

Serves(p, t, f) ==
    f = [i \in 0 .. Len(ServingOrder(p)) |->
            IF i = 0 THEN Start(p, t) ELSE ServeGroup(ServingOrder(p), f[i - 1], i)]

States(p) == [left : Int, none : BOOLEAN, replicas : [GroupsOf(p) -> Int]]

(* Serving a group leads from state to state.                              *)
LEMMA ServeGroupType ==
    ASSUME NEW p \in MCPolicies, NEW state \in States(p), NEW i \in 1 .. Len(ServingOrder(p))
    PROVE  ServeGroup(ServingOrder(p), state, i) \in States(p)
<1> DEFINE order == ServingOrder(p)
           n == LeftGroups(order, i)
           first == i = 1 \/ order[i].priority # order[i - 1].priority
           none  == IF first THEN state.left <= 0 ELSE state.none
           t == Take(order[i].max, n, state.left)
           taken == IF none THEN 0 ELSE t
<1>1. Sorted(order) /\ order[i] \in Entry /\ n \in Nat \ {0}
  BY OrderIsSorted, CountedDown DEF Sorted
<1>2. state.left \in Int /\ state.none \in BOOLEAN /\ state.replicas \in [GroupsOf(p) -> Int]
  BY DEF States
<1>3. t \in Int
  BY <1>1, <1>2, EntryParts DEF Take, split
<1>4. none \in BOOLEAN
  <2>1. CASE first
    <3>1. none = (state.left <= 0)
      BY <2>1
    <3> HIDE DEF none
    <3>2. QED BY <1>2, <3>1
  <2>2. CASE ~first
    <3>1. none = state.none
      BY <2>2
    <3>2. QED BY <1>2, <3>1
  <2>3. QED BY <2>1, <2>2
<1>5. ServeGroup(order, state, i) =
         [left |-> state.left - taken, none |-> none,
          replicas |-> [state.replicas EXCEPT ![order[i].group] = taken]]
  BY DEF ServeGroup
<1> HIDE DEF t, none, order
<1>6. taken \in Int
  BY <1>3, <1>4
<1> HIDE DEF taken
<1>7. [state.replicas EXCEPT ![order[i].group] = taken] \in [GroupsOf(p) -> Int]
  BY <1>2, <1>6
<1>8. state.left - taken \in Int
  BY <1>2, <1>6
<1>9. ServeGroup(order, state, i) \in States(p)
  BY <1>4, <1>5, <1>7, <1>8 DEF States
<1>10. QED BY <1>9 DEF order

(* So SplitReplicas is what its recursion says.                            *)
LEMMA SplitServes ==
    ASSUME NEW p \in MCPolicies, NEW t \in Nat
    PROVE  \E f \in [0 .. Len(ServingOrder(p)) -> States(p)] :
              /\ Serves(p, t, f)
              /\ SplitReplicas(p, t) = f[Len(ServingOrder(p))].replicas
<1> DEFINE order == ServingOrder(p)
           N == Len(order)
           S == States(p)
           c == Start(p, t)
           step == [x \in (1 .. N) \X S |-> ServeGroup(order, x[2], x[1])]
           f == CHOOSE f : Serves(p, t, f)
<1>1. N \in Nat
  BY OrderIsSorted DEF Sorted
<1>2. c \in S
  BY DEF Start, States
<1>3. step \in [(1 .. N) \X S -> S]
  BY ServeGroupType
<1> HIDE DEF step, c, S
<1>4. PICK g : IsRecursion(g, N, S, c, step)
  <2> HIDE DEF N, f, order
  <2>1. QED BY <1>1, <1>2, <1>3, Recursion
<1>5. \A i \in 1 .. N : g[i] = ServeGroup(order, g[i - 1], i)
  <2>1. ASSUME NEW i \in 1 .. N PROVE g[i] = ServeGroup(order, g[i - 1], i)
    <3>1. g[i - 1] \in S
      BY <1>1, <1>4 DEF IsRecursion
    <3>2. step[<<i, g[i - 1]>>] = ServeGroup(order, g[i - 1], i)
      BY <3>1 DEF step
    <3>3. QED BY <1>4, <3>2 DEF IsRecursion
  <2>2. QED BY <2>1
<1>6. Serves(p, t, g)
  <2>1. g = [i \in 0 .. N |-> IF i = 0 THEN c ELSE ServeGroup(order, g[i - 1], i)]
    BY <1>1, <1>4, <1>5 DEF IsRecursion
  <2>2. QED BY <2>1 DEF Serves, c
<1>7. Serves(p, t, f)
  BY <1>6
<1>8. SplitReplicas(p, t) = f[N].replicas
  BY DEF SplitReplicas, Serves, Start, GroupsOf
<1> HIDE DEF f, order
<1>9. f = [i \in 0 .. N |-> IF i = 0 THEN c ELSE ServeGroup(order, f[i - 1], i)]
  BY <1>7 DEF Serves, c, order
<1>10. f \in [0 .. N -> S]
  <2> DEFINE T == {i \in 0 .. N : f[i] \in S}
  <2>1. 0 \in T
    BY <1>1, <1>2, <1>9
  <2>2. ASSUME NEW i \in 0 .. N - 1, i \in T PROVE i + 1 \in T
    <3>1. f[i + 1] = ServeGroup(order, f[i], i + 1)
      <4>1. i + 1 \in 0 .. N /\ i + 1 # 0 /\ (i + 1) - 1 = i
        BY <1>1, <2>2
      <4>2. QED BY <1>9, <4>1
    <3>2. i + 1 \in 1 .. N /\ f[i] \in S
      BY <1>1, <2>2
    <3>3. ServeGroup(order, f[i], i + 1) \in S
      BY <3>2, ServeGroupType DEF order, S
    <3>4. QED BY <3>1, <3>2, <3>3
  <2> HIDE DEF T
  <2>3. \A i \in 0 .. N : i \in T
    BY <1>1, <2>1, <2>2, FromTo
  <2>4. \A i \in 0 .. N : f[i] \in S
    BY <2>3 DEF T
  <2>5. QED BY <1>9, <2>4
<1>11. QED BY <1>7, <1>8, <1>10 DEF order, S

(* What is left after each group, and what each group gets.                *)
Hands(order, left, r, t) ==
    /\ left \in [0 .. Len(order) -> Nat] /\ left[0] = t
    /\ \A i \in 1 .. Len(order) :
          /\ r[order[i].group] = Take(order[i].max, LeftGroups(order, i), left[i - 1])
          /\ left[i] = left[i - 1] - r[order[i].group]

(* Whether or not the shortcut for an exhausted total is taken, a group    *)
(* takes what Take says of what is left.                                   *)
LEMMA ServeGroupTakes ==
    ASSUME NEW p \in MCPolicies, NEW state \in States(p), NEW i \in 1 .. Len(ServingOrder(p)),
           state.left \in Nat, state.none => state.left = 0,
           NEW taken, taken = Take(ServingOrder(p)[i].max, LeftGroups(ServingOrder(p), i), state.left),
           NEW next, next = ServeGroup(ServingOrder(p), state, i)
    PROVE  /\ next.left \in Nat /\ next.left = state.left - taken /\ taken \in Nat
           /\ next.none => next.left = 0
           /\ next.replicas = [state.replicas EXCEPT ![ServingOrder(p)[i].group] = taken]
<1> DEFINE order == ServingOrder(p)
           n == LeftGroups(order, i)
           first == i = 1 \/ order[i].priority # order[i - 1].priority
           none == IF first THEN state.left <= 0 ELSE state.none
           t == IF none THEN 0 ELSE taken
<1>1. Sorted(order) /\ order[i] \in Entry /\ n \in Nat \ {0}
  <2>1. Sorted(order)
    BY OrderIsSorted
  <2>2. order[i] \in Entry
    BY <2>1 DEF Sorted
  <2> HIDE DEF order
  <2>3. n \in Nat \ {0}
    BY <2>1, CountedDown DEF order
  <2>4. QED BY <2>1, <2>2, <2>3
<1>2. order[i].max \in Nat
  BY <1>1, EntryParts
<1>3. taken \in Nat /\ taken <= state.left
  <2> DEFINE m == order[i].max
  <2>1. taken = Take(m, n, state.left)
    OBVIOUS
  <2>2. m \in Nat
    BY <1>2
  <2> HIDE DEF m, n, order
  <2>3. Take(m, n, state.left) \in 0 .. m /\ Take(m, n, state.left) <= state.left
    BY <1>1, <2>2, TakeBounds
  <2>4. QED BY <2>1, <2>2, <2>3
<1>4. none => state.left = 0
  <2>1. CASE first
    BY <2>1
  <2>2. CASE ~first
    <3>1. none = state.none
      BY <2>2
    <3>2. QED BY <3>1
  <2>3. QED BY <2>1, <2>2
<1>5. next = [left |-> state.left - t, none |-> none,
              replicas |-> [state.replicas EXCEPT ![order[i].group] = t]]
  BY DEF ServeGroup
<1> HIDE DEF none, order
<1>6. t = taken
  <2>1. CASE none
    BY <1>3, <1>4, <2>1
  <2>2. CASE ~none
    BY <2>2
  <2>3. QED BY <2>1, <2>2
<1> HIDE DEF t
<1>7. next.left = state.left - taken /\ next.left \in Nat
  BY <1>3, <1>5, <1>6
<1>8. next.replicas = [state.replicas EXCEPT ![order[i].group] = taken]
  BY <1>5, <1>6
<1>9. next.none => next.left = 0
  <2>1. next.none = none
    BY <1>5
  <2>2. none => state.left - taken = 0
    BY <1>3, <1>4
  <2>3. QED BY <1>7, <2>1, <2>2
<1>10. QED BY <1>3, <1>7, <1>8, <1>9 DEF order

(* SplitReplicas hands out the total along the serving order.              *)
LEMMA SplitHands ==
    ASSUME NEW p \in MCPolicies, NEW t \in Nat
    PROVE  /\ SplitReplicas(p, t) \in [GroupsOf(p) -> Nat]
           /\ \E left : Hands(ServingOrder(p), left, SplitReplicas(p, t), t)
<1> DEFINE order == ServingOrder(p)
           N == Len(order)
           S == States(p)
           share(i, l) == Take(order[i].max, LeftGroups(order, i), l)
<1>1. Sorted(order) /\ N \in Nat
  BY OrderIsSorted DEF Sorted
<1>2. PICK f \in [0 .. N -> S] : Serves(p, t, f) /\ SplitReplicas(p, t) = f[N].replicas
  BY SplitServes
<1>3. f[0] = Start(p, t) /\ \A i \in 1 .. N : f[i] = ServeGroup(order, f[i - 1], i)
  <2>1. f = [i \in 0 .. N |-> IF i = 0 THEN Start(p, t) ELSE ServeGroup(order, f[i - 1], i)]
    BY <1>2 DEF Serves
  <2> HIDE DEF order
  <2>2. QED BY <1>1, <2>1
<1> DEFINE Done(i) ==
             /\ f[i].left \in Nat
             /\ f[i].none => f[i].left = 0
             /\ \A j \in 1 .. i :
                   /\ f[i].replicas[order[j].group] = share(j, f[j - 1].left)
                   /\ share(j, f[j - 1].left) \in Nat
                   /\ f[j - 1].left \in Nat /\ f[j].left \in Nat
                   /\ f[j].left = f[j - 1].left - share(j, f[j - 1].left)
           T == {i \in 0 .. N : Done(i)}
<1>4. 0 \in T
  <2>1. f[0].left = t /\ f[0].none = FALSE
    BY <1>3 DEF Start
  <2>2. \A j \in 1 .. 0 : FALSE
    OBVIOUS
  <2>3. Done(0)
    BY <2>1, <2>2
  <2>4. QED BY <1>1, <2>3
<1>5. ASSUME NEW i \in 0 .. N - 1, i \in T PROVE i + 1 \in T
  <2> DEFINE k == i + 1
             x == share(k, f[i].left)
  <2>1. k \in 1 .. N /\ k - 1 = i /\ f[i] \in S /\ f[i].left \in Nat /\ (f[i].none => f[i].left = 0)
        /\ i \in 0 .. N
    BY <1>1, <1>2, <1>5
  <2>2. f[k] = ServeGroup(order, f[i], k)
    BY <1>3, <2>1
  <2>3. /\ f[k].left \in Nat /\ f[k].left = f[i].left - x /\ x \in Nat
        /\ f[k].none => f[k].left = 0
        /\ f[k].replicas = [f[i].replicas EXCEPT ![order[k].group] = x]
    BY <2>1, <2>2, ServeGroupTakes
  <2>4. f[i].replicas \in [GroupsOf(p) -> Int]
    BY <2>1 DEF States
  <2>5. order[k].group \in GroupsOf(p)
    <3>1. order[k] \in ToSet(p)
      BY <2>1, OrderIsSorted
    <3>2. QED BY <3>1 DEF GroupsOf
  <2> HIDE DEF x
  <2>6. ASSUME NEW j \in 1 .. k
        PROVE  /\ f[k].replicas[order[j].group] = share(j, f[j - 1].left)
               /\ share(j, f[j - 1].left) \in Nat
               /\ f[j - 1].left \in Nat /\ f[j].left \in Nat
               /\ f[j].left = f[j - 1].left - share(j, f[j - 1].left)
    <3>1. CASE j = k
      <4>1. f[k].replicas[order[k].group] = x
        BY <2>3, <2>4, <2>5
      <4>2. QED BY <2>1, <2>3, <3>1, <4>1 DEF x
    <3>2. CASE j # k
      <4>1. j \in 1 .. i /\ j \in 1 .. N /\ j < k
        BY <1>1, <2>1, <3>2
      <4>2. order[j].group # order[k].group
        BY <1>1, <2>1, <4>1 DEF Sorted
      <4>3. order[j].group \in GroupsOf(p)
        <5>1. order[j] \in ToSet(p)
          BY <4>1, OrderIsSorted
        <5>2. QED BY <5>1 DEF GroupsOf
      <4>4. f[k].replicas[order[j].group] = f[i].replicas[order[j].group]
        BY <2>3, <2>4, <4>2, <4>3
      <4>5. QED BY <1>5, <4>1, <4>4
    <3>3. QED BY <3>1, <3>2
  <2>7. Done(k) /\ k \in 0 .. N
    <3>1. k \in 0 .. N
      BY <1>1, <2>1
    <3> HIDE DEF k
    <3>2. QED BY <2>3, <2>6, <3>1
  <2> HIDE DEF Done
  <2>8. QED BY <2>7
<1> HIDE DEF T
<1>6. \A i \in 0 .. N : i \in T
  BY <1>1, <1>4, <1>5, FromTo
<1>7. N \in T
  BY <1>1, <1>6
<1>8. Done(N)
  BY <1>7 DEF T
<1> DEFINE left == [i \in 0 .. N |-> f[i].left]
           r == SplitReplicas(p, t)
<1>9. r = f[N].replicas
  BY <1>2
<1> HIDE DEF r
<1>10. left \in [0 .. N -> Nat] /\ left[0] = t
  <2>1. \A i \in 0 .. N : f[i].left \in Nat
    BY <1>6 DEF T
  <2>2. f[0].left = t
    BY <1>3 DEF Start
  <2>3. QED BY <1>1, <2>1, <2>2
<1>11. ASSUME NEW i \in 1 .. N
       PROVE  r[order[i].group] = share(i, left[i - 1]) /\ left[i] = left[i - 1] - r[order[i].group]
              /\ r[order[i].group] \in Nat
  <2>1. left[i - 1] = f[i - 1].left /\ left[i] = f[i].left
    BY <1>1
  <2>2. /\ r[order[i].group] = share(i, f[i - 1].left)
        /\ f[i].left = f[i - 1].left - share(i, f[i - 1].left)
        /\ share(i, f[i - 1].left) \in Nat
    BY <1>8, <1>9
  <2> HIDE DEF left
  <2>3. QED BY <2>1, <2>2
<1> HIDE DEF left
<1>12. Hands(order, left, r, t)
  BY <1>10, <1>11 DEF Hands
<1>13. r \in [GroupsOf(p) -> Nat]
  <2>1. r \in [GroupsOf(p) -> Int]
    <3>1. f[N] \in S
      BY <1>1, <1>2
    <3>2. QED BY <1>9, <3>1 DEF States
  <2>2. ASSUME NEW g \in GroupsOf(p) PROVE r[g] \in Nat
    <3>1. PICK q \in ToSet(p) : q.group = g
      BY DEF GroupsOf
    <3>2. PICK i \in 1 .. N : order[i] = q
      BY <3>1, OrderIsSorted
    <3>3. QED BY <1>11, <3>1, <3>2
  <2>3. QED BY <2>1, <2>2
<1>14. QED BY <1>12, <1>13 DEF r

-----------------------------------------------------------------------------
(* What the shares add up to, and how they compare.                        *)

(* Each step of handing out, with the numbers it is about.                 *)
LEMMA HandedOut ==
    ASSUME NEW order, Sorted(order), NEW t \in Nat, NEW r, NEW left, Hands(order, left, r, t),
           NEW i \in 1 .. Len(order)
    PROVE  /\ Len(order) \in Nat /\ i - 1 \in 0 .. Len(order) /\ i \in 0 .. Len(order)
           /\ order[i].max \in Nat /\ LeftGroups(order, i) \in Nat \ {0}
           /\ left[i - 1] \in Nat /\ left[i] \in Nat
           /\ r[order[i].group] = Take(order[i].max, LeftGroups(order, i), left[i - 1])
           /\ r[order[i].group] \in 0 .. order[i].max
           /\ left[i] = left[i - 1] - r[order[i].group]
           /\ left[i] <= left[i - 1]
<1> DEFINE m == order[i].max
           n == LeftGroups(order, i)
           l == left[i - 1]
           g == order[i].group
<1>1. Len(order) \in Nat
  BY DEF Sorted
<1>2. i - 1 \in 0 .. Len(order) /\ i \in 0 .. Len(order)
  BY <1>1
<1>3. order[i] \in Entry
  BY DEF Sorted
<1>4. m \in Nat /\ n \in Nat \ {0}
  BY <1>3, EntryParts, CountedDown
<1>5. l \in Nat /\ left[i] \in Nat /\ r[g] = Take(m, n, l) /\ left[i] = l - r[g]
  BY <1>2 DEF Hands
<1> HIDE DEF m, n, l, g
<1>6. Take(m, n, l) \in 0 .. m
  BY <1>4, <1>5, TakeBounds
<1>7. r[g] \in 0 .. m /\ left[i] <= l
  BY <1>4, <1>5, <1>6
<1>8. QED BY <1>1, <1>2, <1>4, <1>5, <1>7 DEF m, n, l, g

(* Along the order less and less is left.                                  *)
LEMMA LessAndLess ==
    ASSUME NEW order, Sorted(order), NEW t \in Nat, NEW r, NEW left, Hands(order, left, r, t),
           NEW i \in 0 .. Len(order), NEW j \in 0 .. Len(order), i <= j
    PROVE  left[i] \in Nat /\ left[j] \in Nat /\ left[j] <= left[i]
<1> DEFINE N == Len(order)
           T == {d \in i .. N : left[d] \in Nat /\ left[d] <= left[i]}
<1>1. N \in Nat /\ left[i] \in Nat
  BY DEF Sorted, Hands
<1>2. i \in T
  BY <1>1
<1>3. ASSUME NEW d \in i .. N - 1, d \in T PROVE d + 1 \in T
  <2>1. d + 1 \in 1 .. N /\ (d + 1) - 1 = d /\ d + 1 \in i .. N
    BY <1>1, <1>3
  <2>2. left[d + 1] \in Nat /\ left[d + 1] <= left[d]
    BY <2>1, HandedOut
  <2>3. left[d] \in Nat /\ left[d] <= left[i]
    BY <1>3
  <2>4. QED BY <1>1, <2>1, <2>2, <2>3
<1> HIDE DEF T, N
<1>4. i \in Nat /\ j \in i .. N
  BY <1>1 DEF N
<1>5. \A d \in i .. N : d \in T
  BY <1>1, <1>2, <1>3, <1>4, FromTo
<1>6. j \in T
  BY <1>4, <1>5
<1>7. QED BY <1>1, <1>6 DEF T

Tight(order, left, i) == left[i - 1] < order[i].max * LeftGroups(order, i)

(* Once a group does not get its limit, neither do the groups of its       *)
(* priority that follow, and nothing is left for lower priorities.         *)
LEMMA StaysTight ==
    ASSUME NEW order, Sorted(order), NEW t \in Nat, NEW r, NEW left, Hands(order, left, r, t),
           NEW i \in 1 .. Len(order), Tight(order, left, i),
           NEW j \in 1 .. Len(order), i <= j
    PROVE  IF order[j].priority = order[i].priority
           THEN Tight(order, left, j)
           ELSE left[j - 1] = 0
<1> DEFINE N == Len(order)
           P(d) == IF order[d].priority = order[i].priority
                   THEN Tight(order, left, d)
                   ELSE left[d - 1] = 0
           T == {d \in i .. N : P(d)}
<1>1. N \in Nat
  BY DEF Sorted
<1>2. i \in T
  BY <1>1
<1>3. ASSUME NEW d \in i .. N - 1, d \in T PROVE d + 1 \in T
  <2> DEFINE e == d + 1
  <2>1. d \in 1 .. N /\ e \in 1 .. N /\ e - 1 = d /\ e \in i .. N /\ d < N /\ i <= d /\ d <= e
    BY <1>1, <1>3
  <2>2. P(d)
    BY <1>3
  <2>3. /\ order[d] \in Entry /\ order[e] \in Entry /\ order[i] \in Entry
        /\ order[e].priority <= order[d].priority /\ order[d].priority <= order[i].priority
        /\ order[d].priority = order[e].priority => order[d].max <= order[e].max
    BY <2>1, AlongOrder
  <2>4. order[d].priority \in Int /\ order[e].priority \in Int /\ order[i].priority \in Int
        /\ order[d].max \in Nat /\ order[e].max \in Nat
    BY <2>3, EntryParts
  <2> DEFINE n == LeftGroups(order, d)
             m == order[d].max
             x == Take(m, n, left[d - 1])
  <2>5. n \in Nat \ {0} /\ left[d - 1] \in Nat /\ left[d] \in Nat /\ left[d] <= left[d - 1]
        /\ left[d] = left[d - 1] - x
    BY <2>1, HandedOut
  <2>6. /\ order[e].priority = order[d].priority => n > 1 /\ LeftGroups(order, e) = n - 1
        /\ order[e].priority # order[d].priority => n = 1
    BY <2>1, CountedDown
  <2> HIDE DEF e, n, m
  <2>7. CASE order[d].priority # order[i].priority
    <3>1. left[d - 1] = 0
      BY <2>2, <2>7
    <3>2. left[d] = 0
      BY <2>5, <3>1
    <3>3. order[e].priority # order[i].priority
      BY <2>3, <2>4, <2>7
    <3>4. P(e)
      BY <2>1, <3>2, <3>3
    <3>5. QED BY <2>1, <3>4 DEF e
  <2>8. CASE order[d].priority = order[i].priority
    <3>1. left[d - 1] < m * n /\ m \in Nat
      BY <2>2, <2>4, <2>8 DEF Tight, m, n
    <3>2. CASE order[e].priority = order[d].priority
      <4>1. n > 1 /\ LeftGroups(order, e) = n - 1 /\ m <= order[e].max
        BY <2>3, <2>6, <3>2 DEF m
      <4>2. left[d] < m * (n - 1)
        <5>1. left[d - 1] - x < m * (n - 1)
          BY <2>5, <3>1, <4>1, TakeTight
        <5>2. QED BY <2>5, <5>1
      <4>3. m * (n - 1) <= order[e].max * (n - 1) /\ m * (n - 1) \in Int
            /\ order[e].max * (n - 1) \in Int
        <5> DEFINE h == order[e].max
                   k == n - 1
        <5>1. m \in Int /\ h \in Int /\ k \in Nat /\ m <= h
          <6>1. m \in Int /\ h \in Int
            BY <2>4, <3>1
          <6>2. k \in Nat
            BY <2>5, <4>1
          <6>3. m <= h
            BY <4>1
          <6>4. QED BY <6>1, <6>2, <6>3
        <5> HIDE DEF h, k
        <5>2. m * k <= h * k /\ m * k \in Int /\ h * k \in Int
          BY <5>1, Times
        <5>3. QED BY <5>2 DEF h, k
      <4>4. left[d] < order[e].max * (n - 1)
        BY <2>5, <4>2, <4>3
      <4>5. Tight(order, left, e)
        BY <2>1, <4>1, <4>4 DEF Tight
      <4>6. P(e)
        BY <2>8, <3>2, <4>5
      <4>7. QED BY <2>1, <4>6 DEF e
    <3>3. CASE order[e].priority # order[d].priority
      <4>1. n = 1
        BY <2>6, <3>3
      <4>2. x = left[d - 1]
        BY <2>5, <3>1, <4>1, TakeTight
      <4>3. left[d] = 0
        BY <2>5, <4>2
      <4>4. P(e)
        BY <2>1, <2>8, <3>3, <4>3
      <4>5. QED BY <2>1, <4>4 DEF e
    <3>4. QED BY <3>2, <3>3
  <2>9. QED BY <2>7, <2>8
<1> HIDE DEF T, N
<1>4. i \in Nat /\ j \in i .. N
  BY <1>1 DEF N
<1>5. \A d \in i .. N : d \in T
  BY <1>1, <1>2, <1>3, <1>4, FromTo
<1>6. j \in T
  BY <1>4, <1>5
<1>7. QED BY <1>6 DEF T

(* A group that is not tight gets its limit.                               *)
LEMMA LooseGetsLimit ==
    ASSUME NEW order, Sorted(order), NEW t \in Nat, NEW r, NEW left, Hands(order, left, r, t),
           NEW i \in 1 .. Len(order), ~Tight(order, left, i)
    PROVE  r[order[i].group] = order[i].max
<1> DEFINE m == order[i].max
           n == LeftGroups(order, i)
           l == left[i - 1]
<1>1. m \in Nat /\ n \in Nat \ {0} /\ l \in Nat /\ r[order[i].group] = Take(m, n, l)
  BY HandedOut
<1>2. ~(l < m * n)
  BY DEF Tight
<1> HIDE DEF m, n, l
<1>3. m * n <= l
  <2>1. m * n \in Int
    BY <1>1, Times
  <2>2. QED BY <1>1, <1>2, <2>1
<1>4. Take(m, n, l) = m
  <2>1. m * n <= l => Take(m, n, l) = m
    BY <1>1, TakeBounds
  <2>2. QED BY <1>3, <2>1
<1>5. QED BY <1>1, <1>4 DEF m

(* The last group of a priority takes all that is left when its limit is   *)
(* not reached.                                                            *)
LEMMA LastTakesAll ==
    ASSUME NEW order, Sorted(order), NEW t \in Nat, NEW r, NEW left, Hands(order, left, r, t),
           NEW i \in 1 .. Len(order), LeftGroups(order, i) = 1, left[i - 1] <= order[i].max
    PROVE  left[i] = 0
<1> DEFINE m == order[i].max
           l == left[i - 1]
<1>1. m \in Nat /\ l \in Nat /\ r[order[i].group] = Take(m, 1, l) /\ left[i] = l - r[order[i].group]
      /\ l <= m
  BY HandedOut
<1> HIDE DEF m, l
<1>2. Take(m, 1, l) = l
  <2>1. CASE m <= l
    <3>1. m * 1 <= l
      BY <1>1, <2>1
    <3>2. Take(m, 1, l) = m
      BY <1>1, <3>1, TakeBounds
    <3>3. QED BY <1>1, <2>1, <3>2
  <2>2. CASE l < m
    <3>1. l < m * 1
      BY <1>1, <2>2
    <3>2. QED BY <1>1, <3>1, TakeTight
  <2>3. QED BY <1>1, <2>1, <2>2
<1>3. QED BY <1>1, <1>2

(* With one group that has no limit, everything is handed out.             *)
LEMMA AllHandedOut ==
    ASSUME NEW order, Sorted(order), NEW t \in 0 .. MaxInt32, NEW r, NEW left,
           Hands(order, left, r, t),
           NEW u \in 1 .. Len(order), order[u].max = MaxInt32
    PROVE  left[Len(order)] = 0
<1> DEFINE N == Len(order)
           P(d) == IF order[d].priority = order[u].priority
                   THEN order[d].max = MaxInt32
                   ELSE left[d - 1] = 0
           T == {d \in u .. N : P(d)}
<1>1. N \in Nat /\ MaxInt32 \in Nat /\ t \in Nat /\ t <= MaxInt32 /\ left[0] = t
  <2>1. MaxInt32 \in Nat
    BY PolicyAssumption
  <2>2. QED BY <2>1 DEF Sorted, Hands
<1>2. ASSUME NEW d \in 1 .. N PROVE left[d - 1] <= MaxInt32
  <2>1. 0 \in 0 .. N /\ d - 1 \in 0 .. N /\ 0 <= d - 1
    BY <1>1
  <2>2. left[d - 1] \in Nat /\ left[d - 1] <= left[0]
    BY <1>1, <2>1, LessAndLess
  <2>3. QED BY <1>1, <2>2
<1>3. u \in T
  BY <1>1
<1>4. ASSUME NEW d \in u .. N - 1, d \in T PROVE d + 1 \in T
  <2> DEFINE e == d + 1
  <2>1. d \in 1 .. N /\ e \in 1 .. N /\ e - 1 = d /\ e \in u .. N /\ d < N /\ u <= d /\ d <= e
    BY <1>1, <1>4
  <2>2. P(d)
    BY <1>4
  <2>3. /\ order[d] \in Entry /\ order[e] \in Entry /\ order[u] \in Entry
        /\ order[e].priority <= order[d].priority /\ order[d].priority <= order[u].priority
        /\ order[d].priority = order[e].priority => order[d].max <= order[e].max
    BY <2>1, AlongOrder
  <2>4. order[d].priority \in Int /\ order[e].priority \in Int /\ order[u].priority \in Int
        /\ order[e].max \in 0 .. MaxInt32
    BY <2>3, EntryParts
  <2>5. left[d - 1] \in Nat /\ left[d] \in Nat /\ left[d] <= left[d - 1]
    BY <1>1, <2>1, HandedOut
  <2>6. order[e].priority # order[d].priority => LeftGroups(order, d) = 1
    BY <2>1, CountedDown
  <2> HIDE DEF e
  <2>7. CASE order[d].priority # order[u].priority
    <3>1. left[d] = 0
      <4>1. left[d - 1] = 0
        BY <2>2, <2>7
      <4>2. QED BY <2>5, <4>1
    <3>2. order[e].priority # order[u].priority
      BY <2>3, <2>4, <2>7
    <3>3. P(e)
      BY <2>1, <3>1, <3>2
    <3>4. QED BY <2>1, <3>3 DEF e
  <2>8. CASE order[d].priority = order[u].priority
    <3>1. order[d].max = MaxInt32
      BY <2>2, <2>8
    <3>2. CASE order[e].priority = order[d].priority
      <4>1. order[e].max = MaxInt32
        BY <1>1, <2>3, <2>4, <3>1, <3>2
      <4>2. P(e)
        BY <2>8, <3>2, <4>1
      <4>3. QED BY <2>1, <4>2 DEF e
    <3>3. CASE order[e].priority # order[d].priority
      <4>1. left[d] = 0
        BY <1>1, <1>2, <2>1, <2>6, <3>1, <3>3, LastTakesAll
      <4>2. P(e)
        BY <2>1, <2>8, <3>3, <4>1
      <4>3. QED BY <2>1, <4>2 DEF e
    <3>4. QED BY <3>2, <3>3
  <2>9. QED BY <2>7, <2>8
<1>5. N \in T
  <2> HIDE DEF T, N
  <2>1. u \in Nat /\ N \in u .. N
    BY <1>1 DEF N
  <2>2. \A d \in u .. N : d \in T
    BY <1>1, <1>3, <1>4, <2>1, FromTo
  <2>3. QED BY <2>1, <2>2
<1>6. N \in 1 .. N /\ P(N)
  BY <1>1, <1>5
<1>7. left[N - 1] \in Nat /\ left[N] \in Nat /\ left[N] <= left[N - 1]
  BY <1>1, <1>6, HandedOut
<1>8. CASE order[N].priority = order[u].priority
  <2>1. order[N].max = MaxInt32
    BY <1>6, <1>8
  <2>2. LeftGroups(order, N) = 1
    BY <1>6, CountedDown
  <2>3. QED BY <1>1, <1>2, <1>6, <2>1, <2>2, LastTakesAll
<1>9. CASE order[N].priority # order[u].priority
  BY <1>6, <1>7, <1>9
<1>10. QED BY <1>8, <1>9

Running(order, r, s) ==
    [i \in 0 .. Len(order) |-> IF i = 0 THEN 0 ELSE s[i - 1] + r[order[i].group]]

(* The running sum of the shares is what is gone of the total.             *)
LEMMA RunningSum ==
    ASSUME NEW order, Sorted(order), NEW t \in Nat, NEW r, NEW left, Hands(order, left, r, t),
           NEW sum, sum = Running(order, r, sum)
    PROVE  sum[Len(order)] = t - left[Len(order)]
<1> DEFINE N == Len(order)
           T == {i \in 0 .. N : sum[i] = t - left[i]}
<1>1. N \in Nat /\ left[0] = t
  BY DEF Sorted, Hands
<1>2. ASSUME NEW i \in 0 .. N
      PROVE  sum[i] = IF i = 0 THEN 0 ELSE sum[i - 1] + r[order[i].group]
  BY DEF Running
<1>3. ASSUME NEW i \in 1 .. N
       PROVE  /\ left[i - 1] \in Nat /\ left[i] = left[i - 1] - r[order[i].group]
              /\ r[order[i].group] \in Int
  <2>1. /\ order[i].max \in Nat /\ r[order[i].group] \in 0 .. order[i].max
        /\ left[i - 1] \in Nat /\ left[i] = left[i - 1] - r[order[i].group]
    BY HandedOut
  <2>2. QED BY <2>1
<1>4. 0 \in T
  <2>1. sum[0] = 0
    BY <1>1, <1>2
  <2>2. QED BY <1>1, <2>1
<1>5. ASSUME NEW i \in 0 .. N - 1, i \in T PROVE i + 1 \in T
  <2> DEFINE e == i + 1
             x == r[order[e].group]
  <2>1. e \in 1 .. N /\ e \in 0 .. N /\ e # 0 /\ e - 1 = i /\ sum[i] = t - left[i]
    BY <1>1, <1>5
  <2>2. sum[e] = sum[i] + x
    BY <1>2, <2>1
  <2>3. x \in Int /\ left[i] \in Nat /\ left[e] = left[i] - x
    BY <1>3, <2>1
  <2> HIDE DEF e, x
  <2>4. sum[e] = t - left[e]
    BY <2>1, <2>2, <2>3
  <2>5. QED BY <2>1, <2>4 DEF e
<1>6. N \in T
  <2> HIDE DEF T, N
  <2>1. \A i \in 0 .. N : i \in T
    BY <1>1, <1>4, <1>5, FromTo
  <2>2. QED BY <1>1, <2>1
<1>7. QED BY <1>6

(* So the shares add up to the total.                                      *)
LEMMA SumIsTotal ==
    ASSUME NEW order, Sorted(order), NEW t \in Nat, NEW r, NEW left, Hands(order, left, r, t),
           left[Len(order)] = 0
    PROVE  (CHOOSE s : s = Running(order, r, s))[Len(order)] = t
<1> DEFINE N == Len(order)
           gone == [i \in 0 .. N |-> t - left[i]]
           sum == CHOOSE s : s = Running(order, r, s)
<1>1. N \in Nat /\ left[0] = t
  BY DEF Sorted, Hands
<1>2. gone = Running(order, r, gone)
  <2>1. ASSUME NEW i \in 0 .. N
        PROVE  gone[i] = IF i = 0 THEN 0 ELSE gone[i - 1] + r[order[i].group]
    <3>1. CASE i = 0
      BY <1>1, <3>1
    <3>2. CASE i # 0
      <4>1. i \in 1 .. N /\ i - 1 \in 0 .. N
        BY <1>1, <3>2
      <4>2. gone[i] = t - left[i] /\ gone[i - 1] = t - left[i - 1]
        BY <4>1
      <4>3. /\ order[i].max \in Nat /\ r[order[i].group] \in 0 .. order[i].max
            /\ left[i - 1] \in Nat /\ left[i] = left[i - 1] - r[order[i].group]
        BY <4>1, HandedOut
      <4> HIDE DEF gone
      <4>4. gone[i] = gone[i - 1] + r[order[i].group]
        BY <4>2, <4>3
      <4>5. QED BY <3>2, <4>4
    <3>3. QED BY <3>1, <3>2
  <2>2. gone = [i \in 0 .. N |-> gone[i]]
    OBVIOUS
  <2> HIDE DEF gone
  <2>3. QED BY <2>1, <2>2 DEF Running
<1>3. sum = Running(order, r, sum)
  <2> HIDE DEF gone
  <2>1. QED BY <1>2
<1> HIDE DEF sum
<1>4. sum[N] = t - left[N]
  BY <1>3, RunningSum
<1>5. sum[N] = t
  BY <1>4
<1>6. QED BY <1>5 DEF sum

(* A group gets replicas only when those of higher priorities are full.    *)
LEMMA HigherFirst ==
    ASSUME NEW order, Sorted(order), NEW t \in Nat, NEW r, NEW left, Hands(order, left, r, t),
           NEW i \in 1 .. Len(order), NEW j \in 1 .. Len(order),
           order[i].priority > order[j].priority, r[order[j].group] > 0
    PROVE  r[order[i].group] = order[i].max
<1>1. order[i].priority \in Int /\ order[j].priority \in Int
  <2>1. order[i] \in Entry /\ order[j] \in Entry
    BY DEF Sorted
  <2>2. QED BY <2>1, EntryParts
<1>2. i <= j
  <2>1. CASE j <= i
    <3>1. order[i].priority <= order[j].priority
      BY <2>1, AlongOrder
    <3>2. QED BY <1>1, <3>1
  <2>2. QED BY <2>1
<1>3. left[j - 1] # 0
  <2>1. left[j - 1] \in Nat /\ left[j] \in Nat /\ left[j] = left[j - 1] - r[order[j].group]
        /\ order[j].max \in Nat /\ r[order[j].group] \in 0 .. order[j].max
    BY HandedOut
  <2>2. QED BY <2>1
<1>4. order[j].priority # order[i].priority
  BY <1>1
<1>5. ~Tight(order, left, i)
  <2>1. ASSUME Tight(order, left, i)
        PROVE  IF order[j].priority = order[i].priority THEN Tight(order, left, j) ELSE left[j - 1] = 0
    BY <1>2, <2>1, StaysTight
  <2>2. QED BY <1>3, <1>4, <2>1
<1>6. QED BY <1>5, LooseGetsLimit

(* Between two groups of one priority there are only groups of it.         *)
LEMMA Between ==
    ASSUME NEW order, Sorted(order), NEW i \in 1 .. Len(order), NEW j \in 1 .. Len(order),
           order[i].priority = order[j].priority, NEW d \in i .. j
    PROVE  d \in 1 .. Len(order) /\ order[d].priority = order[i].priority
<1>1. Len(order) \in Nat
  BY DEF Sorted
<1>2. d \in 1 .. Len(order) /\ i <= d /\ d <= j
  BY <1>1
<1>3. /\ order[i] \in Entry /\ order[d] \in Entry /\ order[j] \in Entry
      /\ order[d].priority <= order[i].priority /\ order[j].priority <= order[d].priority
  BY <1>2, AlongOrder
<1>4. order[i].priority \in Int /\ order[d].priority \in Int
  BY <1>3, EntryParts
<1>5. QED BY <1>2, <1>3, <1>4

(* What is left for each group of a priority does not fall along it.       *)
LEMMA KeepsAtLeast ==
    ASSUME NEW order, Sorted(order), NEW t \in Nat, NEW r, NEW left, Hands(order, left, r, t),
           NEW i \in 1 .. Len(order), NEW j \in 1 .. Len(order), i <= j,
           order[i].priority = order[j].priority,
           NEW k \in Nat, k * LeftGroups(order, i) <= left[i - 1]
    PROVE  k * LeftGroups(order, j) <= left[j - 1]
<1> DEFINE T == {d \in i .. j : k * LeftGroups(order, d) <= left[d - 1]}
<1>1. i \in T
  OBVIOUS
<1>2. ASSUME NEW d \in i .. j - 1, d \in T PROVE d + 1 \in T
  <2> DEFINE e == d + 1
             n == LeftGroups(order, d)
             m == order[d].max
             l == left[d - 1]
  <2>1. e \in i .. j /\ d \in i .. j /\ e - 1 = d /\ k * n <= l
    BY <1>2
  <2>2. /\ d \in 1 .. Len(order) /\ order[d].priority = order[i].priority
        /\ e \in 1 .. Len(order) /\ order[e].priority = order[i].priority
    BY <2>1, Between
  <2>3. m \in Nat /\ n \in Nat \ {0} /\ l \in Nat /\ left[d] = l - Take(m, n, l)
    BY <2>2, HandedOut
  <2>4. n > 1 /\ LeftGroups(order, e) = n - 1
    <3>1. Len(order) \in Nat
      BY DEF Sorted
    <3>2. d < Len(order)
      BY <2>2, <3>1
    <3>3. QED BY <2>2, <3>2, CountedDown
  <2> HIDE DEF e, n, m, l
  <2>5. k * (n - 1) <= l - Take(m, n, l)
    BY <2>1, <2>3, <2>4, TakeLeaves
  <2>6. k * LeftGroups(order, e) <= left[e - 1]
    BY <2>1, <2>3, <2>4, <2>5
  <2>7. QED BY <2>1, <2>6 DEF e
<1> HIDE DEF T
<1>3. i \in Nat /\ j \in Nat /\ j \in i .. j
  OBVIOUS
<1>4. \A d \in i .. j : d \in T
  BY <1>1, <1>2, <1>3, FromTo
<1>5. j \in T
  BY <1>3, <1>4
<1>6. QED BY <1>5 DEF T

(* And among groups below their limit it does not grow.                    *)
LEMMA KeepsBelow ==
    ASSUME NEW order, Sorted(order), NEW t \in Nat, NEW r, NEW left, Hands(order, left, r, t),
           NEW i \in 1 .. Len(order), NEW j \in 1 .. Len(order), i <= j,
           order[i].priority = order[j].priority, Tight(order, left, i),
           NEW k \in Nat, left[i - 1] < k * LeftGroups(order, i)
    PROVE  left[j - 1] < k * LeftGroups(order, j)
<1> DEFINE T == {d \in i .. j : left[d - 1] < k * LeftGroups(order, d)}
<1>1. i \in T
  OBVIOUS
<1>2. ASSUME NEW d \in i .. j - 1, d \in T PROVE d + 1 \in T
  <2> DEFINE e == d + 1
             n == LeftGroups(order, d)
             m == order[d].max
             l == left[d - 1]
  <2>1. e \in i .. j /\ d \in i .. j /\ e - 1 = d /\ l < k * n /\ i <= d
    BY <1>2
  <2>2. /\ d \in 1 .. Len(order) /\ order[d].priority = order[i].priority
        /\ e \in 1 .. Len(order) /\ order[e].priority = order[i].priority
    BY <2>1, Between
  <2>3. m \in Nat /\ n \in Nat \ {0} /\ l \in Nat /\ left[d] = l - Take(m, n, l)
    BY <2>2, HandedOut
  <2>4. n > 1 /\ LeftGroups(order, e) = n - 1
    <3>1. Len(order) \in Nat
      BY DEF Sorted
    <3>2. d < Len(order)
      BY <2>2, <3>1
    <3>3. QED BY <2>2, <3>2, CountedDown
  <2>5. l < m * n
    <3>1. Tight(order, left, d)
      BY <2>1, <2>2, StaysTight
    <3>2. QED BY <3>1 DEF Tight
  <2> HIDE DEF e, n, m, l
  <2>6. l - Take(m, n, l) < k * (n - 1)
    BY <2>1, <2>3, <2>4, <2>5, TakeTight
  <2>7. left[e - 1] < k * LeftGroups(order, e)
    BY <2>1, <2>3, <2>4, <2>6
  <2>8. QED BY <2>1, <2>7 DEF e
<1> HIDE DEF T
<1>3. i \in Nat /\ j \in Nat /\ j \in i .. j
  OBVIOUS
<1>4. \A d \in i .. j : d \in T
  BY <1>1, <1>2, <1>3, FromTo
<1>5. j \in T
  BY <1>3, <1>4
<1>6. QED BY <1>5 DEF T

(* Two groups of one priority get the same, but for one, unless the one    *)
(* with less has its limit.                                                *)
LEMMA EvenShares ==
    ASSUME NEW order, Sorted(order), NEW t \in Nat, NEW r, NEW left, Hands(order, left, r, t),
           NEW i \in 1 .. Len(order), NEW j \in 1 .. Len(order),
           order[i].priority = order[j].priority,
           r[order[i].group] > r[order[j].group] + 1
    PROVE  r[order[j].group] = order[j].max
<1> DEFINE a == r[order[i].group]
           b == r[order[j].group]
           li == left[i - 1]
           lj == left[j - 1]
           ni == LeftGroups(order, i)
           nj == LeftGroups(order, j)
           mi == order[i].max
           mj == order[j].max
<1>1. /\ mi \in Nat /\ ni \in Nat \ {0} /\ li \in Nat /\ a = Take(mi, ni, li) /\ a \in 0 .. mi
      /\ mj \in Nat /\ nj \in Nat \ {0} /\ lj \in Nat /\ b = Take(mj, nj, lj) /\ b \in 0 .. mj
  BY HandedOut
<1>2. a > b + 1 /\ a \in Nat /\ b \in Nat /\ a - 1 \in Nat
  BY <1>1
<1> SUFFICES ASSUME Tight(order, left, j) PROVE FALSE
  BY LooseGetsLimit
<1>3. lj < mj * nj
  BY DEF Tight
<1>4. CASE i <= j
  <2>1. (a - 1) * ni <= li
    <3> HIDE DEF a, ni, li, mi
    <3>1. (a - 1) * ni = a * ni - ni /\ a * ni \in Int /\ mi * ni \in Int
      BY <1>1, <1>2, OneLess, Times
    <3>2. CASE mi * ni <= li
      <4>1. a = mi
        BY <1>1, <3>2, TakeBounds
      <4>2. QED BY <1>1, <3>1, <3>2, <4>1
    <3>3. CASE li < mi * ni
      <4>1. a = split(li, ni)
        BY <1>1, <3>3, TakeBounds
      <4>2. a * ni < li + ni
        BY <1>1, <4>1, Ceiling
      <4>3. QED BY <1>1, <3>1, <4>2
    <3>4. QED BY <1>1, <3>1, <3>2, <3>3
  <2>2. (a - 1) * nj <= lj
    <3> DEFINE k == a - 1
    <3>1. k \in Nat /\ k * LeftGroups(order, i) <= left[i - 1]
      BY <1>2, <2>1
    <3> HIDE DEF k
    <3>2. k * LeftGroups(order, j) <= left[j - 1]
      BY <1>4, <3>1, KeepsAtLeast
    <3>3. QED BY <3>2 DEF k
  <2> HIDE DEF a, b, nj, lj, mj
  <2>3. a - 1 <= b
    BY <1>1, <1>2, <1>3, <2>2, TakeTight
  <2>4. QED BY <1>2, <2>3
<1>5. CASE j < i
  <2>1. Tight(order, left, i)
    BY <1>5, StaysTight
  <2>2. li < mi * ni
    BY <2>1 DEF Tight
  <2>3. lj < (b + 1) * nj
    <3> HIDE DEF b, nj, lj, mj
    <3>1. (b + 1) * nj = b * nj + nj /\ b * nj \in Int
      <4>1. b \in Int /\ nj \in Int
        BY <1>1, <1>2
      <4>2. (b + 1) * nj = b * nj + nj
        BY <4>1, OneLess
      <4>3. b * nj \in Int
        BY <4>1
      <4>4. QED BY <4>2, <4>3
    <3>2. b = split(lj, nj)
      BY <1>1, <1>3, TakeBounds
    <3>3. lj <= b * nj
      BY <1>1, <3>2, Ceiling
    <3>4. QED BY <1>1, <3>1, <3>3
  <2>4. li < (b + 1) * ni
    <3> DEFINE k == b + 1
    <3>1. k \in Nat /\ left[j - 1] < k * LeftGroups(order, j)
      BY <1>2, <2>3
    <3> HIDE DEF k
    <3>2. left[i - 1] < k * LeftGroups(order, i)
      BY <1>5, <3>1, KeepsBelow
    <3>3. QED BY <3>2 DEF k
  <2> HIDE DEF a, b, ni, li, mi
  <2>5. a <= b + 1
    <3>1. b + 1 \in Nat
      BY <1>2
    <3>2. QED BY <1>1, <2>2, <2>4, <3>1, TakeTight
  <2>6. QED BY <1>2, <2>5
<1>6. QED BY <1>4, <1>5

-----------------------------------------------------------------------------
(* One split.                                                              *)

Inv ==
    /\ policy \in MCPolicies
    /\ total \in 0 .. MaxInt32
    /\ replicas = SplitReplicas(policy, total)

(* A split hands out every replica, within the limits, higher priorities   *)
(* first and evenly among equals.                                          *)
LEMMA SplitKeepsPromises ==
    ASSUME Inv PROVE KeepsPromises
<1> DEFINE order == ServingOrder(policy)
           N == Len(order)
<1>1. policy \in MCPolicies /\ total \in 0 .. MaxInt32 /\ total \in Nat
      /\ replicas = SplitReplicas(policy, total)
  <2>1. MaxInt32 \in Nat
    BY PolicyAssumption
  <2>2. QED BY <2>1 DEF Inv
<1>2. Sorted(order) /\ Policy = {order[i] : i \in 1 .. N}
  BY <1>1, OrderIsSorted DEF Policy
<1>3. PICK left : Hands(order, left, replicas, total)
  BY <1>1, SplitHands
<1> HIDE DEF order
<1>4. \A p \in Policy : \E i \in 1 .. N : p = order[i]
  BY <1>2
<1>5. NoPanic
  <2>1. PICK q \in Policy : q.max = MaxInt32
    BY <1>1, PolicyParts DEF Policy
  <2>2. PICK u \in 1 .. N : order[u].max = MaxInt32
    BY <1>4, <2>1
  <2>3. left[N] = 0
    BY <1>1, <1>2, <1>3, <2>2, AllHandedOut
  <2>4. (CHOOSE s : s = Running(order, replicas, s))[N] = total
    BY <1>1, <1>2, <1>3, <2>3, SumIsTotal
  <2>5. QED BY <2>4 DEF NoPanic, Running, order
<1>6. WithinLimits
  <2> SUFFICES ASSUME NEW p \in Policy PROVE replicas[p.group] \in 0 .. p.max
    BY DEF WithinLimits
  <2>1. PICK i \in 1 .. N : p = order[i]
    BY <1>4
  <2>2. replicas[order[i].group] \in 0 .. order[i].max
    BY <1>1, <1>2, <1>3, HandedOut
  <2>3. QED BY <2>1, <2>2
<1>7. PriorityFirst
  <2> SUFFICES ASSUME NEW p \in Policy, NEW q \in Policy,
                      p.priority > q.priority, replicas[q.group] > 0
               PROVE  replicas[p.group] = p.max
    BY DEF PriorityFirst
  <2>1. PICK i \in 1 .. N : p = order[i]
    BY <1>4
  <2>2. PICK j \in 1 .. N : q = order[j]
    BY <1>4
  <2>3. order[i].priority > order[j].priority /\ replicas[order[j].group] > 0
    BY <2>1, <2>2
  <2>4. replicas[order[i].group] = order[i].max
    BY <1>1, <1>2, <1>3, <2>3, HigherFirst
  <2>5. QED BY <2>1, <2>4
<1>8. Balanced
  <2> SUFFICES ASSUME NEW p \in Policy, NEW q \in Policy,
                      p.priority = q.priority, replicas[p.group] > replicas[q.group] + 1
               PROVE  replicas[q.group] = q.max
    BY DEF Balanced
  <2>1. PICK i \in 1 .. N : p = order[i]
    BY <1>4
  <2>2. PICK j \in 1 .. N : q = order[j]
    BY <1>4
  <2>3. order[i].priority = order[j].priority
        /\ replicas[order[i].group] > replicas[order[j].group] + 1
    BY <2>1, <2>2
  <2>4. replicas[order[j].group] = order[j].max
    BY <1>1, <1>2, <1>3, <2>3, EvenShares
  <2>5. QED BY <2>2, <2>4
<1>9. QED BY <1>5, <1>6, <1>7, <1>8 DEF KeepsPromises

(* Two policies with the same entries are split alike.                     *)
LEMMA SameEntries ==
    ASSUME NEW p, NEW q, ToSet(p) = ToSet(q), NEW t
    PROVE  SplitReplicas(p, t) = SplitReplicas(q, t)
<1>1. ServingOrder(p) = ServingOrder(q)
  BY DEF ServingOrder
<1> HIDE DEF ServingOrder
<1>2. QED BY <1>1 DEF SplitReplicas

Exchange(p, i, j) == [p EXCEPT ![i] = p[j], ![j] = p[i]]

(* Exchanging two entries of a policy gives a policy with the same entries. *)
LEMMA Exchanged ==
    ASSUME NEW p \in MCPolicies, NEW i \in DOMAIN p, NEW j \in DOMAIN p, i < j,
           NEW q, q = Exchange(p, i, j)
    PROVE  q \in MCPolicies /\ ToSet(q) = ToSet(p)
<1> DEFINE E == UNION {Entries(g) : g \in 1 .. GroupCount}
           s(x) == IF x = i THEN j ELSE IF x = j THEN i ELSE x
<1>1. PICK n \in 1 .. GroupCount : p \in [1 .. n -> E]
  BY DEF MCPolicies
<1> HIDE DEF E
<1>2. DOMAIN p = 1 .. n /\ i \in 1 .. n /\ j \in 1 .. n /\ i # j
  BY <1>1
<1>3. q \in [1 .. n -> E] /\ DOMAIN q = 1 .. n
  BY <1>1, <1>2 DEF Exchange
<1>4. \A x \in 1 .. n : s(x) \in 1 .. n /\ q[x] = p[s(x)] /\ q[s(x)] = p[x]
  BY <1>1, <1>2 DEF Exchange
<1>5. \A x, y \in 1 .. n : x # y => s(x) # s(y)
  BY <1>2
<1>6. \A x, y \in 1 .. n : x # y => p[x].group # p[y].group
  <2>1. \A x, y \in 1 .. n : x < y => p[x].group # p[y].group
    BY <1>2 DEF MCPolicies
  <2>2. \A x, y \in 1 .. n : x # y => x < y \/ y < x
    OBVIOUS
  <2>3. QED BY <2>1, <2>2
<1> HIDE DEF s
<1>7. \A x, y \in DOMAIN q : x < y => q[x].group # q[y].group
  <2> SUFFICES ASSUME NEW x \in 1 .. n, NEW y \in 1 .. n, x < y PROVE q[x].group # q[y].group
    BY <1>3
  <2>1. s(x) # s(y) /\ s(x) \in 1 .. n /\ s(y) \in 1 .. n
    BY <1>4, <1>5
  <2>2. p[s(x)].group # p[s(y)].group
    BY <1>6, <2>1
  <2>3. q[x] = p[s(x)] /\ q[y] = p[s(y)]
    BY <1>4
  <2>4. QED BY <2>2, <2>3
<1>8. \E x \in DOMAIN q : q[x].max = MaxInt32
  <2>1. PICK x \in 1 .. n : p[x].max = MaxInt32
    BY <1>2 DEF MCPolicies
  <2>2. s(x) \in DOMAIN q /\ q[s(x)] = p[x]
    BY <1>3, <1>4
  <2>3. QED BY <2>1, <2>2
<1>9. q \in MCPolicies
  <2>1. q \in UNION {[1 .. k -> UNION {Entries(g) : g \in 1 .. GroupCount}] : k \in 1 .. GroupCount}
    BY <1>3 DEF E
  <2>2. QED BY <1>7, <1>8, <2>1 DEF MCPolicies
<1>10. ToSet(q) = ToSet(p)
  <2>1. ToSet(q) = {q[x] : x \in 1 .. n} /\ ToSet(p) = {p[x] : x \in 1 .. n}
    BY <1>2, <1>3 DEF ToSet
  <2>2. \A x \in 1 .. n : \E y \in 1 .. n : q[x] = p[y]
    BY <1>4
  <2>3. \A x \in 1 .. n : \E y \in 1 .. n : p[x] = q[y]
    BY <1>4
  <2>4. {q[x] : x \in 1 .. n} = {p[x] : x \in 1 .. n}
    <3>1. \A z \in {q[x] : x \in 1 .. n} : z \in {p[x] : x \in 1 .. n}
      BY <2>2
    <3>2. \A z \in {p[x] : x \in 1 .. n} : z \in {q[x] : x \in 1 .. n}
      BY <2>3
    <3>3. QED BY <3>1, <3>2
  <2>5. QED BY <2>1, <2>4
<1>11. QED BY <1>9, <1>10

-----------------------------------------------------------------------------
(* One replica more.                                                       *)

(* If as much is left, the group gets as much.                             *)
LEMMA SameLeft ==
    ASSUME NEW order, Sorted(order), NEW t \in Nat, NEW r, NEW left, Hands(order, left, r, t),
           NEW r1, NEW left1, Hands(order, left1, r1, t + 1),
           NEW i \in 1 .. Len(order), left1[i - 1] = left[i - 1]
    PROVE  r1[order[i].group] = r[order[i].group] /\ left1[i] = left[i]
<1>1. /\ r[order[i].group] = Take(order[i].max, LeftGroups(order, i), left[i - 1])
      /\ left[i] = left[i - 1] - r[order[i].group]
  BY DEF Hands
<1>2. /\ r1[order[i].group] = Take(order[i].max, LeftGroups(order, i), left1[i - 1])
      /\ left1[i] = left1[i - 1] - r1[order[i].group]
  BY DEF Hands
<1>3. r1[order[i].group] = r[order[i].group]
  BY <1>1, <1>2
<1>4. QED BY <1>1, <1>2, <1>3

(* From then on nothing differs.                                           *)
LEMMA SameFromThere ==
    ASSUME NEW order, Sorted(order), NEW t \in Nat, NEW r, NEW left, Hands(order, left, r, t),
           NEW r1, NEW left1, Hands(order, left1, r1, t + 1),
           NEW i \in 0 .. Len(order), left1[i] = left[i], NEW j \in i .. Len(order)
    PROVE  left1[j] = left[j]
<1> DEFINE N == Len(order)
           T == {d \in i .. N : left1[d] = left[d]}
<1>1. N \in Nat
  BY DEF Sorted
<1>2. i \in T
  BY <1>1
<1>3. ASSUME NEW d \in i .. N - 1, d \in T PROVE d + 1 \in T
  <2> DEFINE e == d + 1
  <2>1. e \in 1 .. N /\ e - 1 = d /\ e \in i .. N /\ left1[d] = left[d]
    BY <1>1, <1>3
  <2> HIDE DEF e
  <2>2. left1[e - 1] = left[e - 1]
    BY <2>1
  <2>3. left1[e] = left[e]
    BY <2>1, <2>2, SameLeft
  <2>4. QED BY <2>1, <2>3 DEF e
<1> HIDE DEF T, N
<1>4. i \in Nat /\ j \in i .. N
  BY <1>1 DEF N
<1>5. \A d \in i .. N : d \in T
  BY <1>1, <1>2, <1>3, <1>4, FromTo
<1>6. j \in T
  BY <1>4, <1>5
<1>7. QED BY <1>6 DEF T

(* Until then one more is left.                                            *)
LEMMA OneMoreLeft ==
    ASSUME NEW order, Sorted(order), NEW t \in Nat, NEW r, NEW left, Hands(order, left, r, t),
           NEW r1, NEW left1, Hands(order, left1, r1, t + 1),
           NEW i \in 1 .. Len(order), left1[i - 1] = left[i - 1] + 1
    PROVE  \/ r1[order[i].group] = r[order[i].group] /\ left1[i] = left[i] + 1
           \/ r1[order[i].group] = r[order[i].group] + 1 /\ left1[i] = left[i]
<1> DEFINE m == order[i].max
           n == LeftGroups(order, i)
           l == left[i - 1]
           x == r[order[i].group]
           y == r1[order[i].group]
<1>1. m \in Nat /\ n \in Nat \ {0} /\ l \in Nat /\ x = Take(m, n, l) /\ x \in 0 .. m
      /\ left[i] = l - x
  BY HandedOut
<1>2. y = Take(m, n, l + 1) /\ left1[i] = (l + 1) - y
  <2>1. y = Take(m, n, left1[i - 1]) /\ left1[i] = left1[i - 1] - y
    BY DEF Hands
  <2>2. QED BY <2>1
<1> HIDE DEF m, n, l, x, y
<1>3. y \in {x, x + 1}
  BY <1>1, <1>2, TakeOneMore
<1>4. CASE y = x
  <2>1. left1[i] = left[i] + 1
    BY <1>1, <1>2, <1>4
  <2>2. QED BY <1>4, <2>1 DEF x, y
<1>5. CASE y = x + 1
  <2>1. left1[i] = left[i]
    BY <1>1, <1>2, <1>5
  <2>2. QED BY <1>5, <2>1 DEF x, y
<1>6. QED BY <1>3, <1>4, <1>5

(* There is a group that gets the replica, and it is the only one that     *)
(* gets another number than before.                                        *)
LEMMA OneGetsIt ==
    ASSUME NEW order, Sorted(order), NEW t \in Nat, NEW r, NEW left, Hands(order, left, r, t),
           NEW r1, NEW left1, Hands(order, left1, r1, t + 1),
           left[Len(order)] = 0, left1[Len(order)] = 0
    PROVE  \E k \in 1 .. Len(order) :
              /\ r1[order[k].group] = r[order[k].group] + 1
              /\ \A i \in 1 .. Len(order) : i # k => r1[order[i].group] = r[order[i].group]
<1> DEFINE N == Len(order)
           K == {i \in 0 .. N : left1[i] = left[i]}
<1>1. N \in Nat /\ left[0] = t /\ left1[0] = t + 1
  BY DEF Sorted, Hands
<1>2. K \in SUBSET Nat /\ K # {}
  <2>1. N \in K
    BY <1>1
  <2>2. QED BY <2>1
<1> HIDE DEF K
<1>3. PICK k \in K : \A y \in K : k <= y
  BY <1>2, LeastNatural
<1>4. k \in 1 .. N /\ left1[k] = left[k]
  BY <1>1, <1>3 DEF K
<1>5. ASSUME NEW i \in 0 .. k - 1 PROVE left1[i] = left[i] + 1
  <2> DEFINE T == {d \in 0 .. k - 1 : left1[d] = left[d] + 1}
             b == k - 1
  <2>1. 0 \in T /\ b \in Nat
    BY <1>1, <1>4
  <2>2. ASSUME NEW d \in 0 .. b - 1, d \in T PROVE d + 1 \in T
    <3> DEFINE e == d + 1
    <3>1. e \in 1 .. N /\ e - 1 = d /\ e \in 0 .. b /\ e \in 0 .. N /\ ~(k <= e)
          /\ left1[d] = left[d] + 1
      BY <1>1, <1>4, <2>2
    <3> HIDE DEF e
    <3>2. left1[e] # left[e]
      <4>1. e \notin K
        BY <1>3, <3>1
      <4>2. QED BY <3>1, <4>1 DEF K
    <3>3. left1[e - 1] = left[e - 1] + 1
      BY <3>1
    <3>4. left1[e] = left[e] + 1
      <4>1. left1[e] = left[e] + 1 \/ left1[e] = left[e]
        BY <3>1, <3>3, OneMoreLeft
      <4>2. QED BY <3>2, <4>1
    <3>5. QED BY <3>1, <3>4 DEF e
  <2>3. i \in 0 .. b
    BY <1>5
  <2> HIDE DEF T, b
  <2>4. \A d \in 0 .. b : d \in T
    BY <2>1, <2>2, FromTo
  <2>5. i \in T
    BY <2>3, <2>4
  <2>6. QED BY <2>5 DEF T
<1>6. r1[order[k].group] = r[order[k].group] + 1
  <2>1. k - 1 \in 0 .. k - 1
    BY <1>4
  <2>2. left1[k - 1] = left[k - 1] + 1
    BY <1>5, <2>1
  <2>3. left1[k] # left[k] + 1
    <3>1. left[k] \in Nat
      BY <1>4, HandedOut
    <3>2. QED BY <1>4, <3>1
  <2>4. QED BY <1>4, <2>2, <2>3, OneMoreLeft
<1>7. ASSUME NEW i \in 1 .. N, i # k PROVE r1[order[i].group] = r[order[i].group]
  <2>1. CASE i < k
    <3>1. i - 1 \in 0 .. k - 1 /\ i \in 0 .. k - 1
      BY <1>4, <2>1
    <3>2. left1[i - 1] = left[i - 1] + 1 /\ left1[i] = left[i] + 1
      BY <1>5, <3>1
    <3>3. left1[i] # left[i]
      <4>1. left[i] \in Nat
        BY HandedOut
      <4>2. QED BY <3>2, <4>1
    <3>4. QED BY <3>2, <3>3, OneMoreLeft
  <2>2. CASE k < i
    <3>1. i - 1 \in k .. N /\ k \in 0 .. N
      BY <1>1, <1>4, <2>2
    <3>2. left1[i - 1] = left[i - 1]
      BY <1>4, <3>1, SameFromThere
    <3>3. QED BY <3>2, SameLeft
  <2>3. QED BY <1>4, <1>7, <2>1, <2>2
<1>8. QED BY <1>4, <1>6, <1>7

(* Splitting one replica more gives one group one more.                    *)
LEMMA SplitGrows ==
    ASSUME NEW p \in MCPolicies, NEW t \in Nat, t + 1 <= MaxInt32
    PROVE  \E g \in GroupsOf(p) :
              SplitReplicas(p, t + 1) = [SplitReplicas(p, t) EXCEPT ![g] = @ + 1]
<1> DEFINE order == ServingOrder(p)
           N == Len(order)
           r == SplitReplicas(p, t)
           r1 == SplitReplicas(p, t + 1)
<1>1. MaxInt32 \in Nat /\ t + 1 \in Nat /\ t \in 0 .. MaxInt32 /\ t + 1 \in 0 .. MaxInt32
  <2>1. MaxInt32 \in Nat
    BY PolicyAssumption
  <2>2. QED BY <2>1
<1>2. Sorted(order) /\ ToSet(p) = {order[i] : i \in 1 .. N}
  BY OrderIsSorted
<1>3. r \in [GroupsOf(p) -> Nat] /\ \E left : Hands(order, left, r, t)
  BY SplitHands
<1>4. r1 \in [GroupsOf(p) -> Nat] /\ \E left : Hands(order, left, r1, t + 1)
  BY <1>1, SplitHands
<1> HIDE DEF order, r, r1
<1>5. PICK left : Hands(order, left, r, t)
  BY <1>3
<1>6. PICK left1 : Hands(order, left1, r1, t + 1)
  BY <1>4
<1>7. PICK u \in 1 .. N : order[u].max = MaxInt32
  <2>1. PICK a \in ToSet(p) : a.max = MaxInt32
    BY PolicyParts
  <2>2. QED BY <1>2, <2>1
<1>8. left[N] = 0
  BY <1>1, <1>2, <1>5, <1>7, AllHandedOut
<1>9. left1[N] = 0
  BY <1>1, <1>2, <1>6, <1>7, AllHandedOut
<1>10. PICK k \in 1 .. N : /\ r1[order[k].group] = r[order[k].group] + 1
                           /\ \A i \in 1 .. N : i # k => r1[order[i].group] = r[order[i].group]
  BY <1>2, <1>5, <1>6, <1>8, <1>9, OneGetsIt
<1> DEFINE g == order[k].group
<1>11. g \in GroupsOf(p)
  <2>1. order[k] \in ToSet(p)
    BY <1>2
  <2>2. QED BY <2>1 DEF GroupsOf
<1>12. ASSUME NEW h \in GroupsOf(p) PROVE r1[h] = [r EXCEPT ![g] = @ + 1][h]
  <2>1. PICK a \in ToSet(p) : a.group = h
    BY DEF GroupsOf
  <2>2. PICK i \in 1 .. N : order[i] = a
    BY <1>2, <2>1
  <2>3. CASE i = k
    <3>1. h = g
      BY <2>1, <2>2, <2>3
    <3>2. QED BY <1>3, <1>10, <1>11, <3>1
  <2>4. CASE i # k
    <3>1. r1[h] = r[h]
      BY <1>10, <2>1, <2>2, <2>4
    <3>2. h # g
      <4>1. i < k \/ k < i
        BY <2>4
      <4>2. order[i].group # order[k].group
        BY <1>2, <4>1 DEF Sorted
      <4>3. QED BY <2>1, <2>2, <4>2
    <3> HIDE DEF g
    <3>3. QED BY <1>3, <3>1, <3>2
  <2>5. QED BY <2>3, <2>4
<1> HIDE DEF g
<1>13. r1 = [r EXCEPT ![g] = @ + 1]
  BY <1>3, <1>4, <1>11, <1>12
<1>14. QED BY <1>11, <1>13 DEF r, r1

-----------------------------------------------------------------------------
(* The theorems.                                                           *)

(* The replicas are always those of the current policy and total.          *)
LEMMA Invariance == Spec => []Inv
<1>1. Init => Inv
  <2>1. 0 \in 0 .. MaxInt32
    BY PolicyAssumption
  <2>2. QED BY <2>1 DEF Init, Inv
<1>2. Inv /\ [Next]_vars => Inv'
  <2> SUFFICES ASSUME Inv, [Next]_vars PROVE Inv'
    OBVIOUS
  <2>1. MaxInt32 \in Nat /\ policy \in MCPolicies /\ total \in 0 .. MaxInt32
    BY PolicyAssumption DEF Inv
  <2>2. CASE ScaleOut
    <3>1. total' \in 0 .. MaxInt32
      BY <2>1, <2>2 DEF ScaleOut
    <3>2. QED BY <2>1, <2>2, <3>1 DEF ScaleOut, Inv
  <2>3. CASE ScaleIn
    <3>1. total' \in 0 .. MaxInt32
      BY <2>1, <2>3 DEF ScaleIn
    <3>2. QED BY <2>1, <2>3, <3>1 DEF ScaleIn, Inv
  <2>4. CASE Reorder
    <3>1. PICK i \in DOMAIN policy, j \in DOMAIN policy :
             i < j /\ policy' = Exchange(policy, i, j)
      BY <2>4 DEF Reorder, Exchange
    <3>2. policy' \in MCPolicies
      BY <2>1, <3>1, Exchanged
    <3>3. QED BY <2>1, <2>4, <3>2 DEF Reorder, Inv
  <2>5. CASE UNCHANGED vars
    BY <2>5 DEF vars, Inv
  <2>6. QED BY <2>2, <2>3, <2>4, <2>5 DEF Next
<1>3. QED BY <1>1, <1>2, PTL DEF Spec

(* Whatever the policy and the replicas, SplitReplicas never panics, no    *)
(* group exceeds its limit, higher priorities come first and equals get    *)
(* the same but for one replica.                                           *)
THEOREM SplitPromises == Spec => []KeepsPromises
<1>1. Inv => KeepsPromises
  BY SplitKeepsPromises
<1>2. QED BY <1>1, Invariance, PTL

(* Scaling out by one gives one group one replica more and takes none away. *)
THEOREM ScaleOutGrowsOne == Spec => OneGroupGrows
<1>1. ASSUME Inv, Inv', [Next]_vars, total' = total + 1
      PROVE  \E g \in DOMAIN replicas : replicas' = [replicas EXCEPT ![g] = @ + 1]
  <2>1. policy \in MCPolicies /\ total \in Nat /\ total + 1 <= MaxInt32
        /\ replicas = SplitReplicas(policy, total)
        /\ replicas' = SplitReplicas(policy', total + 1)
    <3>1. MaxInt32 \in Nat
      BY PolicyAssumption
    <3>2. QED BY <1>1, <3>1 DEF Inv
  <2>2. policy' = policy
    <3>1. total' # total
      BY <1>1, <2>1
    <3>2. QED BY <1>1, <3>1 DEF Next, ScaleOut, ScaleIn, Reorder, vars
  <2>3. PICK g \in GroupsOf(policy) : SplitReplicas(policy, total + 1)
                                         = [SplitReplicas(policy, total) EXCEPT ![g] = @ + 1]
    BY <2>1, SplitGrows
  <2>4. g \in DOMAIN replicas
    <3>1. SplitReplicas(policy, total) \in [GroupsOf(policy) -> Nat]
      BY <2>1, SplitHands
    <3>2. QED BY <2>1, <2>3, <3>1
  <2>5. QED BY <2>1, <2>2, <2>3, <2>4
<1>2. Inv /\ Inv' /\ [Next]_vars =>
        [total' = total + 1 =>
           \E g \in DOMAIN replicas : replicas' = [replicas EXCEPT ![g] = @ + 1]]_vars
  BY <1>1
<1>3. QED BY <1>2, Invariance, PTL DEF Spec, OneGroupGrows

(* The order in which a policy lists its groups does not matter.           *)
THEOREM SplitIsStable == Spec => Stable
<1>1. ASSUME Inv, Inv', [Next]_vars, total' = total PROVE replicas' = replicas
  <2>1. policy \in MCPolicies /\ total \in Int
    <3>1. MaxInt32 \in Nat
      BY PolicyAssumption
    <3>2. QED BY <1>1, <3>1 DEF Inv
  <2>2. ToSet(policy') = ToSet(policy)
    <3>1. CASE Reorder
      <4>1. PICK i \in DOMAIN policy, j \in DOMAIN policy :
               i < j /\ policy' = Exchange(policy, i, j)
        BY <3>1 DEF Reorder, Exchange
      <4>2. QED BY <2>1, <4>1, Exchanged
    <3>2. CASE ~Reorder
      BY <1>1, <2>1, <3>2 DEF Next, ScaleOut, ScaleIn, vars
    <3>3. QED BY <3>1, <3>2
  <2>3. replicas = SplitReplicas(policy, total) /\ replicas' = SplitReplicas(policy', total)
    BY <1>1 DEF Inv
  <2>4. SplitReplicas(policy', total) = SplitReplicas(policy, total)
    BY <2>2, SameEntries
  <2>5. QED BY <2>3, <2>4
<1>2. Inv /\ Inv' /\ [Next]_vars => [total' = total => replicas' = replicas]_vars
  BY <1>1
<1>3. QED BY <1>2, Invariance, PTL DEF Spec, Stable

(* What ScaleView assumes of a split: every group of the policy gets a     *)
(* share between nothing and everything.                                   *)
THEOREM SharesFit ==
    \A p \in MCPolicies : \A t \in 0 .. MaxInt32 :
        SplitReplicas(p, t) \in [{q.group : q \in ToSet(p)} -> 0 .. t]
<1> SUFFICES ASSUME NEW p \in MCPolicies, NEW t \in 0 .. MaxInt32
             PROVE  SplitReplicas(p, t) \in [GroupsOf(p) -> 0 .. t]
  BY DEF GroupsOf
<1> DEFINE order == ServingOrder(p)
           N == Len(order)
           r == SplitReplicas(p, t)
<1>1. t \in Nat
  <2>1. MaxInt32 \in Nat
    BY PolicyAssumption
  <2>2. QED BY <2>1
<1>2. Sorted(order) /\ N \in Nat /\ ToSet(p) = {order[i] : i \in 1 .. N}
  BY OrderIsSorted DEF Sorted
<1>3. r \in [GroupsOf(p) -> Nat] /\ \E left : Hands(order, left, r, t)
  BY <1>1, SplitHands
<1> HIDE DEF order, r
<1>4. PICK left : Hands(order, left, r, t)
  BY <1>3
<1>5. ASSUME NEW g \in GroupsOf(p) PROVE r[g] \in 0 .. t
  <2>1. PICK a \in ToSet(p) : a.group = g
    BY DEF GroupsOf
  <2>2. PICK i \in 1 .. N : order[i] = a
    BY <1>2, <2>1
  <2>3. left[i - 1] \in Nat /\ left[i] \in Nat /\ left[i] = left[i - 1] - r[order[i].group]
    BY <1>1, <1>2, <1>4, HandedOut
  <2>4. left[i - 1] <= t
    <3>1. 0 \in 0 .. N /\ i - 1 \in 0 .. N /\ 0 <= i - 1 /\ left[0] = t
      BY <1>2, <1>4 DEF Hands
    <3>2. left[i - 1] <= left[0]
      BY <1>1, <1>2, <1>4, <3>1, LessAndLess
    <3>3. QED BY <3>1, <3>2
  <2>5. r[g] \in Nat
    BY <1>3
  <2>6. r[g] <= t
    BY <1>1, <2>1, <2>2, <2>3, <2>4, <2>5
  <2>7. QED BY <1>1, <2>5, <2>6
<1>6. r \in [GroupsOf(p) -> 0 .. t]
  BY <1>3, <1>5
<1>7. QED BY <1>6 DEF r
=============================================================================
