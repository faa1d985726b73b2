--------------------------- MODULE LoadBalancerProofs ---------------------------
(******************************************************************************)
(* The safety of LoadBalancer for every number of backends and all weights.   *)
(******************************************************************************)
EXTENDS LoadBalancer, BreakerProofs, FiniteSetTheorems, FunctionTheorems,
        SequenceTheorems

--------------------------------------------------------------------------------
(* Sums over the backends *)

(* Induction over the naturals, for a set of them.                            *)
LEMMA SetOfAllNaturals ==
  ASSUME NEW S, 0 \in S, \A n \in Nat : n \in S => n + 1 \in S
  PROVE  Nat \subseteq S
<1> SUFFICES ASSUME Nat \ S # {} PROVE FALSE
  OBVIOUS
<1>1. PICK n \in Nat \ S : \A m \in Nat \ S : ~(<<m, n>> \in OpToRel(<, Nat))
  BY NatLessThanWellFounded, WFMin
<1>2. n # 0 /\ n - 1 \in Nat /\ n - 1 < n /\ (n - 1) + 1 = n
  OBVIOUS
<1>3. <<n - 1, n>> \in OpToRel(<, Nat)
  BY <1>2 DEF OpToRel
<1>4. n - 1 \in S
  BY <1>1, <1>2, <1>3
<1> QED BY <1>1, <1>2, <1>4

(* s holds the partial sums of f over the backends.                           *)
IsSum(f, s) == s = [b \in 0 .. N |-> IF b = 0 THEN 0 ELSE s[b - 1] + f[b]]

(* The partial sums are defined, one after the other.                         *)
LEMMA SumOfIsSum ==
  ASSUME NEW f
  PROVE  \E s : IsSum(f, s) /\ SumOf(f) = s[N]
<1> DEFINE UpTo(n, s) == s = [b \in 0 .. n |-> IF b = 0 THEN 0 ELSE s[b - 1] + f[b]]
           S == {n \in Nat : \E s : UpTo(n, s)}
<1>1. 0 \in S
  <2>1. UpTo(0, [b \in 0 .. 0 |-> 0])
    OBVIOUS
  <2> QED BY <2>1
<1>2. ASSUME NEW n \in Nat, n \in S PROVE n + 1 \in S
  <2>1. PICK s : UpTo(n, s)
    BY <1>2
  <2> DEFINE t == [b \in 0 .. n + 1 |-> IF b = n + 1 THEN s[n] + f[n + 1] ELSE s[b]]
  <2>2. \A b \in 0 .. n : s[b] = IF b = 0 THEN 0 ELSE s[b - 1] + f[b]
    BY <2>1
  <2>3. \A b \in 0 .. n + 1 : t[b] = IF b = 0 THEN 0 ELSE t[b - 1] + f[b]
    <3> SUFFICES ASSUME NEW b \in 0 .. n + 1
                 PROVE  t[b] = IF b = 0 THEN 0 ELSE t[b - 1] + f[b]
      OBVIOUS
    <3>1. CASE b = n + 1
      BY <3>1
    <3>2. CASE b # n + 1
      <4>1. b \in 0 .. n /\ t[b] = s[b] /\ (b # 0 => t[b - 1] = s[b - 1])
        BY <3>2
      <4> QED BY <4>1, <2>2
    <3> QED BY <3>1, <3>2
  <2>4. UpTo(n + 1, t)
    BY <2>3
  <2> HIDE DEF t
  <2>5. \E u : UpTo(n + 1, u)
    BY <2>4
  <2> QED BY <2>5
<1>3. N \in S
  BY <1>1, <1>2, SetOfAllNaturals, PoolAssumption
<1>4. \E s : IsSum(f, s)
  BY <1>3 DEF IsSum
<1> QED BY <1>4 DEF IsSum, SumOf

(* What holds of the empty sum, and of each partial sum if of the one before. *)
LEMMA UpToN ==
  ASSUME NEW S, 0 \in S, \A n \in 0 .. N - 1 : n \in S => n + 1 \in S
  PROVE  0 .. N \subseteq S
<1> DEFINE T == {n \in Nat : n <= N => n \in S}
<1>1. 0 \in T
  OBVIOUS
<1>2. \A n \in Nat : n \in T => n + 1 \in T
  BY PoolAssumption
<1>3. Nat \subseteq T
  BY <1>1, <1>2, SetOfAllNaturals
<1> QED BY <1>3, PoolAssumption

LEMMA PartialSums ==
  ASSUME NEW f, NEW s, IsSum(f, s)
  PROVE  s[0] = 0 /\ \A n \in 0 .. N - 1 : s[n + 1] = s[n] + f[n + 1]
<1>1. \A b \in 0 .. N : s[b] = IF b = 0 THEN 0 ELSE s[b - 1] + f[b]
  BY DEF IsSum
<1> QED BY <1>1, PoolAssumption

LEMMA PartialSumsAreIntegers ==
  ASSUME NEW f \in [Backend -> Int], NEW s, IsSum(f, s)
  PROVE  \A n \in 0 .. N : s[n] \in Int
<1> DEFINE S == {n \in 0 .. N : s[n] \in Int}
<1>1. 0 \in S
  BY PartialSums, PoolAssumption
<1>2. ASSUME NEW n \in 0 .. N - 1, n \in S PROVE n + 1 \in S
  <2>1. n + 1 \in Backend /\ n + 1 \in 0 .. N /\ f[n + 1] \in Int
    BY PoolAssumption DEF Backend
  <2>2. s[n + 1] = s[n] + f[n + 1]
    BY PartialSums
  <2> QED BY <1>2, <2>1, <2>2
<1>3. 0 .. N \subseteq S
  BY <1>1, <1>2, UpToN
<1> QED BY <1>3

LEMMA SumIsInteger ==
  ASSUME NEW f \in [Backend -> Int]
  PROVE  SumOf(f) \in Int
  BY SumOfIsSum, PartialSumsAreIntegers, PoolAssumption

(* Sums add up.                                                               *)
LEMMA SumAdds ==
  ASSUME NEW f \in [Backend -> Int], NEW g \in [Backend -> Int],
         NEW h \in [Backend -> Int], \A b \in Backend : h[b] = f[b] + g[b]
  PROVE  SumOf(h) = SumOf(f) + SumOf(g)
<1>1. PICK sf : IsSum(f, sf) /\ SumOf(f) = sf[N]
  BY SumOfIsSum
<1>2. PICK sg : IsSum(g, sg) /\ SumOf(g) = sg[N]
  BY SumOfIsSum
<1>3. PICK sh : IsSum(h, sh) /\ SumOf(h) = sh[N]
  BY SumOfIsSum
<1> DEFINE S == {n \in 0 .. N : sh[n] = sf[n] + sg[n]}
<1>4. 0 \in S
  BY <1>1, <1>2, <1>3, PartialSums, PoolAssumption
<1>5. ASSUME NEW n \in 0 .. N - 1, n \in S PROVE n + 1 \in S
  <2>1. /\ sf[n + 1] = sf[n] + f[n + 1]
        /\ sg[n + 1] = sg[n] + g[n + 1]
        /\ sh[n + 1] = sh[n] + h[n + 1]
    BY <1>1, <1>2, <1>3, PartialSums
  <2>2. n + 1 \in Backend /\ n \in 0 .. N /\ n + 1 \in 0 .. N
    BY PoolAssumption DEF Backend
  <2>3. sf[n] \in Int /\ sg[n] \in Int /\ sh[n] \in Int
    BY <1>1, <1>2, <1>3, <2>2, PartialSumsAreIntegers
  <2>4. f[n + 1] \in Int /\ g[n + 1] \in Int /\ h[n + 1] = f[n + 1] + g[n + 1]
    BY <2>2
  <2> QED BY <1>5, <2>1, <2>2, <2>3, <2>4
<1>6. 0 .. N \subseteq S
  BY <1>4, <1>5, UpToN
<1> QED BY <1>1, <1>2, <1>3, <1>6, PoolAssumption

(* A sum with at most one term that is not zero is that term.                 *)
LEMMA SumOfOne ==
  ASSUME NEW f \in [Backend -> Int], NEW c \in Backend,
         \A b \in Backend \ {c} : f[b] = 0
  PROVE  SumOf(f) = f[c]
<1>1. PICK s : IsSum(f, s) /\ SumOf(f) = s[N]
  BY SumOfIsSum
<1> DEFINE S == {n \in 0 .. N : s[n] = IF n < c THEN 0 ELSE f[c]}
<1>2. 0 \in S
  BY <1>1, PartialSums, PoolAssumption DEF Backend
<1>3. ASSUME NEW n \in 0 .. N - 1, n \in S PROVE n + 1 \in S
  <2>1. n + 1 \in Backend /\ n + 1 \in 0 .. N /\ c \in Int /\ f[c] \in Int
    BY PoolAssumption DEF Backend
  <2>2. s[n + 1] = s[n] + f[n + 1]
    BY <1>1, PartialSums
  <2>3. f[n + 1] = IF n + 1 = c THEN f[c] ELSE 0
    BY <2>1
  <2> QED BY <1>3, <2>1, <2>2, <2>3
<1>4. 0 .. N \subseteq S
  BY <1>2, <1>3, UpToN
<1> QED BY <1>1, <1>4, PoolAssumption DEF Backend

LEMMA TotalIsInteger == ASSUME NEW S PROVE Total(S) \in Int
  BY SumIsInteger, PoolAssumption DEF Total

--------------------------------------------------------------------------------
(* The order in which a Pick asks the backends *)

(* A list of n different backends that are all of S.                          *)
Enumerates(list, n, S) == n \in Nat /\ list \in Bijection(1 .. n, S)

LEMMA EnumeratesIsSeq ==
  ASSUME NEW list, NEW n, NEW S, Enumerates(list, n, S)
  PROVE  /\ list \in [1 .. n -> S] /\ list \in Seq(S) /\ Len(list) = n
         /\ DOMAIN list = 1 .. n /\ Members(list) = S
         /\ \A i, j \in 1 .. n : list[i] = list[j] => i = j
<1>1. /\ n \in Nat /\ list \in [1 .. n -> S]
      /\ \A i, j \in 1 .. n : list[i] = list[j] => i = j
      /\ \A t \in S : \E i \in 1 .. n : list[i] = t
  BY Fun_BijectionProperties DEF Enumerates
<1>2. list \in Seq(S) /\ Len(list) = n
  BY <1>1
<1>3. Members(list) = S
  BY <1>1 DEF Members
<1> QED BY <1>1, <1>2, <1>3

(* Taking the elements in another order.                                      *)
LEMMA Reordered ==
  ASSUME NEW list, NEW n, NEW S, Enumerates(list, n, S), NEW p \in [1 .. n -> 1 .. n],
         \A i, j \in 1 .. n : p[i] = p[j] => i = j,
         NEW l \in [1 .. n -> S], \A i \in 1 .. n : l[i] = list[p[i]]
  PROVE  Enumerates(l, n, S)
<1>1. /\ n \in Nat /\ list \in [1 .. n -> S]
      /\ \A i, j \in 1 .. n : list[i] = list[j] => i = j
      /\ \A t \in S : \E i \in 1 .. n : list[i] = t
  <2>1. /\ list \in [1 .. n -> S] /\ DOMAIN list = 1 .. n /\ Members(list) = S
        /\ \A i, j \in 1 .. n : list[i] = list[j] => i = j
    BY EnumeratesIsSeq
  <2>2. \A t \in S : \E i \in 1 .. n : list[i] = t
    BY <2>1 DEF Members
  <2> QED BY <2>1, <2>2 DEF Enumerates
<1>2. p \in Injection(1 .. n, 1 .. n)
  BY Fun_IsInj
<1>3. p \in Surjection(1 .. n, 1 .. n)
  BY <1>1, <1>2, FS_Interval, FS_Injection
<1>4. \A j \in 1 .. n : \E i \in 1 .. n : p[i] = j
  BY <1>3 DEF Surjection
<1>5. l \in [1 .. n -> S] /\ \A i, j \in 1 .. n : l[i] = l[j] => i = j
  BY <1>1
<1>6. \A t \in S : \E i \in 1 .. n : l[i] = t
  BY <1>1, <1>4
<1>7. l \in Injection(1 .. n, S) /\ l \in Surjection(1 .. n, S)
  BY <1>5, <1>6, Fun_IsInj, Fun_IsSurj
<1> QED BY <1>1, <1>7 DEF Enumerates, Bijection

(* The i-th and the j-th of n places, turned by k, are different.             *)
LEMMA TurnedApart ==
  ASSUME NEW n \in Nat \ {0}, NEW k \in Nat, NEW i \in 1 .. n, NEW j \in 1 .. n,
         (k + i - 1) % n = (k + j - 1) % n
  PROVE  i = j
<1> DEFINE a == k + i - 1
           b == k + j - 1
<1>1. a \in Nat /\ b \in Nat
  OBVIOUS
<1>2. /\ a = n * (a \div n) + (a % n) /\ a \div n \in Int
      /\ b = n * (b \div n) + (b % n) /\ b \div n \in Int
  BY <1>1
<1>3. a - b = n * ((a \div n) - (b \div n))
  BY <1>1, <1>2
<1>4. a - b < n /\ b - a < n
  OBVIOUS
<1>5. \A x \in Int : n * x < n /\ -(n * x) < n => x = 0
  OBVIOUS
<1>6. (a \div n) - (b \div n) = 0
  BY <1>2, <1>3, <1>4, <1>5
<1>7. a - b = 0
  BY <1>3, <1>6
<1> QED BY <1>7

LEMMA RotateEnumerates ==
  ASSUME NEW list, NEW n, NEW S, Enumerates(list, n, S), NEW k \in Nat
  PROVE  Enumerates(Rotate(list, k), n, S)
<1>1. n \in Nat /\ Len(list) = n /\ DOMAIN list = 1 .. n
  BY EnumeratesIsSeq DEF Enumerates
<1> DEFINE p == [i \in 1 .. n |-> ((k + i - 1) % n) + 1]
<1>2. p \in [1 .. n -> 1 .. n]
  <2> SUFFICES ASSUME NEW i \in 1 .. n PROVE ((k + i - 1) % n) + 1 \in 1 .. n
    OBVIOUS
  <2>1. n \in Nat \ {0} /\ k + i - 1 \in Nat
    BY <1>1
  <2>2. (k + i - 1) % n \in 0 .. n - 1
    BY <2>1
  <2> QED BY <2>1, <2>2
<1>3. \A i, j \in 1 .. n : p[i] = p[j] => i = j
  <2> SUFFICES ASSUME NEW i \in 1 .. n, NEW j \in 1 .. n, p[i] = p[j] PROVE i = j
    OBVIOUS
  <2>1. n \in Nat \ {0} /\ (k + i - 1) % n \in Int /\ (k + j - 1) % n \in Int
    BY <1>1
  <2>2. (k + i - 1) % n = (k + j - 1) % n
    BY <2>1
  <2> QED BY <2>1, <2>2, TurnedApart
<1>4. Rotate(list, k) = [i \in 1 .. n |-> list[p[i]]]
  BY <1>1 DEF Rotate
<1>5. list \in [1 .. n -> S]
  BY EnumeratesIsSeq
<1> HIDE DEF p
<1>6. Rotate(list, k) \in [1 .. n -> S]
      /\ \A i \in 1 .. n : Rotate(list, k)[i] = list[p[i]]
  BY <1>2, <1>4, <1>5
<1> QED BY <1>2, <1>3, <1>6, Reordered

LEMMA BestFirstEnumerates ==
  ASSUME NEW list, NEW n, NEW S, Enumerates(list, n, S), NEW b \in S
  PROVE  Enumerates(BestFirst(b, list), n, S) /\ BestFirst(b, list)[1] = b
<1>1. n \in Nat /\ DOMAIN list = 1 .. n /\ Members(list) = S
  BY EnumeratesIsSeq DEF Enumerates
<1> DEFINE q == CHOOSE i \in DOMAIN list : list[i] = b
           p == [i \in 1 .. n |-> IF i = 1 THEN q ELSE IF i <= q THEN i - 1 ELSE i]
<1>2. q \in 1 .. n /\ list[q] = b
  BY <1>1 DEF Members
<1>3. BestFirst(b, list) = [i \in 1 .. n |-> list[p[i]]]
  BY <1>1, <1>2 DEF BestFirst
<1> HIDE DEF q
<1>4. p \in [1 .. n -> 1 .. n]
  BY <1>1, <1>2
<1>5. \A i, j \in 1 .. n : p[i] = p[j] => i = j
  BY <1>1, <1>2
<1>6. 1 \in 1 .. n /\ p[1] = q
  BY <1>1, <1>2
<1>7. BestFirst(b, list)[1] = b
  BY <1>2, <1>3, <1>6
<1> HIDE DEF p
<1>8. list \in [1 .. n -> S]
  BY EnumeratesIsSeq
<1>9. BestFirst(b, list) \in [1 .. n -> S]
      /\ \A i \in 1 .. n : BestFirst(b, list)[i] = list[p[i]]
  BY <1>3, <1>4, <1>8
<1>10. Enumerates(BestFirst(b, list), n, S)
  BY <1>4, <1>5, <1>9, Reordered
<1> QED BY <1>7, <1>10

(* HealthyList counts off the healthy backends.                               *)
LEMMA HealthyListEnumerates ==
  Enumerates(HealthyList, Cardinality(Healthy), Healthy)
<1> DEFINE n == Cardinality(Healthy)
           UpTo(b) == {a \in Healthy : a <= b}
           rank == [b \in Healthy |-> Cardinality(UpTo(b))]
<1>1. IsFiniteSet(Healthy) /\ n \in Nat /\ Healthy \subseteq Int
  <2>1. IsFiniteSet(Backend) /\ Healthy \in SUBSET Backend /\ Backend \subseteq Int
    BY FS_Interval, PoolAssumption DEF Healthy, Backend
  <2> QED BY <2>1, FS_Subset, FS_CardinalityType
<1>2. ASSUME NEW b \in Healthy
      PROVE  IsFiniteSet(UpTo(b)) /\ Cardinality(UpTo(b)) \in 1 .. n
  <2>1. UpTo(b) \in SUBSET Healthy /\ b \in UpTo(b)
    BY <1>1
  <2>2. IsFiniteSet(UpTo(b)) /\ Cardinality(UpTo(b)) <= n
    BY <1>1, <2>1, FS_Subset
  <2>3. Cardinality(UpTo(b)) \in Nat /\ Cardinality(UpTo(b)) # 0
    BY <2>1, <2>2, FS_CardinalityType, FS_EmptySet
  <2> QED BY <1>1, <2>2, <2>3
<1>3. ASSUME NEW a \in Healthy, NEW b \in Healthy,
             Cardinality(UpTo(a)) = Cardinality(UpTo(b)), a <= b
      PROVE  a = b
  <2>1. UpTo(a) \in SUBSET UpTo(b)
    <3>1. \A c \in Healthy : c <= a => c <= b
      BY <1>1, <1>3
    <3> QED BY <3>1
  <2>2. UpTo(a) = UpTo(b)
    BY <1>2, <1>3, <2>1, FS_Subset
  <2>3. b \in UpTo(a)
    BY <1>1, <2>2
  <2> QED BY <1>1, <1>3, <2>3
<1>4. rank \in [Healthy -> 1 .. n]
  BY <1>2
<1>5. \A a, b \in Healthy : rank[a] = rank[b] => a = b
  <2> SUFFICES ASSUME NEW a \in Healthy, NEW b \in Healthy, rank[a] = rank[b]
               PROVE  a = b
    OBVIOUS
  <2>1. a <= b \/ b <= a
    BY <1>1
  <2> QED BY <1>3, <2>1
<1>6. rank \in Injection(Healthy, 1 .. n)
  BY <1>4, <1>5, Fun_IsInj
<1>7. IsFiniteSet(1 .. n) /\ Cardinality(1 .. n) = n
  BY <1>1, FS_Interval
<1>8. rank \in Surjection(Healthy, 1 .. n)
  BY <1>6, <1>7, FS_Injection
<1>9. \A i \in 1 .. n : \E b \in Healthy : Cardinality(UpTo(b)) = i
  <2>1. \A i \in 1 .. n : \E b \in Healthy : rank[b] = i
    BY <1>8 DEF Surjection
  <2>2. \A b \in Healthy : rank[b] = Cardinality(UpTo(b))
    OBVIOUS
  <2> QED BY <2>1, <2>2
<1>10. HealthyList = [i \in 1 .. n |-> CHOOSE b \in Healthy : Cardinality(UpTo(b)) = i]
  BY DEF HealthyList
<1> HIDE DEF UpTo
<1>11. \A i \in 1 .. n : HealthyList[i] \in Healthy /\ Cardinality(UpTo(HealthyList[i])) = i
  BY <1>9, <1>10
<1>12. HealthyList \in [1 .. n -> Healthy]
  BY <1>10, <1>11
<1>13. \A i, j \in 1 .. n : HealthyList[i] = HealthyList[j] => i = j
  BY <1>11
<1>14. HealthyList \in Injection(1 .. n, Healthy)
  BY <1>12, <1>13, Fun_IsInj
<1>15. HealthyList \in Surjection(1 .. n, Healthy)
  BY <1>1, <1>7, <1>14, FS_Injection
<1> QED BY <1>1, <1>14, <1>15 DEF Enumerates, Bijection

(* Whatever the algorithm, a Pick asks every healthy backend once.            *)
LEMMA OrdersEnumerate ==
  ASSUME TypeOK, NEW hash \in Hashes, HealthyList # <<>>, NEW list \in Orders(hash)
  PROVE  Enumerates(list, Cardinality(Healthy), Healthy)
<1> DEFINE n == Cardinality(Healthy)
           All(l) == Enumerates(l, n, Healthy)
           turned == Rotate(HealthyList, tieIdx)
<1>1. /\ algorithm \in algorithmNames
      /\ rrIdx \in Nat /\ tieIdx \in Nat /\ hash \in Nat
  BY PoolAssumption DEF TypeOK
<1>2. All(HealthyList) /\ DOMAIN HealthyList = 1 .. n
  BY HealthyListEnumerates, EnumeratesIsSeq
<1> HIDE DEF n, All
<1>3. \A k \in Nat : All(Rotate(HealthyList, k))
  BY <1>2, RotateEnumerates DEF All
<1>4. All(turned)
  BY <1>1, <1>3
<1>5. \A b \in Best(turned) : b \in Healthy
  <2>1. Members(turned) = Healthy
    BY <1>4, EnumeratesIsSeq DEF All
  <2> QED BY <2>1 DEF Best, Members
<1>6. \A l : All(l) => \A b \in Healthy : All(BestFirst(b, l))
  BY BestFirstEnumerates DEF All
<1>7. \A b \in Best(turned) : All(BestFirst(b, turned)) /\ All(BestFirst(b, HealthyList))
  BY <1>2, <1>4, <1>5, <1>6
<1>8. \A a, b \in Healthy : All(TwoFirst(a, b, HealthyList))
  BY <1>2, <1>6 DEF TwoFirst
<1> HIDE DEF turned
<1>9. CASE algorithm = "round-robin"
  BY <1>1, <1>3, <1>9 DEF Orders, All, n
<1>10. CASE algorithm = "ip-hash"
  BY <1>1, <1>3, <1>10 DEF Orders, All, n
<1>11. CASE algorithm = "random"
  <2>1. PICK k \in DOMAIN HealthyList : list = Rotate(HealthyList, k)
    BY <1>11 DEF Orders
  <2>2. k \in Nat
    BY <1>2
  <2> QED BY <1>3, <2>1, <2>2 DEF All, n
<1>12. CASE algorithm \in {"least-connections", "least-response-time"}
  <2>1. PICK b \in Best(turned) : list = BestFirst(b, turned)
    BY <1>12 DEF Orders, turned
  <2> QED BY <1>7, <2>1 DEF All, n
<1>13. CASE algorithm = "weighted-round-robin"
  <2>1. PICK b \in Best(turned) : list = BestFirst(b, HealthyList)
    BY <1>13 DEF Orders, turned
  <2> QED BY <1>7, <2>1 DEF All, n
<1>14. CASE algorithm = "power-of-two-choices"
  <2>1. \/ list = HealthyList
        \/ \E p \in Healthy \X Healthy : list = TwoFirst(p[1], p[2], HealthyList)
    BY <1>14 DEF Orders
  <2> QED BY <1>2, <1>8, <2>1 DEF All, n
<1> QED BY <1>1, <1>9, <1>10, <1>11, <1>12, <1>13, <1>14 DEF algorithmNames

(* What a Pick sets out with.                                                 *)
LEMMA ChooseAsksAll ==
  ASSUME TypeOK, NEW hash \in Hashes, Choose(hash)
  PROVE  Enumerates(order', Cardinality(Healthy), Healthy)
<1>1. CASE HealthyList = <<>>
  BY <1>1, HealthyListEnumerates DEF Choose
<1>2. CASE HealthyList # <<>>
  BY <1>2, OrdersEnumerate DEF Choose
<1> QED BY <1>1, <1>2

(* When there is somebody to ask, the first to be asked is healthy.           *)
LEMMA ChooseHead ==
  ASSUME TypeOK, NEW hash \in Hashes, Choose(hash), HealthyList # <<>>
  PROVE  Head(order') \in Healthy
<1> DEFINE n == Cardinality(Healthy)
<1>1. order' \in [1 .. n -> Healthy] /\ order' \in Seq(Healthy) /\ n \in Nat
  BY ChooseAsksAll, EnumeratesIsSeq DEF Enumerates
<1>2. HealthyList \in Seq(Healthy) /\ Len(HealthyList) = n
  BY HealthyListEnumerates, EnumeratesIsSeq
<1>3. n # 0
  BY <1>2, EmptySeq
<1> QED BY <1>1, <1>3

Available == Cardinality(Healthy)

LEMMA AvailableIsPositive ==
  ASSUME Healthy # {}
  PROVE  Available \in Nat \ {0} /\ HealthyList # <<>> /\ Len(HealthyList) = Available
<1>1. Available \in Nat /\ Len(HealthyList) = Available /\ Members(HealthyList) = Healthy
      /\ DOMAIN HealthyList = 1 .. Available
  BY HealthyListEnumerates, EnumeratesIsSeq DEF Enumerates, Available
<1>2. Available # 0
  BY <1>1 DEF Members
<1>3. Len(<<>>) = 0
  OBVIOUS
<1> QED BY <1>1, <1>2, <1>3

LEMMA TurnedList ==
  ASSUME Healthy # {}, NEW u \in Nat
  PROVE  /\ \A i \in 1 .. Available : Rotate(HealthyList, u)[i] \in Healthy
         /\ \A b \in Healthy : \E i \in 1 .. Available : Rotate(HealthyList, u)[i] = b
         /\ \A i, j \in 1 .. Available :
              Rotate(HealthyList, u)[i] = Rotate(HealthyList, u)[j] => i = j
         /\ DOMAIN Rotate(HealthyList, u) = 1 .. Available
<1>1. Enumerates(Rotate(HealthyList, u), Available, Healthy)
  BY HealthyListEnumerates, RotateEnumerates DEF Available
<1> HIDE DEF Available
<1> DEFINE list == Rotate(HealthyList, u)
<1> HIDE DEF list
<1>2. /\ list \in [1 .. Available -> Healthy] /\ DOMAIN list = 1 .. Available
      /\ Members(list) = Healthy
      /\ \A i, j \in 1 .. Available : list[i] = list[j] => i = j
  BY <1>1, EnumeratesIsSeq DEF list
<1> QED BY <1>2 DEF Members, list

(* Whom a Pick asks first.                                                    *)
LEMMA FirstAsked ==
  ASSUME TypeOK, NEW hash \in Hashes, Choose(hash), Healthy # {}
  PROVE  /\ order' # <<>> /\ Head(order') \in Healthy /\ Head(order') = order'[1]
         /\ order' \in Orders(hash)
         /\ algorithm = "weighted-round-robin" =>
              currentWeight' = Reweigh(Head(order'))
<1>1. HealthyList # <<>> /\ Available \in Nat \ {0}
  BY AvailableIsPositive
<1>2. order' \in Seq(Healthy) /\ Len(order') = Available
  BY ChooseAsksAll, EnumeratesIsSeq DEF Available
<1>3. Head(order') \in Healthy
  BY <1>1, ChooseHead
<1>4. order' # <<>> /\ Head(order') = order'[1]
  BY <1>1, <1>2
<1> QED BY <1>1, <1>3, <1>4 DEF Choose

(* The chosen one has at least as much as any other.                          *)
LEMMA HeaviestFirst ==
  ASSUME TypeOK, NEW hash \in Hashes, Choose(hash), Healthy # {},
         algorithm = "weighted-round-robin", NEW b \in Healthy
  PROVE  currentWeight[Head(order')] + Weight[Head(order')] >= currentWeight[b] + Weight[b]
<1> DEFINE turned == Rotate(HealthyList, tieIdx)
<1>1. tieIdx \in Nat
  BY PoolAssumption DEF TypeOK
<1>2. /\ \A i \in 1 .. Available : turned[i] \in Healthy
      /\ \A c \in Healthy : \E i \in 1 .. Available : turned[i] = c
      /\ DOMAIN turned = 1 .. Available
  BY <1>1, TurnedList
<1>3. PICK best \in Best(turned) : order' = BestFirst(best, HealthyList)
  BY FirstAsked DEF Orders
<1> HIDE DEF turned
<1>4. PICK i \in 1 .. Available :
        /\ best = turned[i]
        /\ \A j \in 1 .. Available :
             /\ j < i => Beats(turned[i], turned[j])
             /\ j > i => ~Beats(turned[j], turned[i])
  BY <1>2, <1>3 DEF Best
<1>5. best \in Healthy
  BY <1>2, <1>4
<1>6. Head(order') = best
  <2>1. BestFirst(best, HealthyList)[1] = best
    BY <1>5, HealthyListEnumerates, BestFirstEnumerates
  <2> QED BY <1>3, <2>1, FirstAsked
<1>7. PICK j \in 1 .. Available : turned[j] = b
  BY <1>2
<1>8. /\ currentWeight[best] + Weight[best] \in Int
      /\ currentWeight[b] + Weight[b] \in Int
  BY <1>5, PoolAssumption DEF TypeOK, Healthy
<1>9. i \in Int /\ j \in Int
  BY AvailableIsPositive
<1>10. \A c, d : Beats(c, d) <=> currentWeight[c] + Weight[c] > currentWeight[d] + Weight[d]
  BY DEF Beats, Heavier
<1>11. CASE j < i
  BY <1>4, <1>6, <1>7, <1>8, <1>10, <1>11
<1>12. CASE j > i
  BY <1>4, <1>6, <1>7, <1>8, <1>10, <1>12
<1>13. CASE j = i
  BY <1>4, <1>6, <1>7, <1>8, <1>13
<1> QED BY <1>9, <1>11, <1>12, <1>13

--------------------------------------------------------------------------------
(* Types *)

LEMMA LatencyBounds ==
  \E m \in Nat : Latency = 0 .. m /\ \A us \in Sample : us <= m
<1>1. CASE Sample = {}
  BY <1>1 DEF Latency
<1>2. CASE Sample # {}
  <2> DEFINE m == CHOOSE m \in Sample : \A s \in Sample : s <= m
  <2>1. m \in Sample /\ \A s \in Sample : s <= m
    BY <1>2, PoolAssumption
  <2> HIDE DEF m
  <2>2. m \in Nat
    BY <2>1, PoolAssumption
  <2>3. Latency = 0 .. m
    BY <1>2 DEF Latency, m
  <2> QED BY <2>1, <2>2, <2>3
<1> QED BY <1>1, <1>2

LEMMA NextIndex ==
  ASSUME NEW i \in 0 .. IdxMod - 1
  PROVE  (i + 1) % IdxMod \in 0 .. IdxMod - 1
<1>1. IdxMod \in Nat \ {0}
  BY PoolAssumption
<1> QED BY <1>1

LEMMA ChooseTyped ==
  ASSUME TypeOK, NEW hash \in Hashes, Choose(hash)
  PROVE  TypeOK'
<1>1. order' \in Seq(Backend)
  <2>1. order' \in Seq(Healthy)
    BY ChooseAsksAll, EnumeratesIsSeq
  <2> QED BY <2>1, SeqMonotonic DEF Healthy
<1>2. tieIdx' \in 0 .. IdxMod - 1
  BY NextIndex DEF TypeOK, Choose
<1>3. currentWeight' \in [Backend -> Int]
  <2>1. \A best : Reweigh(best) \in [Backend -> Int]
    <3> SUFFICES ASSUME NEW best, NEW b \in Backend PROVE Reweigh(best)[b] \in Int
      BY DEF Reweigh
    <3>1. Total(Healthy) \in Int /\ currentWeight[b] \in Int /\ Weight[b] \in Int
      BY TotalIsInteger, PoolAssumption DEF TypeOK
    <3> QED BY <3>1 DEF Reweigh
  <2> QED BY <2>1 DEF TypeOK, Choose
<1> QED BY <1>1, <1>2, <1>3 DEF TypeOK, Choose, backendVars

LEMMA PickTyped ==
  ASSUME TypeOK, Refused \/ GiveUp \/ \E b \in Backend : Granted(b)
  PROVE  TypeOK'
<1>1. Advance \in 0 .. IdxMod - 1
  BY NextIndex DEF TypeOK, Advance
<1>2. CASE Refused
  <2>1. order' \in Seq(Backend)
    BY <1>2, HeadTailProperties DEF Refused, TypeOK
  <2> QED BY <1>1, <1>2, <2>1 DEF Refused, TypeOK, backendVars
<1>3. CASE GiveUp
  BY <1>3 DEF GiveUp, TypeOK, lbVars, backendVars
<1>4. ASSUME NEW b \in Backend, Granted(b) PROVE TypeOK'
  <2>1. cb' \in [Backend -> BreakerType]
    BY <1>4, AfterAllowKeepsCounts DEF Granted, TypeOK
  <2> QED BY <1>1, <1>4, <2>1 DEF Granted, TypeOK
<1> QED BY <1>2, <1>3, <1>4

(* Replacing a value of a function keeps its type, also off its domain.       *)
LEMMA Replaced ==
  ASSUME NEW S, NEW f \in [Backend -> S], NEW b, NEW v, b \in Backend => v \in S
  PROVE  [f EXCEPT ![b] = v] \in [Backend -> S]
  OBVIOUS

(* The other operations, on whatever backend.                                 *)
LEMMA OthersTyped ==
  ASSUME TypeOK, NEW b, NEW ok \in BOOLEAN, NEW us \in Nat, NEW a \in Algorithms,
         \/ SetAlgorithm(a) \/ checkBackend(b, ok) \/ AddActive(b) \/ DropActive(b)
         \/ Report(b, ok) \/ (us \in Sample /\ RecordLatency(b, us)) \/ Tick
  PROVE  TypeOK'
<1> USE DEF TypeOK, lbVars, backendVars, pickVars
<1>1. CASE SetAlgorithm(a)
  BY <1>1 DEF SetAlgorithm
<1>2. CASE checkBackend(b, ok)
  BY <1>2 DEF checkBackend
<1>3. CASE AddActive(b)
  <2>1. b \in Backend => active[b] + 1 \in 0 .. MaxActive
    BY <1>3, PoolAssumption DEF AddActive
  <2>2. active' \in [Backend -> 0 .. MaxActive]
    BY <1>3, <2>1, Replaced DEF AddActive
  <2> QED BY <1>3, <2>2 DEF AddActive
<1>4. CASE DropActive(b)
  <2>1. b \in Backend => active[b] - 1 \in 0 .. MaxActive
    BY <1>4, PoolAssumption DEF DropActive
  <2>2. active' \in [Backend -> 0 .. MaxActive]
    BY <1>4, <2>1, Replaced DEF DropActive
  <2> QED BY <1>4, <2>2 DEF DropActive
<1>5. CASE Report(b, ok)
  <2>1. cb' \in [Backend -> BreakerType]
    BY <1>5, RecordSuccessCloses, RecordFailureCounts DEF Report
  <2> QED BY <1>5, <2>1 DEF Report
<1>6. CASE us \in Sample /\ RecordLatency(b, us)
  <2>1. PICK m \in Nat : Latency = 0 .. m /\ \A s \in Sample : s <= m
    BY LatencyBounds
  <2>2. us \in 0 .. m /\ ewmaUs \in [Backend -> 0 .. m]
    BY <1>6, <2>1
  <2>3. b \in Backend => (IF ewmaUs[b] = 0 THEN us ELSE (us + ewmaUs[b]) \div 2) \in 0 .. m
    BY <2>2
  <2>4. ewmaUs' \in [Backend -> 0 .. m]
    BY <1>6, <2>2, <2>3, Replaced DEF RecordLatency
  <2> QED BY <1>6, <2>1, <2>4 DEF RecordLatency
<1>7. CASE Tick
  BY <1>7, ElapseKeepsState DEF Tick
<1> QED BY <1>1, <1>2, <1>3, <1>4, <1>5, <1>6, <1>7

LEMMA NewLoadBalancerTyped == NewLoadBalancer => TypeOK
<1>1. 0 \in Latency
  BY LatencyBounds
<1>2. <<>> \in Seq(Backend)
  BY EmptySeq
<1> QED BY <1>1, <1>2, NewBreakerIsClosed, PoolAssumption DEF NewLoadBalancer, TypeOK

LEMMA NextTyped == TypeOK /\ [Next]_vars => TypeOK'
<1> SUFFICES ASSUME TypeOK, [Next]_vars PROVE TypeOK'
  OBVIOUS
<1>1. ASSUME NEW hash \in Hashes, Choose(hash) PROVE TypeOK'
  BY <1>1, ChooseTyped
<1>2. CASE Refused \/ GiveUp \/ \E b \in Backend : Granted(b)
  BY <1>2, PickTyped
<1>3. ASSUME NEW a \in Algorithms, SetAlgorithm(a) PROVE TypeOK'
  BY <1>3, OthersTyped
<1>4. ASSUME NEW b \in Flaky, NEW ok \in BOOLEAN, checkBackend(b, ok) PROVE TypeOK'
  BY <1>4, OthersTyped, PoolAssumption
<1>5. ASSUME NEW b \in Called,
             AddActive(b) \/ DropActive(b) \/ \E ok \in BOOLEAN : Report(b, ok)
      PROVE  TypeOK'
  BY <1>5, OthersTyped, PoolAssumption
<1>6. ASSUME NEW b \in Called, NEW us \in Sample, RecordLatency(b, us) PROVE TypeOK'
  BY <1>6, OthersTyped, PoolAssumption
<1>7. CASE Tick
  BY <1>7, OthersTyped, PoolAssumption
<1>8. CASE UNCHANGED vars
  BY <1>8 DEF vars, lbVars, backendVars, pickVars, TypeOK
<1> QED BY <1>1, <1>2, <1>3, <1>4, <1>5, <1>6, <1>7, <1>8 DEF Next

(* Indexes, latencies, counts and breakers of the pool stay in range, and the *)
(* list of backends to ask one of backends, whatever is called in whatever    *)
(* order.                                                                     *)
THEOREM SpecTypeOK == Spec => []TypeOK
  BY NewLoadBalancerTyped, NextTyped, PTL DEF Spec, Init

--------------------------------------------------------------------------------
(* Selection *)

(* Every Pick sets out to ask each healthy backend exactly once, for every    *)
(* number of backends, every algorithm, rotation and client.                  *)
THEOREM SpecAsksEveryHealthyBackendOnce == Spec => AsksEveryHealthyBackendOnce
<1> DEFINE Asks == mu = "free" /\ mu' = "pick" =>
                     /\ Members(order') = Healthy
                     /\ Len(order') = Cardinality(Members(order'))
<1>1. ASSUME TypeOK, [Next]_vars PROVE [Asks]_vars
  <2>1. ASSUME NEW hash \in Hashes, Choose(hash) PROVE Asks
    BY <1>1, <2>1, ChooseAsksAll, EnumeratesIsSeq
  <2>2. ASSUME NEW b \in Backend, Granted(b) PROVE Asks
    BY <2>2 DEF Granted
  <2>3. ASSUME NEW a \in Algorithms, SetAlgorithm(a) PROVE Asks
    BY <2>3 DEF SetAlgorithm, pickVars
  <2>4. ASSUME NEW b \in Backend,
               \/ \E ok \in BOOLEAN : checkBackend(b, ok) \/ Report(b, ok)
               \/ AddActive(b) \/ DropActive(b) \/ \E us \in Sample : RecordLatency(b, us)
        PROVE  Asks
    BY <2>4 DEF checkBackend, AddActive, DropActive, Report, RecordLatency, pickVars
  <2>5. CASE Refused \/ GiveUp \/ Tick
    BY <2>5 DEF Refused, GiveUp, Tick, pickVars
  <2> QED BY <1>1, <2>1, <2>2, <2>3, <2>4, <2>5, PoolAssumption DEF Next
<1> QED BY <1>1, SpecTypeOK, PTL DEF Spec, AsksEveryHealthyBackendOnce

(* What the healthy backends gain in a weighted round is what the chosen one  *)
(* pays.                                                                      *)
LEMMA ReweighCancels ==
  ASSUME currentWeight \in [Backend -> Int], NEW best \in Healthy
  PROVE  SumOf(Reweigh(best)) = SumOf(currentWeight)
<1> DEFINE gain == [b \in Backend |-> IF b \in Healthy THEN Weight[b] ELSE 0]
           pay == [b \in Backend |-> IF b = best THEN -Total(Healthy) ELSE 0]
           raised == [b \in Backend |-> currentWeight[b] + gain[b]]
<1>1. Total(Healthy) \in Int /\ best \in Backend /\ SumOf(gain) = Total(Healthy)
  BY TotalIsInteger DEF Healthy, Total
<1>2. gain \in [Backend -> Int] /\ pay \in [Backend -> Int]
  BY <1>1, PoolAssumption
<1>3. raised \in [Backend -> Int]
  BY <1>2
<1>4. Reweigh(best) \in [Backend -> Int]
      /\ \A b \in Backend : Reweigh(best)[b] = raised[b] + pay[b]
  <2>1. Reweigh(best) = [b \in Backend |->
                           currentWeight[b] + (IF b \in Healthy THEN Weight[b] ELSE 0)
                             - (IF b = best THEN Total(Healthy) ELSE 0)]
    BY DEF Reweigh
  <2>2. ASSUME NEW b \in Backend
        PROVE  Reweigh(best)[b] \in Int /\ Reweigh(best)[b] = raised[b] + pay[b]
    BY <1>1, <1>2, <2>1
  <2> QED BY <2>1, <2>2
<1>5. SumOf(raised) = SumOf(currentWeight) + SumOf(gain)
  BY <1>2, <1>3, SumAdds
<1>6. pay[best] = -Total(Healthy) /\ \A b \in Backend \ {best} : pay[b] = 0
  BY <1>1
<1>7. SumOf(pay) = -Total(Healthy)
  BY <1>1, <1>2, <1>6, SumOfOne
<1> HIDE DEF gain, pay, raised
<1>8. SumOf(Reweigh(best)) = SumOf(raised) + SumOf(pay)
  BY <1>2, <1>3, <1>4, SumAdds
<1>9. SumOf(currentWeight) \in Int
  BY SumIsInteger
<1> QED BY <1>1, <1>5, <1>7, <1>8, <1>9

LEMMA NoWeightsCancel == SumOf([b \in Backend |-> 0]) = 0
<1>1. 1 \in Backend
  BY PoolAssumption DEF Backend
<1> QED BY <1>1, SumOfOne

(* The weights of smooth weighted round-robin cancel out for all weights,     *)
(* whichever backends come and go and whatever the breakers say.              *)
THEOREM SpecWeightsCancel == Spec => []WeightsCancel
<1>1. Init => WeightsCancel
  BY NoWeightsCancel DEF Init, NewLoadBalancer, WeightsCancel
<1>2. ASSUME TypeOK, WeightsCancel, [Next]_vars PROVE WeightsCancel'
  <2>1. ASSUME NEW hash \in Hashes, Choose(hash) PROVE WeightsCancel'
    <3>1. CASE currentWeight' = currentWeight
      BY <1>2, <3>1 DEF WeightsCancel
    <3>2. CASE currentWeight' # currentWeight
      <4>1. /\ currentWeight' = Reweigh(Head(order'))
            /\ Head(order') \in Healthy
        BY <1>2, <2>1, <3>2, ChooseHead DEF Choose
      <4> QED BY <1>2, <4>1, ReweighCancels DEF WeightsCancel, TypeOK
    <3> QED BY <3>1, <3>2
  <2>2. ASSUME NEW a \in Algorithms, SetAlgorithm(a) PROVE WeightsCancel'
    BY <2>2, NoWeightsCancel DEF SetAlgorithm, WeightsCancel
  <2>3. CASE UNCHANGED currentWeight
    BY <1>2, <2>3 DEF WeightsCancel
  <2>4. CASE Refused \/ GiveUp \/ \E b \in Backend : Granted(b)
    BY <2>3, <2>4 DEF Refused, GiveUp, Granted, lbVars
  <2>5. ASSUME NEW b \in Backend,
               \/ \E ok \in BOOLEAN : checkBackend(b, ok) \/ Report(b, ok)
               \/ AddActive(b) \/ DropActive(b) \/ \E us \in Sample : RecordLatency(b, us)
        PROVE  WeightsCancel'
    BY <2>3, <2>5
    DEF checkBackend, AddActive, DropActive, Report, RecordLatency, lbVars
  <2>6. CASE Tick \/ UNCHANGED vars
    BY <2>3, <2>6 DEF Tick, vars, lbVars
  <2> QED BY <1>2, <2>1, <2>2, <2>4, <2>5, <2>6, PoolAssumption DEF Next
<1> QED BY <1>1, <1>2, SpecTypeOK, PTL DEF Spec

--------------------------------------------------------------------------------
(* How far the weights go *)

LEMMA SumIsMonotone ==
  ASSUME NEW f \in [Backend -> Int], NEW g \in [Backend -> Int],
         \A b \in Backend : f[b] <= g[b]
  PROVE  SumOf(f) <= SumOf(g)
<1>1. PICK sf : IsSum(f, sf) /\ SumOf(f) = sf[N]
  BY SumOfIsSum
<1>2. PICK sg : IsSum(g, sg) /\ SumOf(g) = sg[N]
  BY SumOfIsSum
<1> DEFINE S == {n \in 0 .. N : sf[n] <= sg[n]}
<1>3. 0 \in S
  BY <1>1, <1>2, PartialSums, PoolAssumption
<1>4. ASSUME NEW n \in 0 .. N - 1, n \in S PROVE n + 1 \in S
  <2>1. sf[n + 1] = sf[n] + f[n + 1] /\ sg[n + 1] = sg[n] + g[n + 1]
    BY <1>1, <1>2, PartialSums
  <2>2. n + 1 \in Backend /\ n \in 0 .. N /\ n + 1 \in 0 .. N
    BY PoolAssumption DEF Backend
  <2>3. sf[n] \in Int /\ sg[n] \in Int /\ f[n + 1] \in Int /\ g[n + 1] \in Int
        /\ f[n + 1] <= g[n + 1]
    BY <1>1, <1>2, <2>2, PartialSumsAreIntegers
  <2> QED BY <1>4, <2>1, <2>2, <2>3
<1>5. 0 .. N \subseteq S
  BY <1>3, <1>4, UpToN
<1> QED BY <1>1, <1>2, <1>5, PoolAssumption

(* What the backends of S have together.                                      *)
Part(w, S) == SumOf([b \in Backend |-> IF b \in S THEN w[b] ELSE 0])

LEMMA PartIsInteger ==
  ASSUME NEW w \in [Backend -> Int], NEW S
  PROVE  Part(w, S) \in Int
  BY SumIsInteger DEF Part

LEMMA PartsAdd ==
  ASSUME NEW w \in [Backend -> Int], NEW S, NEW T, S \cap T = {}
  PROVE  Part(w, S \cup T) = Part(w, S) + Part(w, T)
  BY SumAdds DEF Part

LEMMA PartOfOne ==
  ASSUME NEW w \in [Backend -> Int], NEW b \in Backend
  PROVE  Part(w, {b}) = w[b]
<1> DEFINE f == [c \in Backend |-> IF c \in {b} THEN w[c] ELSE 0]
<1>1. f \in [Backend -> Int] /\ f[b] = w[b] /\ \A c \in Backend \ {b} : f[c] = 0
  OBVIOUS
<1> HIDE DEF f
<1>2. SumOf(f) = w[b]
  BY <1>1, SumOfOne
<1> QED BY <1>2 DEF Part, f

(* Together they have at most as often the most as they are.                  *)
LEMMA PartIsBounded ==
  ASSUME NEW w \in [Backend -> Int], NEW S \in SUBSET Backend, NEW m \in Int,
         \A b \in S : w[b] <= m
  PROVE  Part(w, S) <= Cardinality(S) * m
<1> DEFINE f == [b \in Backend |-> IF b \in S THEN w[b] ELSE 0]
           UpTo(n) == {b \in S : b <= n}
<1>0. \A b \in S : b \in Int /\ 1 <= b /\ b <= N
  BY PoolAssumption DEF Backend
<1>1. PICK s : IsSum(f, s) /\ SumOf(f) = s[N]
  BY SumOfIsSum
<1> DEFINE R == {n \in 0 .. N : IsFiniteSet(UpTo(n)) /\ s[n] <= Cardinality(UpTo(n)) * m}
<1>2. 0 \in R
  <2>1. UpTo(0) = {}
    BY <1>0
  <2>2. s[0] = 0 /\ 0 \in 0 .. N
    BY <1>1, PartialSums, PoolAssumption
  <2>3. IsFiniteSet(UpTo(0)) /\ Cardinality(UpTo(0)) = 0
    BY <2>1, FS_EmptySet
  <2> QED BY <2>2, <2>3
<1>3. ASSUME NEW n \in 0 .. N - 1, n \in R PROVE n + 1 \in R
  <2>1. s[n + 1] = s[n] + f[n + 1]
    BY <1>1, PartialSums
  <2>2. n + 1 \in Backend /\ n + 1 \in 0 .. N /\ n \in 0 .. N
    BY PoolAssumption DEF Backend
  <2>3. Cardinality(UpTo(n)) \in Nat
    BY <1>3, FS_CardinalityType
  <2>4. s[n] \in Int
    BY <1>1, <2>2, PartialSumsAreIntegers
  <2>5. CASE n + 1 \in S
    <3>1. UpTo(n + 1) = UpTo(n) \cup {n + 1} /\ n + 1 \notin UpTo(n)
      BY <1>0, <2>2, <2>5
    <3>2. IsFiniteSet(UpTo(n + 1)) /\ Cardinality(UpTo(n + 1)) = Cardinality(UpTo(n)) + 1
      BY <1>3, <3>1, FS_AddElement
    <3>3. f[n + 1] \in Int /\ f[n + 1] <= m
      BY <2>2, <2>5
    <3>4. (Cardinality(UpTo(n)) + 1) * m = Cardinality(UpTo(n)) * m + m
      BY <2>3
    <3>5. Cardinality(UpTo(n)) * m \in Int
      BY <2>3
    <3>6. s[n] <= Cardinality(UpTo(n)) * m
      BY <1>3
    <3> HIDE DEF f, UpTo
    <3>7. s[n + 1] <= Cardinality(UpTo(n + 1)) * m
      BY <2>1, <2>4, <3>2, <3>3, <3>4, <3>5, <3>6
    <3> QED BY <2>2, <3>2, <3>7
  <2>6. CASE n + 1 \notin S
    <3>1. UpTo(n + 1) = UpTo(n)
      BY <1>0, <2>2, <2>6
    <3>2. f[n + 1] = 0
      BY <2>2, <2>6
    <3> QED BY <1>3, <2>1, <2>2, <2>4, <3>1, <3>2
  <2> QED BY <2>5, <2>6
<1>4. 0 .. N \subseteq R
  BY <1>2, <1>3, UpToN
<1>5. UpTo(N) = S
  BY <1>0, PoolAssumption
<1>6. N \in R
  BY <1>4, PoolAssumption
<1> QED BY <1>1, <1>5, <1>6 DEF Part

(* k of n, h of them healthy, have u + x, with at most m for each healthy one, *)
(* and one more has m.                                                        *)
LEMMA Averages ==
  ASSUME NEW n \in Int, NEW k \in Int, NEW h \in Int, NEW w \in Int,
         NEW u \in Int, NEW x \in Int, NEW m \in Int,
         h >= 1, w >= 0,
         2 * u <= ((k - h) * (n - k + h)) * w,
         2 * (u + x + m) <= ((k + 1) * (n - k - 1)) * w + 2 * w,
         x <= h * m
  PROVE  2 * (u + x) <= (k * (n - k)) * w
<1> DEFINE a == (k - h) * (n - k + h)
           b == (k + 1) * (n - k - 1) + 2
           c == k * (n - k)
           s == u + x
           t == u + x + m
<1>1. a \in Int /\ b \in Int /\ c \in Int /\ s \in Int /\ t \in Int
  OBVIOUS
<1>2. a + h * b = (h + 1) * c - h * (h - 1)
  OBVIOUS
<1>3. 2 * t <= b * w
  OBVIOUS
<1>4. (h + 1) * s <= u + h * t
  OBVIOUS
<1>5. (h + 1) * (2 * s) <= (h + 1) * (c * w)
  <2> HIDE DEF a, b, c, s, t
  <2>1. h * (2 * t) <= h * (b * w)
    BY <1>1, <1>3
  <2>2. (h + 1) * (2 * s) <= a * w + h * (b * w)
    BY <1>1, <1>4, <2>1 DEF a
  <2>3. a * w + h * (b * w) = (a + h * b) * w
    BY <1>1
  <2>4. h * (h - 1) >= 0
    OBVIOUS
  <2>5. (h * (h - 1)) * w >= 0
    BY <2>4
  <2>6. (a + h * b) * w = (h + 1) * (c * w) - (h * (h - 1)) * w
    BY <1>1, <1>2
  <2> QED BY <1>1, <2>2, <2>3, <2>5, <2>6
<1>6. c * w \in Int
  BY <1>1
<1> HIDE DEF c, s
<1>7. 2 * s <= c * w
  BY <1>1, <1>5, <1>6
<1> QED BY <1>7 DEF s, c

LEMMA TotalGrows ==
  ASSUME NEW S, NEW T, S \subseteq T
  PROVE  0 <= Total(S) /\ Total(S) <= Total(T)
<1> DEFINE none == [b \in Backend |-> 0]
           f == [b \in Backend |-> IF b \in S THEN Weight[b] ELSE 0]
           g == [b \in Backend |-> IF b \in T THEN Weight[b] ELSE 0]
<1>1. /\ none \in [Backend -> Int] /\ f \in [Backend -> Int] /\ g \in [Backend -> Int]
      /\ \A b \in Backend : none[b] <= f[b] /\ f[b] <= g[b]
  BY PoolAssumption
<1> HIDE DEF f, g
<1>2. SumOf(none) <= SumOf(f) /\ SumOf(f) <= SumOf(g)
  BY <1>1, SumIsMonotone
<1> QED BY <1>2, NoWeightsCancel DEF Total, f, g

(* When k backends together are at most k(N - k)/2 rounds ahead, for every k  *)
(* of them, a pick leaves it so: the chosen one had the most of the healthy   *)
(* ones, so the others had less than their share of what they and it had.     *)
Even(w) ==
  \A S \in SUBSET Backend :
    2 * Part(w, S) <= (Cardinality(S) * (N - Cardinality(S))) * Total(Backend)

LEMMA ReweighStaysEven ==
  ASSUME currentWeight \in [Backend -> Int], Even(currentWeight), NEW best \in Healthy,
         \A b \in Healthy :
           currentWeight[best] + Weight[best] >= currentWeight[b] + Weight[b]
  PROVE  Even(Reweigh(best))
<1> DEFINE raised == [b \in Backend |->
                        currentWeight[b] + (IF b \in Healthy THEN Weight[b] ELSE 0)]
           w == Total(Backend)
           v == Total(Healthy)
           m == raised[best]
<1>1. /\ v \in Int /\ w \in Int /\ 0 <= v /\ v <= w
      /\ \A S : Total(S \cap Healthy) \in Int /\ Total(S \cap Healthy) <= v
  BY TotalIsInteger, TotalGrows DEF Healthy
<1>2. /\ raised \in [Backend -> Int] /\ best \in Backend /\ Healthy \subseteq Backend
      /\ m \in Int /\ \A b \in Healthy : raised[b] <= m
      /\ \A b \in Backend \ Healthy : raised[b] = currentWeight[b]
  BY PoolAssumption DEF Healthy
<1>3. /\ Reweigh(best) \in [Backend -> Int]
      /\ \A b \in Backend : Reweigh(best)[b] = raised[b] - (IF b = best THEN v ELSE 0)
  <2> DEFINE gain == [b \in Backend |-> IF b \in Healthy THEN Weight[b] ELSE 0]
  <2>1. gain \in [Backend -> Int]
    BY PoolAssumption
  <2>2. Reweigh(best) = [b \in Backend |->
                           currentWeight[b] + (IF b \in Healthy THEN Weight[b] ELSE 0)
                             - (IF b = best THEN v ELSE 0)]
    BY DEF Reweigh
  <2>3. ASSUME NEW b \in Backend
        PROVE  /\ Reweigh(best)[b] \in Int
               /\ Reweigh(best)[b] = raised[b] - (IF b = best THEN v ELSE 0)
    BY <1>1, <2>1, <2>2
  <2> QED BY <2>2, <2>3
<1>4. ASSUME NEW S PROVE Part(raised, S) = Part(currentWeight, S) + Total(S \cap Healthy)
  <2> DEFINE f == [b \in Backend |-> IF b \in S THEN currentWeight[b] ELSE 0]
             g == [b \in Backend |-> IF b \in S \cap Healthy THEN Weight[b] ELSE 0]
             h == [b \in Backend |-> IF b \in S THEN raised[b] ELSE 0]
  <2>1. /\ f \in [Backend -> Int] /\ g \in [Backend -> Int] /\ h \in [Backend -> Int]
        /\ \A b \in Backend : h[b] = f[b] + g[b]
    BY <1>2, PoolAssumption
  <2> HIDE DEF f, g, h
  <2>2. SumOf(h) = SumOf(f) + SumOf(g)
    BY <2>1, SumAdds
  <2> QED BY <2>2 DEF Part, Total, f, g, h
<1> HIDE DEF raised, m, v, w
<1>5. ASSUME NEW S \in SUBSET Backend
      PROVE  2 * Part(Reweigh(best), S)
               <= (Cardinality(S) * (N - Cardinality(S))) * w
  <2>1. /\ Part(raised, S) \in Int /\ Part(currentWeight, S) \in Int
        /\ 2 * Part(currentWeight, S) <= (Cardinality(S) * (N - Cardinality(S))) * w
    BY <1>2, PartIsInteger DEF Even, w
  <2>2. IsFiniteSet(Backend) /\ Cardinality(Backend) = N
    BY PoolAssumption, FS_Interval DEF Backend
  <2>3. IsFiniteSet(S) /\ Cardinality(S) \in Nat /\ N \in Int
    BY <2>2, FS_Subset, FS_CardinalityType, PoolAssumption
  <2>4. CASE best \in S
    <3>1. Part(Reweigh(best), S) = Part(raised, S) - v
      <4> DEFINE f == [b \in Backend |-> IF b \in S THEN raised[b] ELSE 0]
                 g == [b \in Backend |-> IF b = best THEN -v ELSE 0]
                 h == [b \in Backend |-> IF b \in S THEN Reweigh(best)[b] ELSE 0]
      <4>1. /\ f \in [Backend -> Int] /\ g \in [Backend -> Int] /\ h \in [Backend -> Int]
            /\ \A b \in Backend : h[b] = f[b] + g[b]
            /\ g[best] = -v /\ \A b \in Backend \ {best} : g[b] = 0
        BY <1>1, <1>2, <1>3, <2>4
      <4> HIDE DEF f, g, h
      <4>2. SumOf(h) = SumOf(f) + SumOf(g) /\ SumOf(g) = -v
        BY <1>2, <4>1, SumAdds, SumOfOne
      <4>3. SumOf(f) \in Int
        BY <4>1, SumIsInteger
      <4> QED BY <1>1, <4>2, <4>3 DEF Part, f, h
    <3>2. Part(Reweigh(best), S) <= Part(currentWeight, S)
      <4>1. Part(raised, S) = Part(currentWeight, S) + Total(S \cap Healthy)
        BY <1>4
      <4>2. Total(S \cap Healthy) \in Int /\ Total(S \cap Healthy) <= v
        BY <1>1
      <4> QED BY <1>1, <2>1, <3>1, <4>1, <4>2
    <3>3. Part(Reweigh(best), S) \in Int
      BY <1>3, PartIsInteger
    <3>4. (Cardinality(S) * (N - Cardinality(S))) * w \in Int
      BY <1>1, <2>3
    <3> QED BY <2>1, <3>2, <3>3, <3>4
  <2>5. CASE best \notin S
    <3> DEFINE H == S \cap Healthy
               U == S \ Healthy
               T == S \cup {best}
               k == Cardinality(S)
               h == Cardinality(H)
               u == Part(raised, U)
               x == Part(raised, H)
    <3>1. Part(Reweigh(best), S) = u + x
      <4>1. \A b \in Backend : b \in S => Reweigh(best)[b] = raised[b]
        BY <1>2, <1>3, <2>5
      <4>2. Part(Reweigh(best), S) = Part(raised, S)
        BY <4>1 DEF Part
      <4>3. S = U \cup H /\ U \cap H = {}
        OBVIOUS
      <4> QED BY <1>2, <4>2, <4>3, PartsAdd
    <3>2. u \in Int /\ x \in Int
      BY <1>2, PartIsInteger
    <3>3. x <= h * m
      BY <1>2, PartIsBounded
    <3>4. /\ h \in Nat /\ Cardinality(U) = k - h /\ k \in Nat /\ h <= k
      <4>1. H \in SUBSET S /\ U = S \ H
        OBVIOUS
      <4>2. IsFiniteSet(H) /\ h \in Nat /\ h <= k
        BY <2>3, <4>1, FS_Subset, FS_CardinalityType
      <4>3. Cardinality(S \ H) = k - Cardinality(S \cap H) /\ S \cap H = H
        BY <2>3, FS_Difference
      <4> QED BY <2>3, <4>1, <4>2, <4>3
    <3>5. 2 * u <= ((k - h) * (N - k + h)) * w
      <4>1. U \in SUBSET Backend /\ U \cap Healthy = {}
        OBVIOUS
      <4>2. u = Part(currentWeight, U)
        <5>1. \A b \in Backend : b \in U => raised[b] = currentWeight[b]
          BY <1>2
        <5> QED BY <5>1 DEF Part
      <4>3. 2 * u <= (Cardinality(U) * (N - Cardinality(U))) * w
        BY <4>1, <4>2 DEF Even, w
      <4>4. N - (k - h) = N - k + h
        BY <2>3, <3>4
      <4> QED BY <3>4, <4>3, <4>4
    <3>6. 2 * (u + x + m) <= ((k + 1) * (N - k - 1)) * w + 2 * w
      <4>1. Cardinality(T) = k + 1 /\ T \in SUBSET Backend
        BY <1>2, <2>3, <2>5, FS_AddElement
      <4>2. Part(raised, T) = u + x + m
        <5>1. Part(raised, T) = Part(raised, S) + Part(raised, {best})
          BY <1>2, <2>5, PartsAdd
        <5>2. S = U \cup H /\ U \cap H = {}
          OBVIOUS
        <5>3. Part(raised, S) = u + x
          BY <1>2, <5>2, PartsAdd
        <5>4. Part(raised, {best}) = m
          BY <1>2, PartOfOne DEF m
        <5> QED BY <5>1, <5>3, <5>4
      <4>3. 2 * Part(currentWeight, T) <= ((k + 1) * (N - (k + 1))) * w
        BY <4>1 DEF Even, w
      <4>4. Part(raised, T) <= Part(currentWeight, T) + w
        <5>1. Part(raised, T) = Part(currentWeight, T) + Total(T \cap Healthy)
          BY <1>4
        <5>2. Total(T \cap Healthy) \in Int /\ Total(T \cap Healthy) <= v
          BY <1>1
        <5>3. Part(currentWeight, T) \in Int
          BY PartIsInteger
        <5> QED BY <1>1, <5>1, <5>2, <5>3
      <4>5. N - (k + 1) = N - k - 1
        BY <2>3
      <4>6. ((k + 1) * (N - k - 1)) * w \in Int
        BY <1>1, <2>3
      <4> HIDE DEF k, T
      <4> QED BY <1>1, <1>2, <4>2, <4>3, <4>4, <4>5, <4>6, PartIsInteger
    <3> HIDE DEF H, U, T, k, h, u, x
    <3>7. CASE h = 0
      <4>1. x <= 0
        BY <1>2, <3>2, <3>3, <3>7
      <4>2. 2 * u <= (k * (N - k)) * w
        BY <2>3, <3>4, <3>5, <3>7
      <4>3. (k * (N - k)) * w \in Int
        BY <1>1, <2>3, <3>4
      <4> QED BY <3>1, <3>2, <4>1, <4>2, <4>3 DEF k
    <3>8. CASE h # 0
      <4>1. h >= 1 /\ w >= 0 /\ k \in Int /\ h \in Int /\ N \in Int
        BY <1>1, <2>3, <3>4, <3>8
      <4>2. 2 * (u + x) <= (k * (N - k)) * w
        BY <1>1, <1>2, <3>2, <3>3, <3>5, <3>6, <4>1, Averages
      <4> QED BY <3>1, <4>2 DEF k
    <3> QED BY <3>7, <3>8
  <2> QED BY <2>4, <2>5
<1> QED BY <1>5 DEF Even, w

(* Nobody is ahead when nothing has been paid.                                *)
LEMMA NothingIsEven == Even([b \in Backend |-> 0])
<1> SUFFICES ASSUME NEW S \in SUBSET Backend
             PROVE  2 * Part([b \in Backend |-> 0], S)
                      <= (Cardinality(S) * (N - Cardinality(S))) * Total(Backend)
  BY DEF Even
<1>1. Part([b \in Backend |-> 0], S) = 0
  <2>1. [b \in Backend |-> IF b \in S THEN [c \in Backend |-> 0][b] ELSE 0]
          = [b \in Backend |-> 0]
    OBVIOUS
  <2> QED BY <2>1, NoWeightsCancel DEF Part
<1>2. IsFiniteSet(Backend) /\ Cardinality(Backend) = N
  BY PoolAssumption, FS_Interval DEF Backend
<1>3. Cardinality(S) \in Nat /\ Cardinality(S) <= N
  BY <1>2, FS_Subset, FS_CardinalityType
<1>4. Cardinality(S) * (N - Cardinality(S)) >= 0 /\ N - Cardinality(S) \in Int
  BY <1>3, PoolAssumption
<1>5. Total(Backend) \in Int /\ Total(Backend) >= 0
  BY TotalIsInteger, TotalGrows
<1> DEFINE c == Cardinality(S) * (N - Cardinality(S))
<1>6. c \in Int /\ c >= 0
  BY <1>3, <1>4
<1> HIDE DEF c
<1>7. c * Total(Backend) >= 0
  BY <1>5, <1>6
<1> QED BY <1>1, <1>7 DEF c

LEMMA EvenIsBounded ==
  ASSUME currentWeight \in [Backend -> Int], Even(currentWeight), WeightsCancel
  PROVE  WeightsBounded
<1> DEFINE limit == (N - 1) * Total(Backend)
<1>1. limit \in Int /\ N \in Nat \ {0}
  BY TotalIsInteger, PoolAssumption
<1>2. IsFiniteSet(Backend) /\ Cardinality(Backend) = N
  BY PoolAssumption, FS_Interval DEF Backend
<1> SUFFICES ASSUME NEW b \in Backend PROVE 2 * currentWeight[b] \in -limit .. limit
  BY DEF WeightsBounded
<1> DEFINE Others == Backend \ {b}
<1>3. Part(currentWeight, {b}) = currentWeight[b]
  BY PartOfOne
<1>4. Part(currentWeight, Others) = -currentWeight[b]
  <2>1. Backend = {b} \cup Others /\ {b} \cap Others = {}
    OBVIOUS
  <2>2. Part(currentWeight, Backend) = Part(currentWeight, {b}) + Part(currentWeight, Others)
    BY <2>1, PartsAdd
  <2>3. Part(currentWeight, Backend) = 0
    <3>1. [c \in Backend |-> IF c \in Backend THEN currentWeight[c] ELSE 0] = currentWeight
      OBVIOUS
    <3> QED BY <3>1 DEF WeightsCancel, Part
  <2> QED BY <1>3, <2>2, <2>3, PartIsInteger
<1>5. 2 * currentWeight[b] <= limit
  <2>1. Cardinality({b}) = 1
    BY FS_Singleton
  <2>2. 2 * Part(currentWeight, {b})
          <= (Cardinality({b}) * (N - Cardinality({b}))) * Total(Backend)
    BY DEF Even
  <2>3. 1 * (N - 1) = N - 1
    BY <1>1
  <2> QED BY <1>3, <2>1, <2>2, <2>3
<1>6. 2 * (-currentWeight[b]) <= limit
  <2>1. Cardinality(Others) = N - 1
    BY <1>2, FS_RemoveElement
  <2>2. 2 * Part(currentWeight, Others)
          <= (Cardinality(Others) * (N - Cardinality(Others))) * Total(Backend)
    BY DEF Even
  <2>3. (N - 1) * (N - (N - 1)) = N - 1
    BY <1>1
  <2> QED BY <1>4, <2>1, <2>2, <2>3
<1>7. currentWeight[b] \in Int
  OBVIOUS
<1> HIDE DEF limit
<1> QED BY <1>1, <1>5, <1>6, <1>7

(* No backend gets further than (N - 1)/2 rounds ahead or behind, for all     *)
(* weights, whichever backends come and go, switches of the algorithm and     *)
(* picks turned down included (pickWeightedRoundRobin, SetAlgorithm).         *)
THEOREM SpecWeightsBounded == Spec => []WeightsBounded
<1>1. Init => Even(currentWeight)
  BY NothingIsEven DEF Init, NewLoadBalancer
<1>2. ASSUME TypeOK, Even(currentWeight), [Next]_vars PROVE Even(currentWeight)'
  <2>1. ASSUME NEW hash \in Hashes, Choose(hash) PROVE Even(currentWeight)'
    <3>1. CASE currentWeight' = currentWeight
      BY <1>2, <3>1 DEF Even, Part
    <3>2. CASE currentWeight' # currentWeight
      <4>1. algorithm = "weighted-round-robin" /\ HealthyList # <<>>
        BY <2>1, <3>2 DEF Choose
      <4>2. currentWeight' = Reweigh(Head(order')) /\ Head(order') \in Healthy
        BY <1>2, <2>1, <4>1, ChooseHead DEF Choose
      <4>3. \A b \in Healthy : currentWeight[Head(order')] + Weight[Head(order')]
                                 >= currentWeight[b] + Weight[b]
        BY <1>2, <2>1, <4>1, <4>2, HeaviestFirst
      <4>4. Even(Reweigh(Head(order')))
        BY <1>2, <4>2, <4>3, ReweighStaysEven DEF TypeOK
      <4> QED BY <4>2, <4>4
    <3> QED BY <3>1, <3>2
  <2>2. ASSUME NEW a \in Algorithms, SetAlgorithm(a) PROVE Even(currentWeight)'
    <3>1. currentWeight' = [b \in Backend |-> 0]
      BY <2>2 DEF SetAlgorithm
    <3> QED BY <3>1, NothingIsEven
  <2>3. CASE UNCHANGED currentWeight
    BY <1>2, <2>3
  <2>4. CASE Refused \/ GiveUp \/ \E b \in Backend : Granted(b)
    BY <2>3, <2>4 DEF Refused, GiveUp, Granted, lbVars
  <2>5. ASSUME NEW b \in Backend,
               \/ \E ok \in BOOLEAN : checkBackend(b, ok) \/ Report(b, ok)
               \/ AddActive(b) \/ DropActive(b) \/ \E us \in Sample : RecordLatency(b, us)
        PROVE  Even(currentWeight)'
    BY <2>3, <2>5
    DEF checkBackend, AddActive, DropActive, Report, RecordLatency, lbVars
  <2>6. CASE Tick \/ UNCHANGED vars
    BY <2>3, <2>6 DEF Tick, vars, lbVars
  <2> QED BY <1>2, <2>1, <2>2, <2>4, <2>5, <2>6, PoolAssumption DEF Next
<1>3. TypeOK /\ Even(currentWeight) /\ WeightsCancel => WeightsBounded
  BY EvenIsBounded DEF TypeOK
<1> QED BY <1>1, <1>2, <1>3, SpecTypeOK, SpecWeightsCancel, PTL DEF Spec

================================================================================
