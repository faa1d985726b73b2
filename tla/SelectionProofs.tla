---------------------------- MODULE SelectionProofs ----------------------------
(******************************************************************************)
(* Exact shares, for every number of backends, all weights and any number of  *)
(* rounds.                                                                    *)
(******************************************************************************)
EXTENDS Selection, LoadBalancerProofs

--------------------------------------------------------------------------------
(* Sums over the backends *)

LEMMA SumScales ==
  ASSUME NEW f \in [Backend -> Int], NEW c \in Int, NEW g \in [Backend -> Int],
         \A b \in Backend : g[b] = c * f[b]
  PROVE  SumOf(g) = c * SumOf(f)
<1>1. PICK sf : IsSum(f, sf) /\ SumOf(f) = sf[N]
  BY SumOfIsSum
<1>2. PICK sg : IsSum(g, sg) /\ SumOf(g) = sg[N]
  BY SumOfIsSum
<1> DEFINE S == {n \in 0 .. N : sg[n] = c * sf[n]}
<1>3. 0 \in S
  BY <1>1, <1>2, PartialSums, PoolAssumption
<1>4. ASSUME NEW n \in 0 .. N - 1, n \in S PROVE n + 1 \in S
  <2>1. sf[n + 1] = sf[n] + f[n + 1] /\ sg[n + 1] = sg[n] + g[n + 1]
    BY <1>1, <1>2, PartialSums
  <2>2. n + 1 \in Backend /\ n \in 0 .. N /\ n + 1 \in 0 .. N
    BY PoolAssumption DEF Backend
  <2>3. sf[n] \in Int /\ f[n + 1] \in Int /\ g[n + 1] = c * f[n + 1]
    BY <1>1, <2>2, PartialSumsAreIntegers
  <2>4. c * (sf[n] + f[n + 1]) = c * sf[n] + c * f[n + 1]
    BY <2>3
  <2> QED BY <1>4, <2>1, <2>2, <2>3, <2>4
<1>5. 0 .. N \subseteq S
  BY <1>3, <1>4, UpToN
<1> QED BY <1>1, <1>2, <1>5, PoolAssumption

(* No part is more than the whole.                                            *)
LEMMA PartsOfSum ==
  ASSUME NEW f \in [Backend -> Nat]
  PROVE  SumOf(f) \in Nat /\ \A b \in Backend : f[b] <= SumOf(f)
<1>1. PICK s : IsSum(f, s) /\ SumOf(f) = s[N]
  BY SumOfIsSum
<1> DEFINE S == {n \in 0 .. N : s[n] \in Nat /\ \A b \in Backend : b <= n => f[b] <= s[n]}
<1>2. 0 \in S
  BY <1>1, PartialSums, PoolAssumption DEF Backend
<1>3. ASSUME NEW n \in 0 .. N - 1, n \in S PROVE n + 1 \in S
  <2>1. s[n + 1] = s[n] + f[n + 1]
    BY <1>1, PartialSums
  <2>2. n + 1 \in Backend /\ n + 1 \in 0 .. N
    BY PoolAssumption DEF Backend
  <2>3. s[n] \in Nat /\ f[n + 1] \in Nat
    BY <1>3, <2>2
  <2>4. ASSUME NEW b \in Backend, b <= n + 1 PROVE f[b] <= s[n] + f[n + 1]
    <3>1. f[b] \in Nat /\ b \in Int
      BY DEF Backend
    <3>2. CASE b = n + 1
      BY <2>3, <3>2
    <3>3. CASE b # n + 1
      BY <1>3, <2>3, <2>4, <3>1, <3>3
    <3> QED BY <3>2, <3>3
  <2> QED BY <2>1, <2>2, <2>3, <2>4
<1>4. 0 .. N \subseteq S
  BY <1>2, <1>3, UpToN
<1>5. N \in 0 .. N /\ \A b \in Backend : b <= N
  BY PoolAssumption DEF Backend
<1> QED BY <1>1, <1>4, <1>5

(* Where a sum is positive, one of its terms is.                              *)
LEMMA SomeTermIsPositive ==
  ASSUME NEW f \in [Backend -> Int], SumOf(f) > 0
  PROVE  \E b \in Backend : f[b] > 0
<1> SUFFICES ASSUME \A b \in Backend : ~(f[b] > 0) PROVE FALSE
  OBVIOUS
<1> DEFINE g == [b \in Backend |-> -f[b]]
<1>1. g \in [Backend -> Int] /\ g \in [Backend -> Nat] /\ \A b \in Backend : g[b] = (-1) * f[b]
  OBVIOUS
<1> HIDE DEF g
<1>2. SumOf(g) = (-1) * SumOf(f) /\ SumOf(g) \in Nat /\ SumOf(f) \in Int
  BY <1>1, SumScales, PartsOfSum, SumIsInteger
<1> QED BY <1>2

(* One more for one of them.                                                  *)
LEMMA SumOfOneMore ==
  ASSUME NEW f \in [Backend -> Int], NEW b \in Backend
  PROVE  SumOf([f EXCEPT ![b] = @ + 1]) = SumOf(f) + 1
<1> DEFINE one == [c \in Backend |-> IF c = b THEN 1 ELSE 0]
           h == [f EXCEPT ![b] = @ + 1]
<1>1. one \in [Backend -> Int] /\ h \in [Backend -> Int]
      /\ \A c \in Backend : h[c] = f[c] + one[c]
  OBVIOUS
<1>2. one[b] = 1 /\ \A c \in Backend \ {b} : one[c] = 0
  OBVIOUS
<1> HIDE DEF one, h
<1>3. SumOf(h) = SumOf(f) + SumOf(one) /\ SumOf(one) = one[b]
  BY <1>1, <1>2, SumAdds, SumOfOne
<1> QED BY <1>2, <1>3 DEF h

(* Counting the healthy backends.                                             *)
LEMMA SumOfOnes ==
  SumOf([b \in Backend |-> IF healthy[b] THEN 1 ELSE 0]) = Cardinality(Healthy)
<1> DEFINE f == [b \in Backend |-> IF healthy[b] THEN 1 ELSE 0]
           UpTo(n) == {b \in Healthy : b <= n}
<1>1. PICK s : IsSum(f, s) /\ SumOf(f) = s[N]
  BY SumOfIsSum
<1> DEFINE S == {n \in 0 .. N : IsFiniteSet(UpTo(n)) /\ s[n] = Cardinality(UpTo(n))}
<1>2. 0 \in S
  <2>1. UpTo(0) = {}
    BY DEF Healthy, Backend
  <2>2. s[0] = 0 /\ 0 \in 0 .. N
    BY <1>1, PartialSums, PoolAssumption
  <2>3. IsFiniteSet(UpTo(0)) /\ Cardinality(UpTo(0)) = 0
    BY <2>1, FS_EmptySet
  <2> QED BY <2>2, <2>3
<1>3. ASSUME NEW n \in 0 .. N - 1, n \in S PROVE n + 1 \in S
  <2>1. s[n + 1] = s[n] + f[n + 1]
    BY <1>1, PartialSums
  <2>2. n + 1 \in Backend /\ n + 1 \in 0 .. N
    BY PoolAssumption DEF Backend
  <2>3. Cardinality(UpTo(n)) \in Nat
    BY <1>3, FS_CardinalityType
  <2>4. CASE healthy[n + 1]
    <3>1. UpTo(n + 1) = UpTo(n) \cup {n + 1} /\ n + 1 \notin UpTo(n)
      BY <2>2, <2>4 DEF Healthy, Backend
    <3>2. f[n + 1] = 1
      BY <2>2, <2>4
    <3> QED BY <1>3, <2>1, <2>2, <2>3, <3>1, <3>2, FS_AddElement
  <2>5. CASE ~healthy[n + 1]
    <3>1. UpTo(n + 1) = UpTo(n)
      BY <2>2, <2>5 DEF Healthy, Backend
    <3>2. f[n + 1] = 0
      BY <2>2, <2>5
    <3> QED BY <1>3, <2>1, <2>2, <2>3, <3>1, <3>2
  <2> QED BY <2>4, <2>5
<1>4. 0 .. N \subseteq S
  BY <1>2, <1>3, UpToN
<1>5. UpTo(N) = Healthy
  BY PoolAssumption DEF Healthy, Backend
<1> QED BY <1>1, <1>4, <1>5, PoolAssumption

--------------------------------------------------------------------------------
(* Rotations of the healthy backends *)

LEMMA RotateAt ==
  ASSUME Healthy # {}, NEW u \in Nat, NEW i \in 1 .. Available
  PROVE  Rotate(HealthyList, u)[i] = HealthyList[((u + i - 1) % Available) + 1]
<1>1. DOMAIN HealthyList = 1 .. Available /\ Len(HealthyList) = Available
  BY HealthyListEnumerates, EnumeratesIsSeq DEF Available
<1> QED BY <1>1 DEF Rotate

LEMMA RemainderIs ==
  ASSUME NEW n \in Nat \ {0}, NEW q \in Int, NEW r \in 0 .. n - 1, NEW x, x = n * q + r
  PROVE  x % n = r
  OBVIOUS

LEMMA MultipleIs ==
  ASSUME NEW n \in Nat \ {0}, NEW q \in Int, NEW x, x = n * q
  PROVE  x % n = 0
  OBVIOUS

(* Equal remainders stay equal.                                               *)
LEMMA SameRemainder ==
  ASSUME NEW n \in Nat \ {0}, NEW x \in Nat, NEW y \in Nat, NEW k \in Nat, x % n = y % n
  PROVE  (x + k) % n = (y + k) % n
<1> DEFINE p == (x + k) \div n
           r == (x + k) % n
           d == (x \div n) - (y \div n)
<1>1. x + k = n * p + r /\ p \in Int /\ r \in 0 .. n - 1
  OBVIOUS
<1>2. x - y = n * d /\ d \in Int
  <2>1. x = n * (x \div n) + (x % n) /\ y = n * (y \div n) + (y % n)
        /\ x \div n \in Int /\ y \div n \in Int
    OBVIOUS
  <2> QED BY <2>1
<1> HIDE DEF p, d
<1> DEFINE e == p - d
<1>3. y + k = n * e + r /\ e \in Int
  BY <1>1, <1>2
<1> HIDE DEF e, r
<1>4. (y + k) % n = r
  <2> DEFINE w == y + k
  <2>1. w = n * e + r
    BY <1>3
  <2> HIDE DEF w
  <2>2. w % n = r
    BY <1>1, <1>3, <2>1, RemainderIs
  <2> QED BY <2>2 DEF w
<1> QED BY <1>4 DEF r

(* An index that starts over at IdxMod does not notice.                       *)
LEMMA IndexModulo ==
  ASSUME Healthy # {}, NEW i \in 0 .. IdxMod - 1
  PROVE  ((i + 1) % IdxMod) % Available = (i + 1) % Available
<1>1. IdxMod \in Nat \ {0} /\ Available \in Nat \ {0} /\ i \in Nat
  BY PoolAssumption, AvailableIsPositive
<1>2. Available <= N
  <2>1. IsFiniteSet(Backend) /\ Cardinality(Backend) = N
    BY PoolAssumption, FS_Interval DEF Backend
  <2>2. Healthy \in SUBSET Backend
    BY DEF Healthy
  <2> QED BY <2>1, <2>2, FS_Subset DEF Available
<1>3. IdxMod % Available = 0
  BY <1>1, <1>2, PoolAssumption DEF Backend
<1>4. CASE i + 1 < IdxMod
  BY <1>1, <1>4
<1>5. CASE i + 1 = IdxMod
  <2>1. (i + 1) % IdxMod = 0
    BY <1>1, <1>5
  <2>2. 0 % Available = 0
    BY <1>1
  <2> QED BY <1>3, <1>5, <2>1, <2>2
<1> QED BY <1>1, <1>4, <1>5

(* Only the remainder of a rotation counts.                                   *)
LEMMA SameRotation ==
  ASSUME Healthy # {}, NEW t \in Nat, NEW u \in Nat, t % Available = u % Available,
         NEW i \in 1 .. Available
  PROVE  Rotate(HealthyList, t)[i] = Rotate(HealthyList, u)[i]
<1>1. Available \in Nat \ {0} /\ i - 1 \in Nat /\ t + i - 1 = t + (i - 1)
      /\ u + i - 1 = u + (i - 1)
  BY AvailableIsPositive
<1>2. (t + i - 1) % Available = (u + i - 1) % Available
  BY <1>1, SameRemainder
<1> QED BY <1>2, RotateAt

(* One further, the first one is the last.                                    *)
LEMMA NextRotation ==
  ASSUME Healthy # {}, NEW u \in Nat
  PROVE  /\ Rotate(HealthyList, u + 1)[Available] = Rotate(HealthyList, u)[1]
         /\ \A i \in 1 .. Available :
              i # Available =>
                Rotate(HealthyList, u + 1)[i] = Rotate(HealthyList, u)[i + 1]
<1>1. Available \in Nat \ {0}
  BY AvailableIsPositive
<1>2. (u + 1 + Available - 1) % Available = (u + 1 - 1) % Available
  <2>1. Available % Available = 0 % Available
    BY <1>1
  <2>2. (Available + u) % Available = (0 + u) % Available
    BY <1>1, <2>1, SameRemainder
  <2>3. u + 1 + Available - 1 = Available + u /\ u + 1 - 1 = 0 + u
    BY <1>1
  <2> QED BY <2>2, <2>3
<1>3. 1 \in 1 .. Available /\ Available \in 1 .. Available
  BY <1>1
<1>4. Rotate(HealthyList, u + 1)[Available] = Rotate(HealthyList, u)[1]
  <2>1. Rotate(HealthyList, u + 1)[Available] =
          HealthyList[((u + 1 + Available - 1) % Available) + 1]
    <3> DEFINE w == u + 1
               n == Available
    <3>1. w \in Nat /\ n \in 1 .. Available
      BY <1>3
    <3> HIDE DEF w, n
    <3>2. Rotate(HealthyList, w)[n] = HealthyList[((w + n - 1) % Available) + 1]
      BY <3>1, RotateAt
    <3> QED BY <3>2 DEF w, n
  <2>2. Rotate(HealthyList, u)[1] = HealthyList[((u + 1 - 1) % Available) + 1]
    BY <1>3, RotateAt
  <2> QED BY <1>2, <2>1, <2>2
<1>5. ASSUME NEW i \in 1 .. Available, i # Available
      PROVE  Rotate(HealthyList, u + 1)[i] = Rotate(HealthyList, u)[i + 1]
  <2>1. i + 1 \in 1 .. Available /\ u + 1 + i - 1 = u + (i + 1) - 1
    BY <1>1, <1>5
  <2>2. Rotate(HealthyList, u + 1)[i] = HealthyList[((u + 1 + i - 1) % Available) + 1]
    BY RotateAt
  <2>3. Rotate(HealthyList, u)[i + 1] =
          HealthyList[((u + (i + 1) - 1) % Available) + 1]
    BY <2>1, RotateAt
  <2> QED BY <2>1, <2>2, <2>3
<1> QED BY <1>4, <1>5

--------------------------------------------------------------------------------
(* The invariant *)

(* The algorithms that do not draw lots and do not know the client.           *)
Exact == {"round-robin", "weighted-round-robin", "least-connections", "least-response-time"}

(* A Pick has chosen and is about to ask.                                     *)
Pending == mu = "pick" /\ order # <<>>

Asked == IF Pending THEN 1 ELSE 0

(* How far b is behind its share of the picks, in picks times Round.          *)
Lead(b) == Picks * Weight[b] - Round * wins[b]

(* The current weights say who is behind by how much.  Nobody is ahead by a   *)
(* round, also not the one that is chosen: it had more than nothing.          *)
Weighed ==
  /\ \A b \in Backend \ Healthy : currentWeight[b] = 0
  /\ \A b \in Healthy :
       /\ Lead(b) > -Round /\ currentWeight[b] > -Round
       /\ currentWeight[b] = Lead(b) + (IF Pending THEN Weight[b] ELSE 0)
                                     - (IF Pending /\ b = Head(order) THEN Round ELSE 0)

(* Each backend wins once per turn of the list: the i-th from u waits for     *)
(* i - 1 others, and had its share of the picks before.                       *)
Turned(u) ==
  \A i \in 1 .. Available :
    Picks + i - 1 - Available * wins[Rotate(HealthyList, u)[i]] \in 0 .. Available - 1

(* Where the next rotation is to begin: an unmeasured backend late in the     *)
(* scan wins, an idle one early in it.                                        *)
NextTurn ==
  CASE algorithm = "round-robin"         -> rrIdx + Asked
    [] algorithm = "least-connections"   -> tieIdx
    [] algorithm = "least-response-time" -> tieIdx + Available - 1

TakesTurns ==
  \E u \in Nat :
    /\ Turned(u)
    /\ (u + Asked) % Available = NextTurn % Available
    /\ Pending => Head(order) = Rotate(HealthyList, u)[1]

Choosing ==
  /\ \A b \in Backend : cb[b].state = "closed"
  /\ mu = "free" => order = <<>>
  /\ mu = "pick" => IF Healthy = {} THEN order = <<>>
                                    ELSE order # <<>> /\ Head(order) \in Healthy

SelInv ==
  /\ TypeOK
  /\ wins \in [Backend -> Nat] /\ \A b \in Backend : wins[b] # 0 => healthy[b]
  /\ Choosing
  /\ algorithm = "weighted-round-robin" => Weighed
  /\ /\ algorithm # "weighted-round-robin" /\ Healthy # {}
     /\ Alike
     => TakesTurns

--------------------------------------------------------------------------------
(* Rounds *)

LEMMA RoundOfWeights ==
  ASSUME algorithm = "weighted-round-robin"
  PROVE  Round = Total(Healthy)
<1>1. [b \in Backend |-> IF healthy[b] THEN Share(b) ELSE 0] =
        [b \in Backend |-> IF b \in Healthy THEN Weight[b] ELSE 0]
  BY DEF Share, Healthy
<1> QED BY <1>1 DEF Round, Total

LEMMA RoundOfTurns ==
  ASSUME algorithm # "weighted-round-robin"
  PROVE  Round = Available
<1>1. [b \in Backend |-> IF healthy[b] THEN Share(b) ELSE 0] =
        [b \in Backend |-> IF healthy[b] THEN 1 ELSE 0]
  BY DEF Share
<1> QED BY <1>1, SumOfOnes DEF Round, Available

LEMMA RoundBounds ==
  Round \in Nat /\ \A b \in Healthy : Share(b) \in Nat \ {0} /\ Share(b) <= Round
<1> DEFINE shares == [b \in Backend |-> IF healthy[b] THEN Share(b) ELSE 0]
<1>1. \A b \in Backend : Share(b) \in Nat \ {0}
  BY PoolAssumption DEF Share
<1>2. shares \in [Backend -> Nat] /\ \A b \in Healthy : b \in Backend /\ shares[b] = Share(b)
  BY <1>1 DEF Healthy
<1>3. Round = SumOf(shares)
  BY DEF Round
<1> HIDE DEF shares
<1> QED BY <1>1, <1>2, <1>3, PartsOfSum

LEMMA PicksBounds ==
  ASSUME wins \in [Backend -> Nat]
  PROVE  /\ Picks \in Nat /\ \A b \in Backend : wins[b] <= Picks
         /\ Picks = 0 => wins = NoWins
         /\ wins = NoWins => Picks = 0
<1>1. Picks \in Nat /\ \A b \in Backend : wins[b] <= Picks
  BY PartsOfSum DEF Picks
<1>2. Picks = 0 => wins = NoWins
  <2> SUFFICES ASSUME Picks = 0 PROVE wins = NoWins
    OBVIOUS
  <2>1. \A b \in Backend : wins[b] \in Nat /\ wins[b] <= 0
    BY <1>1
  <2>2. \A b \in Backend : wins[b] = 0
    BY <2>1
  <2> QED BY <2>2 DEF NoWins
<1>3. wins = NoWins => Picks = 0
  BY NoWeightsCancel DEF Picks, NoWins
<1> QED BY <1>1, <1>2, <1>3

(* What the backends are behind and ahead cancels out.                        *)
LEMMA LeadsCancel ==
  ASSUME algorithm = "weighted-round-robin", wins \in [Backend -> Nat],
         \A b \in Backend : wins[b] # 0 => healthy[b]
  PROVE  LET leads == [b \in Backend |-> IF b \in Healthy THEN Lead(b) ELSE 0]
         IN  leads \in [Backend -> Int] /\ SumOf(leads) = 0
<1> DEFINE leads == [b \in Backend |-> IF b \in Healthy THEN Lead(b) ELSE 0]
           shares == [b \in Backend |-> IF b \in Healthy THEN Weight[b] ELSE 0]
           gain == [b \in Backend |-> Picks * shares[b]]
           pay == [b \in Backend |-> (-Round) * wins[b]]
<1>1. Picks \in Int /\ Round \in Int /\ -Round \in Int
  BY PicksBounds, RoundBounds
<1>2. shares \in [Backend -> Int] /\ wins \in [Backend -> Int]
  BY PoolAssumption
<1>3. gain \in [Backend -> Int] /\ pay \in [Backend -> Int]
  <2>1. ASSUME NEW b \in Backend PROVE gain[b] \in Int /\ pay[b] \in Int
    <3>1. shares[b] \in Int /\ wins[b] \in Int
      BY <1>2
    <3> HIDE DEF shares
    <3> QED BY <1>1, <3>1
  <2> QED BY <2>1
<1>4. ASSUME NEW b \in Backend PROVE leads[b] \in Int /\ leads[b] = gain[b] + pay[b]
  <2>1. Weight[b] \in Int /\ wins[b] \in Int
    BY PoolAssumption
  <2>2. CASE b \in Healthy
    BY <1>1, <2>1, <2>2 DEF Lead
  <2>3. CASE b \notin Healthy
    <3>1. wins[b] = 0 /\ shares[b] = 0
      BY <2>3 DEF Healthy
    <3> QED BY <1>1, <2>3, <3>1
  <2> QED BY <2>2, <2>3
<1>5. leads \in [Backend -> Int] /\ \A b \in Backend : leads[b] = gain[b] + pay[b]
  BY <1>4
<1>6. /\ \A b \in Backend : gain[b] = Picks * shares[b]
      /\ \A b \in Backend : pay[b] = (-Round) * wins[b]
  OBVIOUS
<1>7. SumOf(shares) = Round /\ SumOf(wins) = Picks
  BY RoundOfWeights DEF Total, Picks
<1> HIDE DEF leads, shares, gain, pay
<1>8. SumOf(gain) = Picks * Round
  BY <1>1, <1>2, <1>3, <1>6, <1>7, SumScales
<1>9. SumOf(pay) = (-Round) * Picks
  BY <1>1, <1>2, <1>3, <1>6, <1>7, SumScales
<1>10. SumOf(leads) = SumOf(gain) + SumOf(pay)
  BY <1>3, <1>5, SumAdds
<1>11. Picks * Round + (-Round) * Picks = 0
  BY <1>1
<1> QED BY <1>5, <1>8, <1>9, <1>10, <1>11 DEF leads

--------------------------------------------------------------------------------
(* A new round *)

Fresh ==
  /\ TypeOK /\ wins = NoWins
  /\ mu = "free" /\ order = <<>>
  /\ algorithm = "weighted-round-robin" => \A b \in Backend : currentWeight[b] = 0

LEMMA FreshPicks ==
  ASSUME wins = NoWins
  PROVE  Picks = 0 /\ wins \in [Backend -> Nat] /\ \A b \in Backend : wins[b] = 0
<1>1. wins \in [Backend -> Nat] /\ \A b \in Backend : wins[b] = 0
  BY DEF NoWins
<1> QED BY <1>1, PicksBounds

LEMMA FreshIsWeighed ==
  ASSUME Fresh, algorithm = "weighted-round-robin"
  PROVE  Weighed
<1>1. \A b \in Backend : currentWeight[b] = 0
  BY DEF Fresh
<1>2. ASSUME NEW b \in Healthy PROVE Lead(b) = 0 /\ -Round < 0
  <2>1. Picks = 0 /\ wins[b] = 0 /\ Weight[b] \in Int /\ b \in Backend
    BY FreshPicks, PoolAssumption DEF Fresh, Healthy
  <2>2. Round \in Nat \ {0}
    BY RoundBounds
  <2> QED BY <2>1, <2>2 DEF Lead
<1>3. ~Pending
  BY DEF Fresh, Pending
<1> QED BY <1>1, <1>2, <1>3 DEF Weighed, Healthy

LEMMA NextTurnIsNatural ==
  ASSUME TypeOK, Healthy # {}, algorithm \in Exact \ {"weighted-round-robin"}
  PROVE  NextTurn \in Nat
<1>1. Available \in Nat \ {0} /\ rrIdx \in Nat /\ tieIdx \in Nat /\ Asked \in Nat
  BY AvailableIsPositive, PoolAssumption DEF TypeOK, Asked
<1> QED BY <1>1 DEF NextTurn, Exact

LEMMA FreshTakesTurns ==
  ASSUME Fresh, Healthy # {}, algorithm \in Exact \ {"weighted-round-robin"}
  PROVE  TakesTurns
<1>1. Available \in Nat \ {0}
  BY AvailableIsPositive
<1>2. ~Pending /\ Asked = 0
  BY DEF Fresh, Pending, Asked
<1>3. NextTurn \in Nat
  BY NextTurnIsNatural DEF Fresh
<1>4. Turned(NextTurn)
  <2> SUFFICES ASSUME NEW i \in 1 .. Available
               PROVE  Picks + i - 1 - Available * wins[Rotate(HealthyList, NextTurn)[i]]
                        \in 0 .. Available - 1
    BY DEF Turned
  <2>1. Picks = 0 /\ wins[Rotate(HealthyList, NextTurn)[i]] = 0
    BY <1>3, TurnedList, FreshPicks DEF Fresh, Healthy
  <2> QED BY <1>1, <2>1
<1>5. (NextTurn + 0) % Available = NextTurn % Available
  BY <1>3
<1> QED BY <1>2, <1>3, <1>4, <1>5 DEF TakesTurns

LEMMA FreshKeeps ==
  Fresh /\ Choosing /\ algorithm \in Exact => SelInv
<1> SUFFICES ASSUME Fresh, Choosing, algorithm \in Exact PROVE SelInv
  OBVIOUS
<1>1. wins \in [Backend -> Nat] /\ \A b \in Backend : wins[b] = 0
  BY FreshPicks DEF Fresh
<1> QED BY <1>1, FreshIsWeighed, FreshTakesTurns DEF SelInv, Fresh

--------------------------------------------------------------------------------
(* Shares *)

(* A multiple of round that is less than a round behind is none behind.       *)
LEMMA NotBehind ==
  ASSUME NEW round \in Nat \ {0}, NEW k \in Int, round * k > -round
  PROVE  k >= 0
<1> SUFFICES ASSUME k <= -1 PROVE FALSE
  OBVIOUS
<1>1. round * k <= round * (-1)
  OBVIOUS
<1> QED BY <1>1

LEMMA RoundsOf ==
  ASSUME NEW x \in Nat, NEW n \in Nat \ {0}, x % n = 0
  PROVE  x = n * (x \div n) /\ x \div n \in Nat
  OBVIOUS

LEMMA WeighedShares ==
  ASSUME SelInv, algorithm = "weighted-round-robin", Round > 0, Picks % Round = 0,
         NEW b \in Healthy
  PROVE  wins[b] = (Picks \div Round) * Weight[b]
<1> DEFINE leads == [c \in Backend |-> IF c \in Healthy THEN Lead(c) ELSE 0]
           q == Picks \div Round
           rest(c) == q * Weight[c] - wins[c]
<1>1. Picks \in Nat /\ Round \in Nat \ {0} /\ Picks = Round * q /\ q \in Nat
  <2>1. Picks \in Nat /\ Round \in Nat \ {0}
    BY PicksBounds, RoundBounds DEF SelInv
  <2> QED BY <2>1, RoundsOf
<1> HIDE DEF q
<1>2. ASSUME NEW c \in Healthy
      PROVE  Lead(c) = Round * rest(c) /\ rest(c) \in Int /\ rest(c) >= 0
  <2>1. wins[c] \in Int /\ Weight[c] \in Int /\ c \in Backend
    BY PoolAssumption DEF SelInv, Healthy
  <2>2. Lead(c) = (Round * q) * Weight[c] - Round * wins[c]
    BY <1>1 DEF Lead
  <2>3. Lead(c) = Round * rest(c) /\ rest(c) \in Int
    BY <1>1, <2>1, <2>2
  <2>4. Lead(c) > -Round
    BY DEF SelInv, Weighed
  <2> HIDE DEF rest
  <2> QED BY <1>1, <2>3, <2>4, NotBehind
<1>3. leads \in [Backend -> Int] /\ SumOf(leads) = 0
  BY LeadsCancel DEF SelInv
<1>4. leads \in [Backend -> Nat]
  <2>1. ASSUME NEW c \in Backend PROVE leads[c] \in Nat
    <3>1. CASE c \in Healthy
      <4>1. Round * rest(c) \in Nat
        <5>1. rest(c) \in Nat
          BY <1>2, <3>1
        <5> HIDE DEF rest
        <5> QED BY <1>1, <5>1
      <4> QED BY <1>2, <3>1, <4>1
    <3> QED BY <3>1
  <2> HIDE DEF leads
  <2> QED BY <1>3, <2>1
<1>5. b \in Backend /\ leads[b] = Lead(b)
  BY DEF Healthy
<1> HIDE DEF leads
<1>6. Lead(b) = 0
  <2>1. leads[b] <= 0 /\ leads[b] \in Nat
    BY <1>3, <1>4, <1>5, PartsOfSum
  <2> QED BY <1>5, <2>1
<1>7. rest(b) = 0
  <2>1. Round * rest(b) = 0 /\ rest(b) \in Int
    BY <1>2, <1>6
  <2> HIDE DEF rest
  <2> QED BY <1>1, <2>1
<1>8. q * Weight[b] - wins[b] = 0 /\ wins[b] \in Int /\ q * Weight[b] \in Int
  BY <1>1, <1>5, <1>7, PoolAssumption DEF SelInv
<1> QED BY <1>8 DEF q

LEMMA TurnedShares ==
  ASSUME SelInv, Healthy # {}, TakesTurns, Picks % Available = 0, NEW b \in Healthy
  PROVE  wins[b] = Picks \div Available
<1> DEFINE q == Picks \div Available
<1>1. /\ Picks \in Nat /\ Available \in Nat \ {0}
      /\ Picks = Available * q /\ q \in Nat
  BY PicksBounds, AvailableIsPositive, RoundsOf DEF SelInv
<1> HIDE DEF q
<1>2. PICK u \in Nat : Turned(u)
  BY DEF TakesTurns
<1>3. PICK i \in 1 .. Available : Rotate(HealthyList, u)[i] = b
  BY TurnedList
<1>4. wins[b] \in Int
  BY DEF SelInv, Healthy
<1>5. Available * q + i - 1 - Available * wins[b] \in 0 .. Available - 1
  BY <1>1, <1>2, <1>3 DEF Turned
<1> DEFINE k == q - wins[b]
<1>6. Available * k + (i - 1) \in 0 .. Available - 1 /\ k \in Int /\ i - 1 \in 0 .. Available - 1
  BY <1>1, <1>4, <1>5
<1> HIDE DEF k
<1>7. k >= 0
  BY <1>1, <1>6, NotBehind
<1>8. -k >= 0
  <2>1. Available * (-k) > -Available /\ -k \in Int
    BY <1>1, <1>6
  <2> QED BY <1>1, <2>1, NotBehind
<1>9. q - wins[b] = 0
  BY <1>6, <1>7, <1>8 DEF k
<1> QED BY <1>1, <1>4, <1>9 DEF q

--------------------------------------------------------------------------------
(* The steps *)

(* The pool is the same, and so are its rotations and its rounds.             *)
LEMMA SamePool ==
  ASSUME UNCHANGED <<healthy, algorithm>>
  PROVE  /\ Healthy' = Healthy /\ Available' = Available /\ Round' = Round
         /\ HealthyList' = HealthyList
         /\ \A u : Rotate(HealthyList, u)' = Rotate(HealthyList, u)
<1>1. Healthy' = Healthy
  BY DEF Healthy
<1>2. HealthyList' = HealthyList
  BY <1>1 DEF HealthyList
<1>3. Round' = Round
  BY DEF Round, Share
<1> QED BY <1>1, <1>2, <1>3 DEF Available, Rotate

(* Before the first pick the pool settles.                                    *)
LEMMA SettleKeeps ==
  ASSUME SelInv, algorithm \in Exact, Settle
  PROVE  SelInv'
<1>1. TypeOK' /\ Choosing' /\ algorithm' = algorithm /\ currentWeight' = currentWeight
      /\ mu' = "free" /\ order' = <<>> /\ wins' = NoWins /\ wins = NoWins
  <2>1. ASSUME NEW b \in Flaky, NEW ok \in BOOLEAN, ProbeBack(b, ok) PROVE TypeOK'
    BY <2>1, OthersTyped, PoolAssumption DEF SelInv, ProbeBack
  <2>2. ASSUME NEW b \in Busy, WarmUp(b) \/ CoolDown(b) PROVE TypeOK'
    BY <2>2, OthersTyped, PoolAssumption DEF SelInv, WarmUp, CoolDown
  <2>3. TypeOK'
    BY <2>1, <2>2 DEF Settle
  <2>4. mu = "free" /\ wins = NoWins /\ wins' = wins /\ UNCHANGED <<lbVars, cb, pickVars>>
    BY DEF Settle, ProbeBack, WarmUp, CoolDown, Settling, checkBackend, AddActive, DropActive
  <2> QED BY <2>3, <2>4 DEF SelInv, Choosing, lbVars, pickVars
<1>2. ASSUME algorithm = "weighted-round-robin", NEW b \in Backend
      PROVE  currentWeight[b] = 0
  <2>1. CASE b \in Healthy
    <3>1. Picks = 0 /\ wins[b] = 0 /\ Weight[b] \in Int /\ Round \in Int
      BY <1>1, FreshPicks, RoundBounds, PoolAssumption
    <3>2. ~Pending
      BY DEF Settle, ProbeBack, WarmUp, CoolDown, Settling, Pending
    <3>3. currentWeight[b] = Lead(b) + 0 - 0
      BY <1>2, <2>1, <3>2 DEF SelInv, Weighed
    <3> QED BY <3>1, <3>3 DEF Lead
  <2>2. CASE b \notin Healthy
    BY <1>2, <2>2 DEF SelInv, Weighed
  <2> QED BY <2>1, <2>2
<1>3. Fresh'
  BY <1>1, <1>2 DEF Fresh
<1>4. (Fresh /\ Choosing /\ algorithm \in Exact)' => SelInv'
  BY FreshKeeps, PTL
<1> QED BY <1>1, <1>3, <1>4 DEF Exact

LEMMA SwitchKeeps ==
  ASSUME SelInv, NEW a \in Algorithms, a \in Exact, Switch(a)
  PROVE  SelInv'
<1>1. TypeOK'
  BY OthersTyped DEF SelInv, Switch
<1>2. Fresh' /\ Choosing' /\ algorithm' = a
  BY <1>1 DEF Fresh, Switch, SetAlgorithm, SelInv, Choosing, backendVars, pickVars
<1>3. (Fresh /\ Choosing /\ algorithm \in Exact)' => SelInv'
  BY FreshKeeps, PTL
<1> QED BY <1>2, <1>3 DEF Exact

(* With nobody healthy there is nothing to share.                             *)
LEMMA NobodyLeftKeeps ==
  ASSUME SelInv, NobodyLeft
  PROVE  SelInv'
<1>1. /\ UNCHANGED <<lbVars, backendVars, order, wins>> /\ mu' = "free"
      /\ order = <<>> /\ Healthy = {}
  BY DEF NobodyLeft, GiveUp, SelInv, Choosing
<1>2. TypeOK' /\ Choosing'
  BY <1>1, PickTyped DEF SelInv, Choosing, NobodyLeft, backendVars, lbVars
<1>3. Healthy' = {} /\ algorithm' = algorithm /\ currentWeight' = currentWeight
  BY <1>1 DEF Healthy, backendVars, lbVars
<1>4. algorithm' = "weighted-round-robin" => Weighed'
  BY <1>1, <1>3 DEF SelInv, Weighed
<1> QED BY <1>1, <1>2, <1>3, <1>4 DEF SelInv, backendVars

LEMMA ChooseWeighs ==
  ASSUME SelInv, NEW hash \in Hashes, Ask(hash), Healthy # {},
         algorithm = "weighted-round-robin"
  PROVE  Weighed'
<1> DEFINE best == Head(order')
           leads == [b \in Backend |-> IF b \in Healthy THEN Lead(b) ELSE 0]
           shares == [b \in Backend |-> IF b \in Healthy THEN Weight[b] ELSE 0]
           raised == [b \in Backend |-> leads[b] + shares[b]]
<1>1. /\ wins' = wins /\ mu = "free" /\ mu' = "pick" /\ UNCHANGED <<healthy, algorithm>>
      /\ Choose(hash) /\ order' # <<>> /\ best \in Healthy
      /\ currentWeight' = Reweigh(best)
  BY FirstAsked DEF SelInv, Ask, Choose, backendVars
<1>2. Healthy' = Healthy /\ Round' = Round /\ Picks' = Picks
  BY <1>1, SamePool DEF Picks
<1>3. \A b : Lead(b)' = Lead(b)
  BY <1>1, <1>2 DEF Lead
<1>4. Pending' /\ ~Pending
  BY <1>1 DEF Pending
<1>5. Round = Total(Healthy) /\ Round \in Nat /\ \A b \in Healthy : Weight[b] \in Nat \ {0}
  BY RoundOfWeights, RoundBounds, PoolAssumption DEF Healthy
<1>6. \A b \in Healthy : /\ currentWeight[b] = Lead(b) /\ Lead(b) > -Round
                         /\ Lead(b) \in Int /\ b \in Backend
  <2> SUFFICES ASSUME NEW b \in Healthy
               PROVE  /\ currentWeight[b] = Lead(b) /\ Lead(b) > -Round
                      /\ Lead(b) \in Int /\ b \in Backend
    OBVIOUS
  <2>1. b \in Backend /\ Lead(b) > -Round /\ currentWeight[b] = Lead(b) + 0 - 0
    BY <1>4 DEF SelInv, Weighed, Healthy
  <2>2. Picks \in Int /\ Weight[b] \in Int /\ wins[b] \in Int
    BY <2>1, PicksBounds, PoolAssumption DEF SelInv
  <2>3. Lead(b) \in Int
    BY <1>5, <2>2 DEF Lead
  <2> QED BY <2>1, <2>3
<1>7. ASSUME NEW b \in Backend
      PROVE  currentWeight'[b] = currentWeight[b] + (IF b \in Healthy THEN Weight[b] ELSE 0)
                                   - (IF b = best THEN Round ELSE 0)
  BY <1>1, <1>5 DEF Reweigh
<1>8. leads \in [Backend -> Int] /\ SumOf(leads) = 0
  BY LeadsCancel DEF SelInv
<1>9. shares \in [Backend -> Int] /\ SumOf(shares) = Round
  BY RoundOfWeights, PoolAssumption DEF Total
<1>10. raised \in [Backend -> Int] /\ \A b \in Backend : raised[b] = leads[b] + shares[b]
  BY <1>8, <1>9
<1>11. \A b \in Backend : raised[b] = IF b \in Healthy THEN Lead(b) + Weight[b] ELSE 0
  OBVIOUS
<1> HIDE DEF leads, shares, raised, best
<1>12. SumOf(raised) > 0
  <2>1. SumOf(raised) = 0 + Round
    BY <1>8, <1>9, <1>10, SumAdds
  <2>2. Round > 0
    BY <1>1, RoundBounds
  <2> QED BY <1>5, <2>1, <2>2
<1>13. PICK c \in Healthy : Lead(c) + Weight[c] > 0
  BY <1>10, <1>11, <1>12, SomeTermIsPositive
<1>14. Lead(best) + Weight[best] > 0
  <2>1. Lead(best) + Weight[best] >= Lead(c) + Weight[c]
    BY <1>1, <1>6, HeaviestFirst DEF SelInv, best
  <2> QED BY <1>1, <1>5, <1>6, <1>13, <2>1
<1>15. ASSUME NEW b \in Healthy
       PROVE  /\ currentWeight'[b] = Lead(b) + Weight[b] - (IF b = best THEN Round ELSE 0)
              /\ currentWeight'[b] > -Round
  <2>1. currentWeight'[b] = Lead(b) + Weight[b] - (IF b = best THEN Round ELSE 0)
    BY <1>6, <1>7
  <2> QED BY <1>5, <1>6, <1>14, <2>1
<1>16. ASSUME NEW b \in Backend \ Healthy PROVE currentWeight'[b] = 0
  BY <1>1, <1>7 DEF SelInv, Weighed
<1> QED BY <1>2, <1>3, <1>4, <1>6, <1>15, <1>16 DEF Weighed, best

(* Who is asked first takes its turn.                                         *)
LEMMA ChooseTurns ==
  ASSUME SelInv, NEW hash \in Hashes, Ask(hash), Healthy # {},
         algorithm \in Exact \ {"weighted-round-robin"},
         Alike
  PROVE  TakesTurns'
<1>1. /\ wins' = wins /\ mu = "free" /\ mu' = "pick" /\ UNCHANGED <<healthy, algorithm, rrIdx>>
      /\ Choose(hash) /\ order' # <<>> /\ Head(order') = order'[1] /\ order' \in Orders(hash)
  BY FirstAsked DEF SelInv, Ask, Choose, backendVars
<1>2. /\ Healthy' = Healthy /\ Available' = Available /\ Picks' = Picks
      /\ HealthyList' = HealthyList
      /\ \A u : Rotate(HealthyList, u)' = Rotate(HealthyList, u)
  BY <1>1, SamePool DEF Picks
<1>3. Pending' /\ ~Pending /\ Asked = 0 /\ Asked' = 1
  BY <1>1 DEF Pending, Asked
<1>4. /\ Available \in Nat \ {0} /\ rrIdx \in 0 .. IdxMod - 1 /\ tieIdx \in 0 .. IdxMod - 1
      /\ rrIdx \in Nat /\ tieIdx \in Nat /\ NextTurn \in Nat
  BY AvailableIsPositive, NextTurnIsNatural, PoolAssumption DEF SelInv, TypeOK
<1>5. PICK u \in Nat : Turned(u) /\ (u + 0) % Available = NextTurn % Available
  BY <1>3 DEF SelInv, TakesTurns
<1>6. Turned(u)'
  BY <1>1, <1>2, <1>5 DEF Turned
<1>7. Head(order') = Rotate(HealthyList, NextTurn)[1]
  <2>1. CASE algorithm = "round-robin"
    BY <1>1, <1>3, <1>4, <2>1 DEF Orders, NextTurn
  <2> DEFINE turned == Rotate(HealthyList, tieIdx)
             n == Available
  <2>2. /\ DOMAIN turned = 1 .. n /\ n \in Nat \ {0}
        /\ \A i \in 1 .. n : turned[i] \in Healthy
    BY <1>4, TurnedList
  <2>3. \A b \in Healthy : BestFirst(b, turned)[1] = b
    BY <1>4, HealthyListEnumerates, RotateEnumerates, BestFirstEnumerates
  <2> HIDE DEF turned, n
  <2>4. CASE algorithm = "least-connections"
    <3>1. \A b, c \in Healthy : ~Beats(b, c)
      BY <2>4 DEF Alike, Idle, Beats, FewerActive, Healthy
    <3>2. Best(turned) = {turned[1]}
      BY <2>2, <3>1 DEF Best
    <3>3. order' = BestFirst(turned[1], turned)
      BY <1>1, <2>4, <3>2 DEF Orders, turned
    <3> QED BY <1>1, <2>2, <2>3, <2>4, <3>3 DEF NextTurn, turned
  <2>5. CASE algorithm = "least-response-time"
    <3>1. \A b, c \in Healthy : Beats(b, c)
      BY <2>5 DEF Alike, Unmeasured, Beats, Faster, Healthy
    <3>2. Best(turned) = {turned[n]}
      BY <2>2, <3>1 DEF Best
    <3>3. order' = BestFirst(turned[n], turned)
      BY <1>1, <2>5, <3>2 DEF Orders, turned
    <3>4. Head(order') = turned[n]
      BY <1>1, <2>2, <2>3, <3>3
    <3>5. turned[n] = HealthyList[((tieIdx + n - 1) % n) + 1]
      <4>1. Available \in 1 .. Available
        BY <2>2 DEF n
      <4>2. Rotate(HealthyList, tieIdx)[Available]
              = HealthyList[((tieIdx + Available - 1) % Available) + 1]
        BY <1>4, <4>1, RotateAt
      <4> QED BY <4>2 DEF turned, n
    <3> DEFINE w == tieIdx + n - 1
    <3>6. w \in Nat /\ w + 1 - 1 = w /\ 1 \in 1 .. n /\ NextTurn = w
      BY <1>4, <2>2, <2>5 DEF NextTurn, n
    <3>7. Rotate(HealthyList, w)[1] = HealthyList[((w + 1 - 1) % n) + 1]
      <4> HIDE DEF w
      <4> QED BY <3>6, RotateAt DEF n
    <3> QED BY <3>4, <3>5, <3>6, <3>7
  <2> QED BY <2>1, <2>4, <2>5 DEF Exact
<1>8. Head(order') = Rotate(HealthyList, u)[1]
  <2>1. u % Available = NextTurn % Available /\ 1 \in 1 .. Available
    BY <1>4, <1>5
  <2> QED BY <1>4, <1>7, <2>1, SameRotation
<1>9. (u + 1) % Available = NextTurn' % Available
  <2>1. u % Available = NextTurn % Available
    BY <1>5
  <2>2. (u + 1) % Available = (NextTurn + 1) % Available
    <3> DEFINE n == Available
               w == NextTurn
    <3>1. n \in Nat \ {0} /\ w \in Nat /\ u % n = w % n /\ 1 \in Nat
      BY <1>4, <2>1
    <3> HIDE DEF n, w
    <3>2. (u + 1) % n = (w + 1) % n
      BY <3>1, SameRemainder
    <3> QED BY <3>2 DEF n, w
  <2>3. CASE algorithm = "round-robin"
    BY <1>1, <1>3, <1>4, <2>2, <2>3 DEF NextTurn
  <2>4. CASE algorithm # "round-robin"
    <3>1. tieIdx' = (tieIdx + 1) % IdxMod
      BY <1>1, <2>4, AvailableIsPositive DEF Choose, Rotating, Exact
    <3>2. tieIdx' % Available = (tieIdx + 1) % Available /\ tieIdx' \in Nat
      BY <1>4, <3>1, IndexModulo, NextIndex, PoolAssumption
    <3>3. CASE algorithm = "least-connections"
      BY <1>1, <2>2, <3>2, <3>3 DEF NextTurn
    <3>4. CASE algorithm = "least-response-time"
      <4>1. (tieIdx' + (Available - 1)) % Available =
              ((tieIdx + 1) + (Available - 1)) % Available
        <5> DEFINE n == Available
                   w == tieIdx + 1
                   v == tieIdx'
                   k == Available - 1
        <5>1. n \in Nat \ {0} /\ w \in Nat /\ v \in Nat /\ k \in Nat /\ v % n = w % n
          BY <1>4, <3>2
        <5> HIDE DEF n, w, v, k
        <5>2. (v + k) % n = (w + k) % n
          BY <5>1, SameRemainder
        <5> QED BY <5>2 DEF n, w, v, k
      <4>2. /\ tieIdx' + (Available - 1) = tieIdx' + Available - 1
            /\ (tieIdx + 1) + (Available - 1) = tieIdx + Available - 1 + 1
        BY <1>4, <3>2
      <4>3. NextTurn' = tieIdx' + Available - 1 /\ NextTurn = tieIdx + Available - 1
        BY <1>1, <1>2, <3>4 DEF NextTurn
      <4> QED BY <2>2, <4>1, <4>2, <4>3
    <3> QED BY <2>4, <3>3, <3>4 DEF Exact
  <2> QED BY <2>3, <2>4
<1>10. Turned(u)' /\ (u + Asked') % Available' = NextTurn' % Available'
       /\ (Pending' => Head(order') = Rotate(HealthyList, u)'[1])
  BY <1>2, <1>3, <1>6, <1>8, <1>9
<1> QED BY <1>10 DEF TakesTurns

LEMMA AskKeeps ==
  ASSUME SelInv, algorithm \in Exact, NEW hash \in Hashes, Ask(hash)
  PROVE  SelInv'
<1>1. /\ UNCHANGED <<wins, healthy, active, ewmaUs, cb, algorithm>>
      /\ mu' = "pick" /\ Choose(hash)
  BY DEF Ask, Choose, backendVars
<1>2. TypeOK' /\ Healthy' = Healthy
  BY <1>1, ChooseTyped, SamePool DEF SelInv
<1>3. CASE Healthy = {}
  <2>1. HealthyList = <<>>
    <3>1. HealthyList \in Seq(Healthy) /\ Len(HealthyList) = Cardinality(Healthy)
      BY HealthyListEnumerates, EnumeratesIsSeq
    <3> QED BY <1>3, <3>1, FS_EmptySet
  <2>2. order' = <<>> /\ currentWeight' = currentWeight
    BY <1>1, <2>1 DEF Choose
  <2>3. Choosing'
    BY <1>1, <1>2, <1>3, <2>2 DEF SelInv, Choosing
  <2>4. algorithm = "weighted-round-robin" => Weighed'
    BY <1>2, <1>3, <2>2 DEF SelInv, Weighed
  <2> QED BY <1>1, <1>2, <1>3, <2>3, <2>4 DEF SelInv
<1>4. CASE Healthy # {}
  <2>1. Choosing'
    BY <1>1, <1>2, <1>4, FirstAsked DEF SelInv, Choosing
  <2>2. algorithm = "weighted-round-robin" => Weighed'
    BY <1>4, ChooseWeighs
  <2>3. Alike' <=> Alike
    BY <1>1 DEF Alike, Idle, Unmeasured
  <2>4. algorithm # "weighted-round-robin" /\ Alike => TakesTurns'
    BY <1>4, ChooseTurns
  <2> QED BY <1>1, <1>2, <2>1, <2>2, <2>3, <2>4 DEF SelInv
<1> QED BY <1>3, <1>4

(* What a win changes.                                                        *)
LEMMA WinMoves ==
  ASSUME SelInv, NEW b \in Backend, Win(b)
  PROVE  /\ TypeOK' /\ Choosing' /\ b \in Healthy /\ b = Head(order)
         /\ Pending /\ ~Pending'
         /\ UNCHANGED <<healthy, active, ewmaUs, algorithm, tieIdx, currentWeight>>
         /\ rrIdx' = Advance /\ Picks' = Picks + 1
         /\ wins' \in [Backend -> Nat] /\ wins'[b] = wins[b] + 1
         /\ \A c \in Backend : c # b => wins'[c] = wins[c]
<1>1. /\ mu = "pick" /\ order # <<>> /\ b = Head(order)
      /\ cb' = [cb EXCEPT ![b] = AfterAllow(@)]
      /\ mu' = "free" /\ order' = <<>> /\ rrIdx' = Advance
      /\ UNCHANGED <<algorithm, tieIdx, currentWeight, healthy, active, ewmaUs>>
      /\ wins' = [wins EXCEPT ![b] = @ + 1]
  BY DEF Win, Granted
<1>2. b \in Healthy
  BY <1>1 DEF SelInv, Choosing
<1>3. TypeOK'
  BY PickTyped DEF SelInv, Win
<1>4. cb' = cb
  BY <1>1 DEF SelInv, Choosing, AfterAllow, TypeOK
<1>5. Choosing'
  BY <1>1, <1>4 DEF SelInv, Choosing
<1>6. /\ wins \in [Backend -> Int] /\ wins' \in [Backend -> Nat]
      /\ wins'[b] = wins[b] + 1 /\ \A c \in Backend : c # b => wins'[c] = wins[c]
  BY <1>1 DEF SelInv
<1>7. Picks' = Picks + 1
  BY <1>1, <1>6, SumOfOneMore DEF Picks
<1> QED BY <1>1, <1>2, <1>3, <1>5, <1>6, <1>7 DEF Pending

(* One pick more and one win more, in the weights' accounts.                   *)
LEMMA OneMore ==
  ASSUME NEW p \in Int, NEW w \in Int, NEW r \in Int, NEW k \in Int
  PROVE  /\ p * w \in Int /\ r * k \in Int
         /\ (p + 1) * w - r * k = p * w - r * k + w
         /\ (p + 1) * w - r * (k + 1) = p * w - r * k + w - r
<1>1. p * w \in Int /\ r * k \in Int
  OBVIOUS
<1>2. (p + 1) * w = p * w + w
  OBVIOUS
<1>3. r * (k + 1) = r * k + r
  OBVIOUS
<1> QED BY <1>1, <1>2, <1>3

(* The weights have told of the win before.                                   *)
LEMMA WinWeighs ==
  ASSUME SelInv, NEW b \in Backend, Win(b), algorithm = "weighted-round-robin"
  PROVE  Weighed'
<1>1. /\ Healthy' = Healthy /\ Round' = Round /\ Round \in Nat
      /\ currentWeight' = currentWeight /\ Pending /\ ~Pending'
      /\ b = Head(order) /\ Picks \in Nat /\ Picks' = Picks + 1
  BY WinMoves, SamePool, RoundBounds, PicksBounds DEF SelInv
<1>2. ASSUME NEW c \in Healthy
      PROVE  currentWeight[c] = Lead(c)' /\ currentWeight[c] > -Round
  <2>1. c \in Backend /\ Weight[c] \in Int /\ wins[c] \in Int
    BY PoolAssumption DEF SelInv, Healthy
  <2>2. /\ currentWeight[c] = Lead(c) + Weight[c] - (IF c = b THEN Round ELSE 0)
        /\ currentWeight[c] > -Round
    BY <1>1 DEF SelInv, Weighed
  <2>3. Lead(c)' = (Picks + 1) * Weight[c] - Round * wins'[c]
    BY <1>1 DEF Lead
  <2>4. /\ Lead(c) + Weight[c] = (Picks + 1) * Weight[c] - Round * wins[c]
        /\ Lead(c) + Weight[c] - Round = (Picks + 1) * Weight[c] - Round * (wins[c] + 1)
        /\ Lead(c) \in Int
    <3>1. Picks \in Int /\ Round \in Int
      BY <1>1
    <3> QED BY <2>1, <3>1, OneMore DEF Lead
  <2>6. CASE c = b
    <3>1. wins'[c] = wins[c] + 1
      BY <2>6, WinMoves
    <3>2. Lead(c)' = Lead(c) + Weight[c] - Round
      BY <2>3, <2>4, <3>1
    <3> QED BY <1>1, <2>1, <2>2, <2>4, <2>6, <3>2
  <2>7. CASE c # b
    <3>1. wins'[c] = wins[c]
      BY <2>1, <2>7, WinMoves
    <3>2. Lead(c)' = Lead(c) + Weight[c]
      BY <2>3, <2>4, <3>1
    <3> QED BY <1>1, <2>1, <2>2, <2>4, <2>7, <3>2
  <2> QED BY <2>6, <2>7
<1>3. ASSUME NEW c \in Healthy PROVE currentWeight[c] \in Int
  BY DEF SelInv, TypeOK, Healthy
<1>4. \A c \in Backend \ Healthy : currentWeight[c] = 0
  BY DEF SelInv, Weighed
<1> QED BY <1>1, <1>2, <1>3, <1>4 DEF Weighed

(* Whoever has won is the last in turn.                                       *)
LEMMA WinTurns ==
  ASSUME SelInv, NEW b \in Backend, Win(b),
         algorithm \in Exact \ {"weighted-round-robin"}, TakesTurns
  PROVE  TakesTurns'
<1>1. /\ Pending /\ ~Pending' /\ Asked = 1 /\ Asked' = 0 /\ b = Head(order) /\ b \in Healthy
      /\ UNCHANGED <<healthy, algorithm, tieIdx>> /\ rrIdx' = Advance
      /\ Picks' = Picks + 1 /\ Healthy # {}
  BY WinMoves DEF Asked
<1>2. /\ Available' = Available /\ HealthyList' = HealthyList
      /\ \A u : Rotate(HealthyList, u)' = Rotate(HealthyList, u)
  BY <1>1, SamePool
<1>3. /\ Available \in Nat \ {0} /\ Picks \in Nat /\ rrIdx \in 0 .. IdxMod - 1
      /\ IdxMod \in Nat \ {0}
  BY <1>1, AvailableIsPositive, PicksBounds, PoolAssumption DEF SelInv, TypeOK
<1>4. PICK u \in Nat : /\ Turned(u) /\ (u + 1) % Available = NextTurn % Available
                       /\ b = Rotate(HealthyList, u)[1]
  BY <1>1 DEF TakesTurns
<1> DEFINE n == Available
           list == Rotate(HealthyList, u)
           next == Rotate(HealthyList, u + 1)
<1>5. /\ \A i \in 1 .. n : list[i] \in Healthy
      /\ \A i, j \in 1 .. n : list[i] = list[j] => i = j
  BY <1>1, <1>4, TurnedList
<1>6. next[n] = list[1] /\ \A i \in 1 .. n : i # n => next[i] = list[i + 1]
  BY <1>1, <1>4, NextRotation
<1>7. \A i \in 1 .. n : Picks + i - 1 - n * wins[list[i]] \in 0 .. n - 1
  BY <1>4 DEF Turned
<1>8. (u + 1) + 0 = u + 1
  BY <1>4
<1>9. NextTurn' % n = NextTurn % n
  <2>1. CASE algorithm = "round-robin"
    <3>1. ((rrIdx + 1) % IdxMod) % n = (rrIdx + 1) % n
      BY <1>1, <1>3, IndexModulo
    <3>2. NextTurn' = ((rrIdx + 1) % IdxMod) + 0 /\ NextTurn = rrIdx + 1
      BY <1>1, <2>1 DEF NextTurn, Advance
    <3>3. (rrIdx + 1) % IdxMod \in Int
      BY <1>3
    <3> QED BY <3>1, <3>2, <3>3
  <2>2. CASE algorithm # "round-robin"
    BY <1>1, <1>2, <2>2 DEF NextTurn, Exact
  <2> QED BY <2>1, <2>2
<1> HIDE DEF n, list, next
<1>10. ASSUME NEW i \in 1 .. n
       PROVE  Picks + 1 + i - 1 - n * wins'[next[i]] \in 0 .. n - 1
  <2>0. n \in Nat \ {0} /\ list[1] = b
    BY <1>3, <1>4 DEF n, list
  <2>1. CASE i = n
    <3>1. next[i] = b /\ wins'[b] = wins[b] + 1 /\ wins[b] \in Int
      BY <1>6, <2>0, <2>1, WinMoves DEF SelInv
    <3>2. Picks + 1 - 1 - n * wins[b] \in 0 .. n - 1
      BY <1>7, <2>0
    <3>3. n * (wins[b] + 1) = n * wins[b] + n /\ n * wins[b] \in Int
      BY <2>0, <3>1
    <3> QED BY <1>3, <2>0, <2>1, <3>1, <3>2, <3>3
  <2>2. CASE i # n
    <3>1. i + 1 \in 1 .. n /\ next[i] = list[i + 1]
      BY <1>6, <2>0, <2>2
    <3>2. list[i + 1] # b /\ list[i + 1] \in Backend
      <4>1. i + 1 # 1 /\ 1 \in 1 .. n
        BY <2>0
      <4> QED BY <1>5, <2>0, <3>1, <4>1 DEF Healthy
    <3>3. wins'[next[i]] = wins[list[i + 1]] /\ wins[list[i + 1]] \in Int
      BY <3>1, <3>2, WinMoves DEF SelInv
    <3>4. Picks + (i + 1) - 1 - n * wins[list[i + 1]] \in 0 .. n - 1
      BY <1>7, <3>1
    <3>5. n * wins[list[i + 1]] \in Int
      BY <2>0, <3>3
    <3> QED BY <1>3, <3>3, <3>4, <3>5
  <2> QED BY <2>1, <2>2
<1>11. Turned(u + 1)'
  BY <1>1, <1>2, <1>10 DEF Turned, n, next
<1>12. (u + 1 + Asked') % Available' = NextTurn' % Available'
  BY <1>1, <1>2, <1>4, <1>8, <1>9 DEF n
<1>13. u + 1 \in Nat
  BY <1>4
<1> QED BY <1>1, <1>11, <1>12, <1>13 DEF TakesTurns

LEMMA WinKeeps ==
  ASSUME SelInv, algorithm \in Exact, NEW b \in Backend, Win(b)
  PROVE  SelInv'
<1>1. /\ TypeOK' /\ Choosing' /\ b \in Healthy /\ UNCHANGED <<healthy, active, ewmaUs, algorithm>>
      /\ wins' \in [Backend -> Nat] /\ \A c \in Backend : c # b => wins'[c] = wins[c]
  BY WinMoves
<1>2. Healthy' = Healthy /\ (Alike' <=> Alike)
  BY <1>1, SamePool DEF Alike, Idle, Unmeasured
<1>3. \A c \in Backend : wins'[c] # 0 => healthy'[c]
  BY <1>1 DEF SelInv, Healthy
<1>4. algorithm = "weighted-round-robin" => Weighed'
  BY WinWeighs
<1>5. algorithm # "weighted-round-robin" /\ Healthy # {} /\ Alike => TakesTurns'
  BY WinTurns DEF SelInv
<1> QED BY <1>1, <1>2, <1>3, <1>4, <1>5 DEF SelInv

(* Nothing moves but what has been measured.                                  *)
LEMMA StillKeeps ==
  ASSUME SelInv, TypeOK', Alike' => Alike,
         UNCHANGED <<wins, healthy, cb, algorithm, order, mu, currentWeight, rrIdx, tieIdx>>
  PROVE  SelInv'
<1>1. Choosing'
  BY DEF SelInv, Choosing, Healthy
<1>2. /\ Healthy' = Healthy /\ Round' = Round /\ Available' = Available
      /\ Picks' = Picks /\ (Pending' <=> Pending) /\ Asked' = Asked
      /\ \A u : Rotate(HealthyList, u)' = Rotate(HealthyList, u)
  BY SamePool DEF Picks, Pending, Asked
<1>3. (\A b : Lead(b)' = Lead(b)) /\ (\A u : Turned(u)' <=> Turned(u))
  BY <1>2 DEF Lead, Turned
<1>4. NextTurn' = NextTurn
  BY <1>2 DEF NextTurn
<1>5. Weighed => Weighed'
  BY <1>2, <1>3 DEF Weighed
<1>6. TakesTurns => TakesTurns'
  BY <1>2, <1>3, <1>4 DEF TakesTurns
<1> QED BY <1>1, <1>2, <1>5, <1>6 DEF SelInv

(* A mean of two latencies is one, and nobody is unmeasured again.            *)
LEMMA LearnKeeps ==
  ASSUME SelInv, NEW b \in Called, NEW us \in Sample, Learn(b, us)
  PROVE  SelInv'
<1>1. /\ b \in Backend /\ us \in Nat \ {0} /\ RecordLatency(b, us)
      /\ TypeOK /\ algorithm \in Algorithms
  BY PoolAssumption DEF Learn, SelInv, TypeOK
<1>2. TypeOK'
  BY <1>1, OthersTyped
<1>3. /\ UNCHANGED <<wins, healthy, active, cb, algorithm, order, mu, currentWeight, rrIdx,
                     tieIdx>>
      /\ ewmaUs' = [ewmaUs EXCEPT ![b] = IF @ = 0 THEN us ELSE (us + @) \div 2]
  BY DEF Learn, RecordLatency, lbVars, pickVars
<1>4. ewmaUs'[b] # 0
  <2>1. ewmaUs \in [Backend -> Nat]
    BY <1>1, LatencyBounds DEF TypeOK
  <2>2. ewmaUs'[b] = IF ewmaUs[b] = 0 THEN us ELSE (us + ewmaUs[b]) \div 2
    BY <1>1, <1>3, <2>1
  <2> QED BY <1>1, <2>1, <2>2
<1>5. Alike' => Alike
  BY <1>1, <1>3, <1>4 DEF Alike, Idle, Unmeasured
<1> QED BY <1>2, <1>3, <1>5, StillKeeps

--------------------------------------------------------------------------------
LEMMA InitSelInv ==
  ASSUME Algorithms \subseteq Exact
  PROVE  SelInit => SelInv
<1> SUFFICES ASSUME SelInit PROVE SelInv
  OBVIOUS
<1>1. TypeOK
  BY NewLoadBalancerTyped DEF SelInit, Init
<1>2. Fresh /\ Choosing /\ algorithm \in Exact
  BY <1>1, NewBreakerIsClosed
  DEF SelInit, Init, NewLoadBalancer, Fresh, Choosing
<1> QED BY <1>2, FreshKeeps

LEMMA NextSelInv ==
  ASSUME Algorithms \subseteq Exact
  PROVE  SelInv /\ [SelNext]_selVars => SelInv'
<1> SUFFICES ASSUME SelInv, [SelNext]_selVars PROVE SelInv'
  OBVIOUS
<1>1. algorithm \in Exact
  BY DEF SelInv, TypeOK
<1>2. CASE Settle
  BY <1>1, <1>2, SettleKeeps
<1>3. ASSUME NEW hash \in Hashes, Ask(hash) PROVE SelInv'
  BY <1>1, <1>3, AskKeeps
<1>4. ASSUME NEW b \in Backend, Win(b) PROVE SelInv'
  BY <1>1, <1>4, WinKeeps
<1>5. CASE NobodyLeft
  BY <1>5, NobodyLeftKeeps
<1>6. ASSUME NEW a \in Algorithms, Switch(a) PROVE SelInv'
  BY <1>6, SwitchKeeps
<1>7. ASSUME NEW b \in Called, NEW us \in Sample, Learn(b, us) PROVE SelInv'
  BY <1>7, LearnKeeps
<1>8. CASE UNCHANGED selVars
  <2>1. UNCHANGED <<wins, healthy, active, ewmaUs, cb, algorithm, order, mu, currentWeight,
                    rrIdx, tieIdx>>
    BY <1>8 DEF selVars, vars, lbVars, backendVars, pickVars
  <2>2. TypeOK' /\ (Alike' => Alike)
    BY <2>1 DEF SelInv, TypeOK, Alike, Idle, Unmeasured
  <2> QED BY <2>1, <2>2, StillKeeps
<1> QED BY <1>2, <1>3, <1>4, <1>5, <1>6, <1>7, <1>8 DEF SelNext

(* The algorithms that do not draw lots share exactly, for every pool: after  *)
(* every round each healthy backend has been picked as often as it is due,    *)
(* under weighted round-robin as often as its weight says, whatever the       *)
(* weights, and wherever the rotation of ties stood when the round began;     *)
(* least-connections while the pool is idle, least-response-time from its     *)
(* cold start until a latency is recorded (pickRoundRobin,                    *)
(* pickWeightedRoundRobin, pickLeastConnections, pickLeastResponseTime,       *)
(* rotateStart).                                                              *)
THEOREM SpecSharedOut ==
  ASSUME Algorithms \subseteq Exact
  PROVE  SelSpec => []SharedOut
<1>1. SelSpec => []SelInv
  BY InitSelInv, NextSelInv, PTL DEF SelSpec
<1>2. ASSUME SelInv PROVE SharedOut
  <2> SUFFICES ASSUME Round > 0, Picks % Round = 0,
                      Alike, NEW b \in Backend
               PROVE  wins[b] = IF healthy[b] THEN (Picks \div Round) * Share(b) ELSE 0
    BY DEF SharedOut
  <2>1. CASE ~healthy[b]
    BY <1>2, <2>1 DEF SelInv
  <2>2. CASE healthy[b] /\ algorithm = "weighted-round-robin"
    BY <1>2, <2>2, WeighedShares DEF Share, Healthy
  <2>3. CASE healthy[b] /\ algorithm # "weighted-round-robin"
    <3>1. b \in Healthy /\ Healthy # {} /\ TakesTurns /\ Round = Available
      BY <1>2, <2>3, RoundOfTurns DEF SelInv, Healthy
    <3>2. wins[b] = Picks \div Available /\ Picks \in Nat /\ Available \in Nat \ {0}
      BY <1>2, <3>1, TurnedShares, PicksBounds, AvailableIsPositive DEF SelInv
    <3>3. Picks \div Available \in Int
      BY <3>2
    <3> QED BY <2>3, <3>1, <3>2, <3>3 DEF Share
  <2> QED BY <2>1, <2>2, <2>3
<1>3. SelInv => SharedOut
  BY <1>2
<1> QED BY <1>1, <1>3, PTL

================================================================================
