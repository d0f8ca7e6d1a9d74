---------------------------- MODULE KegLedger_proofs ----------------------------
(***************************************************************************)
(* Safety of the ledger for any people, kegs, prices and calibrations:     *)
(* KegLedger's Inv is inductive, and a correction of the stock comes true. *)
(* The sums over rows are recursive functions; what the proofs need of     *)
(* them is that one more row adds its value, and that a change of one row  *)
(* changes the sum by as much (TotalChange).                               *)
(***************************************************************************)
EXTENDS KegLedger, TLAPS, FiniteSetTheorems, WellFoundedInduction

USE LedgerAssumption

-------------------------------------------------------------------------------
(***************************************************************************)
(* Sums.                                                                   *)
(***************************************************************************)
Below == {ss \in Nat \X Nat : ss[1] < ss[2]}

LEMMA Induct ==
  ASSUME NEW S, 0 \in S, \A n \in Nat : n \in S => n + 1 \in S
  PROVE  Nat \subseteq S
<1>. DEFINE T == Nat \ S
<1>. SUFFICES ASSUME T # {} PROVE FALSE
  OBVIOUS
<1>1. IsWellFoundedOn(Below, Nat)
  BY NatLessThanWellFounded DEF OpToRel, Below
<1>2. T \in SUBSET Nat /\ T # {}
  OBVIOUS
<1>. HIDE DEF T
<1>3. PICK n \in T : \A k \in T : <<k, n>> \notin Below
  BY <1>1, <1>2, WFMin
<1>4. n \in Nat /\ n \notin S
  BY <1>3 DEF T
<1>5. n - 1 \in Nat /\ n = (n - 1) + 1
  <2>1. n # 0
    BY <1>4
  <2>. QED  BY <2>1, <1>4
<1>6. <<n - 1, n>> \in Below
  BY <1>4, <1>5 DEF Below
<1>7. n - 1 \in S
  BY <1>3, <1>5, <1>6 DEF T
<1>8. (n - 1) + 1 \in S
  BY <1>5, <1>7
<1>. QED  BY <1>4, <1>5, <1>8

(* The recursive function that Total is the last value of. *)
SumOf(f, n, sum) == sum = [i \in 0..n |-> IF i = 0 THEN 0 ELSE sum[i - 1] + f[i]]

LEMMA SumExists ==
  ASSUME NEW f, NEW n \in Nat
  PROVE  \E sum : SumOf(f, n, sum)
<1>. DEFINE S == {m \in Nat : \E sum : SumOf(f, m, sum)}
<1>1. 0 \in S
  <2>1. SumOf(f, 0, [i \in 0..0 |-> 0])
    BY DEF SumOf
  <2>. QED  BY <2>1
<1>2. ASSUME NEW m \in Nat, m \in S PROVE m + 1 \in S
  <2>1. PICK sum : SumOf(f, m, sum)
    BY <1>2
  <2>. DEFINE next == [i \in 0..m + 1 |-> IF i = m + 1 THEN sum[m] + f[m + 1] ELSE sum[i]]
  <2>2. \A i \in 0..m + 1 : next[i] = IF i = 0 THEN 0 ELSE next[i - 1] + f[i]
    <3>. TAKE i \in 0..m + 1
    <3>1. CASE i = 0
      BY <3>1, <2>1 DEF SumOf
    <3>2. CASE i = m + 1
      BY <3>2
    <3>3. CASE i \in 1..m
      BY <3>3, <2>1 DEF SumOf
    <3>. QED  BY <3>1, <3>2, <3>3
  <2>3. SumOf(f, m + 1, next)
    BY <2>2 DEF SumOf
  <2>. QED  BY <2>3
<1>3. Nat \subseteq S
  <2>. HIDE DEF S
  <2>. QED  BY <1>1, <1>2, Induct
<1>. QED  BY <1>3

LEMMA SumsAgree ==
  ASSUME NEW f, NEW n \in Nat, NEW m \in Nat, n <= m,
         NEW s, SumOf(f, n, s), NEW t, SumOf(f, m, t)
  PROVE  s[n] = t[n]
<1>. DEFINE S == {i \in Nat : i <= n => s[i] = t[i]}
<1>1. 0 \in S
  BY DEF SumOf
<1>2. ASSUME NEW i \in Nat, i \in S PROVE i + 1 \in S
  <2>. SUFFICES ASSUME i + 1 <= n PROVE s[i + 1] = t[i + 1]
    OBVIOUS
  <2>1. s[i] = t[i]
    BY <1>2
  <2>2. s[i + 1] = s[i] + f[i + 1] /\ t[i + 1] = t[i] + f[i + 1]
    <3>1. i + 1 \in 0..n /\ i + 1 \in 0..m /\ i + 1 # 0 /\ (i + 1) - 1 = i
      OBVIOUS
    <3>. QED  BY <3>1 DEF SumOf
  <2>. QED  BY <2>1, <2>2
<1>3. Nat \subseteq S
  <2>. HIDE DEF S
  <2>. QED  BY <1>1, <1>2, Induct
<1>. QED  BY <1>3

LEMMA TotalIsSum ==
  ASSUME NEW f, NEW n \in Nat
  PROVE  \E sum : SumOf(f, n, sum) /\ Total(f, n) = sum[n]
BY SumExists, ZenonT(60) DEF Total, SumOf

(* A sum of nothing is 0, and one more row adds its value. *)
LEMMA TotalStep ==
  ASSUME NEW f, NEW n \in Nat
  PROVE  Total(f, 0) = 0 /\ Total(f, n + 1) = Total(f, n) + f[n + 1]
<1>1. PICK z : SumOf(f, 0, z) /\ Total(f, 0) = z[0]
  BY TotalIsSum
<1>2. PICK s : SumOf(f, n, s) /\ Total(f, n) = s[n]
  BY TotalIsSum
<1>3. PICK t : SumOf(f, n + 1, t) /\ Total(f, n + 1) = t[n + 1]
  BY TotalIsSum
<1>4. s[n] = t[n]
  BY <1>2, <1>3, SumsAgree
<1>5. t[n + 1] = t[n] + f[n + 1]
  BY <1>3 DEF SumOf
<1>6. z[0] = 0
  BY <1>1 DEF SumOf
<1>. QED  BY <1>1, <1>2, <1>3, <1>4, <1>5, <1>6

LEMMA TotalIsInt ==
  ASSUME NEW f, NEW n \in Nat, \A i \in 1..n : f[i] \in Int
  PROVE  Total(f, n) \in Int
<1>. DEFINE S == {m \in Nat : m <= n => Total(f, m) \in Int}
<1>1. 0 \in S
  BY TotalStep
<1>2. ASSUME NEW m \in Nat, m \in S PROVE m + 1 \in S
  <2>1. Total(f, m + 1) = Total(f, m) + f[m + 1]
    BY TotalStep
  <2>2. m + 1 <= n => f[m + 1] \in Int /\ Total(f, m) \in Int
    BY <1>2
  <2>. QED  BY <2>1, <2>2
<1>3. Nat \subseteq S
  <2>. HIDE DEF S
  <2>. QED  BY <1>1, <1>2, Induct
<1>. QED  BY <1>3

(* g is f with d added to row j. *)
Differs(f, g, n, j, d) == \A i \in 1..n : g[i] = IF i = j THEN f[i] + d ELSE f[i]

(* What that does to the sum. *)
LEMMA TotalChange ==
  ASSUME NEW f, NEW g, NEW n \in Nat, NEW j \in Nat, NEW d \in Int,
         \A i \in 1..n : f[i] \in Int,
         Differs(f, g, n, j, d)
  PROVE  Total(g, n) = IF j \in 1..n THEN Total(f, n) + d ELSE Total(f, n)
<1>. DEFINE S == {m \in Nat : m <= n =>
                    Total(g, m) = IF j \in 1..m THEN Total(f, m) + d ELSE Total(f, m)}
<1>1. 0 \in S
  BY TotalStep
<1>2. ASSUME NEW m \in Nat, m \in S PROVE m + 1 \in S
  <2>. SUFFICES ASSUME m + 1 <= n
                PROVE  Total(g, m + 1) = IF j \in 1..m + 1 THEN Total(f, m + 1) + d
                                         ELSE Total(f, m + 1)
    OBVIOUS
  <2>1. Total(f, m + 1) = Total(f, m) + f[m + 1] /\ Total(g, m + 1) = Total(g, m) + g[m + 1]
    BY TotalStep
  <2>2. Total(g, m) = IF j \in 1..m THEN Total(f, m) + d ELSE Total(f, m)
    BY <1>2
  <2>3. f[m + 1] \in Int /\ g[m + 1] = IF m + 1 = j THEN f[m + 1] + d ELSE f[m + 1]
    BY DEF Differs
  <2>4. Total(f, m) \in Int
    BY TotalIsInt
  <2>. QED  BY <2>1, <2>2, <2>3, <2>4
<1>3. Nat \subseteq S
  <2>. HIDE DEF S
  <2>. QED  BY <1>1, <1>2, Induct
<1>. QED  BY <1>3

-------------------------------------------------------------------------------
(***************************************************************************)
(* Types.                                                                  *)
(***************************************************************************)
LEMMA Appended ==
  ASSUME NEW T, NEW s \in Seq(T), NEW e \in T
  PROVE  /\ Append(s, e) \in Seq(T) /\ Len(s) \in Nat /\ Len(Append(s, e)) = Len(s) + 1
         /\ DOMAIN s = 1..Len(s) /\ DOMAIN Append(s, e) = 1..Len(s) + 1
         /\ Append(s, e)[Len(s) + 1] = e
         /\ \A i \in DOMAIN s : Append(s, e)[i] = s[i]
OBVIOUS

LEMMA NoneOrOne ==
  ASSUME NEW T, NEW e \in T, NEW s, s = << >> \/ s = <<e>>
  PROVE  s \in Seq(T) /\ \A i \in DOMAIN s : i = 1 /\ s[i] = e
<1>1. CASE s = << >>
  BY <1>1
<1>2. CASE s = <<e>>
  <2>1. <<e>> \in Seq(T) /\ DOMAIN <<e>> = 1..1 /\ <<e>>[1] = e
    OBVIOUS
  <2>2. \A i \in 1..1 : i = 1
    OBVIOUS
  <2>. QED  BY <1>2, <2>1, <2>2
<1>. QED  BY <1>1, <1>2

LEMMA Replaced ==
  ASSUME NEW T, NEW s \in Seq(T), NEW i \in DOMAIN s, NEW e \in T
  PROVE  /\ [s EXCEPT ![i] = e] \in Seq(T) /\ s[i] \in T
         /\ DOMAIN [s EXCEPT ![i] = e] = DOMAIN s
         /\ Len([s EXCEPT ![i] = e]) = Len(s)
         /\ \A j \in DOMAIN s : [s EXCEPT ![i] = e][j] = IF j = i THEN e ELSE s[j]
OBVIOUS

LEMMA Positive ==
  ASSUME NEW a \in Nat \ {0}, NEW b \in Nat \ {0}
  PROVE  a * b \in Nat \ {0}
OBVIOUS

LEMMA Quotient ==
  ASSUME NEW a \in Int, NEW b \in Nat \ {0}
  PROVE  a \div b \in Int
OBVIOUS

LEMMA QuotientIsNat ==
  ASSUME NEW a \in Nat, NEW b \in Nat \ {0}
  PROVE  a \div b \in Nat
OBVIOUS

LEMMA SampleFields ==
  ASSUME NEW sample \in Sample
  PROVE  sample.ml \in Nat /\ sample.included \in BOOLEAN
<1>1. Masses \cup {0} \subseteq Nat
  OBVIOUS
<1>2. sample.ml \in Masses \cup {0} /\ sample.included \in BOOLEAN
  BY DEF Sample
<1>. QED  BY <1>1, <1>2

(* The sets of samples, and an order of those that are included. *)
LEMMA IncludedSamples ==
  ASSUME NEW c \in Calibration
  PROVE  /\ c.samples \in [Ordinals -> Sample]
         /\ Included(c) \subseteq Samples(c) /\ Samples(c) \subseteq Ordinals
         /\ IsFiniteSet(Included(c)) /\ Cardinality(Included(c)) \in Nat
         /\ (Cardinality(Included(c)) = 0) = (Included(c) = {})
         /\ SetToSeq(Included(c)) \in [1..Cardinality(Included(c)) -> Included(c)]
<1>1. c.samples \in [Ordinals -> Sample]
  BY DEF Calibration
<1>2. Included(c) \subseteq Samples(c) /\ Samples(c) \subseteq Ordinals
  BY DEF Included, Samples
<1>. DEFINE I == Included(c)
<1>3. IsFiniteSet(I)
  <2>1. I \in SUBSET Ordinals
    BY <1>2
  <2>. HIDE DEF I
  <2>. QED  BY <2>1, FS_Subset
<1>. HIDE DEF I
<1>4. Cardinality(I) \in Nat /\ ExistsBijection(1..Cardinality(I), I)
  BY <1>3, FS_CardinalityType
<1>5. (Cardinality(I) = 0) = (I = {})
  BY <1>3, FS_EmptySet
<1>6. \E f \in [1..Cardinality(I) -> I] : IsInjective(f)
  BY <1>4 DEF ExistsBijection, Bijection, Injection, IsInjective
<1>7. SetToSeq(I) \in [1..Cardinality(I) -> I]
  BY <1>6 DEF SetToSeq
<1>. QED  BY <1>1, <1>2, <1>3, <1>4, <1>5, <1>7 DEF I

LEMMA VolumeType ==
  ASSUME NEW c \in Calibration
  PROVE  Volume(c) \in Int /\ (Included(c) = {} => Volume(c) = 0)
<1>. DEFINE order == SetToSeq(Included(c))
            n == Cardinality(Included(c))
            volumes == [i \in DOMAIN order |-> c.samples[order[i]].ml]
<1>1. order \in [1..n -> Included(c)] /\ n \in Nat
  BY IncludedSamples
<1>2. DOMAIN order = 1..n
  BY <1>1
<1>3. Len(order) = n
  <2>1. order \in Seq(Included(c))
    BY <1>1
  <2>. HIDE DEF order, n
  <2>. QED  BY <1>1, <1>2, <2>1
<1>4. \A i \in 1..n : volumes[i] \in Int
  <2>. TAKE i \in 1..n
  <2>1. order[i] \in Included(c)
    BY <1>1
  <2>2. c.samples[order[i]] \in Sample
    BY <2>1, IncludedSamples
  <2>3. c.samples[order[i]].ml \in Int
    BY <2>2, SampleFields
  <2>. QED  BY <2>3, <1>2
<1>5. Volume(c) = Total(volumes, n)
  BY <1>3 DEF Volume
<1>6. Included(c) = {} => n = 0
  BY IncludedSamples
<1>. HIDE DEF order, n, volumes
<1>7. Total(volumes, n) \in Int /\ Total(volumes, 0) = 0
  BY <1>1, <1>4, TotalIsInt, TotalStep
<1>. QED  BY <1>5, <1>6, <1>7

(* A factor counts pulses exactly when some sample is included. *)
LEMMA FactorType ==
  ASSUME NEW c \in Calibration
  PROVE  /\ Factor(c) \in [pulses : Nat, ml : Int]
         /\ (Factor(c) = NoFactor) = (Included(c) = {})
         /\ Factor(c) # NoFactor => Factor(c).pulses \in Nat \ {0}
<1>. DEFINE n == Cardinality(Included(c))
<1>1. n \in Nat /\ (n = 0) = (Included(c) = {})
  BY IncludedSamples
<1>2. Volume(c) \in Int /\ (Included(c) = {} => Volume(c) = 0)
  BY VolumeType
<1>3. Factor(c) = [pulses |-> Pulses * n, ml |-> Volume(c)]
  BY DEF Factor
<1>. HIDE DEF n
<1>4. Pulses * n \in Nat /\ (n # 0 => Pulses * n \in Nat \ {0}) /\ (n = 0 => Pulses * n = 0)
  BY <1>1, Positive
<1>. QED  BY <1>1, <1>2, <1>3, <1>4 DEF NoFactor

-------------------------------------------------------------------------------
(***************************************************************************)
(* Medians.                                                                *)
(***************************************************************************)
(* How many of the values are at most v, and how many below it. *)
UpTo(values, v) == {o \in DOMAIN values : values[o] <= v}
Under(values, v) == {o \in DOMAIN values : values[o] < v}

LEMMA Counted ==
  ASSUME NEW D, IsFiniteSet(D), NEW f \in [D -> Nat], NEW v \in Nat
  PROVE  /\ UpTo(f, v) \subseteq D /\ IsFiniteSet(UpTo(f, v)) /\ Cardinality(UpTo(f, v)) \in Nat
         /\ Under(f, v) \subseteq D /\ IsFiniteSet(Under(f, v)) /\ Cardinality(Under(f, v)) \in Nat
<1>1. UpTo(f, v) \subseteq D /\ Under(f, v) \subseteq D
  BY DEF UpTo, Under
<1>2. \A S \in SUBSET D : IsFiniteSet(S) /\ Cardinality(S) \in Nat
  BY FS_Subset, FS_CardinalityType
<1>. HIDE DEF UpTo, Under
<1>. QED  BY <1>1, <1>2

LEMMA Bounded ==
  ASSUME NEW D, IsFiniteSet(D), NEW f \in [D -> Nat]
  PROVE  \E v \in Nat : \A o \in D : f[o] < v
<1>. DEFINE S == {n \in Nat : \A E \in SUBSET D :
                    Cardinality(E) = n => \E v \in Nat : \A o \in E : f[o] < v}
<1>1. \A E \in SUBSET D : IsFiniteSet(E) /\ Cardinality(E) \in Nat
  BY FS_Subset, FS_CardinalityType
<1>2. 0 \in S
  BY <1>1, FS_EmptySet
<1>3. ASSUME NEW n \in Nat, n \in S PROVE n + 1 \in S
  <2>. SUFFICES ASSUME NEW E \in SUBSET D, Cardinality(E) = n + 1
                PROVE  \E v \in Nat : \A o \in E : f[o] < v
    OBVIOUS
  <2>1. PICK e : e \in E
    <3>1. n + 1 # 0 /\ Cardinality({}) = 0
      BY FS_EmptySet
    <3>. QED  BY <3>1
  <2>2. Cardinality(E \ {e}) = n
    <3>1. IsFiniteSet(E)
      BY <1>1
    <3>2. Cardinality(E \ {e}) = (n + 1) - 1
      BY <2>1, <3>1, FS_RemoveElement
    <3>. QED  BY <3>2
  <2>3. PICK v \in Nat : \A o \in E \ {e} : f[o] < v
    BY <1>3, <2>2
  <2>4. f[e] \in Nat
    BY <2>1
  <2>. DEFINE w == v + f[e] + 1
  <2>5. w \in Nat /\ v <= w /\ f[e] < w
    BY <2>4
  <2>6. \A o \in E : f[o] < w
    <3>. SUFFICES ASSUME NEW o \in E PROVE f[o] < w
      OBVIOUS
    <3>1. f[o] \in Nat /\ (o # e => f[o] < v)
      BY <2>3
    <3>. HIDE DEF w
    <3>. QED  BY <2>5, <3>1
  <2>. QED  BY <2>5, <2>6
<1>4. Nat \subseteq S
  <2>. HIDE DEF S
  <2>. QED  BY <1>2, <1>3, Induct
<1>. QED  BY <1>1, <1>4

(* There is a value of every rank: the bound v grows until k values are at *)
(* most v; then fewer are at most v - 1.                                   *)
LEMMA RankedIs ==
  ASSUME NEW D, IsFiniteSet(D), NEW f \in [D -> Nat], NEW k \in 1..Cardinality(D)
  PROVE  Ranked(f, k) \in Nat /\ Cardinality(UpTo(f, Ranked(f, k))) >= k
<1>. DEFINE Few == {v \in Nat : Cardinality(Under(f, v)) < k}
            Values == {f[o] : o \in DOMAIN f}
<1>1. \E v \in Nat : Under(f, v) = D
  <2>1. PICK v \in Nat : \A o \in D : f[o] < v
    BY Bounded
  <2>. QED  BY <2>1 DEF Under
<1>2. PICK v \in Nat : v \in Few /\ v + 1 \notin Few
  <2>. SUFFICES ASSUME \A v \in Nat : v \in Few => v + 1 \in Few PROVE FALSE
    OBVIOUS
  <2>1. 0 \in Few
    <3>1. Under(f, 0) = {}
      BY DEF Under
    <3>2. Cardinality(Under(f, 0)) = 0
      BY <3>1, FS_EmptySet
    <3>3. k \in Nat /\ k > 0
      BY FS_CardinalityType
    <3>. QED  BY <3>2, <3>3
  <2>2. Nat \subseteq Few
    <3>. HIDE DEF Few
    <3>. QED  BY <2>1, Induct
  <2>3. PICK v \in Nat : Under(f, v) = D
    BY <1>1
  <2>4. Cardinality(D) \in Nat
    BY FS_CardinalityType
  <2>. QED  BY <2>2, <2>3, <2>4
<1>3. Cardinality(Under(f, v)) < k
  BY <1>2
<1>4. UpTo(f, v) = Under(f, v + 1)
  BY <1>2 DEF UpTo, Under
<1>5. Cardinality(Under(f, v + 1)) >= k
  <2>1. Cardinality(Under(f, v + 1)) \in Nat
    BY <1>2, Counted
  <2>. QED  BY <1>2, <2>1
<1>6. v \in Values
  <2>. SUFFICES ASSUME v \notin Values PROVE FALSE
    OBVIOUS
  <2>1. UpTo(f, v) = Under(f, v)
    BY <1>2 DEF UpTo, Under
  <2>2. Cardinality(Under(f, v)) \in Nat
    BY <1>2, Counted
  <2>. QED  BY <1>3, <1>4, <1>5, <2>1, <2>2
<1>. DEFINE IsRanked(w) ==
              /\ Cardinality({o \in DOMAIN f : f[o] < w}) < k
              /\ Cardinality({o \in DOMAIN f : f[o] <= w}) >= k
<1>7. IsRanked(v)
  BY <1>3, <1>4, <1>5 DEF UpTo, Under
<1>8. Ranked(f, k) = CHOOSE w \in Values : IsRanked(w)
  BY DEF Ranked
<1>9. Values \subseteq Nat
  OBVIOUS
<1>10. UpTo(f, Ranked(f, k)) = {o \in DOMAIN f : f[o] <= Ranked(f, k)}
  BY DEF UpTo
<1>11. Ranked(f, k) \in Values /\ IsRanked(Ranked(f, k))
  <2>. HIDE DEF Values, IsRanked
  <2>. QED  BY <1>6, <1>7, <1>8
<1>. HIDE DEF Values
<1>. QED  BY <1>9, <1>10, <1>11
(* At most half of the values, and not even half, are above the one in the *)
(* middle: that or a higher one is the second of the two a median adds.    *)
LEMMA FewAbove ==
  ASSUME NEW D, IsFiniteSet(D), D # {}, NEW f \in [D -> Nat]
  PROVE  \E b \in Nat :
           /\ TwiceMedian(f) \in Nat /\ b <= TwiceMedian(f)
           /\ 2 * Cardinality({o \in D : f[o] > b}) < Cardinality(D)
<1>. DEFINE n == Cardinality(D)
            low == (n + 1) \div 2
            high == n \div 2 + 1
            b == Ranked(f, high)
            Above == {o \in D : f[o] > b}
<1>1. n \in Nat \ {0}
  BY FS_CardinalityType, FS_EmptySet
<1>2. low \in 1..n /\ high \in 1..n /\ n < 2 * high
  <2>. HIDE DEF n
  <2>. QED  BY <1>1
<1>3. Ranked(f, low) \in Nat /\ b \in Nat /\ Cardinality(UpTo(f, b)) >= high
  <2>. HIDE DEF low, high
  <2>. QED  BY <1>2, RankedIs
<1>4. TwiceMedian(f) = Ranked(f, low) + b
  BY DEF TwiceMedian
<1>5. Cardinality(Above) = n - Cardinality(UpTo(f, b))
  <2>1. Above = D \ UpTo(f, b)
    BY <1>3 DEF UpTo
  <2>2. UpTo(f, b) \subseteq D /\ IsFiniteSet(UpTo(f, b)) /\ Cardinality(UpTo(f, b)) \in Nat
    BY <1>3, Counted
  <2>3. D \cap UpTo(f, b) = UpTo(f, b)
    BY <2>2
  <2>. HIDE DEF b
  <2>. QED  BY <2>1, <2>2, <2>3, FS_Difference
<1>6. Cardinality(UpTo(f, b)) \in Nat
  BY <1>3, Counted
<1>7. 2 * Cardinality(Above) < n
  <2>. DEFINE c == Cardinality(UpTo(f, b))
  <2>. HIDE DEF Above, n, high, c
  <2>. QED  BY <1>1, <1>2, <1>3, <1>5, <1>6 DEF c
<1>8. b <= TwiceMedian(f) /\ TwiceMedian(f) \in Nat
  <2>. HIDE DEF b
  <2>. QED  BY <1>3, <1>4
<1>. HIDE DEF b
<1>. QED  BY <1>3, <1>7, <1>8

(* A sample that is flagged deviates more than the middle one does. *)
LEMMA OutliersAreFew ==
  ASSUME NEW D, IsFiniteSet(D), D # {}, NEW volumes \in [D -> Nat \ {0}]
  PROVE  2 * Cardinality(Outliers(volumes)) < Cardinality(D)
<1>. DEFINE ratio == [o \in D |-> (Pulses * Scale) \div volumes[o]]
            center == TwiceMedian(ratio)
            off == [o \in D |->
                      IF 2 * ratio[o] >= center THEN 2 * ratio[o] - center
                      ELSE center - 2 * ratio[o]]
            mad == TwiceMedian(off)
<1>1. ratio \in [D -> Nat]
  <2>. SUFFICES ASSUME NEW o \in D PROVE (Pulses * Scale) \div volumes[o] \in Nat
    OBVIOUS
  <2>1. Pulses * Scale \in Nat \ {0} /\ volumes[o] \in Nat \ {0}
    BY Positive
  <2>. QED  BY <2>1, QuotientIsNat
<1>. HIDE DEF ratio
<1>2. center \in Nat
  BY <1>1, FewAbove
<1>. HIDE DEF center
<1>3. off \in [D -> Nat]
  <2>. SUFFICES ASSUME NEW o \in D
                PROVE  (IF 2 * ratio[o] >= center THEN 2 * ratio[o] - center
                        ELSE center - 2 * ratio[o]) \in Nat
    OBVIOUS
  <2>1. ratio[o] \in Nat
    BY <1>1
  <2>. QED  BY <1>2, <2>1
<1>4. Outliers(volumes) =
        {o \in D : IF mad = 0 THEN 20 * off[o] > center ELSE 13490 * off[o] > 35000 * mad}
  BY DEF Outliers, ratio, center
<1>. HIDE DEF off
<1>5. PICK b \in Nat : /\ mad \in Nat /\ b <= mad
                       /\ 2 * Cardinality({o \in D : off[o] > b}) < Cardinality(D)
  BY <1>3, FewAbove
<1>. DEFINE Above == {o \in D : off[o] > b}
<1>. HIDE DEF mad
<1>6. Outliers(volumes) \subseteq Above
  <2>. SUFFICES ASSUME NEW o \in Outliers(volumes) PROVE o \in Above
    OBVIOUS
  <2>1. o \in D /\ off[o] \in Nat
    BY <1>3, <1>4
  <2>2. IF mad = 0 THEN 20 * off[o] > center ELSE 13490 * off[o] > 35000 * mad
    BY <1>4
  <2>3. off[o] > b
    BY <1>2, <1>5, <2>1, <2>2
  <2>. QED  BY <2>1, <2>3
<1>7. Above \subseteq D
  OBVIOUS
<1>8. /\ Cardinality(Outliers(volumes)) \in Nat /\ Cardinality(Above) \in Nat
      /\ Cardinality(D) \in Nat
      /\ Cardinality(Outliers(volumes)) <= Cardinality(Above)
  <2>. HIDE DEF Above
  <2>1. IsFiniteSet(Above) /\ IsFiniteSet(Outliers(volumes))
    BY <1>6, <1>7, FS_Subset
  <2>. QED  BY <1>6, <2>1, FS_Subset, FS_CardinalityType
<1>9. 2 * Cardinality(Above) < Cardinality(D)
  BY <1>5
<1>. HIDE DEF Above
<1>. QED  BY <1>8, <1>9

-------------------------------------------------------------------------------
(***************************************************************************)
(* Calibrations.                                                           *)
(***************************************************************************)
(* What is computed from the samples is that for any status and factor.    *)
LEMMA OfSamples ==
  ASSUME NEW c, NEW d, c.samples = d.samples
  PROVE  /\ Samples(c) = Samples(d) /\ Included(c) = Included(d)
         /\ Factor(c) = Factor(d) /\ Flags(c) = Flags(d)
<1>1. Samples(c) = Samples(d)
  BY DEF Samples
<1>2. Included(c) = Included(d)
  BY <1>1 DEF Included
<1>3. Volume(c) = Volume(d)
  BY <1>2 DEF Volume
<1>. QED  BY <1>1, <1>2, <1>3 DEF Factor, Flags

(* The samples with their flags up to date. *)
Marked(c) == IF Cardinality(Included(c)) < 3 THEN {} ELSE Flags(c)
FlaggedSamples(c) ==
  [o \in Ordinals |->
     IF o \in Samples(c) THEN [c.samples[o] EXCEPT !.flag = o \in Marked(c)] ELSE NoSample]

LEMMA FlaggedIs ==
  ASSUME NEW c \in Calibration
  PROVE  /\ Flagged(c) = [c EXCEPT !.samples = FlaggedSamples(c)]
         /\ Flagged(c) \in Calibration
         /\ Flagged(c).status = c.status /\ Flagged(c).factor = c.factor
         /\ Flagged(c).samples = FlaggedSamples(c)
         /\ \A o \in Ordinals : FlaggedSamples(c)[o].ml = c.samples[o].ml
         /\ \A o \in Samples(c) : FlaggedSamples(c)[o].included = c.samples[o].included
<1>1. Flagged(c) = [c EXCEPT !.samples = FlaggedSamples(c)]
  BY DEF Flagged, FlaggedSamples, Marked
<1>2. c.samples \in [Ordinals -> Sample] /\ Samples(c) \subseteq Ordinals
  BY IncludedSamples
<1>3. ASSUME NEW o \in Ordinals
      PROVE  /\ FlaggedSamples(c)[o] \in Sample
             /\ FlaggedSamples(c)[o].ml = c.samples[o].ml
             /\ o \in Samples(c) => FlaggedSamples(c)[o].included = c.samples[o].included
  <2>. DEFINE row == c.samples[o]
              flag == o \in Marked(c)
  <2>1. row \in Sample /\ flag \in BOOLEAN
    BY <1>2
  <2>2. FlaggedSamples(c)[o] = IF o \in Samples(c) THEN [row EXCEPT !.flag = flag] ELSE NoSample
    BY DEF FlaggedSamples
  <2>3. o \notin Samples(c) => row.ml = 0
    BY DEF Samples
  <2>. HIDE DEF row, flag
  <2>4. /\ [row EXCEPT !.flag = flag] \in Sample
        /\ [row EXCEPT !.flag = flag].ml = row.ml
        /\ [row EXCEPT !.flag = flag].included = row.included
        /\ NoSample \in Sample /\ NoSample.ml = 0
    BY <2>1 DEF Sample, NoSample
  <2>5. CASE o \in Samples(c)
    BY <2>1, <2>2, <2>4, <2>5 DEF row
  <2>6. CASE o \notin Samples(c)
    BY <2>1, <2>2, <2>3, <2>4, <2>6 DEF row
  <2>. QED  BY <2>5, <2>6
<1>4. FlaggedSamples(c) \in [Ordinals -> Sample]
  <2>1. FlaggedSamples(c) = [o \in Ordinals |-> FlaggedSamples(c)[o]]
    BY DEF FlaggedSamples
  <2>. QED  BY <1>3, <2>1
<1>5. /\ [c EXCEPT !.samples = FlaggedSamples(c)] \in Calibration
      /\ [c EXCEPT !.samples = FlaggedSamples(c)].status = c.status
      /\ [c EXCEPT !.samples = FlaggedSamples(c)].factor = c.factor
      /\ [c EXCEPT !.samples = FlaggedSamples(c)].samples = FlaggedSamples(c)
  <2>. HIDE DEF FlaggedSamples
  <2>. QED  BY <1>4 DEF Calibration
<1>. QED  BY <1>1, <1>2, <1>3, <1>5

(* Flags say nothing about flags: a second update changes nothing. *)
LEMMA FlaggedTwice ==
  ASSUME NEW c \in Calibration
  PROVE  Flagged(c) = Flagged(Flagged(c))
<1>. DEFINE d == Flagged(c)
<1>1. d \in Calibration /\ d.samples = FlaggedSamples(c)
  BY FlaggedIs
<1>2. /\ \A o \in Ordinals : d.samples[o].ml = c.samples[o].ml
      /\ \A o \in Samples(c) : d.samples[o].included = c.samples[o].included
  BY FlaggedIs, <1>1
<1>. HIDE DEF d
<1>3. Samples(d) = Samples(c)
  BY <1>2 DEF Samples
<1>4. Included(d) = Included(c) /\ Included(c) \subseteq Ordinals
  BY <1>2, <1>3 DEF Included, Samples
<1>5. Flags(d) = Flags(c)
  <2>1. [o \in Included(d) |-> d.samples[o].ml] = [o \in Included(c) |-> c.samples[o].ml]
    BY <1>2, <1>4
  <2>. QED  BY <2>1 DEF Flags
<1>6. Marked(d) = Marked(c)
  BY <1>4, <1>5 DEF Marked
<1>7. FlaggedSamples(d) = FlaggedSamples(c)
  <2>. DEFINE Row(e, o) == IF o \in Samples(e)
                           THEN [e.samples[o] EXCEPT !.flag = o \in Marked(e)] ELSE NoSample
  <2>1. ASSUME NEW o \in Ordinals
        PROVE  Row(d, o) = Row(c, o)
    <3>. DEFINE row == c.samples[o]
                flag == o \in Marked(c)
    <3>1. CASE o \in Samples(c)
      <4>1. row \in Sample /\ flag \in BOOLEAN
        BY IncludedSamples
      <4>2. d.samples[o] = [row EXCEPT !.flag = flag]
        BY <1>1, <3>1 DEF FlaggedSamples
      <4>3. Row(d, o) = [[row EXCEPT !.flag = flag] EXCEPT !.flag = flag]
        BY <1>3, <1>6, <3>1, <4>2
      <4>4. Row(c, o) = [row EXCEPT !.flag = flag]
        BY <3>1
      <4>. HIDE DEF row, flag, Row
      <4>5. [[row EXCEPT !.flag = flag] EXCEPT !.flag = flag] = [row EXCEPT !.flag = flag]
        BY <4>1 DEF Sample
      <4>. QED  BY <4>3, <4>4, <4>5
    <3>2. CASE o \notin Samples(c)
      BY <1>3, <3>2
    <3>. QED  BY <3>1, <3>2
  <2>2. FlaggedSamples(d) = [o \in Ordinals |-> Row(d, o)]
    BY DEF FlaggedSamples
  <2>3. FlaggedSamples(c) = [o \in Ordinals |-> Row(c, o)]
    BY DEF FlaggedSamples
  <2>. HIDE DEF Row
  <2>. QED  BY <2>1, <2>2, <2>3
<1>8. Flagged(d) = [d EXCEPT !.samples = FlaggedSamples(d)]
  BY <1>1, FlaggedIs
<1>9. [d EXCEPT !.samples = FlaggedSamples(d)] = d
  <2>. HIDE DEF FlaggedSamples
  <2>. QED  BY <1>1, <1>7 DEF Calibration
<1>. QED  BY <1>8, <1>9 DEF d

(* A new status or factor leaves the flags fresh. *)
LEMMA FlagsOfSamples ==
  ASSUME NEW c \in Calibration, NEW d \in Calibration, c.samples = d.samples, c = Flagged(c)
  PROVE  d = Flagged(d)
<1>1. Marked(c) = Marked(d) /\ Samples(c) = Samples(d)
  BY OfSamples DEF Marked
<1>2. FlaggedSamples(d) = FlaggedSamples(c)
  BY <1>1 DEF FlaggedSamples
<1>3. c.samples = FlaggedSamples(c)
  BY FlaggedIs
<1>4. Flagged(d) = [d EXCEPT !.samples = d.samples]
  BY <1>2, <1>3, FlaggedIs
<1>. QED  BY <1>4 DEF Calibration

-------------------------------------------------------------------------------
(***************************************************************************)
(* The invariant by what it is about.                                      *)
(***************************************************************************)
BooksMatch(b, l) ==
  /\ b \in [People -> Int]
  /\ l \in [People -> [0..MaxRows -> Int]]
  /\ \A p \in People : b[p] = l[p][0] + Total(l[p], MaxRows)

PeopleInv == people \in [People -> {"none", "active", "inactive"}] /\ rate \in Rates \cup {0}
BooksInv == BooksMatch(balance, ledger) /\ ChargeFollowsPour /\ NothingBookedAhead
KegsInv == /\ kegs \in Seq(Keg)
           /\ \A k, l \in DOMAIN kegs : kegs[k].open /\ kegs[l].open => k = l
CalsInv == /\ cals \in Seq(Calibration)
           /\ \A c \in DOMAIN cals : (cals[c].status = "draft") = (cals[c].factor = NoFactor)
           /\ \A c, d \in DOMAIN cals :
                cals[c].status = "active" /\ cals[d].status = "active" => c = d
           /\ ActiveFactorFromSamples /\ FlagsAreFresh
SessionsInv == sessions \in Seq(Session) /\ CaptureConsumedOnce
PoursInv == /\ pours \in Seq(PourRow) /\ Len(pours) <= MaxRows
            /\ \A i \in DOMAIN pours : (pours[i].payer = NoOne) = (pours[i].cents = 0)
FitInv == SessionsSettleOnce /\ PoursKeepTheirContext

Parts == PeopleInv /\ BooksInv /\ KegsInv /\ CalsInv /\ SessionsInv /\ PoursInv /\ FitInv

LEMMA InvHasParts == Inv => Parts
<1>. SUFFICES ASSUME Inv PROVE Parts
  OBVIOUS
<1>1. TypeOK /\ ChargesAreBooked /\ NothingBookedAhead /\ OneOfEach /\ FitInv
  BY DEF Inv, FitInv
<1>2. ActiveFactorFromSamples /\ FlagsAreFresh /\ CaptureConsumedOnce
  BY DEF Inv
<1>3. PeopleInv /\ SessionsInv /\ PoursInv
  BY <1>1, <1>2 DEF TypeOK, PeopleInv, SessionsInv, PoursInv
<1>4. KegsInv /\ CalsInv
  BY <1>1, <1>2 DEF TypeOK, OneOfEach, KegsInv, CalsInv
<1>5. BooksInv
  BY <1>1 DEF TypeOK, ChargesAreBooked, BalanceIsLedgerSum, BooksInv, BooksMatch
<1>. QED  BY <1>1, <1>3, <1>4, <1>5 DEF Parts

LEMMA PartsGiveInv == Parts => Inv
<1>. SUFFICES ASSUME Parts PROVE Inv
  OBVIOUS
<1>0. PeopleInv /\ BooksInv /\ KegsInv /\ CalsInv /\ SessionsInv /\ PoursInv /\ FitInv
  BY DEF Parts
<1>1. TypeOK
  BY <1>0 DEF TypeOK, PeopleInv, BooksInv, BooksMatch, KegsInv, CalsInv, SessionsInv, PoursInv
<1>2. ChargesAreBooked /\ NothingBookedAhead
  BY <1>0 DEF ChargesAreBooked, BalanceIsLedgerSum, BooksInv, BooksMatch
<1>3. OneOfEach
  BY <1>0 DEF OneOfEach, KegsInv, CalsInv
<1>. QED  BY <1>0, <1>1, <1>2, <1>3 DEF Inv, CalsInv, SessionsInv, FitInv

LEMMA PartsGiveInvNext == Parts' => Inv'
<1>. SUFFICES ASSUME Parts' PROVE Inv'
  OBVIOUS
<1>0. PeopleInv' /\ BooksInv' /\ KegsInv' /\ CalsInv' /\ SessionsInv' /\ PoursInv' /\ FitInv'
  BY DEF Parts
<1>1. TypeOK'
  BY <1>0 DEF TypeOK, PeopleInv, BooksInv, BooksMatch, KegsInv, CalsInv, SessionsInv, PoursInv
<1>2. ChargesAreBooked' /\ NothingBookedAhead'
  BY <1>0 DEF ChargesAreBooked, BalanceIsLedgerSum, BooksInv, BooksMatch
<1>3. OneOfEach'
  BY <1>0 DEF OneOfEach, KegsInv, CalsInv
<1>. QED  BY <1>0, <1>1, <1>2, <1>3 DEF Inv, CalsInv, SessionsInv, FitInv

-------------------------------------------------------------------------------
(***************************************************************************)
(* The keg on tap and the calibration in use.                              *)
(***************************************************************************)
OpenOf(ks) == IF \E k \in DOMAIN ks : ks[k].open
              THEN CHOOSE k \in DOMAIN ks : ks[k].open ELSE 0
ActiveOf(cs) == IF \E c \in DOMAIN cs : cs[c].status = "active"
                THEN CHOOSE c \in DOMAIN cs : cs[c].status = "active" ELSE 0

LEMMA OpenKegIs == OpenKeg = OpenOf(kegs) /\ OpenKeg' = OpenOf(kegs')
BY DEF OpenKeg, OpenOf

LEMMA ActiveCalIs == ActiveCal = ActiveOf(cals) /\ ActiveCal' = ActiveOf(cals')
BY DEF ActiveCal, ActiveOf

LEMMA OpenOfType ==
  ASSUME NEW ks \in Seq(Keg)
  PROVE  /\ OpenOf(ks) \in Nat
         /\ OpenOf(ks) # 0 => OpenOf(ks) \in DOMAIN ks /\ ks[OpenOf(ks)].open
<1>1. CASE \E k \in DOMAIN ks : ks[k].open
  <2>1. OpenOf(ks) \in DOMAIN ks /\ ks[OpenOf(ks)].open
    BY <1>1 DEF OpenOf
  <2>. QED  BY <2>1
<1>2. CASE ~\E k \in DOMAIN ks : ks[k].open
  BY <1>2 DEF OpenOf
<1>. QED  BY <1>1, <1>2

LEMMA ActiveOfType ==
  ASSUME NEW cs \in Seq(Calibration)
  PROVE  /\ ActiveOf(cs) \in Nat
         /\ ActiveOf(cs) # 0 =>
              ActiveOf(cs) \in DOMAIN cs /\ cs[ActiveOf(cs)].status = "active"
<1>1. CASE \E c \in DOMAIN cs : cs[c].status = "active"
  <2>1. ActiveOf(cs) \in DOMAIN cs /\ cs[ActiveOf(cs)].status = "active"
    BY <1>1 DEF ActiveOf
  <2>. QED  BY <2>1
<1>2. CASE ~\E c \in DOMAIN cs : cs[c].status = "active"
  BY <1>2 DEF ActiveOf
<1>. QED  BY <1>1, <1>2

(* With the same rows open, or active, it is the same one. *)
LEMMA SameOpen ==
  ASSUME NEW ks, NEW ls, \A k, l \in DOMAIN ks : ks[k].open /\ ks[l].open => k = l,
         \A k : (k \in DOMAIN ks /\ ks[k].open) <=> (k \in DOMAIN ls /\ ls[k].open)
  PROVE  OpenOf(ls) = OpenOf(ks)
<1>1. CASE \E k \in DOMAIN ks : ks[k].open
  <2>1. OpenOf(ks) \in DOMAIN ks /\ ks[OpenOf(ks)].open
    BY <1>1 DEF OpenOf
  <2>2. OpenOf(ls) \in DOMAIN ls /\ ls[OpenOf(ls)].open
    BY <1>1 DEF OpenOf
  <2>. QED  BY <2>1, <2>2
<1>2. CASE ~\E k \in DOMAIN ks : ks[k].open
  BY <1>2 DEF OpenOf
<1>. QED  BY <1>1, <1>2

LEMMA SameActive ==
  ASSUME NEW cs, NEW ds,
         \A c, d \in DOMAIN cs : cs[c].status = "active" /\ cs[d].status = "active" => c = d,
         \A c : (c \in DOMAIN cs /\ cs[c].status = "active")
                  <=> (c \in DOMAIN ds /\ ds[c].status = "active")
  PROVE  ActiveOf(ds) = ActiveOf(cs)
<1>1. CASE \E c \in DOMAIN cs : cs[c].status = "active"
  <2>1. ActiveOf(cs) \in DOMAIN cs /\ cs[ActiveOf(cs)].status = "active"
    BY <1>1 DEF ActiveOf
  <2>2. ActiveOf(ds) \in DOMAIN ds /\ ds[ActiveOf(ds)].status = "active"
    BY <1>1 DEF ActiveOf
  <2>. QED  BY <2>1, <2>2
<1>2. CASE ~\E c \in DOMAIN cs : cs[c].status = "active"
  BY <1>2 DEF ActiveOf
<1>. QED  BY <1>1, <1>2

-------------------------------------------------------------------------------
(***************************************************************************)
(* Accounts.                                                               *)
(***************************************************************************)
Paid(b, p, d) == [b EXCEPT ![p] = @ + d]
Entered(l, p, j, d) == [l EXCEPT ![p][j] = @ + d]
OneEntry(l, m, p, j, d) ==
  \A q \in People, i \in 0..MaxRows :
    m[q][i] = IF q = p /\ i = j THEN l[q][i] + d ELSE l[q][i]

(* An amount that is put on the balance and in the ledger of one person.   *)
LEMMA Booked ==
  ASSUME NEW b, NEW l, BooksMatch(b, l),
         NEW p \in People, NEW j \in 0..MaxRows, NEW d \in Int
  PROVE  /\ BooksMatch(Paid(b, p, d), Entered(l, p, j, d))
         /\ OneEntry(l, Entered(l, p, j, d), p, j, d)
<1>. DEFINE row == l[p]
            new == [row EXCEPT ![j] = @ + d]
            m == Entered(l, p, j, d)
            c == Paid(b, p, d)
<1>1. /\ b \in [People -> Int] /\ l \in [People -> [0..MaxRows -> Int]]
      /\ \A q \in People : b[q] = l[q][0] + Total(l[q], MaxRows)
  BY DEF BooksMatch
<1>2. row \in [0..MaxRows -> Int]
  BY <1>1
<1>3. m = [l EXCEPT ![p] = new]
  BY DEF Entered
<1>. HIDE DEF row, m
<1>4. new \in [0..MaxRows -> Int] /\ \A i \in 0..MaxRows : new[i] = IF i = j THEN row[i] + d ELSE row[i]
  BY <1>2
<1>5. m \in [People -> [0..MaxRows -> Int]] /\ m[p] = new /\ \A q \in People \ {p} : m[q] = l[q]
  <2>. HIDE DEF new
  <2>. QED  BY <1>1, <1>3, <1>4
<1>6. c \in [People -> Int] /\ c[p] = b[p] + d /\ \A q \in People \ {p} : c[q] = b[q]
  BY <1>1 DEF Paid
<1>. HIDE DEF new, c
<1>7. new[0] + Total(new, MaxRows) = row[0] + Total(row, MaxRows) + d
  <2>1. MaxRows \in Nat /\ j \in Nat
    OBVIOUS
  <2>2. \A i \in 1..MaxRows : row[i] \in Int
    BY <1>2, <2>1
  <2>3. Differs(row, new, MaxRows, j, d)
    BY <1>4, <2>1 DEF Differs
  <2>4. Total(new, MaxRows) = IF j \in 1..MaxRows THEN Total(row, MaxRows) + d
                              ELSE Total(row, MaxRows)
    BY <2>1, <2>2, <2>3, TotalChange
  <2>5. Total(row, MaxRows) \in Int
    BY <2>1, <2>2, TotalIsInt
  <2>6. row[0] \in Int /\ new[0] = IF j = 0 THEN row[0] + d ELSE row[0]
    BY <1>2, <1>4, SMTT(40)
  <2>. QED  BY <2>1, <2>4, <2>5, <2>6
<1>8. c[p] = m[p][0] + Total(m[p], MaxRows)
  <2>1. b[p] = row[0] + Total(row, MaxRows)
    BY <1>1 DEF row
  <2>. QED  BY <2>1, <1>5, <1>6, <1>7
<1>9. \A q \in People : c[q] = m[q][0] + Total(m[q], MaxRows)
  BY <1>1, <1>5, <1>6, <1>8
<1>10. BooksMatch(c, m)
  BY <1>5, <1>6, <1>9 DEF BooksMatch
<1>11. OneEntry(l, m, p, j, d)
  BY <1>4, <1>5 DEF row, OneEntry
<1>. QED  BY <1>10, <1>11 DEF m, c

LEMMA PourFields ==
  ASSUME NEW row \in PourRow
  PROVE  /\ row.session \in Nat /\ row.who \in People \cup {NoOne} /\ row.keg \in Nat
         /\ row.cal \in Nat /\ row.ml \in Int \cup {Unknown}
         /\ row.payer \in People \cup {NoOne} /\ row.cents \in Nat
BY DEF PourRow

(* What _charge_pour() adds to a pour that was not charged. *)
LEMMA BilledIs ==
  ASSUME PeopleInv, NEW row \in PourRow, row.payer = NoOne, row.cents = 0
  PROVE  /\ Billed(row) \in PourRow
         /\ Billed(row).session = row.session /\ Billed(row).who = row.who
         /\ Billed(row).keg = row.keg /\ Billed(row).cal = row.cal /\ Billed(row).ml = row.ml
         /\ Billed(row).payer \in {NoOne, row.who}
         /\ (Billed(row).payer = NoOne) = (Billed(row).cents = 0)
<1>1. CASE Charges(row.who, row.ml)
  <2>. DEFINE who == row.who
              cents == Cents(row.ml)
  <2>1. who \in People /\ row.ml \in Int /\ cents > 0 /\ who # NoOne
    BY <1>1, PourFields DEF Charges
  <2>2. cents \in Int
    <3>1. rate \in Nat /\ row.ml \in Int
      BY <2>1 DEF PeopleInv
    <3>2. (2 * row.ml * rate + Ounce) \in Int /\ 2 * Ounce \in Nat \ {0}
      BY <3>1
    <3>. QED  BY <3>2, Quotient DEF Cents
  <2>3. cents \in Nat \ {0}
    BY <2>1, <2>2
  <2>4. Billed(row) = [row EXCEPT !.payer = who, !.cents = cents]
    BY <1>1 DEF Billed
  <2>. HIDE DEF cents
  <2>. QED  BY <2>1, <2>3, <2>4 DEF PourRow
<1>2. CASE ~Charges(row.who, row.ml)
  BY <1>2 DEF Billed
<1>. QED  BY <1>1, <1>2

(* A charge is debited where no other was booked for the pour. *)
LEMMA DebitIs ==
  ASSUME BooksMatch(balance, ledger), NEW row \in PourRow, NEW j \in 1..MaxRows,
         Debit(j, row)
  PROVE  /\ BooksMatch(balance', ledger')
         /\ OneEntry(ledger, ledger', row.payer, j, 0 - row.cents)
<1>1. CASE row.payer = NoOne
  <2>1. balance' = balance /\ ledger' = ledger
    BY <1>1 DEF Debit
  <2>2. row.payer \notin People
    BY <1>1
  <2>. QED  BY <2>1, <2>2 DEF OneEntry
<1>2. CASE row.payer # NoOne
  <2>. DEFINE p == row.payer
              d == 0 - row.cents
  <2>1. p \in People /\ row.cents \in Nat /\ d \in Int /\ j \in 0..MaxRows
    BY <1>2, PourFields
  <2>2. /\ balance' = [balance EXCEPT ![p] = @ - row.cents]
        /\ ledger' = [ledger EXCEPT ![p][j] = @ - row.cents]
    BY <1>2 DEF Debit
  <2>3. balance[p] \in Int /\ ledger[p][j] \in Int
    BY <2>1, ZenonT(60) DEF BooksMatch
  <2>4. balance[p] - row.cents = balance[p] + d /\ ledger[p][j] - row.cents = ledger[p][j] + d
    BY <2>1, <2>3
  <2>5. balance' = Paid(balance, p, d) /\ ledger' = Entered(ledger, p, j, d)
    BY <2>2, <2>4 DEF Paid, Entered
  <2>6. BooksMatch(balance', ledger') /\ OneEntry(ledger, ledger', p, j, d)
    <3>1. p \in People /\ j \in 0..MaxRows /\ d \in Int
      BY <2>1
    <3>. HIDE DEF d, p
    <3>2. /\ BooksMatch(Paid(balance, p, d), Entered(ledger, p, j, d))
          /\ OneEntry(ledger, Entered(ledger, p, j, d), p, j, d)
      BY <3>1, Booked
    <3>. QED  BY <2>5, <3>2
  <2>. QED  BY <2>6
<1>. QED  BY <1>1, <1>2

LEMMA AddPourBooks ==
  ASSUME BooksInv, PoursInv, NEW row \in PourRow, row.payer \in {NoOne, row.who},
         (row.payer = NoOne) = (row.cents = 0), AddPour(row)
  PROVE  /\ BooksInv' /\ PoursInv'
         /\ pours \in Seq(PourRow) /\ pours' = Append(pours, row)
<1>. DEFINE n == Len(pours) + 1
<1>1. /\ pours \in Seq(PourRow) /\ Len(pours) < MaxRows
      /\ pours' = Append(pours, row) /\ Debit(n, row)
  BY DEF PoursInv, AddPour
<1>2. /\ pours' \in Seq(PourRow) /\ Len(pours) \in Nat /\ Len(pours') = n
      /\ DOMAIN pours = 1..Len(pours) /\ DOMAIN pours' = 1..n
      /\ pours'[n] = row /\ \A i \in DOMAIN pours : pours'[i] = pours[i]
  BY <1>1, Appended
<1>3. n \in 1..MaxRows /\ \A i \in 1..n : i \in 0..MaxRows /\ (i # n => i \in DOMAIN pours)
  <2>1. MaxRows \in Nat
    OBVIOUS
  <2>2. Len(pours) \in Nat /\ Len(pours) < MaxRows /\ DOMAIN pours = 1..Len(pours)
    BY <1>1, <1>2
  <2>. QED  BY <2>1, <2>2
<1>4. BooksMatch(balance, ledger) /\ ChargeFollowsPour /\ NothingBookedAhead
  BY DEF BooksInv
<1>. DEFINE d == 0 - row.cents
<1>5. BooksMatch(balance', ledger') /\ OneEntry(ledger, ledger', row.payer, n, d)
  BY <1>1, <1>3, <1>4, DebitIs
<1>6. PoursInv'
  <2>1. \A i \in DOMAIN pours' : (pours'[i].payer = NoOne) = (pours'[i].cents = 0)
    BY <1>2, <1>3 DEF PoursInv
  <2>2. Len(pours') <= MaxRows
    BY <1>1, <1>2, SMTT(40)
  <2>. QED  BY <1>2, <2>1, <2>2 DEF PoursInv
<1>7. ChargeFollowsPour'
  <2>1. ASSUME NEW i \in 1..n
        PROVE  /\ pours'[i].payer \in {NoOne, pours'[i].who}
               /\ \A q \in People :
                    ledger'[q][i] = IF q = pours'[i].payer THEN -pours'[i].cents ELSE 0
    <3>1. CASE i = n
      <4>1. \A q \in People : ledger[q][n] = 0
        BY <1>2, <1>3, <1>4 DEF NothingBookedAhead
      <4>2. \A q \in People : ledger'[q][n] = IF q = row.payer THEN 0 + d ELSE 0
        BY <1>3, <1>5, <4>1 DEF OneEntry
      <4>3. 0 + d = -row.cents
        BY PourFields
      <4>. HIDE DEF d
      <4>. QED  BY <1>2, <3>1, <4>2, <4>3
    <3>2. CASE i # n
      <4>1. i \in DOMAIN pours /\ pours'[i] = pours[i]
        BY <1>2, <1>3, <3>2
      <4>2. \A q \in People : ledger'[q][i] = ledger[q][i]
        BY <1>3, <1>5, <3>2 DEF OneEntry
      <4>. QED  BY <1>4, <4>1, <4>2 DEF ChargeFollowsPour
    <3>. QED  BY <3>1, <3>2
  <2>. HIDE DEF n, d
  <2>. QED  BY <1>2, <2>1 DEF ChargeFollowsPour
<1>8. NothingBookedAhead'
  <2>1. ASSUME NEW q \in People, NEW i \in 1..MaxRows, i > n
        PROVE  ledger'[q][i] = 0
    <3>1. i # n /\ i > Len(pours) /\ i \in 0..MaxRows
      BY <1>2, <2>1
    <3>2. ledger'[q][i] = ledger[q][i]
      BY <1>5, <3>1 DEF OneEntry
    <3>. QED  BY <1>4, <3>1, <3>2 DEF NothingBookedAhead
  <2>. HIDE DEF n
  <2>. QED  BY <1>2, <2>1 DEF NothingBookedAhead
<1>. QED  BY <1>1, <1>5, <1>6, <1>7, <1>8 DEF BooksInv

(* The pour of a row after reassign_pour(), with its charge. *)
LEMMA ReassignedIs ==
  ASSUME PeopleInv, NEW old \in PourRow, old.payer \in {NoOne, old.who},
         (old.payer = NoOne) = (old.cents = 0), NEW p \in People
  PROVE  /\ Reassigned(old, p) \in PourRow
         /\ Reassigned(old, p).session = old.session /\ Reassigned(old, p).keg = old.keg
         /\ Reassigned(old, p).cal = old.cal /\ Reassigned(old, p).ml = old.ml
         /\ Reassigned(old, p).payer \in {NoOne, p} /\ Reassigned(old, p).who = p
         /\ (Reassigned(old, p).payer = NoOne) = (Reassigned(old, p).cents = 0)
         /\ old.payer # NoOne =>
              Reassigned(old, p).payer = p /\ Reassigned(old, p).cents = old.cents
<1>1. CASE old.payer = NoOne
  <2>. DEFINE row == [old EXCEPT !.who = p]
  <2>1. /\ row \in PourRow /\ row.payer = NoOne /\ row.cents = 0 /\ row.who = p
        /\ row.session = old.session /\ row.keg = old.keg /\ row.cal = old.cal
        /\ row.ml = old.ml
    BY <1>1 DEF PourRow
  <2>2. Reassigned(old, p) = Billed(row)
    BY <1>1 DEF Reassigned
  <2>. HIDE DEF row
  <2>. QED  BY <1>1, <2>1, <2>2, BilledIs
<1>2. CASE old.payer # NoOne
  <2>1. Reassigned(old, p) = [old EXCEPT !.who = p, !.payer = p]
    BY <1>2 DEF Reassigned
  <2>2. p # NoOne /\ old.cents # 0
    BY <1>2
  <2>. QED  BY <1>2, <2>1, <2>2 DEF PourRow
<1>. QED  BY <1>1, <1>2

(* A charge that moves is taken back where it was and made where it goes. *)
LEMMA MovedIs ==
  ASSUME BooksMatch(balance, ledger), NEW j \in 1..MaxRows, NEW cents \in Nat,
         NEW from \in People, NEW to \in People, from # to,
         balance' = [balance EXCEPT ![from] = @ + cents, ![to] = @ - cents],
         ledger' = [ledger EXCEPT ![from][j] = @ + cents, ![to][j] = @ - cents]
  PROVE  /\ BooksMatch(balance', ledger')
         /\ \E l : /\ l \in [People -> [0..MaxRows -> Int]]
                   /\ OneEntry(ledger, l, from, j, cents)
                   /\ OneEntry(l, ledger', to, j, 0 - cents)
<1>. DEFINE b1 == Paid(balance, from, cents)
            l1 == Entered(ledger, from, j, cents)
            d == 0 - cents
<1>1. j \in 0..MaxRows /\ cents \in Int /\ d \in Int
  OBVIOUS
<1>2. BooksMatch(b1, l1) /\ OneEntry(ledger, l1, from, j, cents)
  BY <1>1, Booked
<1>3. /\ balance[to] \in Int /\ ledger[to][j] \in Int
      /\ b1[to] = balance[to] /\ l1[to][j] = ledger[to][j]
  BY <1>1 DEF BooksMatch, Paid, Entered
<1>4. balance[to] - cents = b1[to] + d /\ ledger[to][j] - cents = l1[to][j] + d
  BY <1>3
<1>5. /\ balance' = [b1 EXCEPT ![to] = balance[to] - cents]
      /\ ledger' = [l1 EXCEPT ![to][j] = ledger[to][j] - cents]
  BY DEF Paid, Entered
<1>. HIDE DEF b1, l1
<1>6. balance' = Paid(b1, to, d) /\ ledger' = Entered(l1, to, j, d)
  BY <1>4, <1>5 DEF Paid, Entered
<1>. HIDE DEF d
<1>7. BooksMatch(Paid(b1, to, d), Entered(l1, to, j, d)) /\ OneEntry(l1, Entered(l1, to, j, d), to, j, d)
  BY <1>1, <1>2, Booked
<1>8. l1 \in [People -> [0..MaxRows -> Int]]
  BY <1>2 DEF BooksMatch
<1>. QED  BY <1>2, <1>6, <1>7, <1>8, ZenonT(60) DEF d

(* Every pour has the ledger of its charge, and only that. *)
LEMMA ReassignBooks ==
  ASSUME PeopleInv, BooksInv, PoursInv, NEW i \in DOMAIN pours, NEW p \in People,
         ReassignPour(i, p)
  PROVE  /\ BooksInv' /\ PoursInv'
         /\ pours \in Seq(PourRow) /\ pours' = [pours EXCEPT ![i] = Reassigned(pours[i], p)]
<1>. DEFINE old == pours[i]
            new == Reassigned(old, p)
<1>1. pours \in Seq(PourRow) /\ i \in 1..Len(pours) /\ Len(pours) \in Nat /\ Len(pours) <= MaxRows
  BY DEF PoursInv
<1>2. i \in 1..MaxRows /\ \A k \in DOMAIN pours : k \in 1..MaxRows
  <2>1. MaxRows \in Nat
    OBVIOUS
  <2>. QED  BY <1>1, <2>1
<1>3. BooksMatch(balance, ledger) /\ ChargeFollowsPour /\ NothingBookedAhead
  BY DEF BooksInv
<1>4. /\ old \in PourRow /\ old.payer \in {NoOne, old.who}
      /\ (old.payer = NoOne) = (old.cents = 0)
      /\ \A q \in People : ledger[q][i] = IF q = old.payer THEN -old.cents ELSE 0
  BY <1>1, <1>3 DEF ChargeFollowsPour, PoursInv
<1>5. /\ new \in PourRow /\ new.payer \in {NoOne, p} /\ new.who = p
      /\ (new.payer = NoOne) = (new.cents = 0)
      /\ old.payer # NoOne => new.payer = p /\ new.cents = old.cents
  BY <1>4, ReassignedIs
<1>6. pours' = [pours EXCEPT ![i] = new]
  BY DEF ReassignPour
<1>7. /\ pours' \in Seq(PourRow) /\ DOMAIN pours' = DOMAIN pours /\ Len(pours') = Len(pours)
      /\ \A k \in DOMAIN pours : pours'[k] = IF k = i THEN new ELSE pours[k]
  <2>. HIDE DEF new
  <2>. QED  BY <1>1, <1>5, <1>6, Replaced
<1>8. PoursInv'
  <2>. HIDE DEF new
  <2>. QED  BY <1>1, <1>5, <1>7 DEF PoursInv
(* The ledger of this pour becomes that of its new row; no other changes. *)
<1>. DEFINE Rebooked ==
       /\ BooksMatch(balance', ledger')
       /\ \A q \in People : ledger'[q][i] = IF q = new.payer THEN -new.cents ELSE 0
       /\ \A q \in People, k \in 1..MaxRows : k # i => ledger'[q][k] = ledger[q][k]
<1>9. old.cents \in Nat /\ new.cents \in Nat /\ (old.payer # NoOne => old.payer \in People)
  BY <1>4, <1>5, PourFields
<1>. HIDE DEF new
<1>10. ASSUME old.payer = NoOne PROVE Rebooked
  <2>1. Debit(i, new)
    BY <1>10 DEF ReassignPour, new
  <2>2. BooksMatch(balance', ledger') /\ OneEntry(ledger, ledger', new.payer, i, 0 - new.cents)
    BY <1>2, <1>3, <1>5, <2>1, DebitIs
  <2>3. \A q \in People : ledger[q][i] = 0
    BY <1>4, <1>10
  <2>4. \A q \in People : ledger'[q][i] = IF q = new.payer THEN 0 + (0 - new.cents) ELSE 0
    BY <1>2, <2>2, <2>3 DEF OneEntry
  <2>5. 0 + (0 - new.cents) = -new.cents
    BY <1>9
  <2>6. \A q \in People, k \in 1..MaxRows : k # i => ledger'[q][k] = ledger[q][k]
    BY <2>2 DEF OneEntry
  <2>. QED  BY <2>2, <2>4, <2>5, <2>6
<1>11. ASSUME old.payer # NoOne, old.who = p PROVE Rebooked
  <2>1. balance' = balance /\ ledger' = ledger
    BY <1>11 DEF ReassignPour
  <2>2. new.payer = old.payer /\ new.cents = old.cents
    BY <1>4, <1>5, <1>11
  <2>. QED  BY <1>3, <1>4, <2>1, <2>2
<1>12. ASSUME old.payer # NoOne, old.who # p PROVE Rebooked
  <2>. DEFINE from == old.who
              cents == old.cents
  <2>1. from \in People /\ old.payer = from /\ cents \in Nat /\ from # p
    BY <1>4, <1>9, <1>12
  <2>2. /\ balance' = [balance EXCEPT ![from] = @ + cents, ![p] = @ - cents]
        /\ ledger' = [ledger EXCEPT ![from][i] = @ + cents, ![p][i] = @ - cents]
    BY <1>12 DEF ReassignPour
  <2>3. new.payer = p /\ new.cents = cents
    BY <1>5, <1>12
  <2>4. \A q \in People : ledger[q][i] = IF q = from THEN -cents ELSE 0
    BY <1>4, <2>1
  <2>. HIDE DEF from, cents
  <2>5. /\ BooksMatch(balance', ledger')
        /\ \E l : /\ l \in [People -> [0..MaxRows -> Int]]
                  /\ OneEntry(ledger, l, from, i, cents)
                  /\ OneEntry(l, ledger', p, i, 0 - cents)
    BY <1>2, <1>3, <2>1, <2>2, MovedIs
  <2>6. PICK l : /\ l \in [People -> [0..MaxRows -> Int]]
                 /\ OneEntry(ledger, l, from, i, cents)
                 /\ OneEntry(l, ledger', p, i, 0 - cents)
    BY <2>5
  <2>7. \A q \in People : l[q][i] = 0
    <3>1. -cents + cents = 0 /\ i \in 0..MaxRows
      BY <1>2, <2>1
    <3>. QED  BY <2>4, <2>6, <3>1 DEF OneEntry
  <2>8. \A q \in People : ledger'[q][i] = IF q = p THEN -cents ELSE 0
    <3>1. 0 + (0 - cents) = -cents /\ i \in 0..MaxRows
      BY <1>2, <2>1
    <3>. QED  BY <2>6, <2>7, <3>1 DEF OneEntry
  <2>9. \A q \in People, k \in 1..MaxRows : k # i => ledger'[q][k] = ledger[q][k]
    BY <2>6 DEF OneEntry
  <2>. QED  BY <2>3, <2>5, <2>8, <2>9
<1>13. Rebooked
  BY <1>10, <1>11, <1>12
<1>14. ChargeFollowsPour'
  <2>1. ASSUME NEW k \in DOMAIN pours
        PROVE  /\ pours'[k].payer \in {NoOne, pours'[k].who}
               /\ \A q \in People :
                    ledger'[q][k] = IF q = pours'[k].payer THEN -pours'[k].cents ELSE 0
    <3>1. CASE k = i
      BY <1>5, <1>7, <1>13, <3>1
    <3>2. CASE k # i
      BY <1>2, <1>3, <1>7, <1>13, <3>2 DEF ChargeFollowsPour
    <3>. QED  BY <3>1, <3>2
  <2>. QED  BY <1>7, <2>1 DEF ChargeFollowsPour
<1>15. NothingBookedAhead'
  <2>1. \A k \in 1..MaxRows : k > Len(pours) => k # i
    BY <1>1
  <2>. QED  BY <1>3, <1>7, <1>13, <2>1 DEF NothingBookedAhead
<1>. QED  BY <1>1, <1>6, <1>8, <1>13, <1>14, <1>15 DEF BooksInv, new

LEMMA AdjustBooks ==
  ASSUME BooksInv, PoursInv, NEW p \in People, AdjustBalance(p)
  PROVE  BooksInv'
<1>1. BooksMatch(balance, ledger) /\ ChargeFollowsPour /\ NothingBookedAhead
  BY DEF BooksInv
<1>2. balance' = Paid(balance, p, Deposit) /\ ledger' = Entered(ledger, p, 0, Deposit)
  BY DEF AdjustBalance, Paid, Entered
<1>3. BooksMatch(balance', ledger') /\ OneEntry(ledger, ledger', p, 0, Deposit)
  <2>1. 0 \in 0..MaxRows /\ Deposit \in Int
    OBVIOUS
  <2>2. /\ BooksMatch(Paid(balance, p, Deposit), Entered(ledger, p, 0, Deposit))
        /\ OneEntry(ledger, Entered(ledger, p, 0, Deposit), p, 0, Deposit)
    BY <1>1, <2>1, Booked
  <2>. QED  BY <1>2, <2>2
<1>4. \A q \in People, k \in 1..MaxRows : ledger'[q][k] = ledger[q][k]
  BY <1>3 DEF OneEntry
<1>5. pours' = pours
  BY DEF AdjustBalance
<1>6. \A i \in DOMAIN pours : i \in 1..MaxRows
  <2>1. MaxRows \in Nat
    OBVIOUS
  <2>2. DOMAIN pours = 1..Len(pours) /\ Len(pours) \in Nat /\ Len(pours) <= MaxRows
    BY DEF PoursInv
  <2>. QED  BY <2>1, <2>2
<1>7. ChargeFollowsPour'
  BY <1>1, <1>4, <1>5, <1>6 DEF ChargeFollowsPour
<1>8. NothingBookedAhead'
  BY <1>1, <1>4, <1>5 DEF NothingBookedAhead
<1>. QED  BY <1>3, <1>7, <1>8 DEF BooksInv

-------------------------------------------------------------------------------
(***************************************************************************)
(* Steps of the calibrations.                                              *)
(***************************************************************************)
CalsKeep ==
  \A c \in DOMAIN cals :
    /\ c \in DOMAIN cals'
    /\ cals[c].status # "draft" =>
         cals'[c].status # "draft" /\ cals'[c].factor = cals[c].factor

LEMMA CalFields ==
  ASSUME NEW c \in Calibration
  PROVE  /\ c.status \in {"draft", "active", "superseded"}
         /\ c.factor \in [pulses : Nat, ml : Int] /\ c.samples \in [Ordinals -> Sample]
BY DEF Calibration

LEMMA Resampled ==
  ASSUME NEW c \in Calibration, NEW samples \in [Ordinals -> Sample]
  PROVE  /\ [c EXCEPT !.samples = samples] \in Calibration
         /\ [c EXCEPT !.samples = samples].status = c.status
         /\ [c EXCEPT !.samples = samples].factor = c.factor
BY DEF Calibration

LEMMA SameCals ==
  ASSUME CalsInv, cals' = cals
  PROVE  CalsInv' /\ CalsKeep /\ ActiveCal' = ActiveCal
<1>1. CalsInv'
  BY DEF CalsInv, ActiveFactorFromSamples, FlagsAreFresh
<1>2. ActiveCal' = ActiveCal
  BY ActiveCalIs
<1>. QED  BY <1>1, <1>2 DEF CalsKeep

(* A draft that has other samples, with its flags up to date. *)
LEMMA DraftRevised ==
  ASSUME CalsInv, NEW c \in DOMAIN cals, cals[c].status = "draft",
         NEW d \in Calibration, d.status = "draft", d.factor = cals[c].factor, d = Flagged(d),
         cals' = [cals EXCEPT ![c] = d]
  PROVE  CalsInv' /\ CalsKeep /\ ActiveCal' = ActiveCal
<1>1. /\ cals \in Seq(Calibration)
      /\ \A k \in DOMAIN cals : (cals[k].status = "draft") = (cals[k].factor = NoFactor)
      /\ \A k, l \in DOMAIN cals :
           cals[k].status = "active" /\ cals[l].status = "active" => k = l
      /\ \A k \in DOMAIN cals : cals[k].status # "draft" => cals[k].factor = Factor(cals[k])
      /\ \A k \in DOMAIN cals : cals[k] = Flagged(cals[k])
  BY DEF CalsInv, ActiveFactorFromSamples, FlagsAreFresh
<1>2. /\ cals' \in Seq(Calibration) /\ DOMAIN cals' = DOMAIN cals
      /\ \A k \in DOMAIN cals : cals'[k] = IF k = c THEN d ELSE cals[k]
  BY <1>1, Replaced
<1>3. \A k \in DOMAIN cals' : (cals'[k].status = "draft") = (cals'[k].factor = NoFactor)
  BY <1>1, <1>2
<1>4. \A k \in DOMAIN cals' : cals'[k].status = "active" => cals[k].status = "active"
  BY <1>2
<1>5. ActiveFactorFromSamples'
  <2>1. \A k \in DOMAIN cals' : cals'[k].status # "draft" => cals'[k].factor = Factor(cals'[k])
    BY <1>1, <1>2
  <2>. QED  BY <2>1 DEF ActiveFactorFromSamples
<1>6. FlagsAreFresh'
  <2>1. \A k \in DOMAIN cals' : cals'[k] = Flagged(cals'[k])
    BY <1>1, <1>2
  <2>. QED  BY <2>1 DEF FlagsAreFresh
<1>7. CalsInv'
  BY <1>1, <1>2, <1>3, <1>4, <1>5, <1>6 DEF CalsInv
<1>8. CalsKeep
  BY <1>2 DEF CalsKeep
<1>9. ActiveCal' = ActiveCal
  <2>1. \A k : (k \in DOMAIN cals /\ cals[k].status = "active")
                 <=> (k \in DOMAIN cals' /\ cals'[k].status = "active")
    BY <1>2
  <2>. QED  BY <1>1, <2>1, SameActive, ActiveCalIs, ZenonT(60)
<1>. QED  BY <1>7, <1>8, <1>9

LEMMA FlaggedDraft ==
  ASSUME CalsInv, NEW c \in DOMAIN cals, cals[c].status = "draft",
         NEW e \in Calibration, e.status = cals[c].status, e.factor = cals[c].factor,
         cals' = [cals EXCEPT ![c] = Flagged(e)]
  PROVE  CalsInv' /\ CalsKeep /\ ActiveCal' = ActiveCal
<1>. DEFINE d == Flagged(e)
<1>1. d \in Calibration /\ d.status = "draft" /\ d.factor = cals[c].factor
  BY FlaggedIs
<1>2. d = Flagged(d)
  BY FlaggedTwice
<1>3. cals' = [cals EXCEPT ![c] = d]
  OBVIOUS
<1>. HIDE DEF d
<1>. QED  BY <1>1, <1>2, <1>3, DraftRevised

LEMMA SampleAdded ==
  ASSUME CalsInv, NEW c \in DOMAIN cals, cals[c].status = "draft",
         NEW o, NEW ml \in Masses, NEW included \in BOOLEAN,
         cals' = [cals EXCEPT ![c] = WithSample(@, o, ml, included)]
  PROVE  CalsInv' /\ CalsKeep /\ ActiveCal' = ActiveCal
<1>. DEFINE old == cals[c]
            sample == [ml |-> ml, included |-> included, flag |-> FALSE]
            e == [old EXCEPT !.samples[o] = sample]
<1>1. old \in Calibration
  <2>1. cals \in Seq(Calibration)
    BY DEF CalsInv
  <2>. QED  BY <2>1
<1>2. sample \in Sample
  BY DEF Sample
<1>3. cals' = [cals EXCEPT ![c] = Flagged(e)]
  BY DEF WithSample
<1>4. e = [old EXCEPT !.samples = [old.samples EXCEPT ![o] = sample]]
  OBVIOUS
<1>. HIDE DEF sample, e
<1>5. [old.samples EXCEPT ![o] = sample] \in [Ordinals -> Sample]
  BY <1>1, <1>2, CalFields
<1>6. e \in Calibration /\ e.status = old.status /\ e.factor = old.factor
  BY <1>1, <1>4, <1>5, Resampled
<1>. QED  BY <1>3, <1>6, FlaggedDraft

LEMMA SampleSet ==
  ASSUME CalsInv, NEW c \in DOMAIN cals, NEW o \in Ordinals, NEW included \in BOOLEAN,
         SetSampleIncluded(c, o, included)
  PROVE  CalsInv' /\ CalsKeep /\ ActiveCal' = ActiveCal
<1>. DEFINE old == cals[c]
            sample == [old.samples[o] EXCEPT !.included = included]
            e == [old EXCEPT !.samples[o].included = included]
<1>1. old \in Calibration /\ old.status = "draft"
  <2>1. cals \in Seq(Calibration)
    BY DEF CalsInv
  <2>. QED  BY <2>1 DEF SetSampleIncluded
<1>2. sample \in Sample
  <2>. DEFINE row == old.samples[o]
  <2>1. row \in Sample
    BY <1>1, CalFields
  <2>. HIDE DEF row
  <2>2. [row EXCEPT !.included = included] \in Sample
    BY <2>1 DEF Sample
  <2>. QED  BY <2>2 DEF row
<1>3. cals' = [cals EXCEPT ![c] = Flagged(e)]
  BY DEF SetSampleIncluded
<1>4. e = [old EXCEPT !.samples = [old.samples EXCEPT ![o] = sample]]
  OBVIOUS
<1>. HIDE DEF sample, e
<1>5. [old.samples EXCEPT ![o] = sample] \in [Ordinals -> Sample]
  BY <1>1, <1>2, CalFields
<1>6. e \in Calibration /\ e.status = old.status /\ e.factor = old.factor
  BY <1>1, <1>4, <1>5, Resampled
<1>. QED  BY <1>1, <1>3, <1>6, FlaggedDraft

LEMMA NewIsFresh ==
  LET d == NewCalibration IN
  d \in Calibration /\ d.status = "draft" /\ d.factor = NoFactor /\ d = Flagged(d)
<1>. DEFINE d == NewCalibration
<1>1. d \in Calibration /\ d.status = "draft" /\ d.factor = NoFactor
  BY DEF NewCalibration, Calibration, NoSample, Sample, NoFactor
<1>2. d = Flagged(d)
  <2>1. d.samples = [o \in Ordinals |-> NoSample]
    BY DEF NewCalibration
  <2>2. \A o \in Ordinals : o \notin Samples(d)
    <3>. HIDE DEF d
    <3>. QED  BY <2>1 DEF Samples, NoSample
  <2>3. FlaggedSamples(d) = d.samples
    <3>. HIDE DEF d
    <3>. QED  BY <2>1, <2>2 DEF FlaggedSamples
  <2>4. Flagged(d) = [d EXCEPT !.samples = d.samples]
    BY <1>1, <2>3, FlaggedIs
  <2>. HIDE DEF d
  <2>. QED  BY <1>1, <2>4 DEF Calibration
<1>. QED  BY <1>1, <1>2

LEMMA CalibrationCreated ==
  ASSUME CalsInv, CreateCalibration
  PROVE  CalsInv' /\ CalsKeep /\ ActiveCal' = ActiveCal
<1>. DEFINE d == NewCalibration
            n == Len(cals) + 1
<1>1. /\ cals \in Seq(Calibration)
      /\ \A k \in DOMAIN cals : (cals[k].status = "draft") = (cals[k].factor = NoFactor)
      /\ \A k, l \in DOMAIN cals :
           cals[k].status = "active" /\ cals[l].status = "active" => k = l
      /\ \A k \in DOMAIN cals : cals[k].status # "draft" => cals[k].factor = Factor(cals[k])
      /\ \A k \in DOMAIN cals : cals[k] = Flagged(cals[k])
  BY DEF CalsInv, ActiveFactorFromSamples, FlagsAreFresh
<1>2. d \in Calibration /\ d.status = "draft" /\ d.factor = NoFactor
  BY NewIsFresh
<1>3. d = Flagged(d)
  BY NewIsFresh
<1>4. cals' = Append(cals, d)
  BY DEF CreateCalibration
<1>. HIDE DEF d
<1>5. /\ cals' \in Seq(Calibration) /\ Len(cals) \in Nat
      /\ DOMAIN cals = 1..Len(cals) /\ DOMAIN cals' = 1..n
      /\ cals'[n] = d /\ \A i \in DOMAIN cals : cals'[i] = cals[i]
  BY <1>1, <1>2, <1>4, Appended
<1>6. \A k \in DOMAIN cals' : k = n \/ k \in DOMAIN cals
  BY <1>5
<1>7. \A k \in DOMAIN cals : k \in DOMAIN cals' /\ k # n
  BY <1>5
<1>. HIDE DEF n
<1>8. \A k \in DOMAIN cals' : (cals'[k].status = "draft") = (cals'[k].factor = NoFactor)
  BY <1>1, <1>2, <1>5, <1>6
<1>9. \A k \in DOMAIN cals' : cals'[k].status = "active" => k \in DOMAIN cals /\ cals[k].status = "active"
  BY <1>2, <1>5, <1>6
<1>10. ActiveFactorFromSamples'
  <2>1. \A k \in DOMAIN cals' : cals'[k].status # "draft" => cals'[k].factor = Factor(cals'[k])
    BY <1>1, <1>2, <1>5, <1>6
  <2>. QED  BY <2>1 DEF ActiveFactorFromSamples
<1>11. FlagsAreFresh'
  <2>1. \A k \in DOMAIN cals' : cals'[k] = Flagged(cals'[k])
    BY <1>1, <1>3, <1>5, <1>6
  <2>. QED  BY <2>1 DEF FlagsAreFresh
<1>12. CalsInv'
  BY <1>1, <1>5, <1>8, <1>9, <1>10, <1>11 DEF CalsInv
<1>13. CalsKeep
  BY <1>5, <1>7 DEF CalsKeep
<1>14. ActiveCal' = ActiveCal
  <2>1. \A k : (k \in DOMAIN cals /\ cals[k].status = "active")
                 <=> (k \in DOMAIN cals' /\ cals'[k].status = "active")
    BY <1>5, <1>7, <1>9
  <2>. QED  BY <1>1, <2>1, SameActive, ActiveCalIs
<1>. QED  BY <1>12, <1>13, <1>14

(* Another status, and for the activated one its factor. *)
LEMMA Restated ==
  ASSUME NEW c \in Calibration, c = Flagged(c)
  PROVE  /\ [c EXCEPT !.status = "superseded"] \in Calibration
         /\ [c EXCEPT !.status = "superseded"].status = "superseded"
         /\ [c EXCEPT !.status = "superseded"].factor = c.factor
         /\ [c EXCEPT !.status = "superseded"].samples = c.samples
         /\ [c EXCEPT !.status = "active", !.factor = Factor(c)] \in Calibration
         /\ [c EXCEPT !.status = "active", !.factor = Factor(c)].status = "active"
         /\ [c EXCEPT !.status = "active", !.factor = Factor(c)].factor = Factor(c)
         /\ [c EXCEPT !.status = "active", !.factor = Factor(c)].samples = c.samples
<1>. DEFINE f == Factor(c)
<1>1. f \in [pulses : Nat, ml : Int]
  BY FactorType
<1>. HIDE DEF f
<1>2. /\ [c EXCEPT !.status = "superseded"] \in Calibration
      /\ [c EXCEPT !.status = "superseded"].status = "superseded"
      /\ [c EXCEPT !.status = "superseded"].factor = c.factor
      /\ [c EXCEPT !.status = "superseded"].samples = c.samples
  BY DEF Calibration
<1>3. /\ [c EXCEPT !.status = "active", !.factor = f] \in Calibration
      /\ [c EXCEPT !.status = "active", !.factor = f].status = "active"
      /\ [c EXCEPT !.status = "active", !.factor = f].factor = f
      /\ [c EXCEPT !.status = "active", !.factor = f].samples = c.samples
  BY <1>1 DEF Calibration
<1>. QED  BY <1>2, <1>3 DEF f

LEMMA ActivatedIs ==
  ASSUME CalsInv, NEW c \in DOMAIN cals, cals[c].status = "draft",
         Included(cals[c]) # {}, cals' = Activated(c)
  PROVE  CalsInv' /\ CalsKeep
<1>1. /\ cals \in Seq(Calibration)
      /\ \A k \in DOMAIN cals : (cals[k].status = "draft") = (cals[k].factor = NoFactor)
      /\ \A k \in DOMAIN cals : cals[k].status # "draft" => cals[k].factor = Factor(cals[k])
      /\ \A k \in DOMAIN cals : cals[k] = Flagged(cals[k])
  BY DEF CalsInv, ActiveFactorFromSamples, FlagsAreFresh
<1>. DEFINE new == [cals[c] EXCEPT !.status = "active", !.factor = Factor(cals[c])]
            Old(k) == [cals[k] EXCEPT !.status = "superseded"]
<1>2. \A k \in DOMAIN cals : cals[k] \in Calibration
  BY <1>1
<1>3. cals' = [k \in DOMAIN cals |-> IF k = c THEN new
                 ELSE IF cals[k].status = "active" THEN Old(k) ELSE cals[k]]
  BY DEF Activated
<1>4. /\ new \in Calibration /\ new.status = "active" /\ new.factor = Factor(cals[c])
      /\ new.samples = cals[c].samples
  BY <1>1, <1>2, Restated
<1>5. \A k \in DOMAIN cals :
        /\ Old(k) \in Calibration /\ Old(k).status = "superseded"
        /\ Old(k).factor = cals[k].factor /\ Old(k).samples = cals[k].samples
  BY <1>1, <1>2, Restated
<1>. HIDE DEF new, Old
<1>6. DOMAIN cals' = DOMAIN cals /\ cals' \in Seq(Calibration)
  BY <1>1, <1>2, <1>3, <1>4, <1>5
<1>7. \A k \in DOMAIN cals :
        cals'[k] = IF k = c THEN new ELSE IF cals[k].status = "active" THEN Old(k) ELSE cals[k]
  BY <1>3
<1>8. \A k \in DOMAIN cals : cals'[k] \in Calibration /\ cals'[k].samples = cals[k].samples
  BY <1>2, <1>4, <1>5, <1>7
<1>9. \A k \in DOMAIN cals : cals'[k].status = "active" => k = c
  BY <1>5, <1>7
<1>10. ASSUME NEW k \in DOMAIN cals
       PROVE  /\ cals'[k].status # "draft" => cals'[k].factor = Factor(cals[k])
              /\ (cals'[k].status = "draft") = (cals'[k].factor = NoFactor)
              /\ cals[k].status # "draft" =>
                   cals'[k].status # "draft" /\ cals'[k].factor = cals[k].factor
  <2>1. CASE k = c
    <3>1. Factor(cals[c]) # NoFactor
      BY <1>2, FactorType
    <3>. QED  BY <1>4, <1>7, <2>1, <3>1
  <2>2. CASE k # c /\ cals[k].status = "active"
    BY <1>1, <1>5, <1>7, <2>2
  <2>3. CASE k # c /\ cals[k].status # "active"
    BY <1>1, <1>7, <2>3
  <2>. QED  BY <2>1, <2>2, <2>3
<1>11. ActiveFactorFromSamples'
  <2>1. \A k \in DOMAIN cals' : cals'[k].status # "draft" => cals'[k].factor = Factor(cals'[k])
    BY <1>6, <1>8, <1>10, OfSamples
  <2>. QED  BY <2>1 DEF ActiveFactorFromSamples
<1>12. FlagsAreFresh'
  <2>1. \A k \in DOMAIN cals' : cals'[k] = Flagged(cals'[k])
    BY <1>1, <1>2, <1>6, <1>8, FlagsOfSamples
  <2>. QED  BY <2>1 DEF FlagsAreFresh
<1>13. CalsInv'
  BY <1>6, <1>9, <1>10, <1>11, <1>12 DEF CalsInv
<1>. QED  BY <1>6, <1>10, <1>13 DEF CalsKeep

LEMMA ActivateIncludes ==
  ASSUME CalsInv, NEW c \in DOMAIN cals, Activate(c) \/ ActivateProvisional(c)
  PROVE  /\ cals[c].status = "draft" /\ Included(cals[c]) # {} /\ cals' = Activated(c)
         /\ NoActiveSession
<1>1. cals[c] \in Calibration
  BY DEF CalsInv
<1>2. ASSUME Activate(c)
      PROVE  Included(cals[c]) # {}
  <2>1. MinIncluded \in Nat \ {0} /\ Cardinality(Included(cals[c])) >= MinIncluded
    BY <1>2 DEF Activate
  <2>2. Cardinality(Included(cals[c])) # 0
    BY <2>1
  <2>. QED  BY <1>1, <2>2, IncludedSamples
<1>. QED  BY <1>2 DEF Activate, ActivateProvisional

-------------------------------------------------------------------------------
(***************************************************************************)
(* Sessions and pours fit each other, the kegs and the calibrations.       *)
(***************************************************************************)
FitSession(s) ==
  /\ sessions[s].status = "active" => ~sessions[s].settled
  /\ sessions[s].status = "active" /\ sessions[s].purpose = "pour" =>
       sessions[s].keg = OpenKeg /\ sessions[s].cal = ActiveCal
  /\ sessions[s].purpose = "pour" /\ sessions[s].cal # 0 =>
       sessions[s].cal \in DOMAIN cals /\ cals[sessions[s].cal].status # "draft"

FitPour(i) ==
  pours[i].session # 0 =>
    LET s == sessions[pours[i].session] IN
    /\ pours[i].session \in DOMAIN sessions /\ s.settled /\ s.purpose = "pour"
    /\ pours[i].keg = s.keg /\ pours[i].cal = s.cal /\ pours[i].ml = ToMl(s.cal)

OnePour ==
  \A i, j \in DOMAIN pours : pours[i].session # 0 /\ pours[j].session = pours[i].session => j = i

LEMMA FitParts ==
  ASSUME FitInv
  PROVE  (\A s \in DOMAIN sessions : FitSession(s)) /\ (\A i \in DOMAIN pours : FitPour(i)) /\ OnePour
<1>1. SessionsSettleOnce /\ ActiveSessionUsesCurrentContext /\ LatePourStaysOnItsKeg
  BY DEF FitInv, PoursKeepTheirContext
<1>2. \A s \in DOMAIN sessions : FitSession(s)
  BY <1>1 DEF SessionsSettleOnce, ActiveSessionUsesCurrentContext, FitSession
<1>3. \A i \in DOMAIN pours : FitPour(i)
  BY <1>1 DEF SessionsSettleOnce, LatePourStaysOnItsKeg, FitPour
<1>4. OnePour
  BY <1>1 DEF LatePourStaysOnItsKeg, OnePour
<1>. QED  BY <1>2, <1>3, <1>4

LEMMA FitNext ==
  ASSUME \A s \in DOMAIN sessions' : FitSession(s)', \A i \in DOMAIN pours' : FitPour(i)',
         OnePour'
  PROVE  FitInv'
<1>1. SessionsSettleOnce'
  BY DEF SessionsSettleOnce, FitSession, FitPour
<1>2. ActiveSessionUsesCurrentContext'
  BY DEF ActiveSessionUsesCurrentContext, FitSession
<1>3. LatePourStaysOnItsKeg'
  BY DEF LatePourStaysOnItsKeg, FitPour, OnePour
<1>. QED  BY <1>1, <1>2, <1>3 DEF FitInv, PoursKeepTheirContext

SessionsKeep ==
  \A s \in DOMAIN sessions :
    /\ s \in DOMAIN sessions'
    /\ sessions'[s].purpose = sessions[s].purpose
    /\ sessions'[s].keg = sessions[s].keg /\ sessions'[s].cal = sessions[s].cal
    /\ sessions[s].settled => sessions'[s].settled

PoursKeep ==
  \A i \in DOMAIN pours :
    /\ i \in DOMAIN pours'
    /\ pours'[i].session = pours[i].session /\ pours'[i].keg = pours[i].keg
    /\ pours'[i].cal = pours[i].cal /\ pours'[i].ml = pours[i].ml

(* What a calibration that is no draft makes of the pulses stays. *)
MlOf(cs, c) == IF c = 0 \/ cs[c].factor = NoFactor THEN Unknown
               ELSE (Pulses * cs[c].factor.ml) \div cs[c].factor.pulses

LEMMA MlStays ==
  ASSUME CalsKeep, NEW c, c = 0 \/ (c \in DOMAIN cals /\ cals[c].status # "draft")
  PROVE  MlOf(cals', c) = MlOf(cals, c) /\ ToMl(c) = MlOf(cals, c)
BY DEF ToMl, MlOf, CalsKeep

LEMMA FitPourStays ==
  ASSUME FitInv, CalsKeep, SessionsKeep, PoursKeep, NEW i \in DOMAIN pours
  PROVE  FitPour(i)'
<1>. DEFINE n == pours[i].session
            c == sessions[n].cal
<1>1. FitPour(i) /\ \A s \in DOMAIN sessions : FitSession(s)
  BY FitParts
<1>. SUFFICES ASSUME pours'[i].session # 0 PROVE FitPour(i)'
  BY DEF FitPour
<1>2. /\ pours'[i].session = n /\ pours'[i].keg = pours[i].keg
      /\ pours'[i].cal = pours[i].cal /\ pours'[i].ml = pours[i].ml
  BY DEF PoursKeep
<1>3. /\ n \in DOMAIN sessions /\ sessions[n].settled /\ sessions[n].purpose = "pour"
      /\ pours[i].keg = sessions[n].keg /\ pours[i].cal = c /\ pours[i].ml = ToMl(c)
  BY <1>1, <1>2 DEF FitPour
<1>4. /\ n \in DOMAIN sessions' /\ sessions'[n].settled /\ sessions'[n].purpose = "pour"
      /\ sessions'[n].keg = sessions[n].keg /\ sessions'[n].cal = c
  BY <1>3 DEF SessionsKeep
<1>5. c = 0 \/ (c \in DOMAIN cals /\ cals[c].status # "draft")
  BY <1>1, <1>3 DEF FitSession
<1>. HIDE DEF n, c
<1>6. MlOf(cals', c) = MlOf(cals, c) /\ ToMl(c) = MlOf(cals, c)
  BY <1>5, MlStays
<1>7. pours'[i].ml = MlOf(cals', sessions'[n].cal)
  BY <1>2, <1>3, <1>4, <1>6
<1>. QED  BY <1>2, <1>3, <1>4, <1>7 DEF FitPour, ToMl, MlOf

LEMMA FitKept ==
  ASSUME FitInv, CalsKeep, SessionsKeep, PoursKeep, DOMAIN pours' = DOMAIN pours,
         \A s \in DOMAIN sessions' : FitSession(s)'
  PROVE  FitInv'
<1>1. \A i \in DOMAIN pours' : FitPour(i)'
  BY FitPourStays
<1>2. OnePour'
  BY FitParts DEF OnePour, PoursKeep
<1>. QED  BY <1>1, <1>2, FitNext

(* A pour of no session, or of one that settles with it. *)
PourOf(row) ==
  row.session # 0 =>
    /\ row.session \in DOMAIN sessions /\ ~sessions[row.session].settled
    /\ sessions[row.session].purpose = "pour"
    /\ row.keg = sessions[row.session].keg /\ row.cal = sessions[row.session].cal
    /\ row.ml = ToMl(row.cal)

LEMMA FitAdded ==
  ASSUME FitInv, CalsKeep, SessionsKeep, \A s \in DOMAIN sessions' : FitSession(s)',
         pours \in Seq(PourRow), NEW row \in PourRow, pours' = Append(pours, row),
         PourOf(row), row.session # 0 => sessions'[row.session].settled
  PROVE  FitInv'
<1>. DEFINE s == row.session
<1>0. PICK n : n = Len(pours) + 1
  OBVIOUS
<1>1. /\ DOMAIN pours = 1..Len(pours) /\ DOMAIN pours' = 1..n /\ Len(pours) \in Nat
      /\ pours'[n] = row /\ \A i \in DOMAIN pours : pours'[i] = pours[i]
  BY <1>0, Appended
<1>2. \A i \in DOMAIN pours' : i = n \/ i \in DOMAIN pours
  BY <1>0, <1>1
<1>3. PoursKeep
  <2>1. \A i \in DOMAIN pours : i \in DOMAIN pours'
    BY <1>0, <1>1
  <2>. QED  BY <1>1, <2>1 DEF PoursKeep
<1>4. (\A i \in DOMAIN pours : FitPour(i)) /\ OnePour /\ \A t \in DOMAIN sessions : FitSession(t)
  BY FitParts
<1>5. FitPour(n)'
  <2>1. CASE s = 0
    BY <1>1, <2>1 DEF FitPour
  <2>2. CASE s # 0
    <3>1. /\ s \in DOMAIN sessions /\ sessions[s].purpose = "pour"
          /\ row.keg = sessions[s].keg /\ row.cal = sessions[s].cal /\ row.ml = ToMl(row.cal)
      BY <2>2 DEF PourOf
    <3>2. /\ s \in DOMAIN sessions' /\ sessions'[s].settled /\ sessions'[s].purpose = "pour"
          /\ sessions'[s].keg = row.keg /\ sessions'[s].cal = row.cal
      BY <2>2, <3>1 DEF SessionsKeep
    <3>3. row.cal = 0 \/ (row.cal \in DOMAIN cals /\ cals[row.cal].status # "draft")
      BY <1>4, <3>1 DEF FitSession
    <3>4. MlOf(cals', row.cal) = MlOf(cals, row.cal) /\ ToMl(row.cal) = MlOf(cals, row.cal)
      BY <3>3, MlStays
    <3>5. row.ml = MlOf(cals', sessions'[s].cal)
      BY <3>1, <3>2, <3>4
    <3>. QED  BY <1>1, <3>2, <3>5 DEF FitPour, ToMl, MlOf
  <2>. QED  BY <2>1, <2>2
<1>6. \A i \in DOMAIN pours : FitPour(i)'
  BY <1>3, FitPourStays
<1>7. \A i \in DOMAIN pours' : FitPour(i)'
  BY <1>2, <1>5, <1>6
<1>8. \A i \in DOMAIN pours : pours'[i].session # 0 => pours'[i].session # row.session
  <2>. SUFFICES ASSUME NEW i \in DOMAIN pours, pours[i].session # 0, pours[i].session = row.session
                PROVE  FALSE
    BY <1>1
  <2>1. sessions[row.session].settled
    BY <1>4 DEF FitPour
  <2>. QED  BY <2>1 DEF PourOf
<1>9. OnePour'
  <2>1. ASSUME NEW i \in DOMAIN pours', NEW j \in DOMAIN pours',
               pours'[i].session # 0, pours'[j].session = pours'[i].session
        PROVE  j = i
    <3>1. CASE i = n \/ j = n
      BY <1>1, <1>2, <1>8, <2>1, <3>1
    <3>2. CASE i # n /\ j # n
      BY <1>1, <1>2, <1>4, <2>1, <3>2 DEF OnePour
    <3>. QED  BY <3>1, <3>2
  <2>. QED  BY <2>1 DEF OnePour
<1>. QED  BY <1>7, <1>9, FitNext

LEMMA FitSessionStays ==
  ASSUME FitInv, CalsKeep, SessionsKeep, NEW s \in DOMAIN sessions,
         sessions'[s].status = "active" =>
           sessions'[s] = sessions[s] /\ OpenKeg' = OpenKeg /\ ActiveCal' = ActiveCal
  PROVE  FitSession(s)'
<1>1. FitSession(s)
  BY FitParts
<1>2. sessions'[s].purpose = sessions[s].purpose /\ sessions'[s].cal = sessions[s].cal
  BY DEF SessionsKeep
<1>3. sessions'[s].purpose = "pour" /\ sessions'[s].cal # 0 =>
        sessions'[s].cal \in DOMAIN cals' /\ cals'[sessions'[s].cal].status # "draft"
  BY <1>1, <1>2 DEF FitSession, CalsKeep
<1>. QED  BY <1>1, <1>3 DEF FitSession

LEMMA SameSessions ==
  ASSUME SessionsInv, FitInv, CalsKeep, sessions' = sessions,
         NoActiveSession \/ (OpenKeg' = OpenKeg /\ ActiveCal' = ActiveCal)
  PROVE  SessionsInv' /\ SessionsKeep /\ \A s \in DOMAIN sessions' : FitSession(s)'
<1>1. SessionsInv'
  BY DEF SessionsInv, CaptureConsumedOnce
<1>2. SessionsKeep
  BY DEF SessionsKeep
<1>3. \A s \in DOMAIN sessions : FitSession(s)'
  BY <1>2, FitSessionStays DEF NoActiveSession
<1>. QED  BY <1>1, <1>2, <1>3

(* A session that is over, or is used. *)
Over(old, row) ==
  /\ row.purpose = old.purpose /\ row.keg = old.keg /\ row.cal = old.cal
  /\ old.settled => row.settled
  /\ row.status # "active" /\ row.made = IF row.status = "consumed" THEN 1 ELSE 0

LEMMA SessionOver ==
  ASSUME SessionsInv, FitInv, CalsKeep, OpenKeg' = OpenKeg, ActiveCal' = ActiveCal,
         NEW s \in DOMAIN sessions, NEW row \in Session, sessions' = [sessions EXCEPT ![s] = row],
         Over(sessions[s], row)
  PROVE  /\ SessionsInv' /\ SessionsKeep /\ \A t \in DOMAIN sessions' : FitSession(t)'
         /\ sessions'[s] = row
<1>1. sessions \in Seq(Session) /\ CaptureConsumedOnce
  BY DEF SessionsInv
<1>2. /\ sessions' \in Seq(Session) /\ DOMAIN sessions' = DOMAIN sessions
      /\ \A t \in DOMAIN sessions : sessions'[t] = IF t = s THEN row ELSE sessions[t]
  BY <1>1, Replaced
<1>3. SessionsInv'
  BY <1>1, <1>2 DEF SessionsInv, CaptureConsumedOnce, Over
<1>4. SessionsKeep
  BY <1>2 DEF SessionsKeep, Over
<1>5. \A t \in DOMAIN sessions : sessions'[t].status = "active" => sessions'[t] = sessions[t]
  BY <1>2 DEF Over
<1>6. \A t \in DOMAIN sessions : FitSession(t)'
  BY <1>4, <1>5, FitSessionStays
<1>. QED  BY <1>2, <1>3, <1>4, <1>6

(* The rows that the methods write of a session that was not consumed. *)
Ended(old, status) == [old EXCEPT !.status = status]
Settled(old, status) == [old EXCEPT !.status = status, !.settled = TRUE]
Measured(old, status) == [old EXCEPT !.status = status, !.settled = TRUE, !.measured = TRUE]
Consumed(old) == [old EXCEPT !.status = "consumed", !.made = @ + 1]

LEMMA RowsOver ==
  ASSUME NEW old \in Session, NEW status \in {"closed", "complete", "discarded"},
         old.made = IF old.status = "consumed" THEN 1 ELSE 0, old.status # "consumed"
  PROVE  /\ Ended(old, status) \in Session /\ Over(old, Ended(old, status))
         /\ Settled(old, status) \in Session /\ Over(old, Settled(old, status))
         /\ Settled(old, status).settled
         /\ Measured(old, status) \in Session /\ Over(old, Measured(old, status))
         /\ Consumed(old) \in Session /\ Over(old, Consumed(old))
<1>1. Ended(old, status) \in Session /\ Over(old, Ended(old, status))
  BY DEF Ended, Over, Session
<1>2. Settled(old, status) \in Session /\ Over(old, Settled(old, status)) /\ Settled(old, status).settled
  BY DEF Settled, Over, Session
<1>3. Measured(old, status) \in Session /\ Over(old, Measured(old, status))
  BY DEF Measured, Over, Session
<1>4. Consumed(old) = [old EXCEPT !.status = "consumed", !.made = 1]
  BY DEF Consumed
<1>5. Consumed(old) \in Session
  <2>1. [old EXCEPT !.status = "consumed"] \in Session
    BY DEF Session
  <2>2. \A row \in Session : [row EXCEPT !.made = 1] \in Session
    BY DEF Session
  <2>. QED  BY <1>4, <2>1, <2>2
<1>6. Over(old, Consumed(old))
  BY <1>4 DEF Over, Session
<1>. QED  BY <1>1, <1>2, <1>3, <1>5, <1>6

LEMMA ArmStep ==
  ASSUME SessionsInv, FitInv, CalsInv, KegsInv,
         NEW purpose \in {"pour", "calibration", "verification"}, NEW who \in People \cup {NoOne},
         NEW keg \in Nat, NEW cal \in Nat, NEW ordinal \in Ordinals \cup {NoOrdinal},
         purpose = "pour" => keg = OpenKeg /\ cal = ActiveCal,
         Arm(purpose, who, keg, cal, ordinal)
  PROVE  SessionsInv' /\ SessionsKeep /\ \A t \in DOMAIN sessions' : FitSession(t)'
<1>. DEFINE row == [purpose |-> purpose, who |-> who, keg |-> keg, cal |-> cal,
                    ordinal |-> ordinal, status |-> "active", settled |-> FALSE,
                    measured |-> FALSE, made |-> 0]
<1>0. PICK n : n = Len(sessions) + 1
  OBVIOUS
<1>1. /\ row \in Session /\ row.purpose = purpose /\ row.keg = keg /\ row.cal = cal
      /\ row.status = "active" /\ ~row.settled /\ row.made = 0
  BY DEF Session
<1>2. /\ sessions' = Append(sessions, row) /\ NoActiveSession
      /\ kegs' = kegs /\ cals' = cals
  BY DEF Arm
<1>. HIDE DEF row
<1>3. sessions \in Seq(Session) /\ CaptureConsumedOnce
  BY DEF SessionsInv
<1>4. /\ sessions' \in Seq(Session) /\ Len(sessions) \in Nat
      /\ DOMAIN sessions = 1..Len(sessions) /\ DOMAIN sessions' = 1..n
      /\ sessions'[n] = row /\ \A s \in DOMAIN sessions : sessions'[s] = sessions[s]
  BY <1>0, <1>1, <1>2, <1>3, Appended
<1>5. /\ \A s \in DOMAIN sessions' : s = n \/ s \in DOMAIN sessions
      /\ \A s \in DOMAIN sessions : s \in DOMAIN sessions'
  BY <1>0, <1>4
<1>6. SessionsInv'
  BY <1>1, <1>3, <1>4, <1>5 DEF SessionsInv, CaptureConsumedOnce
<1>7. SessionsKeep
  BY <1>4, <1>5 DEF SessionsKeep
<1>8. CalsKeep /\ OpenKeg' = OpenKeg /\ ActiveCal' = ActiveCal
  BY <1>2, SameCals, OpenKegIs
<1>9. FitSession(n)'
  <2>1. ASSUME purpose = "pour", cal # 0
        PROVE  cal \in DOMAIN cals' /\ cals'[cal].status # "draft"
    <3>1. ActiveCal \in DOMAIN cals /\ cals[ActiveCal].status = "active"
      BY <2>1, ActiveCalIs, ActiveOfType DEF CalsInv
    <3>. QED  BY <1>2, <2>1, <3>1
  <2>. QED  BY <1>1, <1>4, <1>8, <2>1 DEF FitSession
<1>10. \A s \in DOMAIN sessions : FitSession(s)'
  BY <1>4, <1>7, <1>8, FitSessionStays
<1>. QED  BY <1>5, <1>6, <1>7, <1>9, <1>10

-------------------------------------------------------------------------------
(***************************************************************************)
(* Kegs.                                                                   *)
(***************************************************************************)
LEMMA SameKegs ==
  ASSUME KegsInv, kegs' = kegs
  PROVE  KegsInv' /\ OpenKeg' = OpenKeg
BY OpenKegIs DEF KegsInv

LEMMA StockAdjusted ==
  ASSUME KegsInv, NEW k \in DOMAIN kegs, NEW amount \in Int,
         kegs' = [kegs EXCEPT ![k].adjusted = @ + amount]
  PROVE  /\ KegsInv' /\ OpenKeg' = OpenKeg
         /\ kegs[k].adjusted \in Int /\ kegs'[k].adjusted = kegs[k].adjusted + amount
<1>. DEFINE old == kegs[k]
            row == [old EXCEPT !.adjusted = @ + amount]
<1>1. /\ kegs \in Seq(Keg)
      /\ \A j, l \in DOMAIN kegs : kegs[j].open /\ kegs[l].open => j = l
  BY DEF KegsInv
<1>2. old \in Keg /\ kegs' = [kegs EXCEPT ![k] = row]
  BY <1>1
<1>. HIDE DEF old
<1>3. row \in Keg /\ row.open = old.open /\ row.adjusted = old.adjusted + amount /\ old.adjusted \in Int
  BY <1>2 DEF Keg
<1>. HIDE DEF row
<1>4. /\ kegs' \in Seq(Keg) /\ DOMAIN kegs' = DOMAIN kegs
      /\ \A j \in DOMAIN kegs : kegs'[j] = IF j = k THEN row ELSE kegs[j]
  <2>1. /\ [kegs EXCEPT ![k] = row] \in Seq(Keg)
        /\ DOMAIN [kegs EXCEPT ![k] = row] = DOMAIN kegs
        /\ \A j \in DOMAIN kegs : [kegs EXCEPT ![k] = row][j] = IF j = k THEN row ELSE kegs[j]
    BY <1>1, <1>3, Replaced
  <2>. QED  BY <1>2, <2>1
<1>5. \A j \in DOMAIN kegs : kegs'[j].open = kegs[j].open
  BY <1>3, <1>4 DEF old
<1>6. KegsInv'
  BY <1>1, <1>4, <1>5 DEF KegsInv
<1>7. OpenKeg' = OpenKeg
  BY <1>1, <1>4, <1>5, SameOpen, OpenKegIs, ZenonT(60)
<1>. QED  BY <1>3, <1>4, <1>6, <1>7 DEF old

LEMMA KegReplaced ==
  ASSUME KegsInv, kegs' = WithNewKeg
  PROVE  KegsInv'
<1>. DEFINE Closed(k) == [kegs[k] EXCEPT !.open = FALSE]
            closed == [k \in DOMAIN kegs |-> Closed(k)]
<1>0. PICK n : n = Len(closed) + 1
  OBVIOUS
<1>1. kegs \in Seq(Keg) /\ DOMAIN kegs = 1..Len(kegs) /\ Len(kegs) \in Nat
  BY DEF KegsInv
<1>2. \A k \in DOMAIN kegs : Closed(k) \in Keg /\ ~Closed(k).open
  <2>1. \A keg \in Keg : [keg EXCEPT !.open = FALSE] \in Keg /\ ~[keg EXCEPT !.open = FALSE].open
    BY DEF Keg
  <2>. QED  BY <1>1, <2>1
<1>3. NewKeg \in Keg /\ kegs' = Append(closed, NewKeg)
  BY DEF NewKeg, Keg, WithNewKeg
<1>. HIDE DEF Closed
<1>4. closed \in Seq(Keg) /\ \A k \in DOMAIN closed : ~closed[k].open
  BY <1>1, <1>2
<1>. HIDE DEF closed
<1>5. /\ kegs' \in Seq(Keg) /\ Len(closed) \in Nat /\ DOMAIN closed = 1..Len(closed)
      /\ DOMAIN kegs' = 1..n /\ \A i \in DOMAIN closed : kegs'[i] = closed[i]
  BY <1>0, <1>3, <1>4, Appended
<1>6. \A i \in DOMAIN kegs' : i = n \/ i \in DOMAIN closed
  BY <1>0, <1>5
<1>. QED  BY <1>4, <1>5, <1>6 DEF KegsInv

LEMMA PouredType ==
  ASSUME PoursInv, NEW k
  PROVE  PouredFrom(k) \in Int
<1>. DEFINE f == [i \in DOMAIN pours |->
                    IF pours[i].keg = k /\ pours[i].ml # Unknown THEN pours[i].ml ELSE 0]
<1>1. pours \in Seq(PourRow) /\ DOMAIN pours = 1..Len(pours) /\ Len(pours) \in Nat
  BY DEF PoursInv
<1>2. \A i \in 1..Len(pours) : f[i] \in Int
  <2>. TAKE i \in 1..Len(pours)
  <2>1. pours[i] \in PourRow
    BY <1>1
  <2>2. pours[i].ml \in Int \cup {Unknown}
    BY <2>1, PourFields
  <2>. QED  BY <1>1, <2>2
<1>. HIDE DEF f
<1>3. Total(f, Len(pours)) \in Int
  BY <1>1, <1>2, TotalIsInt
<1>. QED  BY <1>3 DEF PouredFrom, f

LEMMA CorrectionType ==
  ASSUME PoursInv, KegsInv, NEW k \in DOMAIN kegs, NEW percent \in Percents
  PROVE  Correction(k, percent) \in Int /\ Target(percent) \in Int
<1>1. PouredFrom(k) \in Int
  BY PouredType
<1>2. kegs[k].adjusted \in Int
  <2>1. kegs[k] \in Keg
    BY DEF KegsInv
  <2>. QED  BY <2>1 DEF Keg
<1>3. KegSize \in Int /\ percent \in Nat /\ KegSize * percent \in Int
  <2>1. KegSize \in Nat /\ percent \in Nat
    OBVIOUS
  <2>. QED  BY <2>1
<1>4. Target(percent) \in Int
  BY <1>3, Quotient DEF Target
<1>. QED  BY <1>1, <1>2, <1>3, <1>4 DEF Correction, Remaining

-------------------------------------------------------------------------------
(***************************************************************************)
(* New rows of pour_events.                                                *)
(***************************************************************************)
LEMMA MlType ==
  ASSUME CalsInv, NEW c, c = 0 \/ c \in DOMAIN cals
  PROVE  ToMl(c) \in Int \cup {Unknown}
<1>1. CASE c = 0 \/ cals[c].factor = NoFactor
  BY <1>1 DEF ToMl
<1>2. CASE ~(c = 0 \/ cals[c].factor = NoFactor)
  <2>. DEFINE f == cals[c].factor
  <2>1. cals[c] \in Calibration /\ cals[c].status # "draft"
    BY <1>2 DEF CalsInv
  <2>2. f = Factor(cals[c]) /\ f # NoFactor
    BY <1>2, <2>1 DEF CalsInv, ActiveFactorFromSamples
  <2>3. f.pulses \in Nat \ {0} /\ f.ml \in Int
    BY <2>1, <2>2, FactorType
  <2>4. ToMl(c) = (Pulses * f.ml) \div f.pulses
    BY <1>2 DEF ToMl
  <2>. HIDE DEF f
  <2>5. Pulses * f.ml \in Int
    <3>1. Pulses \in Int
      OBVIOUS
    <3>. QED  BY <2>3, <3>1
  <2>. QED  BY <2>3, <2>4, <2>5, Quotient
<1>. QED  BY <1>1, <1>2

LEMMA PourIs ==
  ASSUME CalsInv, NEW s \in Nat, NEW who \in People \cup {NoOne}, NEW keg \in Nat,
         NEW cal \in Nat, cal = 0 \/ cal \in DOMAIN cals
  PROVE  /\ Pour(s, who, keg, cal) \in PourRow
         /\ Pour(s, who, keg, cal).session = s /\ Pour(s, who, keg, cal).who = who
         /\ Pour(s, who, keg, cal).keg = keg /\ Pour(s, who, keg, cal).cal = cal
         /\ Pour(s, who, keg, cal).ml = ToMl(cal)
         /\ Pour(s, who, keg, cal).payer = NoOne /\ Pour(s, who, keg, cal).cents = 0
<1>1. ToMl(cal) \in Int \cup {Unknown}
  BY MlType
<1>. QED  BY <1>1 DEF Pour, PourRow

-------------------------------------------------------------------------------
(***************************************************************************)
(* Every step keeps the parts.                                             *)
(***************************************************************************)
LEMMA SamePeople == ASSUME PeopleInv, UNCHANGED <<people, rate>> PROVE PeopleInv'
BY DEF PeopleInv

LEMMA SameBooks ==
  ASSUME BooksInv, PoursInv, UNCHANGED <<balance, ledger, pours>>
  PROVE  BooksInv' /\ PoursInv' /\ PoursKeep /\ DOMAIN pours' = DOMAIN pours
<1>1. BooksInv'
  BY DEF BooksInv, ChargeFollowsPour, NothingBookedAhead
<1>2. PoursInv'
  BY DEF PoursInv
<1>. QED  BY <1>1, <1>2 DEF PoursKeep

LEMMA QuietFit ==
  ASSUME KegsInv, CalsInv, SessionsInv, FitInv, PoursKeep, DOMAIN pours' = DOMAIN pours,
         UNCHANGED <<kegs, cals, sessions>>
  PROVE  KegsInv' /\ CalsInv' /\ SessionsInv' /\ FitInv'
<1>1. CalsInv' /\ CalsKeep /\ ActiveCal' = ActiveCal
  BY SameCals
<1>2. KegsInv' /\ OpenKeg' = OpenKeg
  BY SameKegs
<1>3. SessionsInv' /\ SessionsKeep /\ \A s \in DOMAIN sessions' : FitSession(s)'
  BY <1>1, <1>2, SameSessions
<1>. QED  BY <1>1, <1>2, <1>3, FitKept

LEMMA AccountsStep ==
  ASSUME Parts, Accounts
  PROVE  Parts'
<1>0. PeopleInv /\ BooksInv /\ KegsInv /\ CalsInv /\ SessionsInv /\ PoursInv /\ FitInv
  BY DEF Parts
<1>1. ASSUME NEW p \in People, CreateParticipant(p) \/ UpdateParticipant(p) PROVE Parts'
  <2>1. UNCHANGED <<balance, ledger, rate, kegs, cals, sessions, pours>>
    BY <1>1 DEF CreateParticipant, UpdateParticipant
  <2>2. PeopleInv'
    <3>1. people' \in [People -> {"none", "active", "inactive"}]
      BY <1>0, <1>1 DEF PeopleInv, CreateParticipant, UpdateParticipant
    <3>. QED  BY <1>0, <2>1, <3>1 DEF PeopleInv
  <2>. QED  BY <1>0, <2>1, <2>2, SameBooks, QuietFit DEF Parts
<1>2. ASSUME NEW p \in People, AdjustBalance(p) PROVE Parts'
  <2>1. UNCHANGED <<people, rate, kegs, cals, sessions, pours>>
    BY <1>2 DEF AdjustBalance
  <2>2. BooksInv'
    BY <1>0, <1>2, AdjustBooks
  <2>3. PoursInv' /\ PoursKeep /\ DOMAIN pours' = DOMAIN pours
    BY <1>0, <2>1 DEF PoursInv, PoursKeep
  <2>. QED  BY <1>0, <2>1, <2>2, <2>3, SamePeople, QuietFit DEF Parts
<1>3. ASSUME NEW r \in Rates, SetPrice(r) PROVE Parts'
  <2>1. UNCHANGED <<people, balance, ledger, kegs, cals, sessions, pours>> /\ rate' = r
    BY <1>3 DEF SetPrice
  <2>2. PeopleInv'
    BY <1>0, <2>1 DEF PeopleInv
  <2>. QED  BY <1>0, <2>1, <2>2, SameBooks, QuietFit DEF Parts
<1>4. ASSUME NEW i \in DOMAIN pours, NEW p \in People, ReassignPour(i, p) PROVE Parts'
  <2>1. UNCHANGED <<people, rate, kegs, cals, sessions>>
    BY <1>4 DEF ReassignPour
  <2>. DEFINE new == Reassigned(pours[i], p)
  <2>2. BooksInv' /\ PoursInv' /\ pours \in Seq(PourRow) /\ pours' = [pours EXCEPT ![i] = new]
    BY <1>0, <1>4, ReassignBooks
  <2>3. /\ pours[i] \in PourRow /\ pours[i].payer \in {NoOne, pours[i].who}
        /\ (pours[i].payer = NoOne) = (pours[i].cents = 0)
    BY <1>0, <2>2 DEF BooksInv, ChargeFollowsPour, PoursInv
  <2>4. /\ new \in PourRow /\ new.session = pours[i].session /\ new.keg = pours[i].keg
        /\ new.cal = pours[i].cal /\ new.ml = pours[i].ml
    BY <1>0, <2>3, ReassignedIs
  <2>. HIDE DEF new
  <2>5. DOMAIN pours' = DOMAIN pours /\ \A k \in DOMAIN pours : pours'[k] = IF k = i THEN new ELSE pours[k]
    BY <2>2, <2>4, Replaced
  <2>6. PoursKeep
    BY <2>4, <2>5 DEF PoursKeep
  <2>. QED  BY <1>0, <2>1, <2>2, <2>5, <2>6, SamePeople, QuietFit DEF Parts
<1>. QED  BY <1>1, <1>2, <1>3, <1>4 DEF Accounts

LEMMA StockStep ==
  ASSUME Parts, Stock
  PROVE  Parts'
<1>0. PeopleInv /\ BooksInv /\ KegsInv /\ CalsInv /\ SessionsInv /\ PoursInv /\ FitInv
  BY DEF Parts
<1>1. UNCHANGED <<people, balance, ledger, rate, cals, sessions, pours>>
  BY DEF Stock, ReplaceKeg, AdjustInventory, SetRemaining, accounts
<1>2. KegsInv' /\ (NoActiveSession \/ OpenKeg' = OpenKeg)
  <2>1. CASE ReplaceKeg
    BY <1>0, <2>1, KegReplaced DEF ReplaceKeg
  <2>2. ASSUME NEW k \in DOMAIN kegs, AdjustInventory(k, -1)
        PROVE  KegsInv' /\ OpenKeg' = OpenKeg
    <3>1. -1 \in Int
      OBVIOUS
    <3>. QED  BY <1>0, <2>2, <3>1, StockAdjusted DEF AdjustInventory
  <2>3. ASSUME NEW percent \in Percents, SetRemaining(percent)
        PROVE  KegsInv' /\ OpenKeg' = OpenKeg
    <3>. DEFINE k == OpenKeg
                amount == Correction(k, percent)
    <3>1. k # 0 /\ kegs' = [kegs EXCEPT ![k].adjusted = @ + amount]
      BY <2>3 DEF SetRemaining
    <3>2. k \in DOMAIN kegs
      BY <1>0, <3>1, OpenKegIs, OpenOfType DEF KegsInv
    <3>3. amount \in Int
      BY <1>0, <3>2, CorrectionType
    <3>. HIDE DEF k, amount
    <3>. QED  BY <1>0, <3>1, <3>2, <3>3, StockAdjusted
  <2>. QED  BY <2>1, <2>2, <2>3 DEF Stock
<1>3. CalsInv' /\ CalsKeep /\ ActiveCal' = ActiveCal
  BY <1>0, <1>1, SameCals
<1>4. SessionsInv' /\ SessionsKeep /\ \A s \in DOMAIN sessions' : FitSession(s)'
  BY <1>0, <1>1, <1>2, <1>3, SameSessions
<1>5. BooksInv' /\ PoursInv' /\ PoursKeep /\ DOMAIN pours' = DOMAIN pours
  BY <1>0, <1>1, SameBooks
<1>6. FitInv'
  BY <1>0, <1>3, <1>4, <1>5, FitKept
<1>. QED  BY <1>0, <1>1, <1>2, <1>3, <1>4, <1>5, <1>6, SamePeople DEF Parts

LEMMA CalibrationsStep ==
  ASSUME Parts, Calibrations
  PROVE  Parts'
<1>0. PeopleInv /\ BooksInv /\ KegsInv /\ CalsInv /\ SessionsInv /\ PoursInv /\ FitInv
  BY DEF Parts
<1>1. ASSUME NEW c \in DOMAIN cals, NEW o \in Ordinals, ArmCalibration(c, o) PROVE Parts'
  <2>1. UNCHANGED <<people, balance, ledger, rate, kegs, cals, pours>>
    BY <1>1 DEF ArmCalibration, Arm, accounts
  <2>2. SessionsInv' /\ SessionsKeep /\ \A s \in DOMAIN sessions' : FitSession(s)'
    <3>1. c \in Nat
      BY <1>0 DEF CalsInv
    <3>. QED  BY <1>0, <1>1, <3>1, ArmStep DEF ArmCalibration
  <2>3. CalsInv' /\ CalsKeep /\ KegsInv'
    BY <1>0, <2>1, SameCals, SameKegs
  <2>4. BooksInv' /\ PoursInv' /\ PoursKeep /\ DOMAIN pours' = DOMAIN pours
    BY <1>0, <2>1, SameBooks
  <2>5. FitInv'
    BY <1>0, <2>2, <2>3, <2>4, FitKept
  <2>. QED  BY <1>0, <2>1, <2>2, <2>3, <2>4, <2>5, SamePeople DEF Parts
<1>. DEFINE CalsStep == /\ UNCHANGED <<people, balance, ledger, rate, kegs, sessions, pours>>
                        /\ CalsInv' /\ CalsKeep /\ (NoActiveSession \/ ActiveCal' = ActiveCal)
<1>2. ASSUME CreateCalibration PROVE CalsStep
  BY <1>0, <1>2, CalibrationCreated DEF CreateCalibration, accounts
<1>3. ASSUME NEW c \in DOMAIN cals, Activate(c) \/ ActivateProvisional(c) PROVE CalsStep
  BY <1>0, <1>3, ActivateIncludes, ActivatedIs DEF Activate, ActivateProvisional, accounts
<1>4. ASSUME NEW c \in DOMAIN cals, NEW o \in Ordinals, NEW ml \in Masses, AddSample(c, o, ml)
      PROVE  CalsStep
  BY <1>0, <1>4, SampleAdded DEF AddSample, accounts
<1>5. ASSUME NEW c \in DOMAIN cals, NEW o \in Ordinals, NEW included \in BOOLEAN,
             SetSampleIncluded(c, o, included)
      PROVE  CalsStep
  BY <1>0, <1>5, SampleSet DEF SetSampleIncluded, accounts
<1>6. ASSUME CalsStep PROVE Parts'
  <2>1. KegsInv' /\ OpenKeg' = OpenKeg
    BY <1>0, <1>6, SameKegs
  <2>2. SessionsInv' /\ SessionsKeep /\ \A s \in DOMAIN sessions' : FitSession(s)'
    BY <1>0, <1>6, <2>1, SameSessions
  <2>3. BooksInv' /\ PoursInv' /\ PoursKeep /\ DOMAIN pours' = DOMAIN pours
    BY <1>0, <1>6, SameBooks
  <2>4. FitInv'
    BY <1>0, <1>6, <2>2, <2>3, FitKept
  <2>. QED  BY <1>0, <1>6, <2>1, <2>2, <2>3, <2>4, SamePeople DEF Parts
<1>. HIDE DEF CalsStep
<1>. QED  BY <1>1, <1>2, <1>3, <1>4, <1>5, <1>6 DEF Calibrations

(* The methods that only write the row of a session. *)
OverBy(s) ==
  \/ EndSession(s) \/ FinalizeTimeout(s) \/ RecoverCapture(s)
  \/ \E interrupted \in BOOLEAN : FinalizeCapture(s, interrupted)
  \/ ConsumeVerification(s) \/ DiscardCapture(s)

LEMMA OverRow ==
  ASSUME SessionsInv, NEW s \in DOMAIN sessions, OverBy(s)
  PROVE  \E row \in Session :
           Over(sessions[s], row) /\ sessions' = [sessions EXCEPT ![s] = row]
<1>. DEFINE old == sessions[s]
<1>1. /\ old \in Session /\ old.made = IF old.status = "consumed" THEN 1 ELSE 0
  BY DEF SessionsInv, CaptureConsumedOnce
<1>2. old.status # "consumed"
  BY DEF OverBy, EndSession, FinalizeTimeout, RecoverCapture, FinalizeCapture,
         ConsumeVerification, DiscardCapture, AwaitsResult, CanConsume
<1>3. \E row \in {Ended(old, "closed"), Ended(old, "discarded"), Settled(old, "closed"),
                  Measured(old, "closed"), Measured(old, "complete"), Consumed(old)} :
        sessions' = [sessions EXCEPT ![s] = row]
  <2>1. CASE EndSession(s)
    BY <2>1 DEF EndSession, Ended
  <2>2. CASE FinalizeTimeout(s)
    BY <2>2 DEF FinalizeTimeout, Settled
  <2>3. CASE RecoverCapture(s)
    BY <2>3 DEF RecoverCapture, Measured
  <2>4. CASE \E interrupted \in BOOLEAN : FinalizeCapture(s, interrupted)
    BY <2>4 DEF FinalizeCapture, Measured
  <2>5. CASE ConsumeVerification(s)
    BY <2>5 DEF ConsumeVerification, Consumed
  <2>6. CASE DiscardCapture(s)
    BY <2>6 DEF DiscardCapture, Ended
  <2>. QED  BY <2>1, <2>2, <2>3, <2>4, <2>5, <2>6 DEF OverBy
<1>. HIDE DEF old
<1>4. \A row \in {Ended(old, "closed"), Ended(old, "discarded"), Settled(old, "closed"),
                  Measured(old, "closed"), Measured(old, "complete"), Consumed(old)} :
        row \in Session /\ Over(old, row)
  BY <1>1, <1>2, RowsOver
<1>. QED  BY <1>3, <1>4 DEF old

LEMMA OverStep ==
  ASSUME Parts, NEW s \in DOMAIN sessions, OverBy(s)
  PROVE  Parts'
<1>0. PeopleInv /\ BooksInv /\ KegsInv /\ CalsInv /\ SessionsInv /\ PoursInv /\ FitInv
  BY SMTT(40) DEF Parts
<1>1. UNCHANGED <<people, balance, ledger, rate, kegs, cals, pours>>
  BY DEF OverBy, EndSession, FinalizeTimeout, RecoverCapture, FinalizeCapture,
         ConsumeVerification, DiscardCapture, accounts
<1>2. CalsInv' /\ CalsKeep /\ ActiveCal' = ActiveCal
  BY <1>0, <1>1, SameCals
<1>3. KegsInv' /\ OpenKeg' = OpenKeg
  BY <1>0, <1>1, SameKegs
<1>4. PICK row \in Session : Over(sessions[s], row) /\ sessions' = [sessions EXCEPT ![s] = row]
  BY <1>0, OverRow
<1>5. SessionsInv' /\ SessionsKeep /\ \A t \in DOMAIN sessions' : FitSession(t)'
  BY <1>0, <1>2, <1>3, <1>4, SessionOver
<1>6. BooksInv' /\ PoursInv' /\ PoursKeep /\ DOMAIN pours' = DOMAIN pours
  BY <1>0, <1>1, SameBooks
<1>7. FitInv'
  BY <1>0, <1>2, <1>5, <1>6, FitKept
<1>. QED  BY <1>0, <1>1, <1>2, <1>3, <1>5, <1>6, <1>7, SamePeople DEF Parts

LEMMA ConsumeStep ==
  ASSUME Parts, NEW s \in DOMAIN sessions, NEW ml \in Masses, NEW included \in BOOLEAN,
         ConsumeCalibration(s, ml, included)
  PROVE  Parts'
<1>0. PeopleInv /\ BooksInv /\ KegsInv /\ CalsInv /\ SessionsInv /\ PoursInv /\ FitInv
  BY DEF Parts
<1>. DEFINE c == sessions[s].cal
            old == sessions[s]
<1>1. /\ UNCHANGED <<people, balance, ledger, rate, kegs, pours>>
      /\ old.status = "complete" /\ cals[c].status = "draft"
      /\ cals' = [cals EXCEPT ![c] = WithSample(@, sessions[s].ordinal, ml, included)]
  BY DEF ConsumeCalibration, CanConsume, accounts
<1>2. CalsInv' /\ CalsKeep /\ ActiveCal' = ActiveCal
  <2>1. CASE c \in DOMAIN cals
    <3>. HIDE DEF c
    <3>. QED  BY <1>0, <1>1, <2>1, SampleAdded
  <2>2. CASE c \notin DOMAIN cals
    <3>1. cals' = cals
      <4>1. cals \in Seq(Calibration)
        BY <1>0 DEF CalsInv
      <4>. HIDE DEF c
      <4>. QED  BY <1>1, <2>2, <4>1
    <3>. QED  BY <1>0, <3>1, SameCals
  <2>. QED  BY <2>1, <2>2
<1>3. KegsInv' /\ OpenKeg' = OpenKeg
  BY <1>0, <1>1, SameKegs
<1>4. Consumed(old) \in Session /\ Over(old, Consumed(old))
  <2>1. /\ old \in Session /\ old.made = IF old.status = "consumed" THEN 1 ELSE 0
    BY <1>0 DEF SessionsInv, CaptureConsumedOnce
  <2>2. old.status # "consumed"
    BY <1>1
  <2>. HIDE DEF old
  <2>. QED  BY <2>1, <2>2, RowsOver
<1>5. sessions' = [sessions EXCEPT ![s] = Consumed(old)]
  BY DEF ConsumeCalibration, Consumed
<1>6. SessionsInv' /\ SessionsKeep /\ \A t \in DOMAIN sessions' : FitSession(t)'
  BY <1>0, <1>2, <1>3, <1>4, <1>5, SessionOver
<1>7. BooksInv' /\ PoursInv' /\ PoursKeep /\ DOMAIN pours' = DOMAIN pours
  BY <1>0, <1>1, SameBooks
<1>8. FitInv'
  BY <1>0, <1>2, <1>6, <1>7, FitKept
<1>. QED  BY <1>0, <1>1, <1>2, <1>3, <1>6, <1>7, <1>8, SamePeople DEF Parts

(* A new pour: of an unknown person, or charged to the one it is of. *)
PoursBy(row) ==
  /\ row \in PourRow /\ PourOf(row)
  /\ row.payer \in {NoOne, row.who} /\ (row.payer = NoOne) = (row.cents = 0)
  /\ AddPour(row)

LEMMA PourStep ==
  ASSUME Parts, UNCHANGED <<people, rate, kegs, cals>>, NEW row, PoursBy(row),
         SessionsInv' /\ SessionsKeep, \A t \in DOMAIN sessions' : FitSession(t)',
         row.session # 0 => sessions'[row.session].settled
  PROVE  Parts'
<1>0. PeopleInv /\ BooksInv /\ KegsInv /\ CalsInv /\ SessionsInv /\ PoursInv /\ FitInv
  BY DEF Parts
<1>1. CalsInv' /\ CalsKeep /\ KegsInv'
  BY <1>0, SameCals, SameKegs
<1>2. BooksInv' /\ PoursInv' /\ pours \in Seq(PourRow) /\ pours' = Append(pours, row)
  BY <1>0, AddPourBooks DEF PoursBy
<1>3. row \in PourRow /\ PourOf(row)
  BY DEF PoursBy
<1>4. FitInv'
  BY <1>0, <1>1, <1>2, <1>3, FitAdded
<1>. QED  BY <1>0, <1>1, <1>2, <1>4, SamePeople DEF Parts

LEMMA SettlingPour ==
  ASSUME Parts, NEW s \in DOMAIN sessions, NEW status \in {"complete", "closed"},
         sessions[s].purpose = "pour", sessions[s].status \in {"active", "closed"},
         sessions[s].settled = FALSE, UNCHANGED <<people, rate, kegs, cals>>,
         sessions' = [sessions EXCEPT ![s] = Settled(sessions[s], status)],
         NEW who \in People \cup {NoOne}, NEW row,
         row \in {Pour(s, who, sessions[s].keg, sessions[s].cal),
                  Billed(Pour(s, who, sessions[s].keg, sessions[s].cal))},
         AddPour(row)
  PROVE  Parts'
<1>0. PeopleInv /\ BooksInv /\ KegsInv /\ CalsInv /\ SessionsInv /\ PoursInv /\ FitInv
  BY DEF Parts
<1>. DEFINE old == sessions[s]
            plain == Pour(s, who, old.keg, old.cal)
<1>1. /\ s \in Nat /\ old \in Session /\ old.made = IF old.status = "consumed" THEN 1 ELSE 0
  BY <1>0 DEF SessionsInv, CaptureConsumedOnce
<1>2. CalsInv' /\ CalsKeep /\ ActiveCal' = ActiveCal /\ OpenKeg' = OpenKeg
  BY <1>0, SameCals, SameKegs
<1>3. /\ Settled(old, status) \in Session /\ Over(old, Settled(old, status))
      /\ Settled(old, status).settled
  <2>1. old.status # "consumed" /\ status \in {"closed", "complete", "discarded"}
    OBVIOUS
  <2>. HIDE DEF old
  <2>. QED  BY <1>1, <2>1, RowsOver
<1>4. /\ SessionsInv' /\ SessionsKeep /\ \A t \in DOMAIN sessions' : FitSession(t)'
      /\ sessions'[s] = Settled(old, status)
  BY <1>0, <1>2, <1>3, SessionOver
<1>5. old.keg \in Nat /\ old.cal \in Nat
  <2>. HIDE DEF old
  <2>. QED  BY <1>1 DEF Session
<1>6. old.cal = 0 \/ old.cal \in DOMAIN cals
  BY <1>0, FitParts DEF FitSession
<1>7. /\ plain \in PourRow /\ plain.session = s /\ plain.keg = old.keg /\ plain.cal = old.cal
      /\ plain.ml = ToMl(old.cal) /\ plain.payer = NoOne /\ plain.cents = 0
  <2>. HIDE DEF old
  <2>. QED  BY <1>0, <1>1, <1>5, <1>6, PourIs, SMTT(40)
<1>8. row \in {plain, Billed(plain)}
  OBVIOUS
<1>. HIDE DEF plain
<1>9. /\ row \in PourRow /\ row.session = s /\ row.keg = old.keg /\ row.cal = old.cal
      /\ row.ml = ToMl(old.cal)
      /\ row.payer \in {NoOne, row.who} /\ (row.payer = NoOne) = (row.cents = 0)
  <2>1. CASE row = plain
    BY <1>7, <2>1
  <2>2. CASE row = Billed(plain)
    BY <1>0, <1>7, <2>2, BilledIs
  <2>. QED  BY <1>8, <2>1, <2>2
<1>10. PoursBy(row)
  BY <1>9 DEF PoursBy, PourOf
<1>11. sessions'[row.session].settled
  BY <1>3, <1>4, <1>9
<1>. QED  BY <1>4, <1>10, <1>11, PourStep

LEMMA UnattributedStep ==
  ASSUME Parts, FinalizeUnattributed
  PROVE  Parts'
<1>0. PeopleInv /\ BooksInv /\ KegsInv /\ CalsInv /\ SessionsInv /\ PoursInv /\ FitInv
  BY DEF Parts
<1>. DEFINE row == Pour(0, NoOne, OpenKeg, ActiveCal)
<1>1. UNCHANGED <<people, rate, kegs, cals, sessions>> /\ AddPour(row)
  BY DEF FinalizeUnattributed
<1>2. OpenKeg \in Nat /\ ActiveCal \in Nat /\ (ActiveCal = 0 \/ ActiveCal \in DOMAIN cals)
  BY <1>0, OpenKegIs, OpenOfType, ActiveCalIs, ActiveOfType DEF KegsInv, CalsInv
<1>3. row \in PourRow /\ row.session = 0 /\ row.payer = NoOne /\ row.cents = 0
  <2>1. 0 \in Nat /\ NoOne \in People \cup {NoOne}
    OBVIOUS
  <2>. QED  BY <1>0, <1>2, <2>1, PourIs
<1>4. PoursBy(row)
  <2>. HIDE DEF row
  <2>. QED  BY <1>1, <1>3 DEF PoursBy, PourOf
<1>5. SessionsInv' /\ SessionsKeep /\ \A t \in DOMAIN sessions' : FitSession(t)'
  BY <1>0, <1>1, SameCals, SameKegs, SameSessions
<1>. HIDE DEF row
<1>. QED  BY <1>1, <1>3, <1>4, <1>5, PourStep

LEMMA SessionsStep ==
  ASSUME Parts, Sessions
  PROVE  Parts'
<1>0. PeopleInv /\ BooksInv /\ KegsInv /\ CalsInv /\ SessionsInv /\ PoursInv /\ FitInv
  BY DEF Parts
<1>1. OpenKeg \in Nat /\ ActiveCal \in Nat
  BY <1>0, OpenKegIs, OpenOfType, ActiveCalIs, ActiveOfType DEF KegsInv, CalsInv
<1>2. ASSUME NEW who \in People \cup {NoOne}, ArmPour(who) \/ ArmVerification PROVE Parts'
  <2>1. UNCHANGED <<people, balance, ledger, rate, kegs, cals, pours>>
    BY <1>2 DEF ArmPour, ArmVerification, Arm, accounts
  <2>2. SessionsInv' /\ SessionsKeep /\ \A s \in DOMAIN sessions' : FitSession(s)'
    <3>1. CASE ArmPour(who)
      BY <1>0, <1>1, <3>1, ArmStep DEF ArmPour
    <3>2. CASE ArmVerification
      BY <1>0, <1>1, <3>2, ArmStep DEF ArmVerification
    <3>. QED  BY <1>2, <3>1, <3>2
  <2>3. CalsInv' /\ CalsKeep /\ KegsInv'
    BY <1>0, <2>1, SameCals, SameKegs
  <2>4. BooksInv' /\ PoursInv' /\ PoursKeep /\ DOMAIN pours' = DOMAIN pours
    BY <1>0, <2>1, SameBooks
  <2>5. FitInv'
    BY <1>0, <2>2, <2>3, <2>4, FitKept
  <2>. QED  BY <1>0, <2>1, <2>2, <2>3, <2>4, <2>5, SamePeople DEF Parts
<1>3. ASSUME NEW s \in DOMAIN sessions PROVE sessions[s] \in Session
  BY <1>0 DEF SessionsInv
<1>4. ASSUME NEW s \in DOMAIN sessions, FinalizePour(s) PROVE Parts'
  <2>1. /\ UNCHANGED <<people, rate, kegs, cals>>
        /\ sessions[s].purpose = "pour" /\ sessions[s].status \in {"active", "closed"}
        /\ sessions' = [sessions EXCEPT ![s] = Settled(sessions[s], "complete")]
        /\ AddPour(Billed(Pour(s, sessions[s].who, sessions[s].keg, sessions[s].cal)))
    BY <1>4 DEF FinalizePour, AwaitsResult, BoundContext, Settled
  <2>2. sessions[s].settled = FALSE /\ sessions[s].who \in People \cup {NoOne}
    <3>1. ~sessions[s].settled
      BY <1>4 DEF FinalizePour, AwaitsResult
    <3>2. sessions[s].settled \in BOOLEAN /\ sessions[s].who \in People \cup {NoOne}
      BY <1>3 DEF Session
    <3>. QED  BY <3>1, <3>2
  <2>. QED  BY <2>1, <2>2, SettlingPour
<1>5. ASSUME NEW s \in DOMAIN sessions, RecoverPour(s) PROVE Parts'
  <2>1. /\ UNCHANGED <<people, rate, kegs, cals>>
        /\ sessions[s].purpose = "pour" /\ sessions[s].status \in {"active", "closed"}
        /\ sessions' = [sessions EXCEPT ![s] = Settled(sessions[s], "closed")]
        /\ AddPour(Pour(s, NoOne, sessions[s].keg, sessions[s].cal))
    BY <1>5 DEF RecoverPour, Settled
  <2>2. sessions[s].settled = FALSE /\ NoOne \in People \cup {NoOne}
    <3>1. ~sessions[s].settled
      BY <1>0, <1>5, FitParts DEF RecoverPour, FitSession
    <3>2. sessions[s].settled \in BOOLEAN
      BY <1>3 DEF Session
    <3>. QED  BY <3>1, <3>2
  <2>. QED  BY <2>1, <2>2, SettlingPour
<1>6. ASSUME NEW s \in DOMAIN sessions, OverBy(s) PROVE Parts'
  BY <1>6, OverStep
<1>7. ASSUME NEW s \in DOMAIN sessions, NEW ml \in Masses, NEW included \in BOOLEAN,
             ConsumeCalibration(s, ml, included)
      PROVE  Parts'
  BY <1>7, ConsumeStep
<1>8. CASE FinalizeUnattributed
  BY <1>8, UnattributedStep
<1>9. CASE ArmVerification
  <2>1. NoOne \in People \cup {NoOne}
    OBVIOUS
  <2>. QED  BY <1>2, <1>9, <2>1
<1>. QED  BY <1>2, <1>4, <1>5, <1>6, <1>7, <1>8, <1>9 DEF Sessions, OverBy

-------------------------------------------------------------------------------
(***************************************************************************)
(* Theorems.                                                               *)
(***************************************************************************)
LEMMA InitParts == Init => Parts
<1>. SUFFICES ASSUME Init PROVE Parts
  OBVIOUS
<1>1. /\ people \in [People -> {"none", "active"}]
      /\ balance = [p \in People |-> 0]
      /\ ledger = [p \in People |-> [i \in 0..MaxRows |-> 0]]
      /\ rate \in Rates \cup {0}
      /\ kegs \in {<< >>, <<NewKeg>>}
      /\ cals \in {<< >>, <<NewCalibration>>}
      /\ sessions = << >> /\ pours = << >>
  BY DEF Init
<1>2. PeopleInv
  BY <1>1 DEF PeopleInv
<1>3. BooksInv
  <2>. DEFINE row == [i \in 0..MaxRows |-> 0]
  <2>1. Total(row, MaxRows) = 0
    <3>. DEFINE S == {n \in Nat : n <= MaxRows => Total(row, n) = 0}
    <3>1. 0 \in S
      BY TotalStep
    <3>2. ASSUME NEW n \in Nat, n \in S PROVE n + 1 \in S
      <4>1. Total(row, n + 1) = Total(row, n) + row[n + 1]
        BY TotalStep
      <4>2. n + 1 <= MaxRows => row[n + 1] = 0 /\ Total(row, n) = 0
        BY <3>2
      <4>. HIDE DEF row
      <4>. QED  BY <4>1, <4>2
    <3>3. Nat \subseteq S
      <4>. HIDE DEF S
      <4>. QED  BY <3>1, <3>2, Induct
    <3>4. MaxRows \in Nat
      OBVIOUS
    <3>. QED  BY <3>3, <3>4
  <2>2. row \in [0..MaxRows -> Int] /\ row[0] = 0 /\ \A i \in 0..MaxRows : row[i] = 0
    OBVIOUS
  <2>. HIDE DEF row
  <2>3. /\ balance \in [People -> Int] /\ ledger \in [People -> [0..MaxRows -> Int]]
        /\ \A p \in People : balance[p] = 0 /\ ledger[p] = row
    BY <1>1, <2>2 DEF row
  <2>4. BooksMatch(balance, ledger)
    BY <2>1, <2>2, <2>3 DEF BooksMatch
  <2>5. NothingBookedAhead
    BY <2>2, <2>3 DEF NothingBookedAhead
  <2>6. ChargeFollowsPour
    BY <1>1 DEF ChargeFollowsPour
  <2>. QED  BY <2>4, <2>5, <2>6 DEF BooksInv
<1>4. KegsInv
  <2>. DEFINE k == NewKeg
  <2>1. k \in Keg
    BY DEF NewKeg, Keg
  <2>2. kegs = << >> \/ kegs = <<k>>
    BY <1>1
  <2>. HIDE DEF k
  <2>3. kegs \in Seq(Keg) /\ \A i \in DOMAIN kegs : i = 1 /\ kegs[i] = k
    BY <2>1, <2>2, NoneOrOne
  <2>. QED  BY <2>3 DEF KegsInv
<1>5. CalsInv
  <2>. DEFINE d == NewCalibration
  <2>1. d \in Calibration /\ d.status = "draft" /\ d.factor = NoFactor /\ d = Flagged(d)
    BY NewIsFresh
  <2>2. cals = << >> \/ cals = <<d>>
    BY <1>1
  <2>. HIDE DEF d
  <2>3. cals \in Seq(Calibration) /\ \A k \in DOMAIN cals : k = 1 /\ cals[k] = d
    BY <2>1, <2>2, NoneOrOne
  <2>. QED  BY <2>1, <2>3 DEF CalsInv, ActiveFactorFromSamples, FlagsAreFresh
<1>6. SessionsInv /\ PoursInv
  BY <1>1 DEF SessionsInv, PoursInv, CaptureConsumedOnce
<1>7. FitInv
  BY <1>1 DEF FitInv, SessionsSettleOnce, PoursKeepTheirContext,
              ActiveSessionUsesCurrentContext, LatePourStaysOnItsKeg
<1>. QED  BY <1>2, <1>3, <1>4, <1>5, <1>6, <1>7 DEF Parts

LEMMA NextParts == Parts /\ [Next]_vars => Parts'
<1>. SUFFICES ASSUME Parts, [Next]_vars PROVE Parts'
  OBVIOUS
<1>1. CASE Next
  BY <1>1, AccountsStep, StockStep, CalibrationsStep, SessionsStep DEF Next
<1>2. CASE UNCHANGED vars
  <2>1. PeopleInv /\ BooksInv /\ KegsInv /\ CalsInv /\ SessionsInv /\ PoursInv /\ FitInv
    BY DEF Parts
  <2>2. UNCHANGED <<people, rate, balance, ledger, kegs, cals, sessions, pours>>
    BY <1>2 DEF vars, accounts
  <2>. QED  BY <2>1, <2>2, SamePeople, SameBooks, QuietFit DEF Parts
<1>. QED  BY <1>1, <1>2

(* The rows of the database fit together after any sequence of methods, in *)
(* any order: types, accounts, one keg on tap, one calibration in use, and *)
(* every pour and capture in the context of its arming (repository.py).    *)
THEOREM LedgerInvariant == Spec => []Inv
<1>1. Init => Inv
  BY InitParts, PartsGiveInv
<1>2. Inv /\ [Next]_vars => Inv'
  BY InvHasParts, NextParts, PartsGiveInvNext
<1>. QED  BY <1>1, <1>2, PTL DEF Spec

(* A balance is always the sum of its entries, and a charged pour is on    *)
(* the account of its person, whole and nowhere else (repository.py        *)
(* _charge_pour, reassign_pour).                                           *)
THEOREM ChargesAlwaysBooked == Spec => []ChargesAreBooked
<1>1. Inv => ChargesAreBooked
  BY DEF Inv
<1>. QED  BY <1>1, LedgerInvariant, PTL

(* A pour stays with the keg and the calibration its session was armed     *)
(* with, whenever its result comes (repository.py finalize_device_result). *)
THEOREM PoursAlwaysKeepTheirContext == Spec => []PoursKeepTheirContext
<1>1. Inv => PoursKeepTheirContext
  BY DEF Inv
<1>. QED  BY <1>1, LedgerInvariant, PTL

(* A capture is consumed at most once (repository.py                       *)
(* consume_calibration_capture).                                           *)
THEOREM CapturesConsumedOnce == Spec => []CaptureConsumedOnce
<1>1. Inv => CaptureConsumedOnce
  BY DEF Inv
<1>. QED  BY <1>1, LedgerInvariant, PTL

(* Flags that are up to date never mark half of the samples included. *)
LEMMA FewFlagged ==
  ASSUME NEW c \in Calibration, c = Flagged(c),
         {o \in Ordinals : c.samples[o].flag} # {}
  PROVE  2 * Cardinality({o \in Ordinals : c.samples[o].flag}) < Cardinality(Included(c))
<1>. DEFINE I == Included(c)
            volumes == [o \in I |-> c.samples[o].ml]
            marked == {o \in Ordinals : c.samples[o].flag}
<1>1. c.samples = FlaggedSamples(c)
  BY FlaggedIs
<1>2. \A o \in Ordinals : c.samples[o] =
        IF o \in Samples(c) THEN [c.samples[o] EXCEPT !.flag = o \in Marked(c)] ELSE NoSample
  <2>1. FlaggedSamples(c) = [o \in Ordinals |->
     IF o \in Samples(c) THEN [c.samples[o] EXCEPT !.flag = o \in Marked(c)] ELSE NoSample]
    BY DEF FlaggedSamples
  <2>. QED  BY <1>1, <2>1
<1>3. marked \subseteq Marked(c)
  <2>. SUFFICES ASSUME NEW o \in Ordinals, c.samples[o].flag PROVE o \in Marked(c)
    OBVIOUS
  <2>1. c.samples[o] \in Sample
    BY IncludedSamples
  <2>2. o \in Samples(c)
    <3>1. c.samples[o] # NoSample
      BY DEF NoSample
    <3>. QED  BY <1>2, <3>1
  <2>3. c.samples[o] = [c.samples[o] EXCEPT !.flag = o \in Marked(c)]
    BY <1>2, <2>2
  <2>. QED  BY <2>1, <2>3 DEF Sample
<1>4. I # {} /\ Marked(c) = Outliers(volumes)
  <2>1. Cardinality(I) >= 3 /\ Marked(c) = Flags(c)
    <3>1. Cardinality(I) \in Nat
      BY IncludedSamples
    <3>. QED  BY <1>3, <3>1 DEF Marked
  <2>2. Flags(c) = Outliers(volumes)
    BY DEF Flags
  <2>3. I # {}
    BY <2>1, IncludedSamples
  <2>. HIDE DEF I, volumes
  <2>. QED  BY <2>1, <2>2, <2>3
<1>5. volumes \in [I -> Nat \ {0}]
  <2>. SUFFICES ASSUME NEW o \in I PROVE c.samples[o].ml \in Nat \ {0}
    OBVIOUS
  <2>1. o \in Samples(c) /\ c.samples[o] \in Sample
    BY IncludedSamples
  <2>2. c.samples[o].ml # 0 /\ c.samples[o].ml \in Nat
    BY <2>1, SampleFields DEF Samples
  <2>. QED  BY <2>2
<1>6. IsFiniteSet(I) /\ Cardinality(I) \in Nat
  BY IncludedSamples
<1>. HIDE DEF I, volumes, marked
<1>7. 2 * Cardinality(Outliers(volumes)) < Cardinality(I)
  BY <1>4, <1>5, <1>6, OutliersAreFew
<1>8. Outliers(volumes) \subseteq I
  BY <1>5 DEF Outliers
<1>9. IsFiniteSet(Outliers(volumes))
  BY <1>6, <1>8, FS_Subset
<1>10. /\ Cardinality(marked) \in Nat /\ Cardinality(Outliers(volumes)) \in Nat
       /\ Cardinality(marked) <= Cardinality(Outliers(volumes))
  <2>1. marked \subseteq Outliers(volumes)
    BY <1>3, <1>4
  <2>. QED  BY <1>9, <2>1, FS_Subset, FS_CardinalityType
<1>11. 2 * Cardinality(marked) < Cardinality(I)
  BY <1>6, <1>7, <1>10
<1>. QED  BY <1>11 DEF marked, I

(* The factor in use and the flags shown are those of the samples of today,*)
(* and the flags never discredit most of them (repository.py               *)
(* activate_calibration, _update_outlier_flags).                           *)
THEOREM CalibrationAlwaysFollowsSamples == Spec => []CalibrationFollowsSamples
<1>1. Inv => CalibrationFollowsSamples
  <2>. SUFFICES ASSUME Inv PROVE CalibrationFollowsSamples
    OBVIOUS
  <2>1. cals \in Seq(Calibration) /\ ActiveFactorFromSamples /\ FlagsAreFresh
    BY DEF Inv, TypeOK
  <2>2. FewAreFlagged
    <3>. SUFFICES ASSUME NEW c \in DOMAIN cals,
                         {o \in Ordinals : cals[c].samples[o].flag} # {}
                  PROVE  2 * Cardinality({o \in Ordinals : cals[c].samples[o].flag})
                           < Cardinality(Included(cals[c]))
      BY DEF FewAreFlagged
    <3>1. cals[c] \in Calibration /\ cals[c] = Flagged(cals[c])
      BY <2>1 DEF FlagsAreFresh
    <3>. QED  BY <3>1, FewFlagged
  <2>. QED  BY <2>1, <2>2 DEF CalibrationFollowsSamples
<1>. QED  BY <1>1, LedgerInvariant, PTL

LEMMA CorrectionHolds ==
  ASSUME Parts, NEW percent \in Percents, SetRemaining(percent)
  PROVE  Remaining(OpenKeg)' = Target(percent)
<1>0. KegsInv /\ PoursInv
  BY DEF Parts
<1>1. PICK k : k = OpenKeg
  OBVIOUS
<1>2. PICK amount : amount = Correction(k, percent)
  OBVIOUS
<1>3. k # 0 /\ kegs' = [kegs EXCEPT ![k].adjusted = @ + amount] /\ pours' = pours
  BY <1>1, <1>2 DEF SetRemaining
<1>4. k \in DOMAIN kegs
  BY <1>0, <1>1, <1>3, OpenKegIs, OpenOfType DEF KegsInv
<1>5. amount \in Int /\ Target(percent) \in Int
  BY <1>0, <1>2, <1>4, CorrectionType
<1>6. /\ OpenKeg' = k /\ kegs[k].adjusted \in Int
      /\ kegs'[k].adjusted = kegs[k].adjusted + amount
  BY <1>0, <1>1, <1>3, <1>4, <1>5, StockAdjusted
<1>7. PICK poured : poured = PouredFrom(k) /\ poured \in Int
  BY <1>0, PouredType
<1>8. PouredFrom(OpenKeg)' = poured
  BY <1>3, <1>6, <1>7 DEF PouredFrom
<1>9. Remaining(OpenKeg)' = KegSize - poured + (kegs[k].adjusted + amount)
  BY <1>6, <1>8 DEF Remaining
<1>10. amount = Target(percent) - (KegSize - poured + kegs[k].adjusted)
  BY <1>2, <1>7 DEF Correction, Remaining
<1>11. KegSize \in Int
  OBVIOUS
<1>. QED  BY <1>5, <1>6, <1>7, <1>9, <1>10, <1>11

(* After a correction the stock is what was entered (repository.py         *)
(* set_current_keg_remaining_percent, inventory.py calculate_inventory).   *)
THEOREM StockAlwaysAsCorrected == Spec => RemainingAsCorrected
<1>1. Inv => \A percent \in Percents : SetRemaining(percent) => Remaining(OpenKeg)' = Target(percent)
  BY InvHasParts, CorrectionHolds
<1>. QED  BY <1>1, LedgerInvariant, PTL DEF Spec, RemainingAsCorrected
===============================================================================
