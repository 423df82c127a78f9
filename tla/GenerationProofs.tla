-------------------------- MODULE GenerationProofs --------------------------
(***************************************************************************)
(* What the generator promises of its maps, for any size, any proportions  *)
(* and any draws.                                                          *)
(***************************************************************************)
EXTENDS Generation, FiniteSetTheorems, SequenceTheorems, TLAPS

(* The rank of an element of a finite set for a strict total order R.      *)
Avant(S, R, x) == {y \in S : <<y, x>> \in R}
Total(S, R) ==
  /\ \A x \in S : <<x, x>> \notin R
  /\ \A x, y, z \in S : <<x, y>> \in R /\ <<y, z>> \in R => <<x, z>> \in R
  /\ \A x, y \in S : x # y => <<x, y>> \in R \/ <<y, x>> \in R

(* What is before an element, and fewer are before one before it.          *)
LEMMA RangCroit ==
  ASSUME NEW S, IsFiniteSet(S), NEW R, Total(S, R)
  PROVE  /\ \A x \in S : Cardinality(Avant(S, R, x)) \in 0 .. Cardinality(S) - 1
         /\ \A x, y \in S : <<x, y>> \in R =>
              Cardinality(Avant(S, R, x)) < Cardinality(Avant(S, R, y))
<1>0. ASSUME NEW x \in S
      PROVE  IsFiniteSet(Avant(S, R, x)) /\ Cardinality(Avant(S, R, x)) \in Nat
  <2>1. Avant(S, R, x) \in SUBSET S
    BY DEF Avant
  <2> QED
    BY <2>1, FS_Subset, FS_CardinalityType
<1>1. ASSUME NEW x \in S
      PROVE  Cardinality(Avant(S, R, x)) \in 0 .. Cardinality(S) - 1
  <2>1. Avant(S, R, x) \in SUBSET (S \ {x})
    BY DEF Avant, Total
  <2>2. IsFiniteSet(S \ {x}) /\ Cardinality(S \ {x}) = Cardinality(S) - 1
    BY FS_RemoveElement
  <2>3. Cardinality(Avant(S, R, x)) <= Cardinality(S \ {x})
    BY <2>1, <2>2, FS_Subset
  <2> QED
    BY <1>0, <2>2, <2>3, FS_CardinalityType
<1>2. ASSUME NEW x \in S, NEW y \in S, <<x, y>> \in R
      PROVE  Cardinality(Avant(S, R, x)) < Cardinality(Avant(S, R, y))
  <2>1. Avant(S, R, x) \cup {x} \in SUBSET Avant(S, R, y) /\ x \notin Avant(S, R, x)
    BY <1>2 DEF Avant, Total
  <2>2. Cardinality(Avant(S, R, x) \cup {x}) = Cardinality(Avant(S, R, x)) + 1
    BY <1>0, <2>1, FS_AddElement
  <2>3. Cardinality(Avant(S, R, x) \cup {x}) <= Cardinality(Avant(S, R, y))
    BY <1>0, <2>1, FS_Subset
  <2> QED
    BY <1>0, <2>2, <2>3
<1> QED
  BY <1>1, <1>2

(* Every rank is taken, by one element.                                    *)
LEMMA RangBijectif ==
  ASSUME NEW S, IsFiniteSet(S), NEW R, Total(S, R)
  PROVE  /\ \A x, y \in S :
              Cardinality(Avant(S, R, x)) = Cardinality(Avant(S, R, y)) => x = y
         /\ \A r \in 0 .. Cardinality(S) - 1 :
              \E x \in S : Cardinality(Avant(S, R, x)) = r
<1> DEFINE rang == [x \in S |-> Cardinality(Avant(S, R, x))]
           T == 0 .. Cardinality(S) - 1
<1>1. /\ \A x \in S : rang[x] \in T /\ rang[x] \in Int
      /\ \A x, y \in S : <<x, y>> \in R => rang[x] < rang[y]
  BY RangCroit, FS_CardinalityType
<1>2. \A x, y \in S : rang[x] = rang[y] => x = y
  <2> SUFFICES ASSUME NEW x \in S, NEW y \in S, rang[x] = rang[y], x # y
               PROVE  FALSE
    OBVIOUS
  <2>1. <<x, y>> \in R \/ <<y, x>> \in R
    BY DEF Total
  <2> HIDE DEF rang
  <2> QED
    BY <1>1, <2>1
<1>3. IsFiniteSet(T) /\ Cardinality(T) = Cardinality(S)
  <2>1. Cardinality(S) \in Nat
    BY FS_CardinalityType
  <2> QED
    BY <2>1, FS_Interval
<1>4. rang \in Injection(S, T)
  <2>1. rang \in [S -> T]
    BY <1>1
  <2> HIDE DEF rang, T
  <2> QED
    BY <1>2, <2>1 DEF Injection, IsInjective
<1>5. rang \in Surjection(S, T)
  BY <1>3, <1>4, FS_Injection
<1>6. \A i \in T : \E x \in S : rang[x] = i
  <2> HIDE DEF rang, T
  <2> QED
    BY <1>5 DEF Surjection
<1> QED
  BY <1>2, <1>6

LEMMA RangAtteint ==
  ASSUME NEW S, IsFiniteSet(S), NEW R, Total(S, R), NEW r \in 0 .. Cardinality(S) - 1
  PROVE  \E x \in S : Cardinality(Avant(S, R, x)) = r
<1>1. \A q \in 0 .. Cardinality(S) - 1 : \E x \in S : Cardinality(Avant(S, R, x)) = q
  BY RangBijectif
<1> QED
  BY <1>1

-----------------------------------------------------------------------------
(* The numbers of a field and the two infinities are ordered.              *)
Reels == Nat \cup {MoinsInf, PlusInf}
LEMMA DessousTotal ==
  /\ \A a \in Reels : ~Dessous(a, a)
  /\ \A a, b, c \in Reels : Dessous(a, b) /\ Dessous(b, c) => Dessous(a, c)
  /\ \A a, b \in Reels : a # b => Dessous(a, b) \/ Dessous(b, a)
  /\ \A a, b \in Reels : Dessous(a, b) => ~Dessous(b, a) /\ a # b
  BY DEF Reels, Dessous, MoinsInf, PlusInf

(* The parts of a field g below a number, and not above it.                *)
Sous(g, v) == {k \in DOMAIN g : Dessous(g[k], v)}
PasPlus(g, v) == {k \in DOMAIN g : ~Dessous(v, g[k])}

(* The entry number i of a field of more than i numbers: no more than i of *)
(* them are below it, and no less than i + 1 are not above.                *)
LEMMA TrieJuste ==
  ASSUME NEW S \in SUBSET Int, IsFiniteSet(S), NEW g \in [S -> Reels],
         NEW i \in 0 .. Cardinality(S) - 1
  PROVE  LET v == Trie(g, i) IN
         /\ v \in {g[k] : k \in S}
         /\ Cardinality(Sous(g, v)) <= i
         /\ Cardinality(PasPlus(g, v)) > i
<1> DEFINE R == {e \in S \X S : \/ Dessous(g[e[1]], g[e[2]])
                                \/ g[e[1]] = g[e[2]] /\ e[1] < e[2]}
           Convient(v) == Cardinality(Sous(g, v)) <= i /\ Cardinality(PasPlus(g, v)) > i
<1>1. \A x, y \in S : <<x, y>> \in R <=> \/ Dessous(g[x], g[y])
                                         \/ g[x] = g[y] /\ x < y
  OBVIOUS
<1>2. Total(S, R)
  <2>1. \A x \in S : x \in Int /\ g[x] \in Reels
    OBVIOUS
  <2>2. ASSUME NEW x \in S
        PROVE  <<x, x>> \notin R
    <3>1. ~(x < x) /\ ~Dessous(g[x], g[x])
      BY <2>1, DessousTotal
    <3> HIDE DEF R
    <3> QED
      BY <1>1, <3>1
  <2>3. ASSUME NEW x \in S, NEW y \in S, NEW z \in S, <<x, y>> \in R, <<y, z>> \in R
        PROVE  <<x, z>> \in R
    <3>1. x < y /\ y < z => x < z
      BY <2>1
    <3>2. Dessous(g[x], g[y]) /\ Dessous(g[y], g[z]) => Dessous(g[x], g[z])
      BY <2>1, DessousTotal
    <3> HIDE DEF R
    <3> QED
      BY <1>1, <2>3, <3>1, <3>2
  <2>4. ASSUME NEW x \in S, NEW y \in S, x # y
        PROVE  <<x, y>> \in R \/ <<y, x>> \in R
    <3>1. x < y \/ y < x
      BY <2>1, <2>4
    <3>2. g[x] # g[y] => Dessous(g[x], g[y]) \/ Dessous(g[y], g[x])
      BY <2>1, DessousTotal
    <3> HIDE DEF R
    <3> QED
      BY <1>1, <3>1, <3>2
  <2> HIDE DEF R
  <2> QED
    BY <2>2, <2>3, <2>4 DEF Total
<1>3. PICK x \in S : Cardinality(Avant(S, R, x)) = i
  <2> HIDE DEF R, Convient
  <2> QED
    BY <1>2, RangAtteint
<1>4. Convient(g[x])
  <2>1. Sous(g, g[x]) \in SUBSET Avant(S, R, x)
    BY <1>1 DEF Sous, Avant
  <2>2. Avant(S, R, x) \cup {x} \in SUBSET PasPlus(g, g[x])
    <3>1. \A y \in S : Dessous(g[y], g[x]) => ~Dessous(g[x], g[y])
      BY DessousTotal
    <3>2. \A y \in S : g[y] = g[x] => ~Dessous(g[x], g[y])
      BY DessousTotal
    <3>3. DOMAIN g = S
      OBVIOUS
    <3> HIDE DEF R
    <3>4. \A y \in Avant(S, R, x) : y \in S /\ ~Dessous(g[x], g[y])
      BY <1>1, <3>1, <3>2 DEF Avant
    <3>5. ~Dessous(g[x], g[x])
      BY <3>2
    <3> QED
      BY <3>3, <3>4, <3>5 DEF PasPlus
  <2>3. x \notin Avant(S, R, x)
    BY <1>2 DEF Avant, Total
  <2>4. Avant(S, R, x) \in SUBSET S /\ PasPlus(g, g[x]) \in SUBSET S
    BY DEF Avant, PasPlus
  <2> HIDE DEF R
  <2>5. IsFiniteSet(Avant(S, R, x)) /\ IsFiniteSet(PasPlus(g, g[x]))
    BY <2>4, FS_Subset
  <2>6. Cardinality(Sous(g, g[x])) <= i
    BY <1>3, <2>1, <2>5, FS_Subset
  <2>7. Cardinality(Avant(S, R, x) \cup {x}) = i + 1
    BY <1>3, <2>3, <2>5, FS_AddElement
  <2>8. i + 1 <= Cardinality(PasPlus(g, g[x]))
    BY <2>2, <2>5, <2>7, FS_Subset
  <2>9. Cardinality(PasPlus(g, g[x])) \in Nat
    BY <2>5, FS_CardinalityType
  <2> QED
    BY <2>6, <2>8, <2>9
<1>5. Trie(g, i) = CHOOSE v \in {g[k] : k \in S} : Convient(v)
  BY DEF Trie, Range, Sous, PasPlus
<1> HIDE DEF Convient
<1>6. \E v \in {g[k] : k \in S} : Convient(v)
  BY <1>4
<1>7. Trie(g, i) \in {g[k] : k \in S} /\ Convient(Trie(g, i))
  BY <1>5, <1>6
<1> QED
  BY <1>7 DEF Convient

-----------------------------------------------------------------------------
(* Products by a positive number, and the quotient of a division by it.    *)
LEMMA Produit ==
  ASSUME NEW d \in Nat \ {0}, NEW a \in Int, NEW b \in Int
  PROVE  /\ a * d \in Int /\ (a + 1) * d = a * d + d /\ (a + 2) * d = a * d + d + d
         /\ (a - 1) * d = a * d - d
         /\ a <= b => a * d <= b * d
         /\ a * d < b * d => a < b
<1>1. a * d \in Int /\ (a + 1) * d = a * d + d /\ (a - 1) * d = a * d - d
      /\ (a + 2) * d = a * d + d + d
  BY Z3
<1>2. ASSUME NEW x \in Int, NEW y \in Int, x <= y PROVE x * d <= y * d
  <2>1. y - x \in Nat
    BY <1>2
  <2>2. (y - x) * d >= 0 /\ (y - x) * d = y * d - x * d /\ x * d \in Int /\ y * d \in Int
    BY <2>1, Z3
  <2> QED
    BY <2>2
<1>3. ASSUME a * d < b * d PROVE a < b
  <2>1. b <= a => b * d <= a * d
    BY <1>2
  <2>2. b * d \in Int
    BY Z3
  <2> QED
    BY <1>1, <1>3, <2>1, <2>2
<1> QED
  BY <1>1, <1>2, <1>3

LEMMA Quotient ==
  ASSUME NEW d \in Nat \ {0}, NEW a \in Int
  PROVE  /\ a \div d \in Int
         /\ (a \div d) * d <= a
         /\ a < (a \div d + 1) * d
<1>1. a % d \in 0 .. d - 1
  BY Z3
<1>2. a \div d \in Int
  BY Z3
<1>3. a = d * (a \div d) + (a % d)
  BY Z3
<1>4. d * (a \div d) = (a \div d) * d
  BY <1>2, Z3
<1>5. (a \div d + 1) * d = (a \div d) * d + d /\ (a \div d) * d \in Int
  BY <1>2, Produit
<1> QED
  BY <1>1, <1>2, <1>3, <1>4, <1>5

(* The rank is the quotient rounded down, or the one before when the       *)
(* quotient is exact and the proportion is not.                            *)
LEMMA EntiersJustes ==
  ASSUME NEW a \in Int, NEW d \in Nat \ {0}, NEW exact, NEW i \in Entiers(a, d, exact)
  PROVE  /\ i \in Int /\ i * d <= a
         /\ a < (i + 1) * d \/ (~exact /\ a = (i + 1) * d)
<1> DEFINE e == a \div d
<1>1. e \in Int /\ e * d <= a /\ a < (e + 1) * d
  BY Quotient
<1>2. i = e \/ (i = e - 1 /\ ~exact /\ ~(e * d < a))
  BY DEF Entiers
<1>3. e * d \in Int /\ (e - 1) * d = e * d - d
  BY <1>1, Produit
<1> HIDE DEF e
<1>4. CASE i = e
  BY <1>1, <1>4
<1>5. CASE i = e - 1 /\ ~exact /\ ~(e * d < a)
  <2>1. i + 1 = e /\ a = e * d
    BY <1>1, <1>3, <1>5
  <2> QED
    BY <1>1, <1>3, <1>5, <2>1
<1> QED
  BY <1>2, <1>4, <1>5

(* What a field has below its quantile: the proportion, short of less than *)
(* one number, or two when the rank fell below an integer.                 *)
LEMMA QuantileJuste ==
  ASSUME NEW S \in SUBSET Int, IsFiniteSet(S), NEW g \in [S -> Reels],
         NEW q \in Proportions, NEW s \in Quantile(g, q)
  PROVE  /\ Juste(Sous(g, s), g, q)
         /\ q.num <= 0 => Sous(g, s) = {}
         /\ q.num >= q.den /\ (\A k \in S : g[k] # PlusInf) => Sous(g, s) = S
<1> DEFINE m == Cardinality(S)
           a == q.num * m
           d == q.den
           part == Sous(g, s)
           c == Cardinality(part)
           sans == \A k \in S : g[k] # PlusInf
           u == IF Binaire(q) THEN 1 ELSE 2
<1>0. DOMAIN g = S /\ q.num \in Int /\ d \in Nat \ {0} /\ m \in Nat
  BY FS_CardinalityType DEF Proportions
<1>1. part \in SUBSET S /\ IsFiniteSet(part) /\ c \in Nat /\ c <= m
  <2>1. part \in SUBSET S
    BY DEF Sous
  <2> QED
    BY <1>0, <2>1, FS_Subset, FS_CardinalityType
<1>2. a \in Int
  BY <1>0, Z3
<1>3. CASE S = {}
  <2>1. part = {} /\ m = 0
    BY <1>1, <1>3, FS_EmptySet
  <2>2. c = 0
    BY <2>1, FS_EmptySet
  <2>3. a = 0
    BY <1>0, <2>1
  <2>4. c * d = 0 /\ (c + u) * d = u * d /\ u * d > 0
    BY <1>0, <2>2, Z3
  <2>5. Juste(part, g, q)
    BY <1>0, <2>1, <2>3, <2>4 DEF Juste
  <2> QED
    BY <1>3, <2>1, <2>5
<1>4. CASE S # {}
  <2>1. m > 0
    BY <1>0, <1>4, FS_EmptySet
  <2>2. PICK i \in Rangs(q, m) :
          s = IF i <= 0 THEN MoinsInf ELSE IF i >= m THEN PlusInf ELSE Trie(g, i)
    BY <1>0, <1>4 DEF Quantile
  <2>3. /\ i \in Int /\ i * d <= a
        /\ a < (i + 1) * d \/ (~Binaire(q) /\ a = (i + 1) * d)
    BY <1>0, <1>2, <2>2, EntiersJustes DEF Rangs
  <2>4. /\ i * d \in Int /\ (i + 1) * d = i * d + d /\ (i + 2) * d = i * d + d + d
        /\ c * d \in Int /\ (c + 1) * d = c * d + d /\ (c + 2) * d = c * d + d + d
        /\ m * d \in Int /\ (m + 1) * d = m * d + d /\ (m + 2) * d = m * d + d + d
        /\ d * m = m * d
    <3>1. ASSUME NEW k \in Int
          PROVE  k * d \in Int /\ (k + 1) * d = k * d + d /\ (k + 2) * d = k * d + d + d
      BY <1>0, Produit
    <3>2. d * m = m * d
      BY <1>0, Z3
    <3>3. c \in Int /\ m \in Int
      BY <1>0, <1>1
    <3> HIDE DEF c, d, m
    <3> QED
      BY <2>3, <3>1, <3>2, <3>3
  <2>5. i <= 0 => part = {} /\ c = 0
    <3>1. \A v \in Reels : ~Dessous(v, MoinsInf)
      BY DEF Reels, Dessous, MoinsInf, PlusInf
    <3>2. i <= 0 => part = {}
      BY <1>0, <2>2, <3>1 DEF Sous
    <3> QED
      BY <3>2, FS_EmptySet
  <2>6. i >= m /\ sans => part = S /\ c = m
    <3>1. \A v \in Reels : v # PlusInf => Dessous(v, PlusInf)
      BY DEF Reels, Dessous, MoinsInf, PlusInf
    <3>2. ASSUME i >= m, sans
          PROVE  part = S
      <4>1. s = PlusInf
        BY <1>0, <2>1, <2>2, <2>3, <3>2
      <4>2. \A k \in S : Dessous(g[k], s)
        BY <3>1, <3>2, <4>1
      <4> QED
        BY <1>0, <4>2 DEF Sous
    <3> QED
      BY <3>2
  <2>7. ASSUME 0 < i, i < m
        PROVE  /\ c <= i /\ Cardinality(PasPlus(g, s)) > i
               /\ s \in {g[k] : k \in S}
    <3>1. i \in 0 .. Cardinality(S) - 1 /\ s = Trie(g, i)
      BY <1>0, <2>2, <2>3, <2>7
    <3> QED
      BY <3>1, TrieJuste
  <2>8. ASSUME 0 < i, i < m, IsInjective(g)
        PROVE  i <= c
    <3>1. PICK x \in S : s = g[x]
      BY <2>7, <2>8
    <3>2. PasPlus(g, s) = part \cup {x}
      <4>1. \A y \in S : ~Dessous(g[x], g[y]) <=> Dessous(g[y], g[x]) \/ g[y] = g[x]
        BY DessousTotal
      <4>2. \A y \in S : g[y] = g[x] <=> y = x
        BY <1>0, <2>8 DEF IsInjective
      <4> QED
        BY <1>0, <3>1, <4>1, <4>2 DEF PasPlus, Sous
    <3>3. x \notin part
      BY <3>1, DessousTotal DEF Sous
    <3>4. Cardinality(part \cup {x}) = c + 1
      <4> HIDE DEF part
      <4> QED
        BY <1>1, <3>3, FS_AddElement
    <3> HIDE DEF c, m
    <3> QED
      BY <1>1, <2>3, <2>7, <2>8, <3>2, <3>4
  <2>9. 0 < i => c <= i
    <3> HIDE DEF c, m
    <3> QED
      BY <1>0, <1>1, <2>3, <2>7
  <2>10. ASSUME Borne(q)
         PROVE  0 <= a /\ a <= m * d
    <3>1. q.num \in Nat /\ q.num <= d
      BY <1>0, <2>10 DEF Borne
    <3>2. 0 <= q.num * m
      BY <1>0, <3>1, Z3
    <3>3. q.num * m <= d * m
      BY <1>0, <2>1, <3>1, Produit
    <3> QED
      BY <2>4, <3>2, <3>3
  <2>11. ASSUME Borne(q)
         PROVE  c * d <= a
    <3>1. CASE i <= 0
      <4>1. c * d = 0
        BY <1>0, <2>5, <3>1
      <4> QED
        BY <2>10, <2>11, <4>1
    <3>2. CASE 0 < i
      <4>1. c * d <= i * d
        BY <1>0, <1>1, <2>3, <2>9, <3>2, Produit
      <4> HIDE DEF a, c, d, m
      <4> QED
        BY <1>2, <2>3, <2>4, <4>1
    <3> QED
      BY <2>3, <3>1, <3>2
  <2>12. ASSUME Borne(q), IsInjective(g), PlusInf \notin Range(g)
         PROVE  (c + u) * d > a
    <3>1. sans
      BY <1>0, <2>12 DEF Range
    <3>2. a < (i + u) * d
      <4> HIDE DEF a, d
      <4> QED
        BY <1>0, <1>2, <2>3, <2>4
    <3>3. CASE i < m
      <4>1. i <= c
        BY <2>3, <2>5, <2>8, <2>12, <3>3
      <4>2. (i + u) * d <= (c + u) * d
        <5>1. i + u \in Int /\ c + u \in Int /\ i + u <= c + u
          BY <1>1, <2>3, <4>1
        <5> QED
          BY <1>0, <5>1, Produit
      <4> HIDE DEF a, c, d, m
      <4>3. (c + u) * d \in Int /\ (i + u) * d \in Int
        BY <1>0, <2>3, <2>4
      <4> QED
        BY <1>2, <3>2, <4>2, <4>3
    <3>4. CASE i >= m
      <4>1. c = m
        BY <2>6, <3>1, <3>4
      <4>2. a < (m + u) * d
        <5> HIDE DEF a, d, m
        <5> QED
          BY <1>0, <1>2, <2>4, <2>10, <2>12
      <4> QED
        BY <4>1, <4>2
    <3> QED
      BY <1>0, <2>3, <3>3, <3>4
  <2>13. Juste(part, g, q)
    <3> HIDE DEF part
    <3> QED
      BY <1>0, <2>11, <2>12 DEF Juste
  <2>14. ASSUME q.num <= 0
         PROVE  part = {}
    <3>1. q.num * m <= 0 * m
      BY <1>0, <2>1, <2>14, Produit
    <3>2. i * d <= 0 /\ i > 0 => FALSE
      <4>1. d <= i * d \/ i <= 0
        <5>1. 1 * d = d
          BY <1>0
        <5> QED
          BY <1>0, <2>3, <5>1, Produit
      <4> HIDE DEF a, c, d, m
      <4> QED
        BY <1>0, <2>3, <2>4, <4>1
    <3>3. a <= 0
      BY <1>0, <3>1
    <3>4. i <= 0
      <4> HIDE DEF a, c, d, m
      <4> QED
        BY <1>2, <2>3, <2>4, <3>2, <3>3
    <3> QED
      BY <2>5, <3>4
  <2>15. ASSUME q.num >= q.den, sans
         PROVE  part = S
    <3>1. m * d <= a
      BY <1>0, <2>1, <2>4, <2>15, Produit
    <3>2. a = m * d => q.num = d
      <4>1. q.num > d => d * m < q.num * m
        <5>1. q.num > d => (d + 1) * m <= q.num * m /\ (d + 1) * m = d * m + m
          BY <1>0, <2>1, Produit
        <5>2. d * m \in Int
          BY <1>0, <2>4
        <5> HIDE DEF d, m, a
        <5> QED
          BY <1>0, <2>1, <1>2, <5>1, <5>2
      <4>2. a = q.num * m /\ m * d \in Int /\ d * m = m * d /\ q.num >= d
        BY <2>4, <2>15
      <4> HIDE DEF a, d, m
      <4> QED
        BY <1>0, <4>1, <4>2
    <3>3. q.num = d => Binaire(q)
      <4>1. d * 1 = d /\ d % d = 0
        BY <1>0, Z3
      <4> QED
        BY <1>0, <4>1 DEF Binaire
    <3>4. m * d < (i + 1) * d
      <4> HIDE DEF a, c, d, m
      <4> QED
        BY <1>0, <1>2, <2>3, <2>4, <3>1, <3>2, <3>3
    <3>5. m < i + 1
      BY <1>0, <2>3, <3>4, Produit
    <3>6. i >= m
      <4> HIDE DEF m
      <4> QED
        BY <1>0, <2>3, <3>5
    <3> QED
      BY <2>6, <2>15, <3>6
  <2> QED
    BY <2>13, <2>14, <2>15
<1> QED
  BY <1>3, <1>4
-----------------------------------------------------------------------------
(* The inductive invariant, stage by stage: what the fields hold while they*)
(* are built,                                                              *)
ChampsPoses ==
  /\ cfg \in Configs
  /\ pc \in {"alt", "veg", "seuils", "eau", "foret", "vent", "rafales", "foyers", "rendu"}
  /\ pc \in {"alt", "veg"} => f \in [Indices -> Nat]
  /\ pc \in {"veg", "seuils", "eau", "foret"} => alt \in [Indices -> Nat]
  /\ pc \in {"seuils", "eau", "foret", "vent"} => veg \in [Indices -> Nat]

(* the gaps to the median, infinite when a single cell has none,           *)
EcartsPoses(e) ==
  /\ e \in [Indices -> Reels]
  /\ Cardinality(Indices) > 1 => \A i \in Indices : e[i] # PlusInf
  /\ Cardinality(Indices) = 1 => \A i \in Indices : e[i] = PlusInf
SeuilsPoses ==
  pc = "eau" =>
    /\ EcartsPoses(ecart)
    /\ seuils.bassin \in Quantile(alt, cfg.Lakes)
    /\ seuils.berge \in Quantile(ecart, cfg.Rivers)

(* the terrain, with a forest where the vegetation reaches its threshold,  *)
TerrainPose ==
  /\ terrain \in [Indices -> Terrains]
  /\ pc = "foret" => \A i \in Indices : terrain[i] # Forest
  /\ pc = "vent" =>
       \E lisiere \in Quantile([i \in Seches |-> veg[i]], Complement(cfg.Forest)) :
         \A i \in Seches : terrain[i] = Plain <=> Dessous(veg[i], lisiere)

(* what a draw has taken and what it has left, of the cells that burn,     *)
Distincts(s) == s \in Seq(Seches) /\ IsInjective(s)
TirageEnCours ==
  /\ Distincts(out) /\ Distincts(reste) /\ n \in Int
  /\ \A a \in DOMAIN out, b \in DOMAIN reste : out[a] # reste[b]
  /\ n <= 0 => out = <<>> /\ reste = <<>>
  /\ n > 0 => Len(out) <= n /\ Len(out) + Len(reste) = Cardinality(Seches)
TiragePose ==
  /\ pc \in {"vent", "rafales", "foyers"} =>
       Distincts(combustibles) /\ Len(combustibles) = Cardinality(Seches)
  /\ pc \in {"rafales", "foyers"} => TirageEnCours
  /\ pc = "rafales" =>
       n \in Entiers(2 * cfg.Wind.num * Cardinality(Seches) + cfg.Wind.den,
                     2 * cfg.Wind.den, Binaire(cfg.Wind))
  /\ pc = "foyers" => n = cfg.Fires

(* and the winds and the fires on them.                                    *)
Vents == {i \in Indices : wind[i] > 0}
Arrondi(q, c, v) ==
  LET e == q.num * c - v * q.den IN Borne(q) => 2 * Max({e, -e}) <= q.den
VentsPoses ==
  /\ wind \in [Indices -> 0..8]
  /\ pc \in {"foyers", "rendu"} =>
       Vents \subseteq Seches /\ Arrondi(cfg.Wind, Cardinality(Seches), Cardinality(Vents))
FoyersPoses ==
  pc = "rendu" =>
    Distincts(fires) /\ Len(fires) = Min({Max({cfg.Fires, 0}), Cardinality(Seches)})

GInv ==
  ChampsPoses /\ SeuilsPoses /\ TerrainPose /\ TiragePose /\ VentsPoses /\ FoyersPoses

-----------------------------------------------------------------------------
(* Numbers and coordinates of the cells of a W x H map.                    *)
LEMMA ModBorne ==
  ASSUME NEW k \in Nat \ {0}, NEW a \in Int
  PROVE  a % k \in 0 .. k - 1
  BY Z3

LEMMA ModDansAnneau ==
  ASSUME NEW k \in Nat \ {0}, NEW a \in Int
  PROVE  Mod(a, k) \in 0 .. k - 1
  BY Z3, ModBorne DEF Mod, Reste

LEMMA Numerotation ==
  ASSUME NEW W \in Nat \ {0}, NEW H \in Nat \ {0}
  PROVE  /\ W * H \in Nat \ {0}
         /\ \A x \in 0 .. W - 1, y \in 0 .. H - 1 : y * W + x \in 0 .. W * H - 1
         /\ \A i \in 0 .. W * H - 1 : i % W \in 0 .. W - 1 /\ i \div W \in 0 .. H - 1
<1>1. W * H \in Nat \ {0} /\ H * W = W * H /\ (H - 1) * W = W * H - W
  <2>1. W * H \in Nat \ {0} /\ H * W = W * H
    BY Z3
  <2> QED
    BY <2>1, Produit
<1>2. ASSUME NEW x \in 0 .. W - 1, NEW y \in 0 .. H - 1
      PROVE  y * W + x \in 0 .. W * H - 1
  <2>1. y * W <= (H - 1) * W /\ 0 * W <= y * W /\ y * W \in Int
    BY Produit
  <2>2. 0 * W = 0
    OBVIOUS
  <2> QED
    BY <1>1, <2>1, <2>2
<1>3. ASSUME NEW i \in 0 .. W * H - 1
      PROVE  i % W \in 0 .. W - 1 /\ i \div W \in 0 .. H - 1
  <2>1. i \in Int
    BY <1>1
  <2>2. i \div W \in Int /\ (i \div W) * W <= i /\ i < (i \div W + 1) * W
    BY <2>1, Quotient
  <2>3. (i \div W) * W < H * W /\ 0 * W < (i \div W + 1) * W
    BY <1>1, <2>1, <2>2, Produit
  <2>4. i \div W < H /\ 0 < i \div W + 1
    BY <2>2, <2>3, Produit
  <2> QED
    BY <2>1, <2>2, <2>4, ModBorne
<1> QED
  BY <1>1, <1>2, <1>3

LEMMA Formes ==
  ASSUME cfg \in Configs
  PROVE  /\ cfg.Width \in Nat \ {0} /\ cfg.Height \in Nat \ {0} /\ cfg.Fires \in Int
         /\ cfg.Lakes \in Proportions /\ cfg.Rivers \in Proportions
         /\ cfg.Forest \in Proportions /\ cfg.Wind \in Proportions
         /\ Indices \in SUBSET Int /\ IsFiniteSet(Indices)
         /\ Cardinality(Indices) \in Nat \ {0}
         /\ Seches \in SUBSET Indices /\ IsFiniteSet(Seches)
         /\ Cardinality(Seches) \in Nat
<1>1. /\ cfg.Width \in Nat \ {0} /\ cfg.Height \in Nat \ {0} /\ cfg.Fires \in Int
      /\ cfg.Lakes \in Proportions /\ cfg.Rivers \in Proportions
      /\ cfg.Forest \in Proportions /\ cfg.Wind \in Proportions
  BY GenerationAssumption DEF GenerationAssumption, Config
<1>2. cfg.Width * cfg.Height \in Nat \ {0}
  BY <1>1, Numerotation
<1>3. /\ Indices \in SUBSET Int /\ IsFiniteSet(Indices)
      /\ Cardinality(Indices) = cfg.Width * cfg.Height
  BY <1>2, FS_Interval DEF Indices
<1>4. Seches \in SUBSET Indices
  BY DEF Seches
<1>5. IsFiniteSet(Seches) /\ Cardinality(Seches) \in Nat
  BY <1>3, <1>4, FS_Subset, FS_CardinalityType
<1> QED
  BY <1>1, <1>2, <1>3, <1>4, <1>5

LEMMA VoisinDansCarte ==
  ASSUME cfg \in Configs, NEW i \in Indices, NEW dx \in -1..1, NEW dy \in -1..1
  PROVE  Voisin(i, dx, dy) \in Indices
<1>1. cfg.Width \in Nat \ {0} /\ cfg.Height \in Nat \ {0}
  BY Formes
<1>2. i % cfg.Width \in Int /\ i \div cfg.Width \in Int
  BY <1>1, Numerotation DEF Indices
<1>3. /\ Mod((i \div cfg.Width) + dy, cfg.Height) \in 0 .. cfg.Height - 1
      /\ Mod((i % cfg.Width) + dx, cfg.Width) \in 0 .. cfg.Width - 1
  <2> DEFINE a == (i \div cfg.Width) + dy
             b == (i % cfg.Width) + dx
  <2>1. a \in Int /\ b \in Int
    BY <1>2
  <2> HIDE DEF a, b
  <2>2. Mod(a, cfg.Height) \in 0 .. cfg.Height - 1 /\ Mod(b, cfg.Width) \in 0 .. cfg.Width - 1
    BY <1>1, <2>1, ModDansAnneau
  <2> QED
    BY <2>2 DEF a, b
<1> QED
  BY <1>1, <1>3, Numerotation DEF Voisin, Indices

-----------------------------------------------------------------------------
(* A loop over a finite set of numbers meets each of them once.            *)
LEMMA CroissanteJuste ==
  ASSUME NEW S \in SUBSET Int, IsFiniteSet(S)
  PROVE  /\ Croissante(S) \in Seq(S) /\ Len(Croissante(S)) = Cardinality(S)
         /\ IsInjective(Croissante(S))
<1> DEFINE R == {e \in S \X S : e[1] < e[2]}
           N == Cardinality(S)
           s == Croissante(S)
<1>1. \A x, y \in S : <<x, y>> \in R <=> x < y
  OBVIOUS
<1>2. Total(S, R)
  <2>1. \A x \in S : x \in Int
    OBVIOUS
  <2> HIDE DEF R
  <2> QED
    BY <1>1, <2>1 DEF Total
<1>3. \A i \in S : {j \in S : j < i} = Avant(S, R, i)
  <2> HIDE DEF R
  <2> QED
    BY <1>1 DEF Avant
<1>4. N \in Nat
  BY FS_CardinalityType
<1>5. s = [k \in 1 .. N |-> CHOOSE i \in S : Cardinality({j \in S : j < i}) = k - 1]
  BY DEF Croissante
<1>6. ASSUME NEW k \in 1 .. N
      PROVE  s[k] \in S /\ Cardinality({j \in S : j < s[k]}) = k - 1
  <2>1. k - 1 \in 0 .. Cardinality(S) - 1
    BY <1>4
  <2>2. \E x \in S : Cardinality(Avant(S, R, x)) = k - 1
    <3> HIDE DEF R
    <3> QED
      BY <1>2, <2>1, RangAtteint
  <2>3. \E x \in S : Cardinality({j \in S : j < x}) = k - 1
    <3> HIDE DEF R
    <3> QED
      BY <1>3, <2>2
  <2>4. s[k] = CHOOSE i \in S : Cardinality({j \in S : j < i}) = k - 1
    BY <1>5
  <2> HIDE DEF s
  <2> QED
    BY <2>3, <2>4
<1>7. s \in [1 .. N -> S] /\ DOMAIN s = 1 .. N
  <2> HIDE DEF N
  <2> QED
    BY <1>5, <1>6
<1>8. s \in Seq(S) /\ Len(s) = N
  <2> HIDE DEF s, N
  <2> QED
    BY <1>4, <1>7
<1>9. IsInjective(s)
  <2> SUFFICES ASSUME NEW a \in 1 .. N, NEW b \in 1 .. N, s[a] = s[b]
               PROVE  a = b
    BY <1>7 DEF IsInjective
  <2>1. a - 1 = b - 1
    BY <1>6
  <2> QED
    BY <1>4, <2>1
<1> QED
  BY <1>8, <1>9

-----------------------------------------------------------------------------
(* The initial states, then the steps one by one.                          *)
LEMMA GInvInit == Init => GInv
<1> SUFFICES ASSUME Init PROVE GInv
  OBVIOUS
<1>1. cfg \in Configs
  BY DEF Init
<1>2. ChampsPoses
  BY <1>1, GenerationAssumption DEF Init, ChampsPoses, GenerationAssumption
<1>3. SeuilsPoses /\ TiragePose /\ FoyersPoses
  BY DEF Init, SeuilsPoses, TiragePose, FoyersPoses
<1>4. TerrainPose /\ VentsPoses
  BY DEF Init, TerrainPose, VentsPoses, Terrains, Water
<1> QED
  BY <1>2, <1>3, <1>4 DEF GInv

(* What a smoothing pass or the end of a field leaves.                     *)
LEMMA GInvChamps ==
  ASSUME GInv, Lisse \/ FinAlt \/ FinVeg
  PROVE  GInv'
<1> USE DEF GInv
<1>1. cfg \in Configs /\ cfg' = cfg /\ Indices' = Indices
  BY DEF ChampsPoses, Lisse, FinAlt, FinVeg, Indices
<1>2. ChampsPoses'
  <2>1. CASE Lisse
    <3>1. pc \in {"alt", "veg"} /\ f \in [Indices -> Nat]
      BY <2>1 DEF Lisse, ChampsPoses
    <3>2. ASSUME NEW i \in Indices
          PROVE  Moyenne(i) \in Nat
      <4>1. \A dx \in -1..1, dy \in -1..1 : f[Voisin(i, dx, dy)] \in Nat
        BY <1>1, <3>1, VoisinDansCarte
      <4>2. \A dy \in -1..1 : Rangee(i, dy) \in Nat
        BY <4>1 DEF Rangee
      <4> QED
        BY <4>2 DEF Moyenne
    <3>3. f' \in [Indices -> Nat]
      BY <2>1, <3>2 DEF Lisse
    <3> QED
      BY <1>1, <2>1, <3>3 DEF Lisse, ChampsPoses
  <2>2. CASE FinAlt
    <3>1. f \in [Indices -> Nat]
      BY <2>2 DEF FinAlt, ChampsPoses
    <3>2. f' \in [Indices -> Nat] /\ alt' = f
      BY <2>2, GenerationAssumption DEF FinAlt, GenerationAssumption
    <3> QED
      BY <1>1, <2>2, <3>1, <3>2 DEF FinAlt, ChampsPoses
  <2>3. CASE FinVeg
    BY <1>1, <2>3 DEF FinVeg, ChampsPoses
  <2> QED
    BY <2>1, <2>2, <2>3
<1>3. pc' \in {"alt", "veg", "seuils"} /\ UNCHANGED <<terrain, wind>>
  BY DEF Lisse, FinAlt, FinVeg
<1>4. (SeuilsPoses /\ TiragePose /\ FoyersPoses)'
  BY <1>3 DEF SeuilsPoses, TiragePose, FoyersPoses
<1>5. (TerrainPose /\ VentsPoses)'
  BY <1>1, <1>3 DEF TerrainPose, VentsPoses
<1> QED
  BY <1>2, <1>4, <1>5

(* The median of more than one cell is a number of the field; of a single  *)
(* one, no number is below it.                                             *)
LEMMA MedianPosee ==
  ASSUME cfg \in Configs, alt \in [Indices -> Nat], NEW median \in Quantile(alt, Moitie)
  PROVE  /\ Cardinality(Indices) > 1 => median \in Nat
         /\ Cardinality(Indices) = 1 => median = MoinsInf
<1> DEFINE m == Cardinality(Indices)
<1>1. Indices \in SUBSET Int /\ IsFiniteSet(Indices) /\ m \in Nat \ {0} /\ DOMAIN alt = Indices
  BY Formes
<1>2. Indices # {}
  BY <1>1, FS_EmptySet
<1>3. PICK i \in Rangs(Moitie, m) :
        median = IF i <= 0 THEN MoinsInf ELSE IF i >= m THEN PlusInf ELSE Trie(alt, i)
  BY <1>1, <1>2 DEF Quantile
<1>4. Binaire(Moitie)
  <2>1. (1 * 2) % 2 = 0
    OBVIOUS
  <2> QED
    BY <2>1 DEF Binaire, Moitie
<1>5. i \in Int /\ i * 2 <= m /\ m < (i + 1) * 2
  <2>1. i \in Entiers(m, 2, Binaire(Moitie))
    <3>1. Rangs(Moitie, m) = Entiers(1 * m, 2, Binaire(Moitie)) /\ 1 * m = m
      BY <1>1 DEF Rangs, Moitie
    <3> QED
      BY <1>3, <3>1
  <2>2. m \in Int /\ 2 \in Nat \ {0}
    BY <1>1
  <2> HIDE DEF m
  <2> QED
    BY <1>4, <2>1, <2>2, EntiersJustes
<1>6. ASSUME m > 1 PROVE median \in Nat
  <2>1. 0 < i /\ i < m
    <3> HIDE DEF m
    <3> QED
      BY <1>1, <1>5, <1>6
  <2>2. median = Trie(alt, i) /\ i \in 0 .. Cardinality(Indices) - 1
    <3> HIDE DEF Trie
    <3> QED
      BY <1>1, <1>3, <1>5, <2>1
  <2>3. alt \in [Indices -> Reels]
    BY DEF Reels
  <2>4. median \in {alt[k] : k \in Indices}
    BY <1>1, <2>2, <2>3, TrieJuste
  <2> QED
    BY <2>4
<1>7. ASSUME m = 1 PROVE median = MoinsInf
  BY <1>3, <1>5, <1>7
<1> QED
  BY <1>6, <1>7

LEMMA GInvSeuils ==
  ASSUME GInv, Seuils
  PROVE  GInv'
<1> USE DEF GInv
<1>1. /\ cfg \in Configs /\ cfg' = cfg /\ Indices' = Indices
      /\ pc = "seuils" /\ pc' = "eau" /\ UNCHANGED <<alt, veg, terrain, wind>>
      /\ alt \in [Indices -> Nat] /\ veg \in [Indices -> Nat]
  BY DEF ChampsPoses, Seuils, Indices
<1>2. EcartsPoses(ecart')
  <2>1. PICK median \in Quantile(alt, Moitie) :
          ecart' = [i \in Indices |-> Distance(alt[i], median)]
    BY DEF Seuils
  <2>2. /\ Cardinality(Indices) > 1 => median \in Nat
        /\ Cardinality(Indices) = 1 => median = MoinsInf
        /\ Cardinality(Indices) \in Nat \ {0}
    BY <1>1, MedianPosee, Formes
  <2>3. ASSUME NEW a \in Nat, median \in Nat
        PROVE  Distance(a, median) \in Nat /\ Distance(a, median) # PlusInf
    BY <2>3 DEF Distance, MoinsInf, PlusInf
  <2>4. \A a \in Nat : Distance(a, MoinsInf) = PlusInf
    BY DEF Distance
  <2>5. CASE Cardinality(Indices) > 1
    BY <1>1, <2>1, <2>2, <2>3, <2>5 DEF EcartsPoses, Reels
  <2>6. CASE Cardinality(Indices) = 1
    BY <1>1, <2>1, <2>2, <2>4, <2>6 DEF EcartsPoses, Reels
  <2> QED
    BY <2>2, <2>5, <2>6
<1>3. EcartsPoses(ecart)'
  BY <1>1, <1>2 DEF EcartsPoses
<1>4. SeuilsPoses'
  <2>1. seuils'.bassin \in Quantile(alt, cfg.Lakes) /\ seuils'.berge \in Quantile(ecart', cfg.Rivers)
    BY DEF Seuils
  <2>2. Quantile(alt, cfg.Lakes)' = Quantile(alt, cfg.Lakes)
    BY <1>1
  <2> QED
    BY <1>1, <1>3, <2>1 DEF SeuilsPoses
<1>5. ChampsPoses' /\ (TiragePose /\ FoyersPoses)'
  BY <1>1 DEF ChampsPoses, TiragePose, FoyersPoses
<1>6. (TerrainPose /\ VentsPoses)'
  BY <1>1 DEF TerrainPose, VentsPoses
<1> QED
  BY <1>4, <1>5, <1>6

LEMMA GInvEau ==
  ASSUME GInv, Eau
  PROVE  GInv'
<1> USE DEF GInv
<1>1. /\ cfg \in Configs /\ cfg' = cfg /\ Indices' = Indices
      /\ pc = "eau" /\ pc' = "foret" /\ UNCHANGED <<alt, veg, wind>>
      /\ alt \in [Indices -> Nat] /\ veg \in [Indices -> Nat]
  BY DEF ChampsPoses, Eau, Indices, champs
<1>2. TerrainPose'
  BY <1>1 DEF Eau, TerrainPose, Terrains, Water, Plain, Forest
<1>3. ChampsPoses' /\ (SeuilsPoses /\ TiragePose /\ FoyersPoses)'
  BY <1>1 DEF ChampsPoses, SeuilsPoses, TiragePose, FoyersPoses
<1>4. VentsPoses'
  BY <1>1 DEF VentsPoses
<1> QED
  BY <1>2, <1>3, <1>4

LEMMA GInvForet ==
  ASSUME GInv, Foret
  PROVE  GInv'
<1> USE DEF GInv
<1>1. /\ cfg \in Configs /\ cfg' = cfg /\ Indices' = Indices
      /\ pc = "foret" /\ pc' = "vent" /\ UNCHANGED <<veg, wind>>
      /\ veg \in [Indices -> Nat] /\ terrain \in [Indices -> Terrains]
      /\ \A i \in Indices : terrain[i] # Forest
  BY DEF ChampsPoses, TerrainPose, Foret, Indices
<1>2. PICK lisiere \in Quantile([i \in Seches |-> veg[i]], Complement(cfg.Forest)) :
        terrain' = [i \in Indices |->
          IF i \in Seches /\ ~Dessous(veg[i], lisiere) THEN Forest ELSE terrain[i]]
  BY DEF Foret
<1>3. Seches' = Seches
  BY <1>1, <1>2 DEF Seches, Forest, Water
<1>4. TerrainPose'
  <2>1. terrain' \in [Indices -> Terrains]
    BY <1>1, <1>2 DEF Terrains
  <2>2. ASSUME NEW i \in Seches
        PROVE  terrain'[i] = Plain <=> Dessous(veg[i], lisiere)
    <3>1. i \in Indices /\ terrain[i] # Water /\ terrain[i] = Plain
      BY <1>1 DEF Seches, Terrains
    <3>2. terrain'[i] = IF ~Dessous(veg[i], lisiere) THEN Forest ELSE Plain
      BY <1>2, <3>1
    <3> QED
      BY <3>2 DEF Forest, Plain
  <2>3. [i \in Seches |-> veg[i]]' = [i \in Seches |-> veg[i]]
    BY <1>1, <1>3
  <2> QED
    BY <1>1, <1>3, <2>1, <2>2, <2>3 DEF TerrainPose
<1>5. (Distincts(combustibles) /\ Len(combustibles) = Cardinality(Seches))'
  <2>1. combustibles' = Croissante(Seches)
    BY DEF Foret
  <2>2. Seches \in SUBSET Int /\ IsFiniteSet(Seches)
    BY <1>1, Formes
  <2> QED
    BY <1>3, <2>1, <2>2, CroissanteJuste DEF Distincts
<1>6. ChampsPoses' /\ (SeuilsPoses /\ TiragePose /\ FoyersPoses)'
  BY <1>1, <1>5 DEF ChampsPoses, SeuilsPoses, TiragePose, FoyersPoses
<1>7. VentsPoses'
  BY <1>1 DEF VentsPoses
<1> QED
  BY <1>4, <1>6, <1>7

-----------------------------------------------------------------------------
(* The number of winds is the proportion of the cells that burn, rounded:  *)
(* it never exceeds them.                                                  *)
LEMMA ArrondiJuste ==
  ASSUME NEW q \in Proportions, NEW N \in Nat,
         NEW v \in Entiers(2 * q.num * N + q.den, 2 * q.den, Binaire(q))
  PROVE  v \in Int /\ (Borne(q) => v \in 0 .. N /\ Arrondi(q, N, v))
<1> DEFINE d == q.den
           b == q.num * N
           a == 2 * q.num * N + d
<1>1. q.num \in Int /\ d \in Nat \ {0} /\ 2 * d \in Nat \ {0}
  BY DEF Proportions
<1>2. b \in Int /\ a = 2 * b + d /\ a \in Int
  BY <1>1, Z3
<1>3. v \in Int /\ v * (2 * d) <= a /\ a <= (v + 1) * (2 * d)
  <2>1. /\ v \in Int /\ v * (2 * d) <= a
        /\ a < (v + 1) * (2 * d) \/ a = (v + 1) * (2 * d)
    BY <1>1, <1>2, EntiersJustes
  <2>2. (v + 1) * (2 * d) \in Int
    BY <1>1, <2>1, Produit
  <2> HIDE DEF a, d
  <2> QED
    BY <1>2, <2>1, <2>2
<1>4. v * d \in Int /\ v * (2 * d) = 2 * (v * d) /\ (v + 1) * (2 * d) = 2 * (v * d) + 2 * d
  <2>1. v * d \in Int /\ v * (2 * d) = 2 * (v * d)
    BY <1>1, <1>3, Z3
  <2>2. (v + 1) * (2 * d) = v * (2 * d) + 2 * d
    BY <1>1, <1>3, Produit
  <2> QED
    BY <2>1, <2>2
<1>5. 2 * (v * d) <= 2 * b + d /\ 2 * b <= 2 * (v * d) + d
  <2> HIDE DEF a, b, d
  <2> QED
    BY <1>1, <1>2, <1>3, <1>4
<1>6. ASSUME Borne(q)
      PROVE  0 <= b /\ b <= N * d
  <2>1. q.num \in Nat /\ q.num <= d
    BY <1>1, <1>6 DEF Borne
  <2>2. 0 <= b
    BY <2>1, Z3
  <2>3. b <= N * d
    <3>1. CASE N = 0
      BY <1>1, <3>1
    <3>2. CASE N \in Nat \ {0}
      <4>1. b <= d * N
        BY <1>1, <2>1, <3>2, Produit
      <4>2. d * N = N * d
        BY <1>1, Z3
      <4> QED
        BY <4>1, <4>2
    <3> QED
      BY <3>1, <3>2
  <2> QED
    BY <2>2, <2>3
<1>7. ASSUME Borne(q)
      PROVE  v \in 0 .. N
  <2>1. /\ (v + 1) * d = v * d + d /\ (N + 1) * d = N * d + d /\ N * d \in Int
        /\ 0 * d = 0
    BY <1>1, <1>3, Produit
  <2>2. v * d < (N + 1) * d
    <3> HIDE DEF b, d
    <3> QED
      BY <1>1, <1>2, <1>4, <1>5, <1>6, <1>7, <2>1
  <2>3. 0 * d < (v + 1) * d
    <3> HIDE DEF b, d
    <3> QED
      BY <1>1, <1>2, <1>4, <1>5, <1>6, <1>7, <2>1
  <2>4. v < N + 1 /\ 0 < v + 1
    BY <1>1, <1>3, <2>2, <2>3, Produit
  <2> QED
    BY <1>3, <2>4
<1>8. Arrondi(q, N, v)
  <2> DEFINE e == q.num * N - v * q.den
  <2>1. e \in Int /\ 2 * e <= d /\ 2 * (-e) <= d
    <3>1. e = b - v * d
      OBVIOUS
    <3> HIDE DEF b, d, e
    <3> QED
      BY <1>1, <1>2, <1>4, <1>5, <3>1
  <2>2. Max({e, -e}) \in {e, -e}
    <3>1. \E x \in {e, -e} : \A y \in {e, -e} : x >= y
      <4> HIDE DEF e
      <4> QED
        BY <2>1
    <3> HIDE DEF e
    <3> QED
      BY <3>1 DEF Max
  <2> HIDE DEF e
  <2>3. 2 * Max({e, -e}) <= d
    BY <2>1, <2>2
  <2> QED
    BY <2>3 DEF e, Arrondi
<1> QED
  BY <1>3, <1>7, <1>8

(* The smaller and the greater of two numbers.                             *)
LEMMA MinMax ==
  ASSUME NEW a \in Int, NEW b \in Int
  PROVE  /\ Max({a, b}) = IF a >= b THEN a ELSE b
         /\ Min({a, b}) = IF a <= b THEN a ELSE b
<1>1. ASSUME NEW c \in {a, b}, NEW e \in {a, b}, c >= e, {a, b} = {c, e}
      PROVE  Max({a, b}) = c /\ Min({a, b}) = e
  <2>1. Max({a, b}) \in {a, b} /\ \A y \in {a, b} : Max({a, b}) >= y
    <3>1. \E x \in {a, b} : \A y \in {a, b} : x >= y
      BY <1>1
    <3> QED
      BY <3>1 DEF Max
  <2>2. Min({a, b}) \in {a, b} /\ \A y \in {a, b} : Min({a, b}) <= y
    <3>1. \E x \in {a, b} : \A y \in {a, b} : x <= y
      BY <1>1
    <3> QED
      BY <3>1 DEF Min
  <2> QED
    BY <1>1, <2>1, <2>2
<1>2. CASE a >= b
  BY <1>1, <1>2
<1>3. CASE b > a
  BY <1>1, <1>3
<1> QED
  BY <1>2, <1>3

(* Taking the entry j out of a list without repetition: the rest, without  *)
(* it and still without repetition.                                        *)
LEMMA RetireJuste ==
  ASSUME NEW S, NEW s \in Seq(S), IsInjective(s), s # <<>>, NEW j \in DOMAIN s
  PROVE  /\ Retire(s, j) \in Seq(S) /\ IsInjective(Retire(s, j))
         /\ Len(Retire(s, j)) = Len(s) - 1
         /\ \A k \in DOMAIN Retire(s, j) :
              Retire(s, j)[k] # s[j] /\ \E l \in DOMAIN s : Retire(s, j)[k] = s[l]
<1> DEFINE L == Len(s)
           t == [s EXCEPT ![j] = s[L]]
           r == Retire(s, j)
<1>1. L \in Nat \ {0} /\ DOMAIN s = 1 .. L /\ j \in 1 .. L
  BY EmptySeq, LenProperties
<1>2. t \in Seq(S) /\ Len(t) = L /\ \A k \in 1 .. L : t[k] = IF k = j THEN s[L] ELSE s[k]
  <2>1. s[L] \in S
    BY <1>1, ElementOfSeq
  <2> QED
    BY <1>1, <2>1, ExceptSeq
<1>3. r = SubSeq(t, 1, L - 1)
  BY DEF Retire, Last
<1>4. /\ r \in Seq(S) /\ Len(r) = L - 1 /\ DOMAIN r = 1 .. L - 1
      /\ \A k \in 1 .. L - 1 : r[k] = t[k]
  <2> HIDE DEF t, r, L
  <2> QED
    BY <1>1, <1>2, <1>3
<1>5. \A k \in 1 .. L - 1 : r[k] = IF k = j THEN s[L] ELSE s[k]
  <2> HIDE DEF t, r, L
  <2> QED
    BY <1>1, <1>2, <1>4
<1>6. \A a, b \in 1 .. L : s[a] = s[b] => a = b
  BY <1>1 DEF IsInjective
<1>7. IsInjective(r)
  <2> HIDE DEF r, L
  <2> QED
    BY <1>1, <1>4, <1>5, <1>6 DEF IsInjective
<1>8. \A k \in 1 .. L - 1 : r[k] # s[j] /\ \E l \in 1 .. L : r[k] = s[l]
  <2> HIDE DEF r, L
  <2> QED
    BY <1>1, <1>5, <1>6
<1> QED
  BY <1>1, <1>4, <1>7, <1>8

(* A list without repetition has as many elements as entries.              *)
LEMMA CardinalListe ==
  ASSUME NEW S, NEW s \in Seq(S), IsInjective(s)
  PROVE  Range(s) \in SUBSET S /\ Cardinality(Range(s)) = Len(s)
<1>1. Len(s) \in Nat /\ s \in [1 .. Len(s) -> S]
  BY LenProperties
<1>2. IsFiniteSet(1 .. Len(s)) /\ Cardinality(1 .. Len(s)) = Len(s)
  BY <1>1, FS_Interval
<1>3. Range(s) \in SUBSET S
  BY <1>1 DEF Range
<1>4. s \in Surjection(1 .. Len(s), Range(s)) /\ s \in Injection(1 .. Len(s), Range(s))
  BY <1>1 DEF Surjection, Injection, IsInjective, Range
<1> QED
  BY <1>2, <1>3, <1>4, FS_Surjection

(* A draw begins with everything to take, or with nothing when it is asked *)
(* for none.                                                               *)
LEMMA TirageCommence ==
  ASSUME GInv, pc \in {"vent", "rafales", "foyers"}, NEW k \in Int, NEW suite,
         CommenceTirage(k, suite), Seches' = Seches
  PROVE  TirageEnCours' /\ n' = k /\ pc' = suite
<1>1. Distincts(combustibles) /\ Len(combustibles) = Cardinality(Seches)
  BY DEF GInv, TiragePose
<1>2. /\ n' = k /\ out' = <<>> /\ pc' = suite
      /\ reste' = IF k <= 0 THEN <<>> ELSE combustibles
  BY DEF CommenceTirage
<1>3. <<>> \in Seq(Seches) /\ IsInjective(<<>>) /\ Len(<<>>) = 0 /\ DOMAIN <<>> = {}
  BY DEF IsInjective
<1>4. Distincts(out)'
  BY <1>2, <1>3 DEF Distincts
<1>5. Distincts(reste)'
  BY <1>1, <1>2, <1>3 DEF Distincts
<1>6. Len(combustibles) \in Nat
  BY <1>1 DEF Distincts
<1>7. k > 0 => Len(<<>>) <= k /\ Len(<<>>) + Len(combustibles) = Cardinality(Seches)
  BY <1>1, <1>3, <1>6
<1> QED
  BY <1>2, <1>3, <1>4, <1>5, <1>7 DEF TirageEnCours

LEMMA GInvVent ==
  ASSUME GInv, Vent
  PROVE  GInv'
<1> USE DEF GInv
<1>1. /\ cfg \in Configs /\ cfg' = cfg /\ Indices' = Indices /\ Seches' = Seches
      /\ pc = "vent" /\ pc' = "rafales" /\ UNCHANGED <<terrain, wind, combustibles>>
  BY DEF ChampsPoses, Vent, Indices, Seches, CommenceTirage
<1>2. Distincts(combustibles) /\ Len(combustibles) = Cardinality(Seches)
  BY <1>1 DEF TiragePose
<1>3. PICK k \in Entiers(2 * cfg.Wind.num * Len(combustibles) + cfg.Wind.den,
                         2 * cfg.Wind.den, Binaire(cfg.Wind)) : CommenceTirage(k, "rafales")
  BY DEF Vent
<1>4. k \in Int
  BY <1>1, <1>2, <1>3, Formes, ArrondiJuste
<1>5. TirageEnCours' /\ n' = k
  BY <1>1, <1>3, <1>4, TirageCommence
<1>6. TiragePose'
  BY <1>1, <1>2, <1>3, <1>5 DEF TiragePose, Distincts
<1>7. ChampsPoses' /\ (SeuilsPoses /\ FoyersPoses)'
  BY <1>1 DEF ChampsPoses, SeuilsPoses, FoyersPoses
<1>8. (TerrainPose /\ VentsPoses)'
  BY <1>1 DEF TerrainPose, VentsPoses
<1> QED
  BY <1>6, <1>7, <1>8

LEMMA GInvTire ==
  ASSUME GInv, Tire
  PROVE  GInv'
<1> USE DEF GInv
<1>1. /\ cfg \in Configs /\ cfg' = cfg /\ Indices' = Indices /\ Seches' = Seches
      /\ pc \in {"rafales", "foyers"} /\ pc' = pc
      /\ UNCHANGED <<terrain, wind, combustibles, n>>
  BY DEF ChampsPoses, Tire, Indices, Seches
<1>2. TirageEnCours /\ Len(out) < n /\ reste # <<>>
  BY <1>1 DEF TiragePose, Tire
<1>3. PICK j \in DOMAIN reste : out' = Append(out, reste[j]) /\ reste' = Retire(reste, j)
  BY DEF Tire
<1>4. /\ out \in Seq(Seches) /\ IsInjective(out) /\ reste \in Seq(Seches) /\ IsInjective(reste)
      /\ n \in Int /\ \A a \in DOMAIN out, b \in DOMAIN reste : out[a] # reste[b]
      /\ n > 0 => Len(out) <= n /\ Len(out) + Len(reste) = Cardinality(Seches)
      /\ Len(out) \in Nat /\ Len(reste) \in Nat
  BY <1>2 DEF TirageEnCours, Distincts
<1>5. /\ reste' \in Seq(Seches) /\ IsInjective(reste') /\ Len(reste') = Len(reste) - 1
      /\ \A k \in DOMAIN reste' : reste'[k] # reste[j] /\ \E l \in DOMAIN reste : reste'[k] = reste[l]
  BY <1>2, <1>3, <1>4, RetireJuste
<1>6. /\ out' \in Seq(Seches) /\ Len(out') = Len(out) + 1
      /\ DOMAIN out = 1 .. Len(out) /\ DOMAIN out' = 1 .. Len(out) + 1
      /\ \A a \in 1 .. Len(out) : out'[a] = out[a]
      /\ out'[Len(out) + 1] = reste[j]
  <2>1. reste[j] \in Seches
    BY <1>4
  <2> QED
    BY <1>3, <1>4, <2>1, AppendProperties
<1>7. IsInjective(out')
  BY <1>3, <1>4, <1>6 DEF IsInjective
<1>8. \A a \in DOMAIN out', b \in DOMAIN reste' : out'[a] # reste'[b]
  <2> SUFFICES ASSUME NEW a \in DOMAIN out', NEW b \in DOMAIN reste'
               PROVE  out'[a] # reste'[b]
    OBVIOUS
  <2>1. PICK l \in DOMAIN reste : reste'[b] = reste[l]
    BY <1>5
  <2>2. CASE a = Len(out) + 1
    BY <1>5, <1>6, <2>2
  <2>3. CASE a \in DOMAIN out
    BY <1>4, <1>6, <2>1, <2>3
  <2> QED
    BY <1>4, <1>6, <2>2, <2>3
<1>9. n > 0 /\ Len(out') <= n /\ Len(out') + Len(reste') = Cardinality(Seches)
  BY <1>2, <1>4, <1>5, <1>6
<1>10. TirageEnCours'
  <2>1. Distincts(out)' /\ Distincts(reste)'
    BY <1>1, <1>5, <1>6, <1>7 DEF Distincts
  <2>2. n' = n /\ ~(n <= 0)
    BY <1>1, <1>4, <1>9
  <2> QED
    BY <1>1, <1>4, <1>8, <1>9, <2>1, <2>2 DEF TirageEnCours
<1>11. TiragePose'
  BY <1>1, <1>10 DEF TiragePose, Distincts
<1>12. ChampsPoses' /\ (SeuilsPoses /\ FoyersPoses)'
  BY <1>1 DEF ChampsPoses, SeuilsPoses, FoyersPoses
<1>13. (TerrainPose /\ VentsPoses)'
  BY <1>1 DEF TerrainPose, VentsPoses, Vents
<1> QED
  BY <1>11, <1>12, <1>13

(* A draw that ends has taken as many as asked, or all there was.          *)
LEMMA TirageFini ==
  ASSUME TirageEnCours, Tiree, cfg \in Configs
  PROVE  Len(out) = Min({Max({n, 0}), Cardinality(Seches)})
<1> DEFINE N == Cardinality(Seches)
           k == Max({n, 0})
<1>1. /\ out \in Seq(Seches) /\ reste \in Seq(Seches) /\ n \in Int
      /\ Len(out) \in Nat /\ Len(reste) \in Nat /\ N \in Nat
  BY Formes DEF TirageEnCours, Distincts
<1>2. k = (IF n >= 0 THEN n ELSE 0) /\ k \in Int
  BY <1>1, MinMax
<1>3. Min({k, N}) = IF k <= N THEN k ELSE N
  <2>1. \A a, b \in Int : Min({a, b}) = IF a <= b THEN a ELSE b
    BY MinMax
  <2>2. k \in Int /\ N \in Int
    BY <1>1, <1>2
  <2> HIDE DEF k, N
  <2> QED
    BY <2>1, <2>2
<1>4. n <= 0 => Len(out) = 0
  BY DEF TirageEnCours
<1>5. n > 0 => Len(out) <= n /\ Len(out) + Len(reste) = N
  BY DEF TirageEnCours
<1>6. Len(out) >= n \/ Len(reste) = 0
  BY <1>1 DEF Tiree
<1>7. Len(out) = Min({k, N})
  <2> HIDE DEF k, N
  <2> QED
    BY <1>1, <1>2, <1>3, <1>4, <1>5, <1>6
<1> QED
  BY <1>7

LEMMA GInvFinVent ==
  ASSUME GInv, FinVent
  PROVE  GInv'
<1> USE DEF GInv
<1>1. /\ cfg \in Configs /\ cfg' = cfg /\ Indices' = Indices /\ Seches' = Seches
      /\ pc = "rafales" /\ pc' = "foyers" /\ UNCHANGED <<terrain, combustibles>>
  BY DEF ChampsPoses, FinVent, Indices, Seches, CommenceTirage
<1>2. /\ TirageEnCours /\ Tiree /\ cfg.Fires \in Int
      /\ n \in Entiers(2 * cfg.Wind.num * Cardinality(Seches) + cfg.Wind.den,
                       2 * cfg.Wind.den, Binaire(cfg.Wind))
  BY <1>1, Formes DEF TiragePose, FinVent
<1>3. PICK codes \in [Range(out) -> Rafales] :
        wind' = [i \in Indices |-> IF i \in Range(out) THEN codes[i] ELSE 0]
  BY DEF FinVent
<1>4. TirageEnCours' /\ n' = cfg.Fires
  BY <1>1, <1>2, TirageCommence DEF FinVent
<1>5. TiragePose'
  BY <1>1, <1>4 DEF TiragePose, Distincts
<1>6. Range(out) \in SUBSET Seches /\ Cardinality(Range(out)) = Len(out)
  BY <1>2, CardinalListe DEF TirageEnCours, Distincts
<1>7. \A i \in Range(out) : codes[i] \in 1..8
  BY <1>3, GenerationAssumption DEF GenerationAssumption
<1>8. wind' \in [Indices -> 0..8] /\ Vents' = Range(out)
  <2>1. Seches \in SUBSET Indices
    BY <1>1, Formes
  <2>2. wind' \in [Indices -> 0..8]
    BY <1>3, <1>7
  <2>3. Vents' = {i \in Indices : wind'[i] > 0}
    BY <1>1 DEF Vents
  <2>4. \A i \in Indices : wind'[i] > 0 <=> i \in Range(out)
    BY <1>3, <1>7
  <2> QED
    BY <1>6, <2>1, <2>2, <2>3, <2>4
<1>9. Borne(cfg.Wind) => Arrondi(cfg.Wind, Cardinality(Seches), Len(out))
  <2> DEFINE N == Cardinality(Seches)
  <2>1. /\ N \in Nat /\ cfg.Wind \in Proportions
    BY <1>1, Formes
  <2>2. ASSUME Borne(cfg.Wind)
        PROVE  n \in 0 .. N /\ Arrondi(cfg.Wind, N, n)
    <3> HIDE DEF N
    <3>1. n \in Entiers(2 * cfg.Wind.num * N + cfg.Wind.den, 2 * cfg.Wind.den, Binaire(cfg.Wind))
      BY <1>2 DEF N
    <3> QED
      BY <2>1, <2>2, <3>1, ArrondiJuste
  <2>3. ASSUME n \in 0 .. N
        PROVE  Len(out) = n
    <3>1. Len(out) = Min({Max({n, 0}), N})
      BY <1>1, <1>2, TirageFini
    <3>2. Max({n, 0}) = n
      BY <2>1, <2>3, MinMax
    <3>3. \A a, b \in Int : Min({a, b}) = IF a <= b THEN a ELSE b
      BY MinMax
    <3>4. Len(out) = Min({n, N})
      BY <3>1, <3>2, Zenon
    <3>5. n \in Int /\ N \in Int /\ n <= N
      BY <2>1, <2>3
    <3> HIDE DEF N
    <3> QED
      BY <3>3, <3>4, <3>5
  <2> QED
    BY <2>2, <2>3
<1>10. VentsPoses'
  <2>1. Arrondi(cfg.Wind, Cardinality(Seches), Len(out))
    BY <1>9 DEF Arrondi
  <2> QED
    BY <1>1, <1>6, <1>8, <2>1 DEF VentsPoses
<1>11. ChampsPoses' /\ (SeuilsPoses /\ FoyersPoses)'
  BY <1>1 DEF ChampsPoses, SeuilsPoses, FoyersPoses
<1>12. TerrainPose'
  BY <1>1 DEF TerrainPose
<1> QED
  BY <1>5, <1>10, <1>11, <1>12

LEMMA GInvRend ==
  ASSUME GInv, Rend
  PROVE  GInv'
<1> USE DEF GInv
<1>1. /\ cfg \in Configs /\ cfg' = cfg /\ Indices' = Indices /\ Seches' = Seches
      /\ pc = "foyers" /\ pc' = "rendu" /\ UNCHANGED <<terrain, wind>> /\ fires' = out
  BY DEF ChampsPoses, Rend, Indices, Seches
<1>2. TirageEnCours /\ Tiree /\ n = cfg.Fires
  BY <1>1 DEF TiragePose, Rend
<1>3. Len(out) = Min({Max({cfg.Fires, 0}), Cardinality(Seches)})
  BY <1>1, <1>2, TirageFini
<1>4. FoyersPoses'
  BY <1>1, <1>2, <1>3 DEF FoyersPoses, TirageEnCours, Distincts
<1>5. ChampsPoses' /\ (SeuilsPoses /\ TiragePose)'
  BY <1>1 DEF ChampsPoses, SeuilsPoses, TiragePose
<1>6. (TerrainPose /\ VentsPoses)'
  BY <1>1 DEF TerrainPose, VentsPoses, Vents
<1> QED
  BY <1>4, <1>5, <1>6

LEMMA GInvTient == Spec => []GInv
<1>1. GInv /\ [Next]_vars => GInv'
  <2> SUFFICES ASSUME GInv, [Next]_vars PROVE GInv'
    OBVIOUS
  <2>1. CASE UNCHANGED vars
    <3>1. /\ UNCHANGED <<cfg, pc, f, alt, veg, ecart, seuils, terrain, combustibles, wind, fires>>
          /\ UNCHANGED <<reste, out, n>>
      BY <2>1 DEF vars, champs, tirage
    <3>2. Indices' = Indices /\ Seches' = Seches
      BY <3>1 DEF Indices, Seches
    <3>3. (ChampsPoses /\ SeuilsPoses)'
      BY <3>1, <3>2 DEF GInv, ChampsPoses, SeuilsPoses, EcartsPoses
    <3>4. TerrainPose'
      BY <3>1, <3>2 DEF GInv, TerrainPose
    <3>5. (TiragePose /\ FoyersPoses)'
      BY <3>1, <3>2 DEF GInv, TiragePose, TirageEnCours, FoyersPoses, Distincts
    <3>6. VentsPoses'
      BY <3>1, <3>2 DEF GInv, VentsPoses, Vents
    <3> QED
      BY <3>3, <3>4, <3>5, <3>6 DEF GInv
  <2> QED
    BY <2>1, GInvChamps, GInvSeuils, GInvEau, GInvForet, GInvVent, GInvTire, GInvFinVent,
       GInvRend DEF Next
<1> QED
  BY <1>1, GInvInit, PTL DEF Spec

-----------------------------------------------------------------------------
(* A part that is empty, or everything, stays so for the complement.       *)
LEMMA Complementaire ==
  ASSUME NEW q \in Proportions
  PROVE  /\ Complement(q) \in Proportions /\ Complement(q).den = q.den
         /\ Complement(q).num = q.den - q.num
  BY DEF Proportions, Complement

(* What the thresholds of water cut.                                       *)
LEMMA EauxJustes ==
  ASSUME GInv, pc = "eau"
  PROVE  /\ Juste(Lacs, alt, cfg.Lakes) /\ Juste(Rivieres, ecart, cfg.Rivers)
         /\ cfg.Lakes.num <= 0 => Lacs = {}
         /\ cfg.Lakes.num >= cfg.Lakes.den => Lacs = Indices
         /\ cfg.Rivers.num <= 0 => Rivieres = {}
         /\ Cardinality(Indices) > 1 /\ cfg.Rivers.num >= cfg.Rivers.den => Rivieres = Indices
         /\ Cardinality(Indices) = 1 => Rivieres = {}
<1>1. /\ cfg \in Configs /\ alt \in [Indices -> Nat] /\ EcartsPoses(ecart)
      /\ seuils.bassin \in Quantile(alt, cfg.Lakes)
      /\ seuils.berge \in Quantile(ecart, cfg.Rivers)
  BY DEF GInv, ChampsPoses, SeuilsPoses
<1>2. /\ Indices \in SUBSET Int /\ IsFiniteSet(Indices)
      /\ cfg.Lakes \in Proportions /\ cfg.Rivers \in Proportions
  BY <1>1, Formes
<1>3. /\ alt \in [Indices -> Reels] /\ ecart \in [Indices -> Reels]
      /\ \A i \in Indices : alt[i] # PlusInf
  BY <1>1 DEF EcartsPoses, Reels, PlusInf
<1>4. Lacs = Sous(alt, seuils.bassin) /\ Rivieres = Sous(ecart, seuils.berge)
  BY <1>1, <1>3 DEF Lacs, Rivieres, Sous
<1>5. /\ Juste(Lacs, alt, cfg.Lakes)
      /\ cfg.Lakes.num <= 0 => Lacs = {}
      /\ cfg.Lakes.num >= cfg.Lakes.den => Lacs = Indices
  <2> DEFINE s == seuils.bassin
  <2>1. s \in Quantile(alt, cfg.Lakes) /\ Lacs = Sous(alt, s)
    BY <1>1, <1>4
  <2> HIDE DEF s
  <2> QED
    BY <1>2, <1>3, <2>1, QuantileJuste
<1>6. /\ Juste(Rivieres, ecart, cfg.Rivers)
      /\ cfg.Rivers.num <= 0 => Rivieres = {}
      /\ cfg.Rivers.num >= cfg.Rivers.den /\ (\A i \in Indices : ecart[i] # PlusInf)
           => Rivieres = Indices
  <2> DEFINE s == seuils.berge
  <2>1. s \in Quantile(ecart, cfg.Rivers) /\ Rivieres = Sous(ecart, s)
    BY <1>1, <1>4
  <2> HIDE DEF s
  <2> QED
    BY <1>2, <1>3, <2>1, QuantileJuste
<1>7. Cardinality(Indices) = 1 => Rivieres = {}
  BY <1>1 DEF EcartsPoses, Rivieres, Dessous
<1> QED
  BY <1>1, <1>5, <1>6, <1>7 DEF EcartsPoses

(* What the threshold of the forest cuts.                                  *)
LEMMA ForetJuste ==
  ASSUME GInv, pc = "vent"
  PROVE  LET plaine == {i \in Seches : terrain[i] = Plain}
             foret == {i \in Seches : terrain[i] = Forest}
         IN  /\ Juste(plaine, [i \in Seches |-> veg[i]], Complement(cfg.Forest))
             /\ cfg.Forest.num <= 0 => foret = {}
             /\ cfg.Forest.num >= cfg.Forest.den => foret = Seches
<1> DEFINE plaine == {i \in Seches : terrain[i] = Plain}
           foret == {i \in Seches : terrain[i] = Forest}
           g == [i \in Seches |-> veg[i]]
           q == Complement(cfg.Forest)
<1>1. /\ cfg \in Configs /\ veg \in [Indices -> Nat] /\ terrain \in [Indices -> Terrains]
      /\ cfg.Forest \in Proportions /\ Seches \in SUBSET Indices /\ Seches \in SUBSET Int
      /\ IsFiniteSet(Seches)
  BY Formes DEF GInv, ChampsPoses, TerrainPose
<1>2. PICK lisiere \in Quantile(g, q) :
        \A i \in Seches : terrain[i] = Plain <=> Dessous(veg[i], lisiere)
  BY DEF GInv, TerrainPose
<1>3. /\ g \in [Seches -> Reels] /\ \A i \in Seches : g[i] # PlusInf
  BY <1>1 DEF Reels, PlusInf
<1>4. plaine = Sous(g, lisiere)
  BY <1>2 DEF Sous
<1>5. foret = Seches \ plaine
  BY <1>1 DEF Seches, Terrains, Plain, Forest, Water
<1>6. q \in Proportions /\ q.den = cfg.Forest.den /\ q.num = cfg.Forest.den - cfg.Forest.num
  BY <1>1, Complementaire
<1>7. /\ Juste(plaine, g, q)
      /\ q.num <= 0 => plaine = {}
      /\ q.num >= q.den => plaine = Seches
  <2> HIDE DEF plaine, g, q
  <2> QED
    BY <1>1, <1>2, <1>3, <1>4, <1>6, QuantileJuste
<1>8. cfg.Forest.num \in Int /\ cfg.Forest.den \in Int
  BY <1>1 DEF Proportions
<1>9. /\ cfg.Forest.num <= 0 => q.num >= q.den
      /\ cfg.Forest.num >= cfg.Forest.den => q.num <= 0
  BY <1>6, <1>8
<1> QED
  BY <1>5, <1>7, <1>9

(* Lakes, banks and open land never exceed the proportion asked of the     *)
(* cells they are taken from, and fall short of it by less than a cell or  *)
(* two: quantile of carte.go, whatever the size and the numbers drawn.     *)
THEOREM Proportionnee == Spec => []ProportionsTenues
<1>1. GInv => ProportionsTenues
  BY EauxJustes, ForetJuste DEF ProportionsTenues
<1> QED
  BY <1>1, GInvTient, PTL

(* Nothing asked, nothing given; everything asked, everything given.       *)
THEOREM ExtremesTenus == Spec => []Extremes
<1>1. GInv => Extremes
  BY EauxJustes, ForetJuste DEF Extremes
<1> QED
  BY <1>1, GInvTient, PTL

(* The map Generate returns is one the engines accept, with its fires and  *)
(* winds on cells that burn, in the numbers asked for.                     *)
THEOREM Jouable == Spec => []CarteJouable
<1>1. ASSUME GInv, pc = "rendu"
      PROVE  WellFormed(Carte)
  <2> DEFINE W == cfg.Width
             H == cfg.Height
             C == (0 .. W - 1) \X (0 .. H - 1)
             indice(c) == c[2] * W + c[1]
             case(i) == <<i % W, i \div W>>
             ter == [c \in C |-> terrain[indice(c)]]
             ven == [c \in C |-> wind[indice(c)]]
             foy == [k \in DOMAIN fires |-> case(fires[k])]
  <2>1. /\ W \in Nat \ {0} /\ H \in Nat \ {0} /\ terrain \in [Indices -> Terrains]
        /\ wind \in [Indices -> 0..8] /\ fires \in Seq(Indices)
    <3>1. cfg \in Configs /\ fires \in Seq(Seches)
      BY <1>1 DEF GInv, ChampsPoses, FoyersPoses, Distincts
    <3>2. Seches \in SUBSET Indices
      BY DEF Seches
    <3>3. fires \in Seq(Indices)
      BY <3>1, <3>2
    <3> QED
      BY <1>1, <3>1, <3>3, Formes DEF GInv, TerrainPose, VentsPoses
  <2>2. \A c \in C : indice(c) \in Indices
    BY <2>1, Numerotation DEF Indices
  <2>3. \A i \in Indices : case(i) \in C
    BY <2>1, Numerotation DEF Indices
  <2>4. Carte = [width |-> W, height |-> H, terrain |-> ter, wind |-> ven, fires |-> foy]
    BY DEF Carte
  <2>5. Cells(Carte) = C
    BY <2>4 DEF Cells
  <2>6. ter \in [C -> Terrains] /\ ven \in [C -> 0..8]
    BY <2>1, <2>2
  <2>7. foy \in Seq(C)
    <3>1. Len(fires) \in Nat /\ DOMAIN fires = 1 .. Len(fires)
      BY <2>1
    <3>2. \A k \in 1 .. Len(fires) : case(fires[k]) \in C
      BY <2>1, <2>3, <3>1
    <3>3. foy \in [1 .. Len(fires) -> C]
      BY <3>1, <3>2
    <3> HIDE DEF C, foy
    <3> QED
      BY <3>1, <3>3, SeqDef
  <2> HIDE DEF C, ter, ven, foy
  <2> QED
    BY <2>1, <2>4, <2>5, <2>6, <2>7 DEF WellFormed
<1>2. ASSUME GInv, pc = "rendu"
      PROVE  \A i \in Range(fires) \cup {k \in Indices : wind[k] > 0} : terrain[i] # Water
  <2>1. Range(fires) \in SUBSET Seches
    BY <1>2 DEF GInv, FoyersPoses, Distincts, Range
  <2>2. {k \in Indices : wind[k] > 0} \in SUBSET Seches
    BY <1>2 DEF GInv, VentsPoses, Vents
  <2> QED
    BY <2>1, <2>2 DEF Seches
<1>3. ASSUME GInv, pc = "rendu"
      PROVE  /\ IsInjective(fires)
             /\ Len(fires) = Min({Max({cfg.Fires, 0}), Cardinality(Seches)})
             /\ Arrondi(cfg.Wind, Cardinality(Seches), Cardinality(Vents))
  BY <1>3 DEF GInv, FoyersPoses, VentsPoses, Distincts
<1>4. GInv => CarteJouable
  BY <1>1, <1>2, <1>3 DEF CarteJouable, Arrondi, Vents
<1> QED
  BY <1>4, GInvTient, PTL
=============================================================================
