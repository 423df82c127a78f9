--------------------------- MODULE EnginesProofs ----------------------------
(***************************************************************************)
(* What each engine does to its own memory, whatever the map.  The six     *)
(* engines are instances, so that their operators bear the engine's name;  *)
(* the first lemmas bring them back to those of the contract they share.   *)
(***************************************************************************)
EXTENDS Engines, FiniteSetTheorems, SequenceTheorems, TLAPS

(* The durations of a terrain, and which one has none.                     *)
LEMMA Durees ==
  ASSUME NEW t \in Terrains
  PROVE  /\ Combustion(t) \in 0..2 /\ Repos(t) \in 0..3
         /\ Combustion(t) = 0 <=> t = Water
  BY DEF Terrains, Combustion, Repos, Water, Plain, Forest

(* Facts on the remainder, for the torus.                                  *)
LEMMA ModPetit ==
  ASSUME NEW n \in Nat \ {0}, NEW a \in 0 .. n - 1
  PROVE  a % n = a
  BY Z3

(* The remainder stays on the ring.                                        *)
LEMMA ModBorne ==
  ASSUME NEW n \in Nat \ {0}, NEW a \in Int
  PROVE  a % n \in 0 .. n-1
  BY Z3

(* The positive modulo always lands on the torus, which is what it is for. *)
LEMMA ModDansAnneau ==
  ASSUME NEW n \in Nat \ {0}, NEW a \in Int
  PROVE  Mod(a, n) \in 0 .. n-1
  BY Z3, ModBorne DEF Mod, Reste

(* Coordinates folded on the torus are those of a cell.                    *)
LEMMA AtSurCarte ==
  ASSUME NEW m, WellFormed(m), NEW x \in Int, NEW y \in Int
  PROVE  At(m, x, y) \in Cells(m)
  BY ModDansAnneau DEF WellFormed, At, Cells

(* A direction moves by one at most on each axis.                          *)
LEMMA Deplacement ==
  ASSUME NEW d \in Directions
  PROVE  Dx(d) \in -1..1 /\ Dy(d) \in -1..1
  BY DEF Directions, Dx, Dy, Offsets

(* Every engine is started on a map.                                       *)
LEMMA CartesFormees ==
  ASSUME NEW n \in Names, NEW m \in MapsDe[n]
  PROVE  WellFormed(m)
  BY MapsDeAssumption DEF ToutesCartes

-----------------------------------------------------------------------------
(* ghost shares the contract of Fire.                                      *)
LEMMA ContratGhost ==
  /\ ghost!Directions = Directions
  /\ \A m : ghost!Cells(m) = Cells(m)
  /\ \A t : ghost!Combustion(t) = Combustion(t) /\ ghost!Repos(t) = Repos(t)
  /\ \A d : ghost!Dx(d) = Dx(d) /\ ghost!Dy(d) = Dy(d)
  /\ \A a, n : ghost!Mod(a, n) = Mod(a, n)
  /\ \A m, x, y : ghost!At(m, x, y) = At(m, x, y)
  /\ \A m, c : (ghost!Vente(m, c) <=> Vente(m, c)) /\ ghost!WindAt(m, c) = WindAt(m, c)
<1>1. ghost!Directions = Directions
  BY DEF ghost!Directions, Directions
<1>2. \A m : ghost!Cells(m) = Cells(m)
  BY DEF ghost!Cells, Cells
<1>3. \A t : ghost!Combustion(t) = Combustion(t) /\ ghost!Repos(t) = Repos(t)
  BY DEF ghost!Combustion, Combustion, ghost!Repos, Repos, ghost!Water, Water, ghost!Plain,
         Plain, ghost!Forest, Forest
<1>4. \A d : ghost!Dx(d) = Dx(d) /\ ghost!Dy(d) = Dy(d)
  BY DEF ghost!Dx, Dx, ghost!Dy, Dy, ghost!Offsets, Offsets
<1>5. \A a, n : ghost!Mod(a, n) = Mod(a, n)
  BY DEF ghost!Mod, Mod, ghost!Reste, Reste
<1>6. \A m, x, y : ghost!At(m, x, y) = At(m, x, y)
  BY <1>5 DEF ghost!At, At
<1>7. \A m, c : (ghost!Vente(m, c) <=> Vente(m, c)) /\ ghost!WindAt(m, c) = WindAt(m, c)
  BY DEF ghost!Vente, Vente, ghost!WindAt, WindAt
<1> QED
  BY <1>1, <1>2, <1>3, <1>4, <1>5, <1>6, <1>7

(* The row-major loop starts with nothing behind it,                       *)
LEMMA VuesDebut ==
  ASSUME NEW m, WellFormed(m)
  PROVE  ghost!Vues(m, ghost!Debut) = {} /\ ghost!Debut \in Cells(m)
  BY ContratGhost DEF WellFormed, ghost!Vues, ghost!Debut, Cells

(* ends with every cell behind it,                                         *)
LEMMA VuesFin ==
  ASSUME NEW m, WellFormed(m)
  PROVE  ghost!Vues(m, ghost!Fin(m)) = Cells(m)
  BY ContratGhost DEF WellFormed, ghost!Vues, ghost!Fin, Cells

(* and passes every cell once, in between.                                 *)
LEMMA VuesSuivante ==
  ASSUME NEW m, WellFormed(m), NEW c \in Cells(m)
  PROVE  /\ ghost!Suivante(m, c) \in Cells(m) \cup {ghost!Fin(m)}
         /\ ghost!Vues(m, ghost!Suivante(m, c)) = ghost!Vues(m, c) \cup {c}
         /\ c \notin ghost!Vues(m, c)
<1>1. /\ m.width \in Nat \ {0} /\ m.height \in Nat \ {0}
      /\ c[1] \in 0 .. m.width - 1 /\ c[2] \in 0 .. m.height - 1
      /\ c = <<c[1], c[2]>>
  BY DEF WellFormed, Cells
<1>2. ghost!Suivante(m, c) \in Cells(m) \cup {ghost!Fin(m)}
  BY <1>1 DEF ghost!Suivante, Cells, ghost!Fin
<1>3. ASSUME NEW b \in Cells(m)
      PROVE  b \in ghost!Vues(m, ghost!Suivante(m, c)) <=> b \in ghost!Vues(m, c) \cup {c}
  <2>1. /\ b[1] \in 0 .. m.width - 1 /\ b[2] \in 0 .. m.height - 1
        /\ b = <<b[1], b[2]>>
    BY <1>1 DEF Cells
  <2>2. b = c <=> b[1] = c[1] /\ b[2] = c[2]
    BY <1>1, <2>1
  <2>3. CASE c[1] + 1 < m.width
    BY <1>1, <2>1, <2>2, <2>3, ContratGhost DEF ghost!Suivante, ghost!Vues
  <2>4. CASE ~(c[1] + 1 < m.width)
    BY <1>1, <2>1, <2>2, <2>4, ContratGhost DEF ghost!Suivante, ghost!Vues
  <2> QED
    BY <2>3, <2>4
<1>4. c \notin ghost!Vues(m, c)
  BY <1>1 DEF ghost!Vues
<1> QED
  BY <1>2, <1>3, <1>4, ContratGhost DEF ghost!Vues

(* Ageing a cell gives a cell.                                             *)
LEMMA EvolueType ==
  ASSUME NEW t \in Terrains, NEW c \in ghost!Cell, NEW i
  PROVE  ghost!Evolue(t, c, i) \in ghost!Cell
<1>1. ghost!Combustion(t) \in 0..2 /\ ghost!Repos(t) \in 0..3
  BY Durees, ContratGhost
<1>2. c.feu \in 0..2 /\ c.repos \in 0..3 /\ c = [feu |-> c.feu, repos |-> c.repos]
  BY DEF ghost!Cell
<1> QED
  BY <1>1, <1>2 DEF ghost!Evolue, ghost!Cell, ghost!Froide

-----------------------------------------------------------------------------
(* The padded buffer.  A number of the buffer is a row and a column of it. *)
LEMMA RangEtColonne ==
  ASSUME NEW s \in Nat \ {0}, NEW x \in 0 .. s - 1, NEW y \in Nat
  PROVE  (y * s + x) % s = x /\ (y * s + x) \div s = y
<1> DEFINE i == y * s + x
           q == i \div s
           r == i % s
<1>1. i \in Nat
  OBVIOUS
<1> HIDE DEF i
<1>2. i = s * q + r /\ r \in 0 .. s - 1 /\ q \in Int
  BY <1>1, Z3
<1> HIDE DEF q, r
<1>3. s * (q - y) = x - r
  BY <1>2 DEF i
<1>4. q - y = 0
  <2>1. q - y >= 1 => s * (q - y) >= s
    BY <1>2
  <2>2. q - y <= -1 => s * (q - y) <= -s
    BY <1>2
  <2> QED
    BY <1>2, <1>3, <2>1, <2>2
<1> QED
  BY <1>2, <1>3, <1>4 DEF i, q, r

(* The number of a pair of coordinates that may lie in the halo.           *)
Marge(m) == (-2 .. m.width + 1) \X (-2 .. m.height + 1)
Index(m, p) == (p[2] + 2) * ghost!Stride(m) + (p[1] + 2)

LEMMA IndexDecode ==
  ASSUME NEW m, WellFormed(m), NEW p \in Marge(m)
  PROVE  /\ Index(m, p) % ghost!Stride(m) = p[1] + 2
         /\ Index(m, p) \div ghost!Stride(m) = p[2] + 2
         /\ Index(m, p) \in 0 .. ghost!Taille(m) - 1
<1> DEFINE s == ghost!Stride(m)
<1>1. /\ m.width \in Nat \ {0} /\ m.height \in Nat \ {0}
      /\ p[1] + 2 \in 0 .. m.width + 3 /\ p[2] + 2 \in 0 .. m.height + 3
  BY DEF WellFormed, Marge
<1>2. s \in Nat \ {0} /\ s - 1 = m.width + 3
  BY <1>1 DEF ghost!Stride
<1>3. p[1] + 2 \in 0 .. s - 1 /\ p[2] + 2 \in Nat
  BY <1>1, <1>2
<1> HIDE DEF s
<1>4. Index(m, p) % s = p[1] + 2 /\ Index(m, p) \div s = p[2] + 2
  BY <1>2, <1>3, RangEtColonne DEF Index, s
<1>5. (p[2] + 2) * s + (p[1] + 2) \in 0 .. s * (m.height + 4) - 1
  <2> DEFINE y == p[2] + 2
             x == p[1] + 2
             h == m.height + 4
  <2>1. y \in Nat /\ h \in Nat /\ y <= h - 1 /\ x \in 0 .. s - 1
    BY <1>1, <1>2, <1>3
  <2> HIDE DEF x, y, h
  <2>2. y * s >= 0 /\ y * s <= (h - 1) * s /\ (h - 1) * s = s * h - s
    <3>1. h - 1 - y \in Nat
      BY <2>1
    <3>2. (h - 1 - y) * s >= 0 /\ y * s >= 0
      BY <1>2, <2>1, <3>1
    <3> QED
      BY <1>2, <2>1, <3>2
  <2>3. y * s \in Int /\ s * h \in Int
    BY <1>2, <2>1
  <2>4. y * s + x \in 0 .. s * h - 1
    BY <1>2, <2>1, <2>2, <2>3
  <2> QED
    BY <2>4 DEF x, y, h
<1> QED
  BY <1>4, <1>5 DEF Index, s, ghost!Taille

(* Two pairs have two numbers.                                             *)
LEMMA IndexInjectif ==
  ASSUME NEW m, WellFormed(m), NEW p \in Marge(m), NEW q \in Marge(m),
         Index(m, p) = Index(m, q)
  PROVE  p = q
<1>1. p[1] + 2 = q[1] + 2 /\ p[2] + 2 = q[2] + 2
  BY IndexDecode
<1>2. /\ p[1] \in Int /\ p[2] \in Int /\ q[1] \in Int /\ q[2] \in Int
      /\ p = <<p[1], p[2]>> /\ q = <<q[1], q[2]>>
  BY DEF Marge, WellFormed
<1> QED
  BY <1>1, <1>2

(* The interior holds the cells,                                           *)
LEMMA CentreEstIndex ==
  ASSUME NEW m, WellFormed(m), NEW c \in Cells(m)
  PROVE  c \in Marge(m) /\ ghost!Centre(m, c) = Index(m, c)
<1>1. /\ m.width \in Nat \ {0} /\ m.height \in Nat \ {0}
      /\ c[1] \in 0 .. m.width - 1 /\ c[2] \in 0 .. m.height - 1
      /\ c = <<c[1], c[2]>>
  BY DEF WellFormed, Cells
<1>2. c \in Marge(m)
  BY <1>1 DEF Marge
<1>3. ghost!Stride(m) \in Int
  BY <1>1 DEF ghost!Stride
<1> QED
  BY <1>1, <1>2, <1>3 DEF Index, ghost!Centre

(* and the halo what folds back on them.                                   *)
LEMMA HaloEtCible ==
  ASSUME NEW m, WellFormed(m), NEW p \in Marge(m)
  PROVE  /\ ghost!Halo(m, Index(m, p)) <=> p \notin Cells(m)
         /\ ghost!Cible(m, Index(m, p)) = Index(m, At(m, p[1], p[2]))
         /\ At(m, p[1], p[2]) \in Cells(m)
         /\ p \in Cells(m) => At(m, p[1], p[2]) = p
<1>1. /\ m.width \in Nat \ {0} /\ m.height \in Nat \ {0}
      /\ p[1] \in -2 .. m.width + 1 /\ p[2] \in -2 .. m.height + 1
      /\ p = <<p[1], p[2]>>
  BY DEF WellFormed, Marge
<1>2. p \in Cells(m) <=> p[1] \in 0 .. m.width - 1 /\ p[2] \in 0 .. m.height - 1
  BY <1>1 DEF Cells
<1>3. /\ Index(m, p) % ghost!Stride(m) = p[1] + 2
      /\ Index(m, p) \div ghost!Stride(m) = p[2] + 2
  BY IndexDecode
<1>4. ghost!Halo(m, Index(m, p)) <=>
        ~(p[1] + 2 \in 2 .. m.width + 1 /\ p[2] + 2 \in 2 .. m.height + 1)
  BY <1>3 DEF ghost!Halo
<1>5. ghost!Cible(m, Index(m, p)) =
        (Mod(p[2], m.height) + 2) * ghost!Stride(m) + Mod(p[1], m.width) + 2
  <2>1. ghost!Cible(m, Index(m, p)) =
          (ghost!Mod(p[2], m.height) + 2) * ghost!Stride(m)
            + ghost!Mod(p[1], m.width) + 2
    <3> DEFINE x == Index(m, p) % ghost!Stride(m)
               y == Index(m, p) \div ghost!Stride(m)
    <3>1. ghost!Cible(m, Index(m, p)) =
            (ghost!Mod(y - 2, m.height) + 2) * ghost!Stride(m)
              + ghost!Mod(x - 2, m.width) + 2
      BY DEF ghost!Cible
    <3>2. x = p[1] + 2 /\ y = p[2] + 2
      BY <1>3
    <3>3. y - 2 = p[2] /\ x - 2 = p[1]
      BY <1>1, <3>2
    <3> HIDE DEF x, y
    <3> QED
      BY <3>1, <3>3
  <2> QED
    BY <2>1, ContratGhost
<1>6. Mod(p[1], m.width) \in Int /\ Mod(p[2], m.height) \in Int
  BY <1>1, ModDansAnneau
<1>7. p \in Cells(m) => Mod(p[1], m.width) = p[1] /\ Mod(p[2], m.height) = p[2]
  BY <1>1, <1>2, ModPetit DEF Mod, Reste
<1>8. At(m, p[1], p[2]) \in Cells(m)
  BY <1>1, AtSurCarte
<1>9. ghost!Stride(m) \in Int
  BY <1>1 DEF ghost!Stride
<1>10. ghost!Cible(m, Index(m, p)) = Index(m, At(m, p[1], p[2]))
  BY <1>5, <1>6, <1>9 DEF Index, At
<1>11. ghost!Halo(m, Index(m, p)) <=> p \notin Cells(m)
  BY <1>1, <1>2, <1>4
<1> QED
  BY <1>1, <1>7, <1>8, <1>10, <1>11 DEF At

(* A burning cell marks the numbers of what it aims at.                    *)
LEMMA MarquesDesVisees ==
  ASSUME NEW m, WellFormed(m), NEW c \in Cells(m)
  PROVE  /\ ghost!Visees(m, c) \subseteq Marge(m)
         /\ ghost!Marques(m, c) = {Index(m, p) : p \in ghost!Visees(m, c)}
<1> DEFINE vent == m.wind[c]
           V == {d \in Directions : ~ghost!Epargne(m, c, d)}
           u == vent - 1
<1>1. /\ vent \in 0..8 /\ m.width \in Nat \ {0} /\ m.height \in Nat \ {0}
      /\ c[1] \in 0 .. m.width - 1 /\ c[2] \in 0 .. m.height - 1
  BY DEF WellFormed, Cells
<1>2. vent # 0 => u \in Directions
  BY <1>1 DEF Directions
<1>3. ghost!Visees(m, c) = {<<c[1] + Dx(d), c[2] + Dy(d)>> : d \in V}
          \cup IF vent # 0 THEN {<<c[1] + 2 * Dx(u), c[2] + 2 * Dy(u)>>} ELSE {}
  BY <1>1, ContratGhost DEF ghost!Visees, Vente, WindAt
<1>4. ghost!Marques(m, c) =
        {ghost!Centre(m, c) + ghost!Offset(m, d) : d \in V}
          \cup IF vent # 0 THEN {ghost!Centre(m, c) + 2 * ghost!Offset(m, u)} ELSE {}
  <2>1. \A d \in Directions :
          ghost!Epargne(m, c, d) <=> vent # 0 /\ ghost!Masque7(d - u) \in 3..5
    <3>1. \A d \in Directions : vent # 0 => ghost!Mod(d - u, 8) = (d - u) % 8
      <4>1. ASSUME NEW d \in Directions, vent # 0
            PROVE  Mod(d - u, 8) = (d - u) % 8
        <5>1. d - u \in -7..7
          BY <1>2, <4>1 DEF Directions
        <5> HIDE DEF u
        <5> QED
          BY <5>1 DEF Mod, Reste
      <4> QED
        BY <4>1, ContratGhost
    <3> QED
      BY <1>1, <3>1, ContratGhost
         DEF ghost!Epargne, ghost!Secteur, ghost!Masque7, Vente, WindAt
  <2> QED
    BY <2>1, ContratGhost DEF ghost!Marques
<1>5. ASSUME NEW d \in Directions, NEW n \in 1..2
      PROVE  /\ <<c[1] + n * Dx(d), c[2] + n * Dy(d)>> \in Marge(m)
             /\ ghost!Centre(m, c) + n * ghost!Offset(m, d) =
                  Index(m, <<c[1] + n * Dx(d), c[2] + n * Dy(d)>>)
  <2>1. Dx(d) \in -1..1 /\ Dy(d) \in -1..1
    BY Deplacement
  <2>2. ghost!Stride(m) \in Int
    BY <1>1 DEF ghost!Stride
  <2>3. n = 1 \/ n = 2
    OBVIOUS
  <2>4. <<c[1] + n * Dx(d), c[2] + n * Dy(d)>> \in Marge(m)
    BY <1>1, <2>1, <2>3 DEF Marge
  <2>5. ghost!Offset(m, d) = Dy(d) * ghost!Stride(m) + Dx(d)
    BY ContratGhost DEF ghost!Offset
  <2>6. ghost!Centre(m, c) + n * (Dy(d) * ghost!Stride(m) + Dx(d)) =
          Index(m, <<c[1] + n * Dx(d), c[2] + n * Dy(d)>>)
    <3>1. \A s \in Int, x \in Int, y \in Int, a \in -1..1, b \in -1..1 :
            (y + 2) * s + x + 2 + n * (b * s + a)
              = (y + n * b + 2) * s + (x + n * a + 2)
      BY <2>3
    <3> QED
      BY <1>1, <2>1, <2>2, <3>1 DEF ghost!Centre, Index
  <2> QED
    BY <2>4, <2>5, <2>6
<1>6. ASSUME NEW d \in Directions
      PROVE  /\ <<c[1] + Dx(d), c[2] + Dy(d)>> \in Marge(m)
             /\ ghost!Centre(m, c) + ghost!Offset(m, d) =
                  Index(m, <<c[1] + Dx(d), c[2] + Dy(d)>>)
  <2>1. Dx(d) \in Int /\ Dy(d) \in Int /\ ghost!Stride(m) \in Int
    BY <1>1, Deplacement DEF ghost!Stride
  <2>2. 1 * Dx(d) = Dx(d) /\ 1 * Dy(d) = Dy(d) /\ ghost!Offset(m, d) \in Int
        /\ 1 * ghost!Offset(m, d) = ghost!Offset(m, d)
    BY <2>1, ContratGhost DEF ghost!Offset
  <2>3. 1 \in 1..2
    OBVIOUS
  <2> QED
    BY <1>5, <2>2, <2>3
<1>7. vent # 0 =>
        /\ <<c[1] + 2 * Dx(u), c[2] + 2 * Dy(u)>> \in Marge(m)
        /\ ghost!Centre(m, c) + 2 * ghost!Offset(m, u) =
             Index(m, <<c[1] + 2 * Dx(u), c[2] + 2 * Dy(u)>>)
  <2>1. 2 \in 1..2
    OBVIOUS
  <2> QED
    BY <1>2, <1>5, <2>1
<1> HIDE DEF u, vent
<1>8. \A d \in V : d \in Directions
  OBVIOUS
<1> HIDE DEF V
<1> DEFINE pas(d)  == <<c[1] + Dx(d), c[2] + Dy(d)>>
           saut    == <<c[1] + 2 * Dx(u), c[2] + 2 * Dy(u)>>
           num(d)  == ghost!Centre(m, c) + ghost!Offset(m, d)
           numSaut == ghost!Centre(m, c) + 2 * ghost!Offset(m, u)
<1>9. \A d \in V : pas(d) \in Marge(m) /\ num(d) = Index(m, pas(d))
  BY <1>6, <1>8
<1>10. vent # 0 => saut \in Marge(m) /\ numSaut = Index(m, saut)
  BY <1>7
<1>11. ghost!Visees(m, c) = {pas(d) : d \in V} \cup IF vent # 0 THEN {saut} ELSE {}
  BY <1>3
<1>12. ghost!Marques(m, c) = {num(d) : d \in V} \cup IF vent # 0 THEN {numSaut} ELSE {}
  BY <1>4
<1> HIDE DEF pas, saut, num, numSaut
<1> QED
  BY <1>9, <1>10, <1>11, <1>12

(* Numbers of the buffer, and the cells they stand for once it is folded.  *)
Numeros(m) == {Index(m, p) : p \in Marge(m)}
Deplie(m, I) == {At(m, p[1], p[2]) : p \in {q \in Marge(m) : Index(m, q) \in I}}

LEMMA DeplieUnion ==
  ASSUME NEW m, NEW I, NEW J
  PROVE  Deplie(m, I \cup J) = Deplie(m, I) \cup Deplie(m, J)
  BY DEF Deplie

(* The number of a cell stands for that cell.                              *)
LEMMA DeplieCentre ==
  ASSUME NEW m, WellFormed(m), NEW c \in Cells(m)
  PROVE  Deplie(m, {Index(m, c)}) = {c}
<1>1. c \in Marge(m) /\ At(m, c[1], c[2]) = c
  BY CentreEstIndex, HaloEtCible
<1>2. \A p \in Marge(m) : Index(m, p) \in {Index(m, c)} <=> p = c
  BY <1>1, IndexInjectif
<1> QED
  BY <1>1, <1>2 DEF Deplie

(* What a burning cell marks stands for what it ignites on the torus.      *)
LEMMA DeplieMarques ==
  ASSUME NEW m, WellFormed(m), NEW c \in Cells(m)
  PROVE  /\ Deplie(m, ghost!Marques(m, c)) = ghost!Contagion(m, c)
         /\ ghost!Marques(m, c) \subseteq Numeros(m)
<1>1. /\ ghost!Visees(m, c) \subseteq Marge(m)
      /\ ghost!Marques(m, c) = {Index(m, p) : p \in ghost!Visees(m, c)}
  BY MarquesDesVisees
<1>2. \A p \in Marge(m) : Index(m, p) \in ghost!Marques(m, c) <=> p \in ghost!Visees(m, c)
  BY <1>1, IndexInjectif
<1>3. {q \in Marge(m) : Index(m, q) \in ghost!Marques(m, c)} = ghost!Visees(m, c)
  BY <1>1, <1>2
<1>4. ghost!Contagion(m, c) = {At(m, p[1], p[2]) : p \in ghost!Visees(m, c)}
  BY ContratGhost DEF ghost!Contagion
<1> QED
  BY <1>1, <1>3, <1>4 DEF Deplie, Numeros

-----------------------------------------------------------------------------
(* flat, counters and ghost seen as counters: while it folds its halo,     *)
(* ghost is still spreading, and its buffer stands for cells of the map.   *)
C == INSTANCE CountersProofs WITH
       Maps   <- ToutesCartes,
       ignite <- IF impl = "ghost" THEN Deplie(carte, ignite) ELSE ignite,
       pc     <- IF impl = "ghost" /\ pc = "fold" THEN "spread" ELSE pc,
       k      <- IF impl = "ghost" /\ pc # "new" THEN Len(carte.fires) ELSE k

LEMMA CartesDeC == \A m \in ToutesCartes : C!WellFormed(m)
  BY MapsDeAssumption
     DEF WellFormed, C!WellFormed, Cells, C!Cells, Terrains, C!Terrains, Water, C!Water,
         Plain, C!Plain, Forest, C!Forest

(* counters and ghost share the contract of Fire and the loops of Moteur.  *)
LEMMA ContratC ==
  /\ \A m : C!Cells(m) = Cells(m) /\ (C!WellFormed(m) <=> WellFormed(m))
  /\ C!Terrains = Terrains /\ C!Cell = ghost!Cell /\ C!Froide = ghost!Froide
  /\ \A t : C!Combustion(t) = Combustion(t) /\ C!Repos(t) = Repos(t)
  /\ \A m, c : /\ C!Vues(m, c) = ghost!Vues(m, c)
               /\ C!Suivante(m, c) = ghost!Suivante(m, c)
               /\ C!Finie(m, c) <=> ghost!Finie(m, c)
  /\ \A m : C!Fin(m) = ghost!Fin(m)
  /\ C!Debut = ghost!Debut
  /\ \A t, c, i : C!Evolue(t, c, i) = ghost!Evolue(t, c, i)
  /\ \A m, c : C!Contagion(m, c) = ghost!Contagion(m, c)
<1>1. C!Terrains = Terrains /\ \A m : C!Cells(m) = Cells(m)
  BY DEF C!Terrains, Terrains, C!Cells, Cells, C!Water, Water, C!Plain, Plain, C!Forest, Forest
<1>2. \A m : C!WellFormed(m) <=> WellFormed(m)
  BY <1>1 DEF C!WellFormed, WellFormed
<1>3. C!Cell = ghost!Cell /\ C!Froide = ghost!Froide /\ C!Debut = ghost!Debut
  BY DEF C!Cell, ghost!Cell, C!Froide, ghost!Froide, C!Debut, ghost!Debut
<1>4. \A t : C!Combustion(t) = Combustion(t) /\ C!Repos(t) = Repos(t)
  BY DEF C!Combustion, Combustion, C!Repos, Repos, C!Water, Water, C!Plain, Plain, C!Forest,
         Forest
<1>5. \A m : C!Fin(m) = ghost!Fin(m)
  BY DEF C!Fin, ghost!Fin
<1>6. \A m, c : /\ C!Vues(m, c) = ghost!Vues(m, c)
                /\ C!Suivante(m, c) = ghost!Suivante(m, c)
                /\ C!Finie(m, c) <=> ghost!Finie(m, c)
  BY <1>1, <1>5, ContratGhost
     DEF C!Vues, ghost!Vues, C!Suivante, ghost!Suivante, C!Finie, ghost!Finie
<1>7. \A t, c, i : C!Evolue(t, c, i) = ghost!Evolue(t, c, i)
  BY <1>3, <1>4, ContratGhost DEF C!Evolue, ghost!Evolue
<1>8. \A m, c : C!Contagion(m, c) = ghost!Contagion(m, c)
  <2>1. \A d : C!Dx(d) = Dx(d) /\ C!Dy(d) = Dy(d)
    BY DEF C!Dx, Dx, C!Dy, Dy, C!Offsets, Offsets
  <2>2. \A a, n : C!Mod(a, n) = Mod(a, n)
    BY DEF C!Mod, Mod, C!Reste, Reste
  <2>3. \A m, c : (C!Vente(m, c) <=> Vente(m, c)) /\ C!WindAt(m, c) = WindAt(m, c)
    BY DEF C!Vente, Vente, C!WindAt, WindAt
  <2>4. \A m, c, d : C!Epargne(m, c, d) <=> ghost!Epargne(m, c, d)
    BY <2>2, <2>3, ContratGhost DEF C!Epargne, ghost!Epargne, C!Secteur, ghost!Secteur
  <2>5. C!Directions = ghost!Directions
    BY DEF C!Directions, ghost!Directions
  <2>6. ASSUME NEW m, NEW c
        PROVE  C!Visees(m, c) = ghost!Visees(m, c)
    <3>1. C!Visees(m, c) =
            {<<c[1] + Dx(d), c[2] + Dy(d)>> : d \in {e \in ghost!Directions : ~ghost!Epargne(m, c, e)}}
              \cup IF Vente(m, c)
                   THEN {<<c[1] + 2 * Dx(WindAt(m, c)), c[2] + 2 * Dy(WindAt(m, c))>>} ELSE {}
      BY <2>1, <2>3, <2>4, <2>5 DEF C!Visees
    <3>2. ghost!Visees(m, c) =
            {<<c[1] + Dx(d), c[2] + Dy(d)>> : d \in {e \in ghost!Directions : ~ghost!Epargne(m, c, e)}}
              \cup IF Vente(m, c)
                   THEN {<<c[1] + 2 * Dx(WindAt(m, c)), c[2] + 2 * Dy(WindAt(m, c))>>} ELSE {}
      BY ContratGhost DEF ghost!Visees
    <3> QED
      BY <3>1, <3>2
  <2>7. \A m, x, y : C!At(m, x, y) = ghost!At(m, x, y)
    BY <2>2, ContratGhost DEF C!At, ghost!At, At
  <2> QED
    BY <2>6, <2>7 DEF C!Contagion, ghost!Contagion
<1> QED
  BY <1>1, <1>2, <1>3, <1>4, <1>5, <1>6, <1>7, <1>8

-----------------------------------------------------------------------------
(* What ghost adds to counters: its buffer only holds numbers of the       *)
(* buffer, and once the fold has passed a number of the halo, the cell it  *)
(* stands for is marked too.                                               *)
Ferme(n) ==
  \A p \in Marge(carte) :
    Index(carte, p) \in ignite /\ Index(carte, p) < n
      => Index(carte, At(carte, p[1], p[2])) \in ignite
EnFold ==
  /\ ignite \subseteq Numeros(carte)
  /\ pc = "fold" => cur = ghost!Fin(carte) /\ k \in Nat /\ Ferme(k)
  /\ pc = "apply" => Ferme(ghost!Taille(carte))

GhostInv == C!BInv /\ EnFold

(* The numbers of a map are those of its buffer.                           *)
LEMMA NumerosBornes ==
  ASSUME NEW m, WellFormed(m), NEW i \in Numeros(m)
  PROVE  i \in Nat /\ i \in 0 .. ghost!Taille(m) - 1 /\ ghost!Taille(m) \in Nat
<1>1. PICK p \in Marge(m) : i = Index(m, p)
  BY DEF Numeros
<1>2. ghost!Taille(m) \in Nat
  <2>1. m.width + 4 \in Nat /\ m.height + 4 \in Nat
    BY DEF WellFormed
  <2>2. \A a \in Nat, b \in Nat : a * b \in Nat
    OBVIOUS
  <2> QED
    BY <2>1, <2>2 DEF ghost!Taille, ghost!Stride
<1> QED
  BY <1>1, <1>2, IndexDecode

(* Closing a buffer under the fold lights no other cell of the torus.      *)
LEMMA PliNeutre ==
  ASSUME NEW m, WellFormed(m), NEW I, NEW p \in Marge(m), Index(m, p) \in I
  PROVE  Deplie(m, I \cup {ghost!Cible(m, Index(m, p))}) = Deplie(m, I)
<1> DEFINE c == At(m, p[1], p[2])
<1>1. c \in Cells(m) /\ ghost!Cible(m, Index(m, p)) = Index(m, c)
  BY HaloEtCible
<1>2. c \in Deplie(m, I)
  BY DEF Deplie
<1> HIDE DEF c
<1>3. Deplie(m, {Index(m, c)}) = {c}
  BY <1>1, DeplieCentre
<1>4. Deplie(m, I \cup {Index(m, c)}) = Deplie(m, I) \cup {c}
  BY <1>3, DeplieUnion
<1> QED
  BY <1>1, <1>2, <1>4

LEMMA InitGhost == impl = "ghost" /\ ghost!Init => GhostInv
<1> SUFFICES ASSUME impl = "ghost", ghost!Init PROVE GhostInv
  OBVIOUS
<1>1. ignite = {} /\ pc = "new" /\ carte \in ToutesCartes
  BY DEF ghost!Init, ToutesCartes, Names
<1>2. Deplie(carte, ignite) = {}
  BY <1>1 DEF Deplie
<1>3. C!CInit
  BY <1>1, <1>2, ContratC, ContratGhost DEF C!CInit, C!Init, ghost!Init
<1>4. C!BInv
  BY <1>3, C!InitBInv, CartesDeC
<1> QED
  BY <1>1, <1>4 DEF GhostInv, EnFold

(* The state counters is shown.                                            *)
LEMMA VuGhost ==
  ASSUME impl = "ghost", GhostInv
  PROVE  /\ WellFormed(carte) /\ Len(carte.fires) \in Nat
         /\ grid \in [Cells(carte) -> ghost!Cell] /\ next \in [Cells(carte) -> ghost!Cell]
         /\ cur \in Cells(carte) \cup {ghost!Fin(carte)}
         /\ pc = "new" => k \in 0 .. Len(carte.fires)
<1>1. C!TypeOK
  BY DEF GhostInv, C!BInv, C!FInv
<1>2. WellFormed(carte)
  BY <1>1, ContratC DEF C!TypeOK
<1>3. /\ grid \in [Cells(carte) -> ghost!Cell] /\ next \in [Cells(carte) -> ghost!Cell]
      /\ cur \in Cells(carte) \cup {ghost!Fin(carte)}
  BY <1>1, ContratC DEF C!TypeOK
<1>4. pc = "new" => k \in 0 .. Len(carte.fires)
  BY <1>1 DEF C!TypeOK
<1> QED
  BY <1>2, <1>3, <1>4 DEF WellFormed

(* New and Step do in ghost what they do in counters.                      *)
LEMMA DebutGhost ==
  ASSUME impl = "ghost", impl' = impl, GhostInv, ghost!Allume \/ ghost!Pret \/ ghost!Step
  PROVE  (C!CAllume \/ C!CAutre) /\ EnFold'
<1>1. CASE ghost!Allume
  <2>1. /\ pc = "new" /\ pc' = "new" /\ k < Len(carte.fires) /\ k' = k + 1
        /\ grid' = [grid EXCEPT ![carte.fires[k']].feu =
                      Combustion(carte.terrain[carte.fires[k']])]
        /\ burning' = IF /\ grid[carte.fires[k']].feu = 0
                         /\ Combustion(carte.terrain[carte.fires[k']]) > 0
                      THEN burning + 1 ELSE burning
        /\ UNCHANGED <<carte, next, ignite, cur>>
    BY <1>1, ContratGhost DEF ghost!Allume
  <2>2. C!CAllume
    BY <2>1, ContratC DEF C!CAllume, C!Allume
  <2> QED
    BY <2>1, <2>2 DEF GhostInv, EnFold
<1>2. CASE ghost!Pret
  <2>1. /\ pc = "new" /\ pc' = "idle" /\ k = Len(carte.fires)
        /\ UNCHANGED <<carte, grid, next, ignite, burning, cur>>
    BY <1>2 DEF ghost!Pret
  <2>2. C!Pret /\ UNCHANGED burning
    BY <2>1 DEF C!Pret
  <2> QED
    BY <2>1, <2>2 DEF GhostInv, EnFold, C!CAutre
<1>3. CASE ghost!Step
  <2>1. /\ pc = "idle" /\ pc' = "spread" /\ ignite' = {} /\ cur' = ghost!Debut
        /\ UNCHANGED <<carte, grid, next, burning, k>>
    BY <1>3 DEF ghost!Step
  <2>2. Deplie(carte, {}) = {}
    BY DEF Deplie
  <2>3. C!Step /\ UNCHANGED burning
    BY <2>1, <2>2, ContratC DEF C!Step
  <2> QED
    BY <2>1, <2>3 DEF GhostInv, EnFold, C!CAutre
<1> QED
  BY <1>1, <1>2, <1>3

(* The spread marks numbers that stand for the cells it should ignite.     *)
LEMMA SpreadGhost ==
  ASSUME impl = "ghost", impl' = impl, GhostInv, ghost!Spread
  PROVE  C!CAutre /\ EnFold'
<1>1. /\ pc = "spread" /\ pc' = pc /\ ~ghost!Finie(carte, cur)
      /\ ignite' = IF grid[cur].feu = 0 THEN ignite
                   ELSE ignite \cup ghost!Marques(carte, cur)
      /\ cur' = ghost!Suivante(carte, cur)
      /\ UNCHANGED <<carte, grid, next, burning, k>>
  BY DEF ghost!Spread
<1>2. WellFormed(carte) /\ cur \in Cells(carte)
  BY <1>1, VuGhost DEF ghost!Finie
<1>3. Deplie(carte, ignite') = IF grid[cur].feu = 0 THEN Deplie(carte, ignite)
                               ELSE Deplie(carte, ignite) \cup ghost!Contagion(carte, cur)
  <2>1. Deplie(carte, ghost!Marques(carte, cur)) = ghost!Contagion(carte, cur)
    BY <1>2, DeplieMarques
  <2>2. Deplie(carte, ignite \cup ghost!Marques(carte, cur))
          = Deplie(carte, ignite) \cup ghost!Contagion(carte, cur)
    BY <2>1, DeplieUnion
  <2> QED
    BY <1>1, <2>2
<1>4. ignite' \subseteq Numeros(carte)
  BY <1>1, <1>2, DeplieMarques DEF GhostInv, EnFold
<1>5. C!Spread /\ UNCHANGED burning
  BY <1>1, <1>3, ContratC DEF C!Spread
<1> QED
  BY <1>1, <1>4, <1>5 DEF EnFold, C!CAutre

(* Entering the fold shows nothing.                                        *)
LEMMA FinSpreadGhost ==
  ASSUME impl = "ghost", impl' = impl, GhostInv, ghost!FinSpread
  PROVE  UNCHANGED C!cvars /\ EnFold'
<1>1. /\ pc = "spread" /\ pc' = "fold" /\ k' = 0 /\ cur = ghost!Fin(carte)
      /\ UNCHANGED <<carte, grid, next, ignite, burning, cur>>
  BY DEF ghost!FinSpread, ghost!Finie
<1>2. Ferme(0)'
  <2>1. \A p \in Marge(carte) : Index(carte, p) \in Nat /\ ~(Index(carte, p) < 0)
    BY VuGhost, IndexDecode
  <2> QED
    BY <1>1, <2>1 DEF Ferme
<1>3. UNCHANGED C!cvars
  BY <1>1 DEF C!cvars
<1> QED
  BY <1>1, <1>2, <1>3 DEF GhostInv, EnFold

(* Folding one number marks a cell its number already stood for.           *)
LEMMA FoldGhost ==
  ASSUME impl = "ghost", impl' = impl, GhostInv, ghost!Fold
  PROVE  UNCHANGED C!cvars /\ EnFold'
<1>1. /\ pc = "fold" /\ pc' = "fold" /\ k' = k + 1
      /\ ignite' = IF ghost!Halo(carte, k) /\ k \in ignite
                   THEN ignite \cup {ghost!Cible(carte, k)} ELSE ignite
      /\ UNCHANGED <<carte, grid, next, burning, cur>>
  BY DEF ghost!Fold
<1>2. /\ WellFormed(carte) /\ k \in Nat /\ cur = ghost!Fin(carte)
      /\ ignite \subseteq Numeros(carte) /\ Ferme(k)
  BY <1>1, VuGhost DEF GhostInv, EnFold
<1>3. \A p \in Marge(carte) : Index(carte, p) \in Nat
  BY <1>2, IndexDecode
<1>4. /\ Deplie(carte, ignite') = Deplie(carte, ignite)
      /\ ignite' \subseteq Numeros(carte)
      /\ \A p \in Marge(carte) : Index(carte, p) \in ignite' /\ Index(carte, p) < k + 1
           => Index(carte, At(carte, p[1], p[2])) \in ignite'
  <2>1. CASE ghost!Halo(carte, k) /\ k \in ignite
    <3>1. PICK q \in Marge(carte) : k = Index(carte, q)
      BY <1>2, <2>1 DEF Numeros
    <3> DEFINE c == At(carte, q[1], q[2])
    <3>2. c \in Cells(carte) /\ ghost!Cible(carte, k) = Index(carte, c)
      BY <1>2, <3>1, HaloEtCible
    <3>3. c \in Marge(carte) /\ At(carte, c[1], c[2]) = c
      BY <1>2, <3>2, CentreEstIndex, HaloEtCible
    <3>4. ignite' = ignite \cup {Index(carte, c)}
      BY <1>1, <2>1, <3>2
    <3>5. Deplie(carte, ignite') = Deplie(carte, ignite)
      BY <1>1, <1>2, <2>1, <3>1, PliNeutre
    <3>6. ASSUME NEW p \in Marge(carte), Index(carte, p) \in ignite', Index(carte, p) < k + 1
          PROVE  Index(carte, At(carte, p[1], p[2])) \in ignite'
      <4>1. CASE p = c
        BY <3>3, <3>4, <4>1
      <4>2. CASE p = q
        BY <3>4, <4>2
      <4>3. CASE p # c /\ p # q
        <5>1. Index(carte, p) # Index(carte, c) /\ Index(carte, p) # k
          BY <1>2, <3>1, <3>3, <4>3, IndexInjectif
        <5>2. Index(carte, p) \in ignite /\ Index(carte, p) < k
          BY <1>2, <1>3, <3>4, <3>6, <5>1
        <5> QED
          BY <1>2, <3>4, <5>2 DEF Ferme
      <4> QED
        BY <4>1, <4>2, <4>3
    <3>7. ignite' \subseteq Numeros(carte)
      BY <1>2, <3>3, <3>4 DEF Numeros
    <3> QED
      BY <3>5, <3>6, <3>7
  <2>2. CASE ~(ghost!Halo(carte, k) /\ k \in ignite)
    <3>1. ignite' = ignite
      BY <1>1, <2>2
    <3>2. ASSUME NEW p \in Marge(carte), Index(carte, p) \in ignite, Index(carte, p) < k + 1
          PROVE  Index(carte, At(carte, p[1], p[2])) \in ignite
      <4>1. CASE Index(carte, p) = k
        BY <1>2, <2>2, <3>2, <4>1, HaloEtCible
      <4>2. CASE Index(carte, p) < k
        BY <1>2, <3>2, <4>2 DEF Ferme
      <4> QED
        BY <1>2, <1>3, <3>2, <4>1, <4>2
    <3> QED
      BY <1>2, <3>1, <3>2
  <2> QED
    BY <2>1, <2>2
<1>5. UNCHANGED C!cvars
  BY <1>1, <1>4 DEF C!cvars
<1> QED
  BY <1>1, <1>2, <1>4, <1>5 DEF EnFold, Ferme

(* The fold has passed every number: the interior is the torus.            *)
LEMMA FinFoldGhost ==
  ASSUME impl = "ghost", impl' = impl, GhostInv, ghost!FinFold
  PROVE  C!CAutre /\ EnFold'
<1>1. /\ pc = "fold" /\ pc' = "apply" /\ k = ghost!Taille(carte) /\ cur' = ghost!Debut
      /\ UNCHANGED <<carte, grid, next, ignite, burning>>
  BY DEF ghost!FinFold
<1>2. cur = ghost!Fin(carte) /\ Ferme(ghost!Taille(carte)) /\ ignite \subseteq Numeros(carte)
  BY <1>1 DEF GhostInv, EnFold
<1>3. C!FinSpread /\ UNCHANGED burning
  BY <1>1, <1>2, ContratC DEF C!FinSpread, C!Finie
<1> QED
  BY <1>1, <1>2, <1>3 DEF EnFold, Ferme, C!CAutre

(* Once folded, an interior number is marked if it stands for an ignition. *)
LEMMA InterieurPlie ==
  ASSUME WellFormed(carte), Ferme(ghost!Taille(carte)), NEW c \in Cells(carte)
  PROVE  ghost!Centre(carte, c) \in ignite <=> c \in Deplie(carte, ignite)
<1>1. c \in Marge(carte) /\ ghost!Centre(carte, c) = Index(carte, c)
      /\ At(carte, c[1], c[2]) = c
  BY CentreEstIndex, HaloEtCible
<1>2. ASSUME c \in Deplie(carte, ignite) PROVE Index(carte, c) \in ignite
  <2>1. PICK p \in Marge(carte) : Index(carte, p) \in ignite /\ c = At(carte, p[1], p[2])
    BY <1>2 DEF Deplie
  <2>2. Index(carte, p) < ghost!Taille(carte)
    <3>1. Index(carte, p) \in 0 .. ghost!Taille(carte) - 1
      BY IndexDecode
    <3>2. ghost!Taille(carte) \in Nat
      BY NumerosBornes DEF Numeros
    <3> QED
      BY <3>1, <3>2
  <2> QED
    BY <2>1, <2>2 DEF Ferme
<1> QED
  BY <1>1, <1>2 DEF Deplie

(* Reading an interior number is asking whether the cell ignites.          *)
LEMMA ApplyGhost ==
  ASSUME impl = "ghost", impl' = impl, GhostInv, ghost!Apply
  PROVE  C!CApply /\ EnFold'
<1> DEFINE c == grid[cur]
           t == carte.terrain[cur]
           pris == ghost!Centre(carte, cur) \in ignite
           apres == ghost!Evolue(t, c, pris)
<1>1. /\ pc = "apply" /\ pc' = pc /\ ~ghost!Finie(carte, cur)
      /\ next' = [next EXCEPT ![cur] = apres]
      /\ burning' = CASE c.feu > 0 /\ apres.feu = 0 -> burning - 1
                      [] c.feu = 0 /\ apres.feu > 0 -> burning + 1
                      [] OTHER -> burning
      /\ cur' = ghost!Suivante(carte, cur)
      /\ UNCHANGED <<carte, grid, ignite, k>>
  BY DEF ghost!Apply
<1>2. /\ WellFormed(carte) /\ cur \in Cells(carte) /\ c \in ghost!Cell /\ t \in Terrains
      /\ Ferme(ghost!Taille(carte)) /\ ignite \subseteq Numeros(carte)
  BY <1>1, VuGhost DEF ghost!Finie, GhostInv, EnFold, WellFormed
<1>3. pris <=> cur \in Deplie(carte, ignite)
  BY <1>2, InterieurPlie
<1>4. apres.feu = IF c.feu > 0 THEN c.feu - 1
                  ELSE IF c.repos = 0 /\ pris THEN Combustion(t) ELSE 0
  <2>1. pris \in BOOLEAN /\ c \in C!Cell /\ t \in C!Terrains
    BY <1>2, ContratC
  <2> HIDE DEF pris, c, t
  <2>2. C!Evolue(t, c, pris).feu = IF c.feu > 0 THEN c.feu - 1
                                   ELSE IF c.repos = 0 /\ pris THEN C!Combustion(t) ELSE 0
    BY <2>1, C!EvolueCas, CartesDeC
  <2> QED
    BY <2>2, ContratC DEF apres
<1>5. /\ c.feu \in 0..2 /\ c.repos \in 0..3 /\ Combustion(t) \in 0..2
      /\ c = ghost!Froide <=> c.feu = 0 /\ c.repos = 0
  BY <1>2, Durees DEF ghost!Cell, ghost!Froide
<1>6. /\ c.feu > 0 /\ apres.feu = 0 <=> c.feu = 1
      /\ c.feu = 0 /\ apres.feu > 0 <=> c = ghost!Froide /\ pris /\ Combustion(t) > 0
  <2> HIDE DEF c, t, apres, pris
  <2> QED
    BY <1>4, <1>5
<1>7. burning' = IF c.feu = 1 THEN burning - 1
                 ELSE IF c = ghost!Froide /\ pris /\ Combustion(t) > 0 THEN burning + 1
                 ELSE burning
  <2> HIDE DEF c, t, apres, pris
  <2> QED
    BY <1>1, <1>4, <1>5, <1>6
<1>8. C!Apply
  <2>1. apres = C!Evolue(t, c, cur \in Deplie(carte, ignite))
    BY <1>3, ContratC
  <2> QED
    BY <1>1, <2>1, ContratC DEF C!Apply
<1>9. C!CApply
  <2>1. C!Eteint <=> c.feu = 1
    BY DEF C!Eteint
  <2>2. C!Prend <=> c = ghost!Froide /\ pris /\ Combustion(t) > 0
    BY <1>3, ContratC DEF C!Prend
  <2> QED
    BY <1>7, <1>8, <2>1, <2>2 DEF C!CApply
<1> QED
  BY <1>1, <1>2, <1>9 DEF EnFold, Ferme

LEMMA SwapGhost ==
  ASSUME impl = "ghost", impl' = impl, GhostInv, ghost!Swap
  PROVE  C!CAutre /\ EnFold'
<1>1. /\ pc = "apply" /\ pc' = "idle" /\ ghost!Finie(carte, cur)
      /\ grid' = next /\ next' = grid
      /\ UNCHANGED <<carte, ignite, burning, k, cur>>
  BY DEF ghost!Swap
<1>2. C!Swap
  BY <1>1, ContratC DEF C!Swap
<1> QED
  BY <1>1, <1>2 DEF C!CAutre, GhostInv, EnFold

(* ghost implements counters: its padded buffer, its marks and its fold    *)
(* are one way to spread.                                                  *)
LEMMA GhostEstCounters ==
  ASSUME impl = "ghost", impl' = impl, GhostInv, ghost!Next
  PROVE  [C!CNext]_(C!cvars) /\ EnFold'
<1>1. CASE ghost!Allume \/ ghost!Pret \/ ghost!Step
  BY <1>1, DebutGhost DEF C!CNext
<1>2. CASE ghost!Spread
  BY <1>2, SpreadGhost DEF C!CNext
<1>3. CASE ghost!FinSpread \/ ghost!Fold
  BY <1>3, FinSpreadGhost, FoldGhost
<1>4. CASE ghost!FinFold
  BY <1>4, FinFoldGhost DEF C!CNext
<1>5. CASE ghost!Apply
  BY <1>5, ApplyGhost DEF C!CNext
<1>6. CASE ghost!Swap
  BY <1>6, SwapGhost DEF C!CNext
<1> QED
  BY <1>1, <1>2, <1>3, <1>4, <1>5, <1>6 DEF ghost!Next

(* A step of the engine that was asked for, and only of that one.          *)
LEMMA SuiteGhost ==
  (impl = "ghost" => GhostInv) /\ [Next]_vars => (impl = "ghost" => GhostInv)'
<1> SUFFICES ASSUME impl = "ghost" => GhostInv, [Next]_vars, impl' = "ghost"
             PROVE  GhostInv'
  OBVIOUS
<1>1. impl = "ghost" /\ impl' = impl /\ GhostInv
  BY DEF Next, vars
<1>2. CASE Next
  <2>1. ghost!Next
    BY <1>1, <1>2 DEF Next
  <2>2. [C!CNext]_(C!cvars) /\ EnFold'
    BY <1>1, <2>1, GhostEstCounters
  <2>3. C!BInv'
    BY <1>1, <2>2, C!NextBInv, CartesDeC DEF GhostInv
  <2> QED
    BY <2>2, <2>3 DEF GhostInv
<1>3. CASE UNCHANGED vars
  <2>1. UNCHANGED <<impl, carte, grid, next, ignite, burning, pc, k, cur>>
    BY <1>3 DEF vars
  <2>2. UNCHANGED C!cvars
    BY <2>1 DEF C!cvars
  <2>3. C!BInv'
    BY <1>1, <2>2, C!NextBInv, CartesDeC DEF GhostInv
  <2> QED
    BY <1>1, <2>1, <2>3 DEF GhostInv, EnFold, Ferme
<1> QED
  BY <1>2, <1>3

LEMMA GhostTient == Spec => [](impl = "ghost" => GhostInv)
<1>1. Init => (impl = "ghost" => GhostInv)
  BY InitGhost DEF Init
<1> QED
  BY <1>1, SuiteGhost, PTL DEF Spec

(* On every map, also one smaller than the halo, no target leaves the      *)
(* padded buffer: a Go slice would panic.                                  *)
THEOREM JamaisHorsDuTampon == Spec => []DansLeTampon
<1>1. (impl = "ghost" => GhostInv) => DansLeTampon
  <2> SUFFICES ASSUME impl = "ghost", GhostInv PROVE ghost!DansLeTampon
    BY DEF DansLeTampon
  <2> QED
    BY VuGhost, NumerosBornes DEF GhostInv, EnFold, ghost!DansLeTampon
<1> QED
  BY <1>1, GhostTient, PTL

(* One pass over the halo is enough, on every map: the interior then holds *)
(* the ignitions of the torus.                                             *)
THEOREM BordsReplies == Spec => []Replie
<1>1. (impl = "ghost" => GhostInv) => Replie
  <2> SUFFICES ASSUME impl = "ghost", GhostInv, pc = "apply", NEW c \in Cells(carte)
               PROVE  ghost!Centre(carte, c) \in ignite <=>
                        \E b \in {b \in Cells(carte) : grid[b].feu > 0} :
                          c \in ghost!Contagion(carte, b)
    BY ContratGhost DEF Replie, ghost!Replie
  <2>1. WellFormed(carte) /\ Ferme(ghost!Taille(carte))
    BY VuGhost DEF GhostInv, EnFold
  <2>2. Deplie(carte, ignite) = C!Ignitions(C!Cells(carte))
    BY DEF GhostInv, C!BInv, C!FInv, C!EnApply
  <2> QED
    BY <2>1, <2>2, InterieurPlie, ContratC DEF C!Ignitions, C!Sources
<1> QED
  BY <1>1, GhostTient, PTL

-----------------------------------------------------------------------------
(* The rules share the contract of Fire, and enumerate what a burning cell *)
(* ignites in another way than the engines.                                *)
LEMMA ContratR ==
  /\ \A m : R!Cells(m) = Cells(m) /\ R!Foyers(m) = Foyers(m)
  /\ \A t : R!Combustion(t) = Combustion(t) /\ R!Repos(t) = Repos(t)
<1>1. \A m : R!Cells(m) = Cells(m) /\ R!Foyers(m) = Foyers(m)
  BY DEF R!Cells, Cells, R!Foyers, Foyers
<1>2. \A t : R!Combustion(t) = Combustion(t) /\ R!Repos(t) = Repos(t)
  BY DEF R!Combustion, Combustion, R!Repos, Repos, R!Water, Water, R!Plain, Plain,
         R!Forest, Forest
<1> QED
  BY <1>1, <1>2

LEMMA CiblesDuTore ==
  ASSUME NEW m, WellFormed(m), NEW c \in Cells(m)
  PROVE  R!Cibles(m, c) = ghost!Contagion(m, c)
<1>1. C!R!Directions = R!Directions /\ \A d : C!R!Dx(d) = R!Dx(d) /\ C!R!Dy(d) = R!Dy(d)
  BY DEF C!R!Directions, R!Directions, C!R!Dx, R!Dx, C!R!Dy, R!Dy, C!R!Offsets, R!Offsets
<1>2. \A a, n : C!R!Mod(a, n) = R!Mod(a, n)
  BY DEF C!R!Mod, R!Mod, C!R!Reste, R!Reste
<1>3. \A x, y : C!R!At(m, x, y) = R!At(m, x, y)
  BY <1>2 DEF C!R!At, R!At
<1>4. (C!R!Vente(m, c) <=> R!Vente(m, c)) /\ C!R!WindAt(m, c) = R!WindAt(m, c)
  BY DEF C!R!Vente, R!Vente, C!R!WindAt, R!WindAt
<1>5. \A d, v : C!R!Amont(d, v) <=> R!Amont(d, v)
  BY <1>2 DEF C!R!Amont, R!Amont
<1>6. C!R!Voisins(m, c) = R!Voisins(m, c)
  BY <1>1, <1>3, <1>4, <1>5 DEF C!R!Voisins, R!Voisins
<1>7. C!R!Saut(m, c) = R!Saut(m, c)
  BY <1>1, <1>3, <1>4 DEF C!R!Saut, R!Saut
<1>8. C!R!Cibles(m, c) = R!Cibles(m, c)
  BY <1>6, <1>7 DEF C!R!Cibles, R!Cibles
<1>9. C!WellFormed(m) /\ c \in C!Cells(m)
  BY ContratC
<1>10. C!Contagion(m, c) = C!R!Cibles(m, c)
  BY <1>9, C!ContagionEstCibles, CartesDeC
<1> QED
  BY <1>8, <1>10, ContratC

(* The counters of a cell one turn later, given what ignites.              *)
FeuApres(f, r, t, pris) ==
  IF f > 0 THEN f - 1 ELSE IF r = 0 /\ pris THEN Combustion(t) ELSE 0
ReposApres(f, r, t) ==
  IF f = 1 THEN Repos(t) ELSE IF f = 0 /\ r > 0 THEN r - 1 ELSE r
Ignitions(m, f) == UNION {ghost!Contagion(m, b) : b \in {b \in Cells(m) : f[b] > 0}}

(* Ageing a cell, branch by branch.                                        *)
LEMMA EvolueDevient ==
  ASSUME NEW t \in Terrains, NEW c \in ghost!Cell, NEW pris
  PROVE  /\ ghost!Evolue(t, c, pris).feu = FeuApres(c.feu, c.repos, t, pris)
         /\ ghost!Evolue(t, c, pris).repos = ReposApres(c.feu, c.repos, t)
<1>1. Combustion(t) \in 0..2 /\ Repos(t) \in 0..3
  BY Durees
<1>2. c.feu \in 0..2 /\ c.repos \in 0..3 /\ c = [feu |-> c.feu, repos |-> c.repos]
  BY DEF ghost!Cell
<1>3. c = ghost!Froide <=> c.feu = 0 /\ c.repos = 0
  BY <1>2 DEF ghost!Froide
<1> QED
  BY <1>1, <1>2, <1>3, ContratGhost DEF ghost!Evolue, FeuApres, ReposApres

(* A step that shows every cell one turn later is a turn of the rules.     *)
LEMMA TourDesRegles ==
  ASSUME WellFormed(carte), carte' = carte,
         FeuVu \in [Cells(carte) -> 0..2], ReposVu \in [Cells(carte) -> 0..3],
         FeuVu' = [c \in Cells(carte) |->
                     FeuApres(FeuVu[c], ReposVu[c], carte.terrain[c],
                              c \in Ignitions(carte, FeuVu))],
         ReposVu' = [c \in Cells(carte) |->
                       ReposApres(FeuVu[c], ReposVu[c], carte.terrain[c])]
  PROVE  R!Tour
<1> DEFINE f == FeuVu
           r == ReposVu
           E == Ignitions(carte, f)
<1>1. R!Enflammee = E
  <2>1. R!EnFeu = {b \in Cells(carte) : f[b] > 0}
    BY ContratR DEF R!EnFeu
  <2>2. \A b \in {b \in Cells(carte) : f[b] > 0} :
          R!Cibles(carte, b) = ghost!Contagion(carte, b)
    BY CiblesDuTore
  <2> QED
    BY <2>1, <2>2 DEF R!Enflammee, Ignitions
<1>2. f \in [Cells(carte) -> 0..2] /\ r \in [Cells(carte) -> 0..3]
  OBVIOUS
<1>3. /\ \A c : R!Brule(c) <=> f[c] > 0
      /\ \A c : R!Repose(c) <=> f[c] = 0 /\ r[c] > 0
      /\ \A c : R!Prend(c, E) <=> /\ f[c] = 0 /\ r[c] = 0 /\ c \in E
                                  /\ Combustion(carte.terrain[c]) > 0
  BY ContratR DEF R!Brule, R!Repose, R!Prend
<1>4. R!FeuSuivant = [c \in Cells(carte) |->
                        CASE R!Brule(c) -> f[c] - 1
                          [] R!Prend(c, E) -> Combustion(carte.terrain[c])
                          [] OTHER -> f[c]]
  BY <1>1, ContratR DEF R!FeuSuivant
<1>5. R!ReposSuivant = [c \in Cells(carte) |->
                          CASE R!Brule(c) /\ f[c] = 1 -> Repos(carte.terrain[c])
                            [] R!Repose(c) -> r[c] - 1
                            [] OTHER -> r[c]]
  BY ContratR DEF R!ReposSuivant
<1>6. R!Tour <=> f' = R!FeuSuivant /\ r' = R!ReposSuivant /\ carte' = carte
  BY DEF R!Tour
<1>7. /\ f' = [c \in Cells(carte) |->
                 FeuApres(f[c], r[c], carte.terrain[c], c \in E)]
      /\ r' = [c \in Cells(carte) |-> ReposApres(f[c], r[c], carte.terrain[c])]
  OBVIOUS
<1> HIDE DEF f, r, E
<1>8. ASSUME NEW c \in Cells(carte)
      PROVE  /\ FeuApres(f[c], r[c], carte.terrain[c], c \in E) = R!FeuSuivant[c]
             /\ ReposApres(f[c], r[c], carte.terrain[c]) = R!ReposSuivant[c]
  <2>1. Combustion(carte.terrain[c]) \in 0..2 /\ f[c] \in 0..2 /\ r[c] \in 0..3
    BY <1>2, Durees DEF WellFormed
  <2>2. /\ R!Brule(c) => ~R!Prend(c, E) /\ ~R!Repose(c)
    BY <1>3, <2>1
  <2>3. R!FeuSuivant[c] = IF R!Brule(c) THEN f[c] - 1
                          ELSE IF R!Prend(c, E) THEN Combustion(carte.terrain[c])
                          ELSE f[c]
    BY <1>4, <2>2
  <2>4. R!ReposSuivant[c] = IF R!Brule(c) /\ f[c] = 1 THEN Repos(carte.terrain[c])
                            ELSE IF R!Repose(c) THEN r[c] - 1
                            ELSE r[c]
    BY <1>5, <2>2
  <2>5. FeuApres(f[c], r[c], carte.terrain[c], c \in E) = R!FeuSuivant[c]
    BY <1>3, <2>1, <2>3 DEF FeuApres
  <2>6. ReposApres(f[c], r[c], carte.terrain[c]) = R!ReposSuivant[c]
    BY <1>3, <2>1, <2>4 DEF ReposApres
  <2> QED
    BY <2>5, <2>6
<1>9. f' = R!FeuSuivant /\ r' = R!ReposSuivant
  BY <1>4, <1>5, <1>7, <1>8
<1> QED
  BY <1>6, <1>9

-----------------------------------------------------------------------------
(* flat and counters are the engines CountersProofs is about.              *)
LEMMA ContratFlat ==
  /\ \A t : flat!Combustion(t) = C!Combustion(t)
  /\ \A m : flat!Cells(m) = C!Cells(m)
  /\ flat!Froide = C!Froide /\ flat!Debut = C!Debut
  /\ \A m, c : /\ flat!Suivante(m, c) = C!Suivante(m, c)
               /\ flat!Finie(m, c) <=> C!Finie(m, c)
               /\ flat!Contagion(m, c) = C!Contagion(m, c)
  /\ \A t, c, i : flat!Evolue(t, c, i) = C!Evolue(t, c, i)
<1>1. \A t : flat!Combustion(t) = C!Combustion(t)
  BY DEF flat!Combustion, C!Combustion, flat!Water, C!Water, flat!Plain, C!Plain,
         flat!Forest, C!Forest
<1>2. \A t, c, i : flat!Evolue(t, c, i) = C!Evolue(t, c, i)
  BY DEF flat!Evolue, C!Evolue, flat!Froide, C!Froide, flat!Combustion, C!Combustion,
         flat!Repos, C!Repos, flat!Water, C!Water, flat!Plain, C!Plain, flat!Forest, C!Forest
<1>3. \A m, c : flat!Suivante(m, c) = C!Suivante(m, c) /\ (flat!Finie(m, c) <=> C!Finie(m, c))
  BY DEF flat!Suivante, C!Suivante, flat!Finie, C!Finie, flat!Fin, C!Fin
<1>4. \A m, c : flat!Contagion(m, c) = C!Contagion(m, c)
  BY DEF flat!Contagion, C!Contagion, flat!Visees, C!Visees, flat!Epargne, C!Epargne,
         flat!Secteur, C!Secteur, flat!Vente, C!Vente, flat!WindAt, C!WindAt,
         flat!Directions, C!Directions, flat!Dx, C!Dx, flat!Dy, C!Dy, flat!Offsets, C!Offsets,
         flat!At, C!At, flat!Mod, C!Mod, flat!Reste, C!Reste
<1>5. flat!Froide = C!Froide /\ flat!Debut = C!Debut /\ \A m : flat!Cells(m) = C!Cells(m)
  BY DEF flat!Froide, C!Froide, flat!Debut, C!Debut, flat!Cells, C!Cells
<1> QED
  BY <1>1, <1>2, <1>3, <1>4, <1>5

LEMMA FlatEstFlat ==
  ASSUME impl = "flat", impl' = impl
  PROVE  flat!Next <=> C!Next
<1>1. flat!Allume <=> C!Allume
  BY ContratFlat DEF flat!Allume, C!Allume
<1>2. flat!Pret <=> C!Pret
  BY DEF flat!Pret, C!Pret
<1>3. flat!Step <=> C!Step
  BY ContratFlat DEF flat!Step, C!Step
<1>4. flat!Spread <=> C!Spread
  BY ContratFlat DEF flat!Spread, C!Spread
<1>5. flat!FinSpread <=> C!FinSpread
  BY ContratFlat DEF flat!FinSpread, C!FinSpread
<1>6. flat!Apply <=> C!Apply
  BY ContratFlat DEF flat!Apply, C!Apply
<1>7. flat!Swap <=> C!Swap
  BY ContratFlat DEF flat!Swap, C!Swap
<1> QED
  BY <1>1, <1>2, <1>3, <1>4, <1>5, <1>6, <1>7 DEF flat!Next, C!Next

LEMMA ContratCounters ==
  /\ \A t : counters!Combustion(t) = C!Combustion(t)
  /\ \A m : counters!Cells(m) = C!Cells(m)
  /\ counters!Froide = C!Froide /\ counters!Debut = C!Debut
  /\ \A m, c : /\ counters!Suivante(m, c) = C!Suivante(m, c)
               /\ counters!Finie(m, c) <=> C!Finie(m, c)
               /\ counters!Contagion(m, c) = C!Contagion(m, c)
  /\ \A t, c, i : counters!Evolue(t, c, i) = C!Evolue(t, c, i)
<1>1. \A t : counters!Combustion(t) = C!Combustion(t)
  BY DEF counters!Combustion, C!Combustion, counters!Water, C!Water, counters!Plain, C!Plain,
         counters!Forest, C!Forest
<1>2. \A t, c, i : counters!Evolue(t, c, i) = C!Evolue(t, c, i)
  BY DEF counters!Evolue, C!Evolue, counters!Froide, C!Froide, counters!Combustion,
         C!Combustion, counters!Repos, C!Repos, counters!Water, C!Water, counters!Plain,
         C!Plain, counters!Forest, C!Forest
<1>3. \A m, c : /\ counters!Suivante(m, c) = C!Suivante(m, c)
                /\ counters!Finie(m, c) <=> C!Finie(m, c)
  BY DEF counters!Suivante, C!Suivante, counters!Finie, C!Finie, counters!Fin, C!Fin
<1>4. \A m, c : counters!Contagion(m, c) = C!Contagion(m, c)
  BY DEF counters!Contagion, C!Contagion, counters!Visees, C!Visees, counters!Epargne,
         C!Epargne, counters!Secteur, C!Secteur, counters!Vente, C!Vente, counters!WindAt,
         C!WindAt, counters!Directions, C!Directions, counters!Dx, C!Dx, counters!Dy, C!Dy,
         counters!Offsets, C!Offsets, counters!At, C!At, counters!Mod, C!Mod,
         counters!Reste, C!Reste
<1>5. /\ counters!Froide = C!Froide /\ counters!Debut = C!Debut
      /\ \A m : counters!Cells(m) = C!Cells(m)
  BY DEF counters!Froide, C!Froide, counters!Debut, C!Debut, counters!Cells, C!Cells
<1> QED
  BY <1>1, <1>2, <1>3, <1>4, <1>5

LEMMA CountersEstCounters ==
  ASSUME impl = "counters", impl' = impl
  PROVE  counters!CNext <=> C!CNext
<1>1. counters!CAllume <=> C!CAllume
  BY ContratCounters DEF counters!Allume, C!Allume, counters!CAllume, C!CAllume
<1>2. counters!CAutre <=> C!CAutre
  <2>1. counters!Pret <=> C!Pret
    BY DEF counters!Pret, C!Pret
  <2>2. counters!Step <=> C!Step
    BY ContratCounters DEF counters!Step, C!Step
  <2>3. counters!Spread <=> C!Spread
    BY ContratCounters DEF counters!Spread, C!Spread
  <2>4. counters!FinSpread <=> C!FinSpread
    BY ContratCounters DEF counters!FinSpread, C!FinSpread
  <2>5. counters!Swap <=> C!Swap
    BY ContratCounters DEF counters!Swap, C!Swap
  <2> QED
    BY <2>1, <2>2, <2>3, <2>4, <2>5 DEF counters!CAutre, C!CAutre
<1>3. counters!CApply <=> C!CApply
  <2>1. counters!Apply <=> C!Apply
    BY ContratCounters DEF counters!Apply, C!Apply
  <2> QED
    BY <2>1, ContratCounters DEF counters!CApply, C!CApply, counters!Eteint, C!Eteint,
         counters!Prend, C!Prend
<1> QED
  BY <1>1, <1>2, <1>3 DEF counters!CNext, C!CNext

(* The three engines that age their cells into a second buffer.            *)
Double == impl \in {"flat", "counters", "ghost"}
Comptent == impl \in {"counters", "ghost"}
DoubleInv ==
  /\ Double => C!FInv
  /\ Comptent => C!BInv
  /\ impl = "ghost" => EnFold

(* What each of their steps is for the others.                             *)
LEMMA DoubleAvance ==
  ASSUME DoubleInv, Double, Next
  PROVE  [C!Next]_(C!vars) /\ DoubleInv'
<1>0. impl' = impl /\ C!FInv
  BY DEF Next, DoubleInv
<1>1. CASE impl = "flat"
  <2>1. C!Next
    BY <1>0, <1>1, FlatEstFlat DEF Next
  <2>2. C!FInv'
    BY <1>0, <2>1, C!NextFInv, CartesDeC
  <2> QED
    BY <1>0, <1>1, <2>1, <2>2 DEF DoubleInv, Comptent
<1>2. CASE impl \in {"counters", "ghost"}
  <2>1. [C!CNext]_(C!cvars) /\ (impl = "ghost" => EnFold')
    <3>1. CASE impl = "counters"
      BY <1>0, <3>1, CountersEstCounters DEF Next
    <3>2. CASE impl = "ghost"
      <4>1. GhostInv /\ ghost!Next
        BY <3>2 DEF DoubleInv, Comptent, GhostInv, Next
      <4> QED
        BY <1>0, <3>2, <4>1, GhostEstCounters
    <3> QED
      BY <1>2, <3>1, <3>2
  <2>2. C!BInv'
    BY <1>2, <2>1, C!NextBInv, CartesDeC DEF DoubleInv, Comptent
  <2>3. [C!Next]_(C!vars)
    BY <2>1 DEF C!CNext, C!CAllume, C!CApply, C!CAutre, C!Next, C!cvars, C!vars
  <2> QED
    BY <1>0, <1>2, <2>1, <2>2, <2>3 DEF DoubleInv, C!BInv
<1> QED
  BY <1>1, <1>2 DEF Double

LEMMA InitDouble == Init => DoubleInv
<1> SUFFICES ASSUME Init PROVE DoubleInv
  OBVIOUS
<1>1. CASE impl = "flat"
  <2>1. flat!Init
    BY <1>1 DEF Init
  <2>2. C!Init
    BY <1>1, <2>1, ContratFlat DEF flat!Init, C!Init, ToutesCartes, Names
  <2> QED
    BY <1>1, <2>2, C!InitFInv, CartesDeC DEF DoubleInv, Comptent
<1>2. CASE impl = "counters"
  <2>1. counters!CInit
    BY <1>2 DEF Init
  <2>2. C!CInit
    BY <1>2, <2>1, ContratCounters
       DEF counters!CInit, counters!Init, C!CInit, C!Init, ToutesCartes, Names
  <2>3. C!BInv
    BY <2>2, C!InitBInv, CartesDeC
  <2> QED
    BY <1>2, <2>3 DEF DoubleInv, C!BInv
<1>3. CASE impl = "ghost"
  <2>1. GhostInv
    BY <1>3, InitGhost DEF Init
  <2> QED
    BY <1>3, <2>1 DEF DoubleInv, GhostInv, C!BInv
<1> QED
  BY <1>1, <1>2, <1>3 DEF DoubleInv, Double, Comptent

LEMMA SuiteDouble == DoubleInv /\ [Next]_vars => DoubleInv'
<1> SUFFICES ASSUME DoubleInv, [Next]_vars PROVE DoubleInv'
  OBVIOUS
<1>1. CASE Next
  <2>1. CASE Double
    BY <1>1, <2>1, DoubleAvance
  <2>2. CASE ~Double
    BY <1>1, <2>2 DEF Next, DoubleInv, Double, Comptent
  <2> QED
    BY <2>1, <2>2
<1>2. CASE UNCHANGED vars
  <2>1. UNCHANGED <<impl, carte, grid, next, ignite, burning, pc, k, cur>>
    BY <1>2 DEF vars
  <2>2. UNCHANGED C!cvars /\ UNCHANGED C!vars
    BY <2>1 DEF C!cvars, C!vars
  <2>3. Double => C!FInv'
    BY <2>2, C!NextFInv, CartesDeC DEF DoubleInv
  <2>4. Comptent => C!BInv'
    BY <2>2, C!NextBInv, CartesDeC DEF DoubleInv
  <2>5. EnFold' <=> EnFold
    BY <2>1 DEF EnFold, Ferme
  <2> QED
    BY <2>1, <2>3, <2>4, <2>5 DEF DoubleInv, Double, Comptent
<1> QED
  BY <1>1, <1>2

(* What a caller sees of them.                                             *)
LEMMA VuDouble ==
  ASSUME Double, C!FInv
  PROVE  /\ WellFormed(carte)
         /\ FeuVu = [c \in Cells(carte) |->
                       IF pc = "new"
                       THEN IF c \in Foyers(carte) THEN Combustion(carte.terrain[c]) ELSE 0
                       ELSE grid[c].feu]
         /\ ReposVu = [c \in Cells(carte) |-> grid[c].repos]
         /\ grid \in [Cells(carte) -> ghost!Cell]
<1>1. FeuVu = ghost!FeuVu /\ ReposVu = ghost!ReposVu
  BY DEF FeuVu, ReposVu, Double
<1>2. \A m : ghost!Foyers(m) = Foyers(m)
  BY DEF ghost!Foyers, Foyers
<1>3. WellFormed(carte) /\ grid \in [Cells(carte) -> ghost!Cell]
  BY ContratC DEF C!FInv, C!TypeOK
<1>4. ghost!FeuVu = [c \in Cells(carte) |->
                       IF pc = "new"
                       THEN IF c \in Foyers(carte) THEN Combustion(carte.terrain[c]) ELSE 0
                       ELSE grid[c].feu]
  BY <1>2, ContratGhost DEF ghost!FeuVu
<1>5. ghost!ReposVu = [c \in Cells(carte) |-> grid[c].repos]
  BY ContratGhost DEF ghost!ReposVu
<1> QED
  BY <1>1, <1>3, <1>4, <1>5

(* Their steps are turns of the rules, or nothing.                         *)
LEMMA DoubleConforme ==
  ASSUME DoubleInv, Double, Next
  PROVE  R!Tour \/ UNCHANGED R!vars
<1> DEFINE vu(c) == IF pc = "new"
                    THEN IF c \in Foyers(carte) THEN Combustion(carte.terrain[c]) ELSE 0
                    ELSE grid[c].feu
<1>0. Double' /\ C!FInv /\ C!FInv'
  BY DoubleAvance DEF Next, DoubleInv, Double
<1>1. /\ WellFormed(carte) /\ grid \in [Cells(carte) -> ghost!Cell]
      /\ FeuVu = [c \in Cells(carte) |-> vu(c)]
      /\ ReposVu = [c \in Cells(carte) |-> grid[c].repos]
  BY <1>0, VuDouble
<1>2. carte' = carte =>
        /\ FeuVu' = [c \in Cells(carte) |-> vu(c)']
        /\ ReposVu' = [c \in Cells(carte) |-> grid'[c].repos]
  <2>1. \A m : ghost!Foyers(m) = Foyers(m)
    BY DEF ghost!Foyers, Foyers
  <2>2. FeuVu' = ghost!FeuVu' /\ ReposVu' = ghost!ReposVu'
    BY <1>0 DEF FeuVu, ReposVu, Double
  <2> QED
    BY <2>1, <2>2, ContratGhost DEF ghost!FeuVu, ghost!ReposVu
<1>3. R!vars = <<carte, FeuVu, ReposVu>> /\ R!vars' = <<carte', FeuVu', ReposVu'>>
  BY DEF R!vars
<1>4. CASE UNCHANGED C!vars
  <2>1. UNCHANGED <<carte, grid>> /\ (pc' = "new" <=> pc = "new")
    BY <1>4 DEF C!vars
  <2> QED
    BY <1>1, <1>2, <1>3, <2>1
<1>5. CASE C!Allume
  <2>1. C!EnNew /\ C!EnNew' /\ pc = "new" /\ pc' = "new" /\ carte' = carte
    BY <1>0, <1>5 DEF C!FInv, C!Allume
  <2>2. \A c \in Cells(carte) : grid[c].repos = 0 /\ grid'[c].repos = 0
    <3>1. C!Froide.repos = 0 /\ \A t : C!Allumee(t).repos = 0
      BY C!Champs, CartesDeC
    <3> QED
      BY <2>1, <3>1, ContratC DEF C!EnNew
  <2> QED
    BY <1>1, <1>2, <1>3, <2>1, <2>2
<1>6. CASE C!Pret
  <2>1. /\ C!EnNew /\ pc = "new" /\ pc' # "new" /\ k = Len(carte.fires)
        /\ UNCHANGED <<carte, grid>>
    BY <1>0, <1>6 DEF C!FInv, C!Pret
  <2>2. C!Poses = Foyers(carte)
    BY <1>1, <2>1 DEF C!Poses, Foyers, WellFormed
  <2>3. /\ C!Froide.feu = 0 /\ \A t : C!Allumee(t).feu = C!Combustion(t)
    BY C!Champs, CartesDeC
  <2>4. \A c \in Cells(carte) :
          grid[c].feu = IF c \in Foyers(carte) THEN Combustion(carte.terrain[c]) ELSE 0
    BY <2>1, <2>2, <2>3, ContratC DEF C!EnNew
  <2> QED
    BY <1>1, <1>2, <1>3, <2>1, <2>4
<1>7. CASE C!Step \/ C!Spread \/ C!FinSpread \/ C!Apply
  <2>1. UNCHANGED <<carte, grid>> /\ pc # "new" /\ pc' # "new"
    BY <1>7 DEF C!Step, C!Spread, C!FinSpread, C!Apply
  <2> QED
    BY <1>1, <1>2, <1>3, <2>1
<1>8. CASE C!Swap
  <2>1. /\ pc = "apply" /\ pc' = "idle" /\ cur = ghost!Fin(carte)
        /\ carte' = carte /\ grid' = next /\ C!EnApply
    BY <1>0, <1>8, ContratC DEF C!FInv, C!Swap, C!Finie
  <2> DEFINE E == Ignitions(carte, FeuVu)
  <2>2. \A b \in Cells(carte) : FeuVu[b] = grid[b].feu /\ ReposVu[b] = grid[b].repos
    BY <1>1, <2>1
  <2>3. \A b \in Cells(carte) : next[b] = ghost!Evolue(carte.terrain[b], grid[b], b \in E)
    <3>1. C!Sources(Cells(carte)) = {b \in Cells(carte) : FeuVu[b] > 0}
      BY <2>2 DEF C!Sources
    <3>2. C!Ignitions(C!Cells(carte)) = E
      BY <3>1, ContratC DEF C!Ignitions, Ignitions
    <3>3. \A b \in Cells(carte) : next[b] = C!Evolue(carte.terrain[b], grid[b], b \in E)
      BY <1>1, <2>1, <3>2, VuesFin, ContratC DEF C!EnApply
    <3> QED
      BY <3>3, ContratC
  <2> HIDE DEF E
  <2>4. ASSUME NEW c \in Cells(carte)
        PROVE  /\ next[c].feu = FeuApres(FeuVu[c], ReposVu[c], carte.terrain[c], c \in E)
               /\ next[c].repos = ReposApres(FeuVu[c], ReposVu[c], carte.terrain[c])
    <3>1. /\ carte.terrain[c] \in C!Terrains /\ grid[c] \in C!Cell /\ (c \in E) \in BOOLEAN
      BY <1>1, ContratC DEF WellFormed
    <3>2. /\ C!Evolue(carte.terrain[c], grid[c], c \in E).feu =
               IF grid[c].feu > 0 THEN grid[c].feu - 1
               ELSE IF grid[c].repos = 0 /\ c \in E THEN C!Combustion(carte.terrain[c]) ELSE 0
          /\ C!Evolue(carte.terrain[c], grid[c], c \in E).repos =
               IF grid[c].feu = 1 THEN C!Repos(carte.terrain[c])
               ELSE IF grid[c].feu = 0 /\ grid[c].repos > 0 THEN grid[c].repos - 1
               ELSE grid[c].repos
      BY <3>1, C!EvolueCas, CartesDeC
    <3> QED
      BY <2>2, <2>3, <3>2, ContratC DEF FeuApres, ReposApres
  <2>5. FeuVu \in [Cells(carte) -> 0..2] /\ ReposVu \in [Cells(carte) -> 0..3]
    BY <1>1, <2>1 DEF ghost!Cell
  <2>6. /\ FeuVu' = [c \in Cells(carte) |->
                       FeuApres(FeuVu[c], ReposVu[c], carte.terrain[c], c \in E)]
        /\ ReposVu' = [c \in Cells(carte) |->
                         ReposApres(FeuVu[c], ReposVu[c], carte.terrain[c])]
    BY <1>2, <2>1, <2>4
  <2> QED
    BY <1>1, <2>1, <2>5, <2>6, TourDesRegles DEF E
<1> QED
  BY <1>4, <1>5, <1>6, <1>7, <1>8, DoubleAvance DEF C!Next

-----------------------------------------------------------------------------
(* naive shares the same parts, and ages its only grid in place.           *)
LEMMA ContratNaive ==
  /\ \A t : naive!Combustion(t) = Combustion(t)
  /\ \A m : naive!Cells(m) = Cells(m) /\ naive!Foyers(m) = Foyers(m)
  /\ naive!Froide = ghost!Froide /\ naive!Debut = ghost!Debut
  /\ \A t : naive!Allumee(t) = [feu |-> Combustion(t), repos |-> 0]
  /\ \A m, c : /\ naive!Suivante(m, c) = ghost!Suivante(m, c)
               /\ naive!Finie(m, c) <=> c = ghost!Fin(m)
               /\ naive!Vues(m, c) = ghost!Vues(m, c)
               /\ naive!Contagion(m, c) = ghost!Contagion(m, c)
  /\ \A t, c, i : naive!Evolue(t, c, i) = ghost!Evolue(t, c, i)
<1>1. \A t : naive!Combustion(t) = Combustion(t)
  BY DEF naive!Combustion, Combustion, naive!Water, Water, naive!Plain, Plain,
         naive!Forest, Forest
<1>2. \A t, c, i : naive!Evolue(t, c, i) = ghost!Evolue(t, c, i)
  BY DEF naive!Evolue, ghost!Evolue, naive!Froide, ghost!Froide, naive!Combustion,
         ghost!Combustion, naive!Repos, ghost!Repos, naive!Water, ghost!Water, naive!Plain,
         ghost!Plain, naive!Forest, ghost!Forest
<1>3. \A m, c : /\ naive!Suivante(m, c) = ghost!Suivante(m, c)
                /\ naive!Finie(m, c) <=> c = ghost!Fin(m)
                /\ naive!Vues(m, c) = ghost!Vues(m, c)
  BY DEF naive!Suivante, ghost!Suivante, naive!Finie, naive!Fin, ghost!Fin, naive!Vues,
         ghost!Vues, naive!Cells, ghost!Cells
<1>4. \A m, c : naive!Contagion(m, c) = ghost!Contagion(m, c)
  BY DEF naive!Contagion, ghost!Contagion, naive!Visees, ghost!Visees, naive!Epargne,
         ghost!Epargne, naive!Secteur, ghost!Secteur, naive!Vente, ghost!Vente,
         naive!WindAt, ghost!WindAt, naive!Directions, ghost!Directions, naive!Dx, ghost!Dx,
         naive!Dy, ghost!Dy, naive!Offsets, ghost!Offsets, naive!At, ghost!At, naive!Mod,
         ghost!Mod, naive!Reste, ghost!Reste
<1>5. /\ naive!Froide = ghost!Froide /\ naive!Debut = ghost!Debut
      /\ \A m : naive!Cells(m) = Cells(m) /\ naive!Foyers(m) = Foyers(m)
  BY DEF naive!Froide, ghost!Froide, naive!Debut, ghost!Debut, naive!Cells, Cells,
         naive!Foyers, Foyers
<1>6. \A t : naive!Allumee(t) = [feu |-> Combustion(t), repos |-> 0]
  BY <1>1 DEF naive!Allumee
<1> QED
  BY <1>1, <1>2, <1>3, <1>4, <1>5, <1>6

Poses == {carte.fires[n] : n \in 1 .. k}
Laissee(c) == [feu   |-> IF c \in Poses THEN Combustion(carte.terrain[c]) ELSE 0,
               repos |-> 0]
NaiveInv ==
  /\ WellFormed(carte) /\ grid \in [Cells(carte) -> ghost!Cell]
  /\ cur \in Cells(carte) \cup {ghost!Fin(carte)}
  /\ pc \in {"new", "idle", "spread", "apply"}
  /\ pc = "new" => k \in 0 .. Len(carte.fires) /\ \A c \in Cells(carte) : grid[c] = Laissee(c)
  /\ pc = "spread" =>
       ignite = UNION {ghost!Contagion(carte, b) :
                         b \in {b \in ghost!Vues(carte, cur) : grid[b].feu > 0}}

(* One more fire of the list.                                              *)
LEMMA PoseUneDePlus ==
  ASSUME WellFormed(carte), k \in Nat, k < Len(carte.fires), k' = k + 1, carte' = carte,
         grid \in [Cells(carte) -> ghost!Cell],
         \A c \in Cells(carte) : grid[c] = Laissee(c),
         grid' = [grid EXCEPT ![carte.fires[k + 1]].feu =
                    Combustion(carte.terrain[carte.fires[k + 1]])]
  PROVE  /\ grid' \in [Cells(carte) -> ghost!Cell]
         /\ \A c \in Cells(carte) : grid'[c] = Laissee(c)'
         /\ k' \in 0 .. Len(carte.fires)
<1> DEFINE c == carte.fires[k + 1]
           t == Combustion(carte.terrain[c])
<1>1. c \in Cells(carte) /\ Len(carte.fires) \in Nat /\ Poses' = Poses \cup {c}
  BY DEF WellFormed, Poses
<1>2. t \in 0..2
  BY <1>1, Durees DEF WellFormed
<1>3. grid[c].repos = 0 /\ DOMAIN grid[c] = {"feu", "repos"}
  BY <1>1 DEF Laissee
<1>4. grid'[c] = [feu |-> t, repos |-> 0] /\ \A b \in Cells(carte) : b # c => grid'[b] = grid[b]
  BY <1>1, <1>3
<1>5. [feu |-> t, repos |-> 0] \in ghost!Cell
  BY <1>2 DEF ghost!Cell
<1>6. grid' \in [Cells(carte) -> ghost!Cell]
  <2>1. grid' = [grid EXCEPT ![c] = [feu |-> t, repos |-> 0]]
    BY <1>1, <1>4
  <2> HIDE DEF c, t
  <2> QED
    BY <1>1, <1>5, <2>1
<1> HIDE DEF c
<1> QED
  BY <1>1, <1>4, <1>6 DEF Laissee

(* What a caller sees of naive: the grid as the turn will leave it.        *)
LEMMA VuNaive ==
  ASSUME impl = "naive"
  PROVE  /\ FeuVu = [c \in Cells(carte) |-> naive!Vue[c].feu]
         /\ ReposVu = [c \in Cells(carte) |-> naive!Vue[c].repos]
  BY ContratNaive DEF FeuVu, ReposVu, naive!FeuVu, naive!ReposVu

LEMMA VuNaiveApres ==
  ASSUME impl' = "naive"
  PROVE  /\ FeuVu' = [c \in Cells(carte') |-> naive!Vue'[c].feu]
         /\ ReposVu' = [c \in Cells(carte') |-> naive!Vue'[c].repos]
  BY ContratNaive DEF FeuVu, ReposVu, naive!FeuVu, naive!ReposVu

LEMMA NouveauNaive ==
  ASSUME impl = "naive", impl' = impl, NaiveInv, naive!Allume \/ naive!Pret \/ naive!Step
  PROVE  NaiveInv' /\ UNCHANGED R!vars
<1>0. /\ WellFormed(carte) /\ grid \in [Cells(carte) -> ghost!Cell]
      /\ cur \in Cells(carte) \cup {ghost!Fin(carte)} /\ Len(carte.fires) \in Nat
  BY DEF NaiveInv, WellFormed
<1>1. /\ FeuVu = [c \in Cells(carte) |-> naive!Vue[c].feu]
      /\ ReposVu = [c \in Cells(carte) |-> naive!Vue[c].repos]
      /\ FeuVu' = [c \in Cells(carte') |-> naive!Vue'[c].feu]
      /\ ReposVu' = [c \in Cells(carte') |-> naive!Vue'[c].repos]
  BY VuNaive, VuNaiveApres
<1>2. CASE naive!Allume
  <2>1. /\ pc = "new" /\ pc' = "new" /\ k < Len(carte.fires) /\ k' = k + 1
        /\ grid' = [grid EXCEPT ![carte.fires[k + 1]].feu =
                      Combustion(carte.terrain[carte.fires[k + 1]])]
        /\ UNCHANGED <<carte, ignite, cur>>
    BY <1>2, ContratNaive DEF naive!Allume
  <2>2. k \in Nat /\ \A c \in Cells(carte) : grid[c] = Laissee(c)
    BY <1>0, <2>1 DEF NaiveInv
  <2>3. /\ grid' \in [Cells(carte) -> ghost!Cell]
        /\ \A c \in Cells(carte) : grid'[c] = Laissee(c)'
        /\ k' \in 0 .. Len(carte.fires)
    BY <1>0, <2>1, <2>2, PoseUneDePlus
  <2>4. naive!Vue' = naive!Vue
    BY <2>1 DEF naive!Vue
  <2> QED
    BY <1>0, <1>1, <2>1, <2>3, <2>4 DEF NaiveInv, R!vars
<1>3. CASE naive!Pret
  <2>1. pc = "new" /\ pc' = "idle" /\ k = Len(carte.fires) /\ UNCHANGED <<carte, grid, cur>>
    BY <1>3 DEF naive!Pret
  <2>2. Poses = Foyers(carte)
    BY <1>0, <2>1 DEF Poses, Foyers, WellFormed
  <2>3. ASSUME NEW c \in Cells(carte) PROVE naive!Vue[c] = grid[c]
    <3>1. grid[c] = Laissee(c)
      BY <2>1 DEF NaiveInv
    <3>2. naive!Vue[c] = IF c \in Foyers(carte) THEN naive!Allumee(carte.terrain[c])
                         ELSE naive!Froide
      BY <2>1, ContratNaive DEF naive!Vue
    <3> QED
      BY <2>2, <3>1, <3>2, ContratNaive DEF Laissee, ghost!Froide
  <2>4. naive!Vue' = grid
    BY <2>1 DEF naive!Vue
  <2> QED
    BY <1>0, <1>1, <2>1, <2>3, <2>4 DEF NaiveInv, R!vars
<1>4. CASE naive!Step
  <2>1. /\ pc = "idle" /\ pc' = "spread" /\ ignite' = {} /\ cur' = ghost!Debut
        /\ UNCHANGED <<carte, grid>>
    BY <1>4, ContratNaive DEF naive!Step
  <2>2. naive!Vue = grid /\ naive!Vue' = grid
    BY <2>1 DEF naive!Vue
  <2>3. ghost!Vues(carte, ghost!Debut) = {} /\ ghost!Debut \in Cells(carte)
    BY <1>0, VuesDebut
  <2> QED
    BY <1>0, <1>1, <2>1, <2>2, <2>3 DEF NaiveInv, R!vars
<1> QED
  BY <1>2, <1>3, <1>4

LEMMA PropageNaive ==
  ASSUME impl = "naive", impl' = impl, NaiveInv, naive!Spread
  PROVE  NaiveInv' /\ UNCHANGED R!vars
<1>1. /\ pc = "spread" /\ pc' = pc /\ cur \in Cells(carte) /\ cur' = ghost!Suivante(carte, cur)
      /\ ignite' = IF grid[cur].feu = 0 THEN ignite
                   ELSE ignite \cup ghost!Contagion(carte, cur)
      /\ UNCHANGED <<carte, grid, k>>
      /\ WellFormed(carte) /\ grid \in [Cells(carte) -> ghost!Cell]
      /\ ignite = UNION {ghost!Contagion(carte, b) :
                           b \in {b \in ghost!Vues(carte, cur) : grid[b].feu > 0}}
  BY ContratNaive DEF naive!Spread, NaiveInv
<1>2. /\ cur' \in Cells(carte) \cup {ghost!Fin(carte)}
      /\ ghost!Vues(carte, cur') = ghost!Vues(carte, cur) \cup {cur}
  BY <1>1, VuesSuivante
<1>3. grid[cur].feu \in 0..2
  BY <1>1 DEF ghost!Cell
<1>4. ignite' = UNION {ghost!Contagion(carte, b) :
                         b \in {b \in ghost!Vues(carte, cur') : grid[b].feu > 0}}
  BY <1>1, <1>2, <1>3
<1>5. naive!Vue = grid /\ naive!Vue' = grid
  BY <1>1 DEF naive!Vue
<1>6. UNCHANGED R!vars
  BY <1>1, <1>5, VuNaive, VuNaiveApres DEF R!vars
<1> QED
  BY <1>1, <1>2, <1>4, <1>6 DEF NaiveInv

(* The end of the spread decides the turn.                                 *)
LEMMA DecideNaive ==
  ASSUME impl = "naive", impl' = impl, NaiveInv, naive!FinSpread
  PROVE  NaiveInv' /\ R!Tour
<1>1. /\ pc = "spread" /\ pc' = "apply" /\ cur = ghost!Fin(carte) /\ cur' = ghost!Debut
      /\ UNCHANGED <<carte, grid, ignite, k>>
      /\ WellFormed(carte) /\ grid \in [Cells(carte) -> ghost!Cell]
      /\ ignite = UNION {ghost!Contagion(carte, b) :
                           b \in {b \in ghost!Vues(carte, cur) : grid[b].feu > 0}}
  BY ContratNaive DEF naive!FinSpread, NaiveInv
<1>2. naive!Vue = grid
  BY <1>1 DEF naive!Vue
<1>3. /\ FeuVu = [c \in Cells(carte) |-> grid[c].feu]
      /\ ReposVu = [c \in Cells(carte) |-> grid[c].repos]
  BY <1>2, VuNaive
<1>4. FeuVu \in [Cells(carte) -> 0..2] /\ ReposVu \in [Cells(carte) -> 0..3]
  BY <1>1, <1>3 DEF ghost!Cell
<1>5. ignite = Ignitions(carte, FeuVu)
  BY <1>1, <1>3, VuesFin DEF Ignitions
<1>6. naive!Vue' = [c \in Cells(carte) |->
                      ghost!Evolue(carte.terrain[c], grid[c], c \in ignite)]
  BY <1>1, VuesDebut, ContratNaive DEF naive!Vue
<1>7. ASSUME NEW c \in Cells(carte)
      PROVE  /\ naive!Vue'[c].feu =
                  FeuApres(FeuVu[c], ReposVu[c], carte.terrain[c], c \in ignite)
             /\ naive!Vue'[c].repos = ReposApres(FeuVu[c], ReposVu[c], carte.terrain[c])
  BY <1>1, <1>3, <1>6, EvolueDevient DEF WellFormed
<1>8. /\ FeuVu' = [c \in Cells(carte) |->
                     FeuApres(FeuVu[c], ReposVu[c], carte.terrain[c], c \in ignite)]
      /\ ReposVu' = [c \in Cells(carte) |->
                       ReposApres(FeuVu[c], ReposVu[c], carte.terrain[c])]
  BY <1>1, <1>7, VuNaiveApres
<1>9. R!Tour
  BY <1>1, <1>4, <1>5, <1>8, TourDesRegles
<1> QED
  BY <1>1, <1>9, VuesDebut DEF NaiveInv

(* Ageing the cells one after the other, in place, then shows nothing.     *)
LEMMA VieillitNaive ==
  ASSUME impl = "naive", impl' = impl, NaiveInv, naive!Apply \/ naive!Rend
  PROVE  NaiveInv' /\ UNCHANGED R!vars
<1>0. WellFormed(carte) /\ grid \in [Cells(carte) -> ghost!Cell]
  BY DEF NaiveInv
<1>1. CASE naive!Apply
  <2> DEFINE suite == ghost!Evolue(carte.terrain[cur], grid[cur], cur \in ignite)
  <2>1. /\ pc = "apply" /\ pc' = pc /\ cur \in Cells(carte)
        /\ cur' = ghost!Suivante(carte, cur)
        /\ grid' = [grid EXCEPT ![cur] = suite]
        /\ UNCHANGED <<carte, ignite, k>>
    BY <1>0, <1>1, ContratNaive DEF naive!Apply, NaiveInv
  <2>2. /\ cur' \in Cells(carte) \cup {ghost!Fin(carte)}
        /\ ghost!Vues(carte, cur') = ghost!Vues(carte, cur) \cup {cur}
        /\ cur \notin ghost!Vues(carte, cur)
    BY <1>0, <2>1, VuesSuivante
  <2>3. suite \in ghost!Cell
    BY <1>0, <2>1, EvolueType DEF WellFormed
  <2>4. naive!Vue = [c \in Cells(carte) |->
                       IF c \in ghost!Vues(carte, cur) THEN grid[c]
                       ELSE ghost!Evolue(carte.terrain[c], grid[c], c \in ignite)]
    BY <2>1, ContratNaive DEF naive!Vue
  <2>5. naive!Vue' = [c \in Cells(carte) |->
                        IF c \in ghost!Vues(carte, cur') THEN grid'[c]
                        ELSE ghost!Evolue(carte.terrain[c], grid'[c], c \in ignite)]
    BY <2>1, ContratNaive DEF naive!Vue
  <2>6. grid'[cur] = suite /\ \A c \in Cells(carte) : c # cur => grid'[c] = grid[c]
    BY <1>0, <2>1
  <2>7. naive!Vue' = naive!Vue
    BY <2>1, <2>2, <2>4, <2>5, <2>6
  <2>8. grid' \in [Cells(carte) -> ghost!Cell]
    <3> HIDE DEF suite
    <3> QED
      BY <1>0, <2>1, <2>3
  <2> QED
    BY <1>0, <2>1, <2>2, <2>7, <2>8, VuNaive, VuNaiveApres DEF NaiveInv, R!vars
<1>2. CASE naive!Rend
  <2>1. /\ pc = "apply" /\ pc' = "idle" /\ cur = ghost!Fin(carte)
        /\ UNCHANGED <<carte, grid, k, cur>>
    BY <1>2, ContratNaive DEF naive!Rend
  <2>2. naive!Vue = [c \in Cells(carte) |-> grid[c]]
    <3>1. naive!Vue = [c \in Cells(carte) |->
                         IF c \in ghost!Vues(carte, cur) THEN grid[c]
                         ELSE ghost!Evolue(carte.terrain[c], grid[c], c \in ignite)]
      BY <2>1, ContratNaive DEF naive!Vue
    <3> QED
      BY <1>0, <2>1, <3>1, VuesFin
  <2>3. naive!Vue' = grid
    BY <2>1 DEF naive!Vue
  <2> QED
    BY <1>0, <2>1, <2>2, <2>3, VuNaive, VuNaiveApres DEF NaiveInv, R!vars
<1> QED
  BY <1>1, <1>2

LEMMA NaiveAvance ==
  ASSUME impl = "naive", impl' = impl, NaiveInv, naive!Next
  PROVE  NaiveInv' /\ (R!Tour \/ UNCHANGED R!vars)
  BY NouveauNaive, PropageNaive, DecideNaive, VieillitNaive DEF naive!Next

-----------------------------------------------------------------------------
(* front.  Its lists, at the places P that count: every cell of S once.    *)
Liste(s, P, S) ==
  /\ \A x \in P, y \in P : s[x] = s[y] => x = y
  /\ {s[x] : x \in P} = S

(* The places of a list that a compaction has kept, or has still to read.  *)
Tenues(s) == 1 .. count \cup k + 1 .. Len(s)
Partout(s) == 1 .. Len(s)

Brulent == {c \in Cells(carte) : grid[c].feu > 0}
Dorment == {c \in Cells(carte) : grid[c].repos > 0}
Accueille(c) == grid[c].feu = 0 /\ grid[c].repos = 0 /\ Combustion(carte.terrain[c]) > 0

(* The targets the marking has read so far.                                *)
Lue(n, d) == n <= k \/ (n = k + 1 /\ d < j)
Visee(c) ==
  \E n \in 1 .. Len(active), d \in 0..8 :
    Lue(n, d) /\ ~front!Ignoree(active[n], d) /\ c = front!Visee(active[n], d)

FrontType ==
  /\ WellFormed(carte) /\ grid \in [Cells(carte) -> ghost!Cell]
  /\ active \in Seq(Cells(carte)) /\ resting \in Seq(Cells(carte))
  /\ pending \in Seq(Cells(carte))
  /\ pc \in {"new", "idle", "mark", "rest", "burn", "flush"}
  /\ k \in Nat /\ j \in Nat /\ count \in Nat
Places ==
  /\ Len(active) <= front!N /\ Len(resting) <= front!N /\ Len(pending) <= front!N
  /\ pc = "new"   => k <= Len(carte.fires)
  /\ pc = "mark"  => k <= Len(active) /\ j <= 8 /\ (k = Len(active) => j = 0)
  /\ pc = "rest"  => count <= k /\ k <= Len(resting)
  /\ pc = "burn"  => count <= k /\ k <= Len(active)
  /\ pc = "flush" => k <= Len(pending)
Listes ==
  /\ Liste(active, IF pc = "burn" THEN Tenues(active) ELSE Partout(active), Brulent)
  /\ Liste(resting, IF pc = "rest" THEN Tenues(resting) ELSE Partout(resting), Dorment)
  /\ Liste(pending, IF pc = "flush" THEN k + 1 .. Len(pending) ELSE Partout(pending), marked)
Marques ==
  /\ \A c \in marked : Accueille(c)
  /\ pc \in {"new", "idle"} => marked = {} /\ pending = <<>>
  /\ pc = "mark" => marked = {c \in Cells(carte) : Accueille(c) /\ Visee(c)}
Exclusifs ==
  \A c \in Brulent : grid[c].repos = 0 /\ Combustion(carte.terrain[c]) > 0

FrontInv ==
  /\ FrontType /\ Places /\ Listes /\ Marques /\ Exclusifs
  /\ pc = "new" => \A c \in Cells(carte) : grid[c] = Laissee(c)

(* A list that holds every cell of a set once is as long as the set.       *)
LEMMA LongueurListe ==
  ASSUME NEW T, NEW s \in Seq(T), NEW S, Liste(s, Partout(s), S)
  PROVE  IsFiniteSet(S) /\ Cardinality(S) = Len(s) /\ front!Contenu(s) = S
<1>1. Len(s) \in Nat /\ DOMAIN s = 1 .. Len(s)
  OBVIOUS
<1>2. s \in Bijection(1 .. Len(s), S)
  <2>1. /\ \A x \in 1 .. Len(s), y \in 1 .. Len(s) : s[x] = s[y] => x = y
        /\ {s[x] : x \in 1 .. Len(s)} = S
    BY DEF Liste, Partout
  <2>2. s \in [1 .. Len(s) -> S]
    <3>1. s = [x \in 1 .. Len(s) |-> s[x]]
      BY <1>1
    <3>2. \A x \in 1 .. Len(s) : s[x] \in S
      BY <2>1
    <3> QED
      BY <3>1, <3>2
  <2>3. \A c \in S : \E x \in 1 .. Len(s) : s[x] = c
    BY <2>1
  <2> QED
    BY <2>1, <2>2, <2>3 DEF Bijection, Injection, IsInjective, Surjection
<1>3. IsFiniteSet(S) /\ Cardinality(S) = Len(s)
  <2>1. IsFiniteSet(1 .. Len(s)) /\ Cardinality(1 .. Len(s)) = Len(s)
    <3>1. 1 \in Int /\ Len(s) \in Int
      BY <1>1
    <3>2. Cardinality(1 .. Len(s)) = IF 1 > Len(s) THEN 0 ELSE Len(s) - 1 + 1
      BY <3>1, FS_Interval
    <3> QED
      BY <1>1, <3>1, <3>2, FS_Interval
  <2>2. ExistsBijection(1 .. Len(s), S)
    BY <1>2 DEF ExistsBijection
  <2> QED
    BY <2>1, <2>2, FS_Bijection
<1>4. front!Contenu(s) = S
  BY <1>1 DEF front!Contenu, Liste, Partout
<1> QED
  BY <1>3, <1>4

(* A map has finitely many cells.                                          *)
LEMMA CellulesFinies ==
  ASSUME NEW m, WellFormed(m), NEW S, S \subseteq Cells(m)
  PROVE  IsFiniteSet(S) /\ Cardinality(S) \in Nat
<1>1. m.width - 1 \in Int /\ m.height - 1 \in Int /\ 0 \in Int
  BY DEF WellFormed
<1>2. IsFiniteSet(0 .. m.width - 1) /\ IsFiniteSet(0 .. m.height - 1)
  BY <1>1, FS_Interval
<1>3. IsFiniteSet(Cells(m))
  BY <1>2, FS_Product DEF Cells
<1>4. IsFiniteSet(S)
  BY <1>3, FS_Subset
<1> QED
  BY <1>4, FS_CardinalityType

(* On a map it is never longer than the number of cells.                   *)
LEMMA ListeTient ==
  ASSUME WellFormed(carte), NEW s \in Seq(Cells(carte)), NEW S, Liste(s, Partout(s), S)
  PROVE  Len(s) <= front!N /\ front!N \in Nat
<1>1. IsFiniteSet(S) /\ Cardinality(S) = Len(s)
  BY LongueurListe
<1>2. S \subseteq Cells(carte)
  BY DEF Liste, Partout
<1>3. IsFiniteSet(Cells(carte))
  BY CellulesFinies
<1>4. front!N = Cardinality(Cells(carte))
  <2>1. front!Cells(carte) = Cells(carte)
    BY DEF front!Cells, Cells
  <2> QED
    BY <2>1 DEF front!N, front!Cardinality, Cardinality
<1> QED
  BY <1>1, <1>2, <1>3, <1>4, FS_Subset, FS_CardinalityType

(* Appending a cell the list does not hold.                                *)
LEMMA ListeAjoute ==
  ASSUME NEW T, NEW s \in Seq(T), NEW S, Liste(s, Partout(s), S), NEW p \in T, p \notin S
  PROVE  /\ Append(s, p) \in Seq(T) /\ Len(Append(s, p)) = Len(s) + 1
         /\ Liste(Append(s, p), Partout(Append(s, p)), S \cup {p})
         /\ \A x \in 1 .. Len(s) : Append(s, p)[x] = s[x]
<1> DEFINE l == Len(s)
           a == Append(s, p)
<1>1. l \in Nat /\ a \in Seq(T) /\ Len(a) = l + 1 /\ a[l + 1] = p
      /\ \A x \in 1 .. l : a[x] = s[x]
  OBVIOUS
<1>2. /\ \A x \in 1 .. l, y \in 1 .. l : s[x] = s[y] => x = y
      /\ {s[x] : x \in 1 .. l} = S
  BY DEF Liste, Partout
<1> HIDE DEF a, l
<1>3. 1 .. l + 1 = 1 .. l \cup {l + 1} /\ l + 1 \notin 1 .. l
  BY <1>1
<1>4. \A x \in 1 .. l : a[x] # p
  BY <1>1, <1>2
<1>5. \A x \in 1 .. l + 1, y \in 1 .. l + 1 : a[x] = a[y] => x = y
  BY <1>1, <1>2, <1>3, <1>4
<1>6. {a[x] : x \in 1 .. l + 1} = S \cup {p}
  <2>1. {a[x] : x \in 1 .. l + 1} = {a[x] : x \in 1 .. l} \cup {a[l + 1]}
    BY <1>3
  <2>2. {a[x] : x \in 1 .. l} = {s[x] : x \in 1 .. l}
    BY <1>1
  <2> QED
    BY <1>1, <1>2, <2>1, <2>2
<1>7. Liste(a, 1 .. l + 1, S \cup {p})
  BY <1>5, <1>6 DEF Liste
<1> QED
  BY <1>1, <1>7 DEF a, l, Partout

(* Compacting in place: the entry read is kept at the first free place,    *)
(* which is never after it,                                                *)
LEMMA ListeGarde ==
  ASSUME NEW T, NEW s \in Seq(T), NEW S, NEW lu \in Nat, NEW n \in Nat, n <= lu, lu < Len(s),
         Liste(s, 1 .. n \cup lu + 1 .. Len(s), S)
  PROVE  LET s2 == [s EXCEPT ![n + 1] = s[lu + 1]] IN
         /\ s2 \in Seq(T) /\ Len(s2) = Len(s) /\ s[lu + 1] \in T
         /\ Liste(s2, 1 .. n + 1 \cup lu + 1 + 1 .. Len(s), S)
         /\ \A x \in lu + 1 + 1 .. Len(s) : s2[x] = s[x]
<1> DEFINE l == Len(s)
           s2 == [s EXCEPT ![n + 1] = s[lu + 1]]
           P == 1 .. n \cup lu + 1 .. l
           P2 == 1 .. n + 1 \cup lu + 1 + 1 .. l
<1>1. /\ l \in Nat /\ DOMAIN s = 1 .. l /\ n + 1 \in 1 .. l /\ lu + 1 \in 1 .. l
      /\ \A x \in 1 .. l : s[x] \in T
  OBVIOUS
<1>2. s2 \in Seq(T) /\ Len(s2) = l
  BY <1>1
<1>3. s2[n + 1] = s[lu + 1] /\ \A x \in 1 .. l : x # n + 1 => s2[x] = s[x]
  BY <1>1
<1>4. /\ \A x \in P, y \in P : s[x] = s[y] => x = y
      /\ {s[x] : x \in P} = S
  BY DEF Liste
<1> HIDE DEF s2, l
<1> DEFINE o(x) == IF x = n + 1 THEN lu + 1 ELSE x
<1>5. \A x \in P2 : s2[x] = s[o(x)] /\ o(x) \in P
  BY <1>1, <1>3
<1>6. \A x \in P2, y \in P2 : o(x) = o(y) => x = y
  BY <1>1
<1>7. \A x \in P : \E y \in P2 : o(y) = x
  <2> SUFFICES ASSUME NEW x \in P PROVE \E y \in P2 : o(y) = x
    OBVIOUS
  <2>1. CASE x = lu + 1
    <3>1. n + 1 \in P2 /\ o(n + 1) = x
      BY <1>1, <2>1
    <3> QED
      BY <3>1
  <2>2. CASE x # lu + 1
    <3>1. x \in P2 /\ o(x) = x
      BY <1>1, <2>2
    <3> QED
      BY <3>1
  <2> QED
    BY <2>1, <2>2
<1> HIDE DEF P, P2, o
<1>8. \A x \in P2, y \in P2 : s2[x] = s2[y] => x = y
  BY <1>4, <1>5, <1>6
<1>9. {s2[x] : x \in P2} = S
  BY <1>4, <1>5, <1>7
<1>10. Liste(s2, P2, S)
  BY <1>8, <1>9 DEF Liste
<1>11. \A x \in lu + 1 + 1 .. l : s2[x] = s[x]
  BY <1>1, <1>3
<1> QED
  BY <1>1, <1>2, <1>10, <1>11 DEF s2, l, P2

(* or left, and the list no longer holds its cell.                         *)
LEMMA ListeLaisse ==
  ASSUME NEW T, NEW s \in Seq(T), NEW S, NEW lu \in Nat, NEW n \in Nat, n <= lu, lu < Len(s),
         Liste(s, 1 .. n \cup lu + 1 .. Len(s), S)
  PROVE  /\ Liste(s, 1 .. n \cup lu + 1 + 1 .. Len(s), S \ {s[lu + 1]})
         /\ s[lu + 1] \in S /\ s[lu + 1] \in T
<1> DEFINE l == Len(s)
           P == 1 .. n \cup lu + 1 .. l
           P2 == 1 .. n \cup lu + 1 + 1 .. l
<1>1. l \in Nat /\ lu + 1 \in 1 .. l /\ s[lu + 1] \in T
  OBVIOUS
<1>2. /\ \A x \in P, y \in P : s[x] = s[y] => x = y
      /\ {s[x] : x \in P} = S
  BY DEF Liste
<1>3. P = P2 \cup {lu + 1} /\ lu + 1 \notin P2
  BY <1>1
<1> HIDE DEF P, P2
<1>4. \A x \in P2 : s[x] # s[lu + 1]
  BY <1>2, <1>3
<1>5. {s[x] : x \in P2} = S \ {s[lu + 1]} /\ s[lu + 1] \in S
  BY <1>2, <1>3, <1>4
<1>6. Liste(s, P2, S \ {s[lu + 1]})
  BY <1>2, <1>3, <1>5 DEF Liste
<1> QED
  BY <1>1, <1>5, <1>6 DEF P2

(* At the end of the loop the list is cut after the entries kept.          *)
LEMMA ListeCoupe ==
  ASSUME NEW T, NEW s \in Seq(T), NEW S, NEW n \in Nat, n <= Len(s),
         Liste(s, 1 .. n \cup Len(s) + 1 .. Len(s), S)
  PROVE  /\ SubSeq(s, 1, n) \in Seq(T) /\ Len(SubSeq(s, 1, n)) = n
         /\ Liste(SubSeq(s, 1, n), Partout(SubSeq(s, 1, n)), S)
<1> DEFINE c == SubSeq(s, 1, n)
<1>1. Len(s) \in Nat /\ \A x \in 1 .. n : s[x] \in T
  OBVIOUS
<1>2. c \in Seq(T) /\ Len(c) = n /\ \A x \in 1 .. n : c[x] = s[x]
  BY <1>1, SubSeqProperties
<1>3. 1 .. n \cup Len(s) + 1 .. Len(s) = 1 .. n
  BY <1>1
<1>4. /\ \A x \in 1 .. n, y \in 1 .. n : s[x] = s[y] => x = y
      /\ {s[x] : x \in 1 .. n} = S
  BY <1>3 DEF Liste
<1> HIDE DEF c
<1>5. Liste(c, 1 .. n, S)
  <2>1. {c[x] : x \in 1 .. n} = {s[x] : x \in 1 .. n}
    BY <1>2
  <2> QED
    BY <1>2, <1>4, <2>1 DEF Liste
<1> QED
  BY <1>2, <1>5 DEF c, Partout

(* front shares the contract of Fire; its wrap is the modulo of the torus. *)
LEMMA WrapEstMod ==
  ASSUME NEW n \in Nat \ {0}, NEW x \in Int
  PROVE  front!Wrap(x, n) = Mod(x, n)
<1>1. CASE x >= 0
  <2>1. x - n * (x \div n) = x % n /\ x % n \in 0 .. n - 1
    BY <1>1, Z3
  <2> QED
    BY <1>1, <2>1 DEF front!Wrap, Mod, Reste
<1>2. CASE x < 0
  <2> DEFINE y == -x
             q == y \div n
             r == y % n
  <2>1. y \in Nat /\ y > 0
    BY <1>2
  <2> HIDE DEF y
  <2>2. y = n * q + r /\ r \in 0 .. n - 1 /\ q \in Int /\ q >= 0
    BY <2>1, Z3
  <2> HIDE DEF q, r
  <2>3. CASE r = 0
    <3>1. n - 1 + y = q * n + (n - 1) /\ n - 1 \in 0 .. n - 1 /\ q \in Nat
      BY <2>2, <2>3
    <3>2. (n - 1 + y) \div n = q
      BY <3>1, RangEtColonne
    <3>3. front!Wrap(x, n) = x + n * q
      <4>1. n - 1 - x = n - 1 + y
        BY DEF y
      <4> QED
        BY <1>2, <3>2, <4>1 DEF front!Wrap
    <3>4. Mod(x, n) = 0
      BY <1>2, <2>3 DEF Mod, Reste, r, y
    <3>5. x = -(n * q)
      BY <2>2, <2>3 DEF y
    <3> QED
      BY <3>3, <3>4, <3>5, <2>2
  <2>4. CASE r > 0
    <3>1. n - 1 + y = (q + 1) * n + (r - 1) /\ r - 1 \in 0 .. n - 1 /\ q + 1 \in Nat
      BY <2>2, <2>4
    <3>2. (n - 1 + y) \div n = q + 1
      BY <3>1, RangEtColonne
    <3>3. front!Wrap(x, n) = x + n * (q + 1)
      <4>1. n - 1 - x = n - 1 + y
        BY DEF y
      <4> QED
        BY <1>2, <3>2, <4>1 DEF front!Wrap
    <3>4. Mod(x, n) = n - r
      <4>1. Reste(x, n) = -r
        BY <1>2 DEF Reste, r, y
      <4> QED
        BY <2>2, <2>4, <4>1 DEF Mod
    <3>5. x = -(n * q) - r /\ n * (q + 1) = n * q + n
      BY <2>2 DEF y
    <3>6. n * q \in Int /\ n \in Int /\ r \in Int
      BY <2>2
    <3> QED
      BY <3>3, <3>4, <3>5, <3>6
  <2> QED
    BY <2>2, <2>3, <2>4
<1> QED
  BY <1>1, <1>2

LEMMA ContratFront ==
  /\ front!Cells(carte) = Cells(carte)
  /\ \A t : front!Combustion(t) = Combustion(t) /\ front!Repos(t) = Repos(t)
  /\ \A d : front!Dx(d) = Dx(d) /\ front!Dy(d) = Dy(d)
  /\ \A S : front!Cardinality(S) = Cardinality(S)
  /\ \A c : front!Duree(c) = Combustion(carte.terrain[c])
<1>1. \A t : front!Combustion(t) = Combustion(t) /\ front!Repos(t) = Repos(t)
  BY DEF front!Combustion, Combustion, front!Repos, Repos, front!Water, Water, front!Plain,
         Plain, front!Forest, Forest
<1>2. \A d : front!Dx(d) = Dx(d) /\ front!Dy(d) = Dy(d)
  BY DEF front!Dx, Dx, front!Dy, Dy, front!Offsets, Offsets
<1>3. \A S : front!Cardinality(S) = Cardinality(S)
  BY DEF front!Cardinality, Cardinality
<1>4. front!Cells(carte) = Cells(carte)
  BY DEF front!Cells, Cells
<1>5. \A c : front!Duree(c) = Combustion(carte.terrain[c])
  BY <1>1 DEF front!Duree
<1> QED
  BY <1>1, <1>2, <1>3, <1>4, <1>5

(* The nine targets of a burning cell are what the rules say it ignites.   *)
LEMMA CiblesFront ==
  ASSUME WellFormed(carte), NEW p \in Cells(carte)
  PROVE  /\ {front!Visee(p, d) : d \in {d \in 0..8 : ~front!Ignoree(p, d)}}
              = ghost!Contagion(carte, p)
         /\ \A d \in 0..8 : ~front!Ignoree(p, d) => front!Visee(p, d) \in Cells(carte)
<1> DEFINE vent == carte.wind[p]
           u == vent - 1
           V == {d \in Directions : ~ghost!Epargne(carte, p, d)}
<1>1. /\ vent \in 0..8 /\ carte.width \in Nat \ {0} /\ carte.height \in Nat \ {0}
      /\ p[1] \in 0 .. carte.width - 1 /\ p[2] \in 0 .. carte.height - 1
  BY DEF WellFormed, Cells
<1>2. vent # 0 => u \in Directions
  BY <1>1 DEF Directions
<1>3. ASSUME NEW d \in Directions
      PROVE  /\ ghost!Epargne(carte, p, d) <=> front!Ignoree(p, d)
             /\ front!Visee(p, d) = At(carte, p[1] + Dx(d), p[2] + Dy(d))
  <2>1. d \in 0..7 /\ d < 8
    BY DEF Directions
  <2>2. vent # 0 => Mod(d - u, 8) = (d - u) % 8
    <3>1. vent # 0 => d - u \in -7..7
      BY <1>2, <2>1 DEF Directions
    <3> HIDE DEF u
    <3> QED
      BY <3>1 DEF Mod, Reste
  <2>3. ghost!Epargne(carte, p, d) <=> front!Ignoree(p, d)
    BY <1>1, <2>1, <2>2, ContratGhost
       DEF ghost!Epargne, ghost!Secteur, front!Ignoree, Vente, WindAt
  <2>4. Dx(d) \in -1..1 /\ Dy(d) \in -1..1
    BY Deplacement
  <2>5. front!Visee(p, d) = <<front!Wrap(p[1] + 1 * Dx(d), carte.width),
                              front!Wrap(p[2] + 1 * Dy(d), carte.height)>>
    BY <2>1, ContratFront DEF front!Visee
  <2>6. /\ p[1] + 1 * Dx(d) = p[1] + Dx(d) /\ p[2] + 1 * Dy(d) = p[2] + Dy(d)
        /\ p[1] + Dx(d) \in Int /\ p[2] + Dy(d) \in Int
    BY <1>1, <2>4
  <2> QED
    BY <1>1, <2>3, <2>5, <2>6, WrapEstMod DEF At
<1>4. /\ front!Ignoree(p, 8) <=> vent = 0
      /\ vent # 0 => front!Visee(p, 8) = At(carte, p[1] + 2 * Dx(u), p[2] + 2 * Dy(u))
  <2>1. front!Ignoree(p, 8) <=> vent = 0
    BY DEF front!Ignoree
  <2>2. front!Visee(p, 8) = <<front!Wrap(p[1] + 2 * Dx(u), carte.width),
                              front!Wrap(p[2] + 2 * Dy(u), carte.height)>>
    BY ContratFront DEF front!Visee
  <2>3. vent # 0 => Dx(u) \in -1..1 /\ Dy(u) \in -1..1
    BY <1>2, Deplacement
  <2>4. vent # 0 => p[1] + 2 * Dx(u) \in Int /\ p[2] + 2 * Dy(u) \in Int
    BY <1>1, <2>3
  <2> QED
    BY <1>1, <2>1, <2>2, <2>4, WrapEstMod DEF At
<1>5. ghost!Contagion(carte, p) =
        {At(carte, p[1] + Dx(d), p[2] + Dy(d)) : d \in V}
          \cup IF vent # 0 THEN {At(carte, p[1] + 2 * Dx(u), p[2] + 2 * Dy(u))} ELSE {}
  <2>1. ghost!Visees(carte, p) = {<<p[1] + Dx(d), p[2] + Dy(d)>> : d \in V}
          \cup IF vent # 0 THEN {<<p[1] + 2 * Dx(u), p[2] + 2 * Dy(u)>>} ELSE {}
    BY <1>1, ContratGhost DEF ghost!Visees, Vente, WindAt
  <2>2. ghost!Contagion(carte, p) = {At(carte, q[1], q[2]) : q \in ghost!Visees(carte, p)}
    BY ContratGhost DEF ghost!Contagion
  <2> DEFINE a(d) == <<p[1] + Dx(d), p[2] + Dy(d)>>
             b == <<p[1] + 2 * Dx(u), p[2] + 2 * Dy(u)>>
             f(q) == At(carte, q[1], q[2])
  <2>3. /\ \A d : f(a(d)) = At(carte, p[1] + Dx(d), p[2] + Dy(d))
        /\ f(b) = At(carte, p[1] + 2 * Dx(u), p[2] + 2 * Dy(u))
    OBVIOUS
  <2>4. /\ ghost!Visees(carte, p) = {a(d) : d \in V} \cup IF vent # 0 THEN {b} ELSE {}
        /\ ghost!Contagion(carte, p) = {f(q) : q \in ghost!Visees(carte, p)}
    BY <2>1, <2>2
  <2> HIDE DEF V, u, vent, a, b, f
  <2>5. ghost!Contagion(carte, p) = {f(a(d)) : d \in V} \cup IF vent # 0 THEN {f(b)} ELSE {}
    BY <2>4
  <2> QED
    BY <2>3, <2>5
<1>6. 0..8 = Directions \cup {8} /\ 8 \notin Directions
  BY DEF Directions
<1>7. {front!Visee(p, d) : d \in {d \in 0..8 : ~front!Ignoree(p, d)}} =
        {front!Visee(p, d) : d \in V} \cup IF vent # 0 THEN {front!Visee(p, 8)} ELSE {}
  <2>1. {d \in 0..8 : ~front!Ignoree(p, d)} = V \cup IF vent # 0 THEN {8} ELSE {}
    <3>1. V = {d \in Directions : ~front!Ignoree(p, d)}
      BY <1>3
    <3> HIDE DEF V, vent
    <3> QED
      BY <1>4, <1>6, <3>1
  <2> HIDE DEF V, vent
  <2> QED
    BY <2>1
<1>8. \A d \in 0..8 : ~front!Ignoree(p, d) => front!Visee(p, d) \in Cells(carte)
  <2>1. \A d \in Directions : Dx(d) \in -1..1 /\ Dy(d) \in -1..1
    BY Deplacement
  <2>2. \A x \in Int, y \in Int : At(carte, x, y) \in Cells(carte)
    BY AtSurCarte
  <2>3. \A d \in Directions : front!Visee(p, d) \in Cells(carte)
    <3>1. \A d \in Directions : p[1] + Dx(d) \in Int /\ p[2] + Dy(d) \in Int
      BY <1>1, <2>1
    <3> QED
      BY <1>3, <2>2, <3>1
  <2>4. vent # 0 => p[1] + 2 * Dx(u) \in Int /\ p[2] + 2 * Dy(u) \in Int
    BY <1>1, <1>2, <2>1
  <2>5. vent # 0 => front!Visee(p, 8) \in Cells(carte)
    BY <1>4, <2>2, <2>4
  <2> QED
    BY <1>4, <1>6, <2>3, <2>5
<1>9. {front!Visee(p, d) : d \in V} = {At(carte, p[1] + Dx(d), p[2] + Dy(d)) : d \in V}
  BY <1>3
<1> HIDE DEF V, u, vent
<1> QED
  BY <1>4, <1>5, <1>7, <1>8, <1>9

(* One counter of one cell is written.                                     *)
Ecrite(S, g, h, b, f, r) ==
  /\ h \in [S -> ghost!Cell] /\ h[b].feu = f /\ h[b].repos = r
  /\ \A c \in S : c # b => h[c] = g[c]

LEMMA PoseFeu ==
  ASSUME NEW S, NEW g \in [S -> ghost!Cell], NEW b \in S, NEW v \in 0..2,
         NEW h, h = [g EXCEPT ![b].feu = v]
  PROVE  Ecrite(S, g, h, b, v, g[b].repos)
<1>1. /\ g[b].repos \in 0..3 /\ DOMAIN g[b] = {"feu", "repos"}
      /\ g[b] = [feu |-> g[b].feu, repos |-> g[b].repos]
  BY DEF ghost!Cell
<1>2. h = [g EXCEPT ![b] = [feu |-> v, repos |-> g[b].repos]]
  <2>1. [g[b] EXCEPT !.feu = v] = [feu |-> v, repos |-> g[b].repos]
    BY <1>1
  <2> QED
    BY <2>1
<1>3. [feu |-> v, repos |-> g[b].repos] \in ghost!Cell
  BY <1>1 DEF ghost!Cell
<1> QED
  BY <1>2, <1>3 DEF Ecrite

LEMMA PoseRepos ==
  ASSUME NEW S, NEW g \in [S -> ghost!Cell], NEW b \in S, NEW v \in 0..3,
         NEW h, h = [g EXCEPT ![b].repos = v]
  PROVE  Ecrite(S, g, h, b, g[b].feu, v)
<1>1. /\ g[b].feu \in 0..2 /\ DOMAIN g[b] = {"feu", "repos"}
      /\ g[b] = [feu |-> g[b].feu, repos |-> g[b].repos]
  BY DEF ghost!Cell
<1>2. h = [g EXCEPT ![b] = [feu |-> g[b].feu, repos |-> v]]
  <2>1. [g[b] EXCEPT !.repos = v] = [feu |-> g[b].feu, repos |-> v]
    BY <1>1
  <2> QED
    BY <2>1
<1>3. [feu |-> g[b].feu, repos |-> v] \in ghost!Cell
  BY <1>1 DEF ghost!Cell
<1> QED
  BY <1>2, <1>3 DEF Ecrite

(* New lays the fires; a duplicate, or one on water, changes nothing.      *)
LEMMA AllumeFront ==
  ASSUME FrontInv, front!Allume
  PROVE  FrontInv'
<1> DEFINE b == carte.fires[k + 1]
<1>1. /\ pc = "new" /\ pc' = pc /\ k < Len(carte.fires) /\ k' = k + 1
      /\ UNCHANGED <<carte, marked, resting, pending, j, count>>
      /\ IF grid[b].feu # 0 \/ Combustion(carte.terrain[b]) = 0
         THEN UNCHANGED <<grid, active>>
         ELSE /\ grid' = [grid EXCEPT ![b].feu = Combustion(carte.terrain[b])]
              /\ active' = Append(active, b)
  BY ContratFront DEF front!Allume
<1>2. /\ WellFormed(carte) /\ grid \in [Cells(carte) -> ghost!Cell] /\ k \in Nat
      /\ active \in Seq(Cells(carte))
      /\ marked = {} /\ pending = <<>> /\ \A c \in Cells(carte) : grid[c] = Laissee(c)
      /\ Liste(active, Partout(active), Brulent)
      /\ Liste(resting, Partout(resting), Dorment)
      /\ Liste(pending, Partout(pending), marked)
  BY <1>1 DEF FrontInv, FrontType, Marques, Listes
<1>3. b \in Cells(carte) /\ Poses' = Poses \cup {b} /\ Len(carte.fires) \in Nat
  BY <1>1, <1>2 DEF WellFormed, Poses
<1>4. Combustion(carte.terrain[b]) \in 0..2
  BY <1>2, <1>3, Durees DEF WellFormed
<1>5. front!N' = front!N
  BY <1>1 DEF front!N
<1> HIDE DEF b
<1>6. /\ grid' \in [Cells(carte) -> ghost!Cell]
      /\ \A c \in Cells(carte) : grid'[c] = Laissee(c)'
      /\ active' \in Seq(Cells(carte)) /\ Len(active') <= front!N
      /\ Liste(active', Partout(active'), Brulent')
  <2>1. CASE grid[b].feu # 0 \/ Combustion(carte.terrain[b]) = 0
    <3>1. UNCHANGED <<grid, active>>
      BY <1>1, <2>1
    <3>2. \A c \in Cells(carte) : grid'[c] = Laissee(c)'
      BY <1>1, <1>2, <1>3, <2>1, <3>1 DEF Laissee
    <3>3. Brulent' = Brulent /\ Len(active) <= front!N
      BY <1>1, <3>1 DEF Brulent, FrontInv, Places
    <3> QED
      BY <1>2, <3>1, <3>2, <3>3 DEF Partout
  <2>2. CASE ~(grid[b].feu # 0 \/ Combustion(carte.terrain[b]) = 0)
    <3>1. /\ grid' = [grid EXCEPT ![b].feu = Combustion(carte.terrain[b])]
          /\ active' = Append(active, b) /\ carte' = carte
      BY <1>1, <2>2
    <3>2. /\ grid' \in [Cells(carte) -> ghost!Cell]
          /\ \A c \in Cells(carte) : grid'[c] = Laissee(c)'
      BY <1>1, <1>2, <3>1, PoseUneDePlus DEF b
    <3>3. Ecrite(Cells(carte), grid, grid', b, Combustion(carte.terrain[b]), grid[b].repos)
      BY <1>2, <1>3, <1>4, <3>1, PoseFeu
    <3>4. b \notin Brulent /\ Brulent' = Brulent \cup {b}
      BY <1>3, <1>4, <2>2, <3>1, <3>3 DEF Brulent, Ecrite
    <3>5. /\ active' \in Seq(Cells(carte))
          /\ Liste(active', Partout(active'), Brulent')
      BY <1>2, <1>3, <3>1, <3>4, ListeAjoute
    <3>6. Len(active') <= front!N
      BY <1>2, <3>5, ListeTient
    <3> QED
      BY <3>2, <3>5, <3>6
  <2> QED
    BY <2>1, <2>2
<1>7. FrontType'
  BY <1>1, <1>2, <1>6 DEF FrontInv, FrontType
<1>8. Places'
  BY <1>1, <1>2, <1>3, <1>5, <1>6 DEF FrontInv, Places
<1>9. Dorment' = Dorment
  BY <1>1, <1>2, <1>6 DEF Dorment, Laissee
<1>10. Listes'
  BY <1>1, <1>2, <1>6, <1>9 DEF Listes, Partout
<1>11. Marques'
  BY <1>1, <1>2 DEF Marques
<1>12. Exclusifs'
  BY <1>1, <1>6 DEF Exclusifs, Brulent, Laissee
<1> QED
  BY <1>1, <1>6, <1>7, <1>8, <1>10, <1>11, <1>12 DEF FrontInv

(* The loops that begin where New or the previous one ends.                *)
LEMMA EntreFront ==
  ASSUME FrontInv, front!Pret \/ front!Step \/ front!FinMark
  PROVE  FrontInv'
<1>1. /\ UNCHANGED <<carte, grid, marked, active, resting, pending>>
      /\ k' = 0 /\ j' = 0 /\ count' = 0
      /\ \/ pc = "new" /\ pc' = "idle"
         \/ pc = "idle" /\ pc' = "mark"
         \/ pc = "mark" /\ pc' = "rest"
  BY DEF front!Pret, front!Step, front!FinMark, front!Entre
<1>2. FrontType'
  BY <1>1 DEF FrontInv, FrontType
<1>3. Len(active) \in Nat /\ Len(resting) \in Nat
  BY DEF FrontInv, FrontType
<1>4. front!N' = front!N
  BY <1>1 DEF front!N
<1>5. Places'
  BY <1>1, <1>3, <1>4 DEF FrontInv, Places
<1>6. Brulent' = Brulent /\ Dorment' = Dorment /\ \A c : Accueille(c)' <=> Accueille(c)
  BY <1>1 DEF Brulent, Dorment, Accueille
<1>7. Tenues(resting)' = Partout(resting)
  <2>1. Tenues(resting)' = 1 .. 0 \cup 0 + 1 .. Len(resting)
    BY <1>1 DEF Tenues
  <2> QED
    BY <1>3, <2>1 DEF Partout
<1>8. Listes'
  BY <1>1, <1>6, <1>7 DEF FrontInv, Listes, Partout
<1>9. Marques'
  <2>1. pc' = "mark" => marked = {} /\ \A c : ~Visee(c)'
    <3>1. \A n \in 1 .. Len(active), d \in 0..8 : ~Lue(n, d)'
      BY <1>1, <1>3 DEF Lue
    <3> QED
      BY <1>1, <3>1 DEF FrontInv, Marques, Visee
  <2> QED
    BY <1>1, <1>6, <2>1 DEF FrontInv, Marques
<1>10. Exclusifs'
  BY <1>1, <1>6 DEF FrontInv, Exclusifs
<1> QED
  BY <1>1, <1>2, <1>5, <1>8, <1>9, <1>10 DEF FrontInv

(* The two loops that leave a list as long as what they kept of it.        *)
LEMMA CoupeFront ==
  ASSUME FrontInv, front!FinDort \/ front!FinBrule
  PROVE  FrontInv'
<1>1. /\ UNCHANGED <<carte, grid, marked, pending>>
      /\ k' = 0 /\ j' = 0 /\ count' = 0
      /\ \/ /\ pc = "rest" /\ pc' = "burn" /\ k = Len(resting)
            /\ resting' = SubSeq(resting, 1, count) /\ active' = active
         \/ /\ pc = "burn" /\ pc' = "flush" /\ k = Len(active)
            /\ active' = SubSeq(active, 1, count) /\ resting' = resting
  BY DEF front!FinDort, front!FinBrule, front!Entre
<1>2. /\ active \in Seq(Cells(carte)) /\ resting \in Seq(Cells(carte)) /\ count \in Nat
      /\ pending \in Seq(Cells(carte))
      /\ Len(active) \in Nat /\ Len(resting) \in Nat /\ Len(pending) \in Nat
      /\ WellFormed(carte) /\ grid \in [Cells(carte) -> ghost!Cell]
  BY DEF FrontInv, FrontType
<1>3. Brulent' = Brulent /\ Dorment' = Dorment /\ \A c : Accueille(c)' <=> Accueille(c)
  BY <1>1 DEF Brulent, Dorment, Accueille
<1>4. front!N' = front!N
  BY <1>1 DEF front!N
<1>5. /\ pc = "rest" => count <= Len(resting) /\ count <= k
      /\ pc = "burn" => count <= Len(active) /\ count <= k
      /\ Len(active) <= front!N /\ Len(resting) <= front!N /\ Len(pending) <= front!N
  BY <1>1 DEF FrontInv, Places
<1>6. front!N \in Int
  BY <1>2, <1>5, ListeTient DEF FrontInv, Listes
<1>7. Marques' /\ Exclusifs'
  BY <1>1, <1>3 DEF FrontInv, Marques, Exclusifs
<1>8. CASE pc = "rest"
  <2>1. Liste(resting, 1 .. count \cup Len(resting) + 1 .. Len(resting), Dorment)
    BY <1>1, <1>8 DEF FrontInv, Listes, Tenues
  <2>2. /\ resting' \in Seq(Cells(carte)) /\ Len(resting') = count
        /\ Liste(resting', Partout(resting'), Dorment)
    <3>1. resting' = SubSeq(resting, 1, count) /\ count <= Len(resting)
      BY <1>1, <1>5, <1>8
    <3> QED
      BY <1>2, <2>1, <3>1, ListeCoupe
  <2>3. Tenues(active)' = Partout(active)
    <3>1. Tenues(active)' = 1 .. 0 \cup 0 + 1 .. Len(active)
      BY <1>1, <1>8 DEF Tenues
    <3> QED
      BY <1>2, <3>1 DEF Partout
  <2>4. Liste(active, Partout(active), Brulent) /\ Liste(pending, Partout(pending), marked)
    BY <1>8 DEF FrontInv, Listes
  <2>5. Listes'
    BY <1>1, <1>3, <1>8, <2>2, <2>3, <2>4 DEF Listes, Partout
  <2>6. Places'
    BY <1>1, <1>2, <1>4, <1>5, <1>6, <1>8, <2>2 DEF Places
  <2>7. FrontType'
    BY <1>1, <1>2, <1>8, <2>2 DEF FrontType
  <2> QED
    BY <1>1, <1>7, <1>8, <2>5, <2>6, <2>7 DEF FrontInv
<1>9. CASE pc = "burn"
  <2>1. Liste(active, 1 .. count \cup Len(active) + 1 .. Len(active), Brulent)
    BY <1>1, <1>9 DEF FrontInv, Listes, Tenues
  <2>2. /\ active' \in Seq(Cells(carte)) /\ Len(active') = count
        /\ Liste(active', Partout(active'), Brulent)
    <3>1. active' = SubSeq(active, 1, count) /\ count <= Len(active)
      BY <1>1, <1>5, <1>9
    <3> QED
      BY <1>2, <2>1, <3>1, ListeCoupe
  <2>3. (k + 1 .. Len(pending))' = Partout(pending)
    BY <1>1, <1>2 DEF Partout
  <2>4. Liste(resting, Partout(resting), Dorment) /\ Liste(pending, Partout(pending), marked)
    BY <1>9 DEF FrontInv, Listes
  <2>5. Listes'
    BY <1>1, <1>3, <1>9, <2>2, <2>3, <2>4 DEF Listes, Partout
  <2>6. Places'
    BY <1>1, <1>2, <1>4, <1>5, <1>6, <1>9, <2>2 DEF Places
  <2>7. FrontType'
    BY <1>1, <1>2, <1>9, <2>2 DEF FrontType
  <2> QED
    BY <1>1, <1>7, <1>9, <2>5, <2>6, <2>7 DEF FrontInv
<1> QED
  BY <1>1, <1>8, <1>9

(* The rests, each owed one decrement.                                     *)
LEMMA DortFront ==
  ASSUME FrontInv, front!Dort
  PROVE  FrontInv'
<1> DEFINE b == resting[k + 1]
           r == grid[b].repos - 1
<1>1. /\ pc = "rest" /\ pc' = pc /\ k < Len(resting) /\ k' = k + 1
      /\ UNCHANGED <<carte, marked, active, pending, j>>
      /\ grid' = [grid EXCEPT ![b].repos = r]
      /\ IF grid'[b].repos > 0
         THEN count' = count + 1 /\ resting' = [resting EXCEPT ![count + 1] = b]
         ELSE UNCHANGED <<count, resting>>
  BY DEF front!Dort
<1>2. /\ WellFormed(carte) /\ grid \in [Cells(carte) -> ghost!Cell]
      /\ resting \in Seq(Cells(carte)) /\ active \in Seq(Cells(carte))
      /\ pending \in Seq(Cells(carte)) /\ Len(resting) \in Nat
      /\ k \in Nat /\ count \in Nat /\ count <= k
      /\ Len(active) <= front!N /\ Len(resting) <= front!N /\ Len(pending) <= front!N
  BY <1>1 DEF FrontInv, FrontType, Places
<1>3. /\ Liste(resting, 1 .. count \cup k + 1 .. Len(resting), Dorment)
      /\ Liste(active, Partout(active), Brulent) /\ Liste(pending, Partout(pending), marked)
  BY <1>1 DEF FrontInv, Listes, Tenues
<1>4. /\ Liste(resting, 1 .. count \cup k + 1 + 1 .. Len(resting), Dorment \ {b})
      /\ b \in Dorment /\ b \in Cells(carte)
  BY <1>1, <1>2, <1>3, ListeLaisse
<1>5. grid[b].repos \in 1..3 /\ r \in 0..3 /\ grid[b].feu = 0
  <2>1. grid[b].repos \in 0..3 /\ grid[b].repos > 0 /\ grid[b].feu \in 0..2
    BY <1>2, <1>4 DEF ghost!Cell, Dorment
  <2> QED
    BY <1>4, <2>1 DEF FrontInv, Exclusifs, Brulent
<1>6. /\ grid' \in [Cells(carte) -> ghost!Cell] /\ grid'[b].feu = grid[b].feu
      /\ grid'[b].repos = r /\ \A c \in Cells(carte) : c # b => grid'[c] = grid[c]
  <2> HIDE DEF b, r
  <2>1. grid' = [grid EXCEPT ![b].repos = r]
    BY <1>1
  <2>2. Ecrite(Cells(carte), grid, grid', b, grid[b].feu, r)
    BY <1>2, <1>4, <1>5, <2>1, PoseRepos
  <2> QED
    BY <2>2 DEF Ecrite
<1>7. front!N' = front!N
  BY <1>1 DEF front!N
<1>8. Brulent' = Brulent /\ Exclusifs'
  <2>1. \A c \in Cells(carte) : grid'[c].feu = grid[c].feu
    BY <1>6
  <2>2. Brulent' = Brulent
    BY <1>1, <2>1 DEF Brulent
  <2>3. \A c \in Brulent : c \in Cells(carte) /\ c # b
    BY <1>5 DEF Brulent
  <2> QED
    BY <1>1, <1>6, <2>2, <2>3 DEF FrontInv, Exclusifs
<1>9. Marques'
  <2>1. marked \subseteq Cells(carte)
    BY <1>2, <1>3 DEF Liste, Partout
  <2>2. \A c \in marked : c # b /\ Accueille(c)
    BY <1>5 DEF FrontInv, Marques, Accueille
  <2>3. \A c \in marked : Accueille(c)'
    BY <1>1, <1>6, <2>1, <2>2 DEF Accueille
  <2> QED
    BY <1>1, <2>3 DEF Marques
<1> HIDE DEF b, r
<1>10. /\ resting' \in Seq(Cells(carte)) /\ Len(resting') = Len(resting)
       /\ count' \in Nat /\ count' <= k'
       /\ Liste(resting', 1 .. count' \cup k + 1 + 1 .. Len(resting), Dorment')
  <2>1. CASE r > 0
    <3>1. Dorment' = Dorment
      BY <1>1, <1>4, <1>5, <1>6, <2>1 DEF Dorment
    <3>2. count' = count + 1 /\ resting' = [resting EXCEPT ![count + 1] = resting[k + 1]]
      BY <1>1, <1>6, <2>1 DEF b
    <3>3. /\ resting' \in Seq(Cells(carte)) /\ Len(resting') = Len(resting)
          /\ Liste(resting', 1 .. count + 1 \cup k + 1 + 1 .. Len(resting), Dorment)
      BY <1>1, <1>2, <1>3, <3>2, ListeGarde
    <3> QED
      BY <1>1, <1>2, <3>1, <3>2, <3>3
  <2>2. CASE ~(r > 0)
    <3>1. Dorment' = Dorment \ {b}
      BY <1>1, <1>4, <1>5, <1>6, <2>2 DEF Dorment
    <3>2. count' = count /\ resting' = resting
      BY <1>1, <1>6, <2>2
    <3> QED
      BY <1>1, <1>2, <1>4, <3>1, <3>2
  <2> QED
    BY <2>1, <2>2
<1>11. FrontType'
  BY <1>1, <1>2, <1>6, <1>10 DEF FrontInv, FrontType
<1>12. Places'
  BY <1>1, <1>2, <1>7, <1>10 DEF Places
<1>13. Listes'
  <2>1. Tenues(resting)' = 1 .. count' \cup k + 1 + 1 .. Len(resting)
    BY <1>1, <1>10 DEF Tenues
  <2> QED
    BY <1>1, <1>3, <1>8, <1>10, <2>1 DEF Listes, Partout
<1> QED
  BY <1>1, <1>8, <1>9, <1>11, <1>12, <1>13 DEF FrontInv

(* The fires: kept while they have a turn left, at rest after the last.    *)
LEMMA BruleFront ==
  ASSUME FrontInv, front!Brule
  PROVE  FrontInv'
<1> DEFINE b == active[k + 1]
           t == carte.terrain[b]
<1>1. /\ pc = "burn" /\ pc' = pc /\ k < Len(active) /\ k' = k + 1
      /\ UNCHANGED <<carte, marked, pending, j>>
      /\ IF grid[b].feu > 1
         THEN /\ grid' = [grid EXCEPT ![b].feu = grid[b].feu - 1]
              /\ count' = count + 1 /\ active' = [active EXCEPT ![count + 1] = b]
              /\ resting' = resting
         ELSE /\ grid' = [grid EXCEPT ![b] = [feu |-> 0, repos |-> Repos(t)]]
              /\ resting' = Append(resting, b) /\ count' = count /\ active' = active
  BY ContratFront DEF front!Brule
<1>2. /\ WellFormed(carte) /\ grid \in [Cells(carte) -> ghost!Cell]
      /\ resting \in Seq(Cells(carte)) /\ active \in Seq(Cells(carte))
      /\ pending \in Seq(Cells(carte)) /\ Len(active) \in Nat
      /\ k \in Nat /\ count \in Nat /\ count <= k
      /\ Len(active) <= front!N /\ Len(resting) <= front!N /\ Len(pending) <= front!N
  BY <1>1 DEF FrontInv, FrontType, Places
<1>3. /\ Liste(active, 1 .. count \cup k + 1 .. Len(active), Brulent)
      /\ Liste(resting, Partout(resting), Dorment) /\ Liste(pending, Partout(pending), marked)
  BY <1>1 DEF FrontInv, Listes, Tenues
<1>4. /\ Liste(active, 1 .. count \cup k + 1 + 1 .. Len(active), Brulent \ {b})
      /\ b \in Brulent /\ b \in Cells(carte)
  BY <1>1, <1>2, <1>3, ListeLaisse
<1>5. /\ grid[b].feu \in 1..2 /\ grid[b].repos = 0 /\ t \in Terrains
      /\ Repos(t) \in 1..3
  <2>1. grid[b].feu \in 0..2 /\ grid[b].feu > 0 /\ t \in Terrains
    BY <1>2, <1>4 DEF ghost!Cell, Brulent, WellFormed
  <2>2. grid[b].repos = 0 /\ Combustion(t) > 0
    BY <1>4 DEF FrontInv, Exclusifs
  <2>3. Repos(t) \in 1..3
    BY <2>1, <2>2 DEF Terrains, Combustion, Repos, Water, Plain, Forest
  <2> QED
    BY <2>1, <2>2, <2>3
<1>6. front!N' = front!N
  BY <1>1 DEF front!N
<1> HIDE DEF b, t
<1>7. /\ grid' \in [Cells(carte) -> ghost!Cell]
      /\ \A c \in Cells(carte) : c # b => grid'[c] = grid[c]
      /\ grid[b].feu = 2 => grid'[b].feu = 1 /\ grid'[b].repos = 0
      /\ grid[b].feu = 1 => grid'[b].feu = 0 /\ grid'[b].repos = Repos(t)
  <2>1. CASE grid[b].feu = 2
    <3> DEFINE f == grid[b].feu - 1
    <3>1. grid' = [grid EXCEPT ![b].feu = f]
      BY <1>1, <2>1
    <3>2. f \in 0..2 /\ f = 1
      BY <2>1
    <3> HIDE DEF f
    <3>3. Ecrite(Cells(carte), grid, grid', b, f, grid[b].repos)
      BY <1>2, <1>4, <3>1, <3>2, PoseFeu
    <3> QED
      BY <1>5, <2>1, <3>2, <3>3 DEF Ecrite
  <2>2. CASE grid[b].feu = 1
    <3>1. grid' = [grid EXCEPT ![b] = [feu |-> 0, repos |-> Repos(t)]]
      BY <1>1, <2>2
    <3>2. [feu |-> 0, repos |-> Repos(t)] \in ghost!Cell
      BY <1>5 DEF ghost!Cell
    <3> QED
      BY <1>2, <1>4, <2>2, <3>1, <3>2
  <2> QED
    BY <1>5, <2>1, <2>2
<1>8. Marques'
  <2>1. marked \subseteq Cells(carte)
    BY <1>2, <1>3 DEF Liste, Partout
  <2>2. \A c \in marked : c # b /\ Accueille(c)
    BY <1>5 DEF FrontInv, Marques, Accueille
  <2>3. \A c \in marked : Accueille(c)'
    BY <1>1, <1>7, <2>1, <2>2 DEF Accueille
  <2> QED
    BY <1>1, <2>3 DEF Marques
<1>9. Exclusifs'
  <2>1. \A c \in Brulent' : c \in Brulent /\ grid'[c].repos = grid[c].repos
    BY <1>1, <1>4, <1>5, <1>7 DEF Brulent
  <2> QED
    BY <1>1, <2>1 DEF FrontInv, Exclusifs
<1>10. /\ active' \in Seq(Cells(carte)) /\ Len(active') = Len(active)
       /\ resting' \in Seq(Cells(carte)) /\ Len(resting') <= front!N
       /\ count' \in Nat /\ count' <= k'
       /\ Liste(active', 1 .. count' \cup k + 1 + 1 .. Len(active), Brulent')
       /\ Liste(resting', Partout(resting'), Dorment')
  <2>1. CASE grid[b].feu = 2
    <3>1. Brulent' = Brulent /\ Dorment' = Dorment
      BY <1>1, <1>4, <1>5, <1>7, <2>1 DEF Brulent, Dorment
    <3>2. /\ count' = count + 1 /\ active' = [active EXCEPT ![count + 1] = active[k + 1]]
          /\ resting' = resting
      BY <1>1, <2>1 DEF b
    <3>3. /\ active' \in Seq(Cells(carte)) /\ Len(active') = Len(active)
          /\ Liste(active', 1 .. count + 1 \cup k + 1 + 1 .. Len(active), Brulent)
      BY <1>1, <1>2, <1>3, <3>2, ListeGarde
    <3>4. count' \in Nat /\ count' <= k'
      BY <1>1, <1>2, <3>2
    <3> QED
      BY <1>2, <1>3, <3>1, <3>2, <3>3, <3>4 DEF Partout
  <2>2. CASE grid[b].feu = 1
    <3>1. Brulent' = Brulent \ {b} /\ Dorment' = Dorment \cup {b} /\ b \notin Dorment
      BY <1>1, <1>4, <1>5, <1>7, <2>2 DEF Brulent, Dorment
    <3>2. count' = count /\ active' = active /\ resting' = Append(resting, b)
      BY <1>1, <2>2
    <3>3. resting' \in Seq(Cells(carte)) /\ Liste(resting', Partout(resting'), Dorment')
      BY <1>2, <1>3, <1>4, <3>1, <3>2, ListeAjoute
    <3>4. Len(resting') <= front!N
      BY <1>2, <3>3, ListeTient
    <3>5. count' \in Nat /\ count' <= k'
      BY <1>1, <1>2, <3>2
    <3> QED
      BY <1>2, <1>4, <3>1, <3>2, <3>3, <3>4, <3>5
  <2> QED
    BY <1>5, <2>1, <2>2
<1>11. FrontType'
  BY <1>1, <1>2, <1>7, <1>10 DEF FrontInv, FrontType
<1>12. Places'
  BY <1>1, <1>2, <1>6, <1>10 DEF Places
<1>13. Listes'
  <2>1. Tenues(active)' = 1 .. count' \cup k + 1 + 1 .. Len(active)
    BY <1>1, <1>10 DEF Tenues
  <2> QED
    BY <1>1, <1>3, <1>10, <2>1 DEF Listes, Partout
<1> QED
  BY <1>1, <1>8, <1>9, <1>11, <1>12, <1>13 DEF FrontInv

(* The cells marked catch fire, and lose their mark.                       *)
LEMMA PrendFront ==
  ASSUME FrontInv, front!Prend \/ front!FinPrend
  PROVE  FrontInv'
<1>0. /\ WellFormed(carte) /\ grid \in [Cells(carte) -> ghost!Cell]
      /\ active \in Seq(Cells(carte)) /\ resting \in Seq(Cells(carte))
      /\ pending \in Seq(Cells(carte)) /\ Len(pending) \in Nat /\ k \in Nat
      /\ Len(active) <= front!N /\ Len(resting) <= front!N /\ Len(pending) <= front!N
  BY DEF FrontInv, FrontType, Places
<1>1. /\ pc = "flush"
      /\ Liste(active, Partout(active), Brulent) /\ Liste(resting, Partout(resting), Dorment)
      /\ Liste(pending, k + 1 .. Len(pending), marked)
  BY DEF front!Prend, front!FinPrend, FrontInv, Listes
<1>2. CASE front!Prend
  <2> DEFINE b == pending[k + 1]
             d == Combustion(carte.terrain[b])
  <2>1. /\ pc' = pc /\ k < Len(pending) /\ k' = k + 1
        /\ grid' = [grid EXCEPT ![b].feu = d]
        /\ active' = Append(active, b) /\ marked' = marked \ {b}
        /\ UNCHANGED <<carte, resting, pending, j, count>>
    BY <1>2, ContratFront DEF front!Prend
  <2>2. /\ Liste(pending, k + 1 + 1 .. Len(pending), marked \ {b})
        /\ b \in marked /\ b \in Cells(carte)
    <3>1. 0 \in Nat /\ 0 <= k
      BY <1>0
    <3>2. /\ 1 .. 0 \cup k + 1 .. Len(pending) = k + 1 .. Len(pending)
          /\ 1 .. 0 \cup k + 1 + 1 .. Len(pending) = k + 1 + 1 .. Len(pending)
      OBVIOUS
    <3>3. Liste(pending, 1 .. 0 \cup k + 1 .. Len(pending), marked)
      BY <1>1, <3>2
    <3>4. /\ Liste(pending, 1 .. 0 \cup k + 1 + 1 .. Len(pending), marked \ {b})
          /\ b \in marked /\ b \in Cells(carte)
      BY <1>0, <2>1, <3>1, <3>3, ListeLaisse
    <3> QED
      BY <3>2, <3>4
  <2>3. grid[b].feu = 0 /\ grid[b].repos = 0 /\ d \in 1..2
    <3>1. grid[b].feu = 0 /\ grid[b].repos = 0 /\ d > 0
      BY <2>2 DEF FrontInv, Marques, Accueille
    <3>2. d \in 0..2
      BY <1>0, <2>2, Durees DEF WellFormed
    <3> QED
      BY <3>1, <3>2
  <2>4. d \in 0..2
    BY <2>3
  <2>5. /\ grid' \in [Cells(carte) -> ghost!Cell] /\ grid'[b].feu = d
        /\ grid'[b].repos = grid[b].repos
        /\ \A c \in Cells(carte) : c # b => grid'[c] = grid[c]
    <3> HIDE DEF b, d
    <3>1. grid' = [grid EXCEPT ![b].feu = d]
      BY <2>1
    <3>2. Ecrite(Cells(carte), grid, grid', b, d, grid[b].repos)
      BY <1>0, <2>2, <2>4, <3>1, PoseFeu
    <3> QED
      BY <3>2 DEF Ecrite
  <2>6. front!N' = front!N
    BY <2>1 DEF front!N
  <2>7. d = Combustion(carte.terrain[b])
    OBVIOUS
  <2> HIDE DEF b, d
  <2>8. b \notin Brulent /\ Brulent' = Brulent \cup {b} /\ Dorment' = Dorment
    BY <2>1, <2>2, <2>3, <2>5 DEF Brulent, Dorment
  <2>9. active' \in Seq(Cells(carte)) /\ Liste(active', Partout(active'), Brulent')
    BY <1>0, <1>1, <2>1, <2>2, <2>8, ListeAjoute
  <2>10. Len(active') <= front!N
    BY <1>0, <2>9, ListeTient
  <2>11. Exclusifs'
    BY <2>1, <2>3, <2>5, <2>7, <2>8 DEF FrontInv, Exclusifs, Brulent
  <2>12. Marques'
    <3>1. marked \subseteq Cells(carte)
      BY <1>0, <1>1 DEF Liste
    <3>2. \A c \in marked' : c # b /\ Accueille(c) /\ c \in Cells(carte)
      BY <2>1, <3>1 DEF FrontInv, Marques
    <3>3. \A c \in marked' : Accueille(c)'
      BY <2>1, <2>5, <3>2 DEF Accueille
    <3> QED
      BY <1>1, <2>1, <3>3 DEF Marques
  <2>13. FrontType'
    BY <1>0, <2>1, <2>5, <2>9 DEF FrontInv, FrontType
  <2>14. Places'
    BY <1>0, <1>1, <2>1, <2>6, <2>10 DEF Places
  <2>15. Listes'
    <3>1. (k + 1 .. Len(pending))' = k + 1 + 1 .. Len(pending)
      BY <2>1
    <3> QED
      BY <1>1, <2>1, <2>2, <2>8, <2>9, <3>1 DEF Listes, Partout
  <2> QED
    BY <1>1, <2>1, <2>11, <2>12, <2>13, <2>14, <2>15 DEF FrontInv
<1>3. CASE front!FinPrend
  <2>1. /\ pc' = "idle" /\ k = Len(pending) /\ pending' = <<>>
        /\ k' = 0 /\ j' = 0 /\ count' = 0
        /\ UNCHANGED <<carte, grid, marked, active, resting>>
    BY <1>3 DEF front!FinPrend, front!Entre
  <2>2. marked = {}
    <3>1. k + 1 .. Len(pending) = {}
      BY <1>0, <2>1
    <3> QED
      BY <1>1, <3>1 DEF Liste
  <2>3. Brulent' = Brulent /\ Dorment' = Dorment
    BY <2>1 DEF Brulent, Dorment
  <2>4. front!N' = front!N /\ front!N \in Nat
    <3>1. front!N' = front!N
      BY <2>1 DEF front!N
    <3> QED
      BY <1>0, <1>1, <3>1, ListeTient
  <2>5. Len(<<>>) = 0 /\ <<>> \in Seq(Cells(carte))
    OBVIOUS
  <2>6. Liste(<<>>, Partout(<<>>), {})
    <3>1. Partout(<<>>) = {}
      BY <2>5 DEF Partout
    <3> QED
      BY <3>1 DEF Liste
  <2>7. Listes'
    BY <1>1, <2>1, <2>2, <2>3, <2>6 DEF Listes, Partout
  <2>8. FrontType' /\ Places'
    BY <1>0, <2>1, <2>4, <2>5 DEF FrontType, Places
  <2>9. Marques' /\ Exclusifs'
    BY <2>1, <2>2, <2>3 DEF FrontInv, Marques, Exclusifs
  <2> QED
    BY <2>1, <2>7, <2>8, <2>9 DEF FrontInv
<1> QED
  BY <1>2, <1>3

(* The marking: the target under way joins the marks if it can catch fire. *)
LEMMA MarqueFront ==
  ASSUME FrontInv, front!Mark
  PROVE  FrontInv'
<1> DEFINE p == active[k + 1]
           b == front!Visee(p, j)
           ignoree == front!Ignoree(p, j)
<1>1. /\ pc = "mark" /\ pc' = pc /\ k < Len(active)
      /\ IF ignoree \/ front!Refusee(b) THEN UNCHANGED <<marked, pending>>
         ELSE marked' = marked \cup {b} /\ pending' = Append(pending, b)
      /\ IF j < 8 THEN j' = j + 1 /\ k' = k ELSE j' = 0 /\ k' = k + 1
      /\ UNCHANGED <<carte, grid, active, resting, count>>
  BY DEF front!Mark
<1>2. /\ WellFormed(carte) /\ grid \in [Cells(carte) -> ghost!Cell]
      /\ active \in Seq(Cells(carte)) /\ resting \in Seq(Cells(carte))
      /\ pending \in Seq(Cells(carte)) /\ Len(active) \in Nat
      /\ k \in Nat /\ j \in Nat /\ j <= 8 /\ count \in Nat
      /\ Len(active) <= front!N /\ Len(resting) <= front!N /\ Len(pending) <= front!N
  BY <1>1 DEF FrontInv, FrontType, Places
<1>3. /\ Liste(active, Partout(active), Brulent) /\ Liste(resting, Partout(resting), Dorment)
      /\ Liste(pending, Partout(pending), marked)
      /\ marked = {c \in Cells(carte) : Accueille(c) /\ Visee(c)}
  BY <1>1 DEF FrontInv, Listes, Marques
<1>4. p \in Cells(carte) /\ k + 1 \in 1 .. Len(active) /\ j \in 0..8
  BY <1>1, <1>2
<1>5. ~ignoree => b \in Cells(carte)
  BY <1>2, <1>4, CiblesFront
<1>6. b \in Cells(carte) => (~front!Refusee(b) <=> b \notin marked /\ Accueille(b))
  <2>1. ASSUME NEW c \in Cells(carte)
        PROVE  ~front!Refusee(c) <=> c \notin marked /\ Accueille(c)
    <3>1. /\ grid[c].feu \in Nat /\ grid[c].repos \in Nat
          /\ Combustion(carte.terrain[c]) \in Nat
      BY <1>2, Durees DEF WellFormed, ghost!Cell
    <3> QED
      BY <3>1, ContratFront DEF front!Refusee, Accueille
  <2> HIDE DEF b
  <2> QED
    BY <2>1
<1>7. \A c : Visee(c)' <=> Visee(c) \/ (~ignoree /\ c = b)
  <2>1. \A n \in 1 .. Len(active), d \in 0..8 :
          Lue(n, d)' <=> Lue(n, d) \/ (n = k + 1 /\ d = j)
    <3> SUFFICES ASSUME NEW n \in 1 .. Len(active), NEW d \in 0..8
                 PROVE  Lue(n, d)' <=> Lue(n, d) \/ (n = k + 1 /\ d = j)
      OBVIOUS
    <3>1. Lue(n, d)' <=> n <= k' \/ (n = k' + 1 /\ d < j')
      BY DEF Lue
    <3>2. CASE j < 8
      <4>1. j' = j + 1 /\ k' = k
        BY <1>1, <3>2
      <4> QED
        BY <1>2, <3>1, <4>1 DEF Lue
    <3>3. CASE ~(j < 8)
      <4>1. j' = 0 /\ k' = k + 1 /\ j = 8
        BY <1>1, <1>2, <3>3
      <4> QED
        BY <1>2, <3>1, <4>1 DEF Lue
    <3> QED
      BY <3>2, <3>3
  <2>2. /\ \A n, d : /\ front!Ignoree(active[n], d)' <=> front!Ignoree(active[n], d)
                     /\ front!Visee(active[n], d)' = front!Visee(active[n], d)
        /\ (1 .. Len(active))' = 1 .. Len(active)
    BY <1>1 DEF front!Ignoree, front!Visee
  <2>3. \A c : Visee(c)' <=>
          \E n \in 1 .. Len(active), d \in 0..8 :
            (Lue(n, d) \/ (n = k + 1 /\ d = j)) /\ ~front!Ignoree(active[n], d)
              /\ c = front!Visee(active[n], d)
    BY <2>1, <2>2 DEF Visee
  <2> QED
    BY <1>4, <2>3 DEF Visee
<1>8. \A c : Accueille(c)' <=> Accueille(c)
  BY <1>1 DEF Accueille
<1>9. Brulent' = Brulent /\ Dorment' = Dorment
  BY <1>1 DEF Brulent, Dorment
<1>10. front!N' = front!N
  BY <1>1 DEF front!N
<1> HIDE DEF p, b, ignoree
<1>11. /\ marked' = {c \in Cells(carte) : Accueille(c) /\ (Visee(c) \/ (~ignoree /\ c = b))}
       /\ pending' \in Seq(Cells(carte)) /\ Len(pending') <= front!N
       /\ Liste(pending', Partout(pending'), marked')
  <2>1. CASE ignoree \/ front!Refusee(b)
    <3>1. UNCHANGED <<marked, pending>>
      BY <1>1, <2>1
    <3>2. ~ignoree => b \in marked \/ ~Accueille(b)
      BY <1>5, <1>6, <2>1
    <3>3. marked = {c \in Cells(carte) : Accueille(c) /\ (Visee(c) \/ (~ignoree /\ c = b))}
      BY <1>3, <3>2
    <3> QED
      BY <1>2, <1>3, <3>1, <3>3 DEF Partout
  <2>2. CASE ~(ignoree \/ front!Refusee(b))
    <3>1. marked' = marked \cup {b} /\ pending' = Append(pending, b)
      BY <1>1, <2>2
    <3>2. b \in Cells(carte) /\ b \notin marked /\ Accueille(b)
      BY <1>5, <1>6, <2>2
    <3>3. marked' = {c \in Cells(carte) : Accueille(c) /\ (Visee(c) \/ (~ignoree /\ c = b))}
      BY <1>3, <2>2, <3>1, <3>2
    <3>4. pending' \in Seq(Cells(carte)) /\ Liste(pending', Partout(pending'), marked')
      BY <1>2, <1>3, <3>1, <3>2, ListeAjoute
    <3>5. Len(pending') <= front!N
      BY <1>2, <3>4, ListeTient
    <3> QED
      BY <3>3, <3>4, <3>5
  <2> QED
    BY <2>1, <2>2
<1>12. Marques'
  <2>1. marked' = {c \in Cells(carte') : Accueille(c)' /\ Visee(c)'}
    BY <1>1, <1>7, <1>8, <1>11
  <2> QED
    BY <1>1, <2>1 DEF Marques
<1>13. Listes'
  BY <1>1, <1>3, <1>9, <1>11 DEF Listes, Partout
<1>14. /\ k' \in Nat /\ j' \in Nat /\ k' <= Len(active) /\ j' <= 8
       /\ k' = Len(active) => j' = 0
  BY <1>1, <1>2
<1>15. FrontType' /\ Places'
  BY <1>1, <1>2, <1>10, <1>11, <1>14 DEF FrontType, Places
<1>16. Exclusifs'
  BY <1>1, <1>9 DEF FrontInv, Exclusifs
<1> QED
  BY <1>1, <1>12, <1>13, <1>15, <1>16 DEF FrontInv

LEMMA InitFront == Init => (impl = "front" => FrontInv)
<1> SUFFICES ASSUME Init, impl = "front" PROVE FrontInv
  OBVIOUS
<1>1. /\ carte \in MapsDe["front"] /\ grid = [c \in Cells(carte) |-> [feu |-> 0, repos |-> 0]]
      /\ marked = {} /\ active = <<>> /\ resting = <<>> /\ pending = <<>>
      /\ pc = "new" /\ k = 0 /\ j = 0 /\ count = 0
  BY ContratFront DEF Init, front!Init
<1>2. WellFormed(carte)
  BY <1>1, CartesFormees DEF Names
<1>3. grid \in [Cells(carte) -> ghost!Cell] /\ Brulent = {} /\ Dorment = {}
  BY <1>1 DEF ghost!Cell, Brulent, Dorment
<1>4. Len(<<>>) = 0 /\ <<>> \in Seq(Cells(carte))
  OBVIOUS
<1>5. Liste(<<>>, Partout(<<>>), {})
  <2>1. Partout(<<>>) = {}
    BY <1>4 DEF Partout
  <2> QED
    BY <2>1 DEF Liste
<1>6. front!N \in Nat
  BY <1>2, <1>4, <1>5, ListeTient
<1>7. FrontType
  BY <1>1, <1>2, <1>3, <1>4 DEF FrontType
<1>8. Places
  <2>1. Len(carte.fires) \in Nat
    BY <1>2 DEF WellFormed
  <2> QED
    BY <1>1, <1>4, <1>6, <2>1 DEF Places
<1>9. Listes
  BY <1>1, <1>3, <1>5 DEF Listes
<1>10. Marques /\ Exclusifs
  BY <1>1, <1>3 DEF Marques, Exclusifs
<1>11. \A c \in Cells(carte) : grid[c] = Laissee(c)
  <2>1. Poses = {}
    <3>1. 1 .. k = {}
      BY <1>1
    <3> QED
      BY <3>1 DEF Poses
  <2> QED
    BY <1>1, <2>1 DEF Laissee
<1> QED
  BY <1>7, <1>8, <1>9, <1>10, <1>11 DEF FrontInv

FrontTenu == impl = "front" => FrontInv

LEMMA SuiteFront == FrontTenu /\ [Next]_vars => FrontTenu'
<1> SUFFICES ASSUME FrontTenu, [Next]_vars, impl' = "front" PROVE FrontInv'
  BY DEF FrontTenu
<1>1. CASE Next
  <2>1. impl = "front" /\ front!Next
    BY <1>1 DEF Next
  <2>2. FrontInv
    BY <2>1 DEF FrontTenu
  <2> QED
    BY <2>1, <2>2, AllumeFront, EntreFront, CoupeFront, DortFront, BruleFront, PrendFront,
       MarqueFront DEF front!Next
<1>2. CASE UNCHANGED vars
  <2>1. UNCHANGED <<carte, grid, marked, active, resting, pending, pc, k, j, count>>
    BY <1>2 DEF vars, listes
  <2>2. FrontInv
    BY <1>2 DEF FrontTenu, vars
  <2>3. /\ front!N' = front!N /\ Brulent' = Brulent /\ Dorment' = Dorment /\ Poses' = Poses
        /\ \A c : (Accueille(c)' <=> Accueille(c)) /\ Laissee(c)' = Laissee(c)
        /\ Tenues(active)' = Tenues(active) /\ Tenues(resting)' = Tenues(resting)
    BY <2>1 DEF front!N, Brulent, Dorment, Accueille, Laissee, Poses, Tenues
  <2>4. \A c : Visee(c)' <=> Visee(c)
    BY <2>1 DEF Visee, Lue, front!Visee, front!Ignoree
  <2>5. FrontType' /\ Places'
    BY <2>1, <2>2, <2>3 DEF FrontInv, FrontType, Places
  <2>6. Listes'
    BY <2>1, <2>2, <2>3 DEF FrontInv, Listes, Partout
  <2>7. Marques' /\ Exclusifs'
    BY <2>1, <2>2, <2>3, <2>4 DEF FrontInv, Marques, Exclusifs
  <2> QED
    BY <2>1, <2>2, <2>3, <2>5, <2>6, <2>7 DEF FrontInv
<1> QED
  BY <1>1, <1>2

LEMMA FrontTient == Spec => []FrontTenu
<1>1. Init => FrontTenu
  BY InitFront DEF FrontTenu
<1> QED
  BY <1>1, SuiteFront, PTL DEF Spec

(* Between two Steps, the active list holds every burning cell once, the   *)
(* resting list every resting cell once, whatever the map: no cell of the  *)
(* front is ever forgotten or aged twice (ListesFideles).                  *)
THEOREM ListesSansPerte == Spec => []ListesFideles
<1>1. FrontTenu => ListesFideles
  <2> SUFFICES ASSUME impl = "front", FrontInv, pc = "idle" PROVE front!ListesFideles
    BY DEF FrontTenu, ListesFideles, front!ListesFideles
  <2>1. /\ active \in Seq(Cells(carte)) /\ Liste(active, Partout(active), Brulent)
        /\ resting \in Seq(Cells(carte)) /\ Liste(resting, Partout(resting), Dorment)
        /\ pending = <<>> /\ marked = {}
    BY DEF FrontInv, FrontType, Listes, Marques
  <2>2. Cardinality(Brulent) = Len(active) /\ front!Contenu(active) = Brulent
    BY <2>1, LongueurListe
  <2>3. Cardinality(Dorment) = Len(resting) /\ front!Contenu(resting) = Dorment
    BY <2>1, LongueurListe
  <2>4. front!Distincts(active) /\ front!Distincts(resting)
    BY <2>2, <2>3, ContratFront DEF front!Distincts
  <2> QED
    BY <2>1, <2>2, <2>3, <2>4, ContratFront DEF front!ListesFideles, Brulent, Dorment
<1> QED
  BY <1>1, FrontTient, PTL

(* The capacity New reserves for the three lists is enough on every map,   *)
(* during a turn as between two: no append of front reallocates.           *)
THEOREM CapaciteSuffit == Spec => []SansReallocation
<1>1. FrontTenu => SansReallocation
  BY DEF FrontTenu, SansReallocation, FrontInv, Places, front!SansReallocation
<1> QED
  BY <1>1, FrontTient, PTL

(* What a compaction has left to read is still owed its decrement, so that *)
(* no uint8 counter of front ever goes below zero.                         *)
THEOREM JamaisSousZero == Spec => []SansDebordement
<1>1. FrontTenu => SansDebordement
  <2> SUFFICES ASSUME FrontInv PROVE front!SansDebordement
    BY DEF FrontTenu, SansDebordement
  <2>1. /\ pc = "rest" => \A n \in k + 1 .. Len(resting) : resting[n] \in Dorment
        /\ pc = "burn" => \A n \in k + 1 .. Len(active) : active[n] \in Brulent
    BY DEF FrontInv, Listes, Liste, Tenues
  <2> QED
    BY <2>1 DEF front!SansDebordement, Dorment, Brulent
<1> QED
  BY <1>1, FrontTient, PTL

(* What a caller sees of front: the cells the lists have still to age, and *)
(* those that have still to catch fire, as they will be.                   *)
Depuis(s, p) == {s[n] : n \in p .. Len(s)}
ARelire(s) == Depuis(s, k + 1)
AVieillir ==
  IF pc = "rest" THEN Brulent \cup ARelire(resting)
  ELSE IF pc = "burn" THEN ARelire(active) ELSE {}
APrendre == IF pc \in {"rest", "burn", "flush"} THEN marked ELSE {}
FeuFront(c) ==
  IF pc = "new" THEN IF c \in Foyers(carte) THEN Combustion(carte.terrain[c]) ELSE 0
  ELSE IF c \in APrendre THEN Combustion(carte.terrain[c])
  ELSE IF c \in AVieillir /\ grid[c].feu > 0 THEN grid[c].feu - 1 ELSE grid[c].feu
ReposFront(c) ==
  IF c \in AVieillir
  THEN IF grid[c].feu = 1 THEN Repos(carte.terrain[c])
       ELSE IF grid[c].repos > 0 THEN grid[c].repos - 1 ELSE grid[c].repos
  ELSE grid[c].repos
VueFront ==
  /\ FeuVu = [c \in Cells(carte) |-> FeuFront(c)]
  /\ ReposVu = [c \in Cells(carte) |-> ReposFront(c)]

LEMMA VuFront == impl = "front" /\ FrontInv => VueFront
<1> SUFFICES ASSUME impl = "front", FrontInv PROVE VueFront
  OBVIOUS
<1>1. \A c : front!Vieillit(c) <=> c \in AVieillir
  <2>1. pc = "rest" => front!Contenu(active) = Brulent
    <3>1. pc = "rest" => active \in Seq(Cells(carte)) /\ Liste(active, Partout(active), Brulent)
      BY DEF FrontInv, FrontType, Listes
    <3> QED
      BY <3>1, LongueurListe
  <2> QED
    BY <2>1 DEF front!Vieillit, AVieillir, ARelire, Depuis
<1>2. \A c : front!Prendra(c) <=> c \in APrendre
  <2>1. pc = "flush" => {pending[n] : n \in k + 1 .. Len(pending)} = marked
    BY DEF FrontInv, Listes, Liste
  <2> QED
    BY <2>1 DEF front!Prendra, APrendre
<1>3. front!Contenu(carte.fires) = Foyers(carte)
  BY DEF front!Contenu, Foyers
<1>4. \A c \in APrendre : grid[c].feu = 0
  BY DEF APrendre, FrontInv, Marques, Accueille
<1>5. pc = "new" => APrendre = {} /\ AVieillir = {}
  BY DEF APrendre, AVieillir
<1>6. FeuVu = [c \in Cells(carte) |->
                 CASE pc = "new" -> IF c \in Foyers(carte) THEN Combustion(carte.terrain[c])
                                    ELSE 0
                   [] c \in APrendre -> Combustion(carte.terrain[c])
                   [] c \in AVieillir /\ grid[c].feu > 0 -> grid[c].feu - 1
                   [] OTHER -> grid[c].feu]
  BY <1>1, <1>2, <1>3, ContratFront DEF FeuVu, front!FeuVu
<1>7. ReposVu = [c \in Cells(carte) |->
                   CASE c \in AVieillir /\ grid[c].feu = 1 -> Repos(carte.terrain[c])
                     [] c \in AVieillir /\ grid[c].repos > 0 -> grid[c].repos - 1
                     [] OTHER -> grid[c].repos]
  BY <1>1, ContratFront DEF ReposVu, front!ReposVu
<1>8. ASSUME NEW c \in Cells(carte)
      PROVE  /\ FeuVu[c] = FeuFront(c) /\ ReposVu[c] = ReposFront(c)
  <2>1. grid[c].feu \in 0..2 /\ grid[c].repos \in 0..3
    BY DEF FrontInv, FrontType, ghost!Cell
  <2>2. FeuVu[c] = FeuFront(c)
    BY <1>4, <1>5, <1>6, <2>1 DEF FeuFront
  <2>3. grid[c].feu > 0 => grid[c].repos = 0
    BY DEF FrontInv, Exclusifs, Brulent
  <2>4. ReposVu[c] = ReposFront(c)
    BY <1>7, <2>1, <2>3 DEF ReposFront
  <2> QED
    BY <2>2, <2>4
<1> QED
  BY <1>6, <1>7, <1>8 DEF VueFront

LEMMA VuFrontApres == (impl = "front" /\ FrontInv => VueFront)'
  BY VuFront, PTL

(* A step that leaves what is seen of every cell is a stutter.             *)
LEMMA RienVuFront ==
  ASSUME impl = "front", impl' = impl, FrontInv, FrontInv', carte' = carte,
         \A c \in Cells(carte) : FeuFront(c)' = FeuFront(c) /\ ReposFront(c)' = ReposFront(c)
  PROVE  UNCHANGED R!vars
<1>1. VueFront /\ VueFront'
  BY VuFront, VuFrontApres
<1> QED
  BY <1>1 DEF VueFront, R!vars

(* Laying the fires and marking show nothing,                              *)
LEMMA PrepareFront ==
  ASSUME impl = "front", impl' = impl, FrontInv, FrontInv',
         front!Allume \/ front!Pret \/ front!Step \/ front!Mark
  PROVE  UNCHANGED R!vars
<1>1. /\ carte' = carte
      /\ \/ front!Allume /\ pc = "new" /\ pc' = "new"
         \/ pc = "new" /\ pc' = "idle" /\ k = Len(carte.fires) /\ grid' = grid
         \/ pc = "idle" /\ pc' = "mark" /\ grid' = grid
         \/ pc = "mark" /\ pc' = "mark" /\ grid' = grid
  BY DEF front!Allume, front!Pret, front!Step, front!Mark, front!Entre
<1>2. AVieillir = {} /\ APrendre = {} /\ AVieillir' = {} /\ APrendre' = {}
  BY <1>1 DEF AVieillir, APrendre
<1>3. ASSUME NEW c \in Cells(carte)
      PROVE  FeuFront(c)' = FeuFront(c) /\ ReposFront(c)' = ReposFront(c)
  <2>1. ReposFront(c)' = grid'[c].repos /\ ReposFront(c) = grid[c].repos
    BY <1>2 DEF ReposFront
  <2>2. CASE front!Allume
    <3>1. pc = "new" /\ pc' = "new"
      BY <2>2 DEF front!Allume
    <3>2. grid[c] = Laissee(c) /\ grid'[c] = Laissee(c)'
      BY <1>1, <3>1 DEF FrontInv
    <3> QED
      BY <1>1, <2>1, <3>1, <3>2 DEF FeuFront, Laissee
  <2>3. CASE pc = "new" /\ pc' = "idle"
    <3>1. grid' = grid /\ k = Len(carte.fires) /\ grid[c] = Laissee(c)
      BY <1>1, <2>3 DEF FrontInv
    <3>2. Poses = Foyers(carte)
      BY <3>1 DEF Poses, Foyers, FrontInv, FrontType, WellFormed
    <3> QED
      BY <1>1, <1>2, <2>1, <2>3, <3>1, <3>2 DEF FeuFront, Laissee
  <2>4. CASE pc # "new" /\ pc' # "new" /\ grid' = grid
    BY <1>1, <1>2, <2>1, <2>4 DEF FeuFront
  <2> QED
    BY <1>1, <2>2, <2>3, <2>4
<1> QED
  BY <1>1, <1>3, RienVuFront

(* the end of the marking decides the turn,                                *)
LEMMA DecideFront ==
  ASSUME impl = "front", impl' = impl, FrontInv, FrontInv', front!FinMark
  PROVE  R!Tour
<1>1. /\ pc = "mark" /\ pc' = "rest" /\ k = Len(active) /\ k' = 0
      /\ UNCHANGED <<carte, grid, marked, active, resting>>
  BY DEF front!FinMark, front!Entre
<1>2. /\ WellFormed(carte) /\ grid \in [Cells(carte) -> ghost!Cell]
      /\ active \in Seq(Cells(carte)) /\ Len(active) \in Nat /\ Len(resting) \in Nat /\ j = 0
  BY <1>1 DEF FrontInv, FrontType, Places
<1>3. /\ {active[n] : n \in 1 .. Len(active)} = Brulent
      /\ {resting[n] : n \in 1 .. Len(resting)} = Dorment
      /\ marked = {c \in Cells(carte) : Accueille(c) /\ Visee(c)}
  BY <1>1 DEF FrontInv, Listes, Liste, Partout, Marques
<1>4. VueFront /\ VueFront'
  BY VuFront, VuFrontApres
<1>5. /\ FeuVu = [c \in Cells(carte) |-> grid[c].feu]
      /\ ReposVu = [c \in Cells(carte) |-> grid[c].repos]
  BY <1>1, <1>4 DEF VueFront, FeuFront, ReposFront, APrendre, AVieillir
<1>6. FeuVu \in [Cells(carte) -> 0..2] /\ ReposVu \in [Cells(carte) -> 0..3]
  BY <1>2, <1>5 DEF ghost!Cell
<1>7. \A c : Visee(c) <=> c \in Ignitions(carte, FeuVu)
  <2>1. {b \in Cells(carte) : FeuVu[b] > 0} = Brulent
    BY <1>5 DEF Brulent
  <2>2. \A b \in Brulent :
          ghost!Contagion(carte, b) =
            {front!Visee(b, d) : d \in {d \in 0..8 : ~front!Ignoree(b, d)}}
    BY <1>2, CiblesFront DEF Brulent
  <2>3. \A n \in 1 .. Len(active), d \in 0..8 : Lue(n, d)
    BY <1>1, <1>2 DEF Lue
  <2>4. \A c : Visee(c) <=> \E b \in Brulent, d \in 0..8 :
                              ~front!Ignoree(b, d) /\ c = front!Visee(b, d)
    BY <1>3, <2>3 DEF Visee
  <2> QED
    BY <2>1, <2>2, <2>4 DEF Ignitions
<1>8. AVieillir' = Brulent \cup Dorment /\ APrendre' = marked
  <2>1. Brulent' = Brulent
    BY <1>1 DEF Brulent
  <2>2. ARelire(resting)' = {resting[n] : n \in 0 + 1 .. Len(resting)}
    BY <1>1 DEF ARelire, Depuis
  <2> QED
    BY <1>1, <1>3, <2>1, <2>2 DEF AVieillir, APrendre
<1>9. ASSUME NEW c \in Cells(carte)
      PROVE  /\ FeuFront(c)' = FeuApres(FeuVu[c], ReposVu[c], carte.terrain[c],
                                        c \in Ignitions(carte, FeuVu))
             /\ ReposFront(c)' = ReposApres(FeuVu[c], ReposVu[c], carte.terrain[c])
  <2> DEFINE f == grid[c].feu
             r == grid[c].repos
             t == carte.terrain[c]
             pris == c \in Ignitions(carte, FeuVu)
  <2>1. /\ f \in 0..2 /\ r \in 0..3 /\ Combustion(t) \in 0..2
        /\ FeuVu[c] = f /\ ReposVu[c] = r
    BY <1>2, <1>5, Durees DEF WellFormed, ghost!Cell
  <2>2. f > 0 => r = 0
    BY <2>1 DEF FrontInv, Exclusifs, Brulent
  <2>3. FeuFront(c)' = IF c \in marked THEN Combustion(t)
                       ELSE IF c \in Brulent \cup Dorment /\ f > 0 THEN f - 1 ELSE f
    BY <1>1, <1>8 DEF FeuFront
  <2>4. ReposFront(c)' = IF c \in Brulent \cup Dorment
                         THEN IF f = 1 THEN Repos(t) ELSE IF r > 0 THEN r - 1 ELSE r
                         ELSE r
    BY <1>1, <1>8 DEF ReposFront
  <2>5. /\ c \in marked <=> f = 0 /\ r = 0 /\ Combustion(t) > 0 /\ pris
        /\ c \in Brulent <=> f > 0
        /\ c \in Dorment <=> r > 0
    BY <1>3, <1>7 DEF Accueille, Brulent, Dorment
  <2> HIDE DEF f, r, t, pris
  <2>6. FeuFront(c)' = FeuApres(f, r, t, pris)
    BY <2>1, <2>3, <2>5 DEF FeuApres
  <2>7. ReposFront(c)' = ReposApres(f, r, t)
    BY <2>1, <2>2, <2>4, <2>5 DEF ReposApres
  <2> QED
    BY <2>1, <2>6, <2>7 DEF t, pris
<1>10. /\ FeuVu' = [c \in Cells(carte) |->
                      FeuApres(FeuVu[c], ReposVu[c], carte.terrain[c],
                               c \in Ignitions(carte, FeuVu))]
       /\ ReposVu' = [c \in Cells(carte) |->
                        ReposApres(FeuVu[c], ReposVu[c], carte.terrain[c])]
  BY <1>1, <1>4, <1>9 DEF VueFront
<1> QED
  BY <1>1, <1>2, <1>6, <1>10, TourDesRegles

(* The entry read is no longer among those a loop has still to read.       *)
LEMMA RelitUnDeMoins ==
  ASSUME NEW T, NEW s \in Seq(T), NEW S, NEW lu \in Nat, NEW n \in Nat, n <= lu, lu < Len(s),
         Liste(s, 1 .. n \cup lu + 1 .. Len(s), S)
  PROVE  /\ Depuis(s, lu + 1) = {s[lu + 1]} \cup Depuis(s, lu + 1 + 1)
         /\ s[lu + 1] \notin Depuis(s, lu + 1 + 1)
<1>1. Len(s) \in Nat
  OBVIOUS
<1>2. /\ lu + 1 .. Len(s) = {lu + 1} \cup lu + 1 + 1 .. Len(s)
      /\ lu + 1 \notin lu + 1 + 1 .. Len(s)
      /\ lu + 1 + 1 .. Len(s) \subseteq lu + 1 .. Len(s)
  BY <1>1
<1>3. \A x \in lu + 1 .. Len(s), y \in lu + 1 .. Len(s) : s[x] = s[y] => x = y
  BY DEF Liste
<1> QED
  BY <1>2, <1>3 DEF Depuis

(* and so does the rest of the turn: the ageing of the rests,              *)
LEMMA DortNeMontreRien ==
  ASSUME impl = "front", impl' = impl, FrontInv, FrontInv', front!Dort
  PROVE  UNCHANGED R!vars
<1> DEFINE b == resting[k + 1]
           reste == Depuis(resting, k + 1 + 1)
<1>1. /\ pc = "rest" /\ pc' = pc /\ k < Len(resting) /\ k' = k + 1
      /\ UNCHANGED <<carte, marked, active>>
      /\ grid' = [grid EXCEPT ![b].repos = grid[b].repos - 1]
      /\ \/ count' = count + 1 /\ resting' = [resting EXCEPT ![count + 1] = b]
         \/ resting' = resting
  BY DEF front!Dort
<1>2. /\ grid \in [Cells(carte) -> ghost!Cell] /\ resting \in Seq(Cells(carte))
      /\ k \in Nat /\ count \in Nat /\ count <= k
      /\ Liste(resting, 1 .. count \cup k + 1 .. Len(resting), Dorment)
  BY <1>1 DEF FrontInv, FrontType, Places, Listes, Tenues
<1>3. ARelire(resting) = {b} \cup reste /\ b \notin reste
  <2>1. Depuis(resting, k + 1) = {b} \cup reste /\ b \notin reste
    BY <1>1, <1>2, RelitUnDeMoins
  <2> QED
    BY <2>1 DEF ARelire
<1>4. b \in Dorment /\ b \in Cells(carte)
  BY <1>1, <1>2, ListeLaisse
<1>5. ARelire(resting)' = reste
  <2>1. \A x \in k + 1 + 1 .. Len(resting) : resting'[x] = resting[x]
    <3>1. CASE resting' = [resting EXCEPT ![count + 1] = b]
      BY <1>1, <1>2, <3>1, ListeGarde
    <3>2. CASE resting' = resting
      BY <3>2
    <3> QED
      BY <1>1, <3>1, <3>2
  <2>2. Len(resting') = Len(resting)
    BY <1>1, <1>2
  <2>3. ARelire(resting)' = {resting'[x] : x \in k + 1 + 1 .. Len(resting)}
    BY <1>1, <2>2 DEF ARelire, Depuis
  <2> QED
    BY <2>1, <2>3 DEF Depuis
<1>6. grid[b].repos \in 1..3 /\ grid[b].feu = 0
  <2>1. grid[b].repos \in 0..3 /\ grid[b].repos > 0 /\ grid[b].feu \in 0..2
    BY <1>2, <1>4 DEF ghost!Cell, Dorment
  <2> QED
    BY <1>4, <2>1 DEF FrontInv, Exclusifs, Brulent
<1> DEFINE r == grid[b].repos - 1
<1>7. r \in 0..3
  BY <1>6
<1>8. r = grid[b].repos - 1
  OBVIOUS
<1> HIDE DEF b, reste, r
<1>9. Ecrite(Cells(carte), grid, grid', b, grid[b].feu, r)
  <2>1. grid' = [grid EXCEPT ![b].repos = r]
    BY <1>1, <1>8
  <2> QED
    BY <1>2, <1>4, <1>7, <2>1, PoseRepos
<1>10. Brulent' = Brulent
  BY <1>1, <1>9 DEF Brulent, Ecrite
<1>11. /\ AVieillir = Brulent \cup {b} \cup reste /\ AVieillir' = Brulent \cup reste
       /\ APrendre' = APrendre /\ b \notin AVieillir'
  BY <1>1, <1>3, <1>5, <1>6, <1>10 DEF AVieillir, APrendre, Brulent
<1>12. ASSUME NEW c \in Cells(carte)
       PROVE  FeuFront(c)' = FeuFront(c) /\ ReposFront(c)' = ReposFront(c)
  <2>1. CASE c = b
    <3>1. FeuFront(c)' = FeuFront(c)
      BY <1>1, <1>6, <1>9, <1>11, <2>1 DEF FeuFront, Ecrite
    <3>2. ReposFront(c)' = ReposFront(c)
      BY <1>1, <1>6, <1>8, <1>9, <1>11, <2>1 DEF ReposFront, Ecrite
    <3> QED
      BY <3>1, <3>2
  <2>2. CASE c # b
    <3>1. grid'[c] = grid[c] /\ (c \in AVieillir' <=> c \in AVieillir)
      BY <1>9, <1>11, <2>2 DEF Ecrite
    <3>2. FeuFront(c)' = FeuFront(c)
      BY <1>1, <1>11, <3>1 DEF FeuFront
    <3>3. ReposFront(c)' = IF c \in AVieillir
                           THEN IF grid[c].feu = 1 THEN Repos(carte.terrain[c])
                                ELSE IF grid[c].repos > 0 THEN grid[c].repos - 1
                                ELSE grid[c].repos
                           ELSE grid[c].repos
      <4>1. carte' = carte
        BY <1>1
      <4> QED
        BY <3>1, <4>1 DEF ReposFront
    <3>4. ReposFront(c)' = ReposFront(c)
      BY <3>3 DEF ReposFront
    <3> QED
      BY <3>2, <3>4
  <2> QED
    BY <2>1, <2>2
<1> QED
  BY <1>1, <1>12, RienVuFront

(* of the fires,                                                           *)
LEMMA BruleNeMontreRien ==
  ASSUME impl = "front", impl' = impl, FrontInv, FrontInv', front!Brule
  PROVE  UNCHANGED R!vars
<1> DEFINE b == active[k + 1]
           reste == Depuis(active, k + 1 + 1)
           t == carte.terrain[b]
<1>1. /\ pc = "burn" /\ pc' = pc /\ k < Len(active) /\ k' = k + 1
      /\ UNCHANGED <<carte, marked>>
      /\ IF grid[b].feu > 1
         THEN /\ grid' = [grid EXCEPT ![b].feu = grid[b].feu - 1]
              /\ count' = count + 1 /\ active' = [active EXCEPT ![count + 1] = b]
         ELSE /\ grid' = [grid EXCEPT ![b] = [feu |-> 0, repos |-> Repos(t)]]
              /\ active' = active
  BY ContratFront DEF front!Brule
<1>2. /\ grid \in [Cells(carte) -> ghost!Cell] /\ active \in Seq(Cells(carte))
      /\ k \in Nat /\ count \in Nat /\ count <= k /\ WellFormed(carte)
      /\ Liste(active, 1 .. count \cup k + 1 .. Len(active), Brulent)
  BY <1>1 DEF FrontInv, FrontType, Places, Listes, Tenues
<1>3. ARelire(active) = {b} \cup reste /\ b \notin reste
  <2>1. Depuis(active, k + 1) = {b} \cup reste /\ b \notin reste
    BY <1>1, <1>2, RelitUnDeMoins
  <2> QED
    BY <2>1 DEF ARelire
<1>4. b \in Brulent /\ b \in Cells(carte)
  BY <1>1, <1>2, ListeLaisse
<1>5. ARelire(active)' = reste
  <2>1. \A x \in k + 1 + 1 .. Len(active) : active'[x] = active[x]
    <3>1. CASE active' = [active EXCEPT ![count + 1] = b]
      BY <1>1, <1>2, <3>1, ListeGarde
    <3>2. CASE active' = active
      BY <3>2
    <3> QED
      BY <1>1, <3>1, <3>2
  <2>2. Len(active') = Len(active)
    BY <1>1, <1>2
  <2>3. ARelire(active)' = {active'[x] : x \in k + 1 + 1 .. Len(active)}
    BY <1>1, <2>2 DEF ARelire, Depuis
  <2> QED
    BY <2>1, <2>3 DEF Depuis
<1>6. grid[b].feu \in 1..2 /\ grid[b].repos = 0 /\ Repos(t) \in 0..3
  <2>1. grid[b].feu \in 0..2 /\ grid[b].feu > 0 /\ t \in Terrains
    BY <1>2, <1>4 DEF ghost!Cell, Brulent, WellFormed
  <2> QED
    BY <1>4, <2>1, Durees DEF FrontInv, Exclusifs
<1>7. t = carte.terrain[b]
  OBVIOUS
<1> HIDE DEF b, reste, t
<1>8. /\ \A c \in Cells(carte) : c # b => grid'[c] = grid[c]
      /\ grid[b].feu = 2 => grid'[b].feu = 1 /\ grid'[b].repos = 0
      /\ grid[b].feu = 1 => grid'[b].feu = 0 /\ grid'[b].repos = Repos(t)
  <2>1. CASE grid[b].feu = 2
    <3> DEFINE f == grid[b].feu - 1
    <3>1. grid' = [grid EXCEPT ![b].feu = f]
      BY <1>1, <2>1
    <3>2. f \in 0..2 /\ f = 1
      BY <2>1
    <3> HIDE DEF f
    <3>3. Ecrite(Cells(carte), grid, grid', b, f, grid[b].repos)
      BY <1>2, <1>4, <3>1, <3>2, PoseFeu
    <3> QED
      BY <1>6, <2>1, <3>2, <3>3 DEF Ecrite
  <2>2. CASE grid[b].feu = 1
    <3>1. grid' = [grid EXCEPT ![b] = [feu |-> 0, repos |-> Repos(t)]]
      BY <1>1, <2>2
    <3> QED
      BY <1>2, <1>4, <2>2, <3>1
  <2> QED
    BY <1>6, <2>1, <2>2
<1>9. /\ AVieillir = {b} \cup reste /\ AVieillir' = reste
      /\ APrendre' = APrendre /\ b \notin AVieillir' /\ b \notin APrendre
  <2>1. b \notin APrendre
    BY <1>6 DEF APrendre, FrontInv, Marques, Accueille
  <2> QED
    BY <1>1, <1>3, <1>5, <2>1 DEF AVieillir, APrendre
<1>10. ASSUME NEW c \in Cells(carte)
       PROVE  FeuFront(c)' = FeuFront(c) /\ ReposFront(c)' = ReposFront(c)
  <2>1. CASE c = b
    <3>1. grid[b].feu = 1 \/ grid[b].feu = 2
      BY <1>6
    <3>2. FeuFront(c)' = FeuFront(c)
      BY <1>1, <1>8, <1>9, <2>1, <3>1 DEF FeuFront
    <3>3. ReposFront(c)' = ReposFront(c)
      BY <1>1, <1>6, <1>7, <1>8, <1>9, <2>1, <3>1 DEF ReposFront
    <3> QED
      BY <3>2, <3>3
  <2>2. CASE c # b
    <3>1. grid'[c] = grid[c] /\ (c \in AVieillir' <=> c \in AVieillir)
      BY <1>8, <1>9, <2>2
    <3>2. FeuFront(c)' = FeuFront(c)
      BY <1>1, <1>9, <3>1 DEF FeuFront
    <3>3. ReposFront(c)' = ReposFront(c)
      BY <1>1, <3>1 DEF ReposFront
    <3> QED
      BY <3>2, <3>3
  <2> QED
    BY <2>1, <2>2
<1> QED
  BY <1>1, <1>10, RienVuFront

(* the cuts between the loops, and the cells that catch fire.              *)
LEMMA FinitFront ==
  ASSUME impl = "front", impl' = impl, FrontInv, FrontInv',
         front!FinDort \/ front!FinBrule \/ front!Prend \/ front!FinPrend
  PROVE  UNCHANGED R!vars
<1>1. /\ grid \in [Cells(carte) -> ghost!Cell] /\ active \in Seq(Cells(carte))
      /\ resting \in Seq(Cells(carte)) /\ pending \in Seq(Cells(carte)) /\ k \in Nat
      /\ Len(active) \in Nat /\ Len(resting) \in Nat /\ Len(pending) \in Nat
      /\ WellFormed(carte)
  BY DEF FrontInv, FrontType
<1>2. CASE front!FinDort
  <2>1. /\ pc = "rest" /\ pc' = "burn" /\ k = Len(resting) /\ k' = 0
        /\ UNCHANGED <<carte, grid, marked, active>>
    BY <1>2 DEF front!FinDort, front!Entre
  <2>2. ARelire(resting) = {} /\ ARelire(active)' = Brulent
    <3>1. k + 1 .. Len(resting) = {} /\ 0 + 1 .. Len(active) = 1 .. Len(active)
      BY <1>1, <2>1
    <3>2. {active[n] : n \in 1 .. Len(active)} = Brulent
      BY <2>1 DEF FrontInv, Listes, Liste, Partout
    <3>3. ARelire(active)' = {active[n] : n \in 0 + 1 .. Len(active)}
      BY <2>1 DEF ARelire, Depuis
    <3> QED
      BY <3>1, <3>2, <3>3 DEF ARelire, Depuis
  <2>3. AVieillir' = AVieillir /\ APrendre' = APrendre
    BY <2>1, <2>2 DEF AVieillir, APrendre
  <2> QED
    BY <2>1, <2>3, RienVuFront DEF FeuFront, ReposFront
<1>3. CASE front!FinBrule
  <2>1. /\ pc = "burn" /\ pc' = "flush" /\ k = Len(active)
        /\ UNCHANGED <<carte, grid, marked>>
    BY <1>3 DEF front!FinBrule, front!Entre
  <2>2. ARelire(active) = {}
    <3>1. k + 1 .. Len(active) = {}
      BY <1>1, <2>1
    <3> QED
      BY <3>1 DEF ARelire, Depuis
  <2>3. AVieillir' = AVieillir /\ APrendre' = APrendre
    BY <2>1, <2>2 DEF AVieillir, APrendre
  <2> QED
    BY <2>1, <2>3, RienVuFront DEF FeuFront, ReposFront
<1>4. CASE front!Prend
  <2> DEFINE b == pending[k + 1]
             d == Combustion(carte.terrain[b])
  <2>1. /\ pc = "flush" /\ pc' = pc /\ k < Len(pending)
        /\ grid' = [grid EXCEPT ![b].feu = d]
        /\ marked' = marked \ {b} /\ carte' = carte
    BY <1>4, ContratFront DEF front!Prend
  <2>2. b \in marked /\ b \in Cells(carte) /\ marked \subseteq Cells(carte)
    <3>1. {pending[n] : n \in k + 1 .. Len(pending)} = marked
      BY <2>1 DEF FrontInv, Listes, Liste
    <3>2. \A n \in k + 1 .. Len(pending) : pending[n] \in Cells(carte)
      BY <1>1
    <3>3. k + 1 \in k + 1 .. Len(pending)
      BY <1>1, <2>1
    <3> QED
      BY <3>1, <3>2, <3>3
  <2>3. d \in 0..2
    BY <1>1, <2>2, Durees DEF WellFormed
  <2>4. d = Combustion(carte.terrain[b])
    OBVIOUS
  <2> HIDE DEF b, d
  <2>5. Ecrite(Cells(carte), grid, grid', b, d, grid[b].repos)
    <3>1. grid' = [grid EXCEPT ![b].feu = d]
      BY <2>1
    <3> QED
      BY <1>1, <2>2, <2>3, <3>1, PoseFeu
  <2>6. AVieillir = {} /\ AVieillir' = {} /\ APrendre = marked /\ APrendre' = marked \ {b}
    BY <2>1 DEF AVieillir, APrendre
  <2>7. ASSUME NEW c \in Cells(carte)
        PROVE  FeuFront(c)' = FeuFront(c) /\ ReposFront(c)' = ReposFront(c)
    <3>1. CASE c = b
      BY <2>1, <2>2, <2>4, <2>5, <2>6, <3>1 DEF FeuFront, ReposFront, Ecrite
    <3>2. CASE c # b
      BY <2>1, <2>5, <2>6, <3>2 DEF FeuFront, ReposFront, Ecrite
    <3> QED
      BY <3>1, <3>2
  <2> QED
    BY <2>1, <2>7, RienVuFront
<1>5. CASE front!FinPrend
  <2>1. /\ pc = "flush" /\ pc' = "idle" /\ k = Len(pending)
        /\ UNCHANGED <<carte, grid, marked>>
    BY <1>5 DEF front!FinPrend, front!Entre
  <2>2. marked = {}
    <3>1. k + 1 .. Len(pending) = {}
      BY <1>1, <2>1
    <3> QED
      BY <2>1, <3>1 DEF FrontInv, Listes, Liste
  <2>3. AVieillir' = AVieillir /\ APrendre' = APrendre
    BY <2>1, <2>2 DEF AVieillir, APrendre
  <2> QED
    BY <2>1, <2>3, RienVuFront DEF FeuFront, ReposFront
<1> QED
  BY <1>2, <1>3, <1>4, <1>5

LEMMA FrontConforme ==
  ASSUME impl = "front", FrontInv, Next
  PROVE  R!Tour \/ UNCHANGED R!vars
<1>1. impl' = impl /\ front!Next
  BY DEF Next
<1>2. FrontInv'
  BY <1>1, SuiteFront DEF FrontTenu
<1> QED
  BY <1>1, <1>2, PrepareFront, DecideFront, DortNeMontreRien, BruleNeMontreRien, FinitFront
     DEF front!Next

-----------------------------------------------------------------------------
(* bitpack.  The bits of a word that are cells, and the cell of a bit.     *)
Valides(m, n) ==
  IF n % bitpack!Words(m) = bitpack!Words(m) - 1 THEN bitpack!LastMask(m) ELSE bitpack!Bits
Cellule(m, n, b) ==
  <<(n % bitpack!Words(m)) * WordBits + b, n \div bitpack!Words(m)>>

LEMMA ContratBitpack ==
  /\ bitpack!Directions = Directions
  /\ \A m : bitpack!Cells(m) = Cells(m)
  /\ \A t : bitpack!Combustion(t) = Combustion(t)
  /\ \A d : bitpack!Dx(d) = Dx(d) /\ bitpack!Dy(d) = Dy(d)
  /\ \A m, x, y : bitpack!At(m, x, y) = At(m, x, y)
  /\ \A S : bitpack!Cardinality(S) = Cardinality(S)
  /\ bitpack!Water = Water /\ bitpack!Plain = Plain /\ bitpack!Forest = Forest
<1>1. bitpack!Directions = Directions /\ \A m : bitpack!Cells(m) = Cells(m)
  BY DEF bitpack!Directions, Directions, bitpack!Cells, Cells
<1>2. bitpack!Water = Water /\ bitpack!Plain = Plain /\ bitpack!Forest = Forest
  BY DEF bitpack!Water, Water, bitpack!Plain, Plain, bitpack!Forest, Forest
<1>3. \A t : bitpack!Combustion(t) = Combustion(t)
  BY <1>2 DEF bitpack!Combustion, Combustion
<1>4. \A d : bitpack!Dx(d) = Dx(d) /\ bitpack!Dy(d) = Dy(d)
  BY DEF bitpack!Dx, Dx, bitpack!Dy, Dy, bitpack!Offsets, Offsets
<1>5. \A m, x, y : bitpack!At(m, x, y) = At(m, x, y)
  <2>1. \A a, n : bitpack!Mod(a, n) = Mod(a, n)
    BY DEF bitpack!Mod, Mod, bitpack!Reste, Reste
  <2> QED
    BY <2>1 DEF bitpack!At, At
<1>6. \A S : bitpack!Cardinality(S) = Cardinality(S)
  BY DEF bitpack!Cardinality, Cardinality
<1> QED
  BY <1>1, <1>2, <1>3, <1>4, <1>5, <1>6

(* A row is whole words but the last, which ends on its last bit.          *)
LEMMA MotsDUneLigne ==
  ASSUME NEW m, WellFormed(m)
  PROVE  /\ WordBits \in Nat \ {0} /\ bitpack!Words(m) \in Nat \ {0}
         /\ bitpack!LastBit(m) \in 0 .. WordBits - 1
         /\ m.width = (bitpack!Words(m) - 1) * WordBits + bitpack!LastBit(m) + 1
<1> DEFINE q == (m.width - 1) \div WordBits
           r == (m.width - 1) % WordBits
<1>1. WordBits \in Nat \ {0} /\ m.width - 1 \in Nat /\ m.width \in Nat
  BY WordBitsAssumption DEF WellFormed
<1>2. q \in Nat /\ r \in 0 .. WordBits - 1 /\ m.width - 1 = q * WordBits + r
  <2> DEFINE v == m.width - 1
  <2>1. v \in Nat
    BY <1>1
  <2> HIDE DEF v
  <2>2. v \div WordBits \in Nat /\ v % WordBits \in 0 .. WordBits - 1
        /\ v = (v \div WordBits) * WordBits + (v % WordBits)
    BY <1>1, <2>1, Z3
  <2> QED
    BY <2>2 DEF v
<1> HIDE DEF q, r
<1>3. m.width + WordBits - 1 = (q + 1) * WordBits + r /\ q + 1 \in Nat
  BY <1>1, <1>2
<1>4. bitpack!Words(m) = q + 1
  <2>1. ((q + 1) * WordBits + r) \div WordBits = q + 1
    BY <1>1, <1>2, <1>3, RangEtColonne
  <2> QED
    BY <1>3, <2>1 DEF bitpack!Words
<1>5. bitpack!LastBit(m) = r
  BY DEF bitpack!LastBit, r
<1>6. m.width = q * WordBits + r + 1 /\ q + 1 - 1 = q
  <2>1. q * WordBits \in Int
    BY <1>1, <1>2
  <2> QED
    BY <1>1, <1>2, <2>1
<1> QED
  BY <1>1, <1>2, <1>3, <1>4, <1>5, <1>6

(* A cell is one valid bit of one word,                                    *)
LEMMA MotDeCellule ==
  ASSUME NEW m, WellFormed(m), NEW c \in Cells(m)
  PROVE  /\ bitpack!Mot(m, c) \in bitpack!Mots(m)
         /\ bitpack!Bit(c) \in Valides(m, bitpack!Mot(m, c))
         /\ bitpack!Mot(m, c) % bitpack!Words(m) = c[1] \div WordBits
         /\ bitpack!Mot(m, c) \div bitpack!Words(m) = c[2]
         /\ Cellule(m, bitpack!Mot(m, c), bitpack!Bit(c)) = c
<1> DEFINE s == bitpack!Words(m)
           l == bitpack!LastBit(m)
           x == c[1]
           y == c[2]
           q == x \div WordBits
           r == x % WordBits
           h == m.height
<1>1. /\ WordBits \in Nat \ {0} /\ s \in Nat \ {0} /\ l \in 0 .. WordBits - 1
      /\ m.width = (s - 1) * WordBits + l + 1
  BY MotsDUneLigne
<1>2. x \in Nat /\ x <= m.width - 1 /\ y \in Nat /\ y <= h - 1 /\ h \in Nat \ {0} /\ c = <<x, y>>
  BY DEF WellFormed, Cells
<1> HIDE DEF s, l, x, y, h
<1>3. q \in Nat /\ r \in 0 .. WordBits - 1 /\ x = q * WordBits + r
  BY <1>1, <1>2, Z3
<1> HIDE DEF q, r
<1>4. q <= s - 1 /\ (q = s - 1 => r <= l)
  <2>1. q * WordBits + r <= (s - 1) * WordBits + l
    <3>1. (s - 1) * WordBits \in Int
      BY <1>1
    <3> QED
      BY <1>1, <1>2, <1>3, <3>1
  <2>2. ASSUME q >= s PROVE FALSE
    <3>1. (q - (s - 1)) * WordBits >= WordBits
      <4>1. q - (s - 1) >= 1 /\ q - (s - 1) \in Int
        BY <1>1, <1>3, <2>2
      <4>2. \A a \in Int, b \in Nat : a >= 1 => a * b >= b
        BY Z3
      <4> QED
        BY <1>1, <4>1, <4>2
    <3>2. (q - (s - 1)) * WordBits = q * WordBits - (s - 1) * WordBits
      BY <1>1, <1>3
    <3>3. q * WordBits \in Int /\ (s - 1) * WordBits \in Int
      BY <1>1, <1>3
    <3> QED
      BY <1>1, <1>3, <2>1, <3>1, <3>2, <3>3
  <2>3. q = s - 1 => r <= l
    <3>1. q * WordBits \in Int
      BY <1>1, <1>3
    <3> QED
      BY <1>1, <1>3, <2>1, <3>1
  <2> QED
    BY <1>1, <1>3, <2>2, <2>3
<1>5. bitpack!Mot(m, c) = y * s + q /\ bitpack!Bit(c) = r
  BY DEF bitpack!Mot, bitpack!Bit, s, x, y, q, r
<1>6. (y * s + q) % s = q /\ (y * s + q) \div s = y
  <2>1. q \in 0 .. s - 1
    BY <1>1, <1>3, <1>4
  <2> QED
    BY <1>1, <1>2, <2>1, RangEtColonne
<1>7. bitpack!Mot(m, c) \in bitpack!Mots(m)
  <2>1. y * s + q \in 0 .. s * h - 1
    <3>1. \A a \in Nat, b \in Nat : a <= b => a * s <= b * s
      BY <1>1, Z3
    <3>2. y * s <= (h - 1) * s /\ y * s \in Nat
      <4>1. h - 1 \in Nat
        BY <1>2
      <4> QED
        BY <1>1, <1>2, <3>1, <4>1
    <3>3. (h - 1) * s = s * h - s /\ s * h \in Int
      BY <1>1, <1>2
    <3> QED
      BY <1>1, <1>2, <1>3, <1>4, <3>2, <3>3
  <2> QED
    BY <1>5, <2>1 DEF bitpack!Mots, s, h
<1>8. bitpack!Bit(c) \in Valides(m, bitpack!Mot(m, c))
  <2>1. Valides(m, y * s + q) = IF q = s - 1 THEN 0 .. l ELSE 0 .. WordBits - 1
    BY <1>6 DEF Valides, bitpack!LastMask, bitpack!Bits, s, l
  <2> QED
    BY <1>1, <1>3, <1>4, <1>5, <2>1
<1>9. Cellule(m, bitpack!Mot(m, c), bitpack!Bit(c)) = c
  BY <1>2, <1>3, <1>5, <1>6 DEF Cellule, s
<1> QED
  BY <1>5, <1>6, <1>7, <1>8, <1>9 DEF s, x, y, q

(* and a valid bit is one cell.                                            *)
LEMMA CelluleDuMot ==
  ASSUME NEW m, WellFormed(m), NEW n \in bitpack!Mots(m), NEW b \in Valides(m, n)
  PROVE  /\ Cellule(m, n, b) \in Cells(m)
         /\ bitpack!Mot(m, Cellule(m, n, b)) = n /\ bitpack!Bit(Cellule(m, n, b)) = b
<1> DEFINE s == bitpack!Words(m)
           l == bitpack!LastBit(m)
           q == n % s
           y == n \div s
           h == m.height
<1>1. /\ WordBits \in Nat \ {0} /\ s \in Nat \ {0} /\ l \in 0 .. WordBits - 1
      /\ m.width = (s - 1) * WordBits + l + 1
  BY MotsDUneLigne
<1>2. h \in Nat \ {0} /\ n \in Nat /\ n <= s * h - 1
  <2>1. h \in Nat \ {0}
    BY DEF WellFormed
  <2>2. n \in 0 .. s * h - 1
    BY DEF bitpack!Mots
  <2> HIDE DEF s, h
  <2> QED
    BY <1>1, <2>1, <2>2
<1>3. b \in IF q = s - 1 THEN 0 .. l ELSE 0 .. WordBits - 1
  BY DEF Valides, bitpack!LastMask, bitpack!Bits
<1> HIDE DEF s, l, h
<1>4. q \in 0 .. s - 1 /\ y \in Nat /\ n = y * s + q
  BY <1>1, <1>2, Z3
<1> HIDE DEF q, y
<1>5. b \in 0 .. WordBits - 1 /\ (q = s - 1 => b <= l)
  BY <1>1, <1>3
<1>6. y <= h - 1
  <2>1. ASSUME y >= h PROVE FALSE
    <3>1. y * s >= h * s
      BY <1>1, <1>2, <1>4, <2>1, Z3
    <3>2. h * s = s * h /\ h * s \in Int /\ y * s \in Int
      BY <1>1, <1>2, <1>4
    <3> QED
      BY <1>1, <1>2, <1>4, <3>1, <3>2
  <2> QED
    BY <1>2, <1>4, <2>1
<1>7. (q * WordBits + b) % WordBits = b /\ (q * WordBits + b) \div WordBits = q
  BY <1>1, <1>4, <1>5, RangEtColonne
<1>8. q * WordBits + b \in 0 .. m.width - 1
  <2>1. q * WordBits \in Nat /\ (s - 1) * WordBits \in Nat
    BY <1>1, <1>4
  <2>2. CASE q = s - 1
    BY <1>1, <1>5, <2>1, <2>2
  <2>3. CASE q # s - 1
    <3>1. q <= s - 2 /\ s - 2 \in Nat
      BY <1>1, <1>4, <2>3
    <3>2. q * WordBits <= (s - 2) * WordBits
      BY <1>1, <1>4, <3>1, Z3
    <3>3. (s - 2) * WordBits = (s - 1) * WordBits - WordBits
      BY <1>1
    <3> QED
      BY <1>1, <1>5, <2>1, <3>2, <3>3
  <2> QED
    BY <2>2, <2>3
<1>9. Cellule(m, n, b) = <<q * WordBits + b, y>>
  BY DEF Cellule, q, y, s
<1> QED
  <2>1. Cellule(m, n, b) \in Cells(m)
    BY <1>2, <1>4, <1>6, <1>8, <1>9 DEF Cells, h
  <2>2. bitpack!Mot(m, Cellule(m, n, b)) = y * s + q
    BY <1>7, <1>9 DEF bitpack!Mot, s
  <2>3. bitpack!Bit(Cellule(m, n, b)) = b
    BY <1>7, <1>9 DEF bitpack!Bit
  <2> QED
    BY <1>4, <2>1, <2>2, <2>3

(* A plane whose padding bits are 0, and the cells whose bit is 1.         *)
Masquee(m, P) ==
  /\ P \in [bitpack!Mots(m) -> SUBSET bitpack!Bits]
  /\ \A n \in bitpack!Mots(m) : P[n] \subseteq Valides(m, n)
Vue(m, P) == {c \in Cells(m) : bitpack!Lit(P, m, c)}

LEMMA ValidesSontDesBits ==
  ASSUME NEW m, WellFormed(m), NEW n
  PROVE  Valides(m, n) \subseteq bitpack!Bits /\ bitpack!Bits \subseteq Nat
<1>1. WordBits \in Nat \ {0} /\ bitpack!LastBit(m) \in 0 .. WordBits - 1
  BY MotsDUneLigne
<1> QED
  BY <1>1 DEF Valides, bitpack!LastMask, bitpack!Bits

LEMMA Masque1 ==
  ASSUME NEW m, WellFormed(m), NEW P,
         P = [n \in bitpack!Mots(m) |-> P[n]],
         \A n \in bitpack!Mots(m) : P[n] \subseteq Valides(m, n)
  PROVE  Masquee(m, P)
<1>1. \A n \in bitpack!Mots(m) : P[n] \in SUBSET bitpack!Bits
  BY ValidesSontDesBits
<1> QED
  BY <1>1 DEF Masquee

(* The plane of a set of cells holds these cells.                          *)
LEMMA PlanDesCellules ==
  ASSUME NEW m, WellFormed(m), NEW S, S \subseteq Cells(m)
  PROVE  /\ Masquee(m, bitpack!Plan(m, S))
         /\ \A c \in Cells(m) : bitpack!Lit(bitpack!Plan(m, S), m, c) <=> c \in S
<1> DEFINE P == bitpack!Plan(m, S)
<1>1. P = [n \in bitpack!Mots(m) |-> {bitpack!Bit(c) : c \in {b \in S : bitpack!Mot(m, b) = n}}]
  BY DEF bitpack!Plan
<1> HIDE DEF P
<1>2. \A n \in bitpack!Mots(m) : \A b :
        b \in P[n] <=> \E c \in S : bitpack!Mot(m, c) = n /\ b = bitpack!Bit(c)
  BY <1>1
<1>3. Masquee(m, P)
  <2>1. \A n \in bitpack!Mots(m) : P[n] \subseteq Valides(m, n)
    BY <1>2, MotDeCellule
  <2> QED
    BY <1>1, <2>1, Masque1
<1>4. ASSUME NEW c \in Cells(m)
      PROVE  bitpack!Lit(P, m, c) <=> c \in S
  <2>1. bitpack!Mot(m, c) \in bitpack!Mots(m)
    BY MotDeCellule
  <2>2. bitpack!Lit(P, m, c) <=>
          \E b \in S : bitpack!Mot(m, b) = bitpack!Mot(m, c) /\ bitpack!Bit(c) = bitpack!Bit(b)
    BY <1>2, <2>1 DEF bitpack!Lit
  <2>3. \A b \in S : bitpack!Mot(m, b) = bitpack!Mot(m, c) /\ bitpack!Bit(c) = bitpack!Bit(b)
                       => b = c
    BY MotDeCellule
  <2> QED
    BY <2>2, <2>3
<1> QED
  BY <1>3, <1>4 DEF P

(* pose: one more bit.                                                     *)
LEMMA PoseUnBit ==
  ASSUME NEW m, WellFormed(m), NEW P, Masquee(m, P), NEW c \in Cells(m),
         NEW Q, Q = bitpack!Pose(P, m, c)
  PROVE  /\ Masquee(m, Q)
         /\ \A b \in Cells(m) : bitpack!Lit(Q, m, b) <=> bitpack!Lit(P, m, b) \/ b = c
<1> DEFINE n == bitpack!Mot(m, c)
           r == bitpack!Bit(c)
<1>1. n \in bitpack!Mots(m) /\ r \in Valides(m, n)
  BY MotDeCellule
<1>2. \A b \in Cells(m) : bitpack!Mot(m, b) \in bitpack!Mots(m)
                          /\ (bitpack!Mot(m, b) = n /\ bitpack!Bit(b) = r => b = c)
  BY MotDeCellule
<1>3. Q = [P EXCEPT ![n] = P[n] \cup {r}]
  BY DEF bitpack!Pose
<1>4. P \in [bitpack!Mots(m) -> SUBSET bitpack!Bits]
      /\ \A i \in bitpack!Mots(m) : P[i] \subseteq Valides(m, i)
  BY DEF Masquee
<1> HIDE DEF n, r
<1>5. \A i \in bitpack!Mots(m) : Q[i] = IF i = n THEN P[n] \cup {r} ELSE P[i]
  BY <1>3, <1>4
<1>6. Q = [i \in bitpack!Mots(m) |-> Q[i]]
  BY <1>3, <1>4
<1>7. \A i \in bitpack!Mots(m) : Q[i] \subseteq Valides(m, i)
  BY <1>1, <1>4, <1>5
<1>8. Masquee(m, Q)
  BY <1>6, <1>7, Masque1
<1>9. ASSUME NEW b \in Cells(m)
      PROVE  bitpack!Lit(Q, m, b) <=> bitpack!Lit(P, m, b) \/ b = c
  <2>1. bitpack!Bit(c) = r /\ bitpack!Mot(m, c) = n
    BY DEF n, r
  <2> QED
    BY <1>2, <1>5, <2>1 DEF bitpack!Lit
<1> QED
  BY <1>8, <1>9

(* The bit of the cell of abscissa i * WordBits + r in a row.              *)
LEMMA LitDuMot ==
  ASSUME NEW P, NEW m, NEW i \in Nat, NEW r \in 0 .. WordBits - 1, NEW y \in Nat
  PROVE  bitpack!Lit(P, m, <<i * WordBits + r, y>>) <=> r \in P[y * bitpack!Words(m) + i]
<1>1. WordBits \in Nat \ {0}
  BY WordBitsAssumption
<1>2. (i * WordBits + r) % WordBits = r /\ (i * WordBits + r) \div WordBits = i
  BY <1>1, RangEtColonne
<1> QED
  BY <1>2 DEF bitpack!Lit, bitpack!Bit, bitpack!Mot

LEMMA ModAuBord ==
  ASSUME NEW n \in Nat \ {0}, NEW a \in -1 .. n
  PROVE  Mod(a, n) = IF a = -1 THEN n - 1 ELSE IF a = n THEN 0 ELSE a
<1>1. CASE a = -1
  BY <1>1, Z3 DEF Mod, Reste
<1>2. CASE a = n
  BY <1>2, Z3 DEF Mod, Reste
<1>3. CASE a \in 0 .. n - 1
  <2>1. a % n = a
    BY <1>3, ModPetit
  <2> QED
    BY <1>3, <2>1 DEF Mod, Reste
<1> QED
  BY <1>1, <1>2, <1>3

(* The words of a row.                                                     *)
LEMMA MotsDuRang ==
  ASSUME NEW m, WellFormed(m), NEW i \in 0 .. bitpack!Words(m) - 1, NEW y \in 0 .. m.height - 1
  PROVE  /\ y * bitpack!Words(m) + i \in bitpack!Mots(m)
         /\ (y * bitpack!Words(m) + i) % bitpack!Words(m) = i
         /\ (y * bitpack!Words(m) + i) \div bitpack!Words(m) = y
<1> DEFINE s == bitpack!Words(m)
           h == m.height
<1>1. s \in Nat \ {0} /\ h \in Nat \ {0} /\ y \in 0 .. h - 1 /\ i \in 0 .. s - 1
  BY MotsDUneLigne DEF WellFormed
<1> HIDE DEF s, h
<1>2. y * s + i \in 0 .. s * h - 1
  <2>1. y * s <= (h - 1) * s /\ y * s \in Nat
    BY <1>1, Z3
  <2>2. (h - 1) * s = s * h - s /\ s * h \in Int
    BY <1>1
  <2> QED
    BY <1>1, <2>1, <2>2
<1>3. (y * s + i) % s = i /\ (y * s + i) \div s = y
  BY <1>1, RangEtColonne
<1>4. bitpack!Mots(m) = 0 .. s * h - 1
  BY DEF bitpack!Mots, s, h
<1> QED
  BY <1>2, <1>3, <1>4 DEF s, h

(* An abscissa is a bit of a word of the row.                              *)
LEMMA MotEtBit ==
  ASSUME NEW m, WellFormed(m), NEW x \in 0 .. m.width - 1
  PROVE  /\ WordBits \in Nat \ {0} /\ bitpack!Words(m) \in Nat \ {0}
         /\ bitpack!LastBit(m) \in 0 .. WordBits - 1
         /\ m.width = (bitpack!Words(m) - 1) * WordBits + bitpack!LastBit(m) + 1
         /\ x \div WordBits \in 0 .. bitpack!Words(m) - 1
         /\ x % WordBits \in 0 .. WordBits - 1
         /\ x = (x \div WordBits) * WordBits + (x % WordBits)
         /\ x \div WordBits = bitpack!Words(m) - 1 => x % WordBits <= bitpack!LastBit(m)
<1> DEFINE c == <<x, 0>>
           n == bitpack!Mot(m, c)
<1>1. /\ WordBits \in Nat \ {0} /\ bitpack!Words(m) \in Nat \ {0}
      /\ bitpack!LastBit(m) \in 0 .. WordBits - 1
      /\ m.width = (bitpack!Words(m) - 1) * WordBits + bitpack!LastBit(m) + 1
  BY MotsDUneLigne
<1>2. x \in Nat /\ c \in Cells(m)
  BY DEF WellFormed, Cells
<1>3. n % bitpack!Words(m) = x \div WordBits /\ x % WordBits \in Valides(m, n)
  <2>1. n % bitpack!Words(m) = c[1] \div WordBits /\ bitpack!Bit(c) \in Valides(m, n)
    BY <1>2, MotDeCellule
  <2> QED
    BY <2>1 DEF bitpack!Bit
<1>4. n \in Int
  <2>1. n \in bitpack!Mots(m)
    BY <1>2, MotDeCellule
  <2> QED
    BY <2>1 DEF bitpack!Mots
<1> HIDE DEF n, c
<1>5. x \div WordBits \in 0 .. bitpack!Words(m) - 1
  <2>1. n % bitpack!Words(m) \in 0 .. bitpack!Words(m) - 1
    BY <1>1, <1>4, ModBorne
  <2> QED
    BY <1>3, <2>1
<1>6. x % WordBits \in 0 .. WordBits - 1 /\ x = (x \div WordBits) * WordBits + (x % WordBits)
  BY <1>1, <1>2, Z3
<1>7. x \div WordBits = bitpack!Words(m) - 1 => x % WordBits <= bitpack!LastBit(m)
  <2>1. ASSUME x \div WordBits = bitpack!Words(m) - 1
        PROVE  x % WordBits \in 0 .. bitpack!LastBit(m)
    BY <1>3, <2>1 DEF Valides, bitpack!LastMask
  <2> QED
    BY <1>1, <1>6, <2>1
<1> QED
  BY <1>1, <1>5, <1>6, <1>7

(* The left shift of a row brings to each cell the bit of the cell on its  *)
(* left, through the words and round the row,                              *)
LEMMA DecaleAGauche ==
  ASSUME WellFormed(carte), Masquee(carte, source),
         NEW x \in 0 .. carte.width - 1, NEW y \in 0 .. carte.height - 1
  PROVE  x % WordBits \in bitpack!Gauche(y * bitpack!Words(carte), x \div WordBits)
           <=> bitpack!Lit(source, carte, <<Mod(x - 1, carte.width), y>>)
<1> DEFINE s == bitpack!Words(carte)
           l == bitpack!LastBit(carte)
           i == x \div WordBits
           r == x % WordBits
           z == y * s
           a == Mod(x - 1, carte.width)
           L == bitpack!Lit(source, carte, <<a, y>>)
           entre == IF i > 0 THEN WordBits - 1 \in source[z + i - 1] ELSE l \in source[z + (s - 1)]
<1>1. /\ WordBits \in Nat \ {0} /\ s \in Nat \ {0} /\ l \in 0 .. WordBits - 1
      /\ carte.width = (s - 1) * WordBits + l + 1
      /\ i \in 0 .. s - 1 /\ r \in 0 .. WordBits - 1 /\ x = i * WordBits + r
  BY MotEtBit
<1>2. y \in Nat /\ carte.width \in Nat \ {0} /\ x \in Nat /\ z \in Nat
  <2>1. y \in Nat /\ carte.width \in Nat \ {0} /\ x \in Nat
    BY DEF WellFormed
  <2>2. \A a1 \in Nat, a2 \in Nat : a1 * a2 \in Nat
    BY Z3
  <2> QED
    BY <1>1, <2>1, <2>2
<1>3. r \in bitpack!Gauche(z, i) <=>
        \/ r \in {b + 1 : b \in source[z + i]} /\ r \in 0 .. WordBits - 1
        \/ entre /\ r = 0
  BY DEF bitpack!Gauche, bitpack!Bits
<1>4. source[z + i] \subseteq 0 .. WordBits - 1
  <2>1. z + i \in bitpack!Mots(carte)
    BY <1>1, MotsDuRang
  <2> QED
    BY <2>1 DEF Masquee, bitpack!Bits
<1>5. \A p \in Nat, q \in 0 .. WordBits - 1 :
        a = p * WordBits + q => (L <=> q \in source[z + p])
  BY <1>2, LitDuMot
<1>6. a = IF x = 0 THEN carte.width - 1 ELSE x - 1
  <2>1. x - 1 \in -1 .. carte.width
    BY <1>2
  <2> QED
    BY <1>2, <2>1, ModAuBord
<1> HIDE DEF s, l, i, r, z, a, L
<1>7. CASE r # 0
  <2>1. x - 1 = i * WordBits + (r - 1) /\ x # 0 /\ r - 1 \in 0 .. WordBits - 1 /\ i \in Nat
    <3>1. i * WordBits \in Nat
      BY <1>1
    <3> QED
      BY <1>1, <1>2, <1>7, <3>1
  <2>2. L <=> r - 1 \in source[z + i]
    BY <1>5, <1>6, <2>1
  <2>3. r \in {b + 1 : b \in source[z + i]} <=> r - 1 \in source[z + i]
    BY <1>1, <1>4
  <2> QED
    BY <1>1, <1>3, <1>7, <2>2, <2>3 DEF s, i, r, z, a, L
<1>8. CASE r = 0
  <2>1. r \notin {b + 1 : b \in source[z + i]}
    BY <1>4, <1>8
  <2>2. L <=> entre
    <3>1. CASE i > 0
      <4>1. x - 1 = (i - 1) * WordBits + (WordBits - 1) /\ x # 0
        <5>1. (i - 1) * WordBits = i * WordBits - WordBits /\ (i - 1) * WordBits \in Nat
          BY <1>1, <3>1
        <5> QED
          BY <1>1, <1>2, <1>8, <5>1
      <4>2. i - 1 \in Nat /\ WordBits - 1 \in 0 .. WordBits - 1 /\ z + (i - 1) = z + i - 1
        BY <1>1, <1>2, <3>1
      <4>3. L <=> WordBits - 1 \in source[z + (i - 1)]
        BY <1>5, <1>6, <4>1, <4>2
      <4> QED
        BY <3>1, <4>2, <4>3
    <3>2. CASE ~(i > 0)
      <4>1. x = 0 /\ carte.width - 1 = (s - 1) * WordBits + l /\ s - 1 \in Nat
        <5>1. i = 0 /\ 0 * WordBits = 0 /\ (s - 1) * WordBits \in Nat
          BY <1>1, <3>2
        <5> QED
          BY <1>1, <1>8, <5>1
      <4>2. L <=> l \in source[z + (s - 1)]
        BY <1>1, <1>5, <1>6, <4>1
      <4> QED
        BY <3>2, <4>2
    <3> QED
      BY <3>1, <3>2
  <2> QED
    BY <1>3, <1>8, <2>1, <2>2 DEF s, i, r, z, a, L
<1> QED
  BY <1>7, <1>8

(* and the right shift that of the cell on its right.                      *)
LEMMA DecaleADroite ==
  ASSUME WellFormed(carte), Masquee(carte, source),
         NEW x \in 0 .. carte.width - 1, NEW y \in 0 .. carte.height - 1
  PROVE  x % WordBits \in bitpack!Droite(y * bitpack!Words(carte), x \div WordBits)
           <=> bitpack!Lit(source, carte, <<Mod(x + 1, carte.width), y>>)
<1> DEFINE s == bitpack!Words(carte)
           l == bitpack!LastBit(carte)
           i == x \div WordBits
           r == x % WordBits
           z == y * s
           a == Mod(x + 1, carte.width)
           L == bitpack!Lit(source, carte, <<a, y>>)
<1>1. /\ WordBits \in Nat \ {0} /\ s \in Nat \ {0} /\ l \in 0 .. WordBits - 1
      /\ carte.width = (s - 1) * WordBits + l + 1
      /\ i \in 0 .. s - 1 /\ r \in 0 .. WordBits - 1 /\ x = i * WordBits + r
      /\ i = s - 1 => r <= l
  BY MotEtBit
<1>2. y \in Nat /\ carte.width \in Nat \ {0} /\ x \in Nat /\ z \in Nat
  <2>1. y \in Nat /\ carte.width \in Nat \ {0} /\ x \in Nat
    BY DEF WellFormed
  <2>2. \A a1 \in Nat, a2 \in Nat : a1 * a2 \in Nat
    BY Z3
  <2> QED
    BY <1>1, <2>1, <2>2
<1>3. r \in bitpack!Droite(z, i) <=>
        \/ r \in {b - 1 : b \in source[z + i]} /\ r \in 0 .. WordBits - 1
        \/ IF i < s - 1 THEN 0 \in source[z + i + 1] /\ r = WordBits - 1
           ELSE 0 \in source[z] /\ r = l
  BY DEF bitpack!Droite, bitpack!Bits
<1>4. /\ source[z + i] \subseteq 0 .. WordBits - 1
      /\ i = s - 1 => source[z + i] \subseteq 0 .. l
  <2>1. z + i \in bitpack!Mots(carte) /\ (z + i) % s = i
    BY <1>1, MotsDuRang
  <2>2. source[z + i] \in SUBSET bitpack!Bits /\ source[z + i] \subseteq Valides(carte, z + i)
    BY <2>1 DEF Masquee
  <2>3. Valides(carte, z + i) = IF i = s - 1 THEN 0 .. l ELSE bitpack!Bits
    BY <2>1 DEF Valides, bitpack!LastMask
  <2> QED
    BY <2>2, <2>3 DEF bitpack!Bits
<1>5. \A p \in Nat, q \in 0 .. WordBits - 1 :
        a = p * WordBits + q => (L <=> q \in source[z + p])
  BY <1>2, LitDuMot
<1>6. a = IF x + 1 = carte.width THEN 0 ELSE x + 1
  <2>1. x + 1 \in -1 .. carte.width /\ x + 1 # -1
    BY <1>2
  <2> QED
    BY <1>2, <2>1, ModAuBord
<1> HIDE DEF s, l, i, r, z, a, L
<1>7. r \in {b - 1 : b \in source[z + i]} <=> r + 1 \in source[z + i]
  BY <1>1, <1>4
<1>8. i * WordBits \in Nat /\ (s - 1) * WordBits \in Nat
  BY <1>1
<1>9. r + 1 \in source[z + i] \/ (r + 1 # WordBits /\ ~(i = s - 1 /\ r = l))
        => (L <=> r + 1 \in source[z + i]) /\ r # WordBits - 1 /\ (i = s - 1 => r # l)
  <2> SUFFICES ASSUME r + 1 \in source[z + i] \/ (r + 1 # WordBits /\ ~(i = s - 1 /\ r = l))
               PROVE  (L <=> r + 1 \in source[z + i]) /\ r # WordBits - 1 /\ (i = s - 1 => r # l)
    OBVIOUS
  <2>1. r + 1 \in 0 .. WordBits - 1 /\ (i = s - 1 => r + 1 <= l)
    BY <1>1, <1>4
  <2>2. x + 1 = i * WordBits + (r + 1) /\ x + 1 # carte.width
    <3>1. x + 1 = i * WordBits + (r + 1)
      BY <1>1, <1>8
    <3>2. CASE i = s - 1
      BY <1>1, <1>8, <2>1, <3>1, <3>2
    <3>3. CASE i # s - 1
      <4>1. i * WordBits <= (s - 2) * WordBits
        <5>1. i <= s - 2 /\ s - 2 \in Int
          BY <1>1, <3>3
        <5> QED
          BY <1>1, <5>1, Z3
      <4>2. (s - 2) * WordBits = (s - 1) * WordBits - WordBits
        BY <1>1
      <4> QED
        BY <1>1, <1>8, <2>1, <3>1, <4>1, <4>2
    <3> QED
      BY <3>1, <3>2, <3>3
  <2>3. L <=> r + 1 \in source[z + i]
    <3>1. i \in Nat
      BY <1>1
    <3> QED
      BY <1>5, <1>6, <2>1, <2>2, <3>1
  <2> QED
    BY <1>1, <2>1, <2>3
<1>10. CASE r + 1 \in source[z + i] \/ (r + 1 # WordBits /\ ~(i = s - 1 /\ r = l))
  <2>1. r \in bitpack!Droite(z, i) <=> L
    BY <1>1, <1>3, <1>7, <1>9, <1>10
  <2> QED
    BY <2>1 DEF s, i, r, z, a, L
<1>11. CASE r + 1 \notin source[z + i] /\ (r + 1 = WordBits \/ (i = s - 1 /\ r = l))
  <2>1. CASE i = s - 1
    <3>1. r = l
      BY <1>1, <1>11, <2>1
    <3>2. x + 1 = carte.width
      BY <1>1, <1>8, <2>1, <3>1
    <3>3. L <=> 0 \in source[z + 0]
      <4>1. a = 0 * WordBits + 0 /\ 0 \in 0 .. WordBits - 1
        BY <1>1, <1>6, <3>2
      <4> QED
        BY <1>5, <4>1
    <3>4. ~(i < s - 1) /\ z + 0 = z
      BY <1>1, <1>2, <2>1
    <3>5. r \in bitpack!Droite(z, i) <=> L
      BY <1>3, <1>7, <1>11, <3>1, <3>3, <3>4
    <3> QED
      BY <3>5 DEF s, i, r, z, a, L
  <2>2. CASE i # s - 1
    <3>1. i < s - 1 /\ r = WordBits - 1
      BY <1>1, <1>11, <2>2
    <3>2. x + 1 = (i + 1) * WordBits + 0 /\ x + 1 # carte.width
      <4>1. (i + 1) * WordBits = i * WordBits + WordBits
        BY <1>1
      <4>2. (i + 1) * WordBits <= (s - 1) * WordBits
        <5>1. i + 1 <= s - 1 /\ i + 1 \in Nat /\ s - 1 \in Nat
          BY <1>1, <3>1
        <5> QED
          BY <1>1, <5>1, Z3
      <4> QED
        BY <1>1, <1>8, <3>1, <4>1, <4>2
    <3>3. L <=> 0 \in source[z + (i + 1)]
      <4>1. i + 1 \in Nat /\ 0 \in 0 .. WordBits - 1
        BY <1>1
      <4> QED
        BY <1>5, <1>6, <3>2, <4>1
    <3>4. z + (i + 1) = z + i + 1
      BY <1>1, <1>2
    <3>5. r \in bitpack!Droite(z, i) <=> L
      BY <1>3, <1>7, <1>11, <3>1, <3>3, <3>4
    <3> QED
      BY <3>5 DEF s, i, r, z, a, L
  <2> QED
    BY <2>1, <2>2
<1> QED
  BY <1>10, <1>11

LEMMA ModAllerRetour ==
  ASSUME NEW n \in Nat \ {0}, NEW a \in 0 .. n - 1, NEW b \in 0 .. n - 1, NEW d \in -1..1
  PROVE  a = Mod(b + d, n) <=> b = Mod(a - d, n)
<1>1. b + d \in -1 .. n /\ a - d \in -1 .. n
  OBVIOUS
<1>2. /\ Mod(b + d, n) = IF b + d = -1 THEN n - 1 ELSE IF b + d = n THEN 0 ELSE b + d
      /\ Mod(a - d, n) = IF a - d = -1 THEN n - 1 ELSE IF a - d = n THEN 0 ELSE a - d
  BY <1>1, ModAuBord
<1> QED
  BY <1>1, <1>2

(* The nine cells of the square of a cell, which a word ignites at once.   *)
Alentours(m, b) == {At(m, b[1] + p[1], b[2] + p[2]) : p \in (-1..1) \X (-1..1)}
Brulante(c) == bitpack!Lit(f1, carte, c) \/ bitpack!Lit(f2, carte, c)

BitType ==
  /\ WellFormed(carte)
  /\ Masquee(carte, f1) /\ Masquee(carte, f2) /\ Masquee(carte, r1) /\ Masquee(carte, r2)
  /\ Masquee(carte, source) /\ Masquee(carte, ignite)
  /\ pc \in {"new", "idle", "spread", "apply"}
  /\ k \in Nat /\ count \in Nat /\ burning \in Nat
Seuls ==
  \A c \in Cells(carte) :
    /\ ~(bitpack!Lit(f1, carte, c) /\ bitpack!Lit(f2, carte, c))
    /\ Brulante(c) => /\ ~bitpack!Lit(r1, carte, c) /\ ~bitpack!Lit(r2, carte, c)
                      /\ carte.terrain[c] # Water
Poursuit ==
  /\ pc = "new" =>
       /\ k <= Len(carte.fires)
       /\ \A c \in Cells(carte) :
            /\ bitpack!Lit(f1, carte, c) <=> c \in Poses /\ carte.terrain[c] = Plain
            /\ bitpack!Lit(f2, carte, c) <=> c \in Poses /\ carte.terrain[c] = Forest
            /\ ~bitpack!Lit(r1, carte, c) /\ ~bitpack!Lit(r2, carte, c)
  /\ pc = "spread" =>
       /\ k <= carte.height
       /\ \A c \in Cells(carte) :
            /\ bitpack!Lit(source, carte, c) <=> Brulante(c) /\ carte.wind[c] = 0
            /\ bitpack!Lit(ignite, carte, c) <=>
                 \E b \in Cells(carte) : /\ bitpack!Lit(source, carte, b)
                                         /\ b[2] < k /\ c \in Alentours(carte, b)
Brasier == {c \in Cells(carte) : Brulante(c)}
Faites == {c \in Cells(carte) : bitpack!Mot(carte, c) < k /\ Brulante(c)}
Compte ==
  /\ pc # "apply" => burning = Cardinality(Brasier)
  /\ pc = "apply" => count = Cardinality(Faites)
(* The invariant of bitpack: no padding bit is ever 1, no cell is in two   *)
(* states, and each row spread ignites its squares.                        *)
BitInv == BitType /\ Seuls /\ Poursuit /\ Compte

LEMMA DansAlentours ==
  ASSUME NEW m, NEW b, NEW x \in -1..1, NEW y \in -1..1
  PROVE  At(m, b[1] + x, b[2] + y) \in Alentours(m, b)
<1>1. <<x, y>> \in (-1..1) \X (-1..1) /\ <<x, y>>[1] = x /\ <<x, y>>[2] = y
  OBVIOUS
<1>2. \E p \in (-1..1) \X (-1..1) :
        At(m, b[1] + x, b[2] + y) = At(m, b[1] + p[1], b[2] + p[2])
  BY <1>1
<1> QED
  BY <1>2 DEF Alentours

(* A row spread ignites the square of each of its sources.                 *)
LEMMA LigneAllume ==
  ASSUME BitType, pc = "spread", bitpack!Ligne
  PROVE  /\ Masquee(carte, ignite')
         /\ \A c \in Cells(carte) :
              bitpack!Lit(ignite', carte, c) <=>
                \/ bitpack!Lit(ignite, carte, c)
                \/ \E b \in Cells(carte) : /\ bitpack!Lit(source, carte, b) /\ b[2] = k
                                           /\ c \in Alentours(carte, b)
<1> DEFINE w == bitpack!Words(carte)
           h == carte.height
           M == bitpack!Mots(carte)
           prev == IF k = 0 THEN h - 1 ELSE k - 1
           suiv == IF k + 1 = h THEN 0 ELSE k + 1
           brut(n) == ignite[n] \cup source[k * w + (n % w)]
                        \cup bitpack!Gauche(k * w, n % w) \cup bitpack!Droite(k * w, n % w)
           net(n) == bitpack!Masque(n % w, brut(n))
<1>1. ignite' = [n \in M |-> IF n \div w \in {prev, k, suiv} THEN net(n) ELSE ignite[n]]
      /\ k < h
  BY DEF bitpack!Ligne
<1>2. /\ WellFormed(carte) /\ Masquee(carte, source) /\ Masquee(carte, ignite)
      /\ k \in 0 .. h - 1 /\ h \in Nat \ {0} /\ carte.width \in Nat \ {0}
  BY <1>1 DEF BitType, WellFormed
<1>3. /\ WordBits \in Nat \ {0} /\ w \in Nat \ {0} /\ bitpack!LastBit(carte) \in 0 .. WordBits - 1
  BY <1>2, MotsDUneLigne
<1>4. ASSUME NEW n \in M
      PROVE  /\ net(n) \subseteq Valides(carte, n)
             /\ \A b \in Valides(carte, n) : b \in net(n) <=> b \in brut(n)
  <2>1. n % w \in 0 .. w - 1
    <3>1. n \in Int
      BY DEF bitpack!Mots
    <3> QED
      BY <1>3, <3>1, ModBorne
  <2>2. k * w + (n % w) \in M
    BY <1>2, <2>1, MotsDuRang
  <2>3. brut(n) \subseteq bitpack!Bits
    <3>1. source[k * w + (n % w)] \subseteq bitpack!Bits /\ ignite[n] \subseteq bitpack!Bits
      BY <1>2, <2>2 DEF Masquee
    <3>2. 0 \in bitpack!Bits /\ WordBits - 1 \in bitpack!Bits
          /\ bitpack!LastBit(carte) \in bitpack!Bits
      BY <1>3 DEF bitpack!Bits
    <3>3. bitpack!Gauche(k * w, n % w) \subseteq bitpack!Bits
      BY <3>2 DEF bitpack!Gauche
    <3>4. bitpack!Droite(k * w, n % w) \subseteq bitpack!Bits
      BY <3>2 DEF bitpack!Droite
    <3> QED
      BY <3>1, <3>3, <3>4
  <2>4. net(n) = IF n % w = w - 1 THEN brut(n) \cap bitpack!LastMask(carte) ELSE brut(n)
    BY DEF bitpack!Masque
  <2>5. Valides(carte, n) = IF n % w = w - 1 THEN bitpack!LastMask(carte) ELSE bitpack!Bits
    BY DEF Valides
  <2> HIDE DEF net, brut
  <2> QED
    BY <2>3, <2>4, <2>5
<1> HIDE DEF net
<1>5. Masquee(carte, ignite')
  <2>1. \A n \in M : ignite'[n] \subseteq Valides(carte, n)
    BY <1>1, <1>2, <1>4 DEF Masquee
  <2>2. ignite' = [n \in M |-> ignite'[n]]
    BY <1>1
  <2> QED
    BY <1>2, <2>1, <2>2, Masque1
<1>6. ASSUME NEW c \in Cells(carte)
      PROVE  bitpack!Lit(ignite', carte, c) <=>
               \/ bitpack!Lit(ignite, carte, c)
               \/ /\ c[2] \in {prev, k, suiv}
                  /\ \E d \in -1..1 :
                       bitpack!Lit(source, carte, <<Mod(c[1] + d, carte.width), k>>)
  <2> DEFINE n == bitpack!Mot(carte, c)
             x == c[1]
  <2>1. /\ n \in M /\ n % w = x \div WordBits /\ n \div w = c[2]
        /\ x % WordBits \in Valides(carte, n) /\ bitpack!Bit(c) = x % WordBits
    BY <1>2, MotDeCellule DEF bitpack!Bit
  <2>2. x \in 0 .. carte.width - 1
    BY DEF Cells
  <2>3. x % WordBits \in bitpack!Gauche(k * w, x \div WordBits)
          <=> bitpack!Lit(source, carte, <<Mod(x - 1, carte.width), k>>)
    BY <1>2, <2>2, DecaleAGauche
  <2>4. x % WordBits \in bitpack!Droite(k * w, x \div WordBits)
          <=> bitpack!Lit(source, carte, <<Mod(x + 1, carte.width), k>>)
    BY <1>2, <2>2, DecaleADroite
  <2>5. x % WordBits \in source[k * w + x \div WordBits]
          <=> bitpack!Lit(source, carte, <<Mod(x + 0, carte.width), k>>)
    <3>1. Mod(x + 0, carte.width) = x
      <4>1. x + 0 = x /\ x \in -1 .. carte.width /\ x # -1 /\ x # carte.width
        BY <1>2, <2>2
      <4> QED
        BY <1>2, <4>1, ModAuBord
    <3> QED
      BY <3>1 DEF bitpack!Lit, bitpack!Bit, bitpack!Mot
  <2>6. x % WordBits \in brut(n) <=>
          \/ x % WordBits \in ignite[n]
          \/ \E d \in -1..1 : bitpack!Lit(source, carte, <<Mod(x + d, carte.width), k>>)
    <3> DEFINE F(d) == bitpack!Lit(source, carte, <<Mod(x + d, carte.width), k>>)
    <3>1. x + (-1) = x - 1
      BY <2>2
    <3>2. /\ x % WordBits \in bitpack!Gauche(k * w, n % w) <=> F(-1)
          /\ x % WordBits \in bitpack!Droite(k * w, n % w) <=> F(1)
          /\ x % WordBits \in source[k * w + (n % w)] <=> F(0)
      BY <2>1, <2>3, <2>4, <2>5, <3>1
    <3>3. x % WordBits \in brut(n) <=>
            \/ x % WordBits \in ignite[n] \/ x % WordBits \in source[k * w + (n % w)]
            \/ x % WordBits \in bitpack!Gauche(k * w, n % w)
            \/ x % WordBits \in bitpack!Droite(k * w, n % w)
      OBVIOUS
    <3> HIDE DEF F
    <3>4. (\E d \in -1..1 : F(d)) <=> F(-1) \/ F(0) \/ F(1)
      <4>1. \A d \in -1..1 : d = -1 \/ d = 0 \/ d = 1
        OBVIOUS
      <4>2. -1 \in -1..1 /\ 0 \in -1..1 /\ 1 \in -1..1
        OBVIOUS
      <4> QED
        BY <4>1, <4>2
    <3>5. x % WordBits \in brut(n) <=> x % WordBits \in ignite[n] \/ \E d \in -1..1 : F(d)
      BY <3>2, <3>3, <3>4
    <3> QED
      BY <3>5 DEF F
  <2> DEFINE E == \E d \in -1..1 : bitpack!Lit(source, carte, <<Mod(x + d, carte.width), k>>)
  <2>7. bitpack!Lit(ignite', carte, c) <=> x % WordBits \in ignite'[n]
    BY <2>1 DEF bitpack!Lit
  <2>8. bitpack!Lit(ignite, carte, c) <=> x % WordBits \in ignite[n]
    BY <2>1 DEF bitpack!Lit
  <2>9. ignite'[n] = IF c[2] \in {prev, k, suiv} THEN net(n) ELSE ignite[n]
    BY <1>1, <2>1
  <2>10. x % WordBits \in net(n) <=> x % WordBits \in brut(n)
    BY <1>4, <2>1
  <2>11. bitpack!Lit(ignite', carte, c) <=>
           bitpack!Lit(ignite, carte, c) \/ (c[2] \in {prev, k, suiv} /\ E)
    <3> HIDE DEF brut, E, n, x, prev, suiv
    <3> QED
      BY <2>6, <2>7, <2>8, <2>9, <2>10 DEF E
  <2> QED
    BY <2>11
<1>7. ASSUME NEW y \in 0 .. h - 1
      PROVE  y \in {prev, k, suiv} <=> \E e \in -1..1 : y = Mod(k + e, h)
  <2>1. /\ Mod(k + (-1), h) = prev /\ Mod(k + 0, h) = k /\ Mod(k + 1, h) = suiv
    <3>1. k + (-1) \in -1 .. h /\ k + 0 \in -1 .. h /\ k + 1 \in -1 .. h
      BY <1>2
    <3> HIDE DEF h
    <3> QED
      BY <1>2, <3>1, ModAuBord
  <2>2. \A e \in -1..1 : e = -1 \/ e = 0 \/ e = 1
    OBVIOUS
  <2>3. -1 \in -1..1 /\ 0 \in -1..1 /\ 1 \in -1..1
    OBVIOUS
  <2> HIDE DEF prev, suiv, h
  <2> QED
    BY <2>1, <2>2, <2>3
<1>8. ASSUME NEW c \in Cells(carte)
      PROVE  (/\ c[2] \in {prev, k, suiv}
              /\ \E d \in -1..1 : bitpack!Lit(source, carte, <<Mod(c[1] + d, carte.width), k>>))
             <=> \E b \in Cells(carte) : /\ bitpack!Lit(source, carte, b) /\ b[2] = k
                                         /\ c \in Alentours(carte, b)
  <2>1. c[1] \in 0 .. carte.width - 1 /\ c[2] \in 0 .. h - 1 /\ c = <<c[1], c[2]>>
    BY DEF Cells
  <2>2. ASSUME c[2] \in {prev, k, suiv}, NEW d \in -1..1,
               bitpack!Lit(source, carte, <<Mod(c[1] + d, carte.width), k>>)
        PROVE  \E b \in Cells(carte) : /\ bitpack!Lit(source, carte, b) /\ b[2] = k
                                       /\ c \in Alentours(carte, b)
    <3>1. PICK e \in -1..1 : c[2] = Mod(k + e, h)
      BY <1>7, <2>1, <2>2
    <3> DEFINE a == Mod(c[1] + d, carte.width)
               b == <<a, k>>
    <3>2. a \in 0 .. carte.width - 1
      BY <1>2, <2>1, ModDansAnneau
    <3>3. c[1] = Mod(a - d, carte.width)
      BY <1>2, <2>1, <3>2, ModAllerRetour
    <3>4. b \in Cells(carte) /\ b[2] = k /\ bitpack!Lit(source, carte, b)
      BY <1>2, <2>2, <3>2 DEF Cells
    <3>5. a - d = a + (-d) /\ -d \in -1..1
      BY <3>2
    <3>6. c = At(carte, b[1] + (-d), b[2] + e)
      BY <2>1, <3>1, <3>3, <3>5 DEF At
    <3>7. c \in Alentours(carte, b)
      BY <3>5, <3>6, DansAlentours
    <3> QED
      BY <3>4, <3>7
  <2>3. ASSUME NEW b \in Cells(carte), bitpack!Lit(source, carte, b), b[2] = k,
               c \in Alentours(carte, b)
        PROVE  /\ c[2] \in {prev, k, suiv}
               /\ \E d \in -1..1 : bitpack!Lit(source, carte, <<Mod(c[1] + d, carte.width), k>>)
    <3>1. PICK p \in (-1..1) \X (-1..1) : c = At(carte, b[1] + p[1], b[2] + p[2])
      BY <2>3 DEF Alentours
    <3>2. b[1] \in 0 .. carte.width - 1 /\ b = <<b[1], b[2]>> /\ p[1] \in -1..1 /\ p[2] \in -1..1
      BY DEF Cells
    <3>3. c[1] = Mod(b[1] + p[1], carte.width) /\ c[2] = Mod(k + p[2], h)
      BY <2>3, <3>1 DEF At
    <3>4. b[1] = Mod(c[1] - p[1], carte.width)
      BY <1>2, <2>1, <3>2, <3>3, ModAllerRetour
    <3>5. c[1] - p[1] = c[1] + (-p[1]) /\ -p[1] \in -1..1
      BY <2>1, <3>2
    <3>6. bitpack!Lit(source, carte, <<Mod(c[1] + (-p[1]), carte.width), k>>)
      BY <2>3, <3>2, <3>4, <3>5
    <3>7. c[2] \in {prev, k, suiv}
      BY <1>7, <2>1, <3>2, <3>3
    <3> QED
      BY <3>5, <3>6, <3>7
  <2> QED
    BY <2>2, <2>3
<1> QED
  BY <1>5, <1>6, <1>8

LEMMA MotsNuls ==
  ASSUME NEW m, WellFormed(m)
  PROVE  /\ Masquee(m, bitpack!Vide(m))
         /\ \A c \in Cells(m) : ~bitpack!Lit(bitpack!Vide(m), m, c)
<1>1. bitpack!Vide(m) = [n \in bitpack!Mots(m) |-> {}]
  BY DEF bitpack!Vide
<1>2. Masquee(m, bitpack!Vide(m))
  BY <1>1 DEF Masquee
<1>3. \A c \in Cells(m) : bitpack!Mot(m, c) \in bitpack!Mots(m)
  BY MotDeCellule
<1> QED
  BY <1>1, <1>2, <1>3 DEF bitpack!Lit

LEMMA InitBit == Init => (impl = "bitpack" => BitInv)
<1> SUFFICES ASSUME Init, impl = "bitpack" PROVE BitInv
  OBVIOUS
<1>1. /\ carte \in MapsDe["bitpack"] /\ pc = "new" /\ k = 0 /\ burning = 0 /\ count = 0
      /\ f1 = bitpack!Vide(carte) /\ f2 = bitpack!Vide(carte) /\ r1 = bitpack!Vide(carte)
      /\ r2 = bitpack!Vide(carte) /\ source = bitpack!Vide(carte)
      /\ ignite = bitpack!Vide(carte)
  BY DEF Init, bitpack!Init
<1>2. WellFormed(carte)
  BY <1>1, CartesFormees DEF Names
<1>3. BitType
  BY <1>1, <1>2, MotsNuls DEF BitType
<1>4. /\ \A c \in Cells(carte) : ~bitpack!Lit(f1, carte, c) /\ ~bitpack!Lit(f2, carte, c)
      /\ \A c \in Cells(carte) : ~bitpack!Lit(r1, carte, c) /\ ~bitpack!Lit(r2, carte, c)
  BY <1>1, <1>2, MotsNuls
<1>5. Poses = {}
  <2>1. 1 .. k = {}
    BY <1>1
  <2> QED
    BY <2>1 DEF Poses
<1>6. Seuls
  BY <1>4 DEF Seuls, Brulante
<1>7. Poursuit
  <2>1. 0 <= Len(carte.fires)
    BY <1>2 DEF WellFormed
  <2> QED
    BY <1>1, <1>4, <1>5, <2>1 DEF Poursuit
<1>8. Compte
  <2>1. Brasier = {}
    BY <1>4 DEF Brasier, Brulante
  <2> QED
    BY <1>1, <2>1, FS_EmptySet DEF Compte
<1> QED
  BY <1>3, <1>6, <1>7, <1>8 DEF BitInv

(* New lays a fire that burns one word further, or finds it laid already.  *)
LEMMA AllumeBit ==
  ASSUME BitInv, bitpack!Allume
  PROVE  BitInv'
<1> DEFINE c == carte.fires[k + 1]
           t == carte.terrain[c]
           deja == Brulante(c)
<1>1. /\ pc = "new" /\ k < Len(carte.fires) /\ k' = k + 1
      /\ f1' = IF ~deja /\ t = Plain THEN bitpack!Pose(f1, carte, c) ELSE f1
      /\ f2' = IF ~deja /\ t = Forest THEN bitpack!Pose(f2, carte, c) ELSE f2
      /\ burning' = IF deja \/ t = Water THEN burning ELSE burning + 1
      /\ UNCHANGED <<carte, r1, r2, source, ignite, pc, count>>
  BY ContratBitpack DEF bitpack!Allume, Brulante, Plain, Forest, Water
<1>2. /\ BitType /\ WellFormed(carte) /\ k \in Nat /\ burning \in Nat
      /\ Masquee(carte, f1) /\ Masquee(carte, f2)
  BY DEF BitInv, BitType
<1>3. c \in Cells(carte) /\ t \in Terrains /\ Len(carte.fires) \in Nat
  <2>1. carte.fires \in Seq(Cells(carte)) /\ Len(carte.fires) \in Nat
        /\ carte.terrain \in [Cells(carte) -> Terrains]
    BY <1>2 DEF WellFormed
  <2>2. k + 1 \in 1 .. Len(carte.fires)
    BY <1>1, <1>2, <2>1
  <2> QED
    BY <2>1, <2>2
<1>4. Poses' = Poses \cup {c}
  <2>1. 1 .. k' = 1 .. k \cup {k + 1}
    BY <1>1, <1>2
  <2> QED
    BY <1>1, <2>1 DEF Poses
<1>5. \A b \in Cells(carte) :
        /\ bitpack!Lit(f1, carte, b) <=> b \in Poses /\ carte.terrain[b] = Plain
        /\ bitpack!Lit(f2, carte, b) <=> b \in Poses /\ carte.terrain[b] = Forest
        /\ ~bitpack!Lit(r1, carte, b) /\ ~bitpack!Lit(r2, carte, b)
  BY <1>1 DEF BitInv, Poursuit
<1> HIDE DEF c, t
<1>6. /\ Masquee(carte, f1')
      /\ \A b \in Cells(carte) :
           bitpack!Lit(f1', carte, b) <=>
             bitpack!Lit(f1, carte, b) \/ (~deja /\ t = Plain /\ b = c)
  <2>1. CASE ~deja /\ t = Plain
    BY <1>1, <1>2, <1>3, <2>1, PoseUnBit
  <2>2. CASE ~(~deja /\ t = Plain)
    BY <1>1, <1>2, <2>2
  <2> QED
    BY <2>1, <2>2
<1>7. /\ Masquee(carte, f2')
      /\ \A b \in Cells(carte) :
           bitpack!Lit(f2', carte, b) <=>
             bitpack!Lit(f2, carte, b) \/ (~deja /\ t = Forest /\ b = c)
  <2>1. CASE ~deja /\ t = Forest
    BY <1>1, <1>2, <1>3, <2>1, PoseUnBit
  <2>2. CASE ~(~deja /\ t = Forest)
    BY <1>1, <1>2, <2>2
  <2> QED
    BY <2>1, <2>2
<1>8. deja => c \in Poses
  BY <1>3, <1>5 DEF Brulante
<1>9. t = carte.terrain[c] /\ (t = Plain => t # Forest) /\ (t = Water => t # Plain /\ t # Forest)
      /\ (t = Water \/ t = Plain \/ t = Forest)
  BY <1>3 DEF Terrains, Water, Plain, Forest, t
<1>10. \A b \in Cells(carte) :
         /\ bitpack!Lit(f1', carte, b) <=> b \in Poses' /\ carte.terrain[b] = Plain
         /\ bitpack!Lit(f2', carte, b) <=> b \in Poses' /\ carte.terrain[b] = Forest
         /\ ~bitpack!Lit(r1', carte, b) /\ ~bitpack!Lit(r2', carte, b)
  <2> SUFFICES ASSUME NEW b \in Cells(carte)
               PROVE  /\ bitpack!Lit(f1', carte, b) <=> b \in Poses' /\ carte.terrain[b] = Plain
                      /\ bitpack!Lit(f2', carte, b) <=> b \in Poses' /\ carte.terrain[b] = Forest
                      /\ ~bitpack!Lit(r1', carte, b) /\ ~bitpack!Lit(r2', carte, b)
    OBVIOUS
  <2>1. r1' = r1 /\ r2' = r2
    BY <1>1
  <2>2. deja => (c \in Poses /\ Poses' = Poses)
    BY <1>4, <1>8
  <2>3. ~deja => (t = Plain => c \notin Poses) /\ (t = Forest => c \notin Poses)
    BY <1>3, <1>5, <1>9 DEF Brulante
  <2> QED
    BY <1>4, <1>5, <1>6, <1>7, <1>9, <2>1, <2>2
<1>11. BitType'
  BY <1>1, <1>2, <1>6, <1>7 DEF BitType
<1>12. Seuls'
  <2>1. Plain # Forest /\ Plain # Water /\ Forest # Water
    BY DEF Plain, Forest, Water
  <2> QED
    BY <1>1, <1>10, <2>1 DEF Seuls, Brulante
<1>13. Poursuit'
  BY <1>1, <1>2, <1>3, <1>10 DEF Poursuit
<1>14. Compte'
  <2>1. burning = Cardinality(Brasier)
    BY <1>1 DEF BitInv, Compte
  <2>2. IsFiniteSet(Brasier)
    BY <1>2, CellulesFinies DEF Brasier
  <2>3. \A b \in Cells(carte) :
          Brulante(b)' <=> Brulante(b) \/ (~deja /\ t # Water /\ b = c)
    BY <1>1, <1>6, <1>7, <1>9 DEF Brulante
  <2>4. Brasier' = IF deja \/ t = Water THEN Brasier ELSE Brasier \cup {c}
    BY <1>1, <1>3, <2>3 DEF Brasier
  <2>5. ~deja => c \notin Brasier
    BY DEF Brasier
  <2>6. burning' = Cardinality(Brasier')
    BY <1>1, <2>1, <2>2, <2>4, <2>5, FS_AddElement
  <2> QED
    BY <1>1, <2>6 DEF Compte
<1> QED
  BY <1>11, <1>12, <1>13, <1>14 DEF BitInv

(* What does not write the planes leaves who burns and who rests.          *)
LEMMA MemesPlans ==
  ASSUME UNCHANGED <<carte, f1, f2, r1, r2>>
  PROVE  /\ \A c : Brulante(c)' <=> Brulante(c)
         /\ Brasier' = Brasier /\ (Seuls => Seuls')
<1>1. /\ carte' = carte /\ f1' = f1 /\ f2' = f2 /\ r1' = r1 /\ r2' = r2
  OBVIOUS
<1>2. \A c : Brulante(c)' <=> Brulante(c)
  BY <1>1 DEF Brulante
<1>3. Brasier' = Brasier
  BY <1>1, <1>2 DEF Brasier
<1>4. Seuls => Seuls'
  BY <1>1, <1>2 DEF Seuls
<1> QED
  BY <1>2, <1>3, <1>4

(* New returns, and Step gathers the sources.                              *)
LEMMA DebutBit ==
  ASSUME BitInv, bitpack!Pret \/ bitpack!Step
  PROVE  BitInv'
<1>1. UNCHANGED <<carte, f1, f2, r1, r2, burning, count>> /\ k' = 0 /\ pc # "apply"
      /\ pc' # "new" /\ pc' # "apply"
  BY DEF bitpack!Pret, bitpack!Step, bitpack!plans
<1>2. /\ BitType /\ WellFormed(carte) /\ Seuls /\ burning = Cardinality(Brasier)
  BY <1>1 DEF BitInv, BitType, Compte
<1>3. Seuls' /\ Brasier' = Brasier /\ \A c : Brulante(c)' <=> Brulante(c)
  BY <1>1, <1>2, MemesPlans
<1>4. Compte'
  BY <1>1, <1>2, <1>3 DEF Compte
<1>5. CASE bitpack!Pret
  <2>1. pc' = "idle" /\ UNCHANGED <<source, ignite>>
    BY <1>5 DEF bitpack!Pret
  <2>2. BitType'
    BY <1>1, <1>2, <2>1 DEF BitType
  <2>3. Poursuit'
    BY <2>1 DEF Poursuit
  <2> QED
    BY <1>3, <1>4, <2>2, <2>3 DEF BitInv
<1>6. CASE bitpack!Step
  <2> DEFINE V == bitpack!WindPlan(carte)
  <2>1. /\ pc' = "spread" /\ ignite' = bitpack!Vide(carte)
        /\ source' = [n \in bitpack!Mots(carte) |-> (f1[n] \cup f2[n]) \ V[n]]
    BY <1>6 DEF bitpack!Step
  <2>2. Masquee(carte, f1) /\ Masquee(carte, f2)
    BY <1>2 DEF BitType
  <2>3. \A c \in Cells(carte) : bitpack!Lit(V, carte, c) <=> carte.wind[c] # 0
    <3> DEFINE S == {c \in Cells(carte) : carte.wind[c] # 0}
    <3>1. S \subseteq Cells(carte) /\ V = bitpack!Plan(carte, S)
      BY ContratBitpack DEF bitpack!WindPlan
    <3> HIDE DEF V
    <3>2. \A c \in Cells(carte) : c \in S <=> carte.wind[c] # 0
      OBVIOUS
    <3> HIDE DEF S
    <3> QED
      BY <1>2, <3>1, <3>2, PlanDesCellules
  <2> HIDE DEF V
  <2>4. Masquee(carte, source')
    <3>1. \A n \in bitpack!Mots(carte) : source'[n] \subseteq Valides(carte, n)
      BY <2>1, <2>2 DEF Masquee
    <3>2. source' = [n \in bitpack!Mots(carte) |-> source'[n]]
      BY <2>1
    <3> QED
      BY <1>2, <3>1, <3>2, Masque1
  <2>5. Masquee(carte, ignite') /\ \A c \in Cells(carte) : ~bitpack!Lit(ignite', carte, c)
    BY <1>2, <2>1, MotsNuls
  <2>6. BitType'
    BY <1>1, <1>2, <2>1, <2>4, <2>5 DEF BitType
  <2>7. ASSUME NEW c \in Cells(carte)
        PROVE  bitpack!Lit(source', carte, c) <=> Brulante(c) /\ carte.wind[c] = 0
    <3>1. bitpack!Mot(carte, c) \in bitpack!Mots(carte)
      BY <1>2, MotDeCellule
    <3>2. bitpack!Lit(source', carte, c) <=> Brulante(c) /\ ~bitpack!Lit(V, carte, c)
      BY <2>1, <3>1 DEF bitpack!Lit, Brulante
    <3> QED
      BY <2>3, <3>2
  <2>8. Poursuit'
    <3>1. 0 <= carte.height /\ \A b \in Cells(carte) : ~(b[2] < 0)
      BY <1>2 DEF WellFormed, Cells
    <3> QED
      BY <1>1, <1>3, <2>1, <2>5, <2>7, <3>1 DEF Poursuit
  <2> QED
    BY <1>3, <1>4, <2>6, <2>8 DEF BitInv
<1> QED
  BY <1>5, <1>6

(* A row is spread.                                                        *)
LEMMA LigneBit ==
  ASSUME BitInv, bitpack!Ligne
  PROVE  BitInv'
<1>1. /\ UNCHANGED <<carte, f1, f2, r1, r2, source, burning, pc, count>>
      /\ pc = "spread" /\ k < carte.height /\ k' = k + 1
  BY DEF bitpack!Ligne, bitpack!plans
<1>2. BitType /\ WellFormed(carte) /\ Seuls /\ k \in Nat /\ carte.height \in Nat
  BY DEF BitInv, BitType, WellFormed
<1>3. Seuls' /\ Brasier' = Brasier /\ \A c : Brulante(c)' <=> Brulante(c)
  BY <1>1, <1>2, MemesPlans
<1>4. /\ Masquee(carte, ignite')
      /\ \A c \in Cells(carte) :
           bitpack!Lit(ignite', carte, c) <=>
             \/ bitpack!Lit(ignite, carte, c)
             \/ \E b \in Cells(carte) : /\ bitpack!Lit(source, carte, b) /\ b[2] = k
                                        /\ c \in Alentours(carte, b)
  BY <1>1, <1>2, LigneAllume
<1>5. BitType'
  BY <1>1, <1>2, <1>4 DEF BitType
<1>6. Compte'
  BY <1>1, <1>3 DEF BitInv, Compte
<1>7. \A b \in Cells(carte) : b[2] < k + 1 <=> b[2] < k \/ b[2] = k
  BY <1>2 DEF Cells
<1>8. \A c \in Cells(carte) :
        /\ bitpack!Lit(source, carte, c) <=> Brulante(c) /\ carte.wind[c] = 0
        /\ bitpack!Lit(ignite', carte, c) <=>
             \E b \in Cells(carte) : /\ bitpack!Lit(source, carte, b)
                                     /\ b[2] < k + 1 /\ c \in Alentours(carte, b)
  BY <1>1, <1>4, <1>7 DEF BitInv, Poursuit
<1>9. k + 1 <= carte.height
  BY <1>1, <1>2
<1>10. Poursuit'
  BY <1>1, <1>3, <1>8, <1>9 DEF Poursuit
<1> QED
  BY <1>3, <1>5, <1>6, <1>10 DEF BitInv

(* The windy cells only add bits.                                          *)
Ventees == {c \in Cells(carte) : carte.wind[c] # 0 /\ Brulante(c)}
Soufflees == UNION {bitpack!Targets(carte, c) : c \in Ventees}

LEMMA CiblesBitpack ==
  ASSUME NEW m, WellFormed(m), NEW c \in Cells(m), m.wind[c] # 0
  PROVE  /\ bitpack!Targets(m, c) = ghost!Contagion(m, c)
         /\ bitpack!Targets(m, c) \subseteq Cells(m)
<1> DEFINE d == m.wind[c] - 1
           K == {e \in Directions : (e - d) % 8 \notin 3..5}
<1>1. m.wind[c] \in 0..8 /\ d \in Directions /\ m.wind[c] > 0
  <2>1. m.wind[c] \in 0..8
    BY DEF WellFormed
  <2> QED
    BY <2>1 DEF Directions
<1>2. bitpack!Targets(m, c) =
        {At(m, c[1] + Dx(e), c[2] + Dy(e)) : e \in K}
          \cup {At(m, c[1] + 2 * Dx(d), c[2] + 2 * Dy(d))}
  BY ContratBitpack DEF bitpack!Targets
<1>3. ghost!Visees(m, c) =
        {<<c[1] + Dx(e), c[2] + Dy(e)>> : e \in K} \cup {<<c[1] + 2 * Dx(d), c[2] + 2 * Dy(d)>>}
  <2>1. \A e \in Directions : ghost!Mod(e - d, 8) = (e - d) % 8
    <3>1. \A e \in Directions : e - d \in -7..7
      BY <1>1 DEF Directions
    <3>2. \A z \in -7..7 : Mod(z, 8) = z % 8
      BY Z3 DEF Mod, Reste
    <3> QED
      BY <3>1, <3>2, ContratGhost
  <2>2. ghost!Vente(m, c) /\ ghost!WindAt(m, c) = d
    BY <1>1, ContratGhost DEF Vente, WindAt
  <2>3. \A e \in Directions : ghost!Epargne(m, c, e) <=> (e - d) % 8 \in 3..5
    BY <2>1, <2>2 DEF ghost!Epargne, ghost!Secteur
  <2>4. {e \in ghost!Directions : ~ghost!Epargne(m, c, e)} = K
    BY <2>3, ContratGhost
  <2> HIDE DEF d, K
  <2> QED
    BY <2>2, <2>4, ContratGhost DEF ghost!Visees
<1>4. ghost!Contagion(m, c) = {At(m, p[1], p[2]) : p \in ghost!Visees(m, c)}
  BY ContratGhost DEF ghost!Contagion
<1> HIDE DEF d, K
<1>5. bitpack!Targets(m, c) = ghost!Contagion(m, c)
  <2> DEFINE a(e) == <<c[1] + Dx(e), c[2] + Dy(e)>>
             q == <<c[1] + 2 * Dx(d), c[2] + 2 * Dy(d)>>
             f(p) == At(m, p[1], p[2])
  <2>1. /\ \A e : f(a(e)) = At(m, c[1] + Dx(e), c[2] + Dy(e))
        /\ f(q) = At(m, c[1] + 2 * Dx(d), c[2] + 2 * Dy(d))
    OBVIOUS
  <2>2. ghost!Contagion(m, c) = {f(p) : p \in {a(e) : e \in K} \cup {q}}
    BY <1>3, <1>4
  <2> HIDE DEF a, q, f
  <2>3. ghost!Contagion(m, c) = {f(a(e)) : e \in K} \cup {f(q)}
    BY <2>2
  <2> QED
    BY <1>2, <2>1, <2>3
<1>6. bitpack!Targets(m, c) \subseteq Cells(m)
  <2>1. c[1] \in Int /\ c[2] \in Int
    BY DEF Cells, WellFormed
  <2>2. \A e \in Directions : Dx(e) \in Int /\ Dy(e) \in Int
    BY Deplacement
  <2>3. \A x \in Int, y \in Int : At(m, x, y) \in Cells(m)
    BY AtSurCarte
  <2>4. \A e \in Directions : /\ c[1] + Dx(e) \in Int /\ c[2] + Dy(e) \in Int
                              /\ c[1] + 2 * Dx(e) \in Int /\ c[2] + 2 * Dy(e) \in Int
    BY <2>1, <2>2
  <2>5. K \subseteq Directions
    BY DEF K
  <2> QED
    BY <1>1, <1>2, <2>3, <2>4, <2>5
<1> QED
  BY <1>5, <1>6

LEMMA VentsAllument ==
  ASSUME BitType, bitpack!Vents
  PROVE  /\ Masquee(carte, ignite')
         /\ \A c \in Cells(carte) :
              bitpack!Lit(ignite', carte, c) <=> bitpack!Lit(ignite, carte, c) \/ c \in Soufflees
<1> DEFINE P == bitpack!Plan(carte, Soufflees)
<1>1. WellFormed(carte) /\ Masquee(carte, ignite)
  BY DEF BitType
<1>2. ignite' = [n \in bitpack!Mots(carte) |-> ignite[n] \cup P[n]]
  <2>1. {c \in bitpack!Cells(carte) :
           carte.wind[c] # 0 /\ (bitpack!Lit(f1, carte, c) \/ bitpack!Lit(f2, carte, c))}
          = Ventees
    BY ContratBitpack DEF Ventees, Brulante
  <2> QED
    BY <2>1 DEF bitpack!Vents, Soufflees
<1>3. Soufflees \subseteq Cells(carte)
  BY <1>1, CiblesBitpack DEF Soufflees, Ventees
<1>4. Masquee(carte, P) /\ \A c \in Cells(carte) : bitpack!Lit(P, carte, c) <=> c \in Soufflees
  BY <1>1, <1>3, PlanDesCellules
<1> HIDE DEF P
<1>5. Masquee(carte, ignite')
  <2>1. \A n \in bitpack!Mots(carte) : ignite'[n] \subseteq Valides(carte, n)
    BY <1>1, <1>2, <1>4 DEF Masquee
  <2>2. ignite' = [n \in bitpack!Mots(carte) |-> ignite'[n]]
    BY <1>2
  <2> QED
    BY <1>1, <2>1, <2>2, Masque1
<1>6. ASSUME NEW c \in Cells(carte)
      PROVE  bitpack!Lit(ignite', carte, c) <=> bitpack!Lit(ignite, carte, c) \/ c \in Soufflees
  <2>1. bitpack!Mot(carte, c) \in bitpack!Mots(carte)
    BY <1>1, MotDeCellule
  <2>2. bitpack!Lit(ignite', carte, c)
          <=> bitpack!Lit(ignite, carte, c) \/ bitpack!Lit(P, carte, c)
    BY <1>2, <2>1 DEF bitpack!Lit
  <2> QED
    BY <1>4, <2>2
<1> QED
  BY <1>5, <1>6

LEMMA VentsBit ==
  ASSUME BitInv, bitpack!Vents
  PROVE  BitInv'
<1>1. /\ UNCHANGED <<carte, f1, f2, r1, r2, source, burning>>
      /\ pc = "spread" /\ pc' = "apply" /\ k' = 0 /\ count' = 0
  BY DEF bitpack!Vents, bitpack!plans
<1>2. BitType /\ WellFormed(carte) /\ Seuls
  BY DEF BitInv, BitType
<1>3. Seuls'
  BY <1>1, <1>2, MemesPlans
<1>4. BitType'
  BY <1>1, <1>2, VentsAllument DEF BitType
<1>5. Poursuit'
  BY <1>1 DEF Poursuit
<1>6. Compte'
  <2>1. \A c \in Cells(carte) : ~(bitpack!Mot(carte, c) < 0)
    <3>1. \A c \in Cells(carte) : bitpack!Mot(carte, c) \in bitpack!Mots(carte)
      BY <1>2, MotDeCellule
    <3> QED
      BY <3>1 DEF bitpack!Mots
  <2>2. Faites' = {}
    BY <1>1, <2>1 DEF Faites
  <2> QED
    BY <1>1, <2>2, FS_EmptySet DEF Compte
<1> QED
  BY <1>3, <1>4, <1>5, <1>6 DEF BitInv

(* The bits of a cell one turn later,                                      *)
Frais(c) == /\ bitpack!Lit(ignite, carte, c) /\ ~Brulante(c)
            /\ ~bitpack!Lit(r1, carte, c) /\ ~bitpack!Lit(r2, carte, c)
F1(c) == bitpack!Lit(f2, carte, c) \/ (Frais(c) /\ carte.terrain[c] = Plain)
F2(c) == Frais(c) /\ carte.terrain[c] = Forest
R1(c) == \/ bitpack!Lit(r2, carte, c) /\ ~bitpack!Lit(r1, carte, c)
         \/ bitpack!Lit(f1, carte, c) /\ carte.terrain[c] = Forest
R2(c) == \/ bitpack!Lit(r2, carte, c) /\ bitpack!Lit(r1, carte, c)
         \/ bitpack!Lit(f1, carte, c)

(* as the word of the cell computes them.                                  *)
LEMMA ApresParCellule ==
  ASSUME BitType
  PROVE  /\ \A n \in bitpack!Mots(carte) :
              /\ bitpack!Apres(n).f1 \subseteq Valides(carte, n)
              /\ bitpack!Apres(n).f2 \subseteq Valides(carte, n)
              /\ bitpack!Apres(n).r1 \subseteq Valides(carte, n)
              /\ bitpack!Apres(n).r2 \subseteq Valides(carte, n)
         /\ \A c \in Cells(carte) :
              LET a == bitpack!Apres(bitpack!Mot(carte, c)) IN
              /\ bitpack!Bit(c) \in a.f1 <=> F1(c)
              /\ bitpack!Bit(c) \in a.f2 <=> F2(c)
              /\ bitpack!Bit(c) \in a.r1 <=> R1(c)
              /\ bitpack!Bit(c) \in a.r2 <=> R2(c)
<1> DEFINE M == bitpack!Mots(carte)
           plaines == {c \in Cells(carte) : carte.terrain[c] = Plain}
           forets == {c \in Cells(carte) : carte.terrain[c] = Forest}
           P == bitpack!PlainPlan(carte)
           Q == bitpack!ForestPlan(carte)
           fresh(n) == ignite[n] \ (f1[n] \cup f2[n] \cup r1[n] \cup r2[n])
<1>1. /\ WellFormed(carte) /\ Masquee(carte, ignite)
      /\ Masquee(carte, f1) /\ Masquee(carte, f2) /\ Masquee(carte, r1) /\ Masquee(carte, r2)
  BY DEF BitType
<1>2. P = bitpack!Plan(carte, plaines) /\ Q = bitpack!Plan(carte, forets)
      /\ plaines \subseteq Cells(carte) /\ forets \subseteq Cells(carte)
  BY ContratBitpack DEF bitpack!PlainPlan, bitpack!ForestPlan
<1>3. \A n : /\ bitpack!Apres(n).f1 = f2[n] \cup (fresh(n) \cap P[n])
             /\ bitpack!Apres(n).f2 = fresh(n) \cap Q[n]
             /\ bitpack!Apres(n).r1 = (r2[n] \ r1[n]) \cup (f1[n] \cap Q[n])
             /\ bitpack!Apres(n).r2 = (r2[n] \cap r1[n]) \cup f1[n]
  BY DEF bitpack!Apres
<1> HIDE DEF P, Q
<1>4. \A c \in Cells(carte) : /\ bitpack!Lit(P, carte, c) <=> c \in plaines
                              /\ bitpack!Lit(Q, carte, c) <=> c \in forets
  <2> HIDE DEF plaines, forets
  <2> QED
    BY <1>1, <1>2, PlanDesCellules
<1>5. ASSUME NEW n \in M
      PROVE  /\ bitpack!Apres(n).f1 \subseteq Valides(carte, n)
             /\ bitpack!Apres(n).f2 \subseteq Valides(carte, n)
             /\ bitpack!Apres(n).r1 \subseteq Valides(carte, n)
             /\ bitpack!Apres(n).r2 \subseteq Valides(carte, n)
  <2>1. /\ ignite[n] \subseteq Valides(carte, n)
        /\ f1[n] \subseteq Valides(carte, n) /\ f2[n] \subseteq Valides(carte, n)
        /\ r1[n] \subseteq Valides(carte, n) /\ r2[n] \subseteq Valides(carte, n)
    BY <1>1 DEF Masquee
  <2> QED
    BY <1>3, <2>1
<1>6. ASSUME NEW c \in Cells(carte)
      PROVE  LET a == bitpack!Apres(bitpack!Mot(carte, c)) IN
             /\ bitpack!Bit(c) \in a.f1 <=> F1(c)
             /\ bitpack!Bit(c) \in a.f2 <=> F2(c)
             /\ bitpack!Bit(c) \in a.r1 <=> R1(c)
             /\ bitpack!Bit(c) \in a.r2 <=> R2(c)
  <2> DEFINE n == bitpack!Mot(carte, c)
             b == bitpack!Bit(c)
  <2>1. /\ bitpack!Lit(f1, carte, c) <=> b \in f1[n]
        /\ bitpack!Lit(f2, carte, c) <=> b \in f2[n]
        /\ bitpack!Lit(r1, carte, c) <=> b \in r1[n]
        /\ bitpack!Lit(r2, carte, c) <=> b \in r2[n]
        /\ bitpack!Lit(ignite, carte, c) <=> b \in ignite[n]
        /\ carte.terrain[c] = Plain <=> b \in P[n]
        /\ carte.terrain[c] = Forest <=> b \in Q[n]
    BY <1>4 DEF bitpack!Lit
  <2> HIDE DEF n, b
  <2>2. b \in fresh(n) <=> Frais(c)
    BY <2>1 DEF Frais, Brulante
  <2>3. /\ b \in bitpack!Apres(n).f1 <=> F1(c)
        /\ b \in bitpack!Apres(n).f2 <=> F2(c)
        /\ b \in bitpack!Apres(n).r1 <=> R1(c)
        /\ b \in bitpack!Apres(n).r2 <=> R2(c)
    <3> HIDE DEF fresh
    <3> QED
      BY <1>3, <2>1, <2>2 DEF F1, F2, R1, R2
  <2> QED
    BY <2>3 DEF n, b
<1> QED
  BY <1>5, <1>6

(* A word has as many cells as bits.                                       *)
DuMot(m, n, S) == {c \in Cells(m) : bitpack!Mot(m, c) = n /\ bitpack!Bit(c) \in S}

LEMMA CellulesDUnMot ==
  ASSUME NEW m, WellFormed(m), NEW n \in bitpack!Mots(m), NEW S, S \subseteq Valides(m, n)
  PROVE  IsFiniteSet(DuMot(m, n, S)) /\ Cardinality(DuMot(m, n, S)) = Cardinality(S)
<1> DEFINE T == DuMot(m, n, S)
           g == [b \in S |-> Cellule(m, n, b)]
<1>1. IsFiniteSet(S)
  <2>1. WordBits - 1 \in Int /\ 0 \in Int
    BY WordBitsAssumption
  <2>2. IsFiniteSet(bitpack!Bits)
    BY <2>1, FS_Interval DEF bitpack!Bits
  <2>3. S \in SUBSET bitpack!Bits
    BY ValidesSontDesBits
  <2> QED
    BY <2>2, <2>3, FS_Subset
<1>2. \A b \in S : g[b] \in T /\ bitpack!Bit(g[b]) = b
  BY CelluleDuMot DEF DuMot
<1>3. \A c \in T : bitpack!Bit(c) \in S /\ g[bitpack!Bit(c)] = c
  BY MotDeCellule DEF DuMot
<1>4. g \in [S -> T] /\ \A a, b \in S : g[a] = g[b] => a = b
  <2>1. g = [b \in S |-> g[b]]
    OBVIOUS
  <2> HIDE DEF g, T
  <2> QED
    BY <1>2, <2>1
<1> HIDE DEF g, T
<1>5. g \in Bijection(S, T)
  BY <1>3, <1>4 DEF Bijection, Injection, IsInjective, Surjection
<1>6. ExistsBijection(S, T)
  BY <1>5 DEF ExistsBijection
<1> QED
  BY <1>1, <1>6, FS_Bijection DEF T

(* The planes a word of the last loop has just written.                    *)
Remplace(P, n, S) == [P EXCEPT ![n] = S]

LEMMA MotEcrit ==
  ASSUME NEW m, WellFormed(m), NEW P, Masquee(m, P), NEW n \in bitpack!Mots(m),
         NEW S, S \subseteq Valides(m, n), NEW Q, Q = Remplace(P, n, S)
  PROVE  /\ Masquee(m, Q)
         /\ \A c \in Cells(m) :
              bitpack!Lit(Q, m, c) <=> IF bitpack!Mot(m, c) = n THEN bitpack!Bit(c) \in S
                                       ELSE bitpack!Lit(P, m, c)
<1>1. P \in [bitpack!Mots(m) -> SUBSET bitpack!Bits]
      /\ \A i \in bitpack!Mots(m) : P[i] \subseteq Valides(m, i)
  BY DEF Masquee
<1>2. \A i \in bitpack!Mots(m) : Q[i] = IF i = n THEN S ELSE P[i]
  BY <1>1 DEF Remplace
<1>3. Q = [i \in bitpack!Mots(m) |-> Q[i]]
  BY <1>1 DEF Remplace
<1>4. \A i \in bitpack!Mots(m) : Q[i] \subseteq Valides(m, i)
  BY <1>1, <1>2
<1>5. Masquee(m, Q)
  BY <1>3, <1>4, Masque1
<1>6. \A c \in Cells(m) : bitpack!Mot(m, c) \in bitpack!Mots(m)
  BY MotDeCellule
<1> QED
  BY <1>2, <1>5, <1>6 DEF bitpack!Lit

(* The four bits of a cell after a word is written.                        *)
Avance(c) ==
  /\ bitpack!Lit(f1, carte, c)' <=> IF bitpack!Mot(carte, c) = k THEN F1(c) ELSE bitpack!Lit(f1, carte, c)
  /\ bitpack!Lit(f2, carte, c)' <=> IF bitpack!Mot(carte, c) = k THEN F2(c) ELSE bitpack!Lit(f2, carte, c)
  /\ bitpack!Lit(r1, carte, c)' <=> IF bitpack!Mot(carte, c) = k THEN R1(c) ELSE bitpack!Lit(r1, carte, c)
  /\ bitpack!Lit(r2, carte, c)' <=> IF bitpack!Mot(carte, c) = k THEN R2(c) ELSE bitpack!Lit(r2, carte, c)

LEMMA ApplyAvance ==
  ASSUME BitType, bitpack!Apply
  PROVE  /\ Masquee(carte, f1') /\ Masquee(carte, f2')
         /\ Masquee(carte, r1') /\ Masquee(carte, r2')
         /\ \A c \in Cells(carte) : Avance(c)
<1> DEFINE a == bitpack!Apres(k)
<1>1. /\ k \in bitpack!Mots(carte) /\ carte' = carte
      /\ f1' = Remplace(f1, k, a.f1) /\ f2' = Remplace(f2, k, a.f2)
      /\ r1' = Remplace(r1, k, a.r1) /\ r2' = Remplace(r2, k, a.r2)
  BY DEF bitpack!Apply, Remplace
<1>2. /\ WellFormed(carte)
      /\ Masquee(carte, f1) /\ Masquee(carte, f2) /\ Masquee(carte, r1) /\ Masquee(carte, r2)
  BY DEF BitType
<1>3. /\ a.f1 \subseteq Valides(carte, k) /\ a.f2 \subseteq Valides(carte, k)
      /\ a.r1 \subseteq Valides(carte, k) /\ a.r2 \subseteq Valides(carte, k)
  BY <1>1, ApresParCellule
<1> HIDE DEF a
<1>4. /\ Masquee(carte, f1')
      /\ \A c \in Cells(carte) :
           bitpack!Lit(f1', carte, c) <=> IF bitpack!Mot(carte, c) = k THEN bitpack!Bit(c) \in a.f1
                                          ELSE bitpack!Lit(f1, carte, c)
  BY <1>1, <1>2, <1>3, MotEcrit
<1>5. /\ Masquee(carte, f2')
      /\ \A c \in Cells(carte) :
           bitpack!Lit(f2', carte, c) <=> IF bitpack!Mot(carte, c) = k THEN bitpack!Bit(c) \in a.f2
                                          ELSE bitpack!Lit(f2, carte, c)
  BY <1>1, <1>2, <1>3, MotEcrit
<1>6. /\ Masquee(carte, r1')
      /\ \A c \in Cells(carte) :
           bitpack!Lit(r1', carte, c) <=> IF bitpack!Mot(carte, c) = k THEN bitpack!Bit(c) \in a.r1
                                          ELSE bitpack!Lit(r1, carte, c)
  BY <1>1, <1>2, <1>3, MotEcrit
<1>7. /\ Masquee(carte, r2')
      /\ \A c \in Cells(carte) :
           bitpack!Lit(r2', carte, c) <=> IF bitpack!Mot(carte, c) = k THEN bitpack!Bit(c) \in a.r2
                                          ELSE bitpack!Lit(r2, carte, c)
  BY <1>1, <1>2, <1>3, MotEcrit
<1>8. ASSUME NEW c \in Cells(carte)
      PROVE  Avance(c)
  <2>1. ASSUME bitpack!Mot(carte, c) = k
        PROVE  /\ bitpack!Bit(c) \in a.f1 <=> F1(c)
               /\ bitpack!Bit(c) \in a.f2 <=> F2(c)
               /\ bitpack!Bit(c) \in a.r1 <=> R1(c)
               /\ bitpack!Bit(c) \in a.r2 <=> R2(c)
    BY <2>1, ApresParCellule DEF a
  <2> QED
    BY <1>1, <1>4, <1>5, <1>6, <1>7, <2>1 DEF Avance
<1> QED
  BY <1>4, <1>5, <1>6, <1>7, <1>8

(* A cell that changes keeps to one state.                                 *)
LEMMA SeulsApres ==
  ASSUME Seuls, NEW c \in Cells(carte)
  PROVE  /\ ~(F1(c) /\ F2(c))
         /\ F1(c) \/ F2(c) => ~R1(c) /\ ~R2(c) /\ carte.terrain[c] # Water
<1>1. /\ ~(bitpack!Lit(f1, carte, c) /\ bitpack!Lit(f2, carte, c))
      /\ Brulante(c) => /\ ~bitpack!Lit(r1, carte, c) /\ ~bitpack!Lit(r2, carte, c)
                        /\ carte.terrain[c] # Water
  BY DEF Seuls
<1>2. Plain # Forest /\ Plain # Water /\ Forest # Water
  BY DEF Plain, Forest, Water
<1> QED
  BY <1>1, <1>2 DEF F1, F2, R1, R2, Frais, Brulante

(* The last loop writes a word and counts its burning cells.               *)
LEMMA ApplyBit ==
  ASSUME BitInv, bitpack!Apply
  PROVE  BitInv'
<1> DEFINE a == bitpack!Apres(k)
           S == a.f1 \cup a.f2
<1>1. /\ k \in bitpack!Mots(carte) /\ k' = k + 1 /\ pc = "apply"
      /\ count' = count + Cardinality(S)
      /\ UNCHANGED <<carte, source, ignite, burning, pc>>
  BY ContratBitpack DEF bitpack!Apply
<1>2. BitType /\ WellFormed(carte) /\ Seuls /\ k \in Nat /\ count = Cardinality(Faites)
  BY <1>1 DEF BitInv, BitType, Compte
<1>3. /\ Masquee(carte, f1') /\ Masquee(carte, f2')
      /\ Masquee(carte, r1') /\ Masquee(carte, r2')
      /\ \A c \in Cells(carte) : Avance(c)
  BY <1>2, ApplyAvance
<1>4. S \subseteq Valides(carte, k)
  BY <1>1, <1>2, ApresParCellule
<1>5. \A c \in Cells(carte) :
        bitpack!Mot(carte, c) = k => (bitpack!Bit(c) \in S <=> F1(c) \/ F2(c))
  BY <1>2, ApresParCellule
<1> HIDE DEF S, a
<1>6. IsFiniteSet(DuMot(carte, k, S)) /\ Cardinality(DuMot(carte, k, S)) = Cardinality(S)
  BY <1>1, <1>2, <1>4, CellulesDUnMot
<1>7. IsFiniteSet(Faites) /\ Cardinality(Faites) \in Nat
  BY <1>2, CellulesFinies DEF Faites
<1>8. Seuls'
  <2> SUFFICES ASSUME NEW c \in Cells(carte)
               PROVE  /\ ~(bitpack!Lit(f1, carte, c)' /\ bitpack!Lit(f2, carte, c)')
                      /\ Brulante(c)' => /\ ~bitpack!Lit(r1, carte, c)' /\ ~bitpack!Lit(r2, carte, c)'
                                         /\ carte.terrain[c] # Water
    BY <1>1 DEF Seuls
  <2>1. Avance(c)
    BY <1>3
  <2>2. Brulante(c)' <=> bitpack!Lit(f1, carte, c)' \/ bitpack!Lit(f2, carte, c)'
    BY DEF Brulante
  <2>3. CASE bitpack!Mot(carte, c) = k
    BY <1>2, <2>1, <2>2, <2>3, SeulsApres DEF Avance
  <2>4. CASE bitpack!Mot(carte, c) # k
    BY <1>2, <2>1, <2>2, <2>4 DEF Avance, Seuls, Brulante
  <2> QED
    BY <2>3, <2>4
<1>9. Compte'
  <2>1. \A c \in Cells(carte) : bitpack!Mot(carte, c) \in Nat
    <3>1. \A c \in Cells(carte) : bitpack!Mot(carte, c) \in bitpack!Mots(carte)
      BY <1>2, MotDeCellule
    <3> QED
      BY <3>1 DEF bitpack!Mots
  <2>2. ASSUME NEW c \in Cells(carte)
        PROVE  c \in Faites' <=> c \in Faites \/ c \in DuMot(carte, k, S)
    <3>1. bitpack!Mot(carte, c) < k + 1 <=> bitpack!Mot(carte, c) < k \/ bitpack!Mot(carte, c) = k
      BY <1>2, <2>1
    <3>2. c \in Faites' <=> bitpack!Mot(carte, c) < k + 1 /\ Brulante(c)'
      BY <1>1 DEF Faites
    <3>3. c \in Faites <=> bitpack!Mot(carte, c) < k /\ Brulante(c)
      BY DEF Faites
    <3>4. c \in DuMot(carte, k, S) <=> bitpack!Mot(carte, c) = k /\ (F1(c) \/ F2(c))
      BY <1>5 DEF DuMot
    <3>5. Brulante(c)' <=> IF bitpack!Mot(carte, c) = k THEN F1(c) \/ F2(c) ELSE Brulante(c)
      BY <1>3 DEF Avance, Brulante
    <3>6. ~(bitpack!Mot(carte, c) < k /\ bitpack!Mot(carte, c) = k)
      BY <1>2, <2>1
    <3> QED
      BY <3>1, <3>2, <3>3, <3>4, <3>5, <3>6
  <2>3. Faites' = Faites \cup DuMot(carte, k, S)
    <3>1. Faites' \subseteq Cells(carte) /\ Faites \subseteq Cells(carte)
          /\ DuMot(carte, k, S) \subseteq Cells(carte)
      BY <1>1 DEF Faites, DuMot
    <3> QED
      BY <2>2, <3>1
  <2>4. Faites \cap DuMot(carte, k, S) = {}
    BY <1>2, <2>1 DEF Faites, DuMot
  <2>5. Cardinality(Faites') = Cardinality(Faites) + Cardinality(DuMot(carte, k, S))
    <3>1. Cardinality(Faites') = Cardinality(Faites) + Cardinality(DuMot(carte, k, S))
                                   - Cardinality({})
      BY <1>6, <1>7, <2>3, <2>4, FS_Union
    <3>2. Cardinality(DuMot(carte, k, S)) \in Nat /\ Cardinality({}) = 0
      BY <1>6, FS_CardinalityType, FS_EmptySet
    <3> QED
      BY <1>7, <3>1, <3>2
  <2> QED
    BY <1>1, <1>2, <1>6, <2>5 DEF Compte
<1>10. BitType'
  <2>1. count' \in Nat
    <3>1. Cardinality(S) \in Nat
      BY <1>6, FS_CardinalityType
    <3> QED
      BY <1>1, <1>2, <1>7, <3>1
  <2> QED
    BY <1>1, <1>2, <1>3, <2>1 DEF BitType
<1>11. Poursuit'
  BY <1>1 DEF Poursuit
<1> QED
  BY <1>8, <1>9, <1>10, <1>11 DEF BitInv

(* Step returns once every word is written.                                *)
LEMMA RendBit ==
  ASSUME BitInv, bitpack!Rend
  PROVE  BitInv'
<1>1. /\ UNCHANGED <<carte, f1, f2, r1, r2, source, ignite>>
      /\ pc = "apply" /\ k \notin bitpack!Mots(carte)
      /\ burning' = count /\ pc' = "idle" /\ k' = 0 /\ count' = 0
  BY DEF bitpack!Rend, bitpack!plans
<1>2. BitType /\ WellFormed(carte) /\ Seuls /\ k \in Nat /\ count = Cardinality(Faites)
  BY <1>1 DEF BitInv, BitType, Compte
<1>3. Seuls' /\ Brasier' = Brasier
  BY <1>1, <1>2, MemesPlans
<1>4. Faites = Brasier
  <2>1. ASSUME NEW c \in Cells(carte)
        PROVE  bitpack!Mot(carte, c) < k
    <3>1. bitpack!Mot(carte, c) \in bitpack!Mots(carte)
      BY <1>2, MotDeCellule
    <3> DEFINE z == bitpack!Words(carte) * carte.height
    <3>2. bitpack!Mots(carte) = 0 .. z - 1
      BY DEF bitpack!Mots
    <3>3. z \in Int
      BY <1>2, MotsDUneLigne DEF WellFormed
    <3> HIDE DEF z
    <3> QED
      BY <1>1, <1>2, <3>1, <3>2, <3>3
  <2> QED
    BY <2>1 DEF Faites, Brasier
<1>5. Compte'
  BY <1>1, <1>2, <1>3, <1>4 DEF Compte
<1>6. BitType'
  BY <1>1, <1>2 DEF BitType
<1>7. Poursuit'
  BY <1>1 DEF Poursuit
<1> QED
  BY <1>3, <1>5, <1>6, <1>7 DEF BitInv

BitTenu == impl = "bitpack" => BitInv

LEMMA SuiteBit == BitTenu /\ [Next]_vars => BitTenu'
<1> SUFFICES ASSUME BitTenu, [Next]_vars, impl' = "bitpack" PROVE BitInv'
  BY DEF BitTenu
<1>1. CASE Next
  <2>1. impl = "bitpack" /\ bitpack!Next
    BY <1>1 DEF Next
  <2>2. BitInv
    BY <2>1 DEF BitTenu
  <2> QED
    BY <2>1, <2>2, AllumeBit, DebutBit, LigneBit, VentsBit, ApplyBit, RendBit DEF bitpack!Next
<1>2. CASE UNCHANGED vars
  <2>1. /\ impl' = impl /\ UNCHANGED <<carte, f1, f2, r1, r2, source, ignite>>
        /\ UNCHANGED <<pc, k, count, burning>>
    BY <1>2 DEF vars, plans
  <2>2. BitInv
    BY <2>1 DEF BitTenu
  <2>3. Seuls' /\ Brasier' = Brasier /\ \A c : Brulante(c)' <=> Brulante(c)
    BY <2>1, <2>2, MemesPlans DEF BitInv
  <2>4. Poses' = Poses /\ Faites' = Faites
    BY <2>1, <2>3 DEF Poses, Faites
  <2>5. BitType'
    BY <2>1, <2>2 DEF BitInv, BitType
  <2>6. Poursuit'
    BY <2>1, <2>2, <2>3, <2>4 DEF BitInv, Poursuit
  <2>7. Compte'
    BY <2>1, <2>2, <2>3, <2>4 DEF BitInv, Compte
  <2> QED
    BY <2>3, <2>5, <2>6, <2>7 DEF BitInv
<1> QED
  BY <1>1, <1>2

LEMMA BitTient == Spec => []BitTenu
<1>1. Init => BitTenu
  BY InitBit DEF BitTenu
<1> QED
  BY <1>1, SuiteBit, PTL DEF Spec

(* No bit of padding is ever 1: the popcount of a word counts cells, and a *)
(* shift carries only cells into the row.                                  *)
THEOREM PasDeFauxBits == Spec => []Remplissage
<1>1. BitTenu => Remplissage
  <2> SUFFICES ASSUME BitTenu, impl = "bitpack" PROVE bitpack!Remplissage
    BY DEF Remplissage
  <2>1. BitType /\ WellFormed(carte)
    BY DEF BitTenu, BitInv, BitType
  <2>2. bitpack!Words(carte) \in Nat \ {0}
    BY <2>1, MotsDUneLigne
  <2>3. ASSUME NEW y \in 0 .. carte.height - 1
        PROVE  LET n == (y + 1) * bitpack!Words(carte) - 1 IN
               f1[n] \cup f2[n] \cup r1[n] \cup r2[n] \cup ignite[n]
                 \subseteq bitpack!LastMask(carte)
    <3> DEFINE s == bitpack!Words(carte)
               n == (y + 1) * s - 1
    <3>1. n = y * s + (s - 1) /\ s - 1 \in 0 .. s - 1 /\ y \in Nat
      <4>1. y \in Nat /\ s \in Nat \ {0}
        BY <2>1, <2>2 DEF WellFormed
      <4> HIDE DEF s
      <4>2. (y + 1) * s = y * s + s /\ y * s \in Nat
        BY <4>1
      <4> QED
        BY <4>1, <4>2
    <3>2. n \in bitpack!Mots(carte) /\ n % s = s - 1
      BY <2>1, <3>1, MotsDuRang
    <3>3. Valides(carte, n) = bitpack!LastMask(carte)
      BY <3>2 DEF Valides
    <3> HIDE DEF n
    <3>4. /\ f1[n] \subseteq Valides(carte, n) /\ f2[n] \subseteq Valides(carte, n)
          /\ r1[n] \subseteq Valides(carte, n) /\ r2[n] \subseteq Valides(carte, n)
          /\ ignite[n] \subseteq Valides(carte, n)
      BY <2>1, <3>2 DEF BitType, Masquee
    <3>5. f1[n] \cup f2[n] \cup r1[n] \cup r2[n] \cup ignite[n] \subseteq bitpack!LastMask(carte)
      BY <3>3, <3>4
    <3> QED
      BY <3>5 DEF n
  <2> QED
    BY <2>3 DEF bitpack!Remplissage
<1> QED
  BY <1>1, BitTient, PTL

-----------------------------------------------------------------------------
(* What bitpack shows of a cell.                                           *)
Deux(a, b) == (IF a THEN 1 ELSE 0) + (IF b THEN 2 ELSE 0)
ADevenir(c) == pc = "apply" /\ bitpack!Mot(carte, c) >= k
FeuBit(c) ==
  IF pc = "new" THEN IF c \in Foyers(carte) THEN Combustion(carte.terrain[c]) ELSE 0
  ELSE IF ADevenir(c) THEN Deux(F1(c), F2(c))
  ELSE Deux(bitpack!Lit(f1, carte, c), bitpack!Lit(f2, carte, c))
ReposBit(c) ==
  IF ADevenir(c) THEN Deux(R1(c), R2(c))
  ELSE Deux(bitpack!Lit(r1, carte, c), bitpack!Lit(r2, carte, c))
VueBit ==
  /\ FeuVu = [c \in Cells(carte) |-> FeuBit(c)]
  /\ ReposVu = [c \in Cells(carte) |-> ReposBit(c)]

LEMMA VuBit == impl = "bitpack" /\ BitInv => VueBit
<1> SUFFICES ASSUME impl = "bitpack", BitInv PROVE VueBit
  OBVIOUS
<1>1. BitType
  BY DEF BitInv
<1>2. FeuVu = bitpack!FeuVu /\ ReposVu = bitpack!ReposVu
  BY DEF FeuVu, ReposVu
<1>3. ASSUME NEW c \in Cells(carte)
      PROVE  LET m == bitpack!Mots4(bitpack!Mot(carte, c)) IN
             /\ pc = "new" => bitpack!Poids(m.r1, m.r2, bitpack!Bit(c)) = ReposBit(c)
             /\ pc # "new" => /\ bitpack!Poids(m.f1, m.f2, bitpack!Bit(c)) = FeuBit(c)
                              /\ bitpack!Poids(m.r1, m.r2, bitpack!Bit(c)) = ReposBit(c)
  <2> DEFINE n == bitpack!Mot(carte, c)
             b == bitpack!Bit(c)
             m == bitpack!Mots4(n)
             a == bitpack!Apres(n)
  <2>1. /\ bitpack!Lit(f1, carte, c) <=> b \in f1[n]
        /\ bitpack!Lit(f2, carte, c) <=> b \in f2[n]
        /\ bitpack!Lit(r1, carte, c) <=> b \in r1[n]
        /\ bitpack!Lit(r2, carte, c) <=> b \in r2[n]
    BY DEF bitpack!Lit
  <2>2. /\ b \in a.f1 <=> F1(c)
        /\ b \in a.f2 <=> F2(c)
        /\ b \in a.r1 <=> R1(c)
        /\ b \in a.r2 <=> R2(c)
    BY <1>1, ApresParCellule
  <2>3. m = IF ADevenir(c) THEN a
            ELSE [f1 |-> f1[n], f2 |-> f2[n], r1 |-> r1[n], r2 |-> r2[n]]
    BY DEF bitpack!Mots4, ADevenir
  <2>4. /\ m.f1 = IF ADevenir(c) THEN a.f1 ELSE f1[n]
        /\ m.f2 = IF ADevenir(c) THEN a.f2 ELSE f2[n]
        /\ m.r1 = IF ADevenir(c) THEN a.r1 ELSE r1[n]
        /\ m.r2 = IF ADevenir(c) THEN a.r2 ELSE r2[n]
    <3> HIDE DEF m, a, n
    <3> QED
      BY <2>3
  <2>5. /\ bitpack!Poids(m.f1, m.f2, b) = Deux(b \in m.f1, b \in m.f2)
        /\ bitpack!Poids(m.r1, m.r2, b) = Deux(b \in m.r1, b \in m.r2)
    BY DEF bitpack!Poids, Deux
  <2> HIDE DEF m, a, n, b
  <2>6. bitpack!Poids(m.r1, m.r2, b) = ReposBit(c)
    BY <2>1, <2>2, <2>4, <2>5 DEF ReposBit, Deux
  <2>7. pc # "new" => bitpack!Poids(m.f1, m.f2, b) = FeuBit(c)
    BY <2>1, <2>2, <2>4, <2>5 DEF FeuBit, Deux
  <2> QED
    BY <2>6, <2>7 DEF m, n, b
<1>4. \A c : (\E n \in DOMAIN carte.fires : carte.fires[n] = c) <=> c \in Foyers(carte)
  BY DEF Foyers
<1>5. bitpack!FeuVu = [c \in Cells(carte) |-> FeuBit(c)]
  <2> DEFINE v(c) == IF pc = "new"
                     THEN IF \E n \in DOMAIN carte.fires : carte.fires[n] = c
                          THEN Combustion(carte.terrain[c]) ELSE 0
                     ELSE bitpack!Poids(bitpack!Mots4(bitpack!Mot(carte, c)).f1,
                                        bitpack!Mots4(bitpack!Mot(carte, c)).f2, bitpack!Bit(c))
  <2>1. bitpack!FeuVu = [c \in Cells(carte) |-> v(c)]
    BY ContratBitpack DEF bitpack!FeuVu
  <2>2. \A c \in Cells(carte) : v(c) = FeuBit(c)
    <3>1. CASE pc = "new"
      BY <1>4, <3>1 DEF FeuBit
    <3>2. CASE pc # "new"
      BY <1>3, <3>2
    <3> QED
      BY <3>1, <3>2
  <2> HIDE DEF v
  <2> QED
    BY <2>1, <2>2
<1>6. bitpack!ReposVu = [c \in Cells(carte) |-> ReposBit(c)]
  <2> DEFINE v(c) == bitpack!Poids(bitpack!Mots4(bitpack!Mot(carte, c)).r1,
                                   bitpack!Mots4(bitpack!Mot(carte, c)).r2, bitpack!Bit(c))
  <2>1. bitpack!ReposVu = [c \in Cells(carte) |-> v(c)]
    BY ContratBitpack DEF bitpack!ReposVu
  <2>2. \A c \in Cells(carte) : v(c) = ReposBit(c)
    BY <1>3
  <2> HIDE DEF v
  <2> QED
    BY <2>1, <2>2
<1> QED
  BY <1>2, <1>5, <1>6 DEF VueBit

LEMMA VuBitApres == (impl = "bitpack" /\ BitInv => VueBit)'
  BY VuBit, PTL

LEMMA RienVuBit ==
  ASSUME impl = "bitpack", impl' = impl, BitInv, BitInv', carte' = carte,
         \A c \in Cells(carte) : FeuBit(c)' = FeuBit(c) /\ ReposBit(c)' = ReposBit(c)
  PROVE  UNCHANGED R!vars
<1>1. VueBit /\ VueBit'
  BY VuBit, VuBitApres
<1> QED
  BY <1>1 DEF VueBit, R!vars

(* Everything but the winds shows nothing: the planes before them,         *)
LEMMA PrepareBit ==
  ASSUME impl = "bitpack", impl' = impl, BitInv, BitInv',
         bitpack!Allume \/ bitpack!Pret \/ bitpack!Step \/ bitpack!Ligne
  PROVE  UNCHANGED R!vars
<1>1. carte' = carte /\ r1' = r1 /\ r2' = r2 /\ pc # "apply" /\ pc' # "apply"
  BY DEF bitpack!Allume, bitpack!Pret, bitpack!Step, bitpack!Ligne, bitpack!plans
<1>2. \A c : ~ADevenir(c) /\ ~ADevenir(c)'
  BY <1>1 DEF ADevenir
<1>3. \A c : ReposBit(c)' = ReposBit(c)
  BY <1>1, <1>2 DEF ReposBit
<1>4. ASSUME NEW c \in Cells(carte)
      PROVE  FeuBit(c)' = FeuBit(c)
  <2>1. CASE bitpack!Allume
    <3>1. pc = "new" /\ pc' = "new"
      BY <2>1 DEF bitpack!Allume
    <3> QED
      BY <1>1, <3>1 DEF FeuBit
  <2>2. CASE bitpack!Step \/ bitpack!Ligne
    <3>1. pc # "new" /\ pc' # "new" /\ f1' = f1 /\ f2' = f2
      BY <2>2 DEF bitpack!Step, bitpack!Ligne, bitpack!plans
    <3> QED
      BY <1>1, <1>2, <3>1 DEF FeuBit
  <2>3. CASE bitpack!Pret
    <3>1. pc = "new" /\ pc' = "idle" /\ k = Len(carte.fires) /\ f1' = f1 /\ f2' = f2
      BY <2>3 DEF bitpack!Pret, bitpack!plans
    <3>2. Poses = Foyers(carte)
      <4>1. DOMAIN carte.fires = 1 .. Len(carte.fires)
        BY DEF BitInv, BitType, WellFormed
      <4> QED
        BY <3>1, <4>1 DEF Poses, Foyers
    <3>3. /\ bitpack!Lit(f1, carte, c) <=> c \in Foyers(carte) /\ carte.terrain[c] = Plain
          /\ bitpack!Lit(f2, carte, c) <=> c \in Foyers(carte) /\ carte.terrain[c] = Forest
      BY <3>1, <3>2 DEF BitInv, Poursuit
    <3>4. carte.terrain[c] \in Terrains
      BY DEF BitInv, BitType, WellFormed
    <3>5. FeuBit(c)' = Deux(bitpack!Lit(f1, carte, c), bitpack!Lit(f2, carte, c))
      BY <1>1, <1>2, <3>1 DEF FeuBit
    <3>6. FeuBit(c) = IF c \in Foyers(carte) THEN Combustion(carte.terrain[c]) ELSE 0
      BY <3>1 DEF FeuBit
    <3> QED
      BY <3>3, <3>4, <3>5, <3>6 DEF Deux, Terrains, Combustion, Water, Plain, Forest
  <2> QED
    BY <2>1, <2>2, <2>3
<1> QED
  BY <1>1, <1>3, <1>4, RienVuBit

(* and the words written one by one after them.                            *)
LEMMA EcritBit ==
  ASSUME impl = "bitpack", impl' = impl, BitInv, BitInv', bitpack!Apply \/ bitpack!Rend
  PROVE  UNCHANGED R!vars
<1>1. carte' = carte /\ pc = "apply" /\ pc' # "new" /\ ignite' = ignite
  BY DEF bitpack!Apply, bitpack!Rend
<1>2. BitType /\ WellFormed(carte) /\ k \in Nat
  BY DEF BitInv, BitType
<1>3. \A c \in Cells(carte) : /\ bitpack!Mot(carte, c) \in bitpack!Mots(carte)
                              /\ bitpack!Mot(carte, c) \in Nat
  <2>1. \A c \in Cells(carte) : bitpack!Mot(carte, c) \in bitpack!Mots(carte)
    BY <1>2, MotDeCellule
  <2> QED
    BY <2>1 DEF bitpack!Mots
<1>4. ASSUME bitpack!Apply, NEW c \in Cells(carte)
      PROVE  FeuBit(c)' = FeuBit(c) /\ ReposBit(c)' = ReposBit(c)
  <2> DEFINE n == bitpack!Mot(carte, c)
  <2>1. Avance(c) /\ k' = k + 1 /\ pc' = "apply"
    BY <1>2, <1>4, ApplyAvance DEF bitpack!Apply
  <2>2. /\ ADevenir(c) <=> n >= k
        /\ ADevenir(c)' <=> n >= k + 1
    BY <1>1, <2>1 DEF ADevenir
  <2>3. n \in Nat /\ k \in Nat
    BY <1>2, <1>3
  <2>4. /\ FeuBit(c)' = IF ADevenir(c)' THEN Deux(F1(c)', F2(c)')
                        ELSE Deux(bitpack!Lit(f1, carte, c)', bitpack!Lit(f2, carte, c)')
        /\ ReposBit(c)' = IF ADevenir(c)' THEN Deux(R1(c)', R2(c)')
                          ELSE Deux(bitpack!Lit(r1, carte, c)', bitpack!Lit(r2, carte, c)')
    BY <1>1 DEF FeuBit, ReposBit, Deux
  <2>5. /\ FeuBit(c) = IF ADevenir(c) THEN Deux(F1(c), F2(c))
                       ELSE Deux(bitpack!Lit(f1, carte, c), bitpack!Lit(f2, carte, c))
        /\ ReposBit(c) = IF ADevenir(c) THEN Deux(R1(c), R2(c))
                         ELSE Deux(bitpack!Lit(r1, carte, c), bitpack!Lit(r2, carte, c))
    BY <1>1 DEF FeuBit, ReposBit
  <2> HIDE DEF n
  <2>6. CASE n = k
    <3>1. ADevenir(c) /\ ~ADevenir(c)'
      BY <2>2, <2>3, <2>6
    <3>2. /\ bitpack!Lit(f1, carte, c)' <=> F1(c)
          /\ bitpack!Lit(f2, carte, c)' <=> F2(c)
          /\ bitpack!Lit(r1, carte, c)' <=> R1(c)
          /\ bitpack!Lit(r2, carte, c)' <=> R2(c)
      BY <2>1, <2>6 DEF Avance, n
    <3> QED
      BY <2>4, <2>5, <3>1, <3>2 DEF Deux
  <2>7. CASE n # k
    <3>1. ADevenir(c)' <=> ADevenir(c)
      BY <2>2, <2>3, <2>7
    <3>2. /\ bitpack!Lit(f1, carte, c)' <=> bitpack!Lit(f1, carte, c)
          /\ bitpack!Lit(f2, carte, c)' <=> bitpack!Lit(f2, carte, c)
          /\ bitpack!Lit(r1, carte, c)' <=> bitpack!Lit(r1, carte, c)
          /\ bitpack!Lit(r2, carte, c)' <=> bitpack!Lit(r2, carte, c)
      BY <2>1, <2>7 DEF Avance, n
    <3>3. Frais(c)' <=> Frais(c)
      BY <1>1, <3>2 DEF Frais, Brulante
    <3>4. /\ F1(c)' <=> F1(c)
          /\ F2(c)' <=> F2(c)
          /\ R1(c)' <=> R1(c)
          /\ R2(c)' <=> R2(c)
      BY <1>1, <3>2, <3>3 DEF F1, F2, R1, R2
    <3> QED
      BY <2>4, <2>5, <3>1, <3>2, <3>4 DEF Deux
  <2> QED
    BY <2>6, <2>7
<1>5. ASSUME bitpack!Rend, NEW c \in Cells(carte)
      PROVE  FeuBit(c)' = FeuBit(c) /\ ReposBit(c)' = ReposBit(c)
  <2>1. /\ k \notin bitpack!Mots(carte) /\ pc' = "idle"
        /\ f1' = f1 /\ f2' = f2 /\ r1' = r1 /\ r2' = r2
    BY <1>5 DEF bitpack!Rend, bitpack!plans
  <2>2. bitpack!Mot(carte, c) < k
    <3> DEFINE z == bitpack!Words(carte) * carte.height
    <3>1. bitpack!Mots(carte) = 0 .. z - 1
      BY DEF bitpack!Mots
    <3>2. z \in Int
      BY <1>2, MotsDUneLigne DEF WellFormed
    <3>3. bitpack!Mot(carte, c) \in bitpack!Mots(carte)
      BY <1>3
    <3> HIDE DEF z
    <3> QED
      BY <1>2, <2>1, <3>1, <3>2, <3>3
  <2>3. ~ADevenir(c) /\ ~ADevenir(c)'
    BY <1>2, <1>3, <2>1, <2>2 DEF ADevenir
  <2> QED
    BY <1>1, <2>1, <2>3 DEF FeuBit, ReposBit
<1> QED
  BY <1>1, <1>4, <1>5, RienVuBit

(* Without wind, the square of a cell is what it ignites and itself.       *)
LEMMA CarreSansVent ==
  ASSUME NEW m, WellFormed(m), NEW b \in Cells(m), m.wind[b] = 0, NEW c, c # b
  PROVE  c \in Alentours(m, b) <=> c \in ghost!Contagion(m, b)
<1> DEFINE f(p) == At(m, b[1] + p[1], b[2] + p[2])
           a(e) == <<b[1] + Dx(e), b[2] + Dy(e)>>
<1>1. ghost!Contagion(m, b) = {At(m, b[1] + Dx(e), b[2] + Dy(e)) : e \in Directions}
  <2>1. ~ghost!Vente(m, b)
    BY ContratGhost DEF Vente
  <2>2. {e \in ghost!Directions : ~ghost!Epargne(m, b, e)} = Directions
    BY <2>1, ContratGhost DEF ghost!Epargne
  <2>3. ghost!Visees(m, b) = {a(e) : e \in Directions}
    BY <2>1, <2>2, ContratGhost DEF ghost!Visees
  <2> DEFINE g(p) == At(m, p[1], p[2])
  <2>4. ghost!Contagion(m, b) = {g(p) : p \in ghost!Visees(m, b)}
    BY ContratGhost DEF ghost!Contagion
  <2>5. \A e : g(a(e)) = At(m, b[1] + Dx(e), b[2] + Dy(e))
    OBVIOUS
  <2> HIDE DEF g, a
  <2> QED
    BY <2>3, <2>4, <2>5
<1>2. \A p \in (-1..1) \X (-1..1) : p # <<0, 0>> =>
        \E e \in Directions : p[1] = Dx(e) /\ p[2] = Dy(e)
  <2>1. /\ Dx(0) = 1 /\ Dy(0) = 0 /\ Dx(1) = 1 /\ Dy(1) = -1 /\ Dx(2) = 0 /\ Dy(2) = -1
        /\ Dx(3) = -1 /\ Dy(3) = -1 /\ Dx(4) = -1 /\ Dy(4) = 0 /\ Dx(5) = -1 /\ Dy(5) = 1
        /\ Dx(6) = 0 /\ Dy(6) = 1 /\ Dx(7) = 1 /\ Dy(7) = 1
    BY DEF Dx, Dy, Offsets
  <2>2. \A p \in (-1..1) \X (-1..1) :
          /\ p[1] = -1 \/ p[1] = 0 \/ p[1] = 1
          /\ p[2] = -1 \/ p[2] = 0 \/ p[2] = 1
          /\ p # <<0, 0>> => p[1] # 0 \/ p[2] # 0
    OBVIOUS
  <2>3. \A e \in 0..7 : e \in Directions
    BY DEF Directions
  <2> SUFFICES ASSUME NEW p \in (-1..1) \X (-1..1), p # <<0, 0>>
               PROVE  \E e \in Directions : p[1] = Dx(e) /\ p[2] = Dy(e)
    OBVIOUS
  <2>4. CASE p[1] = 1
    BY <2>1, <2>2, <2>3, <2>4
  <2>5. CASE p[1] = 0
    BY <2>1, <2>2, <2>3, <2>5
  <2>6. CASE p[1] = -1
    BY <2>1, <2>2, <2>3, <2>6
  <2> QED
    BY <2>2, <2>4, <2>5, <2>6
<1>3. f(<<0, 0>>) = b
  <2>1. /\ b[1] \in 0 .. m.width - 1 /\ b[2] \in 0 .. m.height - 1 /\ b = <<b[1], b[2]>>
        /\ m.width \in Nat \ {0} /\ m.height \in Nat \ {0}
    BY DEF WellFormed, Cells
  <2>2. b[1] + 0 = b[1] /\ b[2] + 0 = b[2]
    BY <2>1
  <2>3. Mod(b[1], m.width) = b[1] /\ Mod(b[2], m.height) = b[2]
    <3>1. b[1] \in -1 .. m.width /\ b[2] \in -1 .. m.height /\ b[1] # -1 /\ b[2] # -1
          /\ b[1] # m.width /\ b[2] # m.height
      BY <2>1
    <3> QED
      BY <2>1, <3>1, ModAuBord
  <2> QED
    BY <2>1, <2>2, <2>3 DEF At
<1>4. Alentours(m, b) = {f(p) : p \in (-1..1) \X (-1..1)}
  BY DEF Alentours
<1>5. \A p : f(p) = At(m, b[1] + p[1], b[2] + p[2])
  OBVIOUS
<1> HIDE DEF f
<1>6. ASSUME c \in Alentours(m, b)
      PROVE  c \in ghost!Contagion(m, b)
  <2>1. PICK p \in (-1..1) \X (-1..1) : c = f(p)
    BY <1>4, <1>6
  <2>2. PICK e \in Directions : p[1] = Dx(e) /\ p[2] = Dy(e)
    BY <1>2, <1>3, <2>1
  <2> QED
    BY <1>1, <1>5, <2>1, <2>2
<1>7. ASSUME c \in ghost!Contagion(m, b)
      PROVE  c \in Alentours(m, b)
  <2>1. PICK e \in Directions : c = At(m, b[1] + Dx(e), b[2] + Dy(e))
    BY <1>1, <1>7
  <2> QED
    BY <2>1, Deplacement, DansAlentours
<1> QED
  BY <1>6, <1>7

(* the winds, last to ignite, decide the turn.                             *)
LEMMA DecideBit ==
  ASSUME impl = "bitpack", impl' = impl, BitInv, BitInv', bitpack!Vents
  PROVE  R!Tour
<1>1. /\ UNCHANGED <<carte, f1, f2, r1, r2>>
      /\ pc = "spread" /\ k = carte.height /\ pc' = "apply" /\ k' = 0
  BY DEF bitpack!Vents, bitpack!plans
<1>2. BitType /\ WellFormed(carte) /\ Seuls
  BY DEF BitInv, BitType
<1>3. VueBit /\ VueBit'
  BY VuBit, VuBitApres
<1>4. /\ FeuVu = [c \in Cells(carte) |-> Deux(bitpack!Lit(f1, carte, c), bitpack!Lit(f2, carte, c))]
      /\ ReposVu = [c \in Cells(carte) |-> Deux(bitpack!Lit(r1, carte, c), bitpack!Lit(r2, carte, c))]
  BY <1>1, <1>3 DEF VueBit, FeuBit, ReposBit, ADevenir
<1>5. \A c \in Cells(carte) : FeuVu[c] > 0 <=> Brulante(c)
  BY <1>4 DEF Deux, Brulante
<1>6. \A c \in Cells(carte) : FeuVu[c] \in 0..2 /\ ReposVu[c] \in 0..3
  <2> SUFFICES ASSUME NEW c \in Cells(carte) PROVE FeuVu[c] \in 0..2 /\ ReposVu[c] \in 0..3
    OBVIOUS
  <2>1. ~(bitpack!Lit(f1, carte, c) /\ bitpack!Lit(f2, carte, c))
    BY <1>2 DEF Seuls
  <2> QED
    BY <1>4, <2>1 DEF Deux
<1>7. FeuVu \in [Cells(carte) -> 0..2] /\ ReposVu \in [Cells(carte) -> 0..3]
  BY <1>4, <1>6
<1>8. \A c \in Cells(carte) :
        bitpack!Lit(ignite', carte, c) <=> bitpack!Lit(ignite, carte, c) \/ c \in Soufflees
  BY <1>2, VentsAllument
<1>9. ASSUME NEW c \in Cells(carte), ~Brulante(c)
      PROVE  bitpack!Lit(ignite', carte, c) <=> c \in Ignitions(carte, FeuVu)
  <2>1. bitpack!Lit(ignite, carte, c) <=>
          \E b \in Cells(carte) : /\ Brulante(b) /\ carte.wind[b] = 0
                                  /\ c \in ghost!Contagion(carte, b)
    <3>1. bitpack!Lit(ignite, carte, c) <=>
            \E b \in Cells(carte) : /\ bitpack!Lit(source, carte, b)
                                    /\ b[2] < k /\ c \in Alentours(carte, b)
      BY <1>1 DEF BitInv, Poursuit
    <3>2. \A b \in Cells(carte) : b[2] < k
      BY <1>1, <1>2 DEF Cells, WellFormed
    <3>3. \A b \in Cells(carte) : bitpack!Lit(source, carte, b) <=> Brulante(b) /\ carte.wind[b] = 0
      BY <1>1 DEF BitInv, Poursuit
    <3>4. \A b \in Cells(carte) : Brulante(b) /\ carte.wind[b] = 0 =>
            (c \in Alentours(carte, b) <=> c \in ghost!Contagion(carte, b))
      BY <1>2, <1>9, CarreSansVent
    <3> QED
      BY <3>1, <3>2, <3>3, <3>4
  <2>2. c \in Soufflees <=>
          \E b \in Cells(carte) : /\ Brulante(b) /\ carte.wind[b] # 0
                                  /\ c \in ghost!Contagion(carte, b)
    <3>1. c \in Soufflees <=> \E b \in Ventees : c \in bitpack!Targets(carte, b)
      BY DEF Soufflees
    <3>2. \A b : b \in Ventees <=> b \in Cells(carte) /\ carte.wind[b] # 0 /\ Brulante(b)
      BY DEF Ventees
    <3>3. \A b \in Ventees : bitpack!Targets(carte, b) = ghost!Contagion(carte, b)
      BY <1>2, <3>2, CiblesBitpack
    <3> QED
      BY <3>1, <3>2, <3>3
  <2>3. c \in Ignitions(carte, FeuVu) <=>
          \E b \in Cells(carte) : Brulante(b) /\ c \in ghost!Contagion(carte, b)
    BY <1>5 DEF Ignitions
  <2> QED
    BY <1>8, <2>1, <2>2, <2>3
<1>10. ASSUME NEW c \in Cells(carte)
       PROVE  /\ FeuBit(c)' = FeuApres(FeuVu[c], ReposVu[c], carte.terrain[c],
                                       c \in Ignitions(carte, FeuVu))
              /\ ReposBit(c)' = ReposApres(FeuVu[c], ReposVu[c], carte.terrain[c])
  <2> DEFINE L1 == bitpack!Lit(f1, carte, c)
             L2 == bitpack!Lit(f2, carte, c)
             M1 == bitpack!Lit(r1, carte, c)
             M2 == bitpack!Lit(r2, carte, c)
             I == bitpack!Lit(ignite', carte, c)
             t == carte.terrain[c]
             pris == c \in Ignitions(carte, FeuVu)
             fresh == I /\ ~L1 /\ ~L2 /\ ~M1 /\ ~M2
  <2>1. ADevenir(c)' /\ pc' # "new"
    <3>1. bitpack!Mot(carte, c) \in bitpack!Mots(carte)
      BY <1>2, MotDeCellule
    <3>2. bitpack!Mot(carte, c) >= 0
      BY <3>1 DEF bitpack!Mots
    <3> QED
      BY <1>1, <3>2 DEF ADevenir
  <2>2. /\ F1(c)' <=> L2 \/ (fresh /\ t = Plain)
        /\ F2(c)' <=> fresh /\ t = Forest
        /\ R1(c)' <=> (M2 /\ ~M1) \/ (L1 /\ t = Forest)
        /\ R2(c)' <=> (M2 /\ M1) \/ L1
    <3>1. Frais(c)' <=> fresh
      BY <1>1 DEF Frais, Brulante
    <3> QED
      BY <1>1, <3>1 DEF F1, F2, R1, R2
  <2>3. /\ FeuBit(c)' = Deux(F1(c)', F2(c)')
        /\ ReposBit(c)' = Deux(R1(c)', R2(c)')
    BY <2>1 DEF FeuBit, ReposBit, Deux
  <2>4. FeuVu[c] = Deux(L1, L2) /\ ReposVu[c] = Deux(M1, M2)
    BY <1>4
  <2>5. /\ ~(L1 /\ L2)
        /\ L1 \/ L2 => ~M1 /\ ~M2 /\ t # Water
    BY <1>2 DEF Seuls, Brulante
  <2>6. ~L1 /\ ~L2 => (I <=> pris)
    BY <1>9 DEF Brulante
  <2>7. t \in Terrains
    BY <1>2 DEF WellFormed
  <2> DEFINE A1 == L2 \/ (fresh /\ t = Plain)
             A2 == fresh /\ t = Forest
             B1 == (M2 /\ ~M1) \/ (L1 /\ t = Forest)
             B2 == (M2 /\ M1) \/ L1
  <2>8. FeuBit(c)' = Deux(A1, A2) /\ ReposBit(c)' = Deux(B1, B2)
    <3> HIDE DEF A1, A2, B1, B2
    <3>1. F1(c)' = A1 /\ F2(c)' = A2 /\ R1(c)' = B1 /\ R2(c)' = B2
      BY <2>2 DEF A1, A2, B1, B2, F1, F2, R1, R2
    <3> QED
      BY <2>3, <3>1
  <2> HIDE DEF L1, L2, M1, M2, I, t, pris
  <2>9. Deux(A1, A2) = FeuApres(Deux(L1, L2), Deux(M1, M2), t, pris)
    BY <2>5, <2>6, <2>7 DEF Deux, FeuApres, Terrains, Combustion, Water, Plain, Forest
  <2>10. Deux(B1, B2) = ReposApres(Deux(L1, L2), Deux(M1, M2), t)
    BY <2>5, <2>7 DEF Deux, ReposApres, Terrains, Repos, Water, Plain, Forest
  <2> QED
    BY <2>4, <2>8, <2>9, <2>10 DEF t, pris
<1>11. /\ FeuVu' = [c \in Cells(carte) |->
                      FeuApres(FeuVu[c], ReposVu[c], carte.terrain[c],
                               c \in Ignitions(carte, FeuVu))]
       /\ ReposVu' = [c \in Cells(carte) |->
                        ReposApres(FeuVu[c], ReposVu[c], carte.terrain[c])]
  BY <1>1, <1>3, <1>10 DEF VueBit
<1> QED
  BY <1>1, <1>2, <1>7, <1>11, TourDesRegles

LEMMA BitConforme ==
  ASSUME impl = "bitpack", BitInv, Next
  PROVE  R!Tour \/ UNCHANGED R!vars
<1>1. impl' = impl /\ bitpack!Next
  BY DEF Next
<1>2. BitInv'
  BY <1>1, SuiteBit DEF BitTenu
<1> QED
  BY <1>1, <1>2, PrepareBit, DecideBit, EcritBit DEF bitpack!Next

-----------------------------------------------------------------------------
(* The six together.                                                       *)
TousInv ==
  /\ impl \in Names
  /\ DoubleInv
  /\ impl = "naive" => NaiveInv
  /\ FrontTenu
  /\ BitTenu

LEMMA InitNaive == Init => (impl = "naive" => NaiveInv)
<1> SUFFICES ASSUME Init, impl = "naive" PROVE NaiveInv
  OBVIOUS
<1>1. /\ carte \in MapsDe["naive"] /\ grid = [c \in Cells(carte) |-> ghost!Froide]
      /\ pc = "new" /\ k = 0 /\ cur = ghost!Debut
  BY ContratNaive DEF Init, naive!Init
<1>2. WellFormed(carte)
  BY <1>1, CartesFormees DEF Names
<1>3. ghost!Froide = [feu |-> 0, repos |-> 0] /\ ghost!Froide \in ghost!Cell
  BY DEF ghost!Froide, ghost!Cell
<1>4. cur \in Cells(carte)
  BY <1>1, <1>2, VuesDebut
<1>5. Poses = {} /\ 0 \in 0 .. Len(carte.fires)
  <2>1. 1 .. k = {} /\ Len(carte.fires) \in Nat
    BY <1>1, <1>2 DEF WellFormed
  <2> QED
    BY <2>1 DEF Poses
<1> QED
  BY <1>1, <1>2, <1>3, <1>4, <1>5 DEF NaiveInv, Laissee

LEMMA SuiteNaive ==
  (impl = "naive" => NaiveInv) /\ [Next]_vars => (impl = "naive" => NaiveInv)'
<1> SUFFICES ASSUME impl = "naive" => NaiveInv, [Next]_vars, impl' = "naive"
             PROVE  NaiveInv'
  OBVIOUS
<1>1. CASE Next
  BY <1>1, NaiveAvance DEF Next
<1>2. CASE UNCHANGED vars
  BY <1>2 DEF vars, NaiveInv, Laissee, Poses
<1> QED
  BY <1>1, <1>2

LEMMA InitTous == Init => TousInv
<1>1. Init => impl \in Names
  BY DEF Init, Names
<1> QED
  BY <1>1, InitDouble, InitNaive, InitFront, InitBit DEF TousInv, FrontTenu, BitTenu

LEMMA SuiteTous == TousInv /\ [Next]_vars => TousInv'
<1>1. [Next]_vars => impl' = impl
  BY DEF Next, vars
<1> QED
  BY <1>1, SuiteDouble, SuiteNaive, SuiteFront, SuiteBit DEF TousInv

LEMMA TousTiennent == Spec => []TousInv
  BY InitTous, SuiteTous, PTL DEF Spec

(* Init lays no fire, and the fires of the map are already seen.           *)
LEMMA InitConforme == Init => R!Init
<1> SUFFICES ASSUME Init PROVE R!Init
  OBVIOUS
<1> DEFINE Feux == [c \in Cells(carte) |->
                      IF c \in Foyers(carte) THEN Combustion(carte.terrain[c]) ELSE 0]
           Repos0 == [c \in Cells(carte) |-> 0]
<1>1. TousInv /\ pc = "new"
  BY InitTous DEF Init, naive!Init, flat!Init, counters!CInit, counters!Init, ghost!Init,
                  front!Init, bitpack!Init
<1>2. carte \in ToutesCartes
  BY DEF Init, naive!Init, flat!Init, counters!CInit, counters!Init, ghost!Init, front!Init,
         bitpack!Init, ToutesCartes, Names
<1>3. FeuVu = Feux /\ ReposVu = Repos0
  <2>1. CASE Double
    <3>1. \A c \in Cells(carte) : grid[c].repos = 0
      <4>1. /\ \A c : flat!Cells(c) = Cells(c) /\ counters!Cells(c) = Cells(c)
            /\ flat!Froide = [feu |-> 0, repos |-> 0]
            /\ counters!Froide = [feu |-> 0, repos |-> 0]
            /\ ghost!Froide = [feu |-> 0, repos |-> 0]
        BY DEF flat!Cells, counters!Cells, Cells, flat!Froide, counters!Froide, ghost!Froide
      <4> QED
        BY <2>1, <4>1, ContratGhost
           DEF Double, Init, flat!Init, counters!CInit, counters!Init, ghost!Init
    <3> QED
      BY <1>1, <2>1, <3>1, VuDouble DEF TousInv, DoubleInv
  <2>2. CASE impl = "naive"
    <3>1. naive!Vue = [c \in Cells(carte) |->
                         IF c \in Foyers(carte)
                         THEN [feu |-> Combustion(carte.terrain[c]), repos |-> 0]
                         ELSE [feu |-> 0, repos |-> 0]]
      BY <1>1, ContratNaive DEF naive!Vue, ghost!Froide
    <3> QED
      BY <2>2, <3>1, VuNaive
  <2>3. CASE impl = "front"
    <3>1. VueFront
      BY <1>1, <2>3, VuFront DEF TousInv, FrontTenu
    <3>2. \A c \in Cells(carte) : grid[c].repos = 0
      <4>1. \A c \in Cells(carte) : grid[c] = Laissee(c)
        <5>1. FrontInv
          BY <2>3, <1>1 DEF TousInv, FrontTenu
        <5> QED
          BY <1>1, <5>1 DEF FrontInv
      <4>2. ASSUME NEW c \in Cells(carte)
            PROVE  Laissee(c).repos = 0
        BY DEF Laissee
      <4> QED
        BY <4>1, <4>2
    <3> QED
      BY <1>1, <3>1, <3>2 DEF VueFront, FeuFront, ReposFront, AVieillir
  <2>4. CASE impl = "bitpack"
    <3>1. VueBit
      BY <1>1, <2>4, VuBit DEF TousInv, BitTenu
    <3>2. \A c \in Cells(carte) : ~bitpack!Lit(r1, carte, c) /\ ~bitpack!Lit(r2, carte, c)
      BY <1>1, <2>4 DEF TousInv, BitTenu, BitInv, Poursuit
    <3> QED
      BY <1>1, <3>1, <3>2 DEF VueBit, FeuBit, ReposBit, ADevenir, Deux
  <2> QED
    BY <2>1, <2>2, <2>3, <2>4 DEF Init, Double
<1> QED
  BY <1>2, <1>3, ContratR DEF R!Init, R!FeuInitial, R!ReposInitial

(* A state that does not move shows nothing new.                           *)
LEMMA RienNeBouge == TousInv /\ UNCHANGED vars => UNCHANGED R!vars
<1> SUFFICES ASSUME TousInv, UNCHANGED vars PROVE UNCHANGED R!vars
  OBVIOUS
<1>1. UNCHANGED <<impl, carte, grid, next, ignite, burning, pc, k, cur, marked, active,
                  resting, pending, j, count, f1, f2, r1, r2, source>>
  BY DEF vars, listes, plans
<1>2. FeuVu' = FeuVu /\ ReposVu' = ReposVu
  <2>1. CASE Double
    BY <1>1, <2>1 DEF Double, FeuVu, ReposVu, ghost!FeuVu, ghost!ReposVu
  <2>2. CASE impl = "naive"
    BY <1>1, <2>2 DEF FeuVu, ReposVu, naive!FeuVu, naive!ReposVu, naive!Vue
  <2>3. CASE impl = "front"
    <3>1. FrontInv /\ VueFront
      BY <2>3, VuFront DEF TousInv, FrontTenu
    <3>2. FrontTenu'
      BY SuiteFront DEF TousInv
    <3>3. FrontInv'
      BY <1>1, <2>3, <3>2 DEF FrontTenu
    <3>4. ASSUME NEW c \in Cells(carte)
          PROVE  FeuFront(c)' = FeuFront(c) /\ ReposFront(c)' = ReposFront(c)
      BY <1>1 DEF FeuFront, ReposFront, AVieillir, APrendre, Brulent, ARelire, Depuis
    <3>5. UNCHANGED R!vars
      BY <1>1, <2>3, <3>1, <3>3, <3>4, RienVuFront
    <3> QED
      BY <3>5 DEF R!vars
  <2>4. CASE impl = "bitpack"
    BY <1>1, <2>4 DEF FeuVu, ReposVu, bitpack!FeuVu, bitpack!ReposVu, bitpack!Mots4,
                      bitpack!Apres
  <2> QED
    BY <2>1, <2>2, <2>3, <2>4 DEF TousInv, Names, Double
<1> QED
  BY <1>1, <1>2 DEF R!vars

LEMMA SuiteConforme == TousInv /\ [Next]_vars => [R!Next]_(R!vars)
<1> SUFFICES ASSUME TousInv, [Next]_vars PROVE R!Tour \/ UNCHANGED R!vars
  BY DEF R!Next
<1>1. CASE Next
  <2>1. CASE Double
    BY <1>1, <2>1, DoubleConforme DEF TousInv
  <2>2. CASE impl = "naive"
    BY <1>1, <2>2, NaiveAvance DEF TousInv, Next
  <2>3. CASE impl = "front"
    BY <1>1, <2>3, FrontConforme DEF TousInv, FrontTenu
  <2>4. CASE impl = "bitpack"
    BY <1>1, <2>4, BitConforme DEF TousInv, BitTenu
  <2> QED
    BY <1>1, <2>1, <2>2, <2>3, <2>4 DEF Next, Double
<1>2. CASE UNCHANGED vars
  BY <1>2, RienNeBouge
<1> QED
  BY <1>1, <1>2

(* Every engine Get may return is the rules: whatever the map, its size,   *)
(* its fires and the width of a word, each step of each of the six shows   *)
(* nothing or one turn of the reference implementation.                    *)
THEOREM EnginesConformes == Spec => Conforme
<1>1. TousInv /\ [Next]_vars => [R!Next]_(R!vars)
  BY SuiteConforme
<1>2. Init => R!Init
  BY InitConforme
<1> QED
  BY <1>1, <1>2, TousTiennent, PTL DEF Spec, Conforme, R!Spec

-----------------------------------------------------------------------------
(* Between two Steps Burning answers what a scan of the map would find.    *)
LEMMA ExactEntreDeux == TousInv => Exact
<1> SUFFICES ASSUME TousInv, pc = "idle" PROVE Burning = Scan(FeuVu)
  BY DEF Exact
<1> DEFINE EnFeu == {c \in Cells(carte) : FeuVu[c] > 0}
<1>0. Scan(FeuVu) = Cardinality(EnFeu)
  BY DEF Scan
<1>1. CASE Double
  <2>1. C!FInv
    BY <1>1 DEF TousInv, DoubleInv
  <2>2. FeuVu = [c \in Cells(carte) |-> grid[c].feu]
    BY <1>1, <2>1, VuDouble
  <2>3. CASE impl = "flat"
    BY <2>2, <2>3 DEF Burning
  <2>4. CASE Comptent
    <3>1. burning = C!Cardinality(C!Comptees)
      BY <2>4 DEF TousInv, DoubleInv, C!BInv
    <3>2. C!Comptees = EnFeu
      <4>1. C!Comptees = C!Brulants
        BY DEF C!Comptees
      <4>2. C!Brulants = {c \in Cells(carte) : grid[c].feu > 0}
        BY ContratC DEF C!Brulants
      <4> QED
        BY <2>2, <4>1, <4>2
    <3>3. C!Cardinality(EnFeu) = Cardinality(EnFeu)
      BY DEF C!Cardinality, Cardinality
    <3> QED
      BY <1>0, <2>4, <3>1, <3>2, <3>3 DEF Burning, Comptent
  <2> QED
    BY <1>1, <2>3, <2>4 DEF Double, Comptent
<1>2. CASE impl = "naive"
  <2>1. naive!Vue = grid
    BY DEF naive!Vue
  <2> QED
    BY <1>2, <2>1, VuNaive DEF Burning
<1>3. CASE impl = "front"
  <2>1. FrontInv /\ VueFront
    BY <1>3, VuFront DEF TousInv, FrontTenu
  <2>2. \A c \in Cells(carte) : FeuFront(c) = grid[c].feu
    BY DEF FeuFront, APrendre, AVieillir
  <2>3. EnFeu = Brulent
    BY <2>1, <2>2 DEF VueFront, Brulent
  <2>4. active \in Seq(Cells(carte)) /\ Liste(active, Partout(active), Brulent)
    BY <2>1 DEF FrontInv, FrontType, Listes
  <2>5. Cardinality(Brulent) = Len(active)
    BY <2>4, LongueurListe
  <2> QED
    BY <1>0, <1>3, <2>3, <2>5 DEF Burning
<1>4. CASE impl = "bitpack"
  <2>1. BitInv /\ VueBit
    BY <1>4, VuBit DEF TousInv, BitTenu
  <2>2. \A c \in Cells(carte) : FeuBit(c) > 0 <=> Brulante(c)
    BY DEF FeuBit, ADevenir, Deux, Brulante
  <2>3. EnFeu = Brasier
    BY <2>1, <2>2 DEF VueBit, Brasier
  <2>4. burning = Cardinality(Brasier)
    BY <2>1 DEF BitInv, Compte
  <2> QED
    BY <1>0, <1>4, <2>3, <2>4 DEF Burning
<1> QED
  BY <1>1, <1>2, <1>3, <1>4 DEF TousInv, Names, Double

(* Burning is exact: on every map, between two Steps, what the engine      *)
(* keeps up to date cell by cell, list by list or word by word is the      *)
(* number of its burning cells, on which Run decides to stop.              *)
THEOREM BurningExact == Spec => []Exact
  BY TousTiennent, ExactEntreDeux, PTL
=============================================================================
