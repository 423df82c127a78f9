--------------------------- MODULE CountersProofs ---------------------------
(***************************************************************************)
(* What the engines' common parts guarantee, then that flat implements the *)
(* rules and that counters counts right, on every map of any size.         *)
(***************************************************************************)
EXTENDS Counters, FiniteSetTheorems, TLAPS

(* The durations of a terrain, and which one has none.                     *)
LEMMA Durees ==
  ASSUME NEW t \in Terrains
  PROVE  /\ Combustion(t) \in 0..2 /\ Repos(t) \in 0..3
         /\ Combustion(t) = 0 <=> t = Water
  BY DEF Terrains, Combustion, Repos, Water, Plain, Forest

(* The remainder stays on the ring.                                        *)
LEMMA ModBorne ==
  ASSUME NEW n \in Nat \ {0}, NEW a \in Int
  PROVE  a % n \in 0 .. n-1
  BY Z3

(* The positive modulo always lands on the torus, which is what it is for. *)
LEMMA ModDansAnneau ==
  ASSUME NEW n \in Nat \ {0}, NEW a \in Int
  PROVE  Mod(a, n) \in 0 .. n-1
  BY Z3, ModBorne DEF Mod, Reste

(* Coordinates folded on the torus are those of a cell.                    *)
LEMMA AtSurCarte ==
  ASSUME NEW m, WellFormed(m), NEW x \in Int, NEW y \in Int
  PROVE  At(m, x, y) \in Cells(m)
  BY ModDansAnneau DEF WellFormed, At, Cells

(* A direction moves by one at most on each axis.                          *)
LEMMA Deplacement ==
  ASSUME NEW d \in Directions
  PROVE  Dx(d) \in -1..1 /\ Dy(d) \in -1..1
  BY DEF Directions, Dx, Dy, Offsets

(* The row-major loop starts with nothing behind it,                       *)
LEMMA VuesDebut ==
  ASSUME NEW m, WellFormed(m)
  PROVE  Vues(m, Debut) = {} /\ Debut \in Cells(m)
  BY DEF WellFormed, Vues, Debut, Cells

(* ends with every cell behind it,                                         *)
LEMMA VuesFin ==
  ASSUME NEW m, WellFormed(m)
  PROVE  Vues(m, Fin(m)) = Cells(m)
  BY DEF WellFormed, Vues, Fin, Cells

(* and passes every cell once, in between.                                 *)
LEMMA VuesSuivante ==
  ASSUME NEW m, WellFormed(m), NEW c \in Cells(m)
  PROVE  /\ Suivante(m, c) \in Cells(m) \cup {Fin(m)}
         /\ Vues(m, Suivante(m, c)) = Vues(m, c) \cup {c}
         /\ c \notin Vues(m, c)
<1>1. /\ m.width \in Nat \ {0} /\ m.height \in Nat \ {0}
      /\ c[1] \in 0 .. m.width - 1 /\ c[2] \in 0 .. m.height - 1
      /\ c = <<c[1], c[2]>>
  BY DEF WellFormed, Cells
<1>2. Suivante(m, c) \in Cells(m) \cup {Fin(m)}
  BY <1>1 DEF Suivante, Cells, Fin
<1>3. ASSUME NEW b \in Cells(m)
      PROVE  b \in Vues(m, Suivante(m, c)) <=> b \in Vues(m, c) \cup {c}
  <2>1. /\ b[1] \in 0 .. m.width - 1 /\ b[2] \in 0 .. m.height - 1
        /\ b = <<b[1], b[2]>>
    BY <1>1 DEF Cells
  <2>2. b = c <=> b[1] = c[1] /\ b[2] = c[2]
    BY <1>1, <2>1
  <2>3. CASE c[1] + 1 < m.width
    BY <1>1, <2>1, <2>2, <2>3 DEF Suivante, Vues
  <2>4. CASE ~(c[1] + 1 < m.width)
    BY <1>1, <2>1, <2>2, <2>4 DEF Suivante, Vues
  <2> QED
    BY <2>3, <2>4
<1>4. c \notin Vues(m, c)
  BY <1>1 DEF Vues
<1> QED
  BY <1>2, <1>3, <1>4 DEF Vues

(* A burning cell only ignites cells of the map.                           *)
LEMMA ContagionSurCarte ==
  ASSUME NEW m, WellFormed(m), NEW c \in Cells(m)
  PROVE  Contagion(m, c) \subseteq Cells(m)
<1>1. c[1] \in Int /\ c[2] \in Int /\ m.wind[c] \in 0..8
  BY DEF WellFormed, Cells
<1>2. ASSUME NEW p \in Visees(m, c)
      PROVE  p[1] \in Int /\ p[2] \in Int
  <2>1. CASE \E j \in Directions : p = <<c[1] + Dx(j), c[2] + Dy(j)>>
    BY <1>1, <2>1, Deplacement
  <2>2. CASE Vente(m, c) /\ p = <<c[1] + 2 * Dx(WindAt(m, c)), c[2] + 2 * Dy(WindAt(m, c))>>
    <3>1. WindAt(m, c) \in Directions
      BY <1>1, <2>2 DEF Vente, WindAt, Directions
    <3> QED
      BY <1>1, <2>2, <3>1, Deplacement
  <2> QED
    BY <1>2, <2>1, <2>2 DEF Visees
<1> QED
  BY <1>2, AtSurCarte DEF Contagion

(* The counters of a cell before and after a fire is laid on it.           *)
LEMMA Champs ==
  /\ Froide.feu = 0 /\ Froide.repos = 0
  /\ \A t : Allumee(t).feu = Combustion(t) /\ Allumee(t).repos = 0
  BY DEF Froide, Allumee

(* Ageing a cell, branch by branch: the fire first, then the rest, then    *)
(* the contagion.                                                          *)
LEMMA EvolueCas ==
  ASSUME NEW t \in Terrains, NEW c \in Cell, NEW i \in BOOLEAN
  PROVE  /\ Evolue(t, c, i).feu = IF c.feu > 0 THEN c.feu - 1
                                  ELSE IF c.repos = 0 /\ i THEN Combustion(t) ELSE 0
         /\ Evolue(t, c, i).repos = IF c.feu = 1 THEN Repos(t)
                                    ELSE IF c.feu = 0 /\ c.repos > 0 THEN c.repos - 1
                                    ELSE c.repos
<1>1. Combustion(t) \in 0..2 /\ Repos(t) \in 0..3
  BY Durees
<1>2. c.feu \in 0..2 /\ c.repos \in 0..3 /\ c = [feu |-> c.feu, repos |-> c.repos]
  BY DEF Cell
<1>3. c = Froide <=> c.feu = 0 /\ c.repos = 0
  BY <1>2 DEF Froide
<1> QED
  BY <1>1, <1>2, <1>3 DEF Evolue

(* Ageing a cell gives a cell.                                             *)
LEMMA EvolueType ==
  ASSUME NEW t \in Terrains, NEW c \in Cell, NEW i \in BOOLEAN
  PROVE  Evolue(t, c, i) \in Cell
<1>1. Combustion(t) \in 0..2 /\ Repos(t) \in 0..3
  BY Durees
<1>2. c.feu \in 0..2 /\ c.repos \in 0..3 /\ c = [feu |-> c.feu, repos |-> c.repos]
  BY DEF Cell
<1> QED
  BY <1>1, <1>2 DEF Evolue, Cell, Froide

-----------------------------------------------------------------------------
(* The cells the spread has visited so far that burn.                      *)
Sources(S) == {b \in S : grid[b].feu > 0}
Ignitions(S) == UNION {Contagion(carte, b) : b \in Sources(S)}

(* What is known inside a Step: ignite holds the contagions of the cells   *)
(* the spread has visited, then all of them, and next holds the cells the  *)
(* last loop has visited, aged.  Before, New has laid the first k fires.   *)
Poses == {carte.fires[i] : i \in 1 .. k}
EnNew ==
  pc = "new" => \A c \in Cells(carte) :
    grid[c] = IF c \in Poses THEN Allumee(carte.terrain[c]) ELSE Froide
EnSpread == pc = "spread" => ignite = Ignitions(Vues(carte, cur))
EnApply ==
  pc = "apply" =>
    /\ ignite = Ignitions(Cells(carte))
    /\ \A b \in Vues(carte, cur) :
         next[b] = Evolue(carte.terrain[b], grid[b], b \in ignite)

FInv == TypeOK /\ EnNew /\ EnSpread /\ EnApply

-----------------------------------------------------------------------------
(* Nothing is laid, ignited or aged at first.                              *)
LEMMA InitFInv == Init => FInv
<1> SUFFICES ASSUME Init PROVE FInv
  OBVIOUS
<1>1. WellFormed(carte)
  BY MapsAssumption DEF Init
<1>2. Froide \in Cell
  BY DEF Froide, Cell
<1>3. TypeOK
  <2>1. Len(carte.fires) \in Nat
    BY <1>1 DEF WellFormed
  <2> QED
    BY <1>1, <1>2, <2>1, VuesDebut DEF Init, TypeOK
<1>4. EnNew /\ EnSpread /\ EnApply
  BY DEF Init, EnNew, EnSpread, EnApply, Poses
<1> QED
  BY <1>3, <1>4 DEF FInv

(* New: after one more fire, the grid shows one more fire.                 *)
LEMMA AllumeFInv == FInv /\ Allume => FInv'
<1> SUFFICES ASSUME FInv, Allume PROVE FInv'
  OBVIOUS
<1> DEFINE c == carte.fires[k + 1]
<1>1. WellFormed(carte) /\ Len(carte.fires) \in Nat /\ k \in Nat /\ k < Len(carte.fires)
  BY DEF FInv, TypeOK, WellFormed, Allume
<1>2. c \in Cells(carte) /\ carte.terrain[c] \in Terrains
  BY <1>1 DEF WellFormed
<1>3. /\ k' = k + 1 /\ pc = "new" /\ carte' = carte /\ pc' = pc
      /\ grid' = [grid EXCEPT ![c].feu = Combustion(carte.terrain[c])]
      /\ next' = next /\ ignite' = ignite /\ cur' = cur
  BY DEF Allume
<1>4. Poses' = Poses \cup {c}
  BY <1>1, <1>3 DEF Poses
<1>5. \A b \in Cells(carte) :
        grid[b] = IF b \in Poses THEN Allumee(carte.terrain[b]) ELSE Froide
  BY <1>3 DEF FInv, EnNew
<1>6. grid \in [Cells(carte) -> Cell]
  BY DEF FInv, TypeOK
<1>7. grid'[c] = Allumee(carte.terrain[c])
  BY <1>2, <1>3, <1>5, <1>6 DEF Allumee, Froide
<1>8. Allumee(carte.terrain[c]) \in Cell
  BY <1>2, Durees DEF Allumee, Cell
<1>9. grid' = [grid EXCEPT ![c] = Allumee(carte.terrain[c])]
  BY <1>2, <1>3, <1>6, <1>7
<1>10. TypeOK'
  BY <1>1, <1>2, <1>3, <1>6, <1>8, <1>9 DEF FInv, TypeOK
<1>11. EnNew'
  BY <1>2, <1>3, <1>4, <1>5, <1>6, <1>9 DEF EnNew
<1>12. EnSpread' /\ EnApply'
  BY <1>3 DEF EnSpread, EnApply
<1> QED
  BY <1>10, <1>11, <1>12 DEF FInv

(* New returns with every fire laid.                                       *)
LEMMA PretFInv == FInv /\ Pret => FInv'
  BY DEF FInv, Pret, TypeOK, EnNew, EnSpread, EnApply

(* Step clears the contagions of the previous turn.                        *)
LEMMA StepFInv == FInv /\ Step => FInv'
<1> SUFFICES ASSUME FInv, Step PROVE FInv'
  OBVIOUS
<1>1. TypeOK'
  BY VuesDebut DEF FInv, TypeOK, Step
<1>2. EnSpread'
  <2>1. Vues(carte, Debut) = {}
    BY VuesDebut DEF FInv, TypeOK
  <2> QED
    BY <2>1 DEF Step, EnSpread, Ignitions, Sources
<1>3. EnNew' /\ EnApply'
  BY DEF Step, EnNew, EnApply
<1> QED
  BY <1>1, <1>2, <1>3 DEF FInv

(* One more cell has spread.                                               *)
LEMMA SpreadFInv == FInv /\ Spread => FInv'
<1> SUFFICES ASSUME FInv, Spread PROVE FInv'
  OBVIOUS
<1>1. WellFormed(carte) /\ cur \in Cells(carte) /\ grid[cur].feu \in 0..2
  BY DEF FInv, TypeOK, Spread, Finie, Cell
<1>2. /\ carte' = carte /\ grid' = grid /\ next' = next /\ pc' = pc /\ k' = k
      /\ pc = "spread" /\ cur' = Suivante(carte, cur)
      /\ ignite' = IF grid[cur].feu = 0 THEN ignite
                   ELSE ignite \cup Contagion(carte, cur)
  BY DEF Spread
<1>3. TypeOK'
  BY <1>1, <1>2, VuesSuivante, ContagionSurCarte DEF FInv, TypeOK
<1>4. EnSpread'
  <2>1. Vues(carte, cur') = Vues(carte, cur) \cup {cur}
    BY <1>1, <1>2, VuesSuivante
  <2>2. Sources(Vues(carte, cur')) =
          Sources(Vues(carte, cur)) \cup IF grid[cur].feu = 0 THEN {} ELSE {cur}
    BY <1>1, <2>1 DEF Sources
  <2>3. ignite = Ignitions(Vues(carte, cur))
    BY <1>2 DEF FInv, EnSpread
  <2>4. ignite' = Ignitions(Vues(carte, cur'))
    BY <1>2, <2>2, <2>3 DEF Ignitions
  <2> QED
    BY <1>2, <2>4 DEF EnSpread, Ignitions, Sources
<1>5. EnNew' /\ EnApply'
  BY <1>2 DEF EnNew, EnApply
<1> QED
  BY <1>3, <1>4, <1>5 DEF FInv

(* The spread is complete when the loop ends.                              *)
LEMMA FinSpreadFInv == FInv /\ FinSpread => FInv'
<1> SUFFICES ASSUME FInv, FinSpread PROVE FInv'
  OBVIOUS
<1>1. WellFormed(carte) /\ cur = Fin(carte)
  BY DEF FInv, TypeOK, FinSpread, Finie
<1>2. /\ carte' = carte /\ grid' = grid /\ next' = next /\ ignite' = ignite
      /\ k' = k /\ pc = "spread" /\ pc' = "apply" /\ cur' = Debut
  BY DEF FinSpread
<1>3. TypeOK'
  BY <1>1, <1>2, VuesDebut DEF FInv, TypeOK
<1>4. ignite = Ignitions(Cells(carte))
  BY <1>1, <1>2, VuesFin DEF FInv, EnSpread
<1>5. EnApply'
  BY <1>1, <1>2, <1>4, VuesDebut DEF EnApply, Ignitions, Sources
<1>6. EnNew' /\ EnSpread'
  BY <1>2 DEF EnNew, EnSpread
<1> QED
  BY <1>3, <1>5, <1>6 DEF FInv

(* One more cell of next is written, whatever next held before.            *)
LEMMA ApplyFInv == FInv /\ Apply => FInv'
<1> SUFFICES ASSUME FInv, Apply PROVE FInv'
  OBVIOUS
<1>1. WellFormed(carte) /\ cur \in Cells(carte) /\ carte.terrain[cur] \in Terrains
  BY DEF FInv, TypeOK, Apply, Finie, WellFormed
<1>2. /\ carte' = carte /\ grid' = grid /\ ignite' = ignite /\ k' = k
      /\ pc = "apply" /\ pc' = pc /\ cur' = Suivante(carte, cur)
      /\ next' = [next EXCEPT ![cur] =
                    Evolue(carte.terrain[cur], grid[cur], cur \in ignite)]
  BY DEF Apply
<1>3. grid[cur] \in Cell /\ next \in [Cells(carte) -> Cell]
  BY <1>1 DEF FInv, TypeOK
<1>4. Evolue(carte.terrain[cur], grid[cur], cur \in ignite) \in Cell
  <2>1. (cur \in ignite) \in BOOLEAN
    OBVIOUS
  <2> QED
    BY <1>1, <1>3, <2>1, EvolueType
<1>5. TypeOK'
  BY <1>1, <1>2, <1>3, <1>4, VuesSuivante DEF FInv, TypeOK
<1>6. EnApply'
  <2>1. Vues(carte, cur') = Vues(carte, cur) \cup {cur} /\ cur \notin Vues(carte, cur)
    BY <1>1, <1>2, VuesSuivante
  <2>2. \A b \in Vues(carte, cur) :
          b \in Cells(carte) /\ next[b] = Evolue(carte.terrain[b], grid[b], b \in ignite)
    BY <1>2 DEF FInv, EnApply, Vues
  <2>3. \A b \in Vues(carte, cur') :
          next'[b] = Evolue(carte.terrain[b], grid[b], b \in ignite)
    BY <1>1, <1>2, <1>3, <2>1, <2>2
  <2>4. ignite = Ignitions(Cells(carte))
    BY <1>2 DEF FInv, EnApply
  <2> QED
    BY <1>2, <2>3, <2>4 DEF EnApply, Ignitions, Sources
<1>7. EnNew' /\ EnSpread'
  BY <1>2 DEF EnNew, EnSpread
<1> QED
  BY <1>5, <1>6, <1>7 DEF FInv

(* The swap leaves two buffers of cells.                                   *)
LEMMA SwapFInv == FInv /\ Swap => FInv'
  BY DEF FInv, Swap, TypeOK, EnNew, EnSpread, EnApply

(* Every step preserves the invariant.                                     *)
LEMMA NextFInv == FInv /\ [Next]_vars => FInv'
<1>1. FInv /\ UNCHANGED vars => FInv'
  BY DEF vars, FInv, TypeOK, EnNew, EnSpread, EnApply, Poses, Ignitions, Sources
<1> QED
  BY <1>1, AllumeFInv, PretFInv, StepFInv, SpreadFInv, FinSpreadFInv, ApplyFInv,
     SwapFInv DEF Next

(* On every map the buffers of flat hold cells, and the contagions fall on *)
(* the map: no index leaves its slice.                                     *)
THEOREM TypeCorrect == Spec => []TypeOK
<1>1. Spec => []FInv
  BY InitFInv, NextFInv, PTL DEF Spec
<1>2. FInv => TypeOK
  BY DEF FInv
<1> QED
  BY <1>1, <1>2, PTL

-----------------------------------------------------------------------------
(* The rules and flat share the contract of Fire.                          *)
LEMMA MemeContrat ==
  /\ R!Directions = Directions
  /\ \A m : R!Cells(m) = Cells(m) /\ R!Foyers(m) = Foyers(m)
  /\ \A t : R!Combustion(t) = Combustion(t) /\ R!Repos(t) = Repos(t)
  /\ \A d : R!Dx(d) = Dx(d) /\ R!Dy(d) = Dy(d)
  /\ \A a, n : R!Mod(a, n) = Mod(a, n)
  /\ \A m, x, y : R!At(m, x, y) = At(m, x, y)
  /\ \A m, c : (R!Vente(m, c) <=> Vente(m, c)) /\ R!WindAt(m, c) = WindAt(m, c)
<1>1. R!Directions = Directions
  BY DEF R!Directions, Directions
<1>2. \A m : R!Cells(m) = Cells(m) /\ R!Foyers(m) = Foyers(m)
  BY DEF R!Cells, Cells, R!Foyers, Foyers
<1>3. \A t : R!Combustion(t) = Combustion(t) /\ R!Repos(t) = Repos(t)
  BY DEF R!Combustion, Combustion, R!Repos, Repos, R!Water, Water, R!Plain, Plain,
         R!Forest, Forest
<1>4. \A d : R!Dx(d) = Dx(d) /\ R!Dy(d) = Dy(d)
  BY DEF R!Dx, Dx, R!Dy, Dy, R!Offsets, Offsets
<1>5. \A a, n : R!Mod(a, n) = Mod(a, n)
  BY DEF R!Mod, Mod, R!Reste, Reste
<1>6. \A m, x, y : R!At(m, x, y) = At(m, x, y)
  BY <1>5 DEF R!At, At
<1>7. \A m, c : (R!Vente(m, c) <=> Vente(m, c)) /\ R!WindAt(m, c) = WindAt(m, c)
  BY DEF R!Vente, Vente, R!WindAt, WindAt
<1> QED
  BY <1>1, <1>2, <1>3, <1>4, <1>5, <1>6, <1>7

(* The loops of flat and the enumeration of the reference ignite the same  *)
(* cells.                                                                  *)
LEMMA ContagionEstCibles ==
  ASSUME NEW m, WellFormed(m), NEW c \in Cells(m)
  PROVE  Contagion(m, c) = R!Cibles(m, c)
<1>1. m.wind[c] \in 0..8
  BY DEF WellFormed
<1>2. \A j \in Directions : Epargne(m, c, j) <=> Vente(m, c) /\ R!Amont(j, WindAt(m, c))
  BY MemeContrat DEF Epargne, Secteur, R!Amont
<1>3. Vente(m, c) => WindAt(m, c) \in Directions
  BY <1>1 DEF Vente, WindAt, Directions
<1>4. ASSUME NEW b \in Contagion(m, c) PROVE b \in R!Cibles(m, c)
  <2>1. PICK p \in Visees(m, c) : b = At(m, p[1], p[2])
    BY <1>4 DEF Contagion
  <2>2. CASE p \in {<<c[1] + Dx(j), c[2] + Dy(j)>> : j \in {i \in Directions : ~Epargne(m, c, i)}}
    BY <1>2, <2>1, <2>2, MemeContrat DEF R!Cibles, R!Voisins
  <2>3. CASE Vente(m, c) /\ p = <<c[1] + 2 * Dx(WindAt(m, c)), c[2] + 2 * Dy(WindAt(m, c))>>
    BY <1>3, <2>1, <2>3, MemeContrat DEF R!Cibles, R!Saut
  <2> QED
    BY <2>1, <2>2, <2>3 DEF Visees
<1>5. ASSUME NEW b \in R!Cibles(m, c) PROVE b \in Contagion(m, c)
  <2>1. CASE b \in R!Voisins(m, c)
    <3>1. PICK j \in Directions : /\ ~Epargne(m, c, j)
                                  /\ b = At(m, c[1] + Dx(j), c[2] + Dy(j))
      BY <1>2, <2>1, MemeContrat DEF R!Voisins
    <3>2. <<c[1] + Dx(j), c[2] + Dy(j)>> \in Visees(m, c)
      BY <3>1 DEF Visees
    <3> QED
      BY <3>1, <3>2 DEF Contagion
  <2>2. CASE b \in R!Saut(m, c)
    <3>1. /\ Vente(m, c)
          /\ b = At(m, c[1] + 2 * Dx(WindAt(m, c)), c[2] + 2 * Dy(WindAt(m, c)))
      BY <2>2, MemeContrat DEF R!Saut
    <3>2. <<c[1] + 2 * Dx(WindAt(m, c)), c[2] + 2 * Dy(WindAt(m, c))>> \in Visees(m, c)
      BY <3>1 DEF Visees
    <3> QED
      BY <3>1, <3>2 DEF Contagion
  <2> QED
    BY <1>5, <2>1, <2>2, MemeContrat DEF R!Cibles
<1> QED
  BY <1>4, <1>5

(* The empty grid shows the map's fires while New lays them.               *)
LEMMA InitConforme == Init => R!Init
<1> SUFFICES ASSUME Init PROVE R!Init
  OBVIOUS
<1>1. carte \in Maps /\ pc = "new" /\ grid = [c \in Cells(carte) |-> Froide]
  BY DEF Init
<1> QED
  BY <1>1, MemeContrat DEF R!Init, R!FeuInitial, R!ReposInitial, Froide

(* The end of New shows all the fires, and those only.                     *)
LEMMA PretConforme == FInv /\ Pret => UNCHANGED R!vars
<1> SUFFICES ASSUME FInv, Pret PROVE UNCHANGED R!vars
  OBVIOUS
<1>1. WellFormed(carte) /\ k = Len(carte.fires) /\ pc = "new" /\ pc' = "idle"
      /\ carte' = carte /\ grid' = grid
  BY DEF FInv, TypeOK, Pret
<1>2. Poses = Foyers(carte)
  BY <1>1 DEF Poses, Foyers, WellFormed
<1>3. \A c \in Cells(carte) :
        grid[c].feu = IF c \in Foyers(carte) THEN Combustion(carte.terrain[c]) ELSE 0
  <2>1. \A c \in Cells(carte) :
          grid[c] = IF c \in Poses THEN Allumee(carte.terrain[c]) ELSE Froide
    BY <1>1 DEF FInv, EnNew
  <2> QED
    BY <1>2, <2>1, Champs
<1> QED
  BY <1>1, <1>3 DEF R!vars

(* The swap shows the turn, whole.                                         *)
LEMMA SwapConforme == FInv /\ Swap => R!Tour
<1> SUFFICES ASSUME FInv, Swap PROVE R!Tour
  OBVIOUS
<1>1. WellFormed(carte) /\ cur = Fin(carte) /\ pc = "apply" /\ pc' = "idle"
      /\ carte' = carte /\ grid' = next
  BY DEF FInv, TypeOK, Swap, Finie
<1> DEFINE f == [c \in Cells(carte) |-> grid[c].feu]
           r == [c \in Cells(carte) |-> grid[c].repos]
<1>2. R!Enflammee = ignite
  <2>1. R!EnFeu = Sources(Cells(carte))
    BY <1>1, MemeContrat DEF R!EnFeu, Sources
  <2>2. \A b \in Sources(Cells(carte)) : R!Cibles(carte, b) = Contagion(carte, b)
    BY <1>1, ContagionEstCibles DEF Sources
  <2>3. ignite = Ignitions(Cells(carte))
    BY <1>1 DEF FInv, EnApply
  <2> QED
    BY <2>1, <2>2, <2>3, MemeContrat DEF R!Enflammee, Ignitions
<1>3. ASSUME NEW c \in Cells(carte)
      PROVE  /\ next[c].feu = IF grid[c].feu > 0 THEN grid[c].feu - 1
                             ELSE IF grid[c].repos = 0 /\ c \in ignite
                             THEN Combustion(carte.terrain[c]) ELSE 0
             /\ next[c].repos = IF grid[c].feu = 1 THEN Repos(carte.terrain[c])
                               ELSE IF grid[c].feu = 0 /\ grid[c].repos > 0
                               THEN grid[c].repos - 1 ELSE grid[c].repos
             /\ grid[c].feu \in 0..2 /\ grid[c].repos \in 0..3
             /\ Combustion(carte.terrain[c]) \in 0..2
  <2>1. carte.terrain[c] \in Terrains /\ grid[c] \in Cell
    BY <1>1 DEF WellFormed, FInv, TypeOK
  <2>2. next[c] = Evolue(carte.terrain[c], grid[c], c \in ignite)
    BY <1>1, VuesFin DEF FInv, EnApply
  <2>3. (c \in ignite) \in BOOLEAN
    OBVIOUS
  <2>4. /\ Evolue(carte.terrain[c], grid[c], c \in ignite).feu =
             IF grid[c].feu > 0 THEN grid[c].feu - 1
             ELSE IF grid[c].repos = 0 /\ c \in ignite
             THEN Combustion(carte.terrain[c]) ELSE 0
        /\ Evolue(carte.terrain[c], grid[c], c \in ignite).repos =
             IF grid[c].feu = 1 THEN Repos(carte.terrain[c])
             ELSE IF grid[c].feu = 0 /\ grid[c].repos > 0
             THEN grid[c].repos - 1 ELSE grid[c].repos
    BY <2>1, <2>3, EvolueCas
  <2>5. /\ grid[c].feu \in 0..2 /\ grid[c].repos \in 0..3
        /\ Combustion(carte.terrain[c]) \in 0..2
    BY <2>1, Durees DEF Cell
  <2> QED
    BY <2>2, <2>4, <2>5
<1>4. [c \in Cells(carte) |-> next[c].feu] = R!FeuSuivant
  <2>1. ASSUME NEW c \in Cells(carte)
        PROVE  next[c].feu = R!FeuSuivant[c]
    <3>1. R!FeuSuivant[c] = CASE R!Brule(c) -> grid[c].feu - 1
                              [] R!Prend(c, ignite) -> Combustion(carte.terrain[c])
                              [] OTHER -> grid[c].feu
      BY <1>1, <1>2, MemeContrat DEF R!FeuSuivant
    <3>2. R!Brule(c) <=> grid[c].feu > 0
      BY <1>1, MemeContrat DEF R!Brule
    <3>3. R!Prend(c, ignite) <=> /\ grid[c].feu = 0 /\ grid[c].repos = 0
                                 /\ c \in ignite /\ Combustion(carte.terrain[c]) > 0
      BY <1>1, MemeContrat DEF R!Prend
    <3>4. R!Brule(c) => ~R!Prend(c, ignite)
      BY <3>2, <3>3
    <3>5. R!FeuSuivant[c] = IF R!Brule(c) THEN grid[c].feu - 1
                            ELSE IF R!Prend(c, ignite) THEN Combustion(carte.terrain[c])
                            ELSE grid[c].feu
      BY <3>1, <3>4
    <3> QED
      BY <1>3, <3>2, <3>3, <3>5
  <2> QED
    BY <2>1, MemeContrat DEF R!FeuSuivant
<1>5. [c \in Cells(carte) |-> next[c].repos] = R!ReposSuivant
  <2>1. ASSUME NEW c \in Cells(carte)
        PROVE  next[c].repos = R!ReposSuivant[c]
    <3>1. R!ReposSuivant[c] = CASE R!Brule(c) /\ grid[c].feu = 1 -> Repos(carte.terrain[c])
                                [] R!Repose(c) -> grid[c].repos - 1
                                [] OTHER -> grid[c].repos
      BY <1>1, MemeContrat DEF R!ReposSuivant
    <3>2. R!Brule(c) <=> grid[c].feu > 0
      BY <1>1, MemeContrat DEF R!Brule
    <3>3. R!Repose(c) <=> grid[c].feu = 0 /\ grid[c].repos > 0
      BY <1>1, MemeContrat DEF R!Repose
    <3>4. R!Brule(c) => ~R!Repose(c)
      BY <3>2, <3>3
    <3>5. R!ReposSuivant[c] = IF R!Brule(c) /\ grid[c].feu = 1
                              THEN Repos(carte.terrain[c])
                              ELSE IF R!Repose(c) THEN grid[c].repos - 1
                              ELSE grid[c].repos
      BY <3>1, <3>4
    <3> QED
      BY <1>3, <3>2, <3>3, <3>5
  <2> QED
    BY <2>1, MemeContrat DEF R!ReposSuivant
<1> QED
  BY <1>1, <1>4, <1>5, MemeContrat DEF R!Tour

(* What moves neither the grid nor the end of New shows nothing.           *)
LEMMA ResteInvisible ==
  FInv /\ (Allume \/ Step \/ Spread \/ FinSpread \/ Apply) => UNCHANGED R!vars
<1>1. FInv /\ Allume => UNCHANGED R!vars
  <2> SUFFICES ASSUME FInv, Allume PROVE UNCHANGED R!vars
    OBVIOUS
  <2>1. pc = "new" /\ pc' = "new" /\ carte' = carte
    BY DEF Allume
  <2>2. \A c \in Cells(carte) : grid[c].repos = 0
    BY <2>1, Champs DEF FInv, EnNew
  <2>3. EnNew'
    BY AllumeFInv DEF FInv
  <2>4. \A c \in Cells(carte) : grid'[c].repos = 0
    BY <2>1, <2>3, Champs DEF EnNew
  <2> QED
    BY <2>1, <2>2, <2>4 DEF R!vars
<1>2. Step \/ Spread \/ FinSpread \/ Apply => UNCHANGED R!vars
  BY DEF Step, Spread, FinSpread, Apply, R!vars
<1> QED
  BY <1>1, <1>2

(* On every map, whatever its size, its winds and its fires, every Step of *)
(* flat is one turn of the rules.                                          *)
THEOREM Conformite == Spec => Conforme
<1>1. Spec => []FInv
  BY InitFInv, NextFInv, PTL DEF Spec
<1>2. FInv /\ [Next]_vars => [R!Next]_(R!vars)
  <2>1. UNCHANGED vars => UNCHANGED R!vars
    BY DEF vars, R!vars
  <2> QED
    BY <2>1, PretConforme, SwapConforme, ResteInvisible DEF Next, R!Next
<1> QED
  BY <1>1, <1>2, InitConforme, PTL DEF Spec, Conforme, R!Spec

-----------------------------------------------------------------------------
(* What burning counts: the burning cells of the grid, and while the last  *)
(* loop runs the cells of next it has written, and of grid the others.     *)
Brulants == {c \in Cells(carte) : grid[c].feu > 0}
Melange ==
  {c \in Vues(carte, cur) : next[c].feu > 0}
    \cup {c \in Cells(carte) \ Vues(carte, cur) : grid[c].feu > 0}
Comptees == IF pc = "apply" THEN Melange ELSE Brulants

BInv == FInv /\ burning = Cardinality(Comptees)

(* A map has finitely many cells, and so has what is counted.              *)
LEMMA CartesFinies ==
  ASSUME NEW m, WellFormed(m), NEW S, S \subseteq Cells(m)
  PROVE  IsFiniteSet(S)
<1>1. IsFiniteSet(0 .. m.width - 1) /\ IsFiniteSet(0 .. m.height - 1)
  <2>1. m.width - 1 \in Int /\ m.height - 1 \in Int /\ 0 \in Int
    BY DEF WellFormed
  <2> QED
    BY <2>1, FS_Interval
<1>2. IsFiniteSet(Cells(m))
  BY <1>1, FS_Product DEF Cells
<1> QED
  BY <1>2, FS_Subset

(* In particular what burning counts.                                      *)
LEMMA CompteesFinies == FInv => IsFiniteSet(Comptees)
<1> SUFFICES ASSUME FInv PROVE IsFiniteSet(Comptees)
  OBVIOUS
<1>1. WellFormed(carte)
  BY DEF FInv, TypeOK
<1>2. Comptees \subseteq Cells(carte)
  BY DEF Comptees, Brulants, Melange, Vues
<1> QED
  BY <1>1, <1>2, CartesFinies

(* Nothing burns and nothing is counted before New lays the fires.         *)
LEMMA InitBInv == CInit => BInv
<1> SUFFICES ASSUME CInit PROVE BInv
  OBVIOUS
<1>1. FInv /\ pc = "new" /\ burning = 0 /\ grid = [c \in Cells(carte) |-> Froide]
  BY InitFInv DEF CInit, Init
<1>2. Comptees = {}
  BY <1>1, Champs DEF Comptees, Brulants
<1> QED
  BY <1>1, <1>2, FS_EmptySet DEF BInv

(* New: a fire that already burns keeps its turns, and water adds none.    *)
LEMMA CAllumeBInv == BInv /\ CAllume => BInv'
<1> SUFFICES ASSUME BInv, CAllume PROVE BInv'
  OBVIOUS
<1> DEFINE c == carte.fires[k + 1]
<1>1. /\ FInv /\ FInv' /\ WellFormed(carte) /\ k \in Nat /\ k < Len(carte.fires)
      /\ Len(carte.fires) \in Nat
  BY AllumeFInv DEF BInv, CAllume, FInv, TypeOK, WellFormed, Allume
<1>2. c \in Cells(carte) /\ carte.terrain[c] \in Terrains
  BY <1>1 DEF WellFormed
<1>3. /\ k' = k + 1 /\ pc = "new" /\ carte' = carte /\ pc' = pc
      /\ grid' = [grid EXCEPT ![c].feu = Combustion(carte.terrain[c])]
      /\ burning' = IF grid[c].feu = 0 /\ Combustion(carte.terrain[c]) > 0
                    THEN burning + 1 ELSE burning
  BY DEF CAllume, Allume
<1>4. Combustion(carte.terrain[c]) \in 0..2
  BY <1>2, Durees
<1>5. grid \in [Cells(carte) -> Cell] /\ grid[c].feu \in 0..2
  BY <1>1, <1>2 DEF FInv, TypeOK, Cell
<1>6. grid[c].feu > 0 => grid[c].feu = Combustion(carte.terrain[c])
  <2>1. grid[c] = IF c \in Poses THEN Allumee(carte.terrain[c]) ELSE Froide
    BY <1>1, <1>2, <1>3 DEF FInv, EnNew
  <2> QED
    BY <2>1, Champs
<1>7. /\ grid'[c].feu = Combustion(carte.terrain[c])
      /\ \A b \in Cells(carte) : b # c => grid'[b] = grid[b]
  BY <1>2, <1>3, <1>5 DEF Cell
<1>8. Comptees = Brulants /\ Comptees' = Brulants' /\ burning = Cardinality(Brulants)
  BY <1>3 DEF BInv, Comptees
<1>9. CASE grid[c].feu = 0 /\ Combustion(carte.terrain[c]) > 0
  <2>1. Brulants' = Brulants \cup {c} /\ c \notin Brulants
    BY <1>2, <1>3, <1>7, <1>9 DEF Brulants
  <2> QED
    BY <1>1, <1>3, <1>8, <1>9, <2>1, CompteesFinies, FS_AddElement DEF BInv
<1>10. CASE ~(grid[c].feu = 0 /\ Combustion(carte.terrain[c]) > 0)
  <2>1. grid'[c].feu > 0 <=> grid[c].feu > 0
    BY <1>4, <1>5, <1>6, <1>7, <1>10
  <2>2. Brulants' = Brulants
    BY <1>3, <1>7, <2>1 DEF Brulants
  <2> QED
    BY <1>1, <1>3, <1>8, <1>10, <2>2 DEF BInv
<1> QED
  BY <1>9, <1>10

(* One more cell leaves grid for next, and burning follows it.             *)
LEMMA CApplyBInv == BInv /\ CApply => BInv'
<1> SUFFICES ASSUME BInv, CApply PROVE BInv'
  OBVIOUS
<1> DEFINE t == carte.terrain[cur]
           S == Comptees
<1>1. /\ FInv /\ FInv' /\ WellFormed(carte) /\ cur \in Cells(carte)
      /\ t \in Terrains /\ grid[cur] \in Cell
  BY ApplyFInv DEF BInv, CApply, FInv, TypeOK, WellFormed, Apply, Finie
<1>2. /\ carte' = carte /\ grid' = grid /\ pc = "apply" /\ pc' = pc
      /\ cur' = Suivante(carte, cur)
      /\ next' = [next EXCEPT ![cur] = Evolue(t, grid[cur], cur \in ignite)]
      /\ burning' = IF Eteint THEN burning - 1 ELSE IF Prend THEN burning + 1 ELSE burning
  BY DEF CApply, Apply
<1>3. Vues(carte, cur') = Vues(carte, cur) \cup {cur} /\ cur \notin Vues(carte, cur)
  BY <1>1, <1>2, VuesSuivante
<1>4. /\ S = Melange /\ Comptees' = Melange' /\ burning = Cardinality(S)
      /\ IsFiniteSet(S) /\ burning \in Nat
  BY <1>1, <1>2, CompteesFinies, FS_CardinalityType DEF BInv, Comptees
<1>5. next \in [Cells(carte) -> Cell] /\ Vues(carte, cur) \subseteq Cells(carte)
  BY <1>1 DEF FInv, TypeOK, Vues
<1>6. Comptees' = IF next'[cur].feu > 0 THEN S \cup {cur} ELSE S \ {cur}
  <2>1. /\ next'[cur] = Evolue(t, grid[cur], cur \in ignite)
        /\ \A b \in Vues(carte, cur) : next'[b] = next[b]
    BY <1>1, <1>2, <1>3, <1>5
  <2> QED
    BY <1>1, <1>2, <1>3, <1>4, <1>5, <2>1 DEF Melange
<1>7. cur \in S <=> grid[cur].feu > 0
  BY <1>1, <1>3, <1>4 DEF Melange
<1>8. next'[cur].feu = IF grid[cur].feu > 0 THEN grid[cur].feu - 1
                       ELSE IF grid[cur].repos = 0 /\ cur \in ignite
                       THEN Combustion(t) ELSE 0
  <2>1. (cur \in ignite) \in BOOLEAN
    OBVIOUS
  <2>2. next'[cur] = Evolue(t, grid[cur], cur \in ignite)
    BY <1>1, <1>2, <1>5
  <2>3. Evolue(t, grid[cur], cur \in ignite).feu =
          IF grid[cur].feu > 0 THEN grid[cur].feu - 1
          ELSE IF grid[cur].repos = 0 /\ cur \in ignite THEN Combustion(t) ELSE 0
    BY <1>1, <2>1, EvolueCas
  <2> QED
    BY <2>2, <2>3
<1>9. /\ grid[cur].feu \in 0..2 /\ grid[cur].repos \in 0..3 /\ Combustion(t) \in 0..2
      /\ grid[cur] = Froide <=> (grid[cur].feu = 0 /\ grid[cur].repos = 0)
  BY <1>1, Durees DEF Cell, Froide
<1>10. burning' = Cardinality(Comptees')
  <2>1. CASE Eteint
    <3>1. cur \in S /\ Comptees' = S \ {cur} /\ burning' = burning - 1
      BY <1>2, <1>6, <1>7, <1>8, <2>1 DEF Eteint
    <3> QED
      BY <1>4, <3>1, FS_RemoveElement
  <2>2. CASE Prend
    <3>1. cur \notin S /\ Comptees' = S \cup {cur} /\ burning' = burning + 1
      BY <1>2, <1>6, <1>7, <1>8, <1>9, <2>2 DEF Prend, Eteint
    <3> QED
      BY <1>4, <3>1, FS_AddElement
  <2>3. CASE ~Eteint /\ ~Prend
    <3>1. next'[cur].feu > 0 <=> grid[cur].feu > 0
      BY <1>8, <1>9, <2>3 DEF Eteint, Prend
    <3>2. Comptees' = S /\ burning' = burning
      BY <1>2, <1>6, <1>7, <2>3, <3>1
    <3> QED
      BY <1>4, <3>2
  <2> QED
    BY <2>1, <2>2, <2>3
<1> QED
  BY <1>1, <1>10 DEF BInv

(* The other steps count the same cells in another place.                  *)
LEMMA CAutreBInv == BInv /\ CAutre => BInv'
<1> SUFFICES ASSUME BInv, CAutre PROVE BInv'
  OBVIOUS
<1>1. FInv /\ FInv' /\ WellFormed(carte)
  BY PretFInv, StepFInv, SpreadFInv, FinSpreadFInv, SwapFInv
     DEF BInv, CAutre, FInv, TypeOK
<1>2. Comptees' = Comptees
  <2>1. CASE Pret \/ Step \/ Spread
    BY <2>1 DEF Pret, Step, Spread, Comptees, Brulants
  <2>2. CASE FinSpread
    BY <1>1, <2>2, VuesDebut DEF FinSpread, Comptees, Brulants, Melange
  <2>3. CASE Swap
    <3>1. Vues(carte, cur) = Cells(carte)
      BY <1>1, <2>3, VuesFin DEF Swap, Finie
    <3> QED
      BY <2>3, <3>1 DEF Swap, Comptees, Brulants, Melange
  <2> QED
    BY <2>1, <2>2, <2>3 DEF CAutre
<1> QED
  BY <1>1, <1>2 DEF BInv, CAutre

(* Every step preserves the count.                                         *)
LEMMA NextBInv == BInv /\ [CNext]_cvars => BInv'
<1>1. BInv /\ UNCHANGED cvars => BInv'
  <2> SUFFICES ASSUME BInv, UNCHANGED cvars PROVE BInv'
    OBVIOUS
  <2>1. UNCHANGED vars /\ burning' = burning
    BY DEF cvars, vars
  <2>2. FInv'
    BY <2>1, NextFInv DEF BInv
  <2>3. Comptees' = Comptees
    BY <2>1 DEF vars, Comptees, Brulants, Melange
  <2> QED
    BY <2>1, <2>2, <2>3 DEF BInv
<1> QED
  BY <1>1, CAllumeBInv, CApplyBInv, CAutreBInv DEF CNext

(* Between two Steps, on every map and whatever its list of fires, Burning *)
(* is the number of burning cells.                                         *)
THEOREM ComptageExact == CSpec => []Exact
<1>1. CSpec => []BInv
  BY InitBInv, NextBInv, PTL DEF CSpec
<1>2. BInv => Exact
  BY DEF BInv, Comptees, Brulants, Exact
<1> QED
  BY <1>1, <1>2, PTL

(* And inside a Step it is the number of burning cells the loop has        *)
(* written and has still to read.                                          *)
THEOREM ComptageEnCours == CSpec => []Compte
<1>1. CSpec => []BInv
  BY InitBInv, NextBInv, PTL DEF CSpec
<1>2. BInv => Compte
  BY DEF BInv, Comptees, Melange, Compte
<1> QED
  BY <1>1, <1>2, PTL

(* Counting changes nothing else: counters, like flat, implements the      *)
(* rules on every map.                                                     *)
THEOREM ComptageConforme == CSpec => Conforme
<1>1. CInit => Init
  BY DEF CInit
<1>2. [CNext]_cvars => [Next]_vars
  BY DEF CNext, CAllume, CApply, CAutre, Next, cvars, vars
<1>3. CSpec => Spec
  BY <1>1, <1>2, PTL DEF CSpec, Spec
<1> QED
  BY <1>3, Conformite
=============================================================================
