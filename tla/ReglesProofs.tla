---------------------------- MODULE ReglesProofs ----------------------------
(***************************************************************************)
(* What the rules guarantee on every map, of any size, and over any number *)
(* of turns.                                                               *)
(***************************************************************************)
EXTENDS Chronique, TLAPS

(* The durations of a terrain, and which one has none.                     *)
LEMMA Durees ==
  ASSUME NEW t \in Terrains
  PROVE  /\ Combustion(t) \in 0..2 /\ Repos(t) \in 0..3
         /\ Combustion(t) = 0 <=> t = Water
  BY DEF Terrains, Combustion, Repos, Water, Plain, Forest

(* Facts on the remainder, for the torus.                                  *)
LEMMA ModPetit ==
  ASSUME NEW n \in Nat \ {0}, NEW a \in 0 .. n - 1
  PROVE  a % n = a
  BY Z3

(* The remainder of a number one turn above the ring.                      *)
LEMMA ModPlus ==
  ASSUME NEW n \in Nat \ {0}, NEW a \in n .. 2 * n - 1
  PROVE  a % n = a - n
  BY Z3

(* The remainder stays on the ring.                                        *)
LEMMA ModBorne ==
  ASSUME NEW n \in Nat \ {0}, NEW a \in Int
  PROVE  a % n \in 0 .. n-1
  BY Z3

(* The positive modulo always lands on the torus, which is what it is for. *)
LEMMA ModDansAnneau ==
  ASSUME NEW n \in Nat \ {0}, NEW a \in Int
  PROVE  Mod(a, n) \in 0 .. n-1
  BY Z3, ModBorne DEF Mod, Reste

(* The inductive invariant of the counters.                                *)
IInv == TypeOK /\ Compteurs

(* The initial state satisfies the invariant.                              *)
LEMMA InitIInv == Init => IInv
<1> SUFFICES ASSUME Init PROVE IInv
  OBVIOUS
<1>1. WellFormed(carte)
  BY MapsAssumption DEF Init
<1>2. \A c \in Cells(carte) : /\ FeuInitial(carte)[c] \in {0, Combustion(carte.terrain[c])}
                              /\ Combustion(carte.terrain[c]) \in 0..2
                              /\ Repos(carte.terrain[c]) \in 0..3
  BY <1>1, Durees DEF FeuInitial, WellFormed
<1>3. TypeOK
  BY <1>1, <1>2 DEF TypeOK, Init, FeuInitial, ReposInitial
<1>4. Compteurs
  BY <1>2, <1>3 DEF Compteurs, Init, ReposInitial
<1> QED
  BY <1>3, <1>4 DEF IInv

(* What one turn does to one cell, the three branches side by side.        *)
LEMMA UneCase ==
  ASSUME TypeOK, Tour, NEW c \in Cells(carte)
  PROVE  /\ feu'[c] = IF feu[c] > 0 THEN feu[c] - 1
                      ELSE IF Prend(c, Enflammee) THEN Combustion(carte.terrain[c])
                      ELSE 0
         /\ repos'[c] = IF feu[c] = 1 THEN Repos(carte.terrain[c])
                        ELSE IF feu[c] = 0 /\ repos[c] > 0 THEN repos[c] - 1
                        ELSE repos[c]
<1>1. feu[c] \in 0..2 /\ repos[c] \in 0..3
  BY DEF TypeOK
<1>2. feu'[c] = CASE Brule(c) -> feu[c] - 1
                  [] Prend(c, Enflammee) -> Combustion(carte.terrain[c])
                  [] OTHER -> feu[c]
  BY DEF Tour, FeuSuivant
<1>3. repos'[c] = CASE Brule(c) /\ feu[c] = 1 -> Repos(carte.terrain[c])
                    [] Repose(c) -> repos[c] - 1
                    [] OTHER -> repos[c]
  BY DEF Tour, ReposSuivant
<1>4. Brule(c) => ~Prend(c, Enflammee) /\ ~Repose(c)
  BY <1>1 DEF Brule, Prend, Repose
<1>5. feu'[c] = IF feu[c] > 0 THEN feu[c] - 1
                ELSE IF Prend(c, Enflammee) THEN Combustion(carte.terrain[c])
                ELSE 0
  BY <1>1, <1>2, <1>4 DEF Brule
<1>6. repos'[c] = IF feu[c] = 1 THEN Repos(carte.terrain[c])
                  ELSE IF feu[c] = 0 /\ repos[c] > 0 THEN repos[c] - 1
                  ELSE repos[c]
  BY <1>1, <1>3, <1>4 DEF Brule, Repose
<1> QED
  BY <1>5, <1>6

(* A turn preserves it: of the two counters of a cell, one at most moves.  *)
LEMMA TourIInv == IInv /\ [Next]_vars => IInv'
<1> SUFFICES ASSUME IInv, [Next]_vars PROVE IInv'
  OBVIOUS
<1> USE DEF IInv
<1>1. CASE Tour
  <2>1. carte' = carte /\ WellFormed(carte)
    BY <1>1 DEF Tour, TypeOK
  <2>2. DOMAIN feu' = Cells(carte) /\ DOMAIN repos' = Cells(carte)
    BY <1>1 DEF Tour, FeuSuivant, ReposSuivant
  <2>3. ASSUME NEW c \in Cells(carte)
        PROVE  /\ feu'[c] \in 0..2 /\ repos'[c] \in 0..3
               /\ feu'[c] <= Combustion(carte.terrain[c])
               /\ repos'[c] <= Repos(carte.terrain[c])
               /\ ~(feu'[c] > 0 /\ repos'[c] > 0)
    <3>1. /\ Combustion(carte.terrain[c]) \in 0..2
          /\ Repos(carte.terrain[c]) \in 0..3
      BY <2>1, Durees DEF WellFormed
    <3>2. /\ feu[c] \in 0..2 /\ repos[c] \in 0..3
          /\ feu[c] <= Combustion(carte.terrain[c])
          /\ repos[c] <= Repos(carte.terrain[c])
          /\ ~(feu[c] > 0 /\ repos[c] > 0)
      BY DEF TypeOK, Compteurs
    <3>3. Prend(c, Enflammee) => repos[c] = 0
      BY DEF Prend
    <3> QED
      BY <1>1, <3>1, <3>2, <3>3, UneCase
  <2>4. feu' = FeuSuivant /\ repos' = ReposSuivant
    BY <1>1 DEF Tour
  <2>5. TypeOK'
    <3>1. feu' \in [Cells(carte) -> 0..2]
      BY <2>3, <2>4 DEF FeuSuivant
    <3>2. repos' \in [Cells(carte) -> 0..3]
      BY <2>3, <2>4 DEF ReposSuivant
    <3> QED
      BY <2>1, <3>1, <3>2 DEF TypeOK
  <2>6. Compteurs'
    BY <2>1, <2>3 DEF Compteurs
  <2> QED
    BY <2>5, <2>6
<1>2. CASE UNCHANGED vars
  BY <1>2 DEF vars, TypeOK, Compteurs
<1> QED
  BY <1>1, <1>2 DEF Next

(* On every map the state keeps its type.                                  *)
THEOREM TypeCorrect == Spec => []TypeOK
<1>1. Spec => []IInv
  BY InitIInv, TourIInv, PTL DEF Spec
<1>2. IInv => TypeOK
  BY DEF IInv
<1> QED
  BY <1>1, <1>2, PTL

(* On every map the counters stay within the durations of the terrain, so  *)
(* that water never burns, and no cell both burns and rests.               *)
THEOREM CompteursCorrects == Spec => []Compteurs
<1>1. Spec => []IInv
  BY InitIInv, TourIInv, PTL DEF Spec
<1>2. IInv => Compteurs
  BY DEF IInv
<1> QED
  BY <1>1, <1>2, PTL

-----------------------------------------------------------------------------
(* A displacement of at most p moves by at most p on the ring, whatever its *)
(* size: even when it wraps, or wraps twice on a ring of one or two cells. *)
LEMMA EcartMod ==
  ASSUME NEW n \in Nat \ {0}, NEW x \in 0 .. n - 1, NEW p \in {1, 2},
         NEW d \in -p .. p
  PROVE  Ecart(x, Mod(x + d, n), n) <= p
<1>1. Mod(x + d, n) \in 0 .. n - 1
  BY ModDansAnneau
<1>2. CASE n <= 2 * p
  BY <1>1, <1>2 DEF Ecart
<1>3. CASE n > 2 * p
  <2>1. CASE x + d \in 0 .. n - 1
    <3>1. Mod(x + d, n) = x + d
      BY <2>1, ModPetit DEF Mod, Reste
    <3> QED
      BY <3>1, <1>3 DEF Ecart
  <2>2. CASE x + d >= n
    <3>1. Mod(x + d, n) = x + d - n
      BY <2>2, <1>3, ModPlus DEF Mod, Reste
    <3> QED
      BY <3>1, <1>3, <2>2 DEF Ecart
  <2>3. CASE x + d < 0
    <3>1. -(x + d) \in 0 .. n - 1 /\ -(x + d) # 0
      BY <2>3, <1>3
    <3>2. (-(x + d)) % n = -(x + d)
      BY <3>1, ModPetit
    <3>3. Mod(x + d, n) = x + d + n
      BY <2>3, <3>1, <3>2 DEF Mod, Reste
    <3> QED
      BY <3>3, <1>3, <2>3 DEF Ecart
  <2> QED
    BY <2>1, <2>2, <2>3
<1> QED
  BY <1>2, <1>3

(* The cells a burning cell ignites are on the map and within its reach.   *)
LEMMA CiblesAPortee ==
  ASSUME NEW m, WellFormed(m), NEW c \in Cells(m), NEW b \in Cibles(m, c)
  PROVE  b \in Cells(m) /\ APortee(m, c, b)
<1>1. /\ m.width \in Nat \ {0} /\ m.height \in Nat \ {0}
      /\ c[1] \in 0 .. m.width - 1 /\ c[2] \in 0 .. m.height - 1
  BY DEF WellFormed, Cells
<1>2. \A d \in Directions : Dx(d) \in -1..1 /\ Dy(d) \in -1..1
  BY DEF Directions, Dx, Dy, Offsets
<1>3. ASSUME NEW dx \in Int, NEW dy \in Int, NEW p \in {1, 2},
             dx \in -p .. p, dy \in -p .. p,
             b = At(m, c[1] + dx, c[2] + dy), Vente(m, c) \/ p = 1
      PROVE  b \in Cells(m) /\ APortee(m, c, b)
  <2>1. b[1] = Mod(c[1] + dx, m.width) /\ b[2] = Mod(c[2] + dy, m.height)
    BY <1>3 DEF At
  <2>2. b \in Cells(m)
    BY <1>1, <1>3, ModDansAnneau DEF At, Cells
  <2>3. /\ Ecart(c[1], b[1], m.width) <= p
        /\ Ecart(c[2], b[2], m.height) <= p
    BY <1>1, <1>3, <2>1, EcartMod
  <2>4. /\ Ecart(c[1], b[1], m.width) \in Int
        /\ Ecart(c[2], b[2], m.height) \in Int
    BY <1>1, <2>2 DEF Ecart, Cells
  <2> QED
    BY <1>3, <2>2, <2>3, <2>4 DEF APortee
<1>4. CASE b \in Voisins(m, c)
  <2>1. PICK j \in Directions : b = At(m, c[1] + Dx(j), c[2] + Dy(j))
    BY <1>4 DEF Voisins
  <2> QED
    BY <1>2, <1>3, <2>1
<1>5. CASE b \in Saut(m, c)
  <2>1. PICK d \in Directions : /\ b = At(m, c[1] + 2 * Dx(d), c[2] + 2 * Dy(d))
                                /\ Vente(m, c)
    BY <1>5 DEF Saut
  <2>2. 2 * Dx(d) \in -2..2 /\ 2 * Dy(d) \in -2..2
    BY <1>2
  <2> QED
    BY <1>3, <2>1, <2>2
<1> QED
  BY <1>4, <1>5 DEF Cibles

(* Nothing burns outside such a region at the start.                       *)
LEMMA InitContenu == Init => Confinement
  BY MapsAssumption
     DEF Init, Confinement, FeuInitial, ReposInitial, WellFormed

(* A turn does not cross the water around it.                              *)
LEMMA TourContenu == IInv /\ Confinement /\ [Next]_vars => Confinement'
<1> SUFFICES ASSUME IInv, Confinement, [Next]_vars PROVE Confinement'
  OBVIOUS
<1>1. CASE Tour
  <2>1. carte' = carte
    BY <1>1 DEF Tour
  <2>2. SUFFICES ASSUME NEW S \in SUBSET Cells(carte), Isolee(carte, S),
                        Foyers(carte) \subseteq S, NEW c \in Cells(carte) \ S
                 PROVE  feu'[c] = 0 /\ repos'[c] = 0
    BY <2>1 DEF Confinement
  <2>3. feu[c] = 0 /\ repos[c] = 0
    BY <2>2 DEF Confinement
  <2>4. ~Prend(c, Enflammee)
    <3> SUFFICES ASSUME Prend(c, Enflammee) PROVE FALSE
      OBVIOUS
    <3>1. PICK b \in EnFeu : c \in Cibles(carte, b)
      BY DEF Prend, Enflammee
    <3>2. b \in Cells(carte) /\ feu[b] > 0
      BY <3>1 DEF EnFeu
    <3>3. b \in S
      BY <2>2, <3>2 DEF Confinement
    <3>4. b \in Combustibles(carte)
      <4>1. feu[b] \in 0..2 /\ feu[b] <= Combustion(carte.terrain[b])
        BY <3>2 DEF IInv, TypeOK, Compteurs
      <4>2. carte.terrain[b] \in Terrains
        BY <3>2 DEF IInv, TypeOK, WellFormed
      <4> QED
        BY <3>2, <4>1, <4>2, Durees DEF Combustibles
    <3>5. c \in Combustibles(carte)
      <4>1. carte.terrain[c] \in Terrains
        BY <2>2 DEF IInv, TypeOK, WellFormed
      <4> QED
        BY <4>1, Durees DEF Prend, Combustibles
    <3>6. APortee(carte, b, c)
      BY <3>1, <3>2, CiblesAPortee DEF IInv, TypeOK
    <3> QED
      BY <2>2, <3>3, <3>4, <3>5, <3>6 DEF Isolee
  <2> QED
    BY <1>1, <2>3, <2>4, UneCase DEF IInv
<1>2. CASE UNCHANGED vars
  BY <1>2 DEF vars, Confinement
<1> QED
  BY <1>1, <1>2 DEF Next

(* On every map, a region that holds every initial fire and has water      *)
(* around it, one cell wide where no wind blows and two where it does,     *)
(* confines the fire for ever.                                             *)
THEOREM ConfinementTenu == Spec => []Confinement
<1>1. Spec => []IInv
  BY InitIInv, TourIInv, PTL DEF Spec
<1> QED
  BY <1>1, InitContenu, TourContenu, PTL DEF Spec

-----------------------------------------------------------------------------
(* The observer's memory: a date is not in the future.                     *)
Dates ==
  /\ tour \in Nat
  /\ prise \in [Cells(carte) -> Int]
  /\ \A c \in Cells(carte) : prise[c] = Jamais \/ prise[c] \in 0 .. tour

HInv == IInv /\ Dates /\ Horloge

(* A cell that burns at the start caught fire at turn 0.                   *)
LEMMA InitHInv == CInit => HInv
<1> SUFFICES ASSUME CInit PROVE HInv
  OBVIOUS
<1>1. IInv
  BY InitIInv DEF CInit
<1>2. \A c \in Cells(carte) : /\ feu[c] \in {0, Combustion(carte.terrain[c])}
                              /\ feu[c] \in 0..2 /\ repos[c] = 0
  BY <1>1 DEF CInit, Init, FeuInitial, ReposInitial, IInv, TypeOK
<1>3. Dates
  BY DEF CInit, Dates, Jamais
<1>4. Horloge
  BY <1>1, <1>2 DEF CInit, Horloge, Jamais, IInv, Compteurs
<1> QED
  BY <1>1, <1>3, <1>4 DEF HInv

(* The date of a cell after a turn.                                        *)
LEMMA UneDate ==
  ASSUME HInv, CTour, NEW c \in Cells(carte)
  PROVE  /\ tour' = tour + 1 /\ carte' = carte
         /\ prise'[c] = IF feu[c] = 0 /\ feu'[c] > 0 THEN tour + 1 ELSE prise[c]
  BY DEF CTour, Tour

(* A turn moves every clock by one.                                        *)
LEMMA TourHInv == HInv /\ [CTour]_cvars => HInv'
<1> SUFFICES ASSUME HInv, [CTour]_cvars PROVE HInv'
  OBVIOUS
<1>1. CASE CTour
  <2>1. Tour /\ carte' = carte /\ tour' = tour + 1 /\ tour \in Nat
    BY <1>1 DEF CTour, Tour, HInv, Dates
  <2>2. IInv'
    BY <2>1, TourIInv DEF HInv, Next
  <2>3. ASSUME NEW c \in Cells(carte)
        PROVE  prise'[c] = Jamais \/ prise'[c] \in 0 .. tour + 1
    BY <1>1, <2>1, UneDate DEF HInv, Dates, Jamais
  <2>4. Dates'
    <3>1. prise' \in [Cells(carte) -> Int]
      BY <1>1, <2>1 DEF CTour, HInv, Dates
    <3> QED
      BY <2>1, <2>3, <3>1 DEF Dates
  <2>5. ASSUME NEW c \in Cells(carte)
        PROVE  LET age  == tour' - prise'[c]
                   brul == Combustion(carte.terrain[c])
                   dort == Repos(carte.terrain[c])
               IN  IF prise'[c] = Jamais
                   THEN feu'[c] = 0 /\ repos'[c] = 0
                   ELSE IF age < brul THEN feu'[c] = brul - age /\ repos'[c] = 0
                   ELSE IF age < brul + dort
                        THEN feu'[c] = 0 /\ repos'[c] = brul + dort - age
                   ELSE feu'[c] = 0 /\ repos'[c] = 0
    <3> DEFINE age  == tour - prise[c]
               brul == Combustion(carte.terrain[c])
               dort == Repos(carte.terrain[c])
    <3>1. /\ brul \in 0..2 /\ dort \in 0..3
          /\ feu[c] \in 0..2 /\ repos[c] \in 0..3
          /\ prise[c] \in Int /\ (prise[c] = Jamais \/ prise[c] \in 0 .. tour)
      <4>1. carte.terrain[c] \in Terrains
        BY DEF HInv, IInv, TypeOK, WellFormed
      <4> QED
        BY <4>1, Durees DEF HInv, IInv, TypeOK, Dates
    <3>2. IF prise[c] = Jamais
          THEN feu[c] = 0 /\ repos[c] = 0
          ELSE IF age < brul THEN feu[c] = brul - age /\ repos[c] = 0
          ELSE IF age < brul + dort THEN feu[c] = 0 /\ repos[c] = brul + dort - age
          ELSE feu[c] = 0 /\ repos[c] = 0
      BY DEF HInv, Horloge
    <3>3. /\ feu'[c] = IF feu[c] > 0 THEN feu[c] - 1
                       ELSE IF Prend(c, Enflammee) THEN brul ELSE 0
          /\ repos'[c] = IF feu[c] = 1 THEN dort
                         ELSE IF feu[c] = 0 /\ repos[c] > 0 THEN repos[c] - 1
                         ELSE repos[c]
      BY <2>1, UneCase DEF HInv, IInv
    <3>4. Prend(c, Enflammee) => feu[c] = 0 /\ repos[c] = 0 /\ brul > 0
      BY DEF Prend
    <3>5. prise'[c] = IF feu[c] = 0 /\ feu'[c] > 0 THEN tour + 1 ELSE prise[c]
      BY <1>1, UneDate
    <3>6. CASE feu[c] > 0
      BY <2>1, <3>1, <3>2, <3>3, <3>5, <3>6 DEF Jamais
    <3>7. CASE feu[c] = 0 /\ repos[c] > 0
      <4>1. feu'[c] = 0 /\ repos'[c] = repos[c] - 1 /\ prise'[c] = prise[c]
        BY <3>1, <3>3, <3>4, <3>5, <3>7
      <4> QED
        BY <2>1, <3>1, <3>2, <3>7, <4>1 DEF Jamais
    <3>8. CASE Prend(c, Enflammee)
      <4>1. feu'[c] = brul /\ repos'[c] = 0 /\ prise'[c] = tour + 1
        BY <3>1, <3>3, <3>4, <3>5, <3>8
      <4> QED
        BY <2>1, <3>1, <3>4, <3>8, <4>1 DEF Jamais
    <3>9. CASE feu[c] = 0 /\ repos[c] = 0 /\ ~Prend(c, Enflammee)
      <4>1. feu'[c] = 0 /\ repos'[c] = 0 /\ prise'[c] = prise[c]
        BY <3>1, <3>3, <3>5, <3>9
      <4> QED
        BY <2>1, <3>1, <3>2, <3>9, <4>1 DEF Jamais
    <3> QED
      BY <3>1, <3>4, <3>6, <3>7, <3>8, <3>9
  <2>6. Horloge'
    BY <2>1, <2>5 DEF Horloge
  <2> QED
    BY <2>2, <2>4, <2>6 DEF HInv
<1>2. CASE UNCHANGED cvars
  BY <1>2 DEF cvars, HInv, IInv, TypeOK, Compteurs, Dates, Horloge
<1> QED
  BY <1>1, <1>2

(* On every map and at every turn, the two counters of a cell say exactly  *)
(* how long ago it caught fire: no contagion prolongs, restarts or cuts    *)
(* short a fire or a rest.                                                 *)
THEOREM HorlogeJuste == CSpec => []Horloge
<1>1. CSpec => []HInv
  BY InitHInv, TourHInv, PTL DEF CSpec
<1>2. HInv => Horloge
  BY DEF HInv
<1> QED
  BY <1>1, <1>2, PTL

-----------------------------------------------------------------------------
(* The distance on a ring is a natural number, and that of a cell to       *)
(* itself is nothing.                                                      *)
LEMMA EcartType ==
  ASSUME NEW n \in Nat \ {0}, NEW a \in 0 .. n - 1, NEW b \in 0 .. n - 1
  PROVE  /\ Ecart(a, b, n) \in Nat /\ Ecart(a, a, n) = 0
         /\ Ecart(a, b, n) = Ecart(b, a, n)
  BY DEF Ecart

(* Going through a third cell is never shorter.                            *)
LEMMA EcartTriangle ==
  ASSUME NEW n \in Nat \ {0}, NEW a \in 0 .. n - 1, NEW b \in 0 .. n - 1,
         NEW c \in 0 .. n - 1
  PROVE  Ecart(a, c, n) <= Ecart(a, b, n) + Ecart(b, c, n)
  BY DEF Ecart

(* A cell that catches fire in a turn is within reach of one that burns,   *)
(* and that one has caught fire before.                                    *)
LEMMA VientDeQuelquePart ==
  ASSUME HInv, Tour, NEW b \in Cells(carte), feu[b] = 0, feu'[b] > 0
  PROVE  \E c \in Cells(carte) :
           feu[c] > 0 /\ prise[c] \in 0 .. tour /\ APortee(carte, c, b)
<1>1. feu[b] \in 0..2 /\ IInv /\ WellFormed(carte)
  BY DEF HInv, IInv, TypeOK
<1>2. Prend(b, Enflammee)
  BY <1>1, UneCase DEF IInv
<1>3. PICK c \in EnFeu : b \in Cibles(carte, c)
  BY <1>2 DEF Prend, Enflammee
<1>4. c \in Cells(carte) /\ feu[c] > 0
  BY <1>3 DEF EnFeu
<1>5. APortee(carte, c, b)
  BY <1>1, <1>3, <1>4, CiblesAPortee
<1>6. prise[c] # Jamais
  BY <1>4 DEF HInv, Horloge
<1>7. prise[c] \in 0 .. tour
  BY <1>4, <1>6 DEF HInv, Dates
<1> QED
  BY <1>4, <1>5, <1>7

(* The fire begins at the fires.                                           *)
LEMMA InitCone == CInit => Cone
<1> SUFFICES ASSUME CInit PROVE Cone
  OBVIOUS
<1>1. WellFormed(carte)
  BY MapsAssumption DEF CInit, Init
<1>2. ASSUME NEW c \in Cells(carte), prise[c] # Jamais
      PROVE  prise[c] = 0 /\ c \in Foyers(carte)
  BY <1>2 DEF CInit, Init, FeuInitial, Jamais
<1>3. ASSUME NEW c \in Cells(carte)
      PROVE  Ecart(c[1], c[1], carte.width) = 0 /\ Ecart(c[2], c[2], carte.height) = 0
  BY <1>1, EcartType DEF WellFormed, Cells
<1> QED
  BY <1>2, <1>3 DEF Cone

(* A turn widens the cone by the reach of the cells that burn.             *)
LEMMA TourCone == HInv /\ Cone /\ [CTour]_cvars => Cone'
<1> SUFFICES ASSUME HInv, Cone, CTour PROVE Cone'
  BY DEF cvars, Cone, SansVent
<1> DEFINE v == IF SansVent(carte) THEN 1 ELSE 2
<1>1. Tour /\ carte' = carte /\ tour' = tour + 1 /\ tour \in Nat /\ WellFormed(carte)
  BY DEF CTour, Tour, HInv, Dates, IInv, TypeOK
<1>2. SUFFICES ASSUME NEW b \in Cells(carte), prise'[b] # Jamais
               PROVE  \E f \in Foyers(carte) :
                        /\ Ecart(f[1], b[1], carte.width) <= v * prise'[b]
                        /\ Ecart(f[2], b[2], carte.height) <= v * prise'[b]
  BY <1>1 DEF Cone
<1>3. CASE ~(feu[b] = 0 /\ feu'[b] > 0)
  <2>1. prise'[b] = prise[b]
    BY <1>3, UneDate
  <2> QED
    BY <1>2, <2>1 DEF Cone
<1>4. CASE feu[b] = 0 /\ feu'[b] > 0
  <2>1. prise'[b] = tour + 1
    BY <1>4, UneDate
  <2>2. PICK c \in Cells(carte) : prise[c] \in 0 .. tour /\ APortee(carte, c, b)
    BY <1>1, <1>4, VientDeQuelquePart
  <2>3. PICK f \in Foyers(carte) : /\ Ecart(f[1], c[1], carte.width) <= v * prise[c]
                                   /\ Ecart(f[2], c[2], carte.height) <= v * prise[c]
    BY <2>2 DEF Cone, Jamais
  <2>4. f \in Cells(carte)
    BY <1>1 DEF Foyers, WellFormed
  <2>5. /\ carte.width \in Nat \ {0} /\ carte.height \in Nat \ {0}
        /\ b[1] \in 0 .. carte.width - 1 /\ b[2] \in 0 .. carte.height - 1
        /\ c[1] \in 0 .. carte.width - 1 /\ c[2] \in 0 .. carte.height - 1
        /\ f[1] \in 0 .. carte.width - 1 /\ f[2] \in 0 .. carte.height - 1
    BY <1>1, <2>4 DEF WellFormed, Cells
  <2>6. /\ Ecart(c[1], b[1], carte.width) <= v /\ Ecart(c[2], b[2], carte.height) <= v
    <3>1. Vente(carte, c) => ~SansVent(carte)
      <4>1. carte.wind[c] \in 0..8
        BY <1>1 DEF WellFormed
      <4> QED
        BY <4>1 DEF SansVent, Vente
    <3>2. Ecart(c[1], b[1], carte.width) \in Nat /\ Ecart(c[2], b[2], carte.height) \in Nat
      BY <2>5, EcartType
    <3> QED
      BY <2>2, <3>1, <3>2 DEF APortee
  <2>7. /\ Ecart(f[1], b[1], carte.width) <= v * (tour + 1)
        /\ Ecart(f[2], b[2], carte.height) <= v * (tour + 1)
    <3>1. /\ Ecart(f[1], b[1], carte.width)
               <= Ecart(f[1], c[1], carte.width) + Ecart(c[1], b[1], carte.width)
          /\ Ecart(f[2], b[2], carte.height)
               <= Ecart(f[2], c[2], carte.height) + Ecart(c[2], b[2], carte.height)
      BY <2>5, EcartTriangle
    <3>2. /\ Ecart(f[1], b[1], carte.width) \in Nat /\ Ecart(f[1], c[1], carte.width) \in Nat
          /\ Ecart(c[1], b[1], carte.width) \in Nat /\ Ecart(f[2], b[2], carte.height) \in Nat
          /\ Ecart(f[2], c[2], carte.height) \in Nat
          /\ Ecart(c[2], b[2], carte.height) \in Nat
      BY <2>5, EcartType
    <3>3. prise[c] \in 0 .. tour /\ v \in {1, 2}
      BY <2>2
    <3> HIDE DEF v
    <3>4. v * prise[c] + v <= v * (tour + 1) /\ v * prise[c] \in Nat /\ v * (tour + 1) \in Nat
      BY <1>1, <3>3
    <3> QED
      BY <2>3, <2>6, <3>1, <3>2, <3>3, <3>4
  <2> QED
    BY <2>1, <2>7
<1> QED
  BY <1>3, <1>4

(* The fire never advances faster than one cell a turn, two with winds:    *)
(* every cell that has burnt lies in the cone of an initial fire.          *)
THEOREM ConeTenu == CSpec => []Cone
<1>1. CSpec => []HInv
  BY InitHInv, TourHInv, PTL DEF CSpec
<1> QED
  BY <1>1, InitCone, TourCone, PTL DEF CSpec

-----------------------------------------------------------------------------
(* The cells at most t away from an initial fire.                          *)
Atteinte(c, t) ==
  \E f \in Foyers(carte) : /\ Ecart(f[1], c[1], carte.width) <= t
                           /\ Ecart(f[2], c[2], carte.height) <= t

(* The edge of the square has caught fire in the last turn, so it burns.   *)
Lisiere ==
  Homogene(carte) => \A c \in Cells(carte) :
    Atteinte(c, tour) /\ ~Atteinte(c, tour - 1) => prise[c] = tour

(* On a ring, the way to a cell not yet reached starts with one step, and  *)
(* the step back returns to it.                                            *)
LEMMA Approche ==
  ASSUME NEW n \in Nat \ {0}, NEW a \in 0 .. n - 1, NEW b \in 0 .. n - 1, NEW t \in Nat,
         Ecart(a, b, n) <= t + 1
  PROVE  \E e \in -1 .. 1 : /\ Ecart(a, Mod(b + e, n), n) <= t
                            /\ Mod(Mod(b + e, n) - e, n) = b
                            /\ Ecart(Mod(b + e, n), b, n) <= 1
<1>1. ASSUME NEW e \in -1 .. 1
      PROVE  /\ Mod(b + e, n) = IF b + e = n THEN 0 ELSE IF b + e = -1 THEN n - 1 ELSE b + e
             /\ Mod(Mod(b + e, n) - e, n) = b
             /\ Ecart(Mod(b + e, n), b, n) <= 1
  <2>1. \A k \in 0 .. n - 1 : Mod(k, n) = k
    BY ModPetit DEF Mod, Reste
  <2>2. Mod(n, n) = 0
    BY ModPlus DEF Mod, Reste
  <2>3. Mod(-1, n) = n - 1
    <3>1. CASE n = 1
      <4>1. 1 % n = 0
        BY <3>1, ModPlus
      <4> QED
        BY <3>1, <4>1 DEF Mod, Reste
    <3>2. CASE n > 1
      <4>1. 1 % n = 1
        BY <3>2, ModPetit
      <4> QED
        BY <3>2, <4>1 DEF Mod, Reste
    <3> QED
      BY <3>1, <3>2
  <2>4. Mod(b + e, n) = IF b + e = n THEN 0 ELSE IF b + e = -1 THEN n - 1 ELSE b + e
    BY <2>1, <2>2, <2>3
  <2>5. Mod(Mod(b + e, n) - e, n) = b
    BY <2>1, <2>2, <2>3, <2>4
  <2>6. Ecart(Mod(b + e, n), b, n) <= 1
    BY <2>4 DEF Ecart
  <2> QED
    BY <2>4, <2>5, <2>6
<1>2. \E e \in -1 .. 1 : Ecart(a, Mod(b + e, n), n) <= t
  <2>1. CASE Ecart(a, b, n) <= t
    BY <1>1, <2>1
  <2>2. CASE Ecart(a, b, n) = t + 1
    <3>1. ASSUME a < b, b - a <= n - (b - a) PROVE Ecart(a, Mod(b + (-1), n), n) <= t
      BY <1>1, <2>2, <3>1 DEF Ecart
    <3>2. ASSUME a < b, ~(b - a <= n - (b - a)) PROVE Ecart(a, Mod(b + 1, n), n) <= t
      BY <1>1, <2>2, <3>2 DEF Ecart
    <3>3. ASSUME a > b, a - b <= n - (a - b) PROVE Ecart(a, Mod(b + 1, n), n) <= t
      BY <1>1, <2>2, <3>3 DEF Ecart
    <3>4. ASSUME a > b, ~(a - b <= n - (a - b)) PROVE Ecart(a, Mod(b + (-1), n), n) <= t
      BY <1>1, <2>2, <3>4 DEF Ecart
    <3>5. a # b
      BY <2>2, EcartType
    <3> QED
      BY <3>1, <3>2, <3>3, <3>4, <3>5
  <2>3. Ecart(a, b, n) \in Nat
    BY EcartType
  <2> QED
    BY <2>1, <2>2, <2>3
<1> QED
  BY <1>1, <1>2

(* Every step that is not null is one of the eight directions.             *)
LEMMA HuitDirections ==
  ASSUME NEW x \in -1 .. 1, NEW y \in -1 .. 1, ~(x = 0 /\ y = 0)
  PROVE  \E j \in Directions : Dx(j) = x /\ Dy(j) = y
<1>1. /\ Dx(0) = 1 /\ Dy(0) = 0 /\ Dx(1) = 1 /\ Dy(1) = -1
      /\ Dx(2) = 0 /\ Dy(2) = -1 /\ Dx(3) = -1 /\ Dy(3) = -1
      /\ Dx(4) = -1 /\ Dy(4) = 0 /\ Dx(5) = -1 /\ Dy(5) = 1
      /\ Dx(6) = 0 /\ Dy(6) = 1 /\ Dx(7) = 1 /\ Dy(7) = 1
  BY DEF Dx, Dy, Offsets
<1>2. {0, 1, 2, 3, 4, 5, 6, 7} \subseteq Directions
  BY DEF Directions
<1> QED
  BY <1>1, <1>2

(* A cell that is t + 1 away from a fire and no less from any has a        *)
(* neighbour that is t away and no less, and whose fire reaches it.        *)
LEMMA Voisine ==
  ASSUME WellFormed(carte), NEW t \in Nat, NEW b \in Cells(carte),
         Atteinte(b, t + 1), ~Atteinte(b, t)
  PROVE  \E c \in Cells(carte) :
           /\ Atteinte(c, t) /\ ~Atteinte(c, t - 1)
           /\ ~Vente(carte, c) => b \in Cibles(carte, c)
<1> DEFINE w == carte.width
           h == carte.height
<1>1. w \in Nat \ {0} /\ h \in Nat \ {0} /\ b[1] \in 0 .. w - 1 /\ b[2] \in 0 .. h - 1
      /\ b = <<b[1], b[2]>>
  BY DEF WellFormed, Cells
<1>2. PICK f \in Foyers(carte) : Ecart(f[1], b[1], w) <= t + 1 /\ Ecart(f[2], b[2], h) <= t + 1
  BY DEF Atteinte
<1>3. \A g \in Foyers(carte) : g[1] \in 0 .. w - 1 /\ g[2] \in 0 .. h - 1
  <2>1. \A g \in Foyers(carte) : g \in Cells(carte)
    BY DEF Foyers, WellFormed
  <2> QED
    BY <2>1 DEF Cells
<1>4. PICK x \in -1 .. 1 : /\ Ecart(f[1], Mod(b[1] + x, w), w) <= t
                           /\ Mod(Mod(b[1] + x, w) - x, w) = b[1]
                           /\ Ecart(Mod(b[1] + x, w), b[1], w) <= 1
  BY <1>1, <1>2, <1>3, Approche
<1>5. PICK y \in -1 .. 1 : /\ Ecart(f[2], Mod(b[2] + y, h), h) <= t
                           /\ Mod(Mod(b[2] + y, h) - y, h) = b[2]
                           /\ Ecart(Mod(b[2] + y, h), b[2], h) <= 1
  BY <1>1, <1>2, <1>3, Approche
<1> DEFINE c == At(carte, b[1] + x, b[2] + y)
<1>6. /\ c \in Cells(carte) /\ c[1] = Mod(b[1] + x, w) /\ c[2] = Mod(b[2] + y, h)
      /\ c[1] \in 0 .. w - 1 /\ c[2] \in 0 .. h - 1
  BY <1>1, ModDansAnneau DEF At, Cells
<1> HIDE DEF c
<1>7. Atteinte(c, t)
  BY <1>4, <1>5, <1>6 DEF Atteinte
<1>8. ~Atteinte(c, t - 1)
  <2> SUFFICES ASSUME NEW g \in Foyers(carte), Ecart(g[1], c[1], w) <= t - 1,
                      Ecart(g[2], c[2], h) <= t - 1
               PROVE  FALSE
    BY DEF Atteinte
  <2>1. /\ Ecart(g[1], b[1], w) <= Ecart(g[1], c[1], w) + Ecart(c[1], b[1], w)
        /\ Ecart(g[2], b[2], h) <= Ecart(g[2], c[2], h) + Ecart(c[2], b[2], h)
    BY <1>1, <1>3, <1>6, EcartTriangle
  <2>2. /\ Ecart(g[1], b[1], w) \in Nat /\ Ecart(g[1], c[1], w) \in Nat
        /\ Ecart(c[1], b[1], w) \in Nat /\ Ecart(g[2], b[2], h) \in Nat
        /\ Ecart(g[2], c[2], h) \in Nat /\ Ecart(c[2], b[2], h) \in Nat
    BY <1>1, <1>3, <1>6, EcartType
  <2>3. Ecart(g[1], b[1], w) <= t /\ Ecart(g[2], b[2], h) <= t
    BY <1>4, <1>5, <1>6, <2>1, <2>2
  <2> QED
    BY <2>3 DEF Atteinte
<1>9. ASSUME ~Vente(carte, c) PROVE b \in Cibles(carte, c)
  <2>1. ~(x = 0 /\ y = 0)
    <3> SUFFICES ASSUME x = 0, y = 0 PROVE FALSE
      OBVIOUS
    <3>1. Mod(b[1] + 0, w) = b[1] /\ Mod(b[2] + 0, h) = b[2]
      BY <1>1, ModPetit DEF Mod, Reste
    <3>2. Ecart(f[1], b[1], w) <= t /\ Ecart(f[2], b[2], h) <= t
      BY <1>4, <1>5, <3>1
    <3> QED
      BY <3>2 DEF Atteinte
  <2>2. -x \in -1 .. 1 /\ -y \in -1 .. 1 /\ ~(-x = 0 /\ -y = 0)
    BY <2>1
  <2>3. PICK j \in Directions : Dx(j) = -x /\ Dy(j) = -y
    BY <2>2, HuitDirections
  <2>4. At(carte, c[1] + Dx(j), c[2] + Dy(j)) = b
    <3>1. c[1] + Dx(j) = c[1] - x /\ c[2] + Dy(j) = c[2] - y
      BY <1>6, <2>3
    <3> QED
      BY <1>1, <1>4, <1>5, <1>6, <3>1 DEF At
  <2>5. j \in {k \in Directions : ~(Vente(carte, c) /\ Amont(k, WindAt(carte, c)))}
    BY <1>9
  <2> QED
    BY <2>4, <2>5 DEF Cibles, Voisins
<1> QED
  BY <1>6, <1>7, <1>8, <1>9

(* At the start the square is the fires.                                   *)
LEMMA InitFront == CInit => Front /\ Lisiere
<1> SUFFICES ASSUME CInit, Homogene(carte)
             PROVE  \A c \in Cells(carte) : /\ prise[c] # Jamais <=> Atteinte(c, tour)
                                            /\ Atteinte(c, tour) => prise[c] = tour
  BY DEF Front, Lisiere, Atteinte
<1>1. WellFormed(carte) /\ tour = 0
  BY MapsAssumption DEF CInit, Init
<1>2. TAKE c \in Cells(carte)
<1>3. prise[c] = IF c \in Foyers(carte) THEN 0 ELSE Jamais
  <2>1. carte.terrain[c] \in Terrains /\ carte.terrain[c] # Water
    BY <1>1 DEF Homogene, WellFormed
  <2>2. Combustion(carte.terrain[c]) > 0
    BY <2>1, Durees
  <2> QED
    BY <2>2 DEF CInit, Init, FeuInitial
<1>4. Atteinte(c, 0) <=> c \in Foyers(carte)
  <2>1. /\ carte.width \in Nat \ {0} /\ carte.height \in Nat \ {0}
        /\ c[1] \in 0 .. carte.width - 1 /\ c[2] \in 0 .. carte.height - 1
        /\ c = <<c[1], c[2]>>
    BY <1>1 DEF WellFormed, Cells
  <2>2. \A g \in Foyers(carte) : /\ g[1] \in 0 .. carte.width - 1
                                 /\ g[2] \in 0 .. carte.height - 1 /\ g = <<g[1], g[2]>>
    BY <1>1 DEF Foyers, WellFormed, Cells
  <2>3. ASSUME NEW g \in Foyers(carte), Ecart(g[1], c[1], carte.width) <= 0,
               Ecart(g[2], c[2], carte.height) <= 0
        PROVE  g = c
    <3>1. g[1] = c[1]
      BY <2>1, <2>2, <2>3 DEF Ecart
    <3>2. g[2] = c[2]
      BY <2>1, <2>2, <2>3 DEF Ecart
    <3> QED
      BY <2>1, <2>2, <3>1, <3>2
  <2>4. Ecart(c[1], c[1], carte.width) <= 0 /\ Ecart(c[2], c[2], carte.height) <= 0
    BY <2>1, EcartType
  <2> QED
    BY <2>3, <2>4 DEF Atteinte
<1> QED
  BY <1>1, <1>3, <1>4 DEF Jamais

(* A turn widens the square by one cell all around, and by no more.        *)
LEMMA TourFront == HInv /\ Front /\ Lisiere /\ [CTour]_cvars => Front' /\ Lisiere'
<1> SUFFICES ASSUME HInv, Front, Lisiere, CTour PROVE Front' /\ Lisiere'
  BY DEF cvars, Front, Lisiere, Homogene, SansVent, Atteinte
<1>1. /\ Tour /\ carte' = carte /\ tour' = tour + 1 /\ tour \in Nat /\ WellFormed(carte)
      /\ (tour + 1) - 1 = tour
  BY DEF CTour, Tour, HInv, Dates, IInv, TypeOK
<1>2. SUFFICES ASSUME Homogene(carte), NEW b \in Cells(carte)
               PROVE  /\ prise'[b] # Jamais <=> Atteinte(b, tour + 1)
                      /\ Atteinte(b, tour + 1) /\ ~Atteinte(b, tour) => prise'[b] = tour + 1
  BY <1>1 DEF Front, Lisiere, Atteinte
<1>3. \A c \in Cells(carte) : prise[c] # Jamais <=> Atteinte(c, tour)
  BY <1>2 DEF Front, Atteinte
<1>4. \A c \in Cells(carte) : /\ carte.terrain[c] \in Terrains
                              /\ Combustion(carte.terrain[c]) \in 1..2
                              /\ ~Vente(carte, c)
  <2> SUFFICES ASSUME NEW c \in Cells(carte)
               PROVE  /\ carte.terrain[c] \in Terrains
                      /\ Combustion(carte.terrain[c]) \in 1..2
                      /\ ~Vente(carte, c)
    OBVIOUS
  <2>1. carte.terrain[c] \in Terrains /\ carte.terrain[c] # Water /\ carte.wind[c] = 0
    BY <1>1, <1>2 DEF Homogene, SansVent, WellFormed
  <2> QED
    BY <2>1, Durees DEF Vente
<1>5. Atteinte(b, tour) => Atteinte(b, tour + 1)
  <2>1. \A g \in Foyers(carte) : g \in Cells(carte)
    BY <1>1 DEF Foyers, WellFormed
  <2>2. \A g \in Foyers(carte) : /\ Ecart(g[1], b[1], carte.width) \in Nat
                                 /\ Ecart(g[2], b[2], carte.height) \in Nat
    BY <1>1, <2>1, EcartType DEF WellFormed, Cells
  <2> QED
    BY <1>1, <2>2 DEF Atteinte
<1>6. prise'[b] = IF feu[b] = 0 /\ feu'[b] > 0 THEN tour + 1 ELSE prise[b]
  BY UneDate
<1>7. ASSUME feu[b] = 0, feu'[b] > 0 PROVE Atteinte(b, tour + 1)
  <2>1. PICK c \in Cells(carte) : feu[c] > 0 /\ prise[c] \in 0 .. tour /\ APortee(carte, c, b)
    BY <1>1, <1>7, VientDeQuelquePart
  <2>2. PICK f \in Foyers(carte) : /\ Ecart(f[1], c[1], carte.width) <= tour
                                   /\ Ecart(f[2], c[2], carte.height) <= tour
    BY <1>3, <2>1 DEF Atteinte, Jamais
  <2>3. f \in Cells(carte)
    BY <1>1 DEF Foyers, WellFormed
  <2>4. /\ carte.width \in Nat \ {0} /\ carte.height \in Nat \ {0}
        /\ b[1] \in 0 .. carte.width - 1 /\ b[2] \in 0 .. carte.height - 1
        /\ c[1] \in 0 .. carte.width - 1 /\ c[2] \in 0 .. carte.height - 1
        /\ f[1] \in 0 .. carte.width - 1 /\ f[2] \in 0 .. carte.height - 1
    BY <1>1, <2>3 DEF WellFormed, Cells
  <2>5. Ecart(c[1], b[1], carte.width) <= 1 /\ Ecart(c[2], b[2], carte.height) <= 1
    BY <1>4, <2>1 DEF APortee
  <2>6. /\ Ecart(f[1], b[1], carte.width)
             <= Ecart(f[1], c[1], carte.width) + Ecart(c[1], b[1], carte.width)
        /\ Ecart(f[2], b[2], carte.height)
             <= Ecart(f[2], c[2], carte.height) + Ecart(c[2], b[2], carte.height)
    BY <2>4, EcartTriangle
  <2>7. /\ Ecart(f[1], b[1], carte.width) \in Nat /\ Ecart(f[1], c[1], carte.width) \in Nat
        /\ Ecart(c[1], b[1], carte.width) \in Nat /\ Ecart(f[2], b[2], carte.height) \in Nat
        /\ Ecart(f[2], c[2], carte.height) \in Nat
        /\ Ecart(c[2], b[2], carte.height) \in Nat
    BY <2>4, EcartType
  <2>8. /\ Ecart(f[1], b[1], carte.width) <= tour + 1
        /\ Ecart(f[2], b[2], carte.height) <= tour + 1
    BY <1>1, <2>2, <2>5, <2>6, <2>7
  <2> QED
    BY <2>8 DEF Atteinte
<1>8. ASSUME Atteinte(b, tour + 1), ~Atteinte(b, tour)
      PROVE  feu[b] = 0 /\ feu'[b] > 0
  <2>1. feu[b] = 0 /\ repos[b] = 0
    BY <1>3, <1>8 DEF HInv, Horloge
  <2>2. PICK c \in Cells(carte) : /\ Atteinte(c, tour) /\ ~Atteinte(c, tour - 1)
                                  /\ ~Vente(carte, c) => b \in Cibles(carte, c)
    BY <1>1, <1>8, Voisine
  <2>3. prise[c] = tour
    BY <1>2, <2>2 DEF Lisiere
  <2>4. feu[c] > 0
    <3>1. tour - prise[c] = 0 /\ prise[c] # Jamais
      BY <1>1, <2>3 DEF Jamais
    <3> QED
      BY <1>4, <3>1 DEF HInv, Horloge
  <2>5. b \in Enflammee
    BY <1>4, <2>2, <2>4 DEF Enflammee, EnFeu
  <2>6. Prend(b, Enflammee)
    BY <1>4, <2>1, <2>5 DEF Prend
  <2>7. feu'[b] = Combustion(carte.terrain[b])
    BY <1>1, <2>1, <2>6, UneCase DEF HInv, IInv
  <2> QED
    BY <1>4, <2>1, <2>7
<1>9. prise'[b] # Jamais <=> Atteinte(b, tour + 1)
  <2>1. tour + 1 # Jamais
    BY <1>1 DEF Jamais
  <2> QED
    BY <1>3, <1>5, <1>6, <1>7, <1>8, <2>1
<1> QED
  BY <1>6, <1>8, <1>9

(* On land without wind or water the burnt cells are exactly those at most *)
(* as far from an initial fire as turns have passed.                       *)
THEOREM FrontExact == CSpec => []Front
<1>1. CSpec => []HInv
  BY InitHInv, TourHInv, PTL DEF CSpec
<1>2. CSpec => [](Front /\ Lisiere)
  BY <1>1, InitFront, TourFront, PTL DEF CSpec
<1> QED
  BY <1>2, PTL
=============================================================================
