------------------------------- MODULE Regles -------------------------------
(***************************************************************************)
(* The reference of internal/firetest/reference.go: one turn is one atomic *)
(* step of the whole grid.  It is the abstract specification every engine  *)
(* is shown to implement.                                                  *)
(***************************************************************************)
EXTENDS Fire

CONSTANT Maps       \* the maps a simulation may be started on

ASSUME MapsAssumption == \A m \in Maps : WellFormed(m)

VARIABLES
  carte,            \* the immutable map
  feu,              \* turns of combustion left, by cell
  repos             \* turns of rest left, by cell

vars == <<carte, feu, repos>>

EnFeu == {c \in Cells(carte) : feu[c] > 0}

(* The neighbours an upwind sector spares: the opposite and its diagonals. *)
Amont(j, vent) == Mod(j - vent, 8) \in {3, 4, 5}

(* A bug the runs must catch: the diagonals are forgotten.                 *)
VoisinsEnCroix(m, c) ==
  {At(m, c[1] + Dx(j), c[2] + Dy(j)) :
     j \in {k \in {0, 2, 4, 6} : ~(Vente(m, c) /\ Amont(k, WindAt(m, c)))}}
(* The cells a burning cell c ignites: its Moore neighbours but the upwind *)
(* ones when it bears a wind, and then the jump two cells downwind.        *)
Voisins(m, c) ==
  {At(m, c[1] + Dx(j), c[2] + Dy(j)) :
     j \in {k \in Directions : ~(Vente(m, c) /\ Amont(k, WindAt(m, c)))}}
(* A bug: the jump is taken without asking whether a wind blows.           *)
SautSansVent(m, c) ==
  {At(m, c[1] + 2 * Dx(d), c[2] + 2 * Dy(d)) : d \in {Mod(m.wind[c] - 1, 8)}}
Saut(m, c) ==
  {At(m, c[1] + 2 * Dx(d), c[2] + 2 * Dy(d)) :
     d \in {k \in Directions : Vente(m, c) /\ k = WindAt(m, c)}}
Cibles(m, c) == Voisins(m, c) \cup Saut(m, c)

FeuInitial(m) ==
  [c \in Cells(m) |-> IF c \in Foyers(m) THEN Combustion(m.terrain[c]) ELSE 0]
ReposInitial(m) == [c \in Cells(m) |-> 0]

Init ==
  /\ carte \in Maps
  /\ feu = FeuInitial(carte)
  /\ repos = ReposInitial(carte)

Enflammee == UNION {Cibles(carte, c) : c \in EnFeu}

(* The three branches of the rules, in their order.                        *)
Brule(c)  == feu[c] > 0
Repose(c) == feu[c] = 0 /\ repos[c] > 0
(* A bug: a cell at rest catches fire.                                     *)
PrendEnRepos(c, enflammee) ==
  feu[c] = 0 /\ c \in enflammee /\ Combustion(carte.terrain[c]) > 0
Prend(c, enflammee) ==
  /\ feu[c] = 0 /\ repos[c] = 0
  /\ c \in enflammee
  /\ Combustion(carte.terrain[c]) > 0

FeuSuivant ==
  LET enflammee == Enflammee IN
  [c \in Cells(carte) |->
     CASE Brule(c) -> feu[c] - 1
       [] Prend(c, enflammee) -> Combustion(carte.terrain[c])
       [] OTHER -> feu[c]]
(* Three bugs: a rest that is never owed, one decremented without looking, *)
(* and one that stops when nothing burns.                                  *)
JamaisDeRepos == [c \in Cells(carte) |-> 0]
ReposSansFin ==
  [c \in Cells(carte) |->
     IF feu[c] > 0 THEN IF feu[c] = 1 THEN Repos(carte.terrain[c]) ELSE repos[c]
     ELSE repos[c] - 1]
ReposGele ==
  [c \in Cells(carte) |->
     CASE Brule(c) /\ feu[c] = 1      -> Repos(carte.terrain[c])
       [] Repose(c) /\ EnFeu # {} -> repos[c] - 1
       [] OTHER                       -> repos[c]]
ReposSuivant ==
  [c \in Cells(carte) |->
     CASE Brule(c) /\ feu[c] = 1 -> Repos(carte.terrain[c])
       [] Repose(c)              -> repos[c] - 1
       [] OTHER                  -> repos[c]]

Tour ==
  /\ feu' = FeuSuivant
  /\ repos' = ReposSuivant
  /\ UNCHANGED carte

Next == Tour

Spec == Init /\ [][Next]_vars

(* The caller of Step keeps asking for turns.                              *)
FairSpec == Spec /\ WF_vars(Tour)

-----------------------------------------------------------------------------
(* The type of the state.                                                  *)
TypeOK ==
  /\ WellFormed(carte)
  /\ feu \in [Cells(carte) -> 0..2]
  /\ repos \in [Cells(carte) -> 0..3]

(* The counters stay within the terrain's durations, and a cell is never   *)
(* both burning and resting: water never burns, and the single decrement   *)
(* of a turn can never be owed to both counters.                           *)
Compteurs ==
  \A c \in Cells(carte) :
    /\ feu[c] <= Combustion(carte.terrain[c])
    /\ repos[c] <= Repos(carte.terrain[c])
    /\ ~(feu[c] > 0 /\ repos[c] > 0)

Combustibles(m) == {c \in Cells(m) : m.terrain[c] # Water}

(* The distance of two coordinates on a ring of n cells.                   *)
Ecart(a, b, n) ==
  LET d == IF a < b THEN b - a ELSE a - b
  IN  IF d <= n - d THEN d ELSE n - d

(* b may be reached from c in one turn: one cell away, two with a wind.    *)
APortee(m, c, b) ==
  LET p == IF Vente(m, c) THEN 2 ELSE 1
  IN  /\ Ecart(c[1], b[1], m.width) <= p
      /\ Ecart(c[2], b[2], m.height) <= p

(* S cannot be left: no combustible cell out of S is within reach of S.    *)
Isolee(m, S) ==
  \A c \in S \cap Combustibles(m), b \in Combustibles(m) \ S : ~APortee(m, c, b)

(* Rivers hold (the rules, §5): a region with every initial fire in it and *)
(* water around it, one cell wide where no wind blows and two where it     *)
(* does, confines the fire.  Outside it nothing burns or rests, ever.      *)
Confinement ==
  \A S \in SUBSET Cells(carte) :
    Foyers(carte) \subseteq S /\ Isolee(carte, S) =>
      \A c \in Cells(carte) \ S : feu[c] = 0 /\ repos[c] = 0

Extinct == EnFeu = {}

SansVent(m) == \A c \in Cells(m) : m.wind[c] = 0

(* Without wind, whatever the terrain, the fire dies out (the rules, §4).  *)
SansVentSEteint == SansVent(carte) => <>[]Extinct

(* Once the fire is out it stays out, and every cell ends up available     *)
(* again for good: the ignitions of a turn do not wait for a later one.    *)
ToutRedevientDisponible ==
  Extinct ~> [](Extinct /\ \A c \in Cells(carte) : repos[c] = 0)
=============================================================================
