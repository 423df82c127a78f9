------------------------------- MODULE Ghost --------------------------------
(***************************************************************************)
(* internal/ghost: the ignite buffer has a halo of two cells on each side, *)
(* so that a target is a plain index, center + offset, and no modulo runs  *)
(* in the spread.  The halo is folded back on the torus once a turn.  The  *)
(* buffer is modelled by its indices: the bugs of this engine are there.   *)
(***************************************************************************)
EXTENDS Moteur, FiniteSets

VARIABLES
  carte, grid, next,
  ignite,           \* the indices marked true in the padded buffer
  burning,
  pc, k, cur        \* k: the fires laid in "new", the halo index in "fold"

vars == <<carte, grid, next, ignite, burning, pc, k, cur>>

(* A bug: a halo of one cell, enough for the neighbours only.              *)
StrideCourt(m) == m.width + 2
Stride(m) == m.width + 4
Taille(m) == Stride(m) * (m.height + 4)
Offset(m, d) == Dy(d) * Stride(m) + Dx(d)
Centre(m, c) == (c[2] + 2) * Stride(m) + c[1] + 2

(* border pairs each index of the halo, row-major, with its interior target.*)
Halo(m, i) ==
  LET x == i % Stride(m)  y == i \div Stride(m)
  IN  ~(x \in 2 .. m.width + 1 /\ y \in 2 .. m.height + 1)
(* A bug: the halo on the left is folded one column short.                 *)
CibleDecalee(m, i) ==
  LET x == i % Stride(m)  y == i \div Stride(m)
  IN  (Mod(y - 2, m.height) + 2) * Stride(m) + Mod(x - 1, m.width) + 2
Cible(m, i) ==
  LET x == i % Stride(m)  y == i \div Stride(m)
  IN  (Mod(y - 2, m.height) + 2) * Stride(m) + Mod(x - 2, m.width) + 2

(* (j - d) & 7 on Go's two's complement integers.                          *)
Masque7(a) == a % 8
Marques(m, c) ==
  LET vent == m.wind[c]
      d == vent - 1
      epargne(j) == vent # 0 /\ Masque7(j - d) \in 3..5
  IN  {Centre(m, c) + Offset(m, j) : j \in {j \in Directions : ~epargne(j)}}
        \cup IF vent # 0 THEN {Centre(m, c) + 2 * Offset(m, d)} ELSE {}

Init ==
  /\ carte \in Maps
  /\ grid = [c \in Cells(carte) |-> Froide]
  /\ next = [c \in Cells(carte) |-> Froide]
  /\ ignite = {} /\ burning = 0
  /\ pc = "new" /\ k = 0 /\ cur = Debut

Allume ==
  /\ pc = "new" /\ k < Len(carte.fires)
  /\ k' = k + 1
  /\ LET c == carte.fires[k']
         f == Combustion(carte.terrain[c])
     IN  /\ burning' = IF grid[c].feu = 0 /\ f > 0 THEN burning + 1 ELSE burning
         /\ grid' = [grid EXCEPT ![c].feu = f]
  /\ UNCHANGED <<carte, next, ignite, pc, cur>>

Pret ==
  /\ pc = "new" /\ k = Len(carte.fires)
  /\ pc' = "idle" /\ k' = 0
  /\ UNCHANGED <<carte, grid, next, ignite, burning, cur>>

Step ==
  /\ pc = "idle"
  /\ ignite' = {}
  /\ pc' = "spread" /\ cur' = Debut
  /\ UNCHANGED <<carte, grid, next, burning, k>>

Spread ==
  /\ pc = "spread" /\ ~Finie(carte, cur)
  /\ ignite' = IF grid[cur].feu = 0 THEN ignite ELSE ignite \cup Marques(carte, cur)
  /\ cur' = Suivante(carte, cur)
  /\ UNCHANGED <<carte, grid, next, burning, pc, k>>

FinSpread ==
  /\ pc = "spread" /\ Finie(carte, cur)
  /\ pc' = "fold" /\ k' = 0
  /\ UNCHANGED <<carte, grid, next, ignite, burning, cur>>

(* The pairs one after the other; several sources and corners may aim at   *)
(* the same cell.                                                          *)
Fold ==
  /\ pc = "fold" /\ k < Taille(carte)
  /\ ignite' = IF Halo(carte, k) /\ k \in ignite
               THEN ignite \cup {Cible(carte, k)} ELSE ignite
  /\ k' = k + 1
  /\ UNCHANGED <<carte, grid, next, burning, pc, cur>>

FinFold ==
  /\ pc = "fold" /\ k = Taille(carte)
  /\ pc' = "apply" /\ cur' = Debut /\ k' = 0
  /\ UNCHANGED <<carte, grid, next, ignite, burning>>

Apply ==
  /\ pc = "apply" /\ ~Finie(carte, cur)
  /\ LET c == grid[cur]
         apres == Evolue(carte.terrain[cur], c, Centre(carte, cur) \in ignite)
     IN  /\ next' = [next EXCEPT ![cur] = apres]
         /\ burning' = CASE c.feu > 0 /\ apres.feu = 0 -> burning - 1
                         [] c.feu = 0 /\ apres.feu > 0 -> burning + 1
                         [] OTHER -> burning
  /\ cur' = Suivante(carte, cur)
  /\ UNCHANGED <<carte, grid, ignite, pc, k>>

Swap ==
  /\ pc = "apply" /\ Finie(carte, cur)
  /\ grid' = next /\ next' = grid
  /\ pc' = "idle"
  /\ UNCHANGED <<carte, ignite, burning, k, cur>>

Next == \/ Allume \/ Pret \/ Step \/ Spread \/ FinSpread
        \/ Fold \/ FinFold \/ Apply \/ Swap

Spec == Init /\ [][Next]_vars

-----------------------------------------------------------------------------
(* No index the spread or the fold computes leaves the padded buffer: the  *)
(* jump of a cell on the edge lands in the halo, whatever the size of the  *)
(* map, and a Go slice would panic otherwise.                              *)
DansLeTampon == ignite \subseteq 0 .. Taille(carte) - 1

(* Once the halo is folded the interior holds the ignitions of the torus:  *)
(* a target of the fold is interior, so one pass is enough even when the   *)
(* map is smaller than the halo.                                           *)
Replie ==
  pc = "apply" =>
    LET sources == {b \in Cells(carte) : grid[b].feu > 0} IN
    \A c \in Cells(carte) :
      Centre(carte, c) \in ignite <=> \E b \in sources : c \in Contagion(carte, b)

(* The state the rules are shown: the map's fires until New is done, then  *)
(* the grid, which only changes when Step swaps the buffers.               *)
FeuVu ==
  IF pc = "new"
  THEN [c \in Cells(carte) |->
          IF c \in Foyers(carte) THEN Combustion(carte.terrain[c]) ELSE 0]
  ELSE [c \in Cells(carte) |-> grid[c].feu]
ReposVu == [c \in Cells(carte) |-> grid[c].repos]
=============================================================================
