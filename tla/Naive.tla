------------------------------- MODULE Naive --------------------------------
(***************************************************************************)
(* internal/naive: one grid, aged in place once the whole spread of the    *)
(* turn is known.  The ignite slice is allocated by every Step.            *)
(***************************************************************************)
EXTENDS Moteur

VARIABLES carte, grid, ignite, pc, k, cur      \* as in Flat, without next

vars == <<carte, grid, ignite, pc, k, cur>>

Init ==
  /\ carte \in Maps
  /\ grid = [c \in Cells(carte) |-> Froide]
  /\ ignite = {}
  /\ pc = "new" /\ k = 0 /\ cur = Debut

Allume ==
  /\ pc = "new" /\ k < Len(carte.fires)
  /\ k' = k + 1
  /\ LET c == carte.fires[k'] IN
     grid' = [grid EXCEPT ![c].feu = Combustion(carte.terrain[c])]
  /\ UNCHANGED <<carte, ignite, pc, cur>>

Pret ==
  /\ pc = "new" /\ k = Len(carte.fires)
  /\ pc' = "idle"
  /\ UNCHANGED <<carte, grid, ignite, k, cur>>

Step ==
  /\ pc = "idle"
  /\ ignite' = {}
  /\ pc' = "spread" /\ cur' = Debut
  /\ UNCHANGED <<carte, grid, k>>

Spread ==
  /\ pc = "spread" /\ ~Finie(carte, cur)
  /\ ignite' = IF grid[cur].feu = 0 THEN ignite
               ELSE ignite \cup Contagion(carte, cur)
  /\ cur' = Suivante(carte, cur)
  /\ UNCHANGED <<carte, grid, pc, k>>

FinSpread ==
  /\ pc = "spread" /\ Finie(carte, cur)
  /\ pc' = "apply" /\ cur' = Debut
  /\ UNCHANGED <<carte, grid, ignite, k>>

Apply ==
  /\ pc = "apply" /\ ~Finie(carte, cur)
  /\ grid' = [grid EXCEPT ![cur] = Evolue(carte.terrain[cur], @, cur \in ignite)]
  /\ cur' = Suivante(carte, cur)
  /\ UNCHANGED <<carte, ignite, pc, k>>

(* Step returns; its ignite slice is garbage from here on.                 *)
Rend ==
  /\ pc = "apply" /\ Finie(carte, cur)
  /\ ignite' = {}
  /\ pc' = "idle"
  /\ UNCHANGED <<carte, grid, k, cur>>

Next == Allume \/ Pret \/ Step \/ Spread \/ FinSpread \/ Apply \/ Rend

Spec == Init /\ [][Next]_vars

-----------------------------------------------------------------------------
(* The cells as they will stand at the end of the turn: the turn is        *)
(* decided when the spread ends, and the cells the second loop has not     *)
(* reached yet owe nothing more than their own ageing.                     *)
Vue ==
  CASE pc = "new" -> [c \in Cells(carte) |->
                        IF c \in Foyers(carte) THEN Allumee(carte.terrain[c]) ELSE Froide]
    [] pc = "apply" -> [c \in Cells(carte) |->
                          IF c \in Vues(carte, cur) THEN grid[c]
                          ELSE Evolue(carte.terrain[c], grid[c], c \in ignite)]
    [] OTHER -> grid
FeuVu   == [c \in Cells(carte) |-> Vue[c].feu]
ReposVu == [c \in Cells(carte) |-> Vue[c].repos]
=============================================================================
