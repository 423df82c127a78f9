------------------------------ MODULE Counters ------------------------------
(***************************************************************************)
(* internal/counters: flat with the number of burning cells kept up to     *)
(* date by every change of a cell, so that Burning scans nothing.          *)
(***************************************************************************)
EXTENDS Flat, FiniteSets

VARIABLE burning

cvars == <<carte, grid, next, ignite, pc, k, cur, burning>>

CInit == Init /\ burning = 0

(* A bug: every fire of the list is counted.                               *)
CAllumeDouble ==
  /\ Allume
  /\ burning' = burning + 1

(* A duplicate fire, or one on water, is not counted twice.                *)
CAllume ==
  /\ Allume
  /\ LET c == carte.fires[k'] IN
     burning' = IF grid[c].feu = 0 /\ Combustion(carte.terrain[c]) > 0
                THEN burning + 1 ELSE burning

(* A bug: a forest is counted out one turn early.                          *)
EteintTropTot == grid[cur].feu > 0
(* The cell under the cursor goes out, or catches fire.                    *)
Eteint == grid[cur].feu = 1
Prend  == grid[cur] = Froide /\ cur \in ignite /\ Combustion(carte.terrain[cur]) > 0
CApply ==
  /\ Apply
  /\ burning' = IF Eteint THEN burning - 1 ELSE IF Prend THEN burning + 1 ELSE burning

CAutre ==
  /\ Pret \/ Step \/ Spread \/ FinSpread \/ Swap
  /\ UNCHANGED burning

CNext == CAllume \/ CApply \/ CAutre

CSpec == CInit /\ [][CNext]_cvars

-----------------------------------------------------------------------------
(* The counter counts: between two calls of Step, Burning is the number of *)
(* burning cells a scan of the grid would find.                            *)
Exact ==
  pc \in {"new", "idle"} => burning = Cardinality({c \in Cells(carte) : grid[c].feu > 0})

(* And while Step ages the cells it counts the cells already written to    *)
(* next and those still to be read from grid: what makes it exact again.   *)
Compte ==
  LET apres == {c \in Vues(carte, cur) : next[c].feu > 0}
      avant == {c \in Cells(carte) \ Vues(carte, cur) : grid[c].feu > 0}
  IN  pc = "apply" => burning = Cardinality(apres \cup avant)
=============================================================================
