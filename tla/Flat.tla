-------------------------------- MODULE Flat --------------------------------
(***************************************************************************)
(* internal/flat: the turn is computed from grid into next, then the two   *)
(* buffers are swapped.  The ignite buffer and next outlive the turn.      *)
(***************************************************************************)
EXTENDS Moteur

VARIABLES
  carte,
  grid, next,       \* the two buffers of cells
  ignite,           \* the cells marked true
  pc,               \* "new", "idle", "spread" or "apply"
  k,                \* fires laid by New so far
  cur               \* the cursor of the loop under way

vars == <<carte, grid, next, ignite, pc, k, cur>>

Init ==
  /\ carte \in Maps
  /\ grid = [c \in Cells(carte) |-> Froide]
  /\ next = [c \in Cells(carte) |-> Froide]
  /\ ignite = {}
  /\ pc = "new" /\ k = 0 /\ cur = Debut

(* New: one fire of the list after the other.                              *)
Allume ==
  /\ pc = "new" /\ k < Len(carte.fires)
  /\ k' = k + 1
  /\ LET c == carte.fires[k'] IN
     grid' = [grid EXCEPT ![c].feu = Combustion(carte.terrain[c])]
  /\ UNCHANGED <<carte, next, ignite, pc, cur>>

Pret ==
  /\ pc = "new" /\ k = Len(carte.fires)
  /\ pc' = "idle"
  /\ UNCHANGED <<carte, grid, next, ignite, k, cur>>

(* A bug: the contagions of the previous turn are not cleared.             *)
StepSansEffacer ==
  /\ pc = "idle"
  /\ pc' = "spread" /\ cur' = Debut
  /\ UNCHANGED <<carte, grid, next, ignite, k>>

(* Step: clear the contagions of the previous turn, spread those of this   *)
(* one cell by cell, age every cell into next, swap.                       *)
Step ==
  /\ pc = "idle"
  /\ ignite' = {}
  /\ pc' = "spread" /\ cur' = Debut
  /\ UNCHANGED <<carte, grid, next, k>>

Spread ==
  /\ pc = "spread" /\ ~Finie(carte, cur)
  /\ ignite' = IF grid[cur].feu = 0 THEN ignite
               ELSE ignite \cup Contagion(carte, cur)
  /\ cur' = Suivante(carte, cur)
  /\ UNCHANGED <<carte, grid, next, pc, k>>

FinSpread ==
  /\ pc = "spread" /\ Finie(carte, cur)
  /\ pc' = "apply" /\ cur' = Debut
  /\ UNCHANGED <<carte, grid, next, ignite, k>>

Apply ==
  /\ pc = "apply" /\ ~Finie(carte, cur)
  /\ next' = [next EXCEPT ![cur] =
                Evolue(carte.terrain[cur], grid[cur], cur \in ignite)]
  /\ cur' = Suivante(carte, cur)
  /\ UNCHANGED <<carte, grid, ignite, pc, k>>

Swap ==
  /\ pc = "apply" /\ Finie(carte, cur)
  /\ grid' = next /\ next' = grid
  /\ pc' = "idle"
  /\ UNCHANGED <<carte, ignite, k, cur>>

Next == Allume \/ Pret \/ Step \/ Spread \/ FinSpread \/ Apply \/ Swap

Spec == Init /\ [][Next]_vars

-----------------------------------------------------------------------------
(* The type of the state.                                                  *)
TypeOK ==
  /\ WellFormed(carte)
  /\ grid \in [Cells(carte) -> Cell]
  /\ next \in [Cells(carte) -> Cell]
  /\ ignite \in SUBSET Cells(carte)
  /\ pc \in {"new", "idle", "spread", "apply"}
  /\ k \in 0 .. Len(carte.fires)
  /\ cur \in Cells(carte) \cup {Fin(carte)}

(* The state the rules are shown: the map's fires until New is done, then  *)
(* the grid, which only changes when Step swaps the buffers.               *)
R == INSTANCE Regles WITH
       feu   <- IF pc = "new" THEN [c \in Cells(carte) |->
                  IF c \in Foyers(carte) THEN Combustion(carte.terrain[c]) ELSE 0]
                ELSE [c \in Cells(carte) |-> grid[c].feu],
       repos <- [c \in Cells(carte) |-> grid[c].repos]

(* Every Step of flat is one turn of the rules, on every map: stale        *)
(* entries of next and ignite never reach the grid, and the order of the   *)
(* cells does not matter.                                                  *)
Conforme == R!Spec
=============================================================================
