------------------------------- MODULE Moteur -------------------------------
(***************************************************************************)
(* What the engines naive, flat, counters and ghost repeat word for word:  *)
(* the row-major double loop, the cells a burning cell ignites, and the    *)
(* switch that ages one cell.  Each engine is then the order it does these *)
(* things in and the memory it does them in.                               *)
(***************************************************************************)
EXTENDS Fire

CONSTANT Maps

ASSUME MapsAssumption == \A m \in Maps : WellFormed(m)

(* The loops "for y < Height, for x < Width": the cursor <<x, y>>, the     *)
(* cells the loop is done with, and its exit.                              *)
Debut == <<0, 0>>
Suivante(m, c) == IF c[1] + 1 < m.width THEN <<c[1] + 1, c[2]>> ELSE <<0, c[2] + 1>>
Fin(m) == <<0, m.height>>
Finie(m, c) == c = Fin(m)
Vues(m, c)  == {b \in Cells(m) : b[2] < c[2] \/ (b[2] = c[2] /\ b[1] < c[1])}

(* The coordinates a burning cell ignites, before they are folded back on  *)
(* the torus.                                                              *)
Secteur(j, d) == Mod(j - d, 8)
Epargne(m, c, j) == Vente(m, c) /\ Secteur(j, WindAt(m, c)) \in 3..5
Visees(m, c) ==
  {<<c[1] + Dx(j), c[2] + Dy(j)>> : j \in {k \in Directions : ~Epargne(m, c, k)}}
    \cup IF Vente(m, c)
         THEN {<<c[1] + 2 * Dx(WindAt(m, c)), c[2] + 2 * Dy(WindAt(m, c))>>}
         ELSE {}
Contagion(m, c) == {At(m, p[1], p[2]) : p \in Visees(m, c)}

(* The state of a cell, and of a cell that a fire was just laid on.        *)
Cell == [feu : 0..2, repos : 0..3]
Froide == [feu |-> 0, repos |-> 0]
Allumee(t) == [feu |-> Combustion(t), repos |-> 0]

(* One turn of the cell c of terrain t, ignited or not.                    *)
Evolue(t, c, ignite) ==
  CASE c.feu > 1  -> [c EXCEPT !.feu = @ - 1]
    [] c.feu = 1  -> [feu |-> 0, repos |-> Repos(t)]
    [] c.feu = 0 /\ c.repos > 0 -> [c EXCEPT !.repos = @ - 1]
    [] c = Froide -> IF ignite /\ Combustion(t) > 0
                     THEN [c EXCEPT !.feu = Combustion(t)] ELSE c
=============================================================================
