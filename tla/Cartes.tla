------------------------------- MODULE Cartes -------------------------------
(***************************************************************************)
(* Sets of small maps the model-checking modules instantiate Maps with.    *)
(***************************************************************************)
EXTENDS Fire

(* Every map of the given size with terrains in T, wind codes in V on the  *)
(* cells of P and none elsewhere, and a list of fires in F.                *)
Toutes(w, h, T, P, V, F) ==
  LET C == (0 .. w - 1) \X (0 .. h - 1) IN
  {[width |-> w, height |-> h, terrain |-> t,
    wind |-> [c \in C |-> IF c \in P THEN v[c] ELSE 0], fires |-> f] :
      t \in [C -> T], v \in [P \cap C -> V], f \in F}

Coin == <<0, 0>>
Codes == 0..8

(* No fire, one, a duplicate, and two on the first cells of a row.         *)
UnFoyer    == {<<Coin>>}
FoyersRang == {<<>>, <<Coin>>, <<Coin, Coin>>, <<<<1, 0>>, Coin>>}

(* The torus at its smallest, where a cell is its own neighbour and a jump *)
(* lands on its source.                                                    *)
Minuscules ==
  Toutes(1, 1, Terrains, {Coin}, Codes, {<<>>, <<Coin>>, <<Coin, Coin>>})
    \cup Toutes(2, 1, Terrains, {Coin}, Codes, FoyersRang)
    \cup Toutes(1, 2, Terrains, {Coin}, Codes, UnFoyer)

(* Rows and columns where a jump passes over one cell.                     *)
Rangees ==
  Toutes(3, 1, Terrains, {Coin}, {0, 1, 5, 8}, FoyersRang)
    \cup Toutes(1, 4, Terrains, {Coin}, {0, 3}, UnFoyer)
    \cup Toutes(4, 1, Terrains, {Coin}, {0, 1, 5}, UnFoyer)

Carres == Toutes(2, 2, Terrains, {Coin}, {0, 2, 5, 8}, UnFoyer)

(* One wind on a ring of five plain cells: a fire that never dies.         *)
Anneau == Toutes(5, 1, {Plain}, {Coin}, {1, 5}, UnFoyer)

(* A forest between two rivers one cell wide, land on the other banks.     *)
Riviere ==
  LET C == (0..6) \X {0}
      t == [c \in C |-> CASE c[1] \in {1, 5} -> Water
                          [] c[1] = 3 -> Forest
                          [] OTHER -> Plain]
  IN  {[width |-> 7, height |-> 1, terrain |-> t,
        wind |-> [c \in C |-> IF c = p THEN v ELSE 0], fires |-> <<f>>] :
          p \in {Coin, <<2, 0>>, <<4, 0>>}, v \in Codes, f \in {Coin, <<4, 0>>}}

Plaines(w, h) == Toutes(w, h, {Plain}, {Coin}, Codes, UnFoyer)
=============================================================================
