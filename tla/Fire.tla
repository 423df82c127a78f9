-------------------------------- MODULE Fire --------------------------------
(***************************************************************************)
(* The contract every engine works on: internal/fire/fire.go.  Terrains    *)
(* and their durations, the eight directions, the torus, the immutable     *)
(* map.  A cell is the pair <<x, y>>; the code's index y*Width+x is a      *)
(* bijection with it, so a slice of Width*Height entries is a function on  *)
(* Cells(m).  The list of initial fires stays a sequence: the code accepts *)
(* duplicates in it, and fires laid on water.                              *)
(***************************************************************************)
EXTENDS Integers, Sequences

Water  == 0
Plain  == 1
Forest == 2
Terrains == {Water, Plain, Forest}

Combustion(t) == CASE t = Water -> 0 [] t = Plain -> 1 [] t = Forest -> 2
Repos(t)      == CASE t = Water -> 0 [] t = Plain -> 2 [] t = Forest -> 3

Directions == 0..7
Offsets == << <<1, 0>>, <<1, -1>>, <<0, -1>>, <<-1, -1>>,
              <<-1, 0>>, <<-1, 1>>, <<0, 1>>, <<1, 1>> >>
Dx(d) == Offsets[d + 1][1]
Dy(d) == Offsets[d + 1][2]

(* Go's % truncates towards zero: -1 % 5 is -1.                            *)
Reste(a, n) == IF a >= 0 THEN a % n ELSE -((-a) % n)
Mod(a, n) == LET r == Reste(a, n) IN IF r < 0 THEN r + n ELSE r

Cells(m) == (0 .. m.width - 1) \X (0 .. m.height - 1)
At(m, x, y) == <<Mod(x, m.width), Mod(y, m.height)>>

(* The wind code of a cell is 0 for none and 1 + direction otherwise.      *)
Vente(m, c)  == m.wind[c] > 0
WindAt(m, c) == m.wind[c] - 1

Foyers(m) == {m.fires[k] : k \in DOMAIN m.fires}

(* A map as NewMap, SetWind and Ignite build it, with the caller's terrain.*)
WellFormed(m) ==
  /\ m.width \in Nat \ {0}
  /\ m.height \in Nat \ {0}
  /\ m.terrain \in [Cells(m) -> Terrains]
  /\ m.wind \in [Cells(m) -> 0..8]
  /\ m.fires \in Seq(Cells(m))
=============================================================================
