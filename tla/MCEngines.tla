----------------------------- MODULE MCEngines ------------------------------
EXTENDS Engines, Cartes

Lignes == Toutes(3, 1, Terrains, {Coin}, {0, 1, 5}, FoyersRang)

(* Two winds on one plain: all pairs of a calm, two opposite winds, two     *)
(* diagonals.                                                              *)
DeuxVents == Toutes(3, 3, {Plain}, {Coin, <<1, 1>>}, {0, 1, 5, 6, 8}, UnFoyer)

MCMapsDe == [
  naive    |-> Minuscules \cup Carres \cup Anneau \cup Lignes
                 \cup Plaines(3, 2) \cup DeuxVents,
  flat     |-> Carres \cup Lignes,
  counters |-> Carres \cup Lignes,
  ghost    |-> Toutes(1, 1, Terrains, {Coin}, Codes, {<<Coin, Coin>>})
                 \cup Toutes(2, 1, {Plain, Forest}, {Coin}, {0, 1, 4, 7}, UnFoyer)
                 \cup Toutes(3, 1, {Plain, Forest}, {Coin}, {0, 1, 5}, UnFoyer)
                 \cup Toutes(2, 2, {Water, Plain}, {Coin}, {0, 2, 8}, FoyersRang)
                 \cup Plaines(3, 3) \cup DeuxVents,
  front    |-> Minuscules \cup Lignes \cup Plaines(3, 3) \cup DeuxVents \cup Anneau
                 \cup Toutes(2, 2, Terrains, {Coin}, {0, 2, 8}, UnFoyer)
                 \cup Toutes(3, 2, {Plain, Forest}, {Coin}, {4}, UnFoyer),
  bitpack  |-> Minuscules \cup Carres \cup Anneau \cup Riviere \cup DeuxVents
                 \cup Toutes(3, 2, {Plain, Forest}, {Coin}, {0, 4}, UnFoyer)
                 \cup Plaines(4, 3) \cup Plaines(5, 2) \cup Plaines(6, 1)]
=============================================================================
