----------------------------- MODULE MCArchive ------------------------------
EXTENDS Archive, Cartes

(* One cell; three, with a decor of its own in each; and a ring of five    *)
(* whose fire never dies and comes round every four turns.  The last byte  *)
(* of their states is half empty.                                          *)
Cote ==
  LET C == (0..2) \X {0} IN
  [width |-> 3, height |-> 1, fires |-> <<Coin>>,
   terrain |-> [c \in C |-> IF c[1] = 1 THEN Water ELSE Forest],
   wind |-> [c \in C |-> IF c[1] = 0 THEN 8 ELSE 0]]
MCMaps == {Cote} \cup Toutes(1, 1, {Plain}, {Coin}, {0}, UnFoyer)
                 \cup Toutes(5, 1, {Plain}, {Coin}, {1}, UnFoyer)

(* A cache that holds the cycle of the ring and one that does not, periods *)
(* that divide it, no cache at all.                                        *)
Campagne(f, c, p) == [format |-> f, cache |-> c, periode |-> p]
MCCampagnes ==
  {Campagne("packed", 4, 1), Campagne("packed", 3, 1),
   Campagne("packedSansDecor", 2, 2), Campagne("proto", 1, 2), Campagne("json", -1, 4)}
MCTailles == {c.cache : c \in MCCampagnes}

(* Any 64 bits may be the print of a state, zero included: here the bits   *)
(* make leaves in the ring are the print of the first state of the shore.  *)
MCZero == << <<2, 0, 0>>, <<0, 0, 0>> >>

(* The prints the three maps lead to.                                      *)
MCEmpreintes ==
  {<< <<1>>, <<0>> >>, << <<0>>, <<2>> >>, << <<0>>, <<1>> >>, << <<0>>, <<0>> >>}
  \cup
  {MCZero, << <<1, 0, 2>>, <<0, 0, 0>> >>,
   << <<0, 0, 1>>, <<3, 0, 0>> >>, << <<0, 0, 0>>, <<2, 0, 3>> >>,
   << <<0, 0, 0>>, <<1, 0, 2>> >>, << <<0, 0, 0>>, <<0, 0, 1>> >>, << <<0, 0, 0>>, <<0, 0, 0>> >>}
  \cup
  {<< <<1, 0, 0, 0, 0>>, <<0, 0, 0, 0, 0>> >>, << <<0, 1, 1, 0, 0>>, <<2, 0, 0, 0, 0>> >>,
   << <<0, 0, 0, 1, 0>>, <<1, 2, 2, 0, 0>> >>, << <<0, 0, 0, 0, 1>>, <<0, 1, 1, 2, 0>> >>,
   << <<1, 0, 0, 0, 0>>, <<0, 0, 0, 1, 2>> >>, << <<0, 1, 1, 0, 0>>, <<2, 0, 0, 0, 1>> >>}
=============================================================================
