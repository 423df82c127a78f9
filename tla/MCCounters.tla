------------------------------- MODULE MCCounters -------------------------------
EXTENDS Counters, Cartes

MCMaps == Minuscules \cup Carres \cup Anneau
            \cup Toutes(3, 1, Terrains, {Coin}, {0, 1, 5}, FoyersRang)
            \cup Plaines(3, 2)
=============================================================================
