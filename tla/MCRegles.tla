------------------------------ MODULE MCRegles ------------------------------
EXTENDS Regles, Cartes

MCMaps == Minuscules \cup Rangees \cup Carres \cup Riviere
            \cup Plaines(3, 3) \cup Plaines(5, 2) \cup Plaines(5, 1)
            \cup Toutes(3, 2, Terrains, {}, {}, UnFoyer)
=============================================================================
