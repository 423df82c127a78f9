---------------------------- MODULE MCChronique -----------------------------
EXTENDS Chronique, Cartes

MCMaps == Minuscules \cup Rangees \cup Carres \cup Riviere \cup Anneau
            \cup Plaines(5, 4)
            \cup Toutes(3, 2, {Plain, Forest}, {}, {}, UnFoyer)
MCMapsAnneau == Minuscules \cup Anneau
=============================================================================
