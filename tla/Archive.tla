------------------------------- MODULE Archive ------------------------------
(***************************************************************************)
(* An engine, its captures, the ring of prints and the writer together, as *)
(* the series of internal/bench/serie_test.go compose them: a state is     *)
(* captured every periode turns, and written unless its print is known.    *)
(* One process archives several series, one after the other; the pools     *)
(* outlive a series, the engine and the ring do not.                       *)
(***************************************************************************)
EXTENDS Formats, Dedup

CONSTANTS
  Maps,
  Campagnes,        \* the format, cache and sampling period of a series
  MaxTours,         \* bound: the turns of a series
  MaxSeries         \* bound: the series of a process

ASSUME ArchiveAssumption ==
  /\ \A m \in Maps : WellFormed(m)
  /\ \A c \in Campagnes :
       c.format \in Formats /\ c.cache \in Tailles /\ c.periode \in Nat \ {0}
  /\ MaxTours \in Nat /\ MaxSeries \in Nat \ {0}

VARIABLES
  carte, feu, repos,   \* the engine, by the rules it implements
  tour, periode,
  archives             \* history: the prints whose file is complete

serie == <<carte, feu, repos, tour, periode, archives>>
vars == <<fvars, dvars, serie>>

moteur == INSTANCE Regles

Init ==
  /\ moteur!Init
  /\ tour = 0 /\ archives = {}
  /\ \E c \in Campagnes :
       format = c.format /\ periode = c.periode /\ DInit /\ taille = Retenue(c.cache)
  /\ poolActif \in BOOLEAN
  /\ O!PInit /\ W!PInit
  /\ doc = Illisible
  /\ tenusO = <<>> /\ tenusM = <<>> /\ fichier = <<>> /\ err = FALSE
  /\ pc = "capture"

Captee == Capture(carte, feu, repos, tour)

(* cache > 0 && DejaVu: the state is omitted; any other is written.        *)
Omet ==
  /\ pc = "capture" /\ taille > 0
  /\ Doublon(Empreinte(Captee))
  /\ pc' = "avance"
  /\ UNCHANGED <<appel, pools, tenusO, tenusM, fichier, err, serie>>

Releve ==
  /\ pc = "capture"
  /\ IF taille > 0 THEN Nouvelle(Empreinte(Captee)) ELSE Inactif
  /\ Ecrire(Captee)
  /\ UNCHANGED serie

Ecriture == FNext /\ UNCHANGED <<dvars, serie>>

(* Write has returned; an error ends the series.                           *)
Revient ==
  /\ pc = "rendu"
  /\ IF err THEN pc' = "fin" /\ UNCHANGED archives
     ELSE pc' = "avance" /\ archives' = archives \cup {Empreinte(doc)}
  /\ fichier' = <<>> /\ err' = FALSE
  /\ UNCHANGED <<appel, pools, tenusO, tenusM, dvars, carte, feu, repos, tour, periode>>

Avance ==
  /\ pc = "avance" /\ tour < MaxTours
  /\ moteur!Tour
  /\ tour' = tour + 1
  /\ pc' = IF tour' % periode = 0 THEN "capture" ELSE "avance"
  /\ UNCHANGED <<appel, pools, tenusO, tenusM, fichier, err, dvars, periode, archives>>

Suivante ==
  /\ pc = "fin" \/ (pc = "avance" /\ tour = MaxTours)
  /\ series < MaxSeries
  /\ carte' \in Maps /\ feu' = moteur!FeuInitial(carte') /\ repos' = moteur!ReposInitial(carte')
  /\ tour' = 0 /\ archives' = {}
  /\ \E c \in Campagnes :
       format' = c.format /\ periode' = c.periode /\ Nouveau /\ taille' = Retenue(c.cache)
  /\ doc' = Illisible /\ pc' = "capture"
  /\ UNCHANGED <<poolActif, pools, tenusO, tenusM, fichier, err>>

Next == Omet \/ Releve \/ Ecriture \/ Revient \/ Avance \/ Suivante

Spec == Init /\ [][Next]_vars

-----------------------------------------------------------------------------
(* Nothing is lost by omitting a snapshot: whenever a series goes on, the  *)
(* fire and the rests of its last capture are in a complete file of the    *)
(* same series.                                                            *)
RienDePerdu ==
  pc = "avance" /\ tour % periode = 0 => Empreinte(Captee) \in archives
=============================================================================
