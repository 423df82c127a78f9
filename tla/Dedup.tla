-------------------------------- MODULE Dedup -------------------------------
(***************************************************************************)
(* internal/snapshot/dedup.go: a ring of the prints of the last states     *)
(* written, scanned linearly, so that a state already in the archive is    *)
(* not written again.  Entries are counted from 0 as in the code.          *)
(***************************************************************************)
EXTENDS Integers, Sequences

CONSTANTS
  Empreintes,       \* the prints that may be presented
  Zero,             \* the print whose 64 bits are 0, as make leaves them
  Tailles           \* the sizes NewDedup is called with, of any sign

ASSUME EmpreintesAssumption == Zero \in Empreintes
ASSUME TaillesAssumption == Tailles \subseteq Int

VARIABLES
  series,           \* the caches made so far, one a series
  taille,           \* len(vues)
  vues, i, plein,
  doublons          \* Doublons; Vus only adds the misses to it

dvars == <<series, taille, vues, i, plein, doublons>>

(* A negative size counts for none.                                        *)
Retenue(t) == IF t < 0 THEN 0 ELSE t

DInit ==
  /\ series = 1
  /\ taille \in {Retenue(t) : t \in Tailles}
  /\ vues = [j \in 0 .. taille - 1 |-> Zero]
  /\ i = 0 /\ plein = FALSE /\ doublons = 0

(* NewDedup for another series.                                            *)
Nouveau ==
  /\ series' = series + 1
  /\ taille' \in {Retenue(t) : t \in Tailles}
  /\ vues' = [j \in 0 .. taille' - 1 |-> Zero]
  /\ i' = 0 /\ plein' = FALSE /\ doublons' = 0

(* A bug: entries never written are compared too.                          *)
BorneEntiere == taille
Borne == IF plein THEN taille ELSE i
DejaVue(e) == \E j \in 0 .. Borne - 1 : vues[j] = e

(* A bug: the ring forgets that it is full when it wraps.                  *)
RetientSansPlein(e) ==
  /\ vues' = [vues EXCEPT ![i] = e]
  /\ i' = IF i + 1 = taille THEN 0 ELSE i + 1
  /\ UNCHANGED plein
Retient(e) ==
  /\ vues' = [vues EXCEPT ![i] = e]
  /\ i' = IF i + 1 = taille THEN 0 ELSE i + 1
  /\ plein' = (plein \/ i + 1 = taille)

(* DejaVu, by its three outcomes.                                          *)
Inactif == taille = 0 /\ UNCHANGED dvars

Doublon(e) ==
  /\ taille > 0 /\ DejaVue(e)
  /\ doublons' = doublons + 1
  /\ UNCHANGED <<series, taille, vues, i, plein>>

Nouvelle(e) ==
  /\ taille > 0 /\ ~DejaVue(e)
  /\ Retient(e)
  /\ UNCHANGED <<series, taille, doublons>>

DNext == Nouveau \/ \E e \in Empreintes : Inactif \/ Doublon(e) \/ Nouvelle(e)

DSpec == DInit /\ [][DNext]_dvars

-----------------------------------------------------------------------------
(* The prints known, from the oldest: the ring unrolled at its next entry. *)
Connues ==
  IF plein
  THEN [k \in 1..taille |->
          IF i + k - 1 < taille THEN vues[i + k - 1] ELSE vues[i + k - 1 - taille]]
  ELSE [k \in 1..i |-> vues[k - 1]]

M == INSTANCE Memoire WITH connues <- Connues

(* The ring remembers exactly the last prints it stored, neither one more  *)
(* nor one less at the wrap, and never a print it was not given: the zeros *)
(* make leaves in it are not prints.                                       *)
Fifo == M!MSpec
=============================================================================
