------------------------------- MODULE Memoire ------------------------------
(***************************************************************************)
(* What the deduplication ring promises: it knows the last taille prints   *)
(* it has stored, and a print it knows is not stored again, so knowing one *)
(* again does not make it any younger.                                     *)
(***************************************************************************)
EXTENDS Integers, Sequences

CONSTANT Empreintes

VARIABLES
  series,      \* the caches there were so far
  taille,      \* how many prints are remembered
  connues,     \* the prints known, the oldest first
  doublons     \* prints presented while they were known

mvars == <<series, taille, connues, doublons>>

MInit == series = 1 /\ taille \in Nat /\ connues = <<>> /\ doublons = 0

Connue(e) == \E k \in DOMAIN connues : connues[k] = e

Presente(e) ==
  /\ UNCHANGED <<series, taille>>
  /\ IF Connue(e)
     THEN doublons' = doublons + 1 /\ UNCHANGED connues
     ELSE /\ UNCHANGED doublons
          /\ connues' = CASE taille = 0 -> connues
                          [] taille > 0 /\ Len(connues) < taille -> Append(connues, e)
                          [] taille > 0 /\ Len(connues) = taille -> Append(Tail(connues), e)

(* A new cache.                                                            *)
Oublie == series' = series + 1 /\ taille' \in Nat /\ connues' = <<>> /\ doublons' = 0

MNext == Oublie \/ \E e \in Empreintes : Presente(e)

MSpec == MInit /\ [][MNext]_mvars
=============================================================================
