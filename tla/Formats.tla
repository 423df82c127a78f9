------------------------------- MODULE Formats ------------------------------
(***************************************************************************)
(* The Write of internal/snapshot's packed.go, proto.go and json.go, step  *)
(* by step on recycled buffers: take a buffer, fill it, hand it to the     *)
(* io.Writer, which may write a part of it and fail, and give the buffers  *)
(* back on every way out.  What a buffer held before stays in it until it  *)
(* is overwritten.                                                         *)
(***************************************************************************)
EXTENDS Snapshot, FiniteSets

CONSTANT MaxTampons

(* A Write holds four arrays of words at once, and may allocate one more    *)
(* before it drops one that is too short.                                  *)
ASSUME TamponsAssumption == MaxTampons \in Nat /\ MaxTampons >= 5

VARIABLES
  poolActif,
  octets, memO,        \* the pool of bytes, the bytes of every array
  mots, memM,          \* the pool of words
  pc,
  format, doc,         \* the receiver and the argument of Write
  tenusO, tenusM,      \* the arrays Write holds, in the order it took them
  fichier, err         \* what was written so far, the error returned

pools  == <<octets, memO, mots, memM>>
appel  == <<poolActif, format, doc>>
fvars  == <<poolActif, pools, pc, format, doc, tenusO, tenusM, fichier, err>>

O == INSTANCE Pool WITH pot <- octets, mem <- memO
W == INSTANCE Pool WITH pot <- mots, mem <- memM

SansDecor == format = "packedSansDecor"
Sorte(f) == IF f = "packedSansDecor" THEN "packed" ELSE f

(* Write called on the state s: the phase it starts in.                    *)
Ecrire(s) ==
  /\ doc' = s
  /\ fichier' = <<>> /\ err' = FALSE
  /\ pc' = Sorte(format)
  /\ UNCHANGED <<poolActif, format, pools, tenusO, tenusM>>

(* w.Write: the whole piece, or a part of it and an error.  Bound: a piece *)
(* is cut next to its ends, in its middle, or before the last field of a   *)
(* message.                                                                *)
Coupes(n) == {0, 1, n \div 2, n - 1 - Nombre(doc), n - 2, n - 1} \cap 0 .. n - 1
Ecrit(piece, suite) ==
  /\ \/ fichier' = fichier \o piece /\ pc' = suite /\ UNCHANGED err
     \/ \E n \in Coupes(Len(piece)) :
          fichier' = fichier \o SubSeq(piece, 1, n) /\ pc' = "rend" /\ err' = TRUE
  /\ UNCHANGED <<appel, pools, tenusO, tenusM>>

PrendOctets(n, suite) ==
  /\ \E b \in O!Tampons :
       O!Prendre(poolActif, b, n, Range(tenusO)) /\ tenusO' = Append(tenusO, b)
  /\ pc' = suite
  /\ UNCHANGED <<appel, mots, memM, tenusM, fichier, err>>

(* The last buffer taken, its first entries overwritten.                   *)
Remplit(n, valeur(_, _)) ==
  memO' = [memO EXCEPT ![Last(tenusO)] =
             [k \in DOMAIN @ |-> IF k <= n THEN valeur(@[k], k) ELSE @[k]]]
DesOctets(n) == SubSeq(memO[Last(tenusO)], 1, n)

-----------------------------------------------------------------------------
PackedEntete ==
  /\ pc = "packed"
  /\ Ecrit(Entete(doc, SansDecor), IF SansDecor THEN "prendEtat" ELSE "prendDecor")

PackedPrendDecor == pc = "prendDecor" /\ PrendOctets(Nombre(doc), "remplitDecor")

PackedDecor ==
  /\ pc = "remplitDecor"
  /\ Remplit(Nombre(doc), LAMBDA ancien, k : OctetDecor(doc, k))
  /\ pc' = "ecritDecor"
  /\ UNCHANGED <<appel, octets, mots, memM, tenusO, tenusM, fichier, err>>

PackedEcritDecor == pc = "ecritDecor" /\ Ecrit(DesOctets(Nombre(doc)), "prendEtat")

PackedPrendEtat == pc = "prendEtat" /\ PrendOctets(Moitie(doc), "remplitEtat")

PackedEtat ==
  /\ pc = "remplitEtat"
  /\ Remplit(Moitie(doc), LAMBDA ancien, k : OctetEtat(ancien, doc, k))
  /\ pc' = "ecritEtat"
  /\ UNCHANGED <<appel, octets, mots, memM, tenusO, tenusM, fichier, err>>

PackedEcritEtat == pc = "ecritEtat" /\ Ecrit(DesOctets(Moitie(doc)), "rend")

-----------------------------------------------------------------------------
(* Four slices of words are taken before any of them is filled.            *)
ProtoPrend ==
  /\ pc = "proto" /\ Len(tenusM) < 4
  /\ \E b \in W!Tampons :
       W!Prendre(poolActif, b, Nombre(doc), Range(tenusM)) /\ tenusM' = Append(tenusM, b)
  /\ UNCHANGED <<appel, octets, memO, pc, tenusO, fichier, err>>

Champs(s) == <<s.terrain, s.wind, s.fire, s.rest>>
ProtoConvertit ==
  /\ pc = "proto" /\ Len(tenusM) = 4
  /\ memM' = [b \in W!Tampons |->
       [k \in DOMAIN memM[b] |->
          IF b \in Range(tenusM) /\ k <= Nombre(doc)
          THEN Champs(doc)[Max({g \in 1..4 : tenusM[g] = b})][k] ELSE memM[b][k]]]
  /\ pc' = "marshal"
  /\ UNCHANGED <<appel, octets, memO, mots, tenusO, tenusM, fichier, err>>

(* prendreOctets(0) then MarshalAppend: a slice of the pot with room for   *)
(* the message, or a new one while the slice taken, too short, is lost.    *)
ProtoTampon == pc = "marshal" /\ PrendOctets(TailleMessage(doc), "code")

ProtoMarshal ==
  /\ pc = "code"
  /\ LET message == Message(doc, [g \in 1..4 |-> memM[tenusM[g]]]) IN
     Remplit(TailleMessage(doc), LAMBDA ancien, k : message[k])
  /\ pc' = "ecritProto"
  /\ UNCHANGED <<appel, octets, mots, memM, tenusO, tenusM, fichier, err>>

ProtoEcrit == pc = "ecritProto" /\ Ecrit(DesOctets(TailleMessage(doc)), "rend")

-----------------------------------------------------------------------------
JSONEcrit == pc = "json" /\ Ecrit(Document(doc), "rend")

(* The deferred calls, on every way out: the bytes last taken first, the   *)
(* words in their order.                                                   *)
Rend ==
  /\ pc = "rend"
  /\ octets' = O!Rendre(poolActif, Reverse(tenusO)) /\ memO' = O!Garde(poolActif, tenusO)
  /\ mots' = W!Rendre(poolActif, tenusM) /\ memM' = W!Garde(poolActif, tenusM)
  /\ tenusO' = <<>> /\ tenusM' = <<>>
  /\ pc' = "rendu"
  /\ UNCHANGED <<appel, fichier, err>>

(* Between two calls the collector may empty both pools.                   *)
Collecte ==
  /\ pc \in {"packed", "proto"} /\ tenusM = <<>>
  /\ O!Ramasse \/ (octets = <<>> /\ UNCHANGED <<octets, memO>>)
  /\ W!Ramasse \/ (mots = <<>> /\ UNCHANGED <<mots, memM>>)
  /\ UNCHANGED <<appel, pc, tenusO, tenusM, fichier, err>>

FNext ==
  \/ PackedEntete \/ PackedPrendDecor \/ PackedDecor \/ PackedEcritDecor
  \/ PackedPrendEtat \/ PackedEtat \/ PackedEcritEtat
  \/ ProtoPrend \/ ProtoConvertit \/ ProtoTampon \/ ProtoMarshal \/ ProtoEcrit
  \/ JSONEcrit \/ Rend \/ Collecte

-----------------------------------------------------------------------------
(* The bytes the documentation of a format gives for a state.              *)
Attendu(f, s) ==
  CASE f = "packed" ->
         Entete(s, FALSE) \o [k \in 1 .. Nombre(s) |-> OctetDecor(s, k)]
                          \o [k \in 1 .. Moitie(s) |-> OctetEtat(0, s, k)]
    [] f = "packedSansDecor" ->
         Entete(s, TRUE) \o [k \in 1 .. Moitie(s) |-> OctetEtat(0, s, k)]
    [] f = "proto" -> Message(s, Champs(s))
    [] f = "json"  -> Document(s)

(* What Read must give back: everything but the decor that was left out.   *)
Rendu(f, s) ==
  IF f = "packedSansDecor"
  THEN [s EXCEPT !.terrain = [k \in DOMAIN @ |-> 0], !.wind = [k \in DOMAIN @ |-> 0]]
  ELSE s

(* A file depends on the state and on nothing else: no byte of an earlier  *)
(* snapshot, larger or smaller, in the same format or another, survives in *)
(* the recycled buffer it was written from.                                *)
SansResidu == pc = "rendu" /\ ~err => fichier = Attendu(format, doc)

(* A format reads back what it wrote, and whatever a failed Write left, at *)
(* whatever byte it stopped, is refused or complete: a file is right or    *)
(* unreadable, never a state that was not captured.                        *)
AllerRetour ==
  pc = "rendu" =>
    \/ Lire(format, fichier) = Rendu(format, doc)
    \/ err /\ Lire(format, fichier) = Illisible

(* A recycled array has one owner: it is in the pot once, or in the hands  *)
(* of one field of one Write.                                              *)
TamponExclusif ==
  /\ O!Exclusif(Range(tenusO)) /\ W!Exclusif(Range(tenusM))
  /\ IsInjective(tenusO) /\ IsInjective(tenusM)
=============================================================================
