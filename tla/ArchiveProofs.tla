---------------------------- MODULE ArchiveProofs ---------------------------
(***************************************************************************)
(* What internal/snapshot promises to whoever archives a run: the ring     *)
(* knows the last prints it stored, no state it omits is missing from the  *)
(* series, no array has two owners and no file keeps a byte of another.    *)
(***************************************************************************)
EXTENDS Archive, SequenceTheorems, FiniteSetTheorems, TLAPS

(* The ring: its next entry is one of its own, and it is full or was       *)
(* written up to there.                                                    *)
AnneauOK ==
  /\ taille \in Nat /\ plein \in BOOLEAN
  /\ vues = [j \in 0 .. taille - 1 |-> vues[j]]
  /\ IF taille = 0 THEN i = 0 /\ ~plein ELSE i \in 0 .. taille - 1

(* The entry of the ring that holds the k-th oldest print.                 *)
Rang(k) ==
  IF ~plein THEN k - 1 ELSE IF i + k - 1 < taille THEN i + k - 1 ELSE i + k - 1 - taille

(* The steps of a Write, until it returns.                                 *)
Phases == {"packed", "prendDecor", "remplitDecor", "ecritDecor",
           "prendEtat", "remplitEtat", "ecritEtat",
           "proto", "marshal", "code", "ecritProto", "json", "rend", "rendu"}

(* What the ring knows is in the archive, or is the state being written,   *)
(* which is that of a turn to be captured.                                 *)
Sues == {vues[j] : j \in 0 .. Borne - 1}
SerieOK ==
  /\ AnneauOK
  /\ format \in Formats
  /\ tour \in Nat /\ periode \in Nat \ {0}
  /\ pc \in {"capture", "avance", "fin"} \cup Phases
  /\ pc = "capture" => tour % periode = 0
  /\ pc \in {"capture", "avance"} => Sues \subseteq archives
  /\ pc \in Phases =>
       doc = Captee /\ tour % periode = 0 /\ Sues \subseteq archives \cup {Empreinte(doc)}
  /\ RienDePerdu

(* A pot p and the arrays t in use: each array once, and no more than a    *)
(* Write ever holds; without recycling the pot stays empty.                *)
Tableaux == 1 .. MaxTampons
EtatPool(p, t, cap) ==
  /\ p \in Seq(Tableaux) /\ t \in Seq(Tableaux)
  /\ IsInjective(p) /\ IsInjective(t) /\ Range(p) \cap Range(t) = {}
  /\ Len(p) + Len(t) <= cap
  /\ ~poolActif => p = <<>>

(* How many arrays of bytes and of words the step p of a Write finds held. *)
Longueurs(p, o, m) ==
  /\ p \in {"remplitDecor", "ecritDecor", "code", "ecritProto"} => o = 1
  /\ p = "prendEtat" => o <= 1
  /\ p \in {"remplitEtat", "ecritEtat"} => o \in 1..2
  /\ p \in {"capture", "avance", "fin", "packed", "prendDecor", "proto", "marshal",
            "json", "rendu"} => o = 0
  /\ p \in {"marshal", "code", "ecritProto"} => m = 4
  /\ p \notin {"proto", "marshal", "code", "ecritProto", "rend"} => m = 0

TamponsOK ==
  /\ poolActif \in BOOLEAN
  /\ pc \in {"capture", "avance", "fin"} \cup Phases
  /\ EtatPool(octets, tenusO, 2) /\ EtatPool(mots, tenusM, 4)
  /\ Longueurs(pc, Len(tenusO), Len(tenusM))

(* The arrays of a pool hold sequences, none when they are garbage.        *)
Memoire(m) ==
  m = [b \in Tableaux |-> m[b]] /\ \A b \in Tableaux : m[b] \in Seq(Range(m[b]))

(* What is written of a packed file before its state, and the buffer that  *)
(* was taken last.                                                         *)
Decor == [k \in 1 .. Nombre(doc) |-> OctetDecor(doc, k)]
Etat  == [k \in 1 .. Moitie(doc) |-> OctetEtat(0, doc, k)]
Debut == IF SansDecor THEN Entete(doc, TRUE) ELSE Entete(doc, FALSE) \o Decor
Tampon == memO[tenusO[Len(tenusO)]]

(* What was written so far is the beginning of the file the documentation  *)
(* gives, and the part of the buffers that will be written is its sequel.  *)
EcritJuste ==
  /\ pc \in {"packed", "prendDecor", "remplitDecor", "ecritDecor",
             "prendEtat", "remplitEtat", "ecritEtat"} =>
       format \in {"packed", "packedSansDecor"}
  /\ pc \in {"prendDecor", "remplitDecor", "ecritDecor"} => format = "packed"
  /\ pc \in {"proto", "marshal", "code", "ecritProto"} => format = "proto"
  /\ pc = "json" => format = "json"
  /\ pc \in {"packed", "proto", "marshal", "code", "ecritProto", "json"} => fichier = <<>>
  /\ pc \in {"prendDecor", "remplitDecor", "ecritDecor"} => fichier = Entete(doc, FALSE)
  /\ pc \in {"prendEtat", "remplitEtat", "ecritEtat"} => fichier = Debut
  /\ pc \in {"rend", "rendu"} => err \/ fichier = Attendu(format, doc)

TamponJuste ==
  /\ pc = "remplitDecor" => Len(Tampon) >= Nombre(doc)
  /\ pc = "ecritDecor" => SubSeq(Tampon, 1, Nombre(doc)) = Decor
  /\ pc = "remplitEtat" => Len(Tampon) >= Moitie(doc)
  /\ pc = "ecritEtat" => SubSeq(Tampon, 1, Moitie(doc)) = Etat
  /\ pc = "code" => Len(Tampon) >= TailleMessage(doc)
  /\ pc = "ecritProto" =>
       SubSeq(Tampon, 1, TailleMessage(doc)) = Message(doc, Champs(doc))

MotsJustes ==
  /\ pc = "proto" => \A g \in 1 .. Len(tenusM) : Len(memM[tenusM[g]]) >= Nombre(doc)
  /\ pc \in {"marshal", "code"} =>
       \A g \in 1..4 : \A k \in 1 .. Nombre(doc) : memM[tenusM[g]][k] = Champs(doc)[g][k]

ContenuOK ==
  /\ carte.width \in Nat /\ carte.height \in Nat
  /\ Memoire(memO) /\ Memoire(memM)
  /\ pc \in Phases => Nombre(doc) \in Nat
  /\ EcritJuste /\ TamponJuste /\ MotsJustes

-----------------------------------------------------------------------------
(* The caches of any size NewDedup makes.                                  *)
LEMMA AnneauNeuf ==
  ASSUME NEW t \in Tailles
  PROVE  Retenue(t) \in Nat
BY TaillesAssumption DEF Retenue

LEMMA AnneauInit == DInit => AnneauOK
<1> SUFFICES ASSUME DInit PROVE AnneauOK
  OBVIOUS
<1>0. taille \in Nat /\ i = 0 /\ plein = FALSE
  BY AnneauNeuf DEF DInit
<1>1. taille # 0 => i \in 0 .. taille - 1
  BY <1>0
<1>2. vues = [j \in 0 .. taille - 1 |-> vues[j]]
  BY DEF DInit
<1> QED
  BY <1>0, <1>1, <1>2 DEF AnneauOK

(* Storing a print keeps the ring one.                                     *)
LEMMA AnneauRetient ==
  ASSUME AnneauOK, taille > 0, taille' = taille, NEW e, Retient(e)
  PROVE  AnneauOK'
<1>1. taille \in Nat /\ i \in 0 .. taille - 1 /\ plein \in BOOLEAN
  BY DEF AnneauOK
<1>2. vues' = [j \in 0 .. taille' - 1 |-> vues'[j]]
  BY DEF AnneauOK, Retient
<1>3. i' \in 0 .. taille' - 1
  BY <1>1 DEF Retient
<1>4. plein' \in BOOLEAN
  BY <1>1 DEF Retient
<1> QED
  BY <1>1, <1>2, <1>3, <1>4 DEF AnneauOK

LEMMA AnneauSuite ==
  ASSUME AnneauOK, [DNext]_dvars
  PROVE  AnneauOK'
<1>1. CASE Nouveau
  <2>0. taille' \in Nat /\ i' = 0 /\ plein' = FALSE
    BY <1>1, AnneauNeuf DEF Nouveau
  <2>1. ASSUME NEW t \in Nat, NEW x, t # 0, x = 0
        PROVE  x \in 0 .. t - 1
    BY <2>1
  <2>2. vues' = [j \in 0 .. taille' - 1 |-> vues'[j]]
    BY <1>1 DEF Nouveau
  <2> QED
    BY <2>0, <2>1, <2>2 DEF AnneauOK
<1>2. ASSUME NEW e \in Empreintes, Nouvelle(e)
      PROVE  AnneauOK'
  BY <1>2, AnneauRetient DEF Nouvelle
<1>3. CASE UNCHANGED <<taille, vues, i, plein>>
  BY <1>3 DEF AnneauOK
<1> QED
  BY <1>1, <1>2, <1>3 DEF DNext, Inactif, Doublon, dvars

-----------------------------------------------------------------------------
(* The prints the ring knows, read in the order they were stored.          *)
LEMMA Deroule ==
  ASSUME AnneauOK
  PROVE  /\ Borne \in 0 .. taille
         /\ Connues = [k \in 1 .. Borne |-> vues[Rang(k)]]
         /\ \A k \in 1 .. Borne : Rang(k) \in 0 .. Borne - 1
         /\ \A j \in 0 .. Borne - 1 : \E k \in 1 .. Borne : Rang(k) = j
<1>1. taille \in Nat /\ i \in Nat /\ i <= taille /\ plein \in BOOLEAN
      /\ (plein => i < taille)
  BY DEF AnneauOK
<1>2. Borne \in 0 .. taille
  BY <1>1 DEF Borne
<1>3. Connues = [k \in 1 .. Borne |-> vues[Rang(k)]]
  <2>1. CASE plein
    BY <1>1, <2>1 DEF Connues, Borne, Rang
  <2>2. CASE ~plein
    BY <1>1, <2>2 DEF Connues, Borne, Rang
  <2> QED
    BY <2>1, <2>2
<1>4. \A k \in 1 .. Borne : Rang(k) \in 0 .. Borne - 1
  BY <1>1 DEF Borne, Rang
<1>5. ASSUME NEW j \in 0 .. Borne - 1
      PROVE  \E k \in 1 .. Borne : Rang(k) = j
  <2>1. CASE plein /\ j >= i
    <3>1. j - i + 1 \in 1 .. Borne /\ Rang(j - i + 1) = j
      BY <1>1, <2>1 DEF Borne, Rang
    <3> QED
      BY <3>1
  <2>2. CASE plein /\ ~(j >= i)
    <3>1. j - i + 1 + taille \in 1 .. Borne /\ Rang(j - i + 1 + taille) = j
      BY <1>1, <2>2 DEF Borne, Rang
    <3> QED
      BY <3>1
  <2>3. CASE ~plein
    <3>1. j + 1 \in 1 .. Borne /\ Rang(j + 1) = j
      BY <1>1, <2>3 DEF Borne, Rang
    <3> QED
      BY <3>1
  <2> QED
    BY <2>1, <2>2, <2>3
<1> QED
  BY <1>2, <1>3, <1>4, <1>5

(* A print is known of the ring when it is one of them.                    *)
LEMMA MemesConnues ==
  ASSUME AnneauOK, NEW e
  PROVE  DejaVue(e) <=> M!Connue(e)
BY Deroule DEF DejaVue, M!Connue

(* They are a sequence, of the length the ring is written up to.           *)
LEMMA SuiteConnue ==
  ASSUME AnneauOK, NEW S, \A j \in 0 .. taille - 1 : vues[j] \in S
  PROVE  /\ Connues \in Seq(S) /\ Len(Connues) = Borne
         /\ \A k \in 1 .. Borne : Connues[k] = vues[Rang(k)]
<1>1. Borne \in Nat /\ Borne <= taille /\ taille \in Nat
  BY Deroule DEF AnneauOK
<1>2. \A k \in 1 .. Borne : vues[Rang(k)] \in S
  BY <1>1, Deroule
<1>3. Connues \in [1 .. Borne -> S]
  BY <1>2, Deroule
<1> QED
  BY <1>1, <1>3, Deroule

LEMMA SuiteFonction ==
  ASSUME NEW S, NEW s \in Seq(S)
  PROVE  s = [k \in 1 .. Len(s) |-> s[k]]
OBVIOUS

(* Storing a print adds it to the end of them, and drops the oldest when   *)
(* the ring is full: at the wrap as anywhere else.                         *)
LEMMA RetientConnues ==
  ASSUME AnneauOK, taille > 0, taille' = taille, NEW e, Retient(e)
  PROVE  Connues' = IF Len(Connues) < taille THEN Append(Connues, e)
                    ELSE Append(Tail(Connues), e)
<1> DEFINE S == {vues[j] : j \in 0 .. taille - 1} \cup {e}
<1>1. /\ AnneauOK' /\ taille \in Nat /\ i \in 0 .. taille - 1 /\ plein \in BOOLEAN
      /\ e \in S /\ \A j \in 0 .. taille - 1 : vues[j] \in S
  BY AnneauRetient DEF AnneauOK
<1>2. /\ \A j \in 0 .. taille - 1 : vues'[j] = IF j = i THEN e ELSE vues[j]
      /\ i' = IF i + 1 = taille THEN 0 ELSE i + 1
      /\ plein' = (plein \/ i + 1 = taille)
  BY DEF Retient, AnneauOK
<1> HIDE DEF S
<1>3. /\ Connues \in Seq(S) /\ Len(Connues) = Borne
      /\ \A k \in 1 .. Borne : Connues[k] = vues[Rang(k)]
  BY <1>1, SuiteConnue
<1>4. Connues' = [k \in 1 .. Borne' |-> vues'[Rang(k)']]
  <2>1. CASE plein'
    BY <1>1, <2>1 DEF AnneauOK, Connues, Borne, Rang
  <2>2. CASE ~plein'
    BY <1>1, <2>2 DEF AnneauOK, Connues, Borne, Rang
  <2> QED
    BY <2>1, <2>2
<1>5. \A k \in 1 .. Borne : Rang(k) \in 0 .. Borne - 1
  BY Deroule
<1>6. CASE ~plein
  <2>1. Borne = i /\ Len(Connues) < taille
    BY <1>1, <1>3, <1>6 DEF Borne
  <2>2. /\ Borne' = i + 1
        /\ \A k \in 1 .. i + 1 : Rang(k)' = k - 1
    <3>1. CASE i + 1 = taille
      <4>1. plein' /\ i' = 0
        BY <1>2, <3>1
      <4> QED
        BY <1>1, <3>1, <4>1 DEF Borne, Rang
    <3>2. CASE i + 1 # taille
      <4>1. ~plein' /\ i' = i + 1
        BY <1>2, <1>6, <3>2
      <4> QED
        BY <1>1, <3>2, <4>1 DEF Borne, Rang
    <3> QED
      BY <3>1, <3>2
  <2>7. ASSUME NEW k \in 1 .. i + 1
        PROVE  k <= i => Rang(k) = k - 1
    BY <1>6 DEF Rang
  <2>3. ASSUME NEW k \in 1 .. i + 1
        PROVE  Connues'[k] = Append(Connues, e)[k]
    <3>1. k - 1 \in 0 .. taille - 1 /\ (k - 1 = i <=> k = i + 1)
      BY <1>1, <2>3
    <3>2. Connues'[k] = IF k = i + 1 THEN e ELSE vues[k - 1]
      BY <1>2, <1>4, <2>1, <2>2, <2>3, <3>1
    <3>3. Append(Connues, e)[k] = IF k = i + 1 THEN e ELSE Connues[k]
      BY <1>1, <1>3, <2>1, <2>3, AppendProperties
    <3>4. k # i + 1 => k \in 1 .. Borne /\ Connues[k] = vues[k - 1]
      BY <1>1, <1>3, <2>1, <2>7, <2>3
    <3> QED
      BY <3>2, <3>3, <3>4
  <2>4. Append(Connues, e) \in Seq(S) /\ Len(Append(Connues, e)) = i + 1
    BY <1>1, <1>3, <2>1, AppendProperties
  <2>5. Append(Connues, e) = [k \in 1 .. i + 1 |-> Append(Connues, e)[k]]
    BY <2>4, SuiteFonction
  <2>6. Connues' = [k \in 1 .. i + 1 |-> Connues'[k]]
    BY <1>4, <2>2
  <2> QED
    BY <2>1, <2>3, <2>5, <2>6
<1>7. CASE plein
  <2> DEFINE T == Tail(Connues)
  <2>7. plein'
    BY <1>2, <1>7
  <2>1. Borne = taille /\ ~(Len(Connues) < taille) /\ Borne' = taille
    BY <1>1, <1>3, <1>7, <2>7 DEF Borne
  <2>2. T \in Seq(S) /\ Len(T) = taille - 1 /\ \A k \in 1 .. taille - 1 : T[k] = Connues[k + 1]
    BY <1>1, <1>3, <2>1, HeadTailProperties, EmptySeq
  <2> HIDE DEF T
  <2>3. ASSUME NEW k \in 1 .. taille
        PROVE  /\ Rang(k)' \in 0 .. taille - 1 /\ (Rang(k)' = i <=> k = taille)
               /\ (k < taille => Rang(k)' = Rang(k + 1))
    <3>1. Rang(k)' = IF i' + k - 1 < taille THEN i' + k - 1 ELSE i' + k - 1 - taille
      BY <2>7 DEF Rang
    <3>2. Rang(k + 1) = IF i + k < taille THEN i + k ELSE i + k - taille
      BY <1>1, <1>7 DEF Rang
    <3>3. i' = IF i + 1 = taille THEN 0 ELSE i + 1
      BY <1>2
    <3> QED
      BY <1>1, <2>3, <3>1, <3>2, <3>3
  <2>4. ASSUME NEW k \in 1 .. taille
        PROVE  Connues'[k] = Append(T, e)[k]
    <3>1. Connues'[k] = IF k = taille THEN e ELSE vues[Rang(k + 1)]
      <4>1. Connues'[k] = vues'[Rang(k)'] /\ Rang(k)' \in 0 .. taille - 1
        BY <1>4, <2>1, <2>3, <2>4
      <4>2. CASE k = taille
        BY <1>2, <2>3, <2>4, <4>1, <4>2
      <4>3. CASE k # taille
        <5>1. Rang(k)' # i /\ Rang(k)' = Rang(k + 1)
          BY <1>1, <2>3, <2>4, <4>3
        <5> QED
          BY <1>2, <4>1, <4>3, <5>1
      <4> QED
        BY <4>2, <4>3
    <3>2. Append(T, e)[k] = IF k = taille THEN e ELSE T[k]
      BY <1>1, <2>2, <2>4, AppendProperties
    <3>3. k # taille => T[k] = vues[Rang(k + 1)]
      BY <1>1, <1>3, <2>1, <2>2, <2>4
    <3> QED
      BY <3>1, <3>2, <3>3
  <2>8. Append(T, e) \in Seq(S) /\ Len(Append(T, e)) = taille
    BY <1>1, <2>2, AppendProperties
  <2>5. Append(T, e) = [k \in 1 .. taille |-> Append(T, e)[k]]
    BY <2>8, SuiteFonction
  <2>6. Connues' = [k \in 1 .. taille |-> Connues'[k]]
    BY <1>4, <2>1
  <2> QED
    BY <2>1, <2>4, <2>5, <2>6 DEF T
<1> QED
  BY <1>1, <1>6, <1>7

(* Nothing is known of an empty ring.                                      *)
LEMMA RienDeConnu ==
  ASSUME i = 0, plein = FALSE
  PROVE  Connues = <<>>
BY DEF Connues

-----------------------------------------------------------------------------
(* Every step of the ring is one of the memory it implements.              *)
LEMMA AnneauMemoire ==
  ASSUME AnneauOK, [DNext]_dvars
  PROVE  [M!MNext]_(M!mvars)
<1>1. CASE Nouveau
  <2>1. series' = series + 1 /\ doublons' = 0 /\ taille' \in Nat /\ i' = 0 /\ plein' = FALSE
    BY <1>1, AnneauNeuf DEF Nouveau
  <2>2. Connues' = <<>>
    BY <2>1 DEF Connues
  <2> QED
    BY <2>1, <2>2 DEF M!MNext, M!Oublie
<1>2. ASSUME NEW e \in Empreintes, Doublon(e)
      PROVE  M!MNext
  <2>1. M!Connue(e) /\ Connues' = Connues
    BY <1>2, MemesConnues DEF Doublon, Connues
  <2> QED
    BY <1>2, <2>1 DEF Doublon, M!MNext, M!Presente
<1>3. ASSUME NEW e \in Empreintes, Nouvelle(e)
      PROVE  M!MNext
  <2>1. /\ taille > 0 /\ ~M!Connue(e) /\ Retient(e) /\ taille \in Nat
        /\ UNCHANGED <<series, taille, doublons>>
    BY <1>3, MemesConnues DEF Nouvelle, AnneauOK
  <2>2. Connues' = IF Len(Connues) < taille THEN Append(Connues, e)
                   ELSE Append(Tail(Connues), e)
    BY <2>1, RetientConnues
  <2>3. Len(Connues) <= taille /\ Len(Connues) \in Nat
    BY <2>1, Deroule, SuiteConnue DEF AnneauOK
  <2>4. Connues' = CASE taille = 0 -> Connues
                     [] taille > 0 /\ Len(Connues) < taille -> Append(Connues, e)
                     [] taille > 0 /\ Len(Connues) = taille -> Append(Tail(Connues), e)
    BY <2>1, <2>2, <2>3
  <2> QED
    BY <2>1, <2>4 DEF M!MNext, M!Presente
<1>4. CASE UNCHANGED dvars
  BY <1>4 DEF dvars, Connues, M!mvars
<1> QED
  BY <1>1, <1>2, <1>3, <1>4 DEF DNext, Inactif

(* The ring of dedup.go, of any size and for any prints, knows the last    *)
(* ones it stored and no other: neither one more nor one less at the wrap, *)
(* and never the zeros it was made of.                                     *)
THEOREM AnneauFidele == DSpec => Fifo
<1>1. DInit => M!MInit
  <2> SUFFICES ASSUME DInit PROVE M!MInit
    OBVIOUS
  <2>1. series = 1 /\ doublons = 0 /\ taille \in Nat /\ i = 0 /\ plein = FALSE
    BY AnneauNeuf DEF DInit
  <2>2. Connues = <<>>
    BY <2>1, RienDeConnu
  <2> QED
    BY <2>1, <2>2 DEF M!MInit
<1> QED
  BY <1>1, AnneauInit, AnneauSuite, AnneauMemoire, PTL DEF DSpec, Fifo, M!MSpec

-----------------------------------------------------------------------------
(* What the ring knows after it stored a print: that one, and nothing that *)
(* it did not know before.                                                 *)
LEMMA SuesRetient ==
  ASSUME AnneauOK, taille > 0, taille' = taille, NEW e, Retient(e)
  PROVE  Sues' \subseteq Sues \cup {e}
<1>1. /\ taille \in Nat /\ i \in 0 .. taille - 1
      /\ \A j \in 0 .. taille - 1 : vues'[j] = IF j = i THEN e ELSE vues[j]
  BY DEF AnneauOK, Retient
<1>2. Borne' \in 0 .. taille /\ (~plein => Borne' <= i + 1)
  <2>1. CASE i + 1 = taille
    <3>1. plein'
      BY <2>1 DEF Retient
    <3> QED
      BY <1>1, <2>1, <3>1 DEF Borne
  <2>2. CASE i + 1 # taille
    <3>1. i' = i + 1 /\ (plein' <=> plein)
      BY <2>2 DEF Retient
    <3> QED
      BY <1>1, <2>2, <3>1 DEF Borne
  <2> QED
    BY <2>1, <2>2
<1>3. ASSUME NEW j \in 0 .. Borne' - 1
      PROVE  vues'[j] \in Sues \cup {e}
  <2> DEFINE b == Borne'
  <2>0. b \in 0 .. taille /\ j \in 0 .. b - 1 /\ (~plein => b <= i + 1)
    BY <1>2
  <2> HIDE DEF b
  <2>1. j \in 0 .. taille - 1 /\ (~plein => j <= i)
    BY <1>1, <2>0
  <2>2. CASE j = i
    BY <1>1, <2>1, <2>2
  <2>3. CASE j # i
    <3>1. j \in 0 .. Borne - 1
      BY <1>1, <2>1, <2>3 DEF Borne
    <3> QED
      BY <1>1, <2>1, <2>3, <3>1 DEF Sues
  <2> QED
    BY <2>2, <2>3
<1> QED
  BY <1>3 DEF Sues

(* Turn 0 is captured, and 0 is the remainder of every period.             *)
LEMMA TourZero ==
  ASSUME NEW p \in Nat \ {0}
  PROVE  0 % p = 0
BY Z3

(* Every step of a Write leaves the argument as it was.                    *)
LEMMA PhaseSuivante ==
  ASSUME FNext
  PROVE  pc \in Phases /\ pc' \in Phases /\ doc' = doc /\ format' = format
<1>1. ASSUME NEW piece, NEW suite \in Phases, Ecrit(piece, suite)
      PROVE  pc' \in Phases /\ doc' = doc /\ format' = format
  BY <1>1 DEF Ecrit, Phases, appel
<1>2. ASSUME NEW n, NEW suite \in Phases, PrendOctets(n, suite)
      PROVE  pc' \in Phases /\ doc' = doc /\ format' = format
  BY <1>2 DEF PrendOctets, appel
<1>3. CASE PackedEntete \/ PackedEcritDecor \/ PackedEcritEtat \/ ProtoEcrit \/ JSONEcrit
  BY <1>1, <1>3 DEF PackedEntete, PackedEcritDecor, PackedEcritEtat, ProtoEcrit, JSONEcrit, Phases
<1>4. CASE PackedPrendDecor \/ PackedPrendEtat \/ ProtoTampon
  BY <1>2, <1>4 DEF PackedPrendDecor, PackedPrendEtat, ProtoTampon, Phases
<1>5. CASE PackedDecor \/ PackedEtat \/ ProtoMarshal \/ Rend
  BY <1>5 DEF PackedDecor, PackedEtat, ProtoMarshal, Rend, Phases, appel
<1>6. CASE ProtoPrend \/ ProtoConvertit \/ Collecte
  BY <1>6 DEF ProtoPrend, ProtoConvertit, Collecte, Phases, appel
<1> QED
  BY <1>3, <1>4, <1>5, <1>6 DEF FNext

LEMMA InitSerie == Init => SerieOK
<1> SUFFICES ASSUME Init PROVE SerieOK
  OBVIOUS
<1>1. AnneauOK /\ i = 0 /\ plein = FALSE
  BY AnneauInit DEF Init, DInit
<1>2. format \in Formats /\ periode \in Nat \ {0} /\ tour = 0 /\ pc = "capture"
  BY ArchiveAssumption DEF Init
<1>3. tour % periode = 0
  BY <1>2, TourZero
<1>4. Sues = {}
  BY <1>1 DEF Sues, Borne
<1> QED
  BY <1>1, <1>2, <1>3, <1>4 DEF SerieOK, RienDePerdu, Phases

LEMMA SuiteSerie ==
  ASSUME SerieOK, [Next]_vars
  PROVE  SerieOK'
<1>1. /\ AnneauOK /\ format \in Formats /\ tour \in Nat /\ periode \in Nat \ {0}
      /\ pc \in {"capture", "avance", "fin"} \cup Phases
  BY DEF SerieOK
<1>2. CASE Omet
  <2>1. /\ pc = "capture" /\ pc' = "avance" /\ DejaVue(Empreinte(Captee))
        /\ UNCHANGED <<taille, vues, i, plein, format, carte, feu, repos, tour, periode, archives>>
    BY <1>2 DEF Omet, Doublon, serie, appel
  <2>2. AnneauOK' /\ Sues' = Sues /\ Empreinte(Captee)' = Empreinte(Captee)
    BY <1>1, <2>1 DEF AnneauOK, Sues, Borne, Captee
  <2>3. Empreinte(Captee) \in archives /\ Sues \subseteq archives
    BY <2>1 DEF SerieOK, DejaVue, Sues
  <2> QED
    BY <1>1, <2>1, <2>2, <2>3 DEF SerieOK, RienDePerdu, Phases
<1>3. CASE Releve
  <2>1. /\ pc = "capture" /\ doc' = Captee /\ format' = format
        /\ UNCHANGED <<carte, feu, repos, tour, periode, archives>>
        /\ pc' = Sorte(format)
        /\ tour % periode = 0 /\ Sues \subseteq archives
    BY <1>3 DEF Releve, Ecrire, serie, SerieOK
  <2>2. pc' \in {"packed", "proto", "json"}
    BY <1>1, <2>1 DEF Sorte, Formats
  <2>3. Captee' = Captee
    BY <2>1 DEF Captee
  <2>4. AnneauOK' /\ Sues' \subseteq archives \cup {Empreinte(Captee)}
    <3>1. CASE taille > 0
      <4>1. Nouvelle(Empreinte(Captee))
        BY <1>3, <3>1 DEF Releve
      <4> QED
        BY <1>1, <2>1, <3>1, <4>1, SuesRetient, AnneauRetient DEF Nouvelle
    <3>2. CASE ~(taille > 0)
      <4>1. UNCHANGED <<taille, vues, i, plein>>
        BY <1>3, <3>2 DEF Releve, Inactif, dvars
      <4> QED
        BY <1>1, <2>1, <4>1 DEF AnneauOK, Sues, Borne
    <3> QED
      BY <3>1, <3>2
  <2> QED
    BY <1>1, <2>1, <2>2, <2>3, <2>4 DEF SerieOK, RienDePerdu, Phases
<1>4. CASE Ecriture
  <2>1. /\ pc \in Phases /\ pc' \in Phases /\ doc' = doc /\ format' = format
        /\ UNCHANGED <<taille, vues, i, plein, carte, feu, repos, tour, periode, archives>>
    BY <1>4, PhaseSuivante DEF Ecriture, dvars, serie
  <2>2. AnneauOK' /\ Sues' = Sues /\ Captee' = Captee
    BY <1>1, <2>1 DEF AnneauOK, Sues, Borne, Captee
  <2> QED
    BY <1>1, <2>1, <2>2 DEF SerieOK, RienDePerdu, Phases
<1>5. CASE Revient
  <2>1. /\ pc = "rendu" /\ format' = format
        /\ UNCHANGED <<taille, vues, i, plein, carte, feu, repos, tour, periode>>
        /\ \/ pc' = "fin"
           \/ pc' = "avance" /\ archives' = archives \cup {Empreinte(doc)}
    BY <1>5 DEF Revient, dvars, appel
  <2>2. AnneauOK' /\ Sues' = Sues /\ Captee' = Captee
    BY <1>1, <2>1 DEF AnneauOK, Sues, Borne, Captee
  <2>3. doc = Captee /\ Sues \subseteq archives \cup {Empreinte(doc)}
    BY <2>1 DEF SerieOK, Phases
  <2> QED
    BY <1>1, <2>1, <2>2, <2>3 DEF SerieOK, RienDePerdu, Phases
<1>6. CASE Avance
  <2>1. /\ pc = "avance" /\ format' = format
        /\ UNCHANGED <<taille, vues, i, plein, periode, archives>>
        /\ tour' = tour + 1
        /\ pc' = IF tour' % periode = 0 THEN "capture" ELSE "avance"
    BY <1>6 DEF Avance, dvars, appel
  <2>2. AnneauOK' /\ Sues' = Sues
    BY <1>1, <2>1 DEF AnneauOK, Sues, Borne
  <2>3. Sues \subseteq archives
    BY <2>1 DEF SerieOK
  <2> QED
    BY <1>1, <2>1, <2>2, <2>3 DEF SerieOK, RienDePerdu, Phases
<1>7. CASE Suivante
  <2>1. /\ Nouveau /\ pc' = "capture" /\ tour' = 0
        /\ format' \in Formats /\ periode' \in Nat \ {0}
    BY <1>7, ArchiveAssumption DEF Suivante
  <2>2. AnneauOK' /\ i' = 0 /\ plein' = FALSE
    BY <1>1, <2>1, AnneauSuite DEF DNext, Nouveau
  <2>3. Sues' = {}
    BY <2>2 DEF Sues, Borne
  <2>4. tour' % periode' = 0
    BY <2>1, TourZero
  <2> QED
    BY <2>1, <2>2, <2>3, <2>4 DEF SerieOK, RienDePerdu, Phases
<1>8. CASE UNCHANGED vars
  <2>1. /\ UNCHANGED <<taille, vues, i, plein, format, doc, pc, carte, feu, repos>>
        /\ UNCHANGED <<tour, periode, archives>>
    BY <1>8 DEF vars, fvars, dvars, serie, appel
  <2>2. AnneauOK' /\ Sues' = Sues /\ Captee' = Captee
    BY <1>1, <2>1 DEF AnneauOK, Sues, Borne, Captee
  <2> QED
    BY <2>1, <2>2 DEF SerieOK, RienDePerdu
<1> QED
  BY <1>2, <1>3, <1>4, <1>5, <1>6, <1>7, <1>8 DEF Next

(* Omitting a state that the ring knows loses nothing: whenever a series   *)
(* goes on after a turn to be captured, a complete file of the same series *)
(* holds the fire and the rests of that turn.                              *)
THEOREM RienNEstPerdu == Spec => []RienDePerdu
<1>1. SerieOK => RienDePerdu
  BY DEF SerieOK
<1> QED
  BY <1>1, InitSerie, SuiteSerie, PTL DEF Spec

(* And the ring of an archive is that ring, when the prints of its states  *)
(* are among those the memory is asked for.                                *)
THEOREM ArchiveFidele ==
  Spec /\ [](Empreinte(Captee) \in Empreintes) => Fifo
<1>1. Init => DInit
  BY DEF Init
<1>2. [Next]_vars /\ Empreinte(Captee) \in Empreintes => [DNext]_dvars
  <2> SUFFICES ASSUME [Next]_vars, Empreinte(Captee) \in Empreintes
      PROVE  [DNext]_dvars
    OBVIOUS
  <2>1. CASE Omet
    BY <2>1 DEF Omet, DNext
  <2>2. CASE Releve
    BY <2>2 DEF Releve, DNext
  <2>3. CASE Suivante
    BY <2>3 DEF Suivante, DNext
  <2>4. CASE Ecriture \/ Revient \/ Avance \/ UNCHANGED vars
    BY <2>4 DEF Ecriture, Revient, Avance, vars
  <2> QED
    BY <2>1, <2>2, <2>3, <2>4 DEF Next
<1> QED
  BY <1>1, <1>2, AnneauFidele, PTL DEF Spec, DSpec

-----------------------------------------------------------------------------
(* Sequences without the entry number n.                                   *)
LEMMA SansUn ==
  ASSUME NEW S, NEW s \in Seq(S), NEW n \in 1 .. Len(s)
  PROVE  /\ RemoveAt(s, n) \in Seq(S) /\ Len(RemoveAt(s, n)) = Len(s) - 1
         /\ \A k \in 1 .. Len(s) - 1 : RemoveAt(s, n)[k] = IF k < n THEN s[k] ELSE s[k + 1]
<1> DEFINE a == SubSeq(s, 1, n - 1)
           b == SubSeq(s, n + 1, Len(s))
<1>1. Len(s) \in Nat /\ n \in Int /\ \A k \in 1 .. Len(s) : s[k] \in S
  OBVIOUS
<1>2. a \in Seq(S) /\ Len(a) = n - 1 /\ \A k \in 1 .. n - 1 : a[k] = s[k]
  <2>1. /\ a \in Seq(S) /\ Len(a) = IF 1 <= n - 1 THEN (n - 1) - 1 + 1 ELSE 0
        /\ \A k \in 1 .. (n - 1) - 1 + 1 : a[k] = s[1 + k - 1]
    BY <1>1, SubSeqProperties
  <2> QED
    BY <1>1, <2>1
<1>3. b \in Seq(S) /\ Len(b) = Len(s) - n /\ \A k \in 1 .. Len(s) - n : b[k] = s[n + k]
  <2>1. /\ b \in Seq(S) /\ Len(b) = IF n + 1 <= Len(s) THEN Len(s) - (n + 1) + 1 ELSE 0
        /\ \A k \in 1 .. Len(s) - (n + 1) + 1 : b[k] = s[(n + 1) + k - 1]
    BY <1>1, SubSeqProperties
  <2> QED
    BY <1>1, <2>1
<1> HIDE DEF a, b
<1>4. /\ a \o b \in Seq(S) /\ Len(a \o b) = Len(a) + Len(b)
      /\ \A k \in 1 .. Len(a) + Len(b) : (a \o b)[k] = IF k <= Len(a) THEN a[k] ELSE b[k - Len(a)]
  BY <1>2, <1>3, ConcatProperties
<1>5. RemoveAt(s, n) = a \o b
  BY DEF RemoveAt, a, b
<1>6. ASSUME NEW k \in 1 .. Len(s) - 1
      PROVE  (a \o b)[k] = IF k < n THEN s[k] ELSE s[k + 1]
  <2>1. CASE k < n
    BY <1>1, <1>2, <1>3, <1>4, <2>1
  <2>2. CASE ~(k < n)
    <3> DEFINE m == k - (n - 1)
    <3>1. m \in 1 .. Len(s) - n /\ n + m = k + 1 /\ m = k - Len(a)
          /\ ~(k <= Len(a)) /\ k \in 1 .. Len(a) + Len(b)
      BY <1>1, <1>2, <1>3, <2>2
    <3>2. (a \o b)[k] = b[m]
      BY <1>4, <3>1
    <3>3. b[m] = s[n + m]
      BY <1>3, <3>1
    <3> QED
      BY <2>2, <3>1, <3>2, <3>3
  <2> QED
    BY <2>1, <2>2
<1>7. Len(a) + Len(b) = Len(s) - 1
  BY <1>1, <1>2, <1>3
<1> QED
  BY <1>4, <1>5, <1>6, <1>7

(* A sequence has no more entries than its length.                         *)
LEMMA Compte ==
  ASSUME NEW S, NEW s \in Seq(S)
  PROVE  IsFiniteSet(Range(s)) /\ Cardinality(Range(s)) <= Len(s)
<1>1. s \in Surjection(1 .. Len(s), Range(s))
  BY DEF Surjection, Range
<1>2. IsFiniteSet(1 .. Len(s)) /\ Cardinality(1 .. Len(s)) = Len(s)
  <2>1. Len(s) \in Nat
    OBVIOUS
  <2> QED
    BY <2>1, FS_Interval
<1> QED
  BY <1>1, <1>2, FS_Surjection

(* One of the arrays is neither in the pot nor in use, and Libre finds it. *)
LEMMA UnLibre ==
  ASSUME NEW p \in Seq(Tableaux), NEW t \in Seq(Tableaux), Len(p) + Len(t) <= 4
  PROVE  Min(Tableaux \ (Range(p) \cup Range(t))) \in Tableaux \ (Range(p) \cup Range(t))
<1> DEFINE U == Range(p) \cup Range(t)
           L == Tableaux \ U
<1>1. MaxTampons \in Nat /\ MaxTampons >= 5
  BY TamponsAssumption
<1>2. IsFiniteSet(U) /\ Cardinality(U) <= 4
  <2>1. /\ IsFiniteSet(Range(p)) /\ Cardinality(Range(p)) <= Len(p)
        /\ IsFiniteSet(Range(t)) /\ Cardinality(Range(t)) <= Len(t)
    BY Compte
  <2>2. /\ IsFiniteSet(U)
        /\ Cardinality(U) = Cardinality(Range(p)) + Cardinality(Range(t))
                             - Cardinality(Range(p) \cap Range(t))
    BY <2>1, FS_Union
  <2>3. Cardinality(Range(p) \cap Range(t)) \in Nat
    BY <2>1, FS_Intersection, FS_CardinalityType
  <2>4. Cardinality(Range(p)) \in Nat /\ Cardinality(Range(t)) \in Nat
    BY <2>1, FS_CardinalityType
  <2>5. Len(p) \in Nat /\ Len(t) \in Nat
    OBVIOUS
  <2> HIDE DEF U
  <2> QED
    BY <2>1, <2>2, <2>3, <2>4, <2>5
<1>3. L # {}
  <2> SUFFICES ASSUME L = {} PROVE FALSE
    OBVIOUS
  <2>1. Tableaux \subseteq U
    OBVIOUS
  <2>2. Cardinality(Tableaux) = MaxTampons
    BY <1>1, FS_Interval DEF Tableaux
  <2>3. Cardinality(Tableaux) <= Cardinality(U)
    BY <1>2, <2>1, FS_Subset
  <2>4. Cardinality(U) \in Nat
    BY <1>2, FS_CardinalityType
  <2> HIDE DEF U
  <2> QED
    BY <1>1, <1>2, <2>2, <2>3, <2>4
<1>4. \E x \in L : \A y \in L : x <= y
  <2>1. L \subseteq Nat
    BY <1>1 DEF Tableaux
  <2> HIDE DEF L
  <2>2. \E x \in L : \A y \in L : ~(<<y, x>> \in OpToRel(<, Nat))
    BY <1>3, <2>1, NatLessThanWellFounded, WFMin
  <2>3. PICK x \in L : \A y \in L : ~(<<y, x>> \in OpToRel(<, Nat))
    BY <2>2
  <2>4. ASSUME NEW y \in L
        PROVE  x <= y
    <3>1. x \in Nat /\ y \in Nat
      BY <2>1, <2>3
    <3>2. ~(y < x)
      BY <2>3, <3>1 DEF OpToRel
    <3> QED
      BY <3>1, <3>2
  <2> QED
    BY <2>4
<1> HIDE DEF L
<1>5. Min(L) \in L
  BY <1>4 DEF Min
<1> QED
  BY <1>5 DEF L

(* Taking an array: out of the pot, or one that was neither there nor in   *)
(* use, another one leaving the pot or the pot being empty.                *)
Pris(p, p2, b, t) ==
  LET libre == Min(Tableaux \ (Range(p) \cup Range(t))) IN
  \/ \E s \in DOMAIN p : p2 = RemoveAt(p, s) /\ b \in {p[s], libre}
  \/ p = <<>> /\ p2 = p /\ b = libre

LEMMA PriseExclusive ==
  ASSUME NEW p, NEW t, NEW p2, NEW b, NEW cap \in 0..4,
         EtatPool(p, t, cap), Len(t) < cap, Pris(p, p2, b, t)
  PROVE  EtatPool(p2, Append(t, b), cap) /\ Len(Append(t, b)) = Len(t) + 1
<1> DEFINE L == Min(Tableaux \ (Range(p) \cup Range(t)))
           t2 == Append(t, b)
<1>1. /\ p \in Seq(Tableaux) /\ t \in Seq(Tableaux) /\ IsInjective(p) /\ IsInjective(t)
      /\ Range(p) \cap Range(t) = {} /\ Len(p) + Len(t) <= cap
      /\ Len(p) \in Nat /\ Len(t) \in Nat
  BY DEF EtatPool
<1>2. L \in Tableaux \ (Range(p) \cup Range(t))
  BY <1>1, UnLibre
<1> HIDE DEF L
<1>3. /\ b \in Tableaux \ Range(t) /\ b \notin Range(p2)
      /\ p2 \in Seq(Tableaux) /\ IsInjective(p2) /\ Range(p2) \cap Range(t) = {}
      /\ Len(p2) + Len(t) + 1 <= cap
      /\ ~poolActif => p2 = <<>>
  <2>1. ASSUME NEW s \in DOMAIN p, p2 = RemoveAt(p, s), b \in {p[s], L}
        PROVE  <1>3
    <3>1. s \in 1 .. Len(p) /\ DOMAIN p = 1 .. Len(p)
      BY <1>1
    <3>2. /\ p2 \in Seq(Tableaux) /\ Len(p2) = Len(p) - 1
          /\ \A k \in 1 .. Len(p) - 1 : p2[k] = IF k < s THEN p[k] ELSE p[k + 1]
      BY <1>1, <2>1, <3>1, SansUn
    <3>3. DOMAIN p2 = 1 .. Len(p) - 1
      BY <3>2
    <3>4. ASSUME NEW k \in 1 .. Len(p) - 1
          PROVE  p2[k] \in Range(p) /\ p2[k] # p[s]
      <4> DEFINE m == IF k < s THEN k ELSE k + 1
      <4>1. m \in DOMAIN p /\ m # s /\ p2[k] = p[m]
        BY <1>1, <3>1, <3>2, <3>4
      <4> QED
        BY <1>1, <4>1 DEF IsInjective, Range
    <3>5. IsInjective(p2)
      <4> SUFFICES ASSUME NEW x \in 1 .. Len(p) - 1, NEW y \in 1 .. Len(p) - 1, p2[x] = p2[y]
          PROVE  x = y
        BY <3>3 DEF IsInjective
      <4> DEFINE m == IF x < s THEN x ELSE x + 1
                 n == IF y < s THEN y ELSE y + 1
      <4>1. m \in DOMAIN p /\ n \in DOMAIN p /\ p[m] = p[n]
        BY <1>1, <3>1, <3>2
      <4>2. m = n
        BY <1>1, <4>1 DEF IsInjective
      <4> QED
        BY <1>1, <3>1, <4>2
    <3>6. Range(p2) \subseteq Range(p) \ {p[s]}
      BY <3>3, <3>4 DEF Range
    <3>7. p[s] \in Range(p) /\ p[s] \in Tableaux
      BY <1>1, <3>1 DEF Range
    <3>8. b \in Tableaux \ Range(t) /\ b \notin Range(p2)
      BY <1>1, <1>2, <2>1, <3>6, <3>7
    <3>9. p # <<>>
      BY <3>1
    <3>10. Len(p2) + Len(t) + 1 <= cap
      BY <1>1, <3>2
    <3> QED
      BY <1>1, <3>2, <3>5, <3>6, <3>8, <3>9, <3>10 DEF EtatPool
  <2>2. CASE p = <<>> /\ p2 = p /\ b = L
    BY <1>1, <1>2, <2>2 DEF EtatPool
  <2> QED
    BY <2>1, <2>2 DEF Pris, L
<1>4. /\ t2 \in Seq(Tableaux) /\ Len(t2) = Len(t) + 1
      /\ \A k \in 1 .. Len(t) : t2[k] = t[k]
      /\ t2[Len(t) + 1] = b
  BY <1>1, <1>3, AppendProperties
<1> HIDE DEF t2
<1>5. DOMAIN t2 = 1 .. Len(t) + 1 /\ DOMAIN t = 1 .. Len(t)
  BY <1>1, <1>4
<1>6. IsInjective(t2)
  <2> SUFFICES ASSUME NEW x \in 1 .. Len(t) + 1, NEW y \in 1 .. Len(t) + 1, t2[x] = t2[y]
      PROVE  x = y
    BY <1>5 DEF IsInjective
  <2>1. ASSUME NEW z \in 1 .. Len(t)
        PROVE  t2[z] = t[z] /\ t2[z] # b
    BY <1>3, <1>4, <1>5 DEF Range
  <2>2. CASE x \in 1 .. Len(t) /\ y \in 1 .. Len(t)
    BY <1>1, <1>5, <2>1, <2>2 DEF IsInjective
  <2>3. CASE x = Len(t) + 1 \/ y = Len(t) + 1
    BY <1>1, <1>4, <2>1, <2>3
  <2> QED
    BY <1>1, <2>2, <2>3
<1>7. Range(t2) = Range(t) \cup {b}
  <2>1. ASSUME NEW k \in 1 .. Len(t) + 1
        PROVE  t2[k] \in Range(t) \cup {b}
    BY <1>1, <1>4, <1>5 DEF Range
  <2>2. ASSUME NEW k \in 1 .. Len(t)
        PROVE  t[k] = t2[k] /\ k \in DOMAIN t2
    BY <1>1, <1>4, <1>5
  <2>3. Len(t) + 1 \in DOMAIN t2
    BY <1>1, <1>5
  <2> QED
    BY <1>4, <1>5, <2>1, <2>2, <2>3 DEF Range
<1>8. Len(p2) + Len(t2) <= cap
  <2>1. Len(p2) \in Nat
    BY <1>3
  <2> QED
    BY <1>1, <1>3, <1>4, <2>1
<1> QED
  BY <1>3, <1>4, <1>6, <1>7, <1>8 DEF EtatPool, t2

(* Giving the arrays back: all of them are in the pot again, or garbage.   *)
LEMMA RenduExclusif ==
  ASSUME NEW p, NEW t, NEW u, NEW cap \in 0..4, EtatPool(p, t, cap),
         u \in Seq(Tableaux), Len(u) = Len(t), IsInjective(u), Range(u) = Range(t)
  PROVE  EtatPool(IF poolActif THEN p \o u ELSE p, <<>>, cap)
<1> DEFINE q == p \o u
<1>1. /\ p \in Seq(Tableaux) /\ t \in Seq(Tableaux) /\ IsInjective(p)
      /\ Range(p) \cap Range(u) = {} /\ Len(p) + Len(u) <= cap
      /\ Len(p) \in Nat /\ Len(u) \in Nat /\ (~poolActif => p = <<>>)
      /\ DOMAIN p = 1 .. Len(p) /\ DOMAIN u = 1 .. Len(u)
  BY DEF EtatPool
<1>2. /\ <<>> \in Seq(Tableaux) /\ Len(<<>>) = 0 /\ IsInjective(<<>>)
      /\ Range(<<>>) = {}
  BY DEF IsInjective, Range
<1>3. /\ q \in Seq(Tableaux) /\ Len(q) = Len(p) + Len(u)
      /\ \A k \in 1 .. Len(p) + Len(u) : q[k] = IF k <= Len(p) THEN p[k] ELSE u[k - Len(p)]
  BY <1>1, ConcatProperties
<1> HIDE DEF q
<1>4. DOMAIN q = 1 .. Len(p) + Len(u)
  BY <1>1, <1>3
<1>5. IsInjective(q)
  <2> SUFFICES ASSUME NEW x \in 1 .. Len(p) + Len(u), NEW y \in 1 .. Len(p) + Len(u), q[x] = q[y]
      PROVE  x = y
    BY <1>4 DEF IsInjective
  <2>1. ASSUME NEW z \in 1 .. Len(p) + Len(u)
        PROVE  /\ z <= Len(p) => z \in DOMAIN p /\ q[z] = p[z] /\ q[z] \in Range(p)
               /\ ~(z <= Len(p)) => /\ z - Len(p) \in DOMAIN u /\ q[z] = u[z - Len(p)]
                                    /\ q[z] \in Range(u)
    <3>1. CASE z <= Len(p)
      BY <1>1, <1>3, <3>1 DEF Range
    <3>2. CASE ~(z <= Len(p))
      <4>1. z - Len(p) \in DOMAIN u /\ q[z] = u[z - Len(p)]
        BY <1>1, <1>3, <3>2
      <4> QED
        BY <3>2, <4>1 DEF Range
    <3> QED
      BY <3>1, <3>2
  <2>2. CASE x <= Len(p) /\ y <= Len(p)
    BY <1>1, <2>1, <2>2 DEF IsInjective
  <2>3. CASE ~(x <= Len(p)) /\ ~(y <= Len(p))
    <3>1. x - Len(p) = y - Len(p)
      BY <2>1, <2>3 DEF IsInjective
    <3> QED
      BY <1>1, <3>1
  <2>4. CASE (x <= Len(p)) # (y <= Len(p))
    BY <1>1, <2>1, <2>4
  <2> QED
    BY <2>2, <2>3, <2>4
<1>6. EtatPool(q, <<>>, cap) \/ ~poolActif
  BY <1>1, <1>2, <1>3, <1>5 DEF EtatPool
<1>7. ~poolActif => EtatPool(p, <<>>, cap)
  BY <1>1, <1>2 DEF EtatPool
<1> QED
  BY <1>6, <1>7 DEF q

-----------------------------------------------------------------------------
(* Prendre, whichever way it goes, takes an array as above.                *)
LEMMA PrendreOctets ==
  ASSUME ~poolActif => octets = <<>>, NEW n, NEW b,
         O!Prendre(poolActif, b, n, Range(tenusO))
  PROVE  Pris(octets, octets', b, tenusO)
<1>1. CASE O!Reprend(b, n)
  BY <1>1 DEF O!Reprend, O!Offerts, Pris, O!RemoveAt, RemoveAt
<1>2. CASE O!Remplace(b, n, Range(tenusO))
  BY <1>2 DEF O!Remplace, O!Offerts, O!Libre, O!Tampons, Tableaux, Pris,
             O!RemoveAt, RemoveAt, O!Min, Min, O!Range, Range
<1>3. CASE octets = <<>> /\ O!Alloue(b, n, Range(tenusO))
  BY <1>3 DEF O!Alloue, O!Libre, O!Tampons, Tableaux, Pris,
             O!Min, Min, O!Range, Range
<1> QED
  BY <1>1, <1>2, <1>3 DEF O!Prendre

LEMMA PrendreMots ==
  ASSUME ~poolActif => mots = <<>>, NEW n, NEW b,
         W!Prendre(poolActif, b, n, Range(tenusM))
  PROVE  Pris(mots, mots', b, tenusM)
<1>1. CASE W!Reprend(b, n)
  BY <1>1 DEF W!Reprend, W!Offerts, Pris, W!RemoveAt, RemoveAt
<1>2. CASE W!Remplace(b, n, Range(tenusM))
  BY <1>2 DEF W!Remplace, W!Offerts, W!Libre, W!Tampons, Tableaux, Pris,
             W!RemoveAt, RemoveAt, W!Min, Min, W!Range, Range
<1>3. CASE mots = <<>> /\ W!Alloue(b, n, Range(tenusM))
  BY <1>3 DEF W!Alloue, W!Libre, W!Tampons, Tableaux, Pris,
             W!Min, Min, W!Range, Range
<1> QED
  BY <1>1, <1>2, <1>3 DEF W!Prendre

(* The arrays in the reverse order are the same ones.                      *)
LEMMA Renverse ==
  ASSUME NEW S, NEW t \in Seq(S), IsInjective(t)
  PROVE  /\ Reverse(t) \in Seq(S) /\ Len(Reverse(t)) = Len(t)
         /\ IsInjective(Reverse(t)) /\ Range(Reverse(t)) = Range(t)
<1> DEFINE u == Reverse(t)
<1>1. Len(t) \in Nat /\ DOMAIN t = 1 .. Len(t) /\ \A k \in 1 .. Len(t) : t[k] \in S
  OBVIOUS
<1>2. u = [k \in 1 .. Len(t) |-> t[(Len(t) - k) + 1]]
  BY DEF Reverse
<1>3. \A k \in 1 .. Len(t) : (Len(t) - k) + 1 \in 1 .. Len(t) /\ u[k] = t[(Len(t) - k) + 1]
  BY <1>1, <1>2
<1>4. u \in Seq(S) /\ Len(u) = Len(t) /\ DOMAIN u = 1 .. Len(t)
  BY <1>1, <1>2, <1>3
<1> HIDE DEF u
<1>5. IsInjective(u)
  <2> SUFFICES ASSUME NEW x \in 1 .. Len(t), NEW y \in 1 .. Len(t), u[x] = u[y]
      PROVE  x = y
    BY <1>4 DEF IsInjective
  <2>1. (Len(t) - x) + 1 = (Len(t) - y) + 1
    BY <1>1, <1>3 DEF IsInjective
  <2> QED
    BY <1>1, <2>1
<1>6. Range(u) \subseteq Range(t)
  BY <1>1, <1>3, <1>4 DEF Range
<1>7. ASSUME NEW k \in 1 .. Len(t)
      PROVE  t[k] \in Range(u)
  <2>1. (Len(t) - k) + 1 \in 1 .. Len(t) /\ (Len(t) - ((Len(t) - k) + 1)) + 1 = k
    BY <1>1
  <2>2. u[(Len(t) - k) + 1] = t[k]
    BY <1>3, <2>1
  <2> QED
    BY <1>4, <2>1, <2>2 DEF Range
<1>8. Range(t) \subseteq Range(u)
  BY <1>1, <1>7 DEF Range
<1> QED
  BY <1>4, <1>5, <1>6, <1>8 DEF u

(* Taking bytes, taking words, and whatever leaves a pool and what is in   *)
(* use as they are.                                                        *)
LEMMA PrendOctetsTient ==
  ASSUME EtatPool(octets, tenusO, 2), Len(tenusO) < 2, NEW n, NEW b,
         O!Prendre(poolActif, b, n, Range(tenusO)), tenusO' = Append(tenusO, b),
         poolActif' = poolActif
  PROVE  EtatPool(octets, tenusO, 2)' /\ Len(tenusO') = Len(tenusO) + 1
<1>1. Pris(octets, octets', b, tenusO)
  BY PrendreOctets DEF EtatPool
<1>2. EtatPool(octets', Append(tenusO, b), 2) /\ Len(Append(tenusO, b)) = Len(tenusO) + 1
  BY <1>1, PriseExclusive
<1> QED
  BY <1>2 DEF EtatPool

LEMMA PrendMotsTient ==
  ASSUME EtatPool(mots, tenusM, 4), Len(tenusM) < 4, NEW n, NEW b,
         W!Prendre(poolActif, b, n, Range(tenusM)), tenusM' = Append(tenusM, b),
         poolActif' = poolActif
  PROVE  EtatPool(mots, tenusM, 4)'
<1>1. Pris(mots, mots', b, tenusM)
  BY PrendreMots DEF EtatPool
<1>2. EtatPool(mots', Append(tenusM, b), 4)
  BY <1>1, PriseExclusive
<1> QED
  BY <1>2 DEF EtatPool

LEMMA RendTient ==
  ASSUME EtatPool(octets, tenusO, 2), EtatPool(mots, tenusM, 4), Rend
  PROVE  EtatPool(octets, tenusO, 2)' /\ EtatPool(mots, tenusM, 4)'
<1>1. /\ octets' = (IF poolActif THEN octets \o Reverse(tenusO) ELSE octets)
      /\ mots' = (IF poolActif THEN mots \o tenusM ELSE mots)
      /\ tenusO' = <<>> /\ tenusM' = <<>> /\ poolActif' = poolActif
  BY DEF Rend, O!Rendre, W!Rendre, appel
<1>2. EtatPool(octets', <<>>, 2)
  <2> DEFINE u == Reverse(tenusO)
  <2>1. tenusO \in Seq(Tableaux) /\ IsInjective(tenusO)
    BY DEF EtatPool
  <2>2. u \in Seq(Tableaux) /\ Len(u) = Len(tenusO) /\ IsInjective(u) /\ Range(u) = Range(tenusO)
    BY <2>1, Renverse
  <2>3. octets' = IF poolActif THEN octets \o u ELSE octets
    BY <1>1
  <2> HIDE DEF u
  <2>4. EtatPool(IF poolActif THEN octets \o u ELSE octets, <<>>, 2)
    <3>1. 2 \in 0..4
      OBVIOUS
    <3> QED
      BY <2>2, <3>1, RenduExclusif
  <2> QED
    BY <2>3, <2>4
<1>3. EtatPool(mots', <<>>, 4)
  <2>1. tenusM \in Seq(Tableaux) /\ IsInjective(tenusM)
    BY DEF EtatPool
  <2> QED
    BY <1>1, <2>1, RenduExclusif
<1> QED
  BY <1>1, <1>2, <1>3 DEF EtatPool

(* Without a step of either pool nothing changes of them.                  *)
LEMMA PoolsInchanges ==
  ASSUME EtatPool(octets, tenusO, 2), EtatPool(mots, tenusM, 4),
         UNCHANGED <<poolActif, octets, mots, tenusO, tenusM>>
  PROVE  EtatPool(octets, tenusO, 2)' /\ EtatPool(mots, tenusM, 4)'
BY DEF EtatPool

(* The collector leaves an empty pot.                                      *)
LEMMA CollecteTient ==
  ASSUME EtatPool(octets, tenusO, 2), EtatPool(mots, tenusM, 4), Collecte
  PROVE  EtatPool(octets, tenusO, 2)' /\ EtatPool(mots, tenusM, 4)'
<1>1. /\ octets' = <<>> /\ mots' = <<>>
      /\ UNCHANGED <<poolActif, tenusO, tenusM>>
  BY DEF Collecte, O!Ramasse, W!Ramasse, appel
<1>2. ASSUME NEW t \in Seq(Tableaux), NEW p \in Seq(Tableaux), NEW cap \in Nat,
             Len(p) + Len(t) <= cap
      PROVE  /\ <<>> \in Seq(Tableaux) /\ IsInjective(<<>>) /\ Range(<<>>) \cap Range(t) = {}
             /\ Len(<<>>) + Len(t) <= cap
  <2>1. Len(p) \in Nat /\ Len(t) \in Nat /\ Len(<<>>) = 0
    OBVIOUS
  <2> QED
    BY <1>2, <2>1 DEF IsInjective, Range
<1> QED
  BY <1>1, <1>2 DEF EtatPool

LEMMA InitTampons == Init => TamponsOK
<1> SUFFICES ASSUME Init PROVE TamponsOK
  OBVIOUS
<1>1. /\ octets = <<>> /\ mots = <<>> /\ tenusO = <<>> /\ tenusM = <<>>
      /\ pc = "capture" /\ poolActif \in BOOLEAN
  BY DEF Init, O!PInit, W!PInit
<1>2. IsInjective(<<>>) /\ Range(<<>>) \cap Range(<<>>) = {} /\ <<>> \in Seq(Tableaux)
      /\ Len(<<>>) = 0
  BY DEF IsInjective, Range
<1>3. Longueurs("capture", 0, 0)
  BY DEF Longueurs
<1> QED
  BY <1>1, <1>2, <1>3 DEF TamponsOK, EtatPool

(* The steps that take no array go from one of these to the other; and the *)
(* steps that take one, or give them all back.                             *)
LEMMA SuiteLongueurs ==
  ASSUME NEW p, NEW q, NEW o \in Nat, NEW m \in Nat, Longueurs(p, o, m),
         \/ q = "rend"
         \/ p = "packed" /\ q \in {"prendEtat", "prendDecor"}
         \/ p = "ecritDecor" /\ q = "prendEtat"
         \/ p = "remplitDecor" /\ q = "ecritDecor"
         \/ p = "remplitEtat" /\ q = "ecritEtat"
         \/ p = "proto" /\ m = 4 /\ q = "marshal"
         \/ p = "code" /\ q = "ecritProto"
         \/ p \in {"capture", "rendu", "avance", "fin"}
            /\ q \in {"capture", "avance", "fin", "packed", "proto", "json"}
  PROVE  Longueurs(q, o, m)
BY DEF Longueurs

LEMMA LongueursPrises ==
  ASSUME NEW p, NEW o \in Nat, NEW m \in Nat, Longueurs(p, o, m)
  PROVE  /\ p \in {"prendDecor", "prendEtat", "marshal"} => o < 2
         /\ p = "prendDecor" => Longueurs("remplitDecor", o + 1, m)
         /\ p = "prendEtat" => Longueurs("remplitEtat", o + 1, m)
         /\ p = "marshal" => Longueurs("code", o + 1, m)
         /\ \A n \in Nat : p = "proto" => Longueurs("proto", o, n)
         /\ Longueurs("rendu", 0, 0)
BY DEF Longueurs

(* A step of a Write keeps every array to one owner.                       *)
LEMMA EcritureTient ==
  ASSUME TamponsOK, FNext
  PROVE  TamponsOK'
<1>0. /\ EtatPool(octets, tenusO, 2) /\ EtatPool(mots, tenusM, 4) /\ poolActif \in BOOLEAN
      /\ Longueurs(pc, Len(tenusO), Len(tenusM)) /\ pc \in Phases
      /\ tenusO \in Seq(Tableaux) /\ tenusM \in Seq(Tableaux)
      /\ pc' \in Phases
  BY PhaseSuivante DEF TamponsOK, EtatPool
<1>z. Len(tenusO) \in Nat /\ Len(tenusM) \in Nat
  BY <1>0
<1>a. ASSUME EtatPool(octets, tenusO, 2)', EtatPool(mots, tenusM, 4)', poolActif' = poolActif,
             Longueurs(pc, Len(tenusO), Len(tenusM))'
      PROVE  TamponsOK'
  BY <1>0, <1>a DEF TamponsOK
<1>b. ASSUME NEW piece, NEW suite, Ecrit(piece, suite)
      PROVE  /\ EtatPool(octets, tenusO, 2)' /\ EtatPool(mots, tenusM, 4)'
             /\ UNCHANGED <<poolActif, tenusO, tenusM>> /\ pc' \in {suite, "rend"}
  BY <1>0, <1>b, PoolsInchanges DEF Ecrit, appel, pools
<1>c. ASSUME NEW n, NEW suite, PrendOctets(n, suite), Len(tenusO) < 2
      PROVE  /\ EtatPool(octets, tenusO, 2)' /\ EtatPool(mots, tenusM, 4)'
             /\ UNCHANGED <<poolActif, tenusM>> /\ pc' = suite
             /\ Len(tenusO') = Len(tenusO) + 1
  <2>1. /\ UNCHANGED <<poolActif, mots, tenusM>> /\ pc' = suite
        /\ \E b \in O!Tampons : /\ O!Prendre(poolActif, b, n, Range(tenusO))
                                /\ tenusO' = Append(tenusO, b)
    BY <1>c DEF PrendOctets, appel
  <2>2. EtatPool(octets, tenusO, 2)' /\ Len(tenusO') = Len(tenusO) + 1
    BY <1>0, <1>c, <2>1, PrendOctetsTient
  <2>3. EtatPool(mots, tenusM, 4)'
    BY <1>0, <2>1 DEF EtatPool
  <2> QED
    BY <2>1, <2>2, <2>3
<1>1. CASE PackedEntete \/ JSONEcrit \/ PackedEcritDecor \/ PackedEcritEtat \/ ProtoEcrit
  <2>1. /\ EtatPool(octets, tenusO, 2)' /\ EtatPool(mots, tenusM, 4)'
        /\ UNCHANGED <<poolActif, tenusO, tenusM>>
    BY <1>1, <1>b DEF PackedEntete, JSONEcrit, PackedEcritDecor, PackedEcritEtat, ProtoEcrit
  <2>2. \/ pc' = "rend"
        \/ pc = "packed" /\ pc' \in {"prendEtat", "prendDecor"}
        \/ pc = "ecritDecor" /\ pc' = "prendEtat"
    BY <1>1, <1>b DEF PackedEntete, JSONEcrit, PackedEcritDecor, PackedEcritEtat, ProtoEcrit
  <2>4. Longueurs(pc, Len(tenusO), Len(tenusM))'
    BY <1>0, <1>z, <2>1, <2>2, SuiteLongueurs
  <2> QED
    BY <1>a, <2>1, <2>4
<1>2. CASE PackedPrendDecor \/ PackedPrendEtat \/ ProtoTampon
  <2>1. \/ pc = "prendDecor" /\ PrendOctets(Nombre(doc), "remplitDecor")
        \/ pc = "prendEtat" /\ PrendOctets(Moitie(doc), "remplitEtat")
        \/ pc = "marshal" /\ PrendOctets(TailleMessage(doc), "code")
    BY <1>2 DEF PackedPrendDecor, PackedPrendEtat, ProtoTampon
  <2>2. Len(tenusO) < 2
    BY <1>0, <1>z, <2>1, LongueursPrises
  <2>3. /\ EtatPool(octets, tenusO, 2)' /\ EtatPool(mots, tenusM, 4)'
        /\ UNCHANGED <<poolActif, tenusM>> /\ Len(tenusO') = Len(tenusO) + 1
        /\ \/ pc = "prendDecor" /\ pc' = "remplitDecor"
           \/ pc = "prendEtat" /\ pc' = "remplitEtat"
           \/ pc = "marshal" /\ pc' = "code"
    BY <1>c, <2>1, <2>2
  <2>4. Longueurs(pc, Len(tenusO), Len(tenusM))'
    BY <1>0, <1>z, <2>3, LongueursPrises
  <2> QED
    BY <1>a, <2>3, <2>4
<1>3. CASE PackedDecor \/ PackedEtat \/ ProtoMarshal \/ ProtoConvertit
  <2>1. /\ UNCHANGED <<poolActif, octets, mots, tenusO, tenusM>>
        /\ \/ pc = "remplitDecor" /\ pc' = "ecritDecor"
           \/ pc = "remplitEtat" /\ pc' = "ecritEtat"
           \/ pc = "code" /\ pc' = "ecritProto"
           \/ pc = "proto" /\ Len(tenusM) = 4 /\ pc' = "marshal"
    BY <1>3 DEF PackedDecor, PackedEtat, ProtoMarshal, ProtoConvertit, appel
  <2>2. EtatPool(octets, tenusO, 2)' /\ EtatPool(mots, tenusM, 4)'
    BY <1>0, <2>1, PoolsInchanges
  <2>3. Longueurs(pc, Len(tenusO), Len(tenusM))'
    BY <1>0, <1>z, <2>1, SuiteLongueurs
  <2> QED
    BY <1>a, <2>1, <2>2, <2>3
<1>4. CASE ProtoPrend
  <2>1. /\ pc = "proto" /\ pc' = "proto" /\ Len(tenusM) < 4
        /\ UNCHANGED <<poolActif, octets, tenusO>>
        /\ \E b \in W!Tampons : /\ W!Prendre(poolActif, b, Nombre(doc), Range(tenusM))
                                /\ tenusM' = Append(tenusM, b)
    BY <1>4 DEF ProtoPrend, appel
  <2>2. EtatPool(mots, tenusM, 4)'
    BY <1>0, <2>1, PrendMotsTient
  <2>3. EtatPool(octets, tenusO, 2)'
    BY <1>0, <2>1 DEF EtatPool
  <2>4. Longueurs(pc, Len(tenusO), Len(tenusM))'
    <3>1. Len(tenusM') \in Nat
      BY <2>2 DEF EtatPool
    <3> QED
      BY <1>0, <1>z, <2>1, <3>1, LongueursPrises
  <2> QED
    BY <1>a, <2>1, <2>2, <2>3, <2>4
<1>5. CASE Rend
  <2>1. EtatPool(octets, tenusO, 2)' /\ EtatPool(mots, tenusM, 4)'
    BY <1>0, <1>5, RendTient
  <2>2. tenusO' = <<>> /\ tenusM' = <<>> /\ pc' = "rendu" /\ poolActif' = poolActif
    BY <1>5 DEF Rend, appel
  <2>3. Longueurs(pc, Len(tenusO), Len(tenusM))'
    <3>1. Len(tenusO') = 0 /\ Len(tenusM') = 0
      BY <2>2
    <3> QED
      BY <1>0, <1>z, <2>2, <3>1, LongueursPrises
  <2> QED
    BY <1>a, <2>1, <2>2, <2>3
<1>6. CASE Collecte
  <2>1. EtatPool(octets, tenusO, 2)' /\ EtatPool(mots, tenusM, 4)'
    BY <1>0, <1>6, CollecteTient
  <2>2. UNCHANGED <<poolActif, tenusO, tenusM, pc>>
    BY <1>6 DEF Collecte, appel
  <2>3. Longueurs(pc, Len(tenusO), Len(tenusM))'
    BY <1>0, <2>2
  <2> QED
    BY <1>a, <2>1, <2>2, <2>3
<1> QED
  BY <1>1, <1>2, <1>3, <1>4, <1>5, <1>6 DEF FNext

LEMMA SuiteTampons ==
  ASSUME TamponsOK, SerieOK, [Next]_vars
  PROVE  TamponsOK'
<1>0. /\ EtatPool(octets, tenusO, 2) /\ EtatPool(mots, tenusM, 4) /\ poolActif \in BOOLEAN
      /\ Longueurs(pc, Len(tenusO), Len(tenusM)) /\ format \in Formats
      /\ Len(tenusO) \in Nat /\ Len(tenusM) \in Nat
  BY DEF TamponsOK, SerieOK, EtatPool
<1>1. CASE Ecriture
  BY <1>1, EcritureTient DEF Ecriture
<1>2. CASE Omet \/ Releve \/ Revient \/ Avance \/ Suivante
  <2>1. /\ UNCHANGED <<poolActif, octets, mots, tenusO, tenusM>>
        /\ pc \in {"capture", "rendu", "avance", "fin"}
        /\ pc' \in {"capture", "avance", "fin", "packed", "proto", "json"}
    <3>1. CASE Omet
      BY <3>1 DEF Omet, appel, pools
    <3>2. CASE Releve
      BY <1>0, <3>2 DEF Releve, Ecrire, pools, Sorte, Formats
    <3>3. CASE Revient
      BY <3>3 DEF Revient, appel, pools
    <3>4. CASE Avance
      BY <3>4 DEF Avance, appel, pools
    <3>5. CASE Suivante
      BY <3>5 DEF Suivante, pools
    <3> QED
      BY <1>2, <3>1, <3>2, <3>3, <3>4, <3>5
  <2>2. EtatPool(octets, tenusO, 2)' /\ EtatPool(mots, tenusM, 4)'
    BY <1>0, <2>1, PoolsInchanges
  <2>3. Longueurs(pc, Len(tenusO), Len(tenusM))'
    BY <1>0, <2>1, SuiteLongueurs
  <2> QED
    BY <1>0, <2>1, <2>2, <2>3 DEF TamponsOK, Phases
<1>3. CASE UNCHANGED vars
  <2>1. UNCHANGED <<poolActif, octets, mots, tenusO, tenusM, pc>>
    BY <1>3 DEF vars, fvars, pools
  <2>2. EtatPool(octets, tenusO, 2)' /\ EtatPool(mots, tenusM, 4)'
    BY <1>0, <2>1, PoolsInchanges
  <2> QED
    BY <2>1, <2>2 DEF TamponsOK
<1> QED
  BY <1>1, <1>2, <1>3 DEF Next

(* An array of a pool has one owner at any time, however many Writes came  *)
(* before, whatever they gave back when they failed, and wherever the      *)
(* collector came in: the pot, or one field of the Write under way.        *)
THEOREM UnSeulProprietaire == Spec => []TamponExclusif
<1>1. TamponsOK => TamponExclusif
  BY DEF TamponsOK, EtatPool, TamponExclusif, O!Exclusif, W!Exclusif,
         O!IsInjective, W!IsInjective, IsInjective, O!Range, W!Range, Range
<1> QED
  BY <1>1, InitSerie, SuiteSerie, InitTampons, SuiteTampons, PTL DEF Spec

-----------------------------------------------------------------------------
(* A function on 1 .. n is a sequence of length n.                         *)
LEMMA Suite1N ==
  ASSUME NEW n \in Nat, NEW f, f = [k \in 1 .. n |-> f[k]]
  PROVE  f \in Seq(Range(f)) /\ Len(f) = n /\ DOMAIN f = 1 .. n
<1>1. DOMAIN f = 1 .. n
  BY Zenon
<1>2. \A k \in 1 .. n : f[k] \in Range(f)
  BY <1>1 DEF Range
<1>3. f \in [1 .. n -> Range(f)]
  BY <1>2
<1> QED
  BY <1>1, <1>3

(* Garbage, and the arrays overwritten on their first entries.             *)
LEMMA MemoireJetee ==
  ASSUME NEW m, Memoire(m), NEW S
  PROVE  Memoire([b \in Tableaux |-> IF b \in S THEN <<>> ELSE m[b]])
<1>1. <<>> \in Seq(Range(<<>>))
  OBVIOUS
<1> QED
  BY <1>1 DEF Memoire

Ecrasee(m, b, n, f, m2) ==
  m2 = [m EXCEPT ![b] = [k \in DOMAIN m[b] |-> IF k <= n THEN f[k] ELSE m[b][k]]]
Debute(t, n, f) == SubSeq(t, 1, n) = [k \in 1 .. n |-> f[k]]

LEMMA Ecrase ==
  ASSUME NEW m, Memoire(m), NEW b \in Tableaux, NEW n \in Nat, Len(m[b]) >= n, NEW f, NEW m2,
         Ecrasee(m, b, n, f, m2)
  PROVE  Memoire(m2) /\ Debute(m2[b], n, f)
<1> DEFINE l == Len(m[b])
           v == [k \in 1 .. l |-> IF k <= n THEN f[k] ELSE m[b][k]]
<1>1. m[b] \in Seq(Range(m[b])) /\ m = [x \in Tableaux |-> m[x]]
  BY DEF Memoire
<1>2. l \in Nat /\ DOMAIN m[b] = 1 .. l
  BY <1>1
<1>3. m2 = [m EXCEPT ![b] = v]
  BY <1>2 DEF Ecrasee
<1>4. v = [k \in 1 .. l |-> v[k]]
  OBVIOUS
<1>5. \A k \in 1 .. n : v[k] = f[k]
  BY <1>2
<1> HIDE DEF v
<1>6. v \in Seq(Range(v)) /\ Len(v) = l
  BY <1>2, <1>4, Suite1N DEF l
<1>7. m2[b] = v /\ \A x \in Tableaux : x # b => m2[x] = m[x]
  BY <1>1, <1>3
<1>8. m2 = [x \in Tableaux |-> m2[x]]
  BY <1>1, <1>3
<1>9. Memoire(m2)
  BY <1>6, <1>7, <1>8 DEF Memoire
<1>10. SubSeq(v, 1, n) = [k \in 1 .. n |-> v[k]]
  <2>1. SubSeq(v, 1, n) \in Seq(Range(v)) /\ Len(SubSeq(v, 1, n)) = n
        /\ \A k \in 1 .. n : SubSeq(v, 1, n)[k] = v[k]
    <3>1. \A k \in 1 .. l : v[k] \in Range(v)
      BY <1>6 DEF Range
    <3>2. \A k \in 1 .. n : v[k] \in Range(v)
      BY <1>2, <3>1
    <3> QED
      BY <3>2, <1>6, SubSeqProperties
  <2>2. SubSeq(v, 1, n) = [k \in 1 .. n |-> SubSeq(v, 1, n)[k]]
    BY <2>1, SuiteFonction
  <2> QED
    BY <2>1, <2>2
<1>11. SubSeq(v, 1, n) = [k \in 1 .. n |-> f[k]]
  BY <1>5, <1>10
<1> QED
  BY <1>7, <1>9, <1>11 DEF Debute

(* What taking an array does of the contents: it holds as many entries as  *)
(* was asked, and those in use are what they were.                         *)
Zeros(n) == [x \in 1 .. n |-> 0]
Prise(p, t, m, m2, b, n) ==
  LET libre == Min(Tableaux \ (Range(p) \cup Range(t))) IN
  \/ m2 = m /\ Len(m[b]) >= n
  \/ \E s \in DOMAIN p :
       b = libre /\ m2 = [m EXCEPT ![p[s]] = <<>>, ![b] = Zeros(n)]
  \/ b = libre /\ m2 = [m EXCEPT ![b] = Zeros(n)]

LEMMA MemoirePrise ==
  ASSUME NEW p, NEW t, NEW cap \in 0..4, EtatPool(p, t, cap), NEW m, Memoire(m),
         NEW m2, NEW b \in Tableaux, NEW n \in Nat, Prise(p, t, m, m2, b, n)
  PROVE  Memoire(m2) /\ Len(m2[b]) >= n /\ \A x \in Range(t) : m2[x] = m[x]
<1> DEFINE libre == Min(Tableaux \ (Range(p) \cup Range(t)))
           z == Zeros(n)
<1>1. /\ p \in Seq(Tableaux) /\ t \in Seq(Tableaux) /\ Range(p) \cap Range(t) = {}
      /\ Len(p) + Len(t) <= 4
  <2>1. /\ p \in Seq(Tableaux) /\ t \in Seq(Tableaux) /\ Range(p) \cap Range(t) = {}
        /\ Len(p) + Len(t) <= cap
    BY DEF EtatPool
  <2>2. Len(p) \in Nat /\ Len(t) \in Nat
    BY <2>1
  <2> QED
    BY <2>1, <2>2
<1>2. libre \in Tableaux \ (Range(p) \cup Range(t))
  BY <1>1, UnLibre
<1>3. z \in Seq(Range(z)) /\ Len(z) = n
  <2>1. z = [k \in 1 .. n |-> z[k]]
    BY DEF Zeros
  <2> HIDE DEF z
  <2> QED
    BY <2>1, Suite1N
<1>4. m = [x \in Tableaux |-> m[x]] /\ \A x \in Tableaux : m[x] \in Seq(Range(m[x]))
  BY DEF Memoire
<1>5. <<>> \in Seq(Range(<<>>)) /\ Range(t) \subseteq Tableaux
  BY <1>1 DEF Range
<1> HIDE DEF libre, z
<1>6. CASE m2 = m /\ Len(m[b]) >= n
  BY <1>6
<1>7. ASSUME NEW s \in DOMAIN p, b = libre, m2 = [m EXCEPT ![p[s]] = <<>>, ![b] = z]
      PROVE  Memoire(m2) /\ Len(m2[b]) >= n /\ \A x \in Range(t) : m2[x] = m[x]
  <2>1. p[s] \in Tableaux /\ p[s] \in Range(p) /\ p[s] # b
    BY <1>1, <1>2, <1>7 DEF Range
  <2>2. /\ m2 = [x \in Tableaux |-> m2[x]]
        /\ \A x \in Tableaux : m2[x] = IF x = b THEN z ELSE IF x = p[s] THEN <<>> ELSE m[x]
    BY <1>4, <1>7, <2>1
  <2>3. Memoire(m2)
    BY <1>3, <1>4, <1>5, <2>2 DEF Memoire
  <2>4. \A x \in Range(t) : x # b /\ x # p[s] /\ x \in Tableaux
    BY <1>1, <1>2, <1>5, <1>7, <2>1
  <2>5. m2[b] = z
    BY <2>2
  <2>6. Len(m2[b]) >= n
    BY <1>3, <2>5
  <2> QED
    BY <2>2, <2>3, <2>4, <2>6
<1>8. CASE b = libre /\ m2 = [m EXCEPT ![b] = z]
  <2>2. /\ m2 = [x \in Tableaux |-> m2[x]]
        /\ \A x \in Tableaux : m2[x] = IF x = b THEN z ELSE m[x]
    BY <1>4, <1>8
  <2>3. Memoire(m2)
    BY <1>3, <1>4, <2>2 DEF Memoire
  <2>4. \A x \in Range(t) : x # b /\ x \in Tableaux
    BY <1>2, <1>5, <1>8
  <2>5. m2[b] = z
    BY <2>2
  <2>6. Len(m2[b]) >= n
    BY <1>3, <2>5
  <2> QED
    BY <2>2, <2>3, <2>4, <2>6
<1> QED
  BY <1>6, <1>7, <1>8 DEF Prise, libre, z

LEMMA PrendreOctetsTient ==
  ASSUME EtatPool(octets, tenusO, 2), Memoire(memO), NEW n \in Nat, NEW b \in Tableaux,
         O!Prendre(poolActif, b, n, Range(tenusO))
  PROVE  Memoire(memO') /\ Len(memO'[b]) >= n
<1>1. O!Reprend(b, n) => Prise(octets, tenusO, memO, memO', b, n)
  BY DEF O!Reprend, Prise
<1>2. O!Remplace(b, n, Range(tenusO)) => Prise(octets, tenusO, memO, memO', b, n)
  BY DEF O!Remplace, O!Offerts, O!Libre, O!Tampons, Tableaux, O!Neuf, Zeros, Prise,
              O!Min, Min, O!Range, Range
<1>3. O!Alloue(b, n, Range(tenusO)) => Prise(octets, tenusO, memO, memO', b, n)
  BY DEF O!Alloue, O!Libre, O!Tampons, Tableaux, O!Neuf, Zeros, Prise,
              O!Min, Min, O!Range, Range
<1>4. Prise(octets, tenusO, memO, memO', b, n)
  BY <1>1, <1>2, <1>3 DEF O!Prendre
<1>5. 2 \in 0..4
  OBVIOUS
<1> QED
  BY <1>4, <1>5, MemoirePrise

LEMMA PrendreMotsTient ==
  ASSUME EtatPool(mots, tenusM, 4), Memoire(memM), NEW n \in Nat, NEW b \in Tableaux,
         W!Prendre(poolActif, b, n, Range(tenusM))
  PROVE  /\ Memoire(memM') /\ Len(memM'[b]) >= n
         /\ \A x \in Range(tenusM) : memM'[x] = memM[x]
<1>1. W!Reprend(b, n) => Prise(mots, tenusM, memM, memM', b, n)
  BY DEF W!Reprend, Prise
<1>2. W!Remplace(b, n, Range(tenusM)) => Prise(mots, tenusM, memM, memM', b, n)
  BY DEF W!Remplace, W!Offerts, W!Libre, W!Tampons, Tableaux, W!Neuf, Zeros, Prise,
              W!Min, Min, W!Range, Range
<1>3. W!Alloue(b, n, Range(tenusM)) => Prise(mots, tenusM, memM, memM', b, n)
  BY DEF W!Alloue, W!Libre, W!Tampons, Tableaux, W!Neuf, Zeros, Prise,
              W!Min, Min, W!Range, Range
<1>4. Prise(mots, tenusM, memM, memM', b, n)
  BY <1>1, <1>2, <1>3 DEF W!Prendre
<1>5. 4 \in 0..4
  OBVIOUS
<1> QED
  BY <1>4, <1>5, MemoirePrise

-----------------------------------------------------------------------------
(* What is written first is a sequence of bytes, in every format.          *)
LEMMA EnteteSeul ==
  ASSUME NEW s, NEW sans
  PROVE  <<>> \o Entete(s, sans) = Entete(s, sans)
<1> DEFINE f == IF sans THEN 0 ELSE AvecDecor
           S == {Magie, s.turn, s.width, s.height, f}
<1>1. Entete(s, sans) = <<Magie, s.turn, s.width, s.height, f>>
  BY DEF Entete
<1> HIDE DEF f
<1>2. Entete(s, sans) \in Seq(S)
  BY <1>1
<1> HIDE DEF S
<1> QED
  BY <1>2, ConcatEmptySeq

LEMMA ChampSuite ==
  ASSUME NEW s, Nombre(s) \in Nat, NEW m, NEW g \in 1..4, NEW S, Nombre(s) \in S,
         \A h \in 1..4 : \A k \in 1 .. Nombre(s) : m[h][k] \in S
  PROVE  Champ(s, m, g) \in Seq(S) /\ Len(Champ(s, m, g)) = Nombre(s) + 1
<1> DEFINE n == Nombre(s)
           c == [k \in 1 .. n |-> m[g][k]]
<1>1. c \in [1 .. n -> S]
  OBVIOUS
<1>2. c \in Seq(S) /\ Len(c) = n
  BY <1>1
<1>3. <<n>> \in Seq(S) /\ Len(<<n>>) = 1
  OBVIOUS
<1>4. Champ(s, m, g) = <<n>> \o c
  BY DEF Champ
<1> HIDE DEF n, c
<1>5. <<n>> \o c \in Seq(S) /\ Len(<<n>> \o c) = 1 + Len(c)
  BY <1>2, <1>3, ConcatProperties
<1>6. n \in Nat
  BY DEF n
<1>7. Len(Champ(s, m, g)) = n + 1
  BY <1>2, <1>4, <1>5, <1>6
<1> QED
  BY <1>4, <1>5, <1>7 DEF n

LEMMA MessageSuite ==
  ASSUME NEW s, Nombre(s) \in Nat, NEW m
  PROVE  /\ TailleMessage(s) \in Nat
         /\ [k \in 1 .. TailleMessage(s) |-> Message(s, m)[k]] = Message(s, m)
         /\ <<>> \o Message(s, m) = Message(s, m)
<1> DEFINE n == Nombre(s)
           S == {s.turn, s.width, s.height, n}
                  \cup {m[h][k] : h \in 1..4, k \in 1 .. n}
           t == <<s.turn, s.width, s.height>>
           a == Champ(s, m, 1)
           b == Champ(s, m, 2)
           c == Champ(s, m, 3)
           d == Champ(s, m, 4)
<1>1. n \in Nat /\ t \in Seq(S) /\ Len(t) = 3
  OBVIOUS
<1>2. \A h \in 1..4 : \A k \in 1 .. n : m[h][k] \in S
  OBVIOUS
<1>3. Nombre(s) \in S
  OBVIOUS
<1>4. Message(s, m) = t \o a \o b \o c \o d
  BY DEF Message
<1>8. TailleMessage(s) = 3 + 4 * (n + 1)
  BY DEF TailleMessage
<1> HIDE DEF S, t
<1>5. /\ a \in Seq(S) /\ Len(a) = n + 1
      /\ b \in Seq(S) /\ Len(b) = n + 1
      /\ c \in Seq(S) /\ Len(c) = n + 1
      /\ d \in Seq(S) /\ Len(d) = n + 1
  BY <1>2, <1>3, ChampSuite
<1> HIDE DEF a, b, c, d, n
<1> DEFINE u == t \o a
           v == u \o b
           w == v \o c
           x == w \o d
<1>6. u \in Seq(S) /\ Len(u) = Len(t) + Len(a)
  BY <1>1, <1>5, ConcatProperties
<1> HIDE DEF u
<1>7. v \in Seq(S) /\ Len(v) = Len(u) + Len(b)
  BY <1>5, <1>6, ConcatProperties
<1> HIDE DEF v
<1>9. w \in Seq(S) /\ Len(w) = Len(v) + Len(c)
  BY <1>5, <1>7, ConcatProperties
<1> HIDE DEF w
<1>10. x \in Seq(S) /\ Len(x) = Len(w) + Len(d)
  BY <1>5, <1>9, ConcatProperties
<1> HIDE DEF x
<1>11. Message(s, m) \in Seq(S) /\ Len(Message(s, m)) = TailleMessage(s)
  <2>1. Len(x) = 3 + (n + 1) + (n + 1) + (n + 1) + (n + 1)
    BY <1>1, <1>5, <1>6, <1>7, <1>9, <1>10
  <2>2. 3 + (n + 1) + (n + 1) + (n + 1) + (n + 1) = 3 + 4 * (n + 1)
    BY <1>1
  <2>3. Message(s, m) = x
    BY <1>4 DEF u, v, w, x
  <2> QED
    BY <1>8, <1>10, <2>1, <2>2, <2>3
<1>12. TailleMessage(s) \in Nat
  BY <1>1, <1>8
<1>13. <<>> \o Message(s, m) = Message(s, m)
  BY <1>11, ConcatEmptySeq
<1>14. Message(s, m) = [k \in 1 .. Len(Message(s, m)) |-> Message(s, m)[k]]
  BY <1>11, SuiteFonction
<1> QED
  BY <1>11, <1>12, <1>13, <1>14

(* A message is made of the fields, and of nothing else that is in the     *)
(* arrays they were converted into.                                        *)
LEMMA MessageDesChamps ==
  ASSUME NEW s, NEW m, NEW m2,
         \A g \in 1..4 : \A k \in 1 .. Nombre(s) : m[g][k] = m2[g][k]
  PROVE  Message(s, m) = Message(s, m2)
<1>1. \A g \in 1..4 : [k \in 1 .. Nombre(s) |-> m[g][k]] = [k \in 1 .. Nombre(s) |-> m2[g][k]]
  OBVIOUS
<1>2. \A g \in 1..4 : Champ(s, m, g) = Champ(s, m2, g)
  BY <1>1 DEF Champ
<1> QED
  BY <1>2 DEF Message

LEMMA DocumentSeul ==
  ASSUME NEW s, Nombre(s) \in Nat
  PROVE  <<>> \o Document(s) = Document(s)
<1> DEFINE n == 6 * Nombre(s)
           c == [k \in 1 .. n |-> Cellule(s, (k + 5) \div 6)[((k + 5) % 6) + 1]]
           S == {s.turn, s.width, s.height, Accolade, FinLigne} \cup {c[k] : k \in 1 .. n}
           t == <<s.turn, s.width, s.height>>
           f == <<Accolade, FinLigne>>
<1>1. n \in Nat /\ t \in Seq(S) /\ f \in Seq(S)
  OBVIOUS
<1>2. c = [k \in 1 .. n |-> c[k]] /\ \A k \in 1 .. n : c[k] \in S
  OBVIOUS
<1>3. Document(s) = t \o c \o f
  BY DEF Document
<1> HIDE DEF n, c, S, t, f
<1>4. c \in [1 .. n -> S]
  BY <1>2
<1>5. c \in Seq(S)
  BY <1>1, <1>4
<1>6. t \o c \in Seq(S)
  BY <1>1, <1>5, ConcatProperties
<1>7. t \o c \o f \in Seq(S)
  BY <1>1, <1>6, ConcatProperties
<1> QED
  BY <1>3, <1>7, ConcatEmptySeq

-----------------------------------------------------------------------------
LEMMA InitContenu == Init => ContenuOK
<1> SUFFICES ASSUME Init PROVE ContenuOK
  OBVIOUS
<1>1. /\ carte.width \in Nat /\ carte.height \in Nat
      /\ memO = [b \in Tableaux |-> <<>>] /\ memM = [b \in Tableaux |-> <<>>]
      /\ pc = "capture"
  BY ArchiveAssumption DEF Init, moteur!Init, WellFormed, O!PInit, W!PInit,
     O!Tampons, W!Tampons, Tableaux
<1>2. Memoire(memO) /\ Memoire(memM)
  <2>1. <<>> \in Seq(Range(<<>>))
    OBVIOUS
  <2> QED
    BY <1>1, <2>1 DEF Memoire
<1> QED
  BY <1>1, <1>2 DEF ContenuOK, Phases, EcritJuste, TamponJuste, MotsJustes

(* The steps that hand bytes over leave every buffer alone.                *)
LEMMA EcritLaisse ==
  ASSUME NEW piece, NEW suite, Ecrit(piece, suite)
  PROVE  /\ UNCHANGED <<memO, memM, tenusO, tenusM, doc, format>>
         /\ \/ pc' = suite /\ fichier' = fichier \o piece
            \/ pc' = "rend" /\ err'
BY DEF Ecrit, appel, pools

LEMMA EcrituresJustes ==
  ASSUME TamponsOK, ContenuOK, pc \in Phases,
         PackedEntete \/ PackedEcritDecor \/ PackedEcritEtat \/ ProtoEcrit \/ JSONEcrit
  PROVE  EcritJuste' /\ TamponJuste' /\ MotsJustes'
<1>1. EcritJuste /\ TamponJuste /\ MotsJustes /\ Nombre(doc) \in Nat
  BY DEF ContenuOK
<1>2. CASE PackedEntete
  <2>1. pc = "packed" /\ fichier = <<>> /\ format \in {"packed", "packedSansDecor"}
    BY <1>1, <1>2 DEF PackedEntete, EcritJuste
  <2>2. /\ UNCHANGED <<doc, format>>
        /\ \/ /\ pc' = IF SansDecor THEN "prendEtat" ELSE "prendDecor"
              /\ fichier' = Entete(doc, SansDecor)
           \/ pc' = "rend" /\ err'
    BY <1>2, <2>1, EcritLaisse, EnteteSeul DEF PackedEntete
  <2>3. /\ SansDecor => Entete(doc, SansDecor) = Entete(doc, TRUE)
        /\ ~SansDecor => Entete(doc, SansDecor) = Entete(doc, FALSE)
    BY DEF Entete
  <2>4. CASE SansDecor /\ pc' = "prendEtat" /\ fichier' = Entete(doc, TRUE)
    BY <2>1, <2>2, <2>4 DEF EcritJuste, TamponJuste, MotsJustes, Debut, SansDecor
  <2>5. CASE ~SansDecor /\ pc' = "prendDecor" /\ fichier' = Entete(doc, FALSE)
    BY <2>1, <2>2, <2>5 DEF EcritJuste, TamponJuste, MotsJustes, SansDecor
  <2>6. CASE pc' = "rend" /\ err'
    BY <2>6 DEF EcritJuste, TamponJuste, MotsJustes
  <2> QED
    BY <2>2, <2>3, <2>4, <2>5, <2>6
<1>3. CASE PackedEcritDecor
  <2>1. /\ pc = "ecritDecor" /\ format = "packed" /\ fichier = Entete(doc, FALSE)
        /\ SubSeq(Tampon, 1, Nombre(doc)) = Decor
    BY <1>1, <1>3 DEF PackedEcritDecor, EcritJuste, TamponJuste
  <2>2. DesOctets(Nombre(doc)) = Decor
    BY <2>1 DEF DesOctets, Tampon, Last
  <2>3. /\ UNCHANGED <<doc, format>>
        /\ \/ pc' = "prendEtat" /\ fichier' = Entete(doc, FALSE) \o Decor
           \/ pc' = "rend" /\ err'
    BY <1>3, <2>1, <2>2, EcritLaisse DEF PackedEcritDecor
  <2>4. CASE pc' = "prendEtat" /\ fichier' = Entete(doc, FALSE) \o Decor
    <3>1. fichier' = Debut'
      BY <2>1, <2>3, <2>4 DEF Debut, Decor, SansDecor
    <3> QED
      BY <2>1, <2>3, <2>4, <3>1 DEF EcritJuste, TamponJuste, MotsJustes
  <2>5. CASE pc' = "rend" /\ err'
    BY <2>5 DEF EcritJuste, TamponJuste, MotsJustes
  <2> QED
    BY <2>3, <2>4, <2>5
<1>4. CASE PackedEcritEtat
  <2>1. /\ pc = "ecritEtat" /\ format \in {"packed", "packedSansDecor"} /\ fichier = Debut
        /\ SubSeq(Tampon, 1, Moitie(doc)) = Etat
    BY <1>1, <1>4 DEF PackedEcritEtat, EcritJuste, TamponJuste
  <2>2. DesOctets(Moitie(doc)) = Etat
    BY <2>1 DEF DesOctets, Tampon, Last
  <2>3. /\ UNCHANGED <<doc, format>> /\ pc' = "rend"
        /\ fichier' = Debut \o Etat \/ err'
    BY <1>4, <2>1, <2>2, EcritLaisse DEF PackedEcritEtat
  <2>4. Debut \o Etat = Attendu(format, doc)
    BY <2>1 DEF Debut, Etat, Decor, Attendu, SansDecor
  <2> QED
    BY <2>3, <2>4 DEF EcritJuste, TamponJuste, MotsJustes
<1>5. CASE ProtoEcrit
  <2>1. /\ pc = "ecritProto" /\ format = "proto" /\ fichier = <<>>
        /\ SubSeq(Tampon, 1, TailleMessage(doc)) = Message(doc, Champs(doc))
    BY <1>1, <1>5 DEF ProtoEcrit, EcritJuste, TamponJuste
  <2>2. DesOctets(TailleMessage(doc)) = Message(doc, Champs(doc))
    BY <2>1 DEF DesOctets, Tampon, Last
  <2>3. <<>> \o Message(doc, Champs(doc)) = Message(doc, Champs(doc))
    BY <1>1, MessageSuite
  <2>4. /\ UNCHANGED <<doc, format>> /\ pc' = "rend"
        /\ fichier' = Message(doc, Champs(doc)) \/ err'
    BY <1>5, <2>1, <2>2, <2>3, EcritLaisse DEF ProtoEcrit
  <2>5. Attendu(format, doc) = Message(doc, Champs(doc))
    BY <2>1 DEF Attendu
  <2> QED
    BY <2>4, <2>5 DEF EcritJuste, TamponJuste, MotsJustes
<1>6. CASE JSONEcrit
  <2>1. pc = "json" /\ format = "json" /\ fichier = <<>>
    BY <1>1, <1>6 DEF JSONEcrit, EcritJuste
  <2>2. /\ UNCHANGED <<doc, format>> /\ pc' = "rend"
        /\ fichier' = Document(doc) \/ err'
    BY <1>1, <1>6, <2>1, EcritLaisse, DocumentSeul DEF JSONEcrit
  <2>3. Attendu(format, doc) = Document(doc)
    BY <2>1 DEF Attendu
  <2> QED
    BY <2>2, <2>3 DEF EcritJuste, TamponJuste, MotsJustes
<1> QED
  BY <1>2, <1>3, <1>4, <1>5, <1>6

(* The steps that take a buffer of bytes find room enough in it, whether   *)
(* it was used or is new.                                                  *)
LEMMA PrisesJustes ==
  ASSUME TamponsOK, ContenuOK, pc \in Phases,
         PackedPrendDecor \/ PackedPrendEtat \/ ProtoTampon
  PROVE  /\ EcritJuste' /\ TamponJuste' /\ MotsJustes'
         /\ Memoire(memO)' /\ Memoire(memM)'
<1>0. /\ EcritJuste /\ TamponJuste /\ MotsJustes /\ Nombre(doc) \in Nat
      /\ Memoire(memO) /\ Memoire(memM) /\ EtatPool(octets, tenusO, 2)
      /\ tenusO \in Seq(Tableaux)
  BY DEF ContenuOK, TamponsOK, EtatPool
<1>1. Moitie(doc) \in Nat /\ TailleMessage(doc) \in Nat
  BY <1>0, MessageSuite DEF Moitie
<1>2. ASSUME NEW n \in Nat, NEW suite, PrendOctets(n, suite)
      PROVE  /\ Memoire(memO') /\ Memoire(memM') /\ Len(Tampon') >= n
             /\ UNCHANGED <<memM, tenusM, doc, format, fichier, err>> /\ pc' = suite
  <2>1. PICK b \in O!Tampons :
          O!Prendre(poolActif, b, n, Range(tenusO)) /\ tenusO' = Append(tenusO, b)
    BY <1>2 DEF PrendOctets
  <2>2. b \in Tableaux
    BY DEF O!Tampons, Tableaux
  <2>3. Memoire(memO') /\ Len(memO'[b]) >= n
    BY <1>0, <2>1, <2>2, PrendreOctetsTient
  <2>4. tenusO'[Len(tenusO')] = b
    BY <1>0, <2>1, <2>2, AppendProperties
  <2>5. UNCHANGED <<memM, tenusM, doc, format, fichier, err>> /\ pc' = suite
    BY <1>2 DEF PrendOctets, appel
  <2> QED
    BY <1>0, <2>3, <2>4, <2>5 DEF Tampon
<1>3. CASE PackedPrendDecor
  <2>1. /\ pc = "prendDecor" /\ pc' = "remplitDecor" /\ Len(Tampon') >= Nombre(doc)
        /\ UNCHANGED <<memM, tenusM, doc, format, fichier, err>>
        /\ Memoire(memO') /\ Memoire(memM')
    BY <1>0, <1>2, <1>3 DEF PackedPrendDecor
  <2> QED
    BY <1>0, <2>1 DEF EcritJuste, TamponJuste, MotsJustes, Memoire
<1>4. CASE PackedPrendEtat
  <2>1. /\ pc = "prendEtat" /\ pc' = "remplitEtat" /\ Len(Tampon') >= Moitie(doc)
        /\ UNCHANGED <<memM, tenusM, doc, format, fichier, err>>
        /\ Memoire(memO') /\ Memoire(memM')
    BY <1>1, <1>2, <1>4 DEF PackedPrendEtat
  <2>2. Debut' = Debut
    BY <2>1 DEF Debut, Decor, SansDecor
  <2> QED
    BY <1>0, <2>1, <2>2 DEF EcritJuste, TamponJuste, MotsJustes, Memoire
<1>5. CASE ProtoTampon
  <2>1. /\ pc = "marshal" /\ pc' = "code" /\ Len(Tampon') >= TailleMessage(doc)
        /\ UNCHANGED <<memM, tenusM, doc, format, fichier, err>>
        /\ Memoire(memO') /\ Memoire(memM')
    BY <1>1, <1>2, <1>5 DEF ProtoTampon
  <2> QED
    BY <1>0, <2>1 DEF EcritJuste, TamponJuste, MotsJustes, Memoire
<1> QED
  BY <1>3, <1>4, <1>5

(* The steps that fill a buffer overwrite every byte that will be written, *)
(* whatever it held.                                                       *)
LEMMA RemplissagesJustes ==
  ASSUME TamponsOK, ContenuOK, pc \in Phases, PackedDecor \/ PackedEtat \/ ProtoMarshal
  PROVE  /\ EcritJuste' /\ TamponJuste' /\ MotsJustes'
         /\ Memoire(memO)' /\ Memoire(memM)'
<1> DEFINE b == tenusO[Len(tenusO)]
<1>0. /\ EcritJuste /\ TamponJuste /\ MotsJustes /\ Nombre(doc) \in Nat
      /\ Memoire(memO) /\ Memoire(memM) /\ tenusO \in Seq(Tableaux)
      /\ Longueurs(pc, Len(tenusO), Len(tenusM))
  BY DEF ContenuOK, TamponsOK, EtatPool
<1>1. Moitie(doc) \in Nat /\ TailleMessage(doc) \in Nat
  BY <1>0, MessageSuite DEF Moitie
<1>2. pc \in {"remplitDecor", "remplitEtat", "code"}
  BY DEF PackedDecor, PackedEtat, ProtoMarshal
<1>3. b \in Tableaux
  <2>1. Len(tenusO) \in Nat
    BY <1>0
  <2>2. Len(tenusO) \in 1 .. 2
    BY <1>0, <1>2, <2>1 DEF Longueurs
  <2> QED
    BY <1>0, <2>1, <2>2
<1>4. Tampon = memO[b] /\ memO[b] \in Seq(Range(memO[b]))
  BY <1>0, <1>3 DEF Tampon, Memoire
<1> HIDE DEF b
<1>5. ASSUME NEW n \in Nat, NEW f, Len(memO[b]) >= n, tenusO' = tenusO,
             memO' = [memO EXCEPT ![b] =
                        [k \in DOMAIN memO[b] |-> IF k <= n THEN f[k] ELSE memO[b][k]]]
      PROVE  Memoire(memO') /\ SubSeq(Tampon', 1, n) = [k \in 1 .. n |-> f[k]]
  <2> DEFINE m2 == [memO EXCEPT ![b] =
                     [k \in DOMAIN memO[b] |-> IF k <= n THEN f[k] ELSE memO[b][k]]]
  <2>1. Ecrasee(memO, b, n, f, m2)
    BY DEF Ecrasee
  <2>2. memO' = m2 /\ Tampon' = m2[b]
    BY <1>5 DEF Tampon, b
  <2> HIDE DEF m2
  <2>3. Memoire(m2) /\ SubSeq(m2[b], 1, n) = [k \in 1 .. n |-> f[k]]
    <3>1. Memoire(memO) /\ Len(memO[b]) >= n
      BY <1>0, <1>5
    <3>2. Memoire(m2) /\ Debute(m2[b], n, f)
      BY <1>3, <2>1, <3>1, Ecrase
    <3> QED
      BY <3>2 DEF Debute
  <2> QED
    BY <2>2, <2>3
<1>6. CASE PackedDecor
  <2> DEFINE n == Nombre(doc)
             f == [k \in 1 .. n |-> OctetDecor(doc, k)]
  <2>1. /\ pc = "remplitDecor" /\ pc' = "ecritDecor" /\ Len(memO[b]) >= n
        /\ UNCHANGED <<memM, tenusO, tenusM, doc, format, fichier, err>>
    BY <1>0, <1>4, <1>6 DEF PackedDecor, appel, TamponJuste
  <2>2. memO' = [memO EXCEPT ![b] =
                   [k \in DOMAIN memO[b] |-> IF k <= n THEN OctetDecor(doc, k) ELSE memO[b][k]]]
    BY <1>6 DEF PackedDecor, Remplit, Last, b
  <2>3. [k \in DOMAIN memO[b] |-> IF k <= n THEN OctetDecor(doc, k) ELSE memO[b][k]]
        = [k \in DOMAIN memO[b] |-> IF k <= n THEN f[k] ELSE memO[b][k]]
    <3>1. \A k \in DOMAIN memO[b] : k \in Nat /\ k >= 1
      BY <1>4
    <3>2. \A k \in DOMAIN memO[b] : k <= n => k \in 1 .. n
      BY <1>0, <3>1
    <3> HIDE DEF n
    <3> QED
      BY <3>2
  <2>4. [k \in 1 .. n |-> f[k]] = Decor /\ Decor' = Decor
    BY <2>1 DEF Decor
  <2>5. n \in Nat
    BY <1>0
  <2> HIDE DEF n, f
  <2>6. Memoire(memO') /\ SubSeq(Tampon', 1, n) = Decor'
    BY <1>5, <2>1, <2>2, <2>3, <2>4, <2>5
  <2>7. TamponJuste'
    BY <2>1, <2>6 DEF TamponJuste, n
  <2> QED
    BY <1>0, <2>1, <2>6, <2>7 DEF EcritJuste, MotsJustes, Memoire
<1>7. CASE PackedEtat
  <2> DEFINE n == Moitie(doc)
             f == [k \in 1 .. n |-> OctetEtat(0, doc, k)]
  <2>1. /\ pc = "remplitEtat" /\ pc' = "ecritEtat" /\ Len(memO[b]) >= n
        /\ UNCHANGED <<memM, tenusO, tenusM, doc, format, fichier, err>>
    BY <1>0, <1>4, <1>7 DEF PackedEtat, appel, TamponJuste
  <2>2. memO' = [memO EXCEPT ![b] =
                   [k \in DOMAIN memO[b] |->
                      IF k <= n THEN OctetEtat(memO[b][k], doc, k) ELSE memO[b][k]]]
    BY <1>7 DEF PackedEtat, Remplit, Last, b
  <2>3. [k \in DOMAIN memO[b] |->
           IF k <= n THEN OctetEtat(memO[b][k], doc, k) ELSE memO[b][k]]
        = [k \in DOMAIN memO[b] |-> IF k <= n THEN f[k] ELSE memO[b][k]]
    <3>1. \A k \in DOMAIN memO[b] : k \in Nat /\ k >= 1
      BY <1>4
    <3>2. \A k \in DOMAIN memO[b] : k <= n => k \in 1 .. n
      BY <1>1, <3>1
    <3>3. \A x, k : OctetEtat(x, doc, k) = OctetEtat(0, doc, k)
      BY DEF OctetEtat, Pair
    <3> HIDE DEF n
    <3> QED
      BY <3>2, <3>3
  <2>4. [k \in 1 .. n |-> f[k]] = Etat /\ Etat' = Etat
    BY <2>1 DEF Etat
  <2>5. n \in Nat
    BY <1>1
  <2> HIDE DEF n, f
  <2>6. Memoire(memO') /\ SubSeq(Tampon', 1, n) = Etat'
    BY <1>5, <2>1, <2>2, <2>3, <2>4, <2>5
  <2>7. TamponJuste'
    BY <2>1, <2>6 DEF TamponJuste, n
  <2>8. Debut' = Debut
    BY <2>1 DEF Debut, Decor, SansDecor
  <2> QED
    BY <1>0, <2>1, <2>6, <2>7, <2>8 DEF EcritJuste, MotsJustes, Memoire
<1>8. CASE ProtoMarshal
  <2> DEFINE n == TailleMessage(doc)
             w == [g \in 1..4 |-> memM[tenusM[g]]]
             f == Message(doc, w)
  <2>1. /\ pc = "code" /\ pc' = "ecritProto" /\ Len(memO[b]) >= n
        /\ UNCHANGED <<memM, tenusO, tenusM, doc, format, fichier, err>>
    BY <1>0, <1>4, <1>8 DEF ProtoMarshal, appel, TamponJuste
  <2>2. memO' = [memO EXCEPT ![b] =
                   [k \in DOMAIN memO[b] |-> IF k <= n THEN f[k] ELSE memO[b][k]]]
    BY <1>8 DEF ProtoMarshal, Remplit, Last, b
  <2>3. f = Message(doc, Champs(doc))
    <3>1. \A g \in 1..4 : \A k \in 1 .. Nombre(doc) : w[g][k] = Champs(doc)[g][k]
      BY <1>0, <2>1 DEF MotsJustes
    <3> HIDE DEF w
    <3> QED
      BY <3>1, MessageDesChamps
  <2>4. [k \in 1 .. n |-> f[k]] = f
    BY <1>0, MessageSuite
  <2> HIDE DEF n, f
  <2>5. n \in Nat
    BY <1>1 DEF n
  <2>6. Memoire(memO') /\ SubSeq(Tampon', 1, n) = f
    BY <1>5, <2>1, <2>2, <2>4, <2>5
  <2>7. TamponJuste'
    BY <2>1, <2>3, <2>6 DEF TamponJuste, n
  <2> QED
    BY <1>0, <2>1, <2>6, <2>7 DEF EcritJuste, MotsJustes, Memoire
<1> QED
  BY <1>6, <1>7, <1>8

(* The slices of words: there is room in each, the new one and the ones    *)
(* taken before it, and each is filled from the field it was taken for.    *)
LEMMA MotsPris ==
  ASSUME TamponsOK, ContenuOK, pc \in Phases, ProtoPrend
  PROVE  /\ EcritJuste' /\ TamponJuste' /\ MotsJustes'
         /\ Memoire(memO)' /\ Memoire(memM)'
<1> DEFINE n == Nombre(doc)
           l == Len(tenusM)
<1>0. /\ EcritJuste /\ TamponJuste /\ MotsJustes /\ n \in Nat
      /\ Memoire(memO) /\ Memoire(memM) /\ EtatPool(mots, tenusM, 4)
      /\ tenusM \in Seq(Tableaux) /\ l \in Nat
  BY DEF ContenuOK, TamponsOK, EtatPool
<1>1. PICK b \in W!Tampons :
        W!Prendre(poolActif, b, n, Range(tenusM)) /\ tenusM' = Append(tenusM, b)
  BY DEF ProtoPrend
<1>2. b \in Tableaux
  BY DEF W!Tampons, Tableaux
<1>3. /\ pc = "proto" /\ pc' = "proto"
      /\ UNCHANGED <<memO, tenusO, doc, format, fichier, err>>
  BY DEF ProtoPrend, appel
<1>4. /\ Memoire(memM') /\ Len(memM'[b]) >= n
      /\ \A x \in Range(tenusM) : memM'[x] = memM[x]
  BY <1>0, <1>1, <1>2, PrendreMotsTient
<1>5. \A g \in 1 .. l : Len(memM[tenusM[g]]) >= n
  BY <1>0, <1>3 DEF MotsJustes
<1>6. /\ Len(tenusM') = l + 1 /\ tenusM'[l + 1] = b
      /\ \A g \in 1 .. l : tenusM'[g] = tenusM[g]
  BY <1>0, <1>1, <1>2, AppendProperties
<1>7. \A g \in 1 .. l : tenusM[g] \in Range(tenusM)
  BY <1>0 DEF Range
<1>8. MotsJustes'
  <2> SUFFICES ASSUME NEW g \in 1 .. l + 1
      PROVE  Len(memM'[tenusM'[g]]) >= n
    BY <1>3, <1>6 DEF MotsJustes
  <2>1. CASE g = l + 1
    BY <1>4, <1>6, <2>1
  <2>2. CASE g # l + 1
    <3>1. g \in 1 .. l
      BY <1>0, <2>2
    <3>2. memM'[tenusM'[g]] = memM[tenusM[g]]
      BY <1>4, <1>6, <1>7, <3>1
    <3> QED
      BY <1>5, <3>1, <3>2
  <2> QED
    BY <2>1, <2>2
<1>9. EcritJuste' /\ TamponJuste'
  BY <1>0, <1>3 DEF EcritJuste, TamponJuste
<1> QED
  BY <1>0, <1>3, <1>4, <1>8, <1>9 DEF Memoire

LEMMA QuatreTenus ==
  ASSUME NEW s \in Seq(Tableaux), Len(s) = 4
  PROVE  DOMAIN s = 1..4 /\ \A x \in 1..4 : s[x] \in Tableaux
<1>1. DOMAIN s = 1 .. Len(s) /\ \A x \in DOMAIN s : s[x] \in Tableaux
  <2>1. ASSUME NEW T, NEW u \in Seq(T)
        PROVE  DOMAIN u = 1 .. Len(u) /\ \A x \in DOMAIN u : u[x] \in T
    OBVIOUS
  <2> QED
    BY <2>1
<1> QED
  BY <1>1

LEMMA MotsConvertis ==
  ASSUME TamponsOK, ContenuOK, pc \in Phases, ProtoConvertit
  PROVE  /\ EcritJuste' /\ TamponJuste' /\ MotsJustes'
         /\ Memoire(memO)' /\ Memoire(memM)'
<1> DEFINE n == Nombre(doc)
           G(b) == {g \in 1..4 : tenusM[g] = b}
<1>0. /\ EcritJuste /\ TamponJuste /\ MotsJustes /\ n \in Nat
      /\ Memoire(memO) /\ Memoire(memM)
      /\ tenusM \in Seq(Tableaux) /\ IsInjective(tenusM)
  BY DEF ContenuOK, TamponsOK, EtatPool
<1>1. /\ pc = "proto" /\ pc' = "marshal" /\ Len(tenusM) = 4
      /\ UNCHANGED <<memO, tenusO, tenusM, doc, format, fichier, err>>
      /\ memM' = [b \in Tableaux |->
           [k \in DOMAIN memM[b] |->
              IF b \in Range(tenusM) /\ k <= n THEN Champs(doc)[Max(G(b))][k] ELSE memM[b][k]]]
  BY DEF ProtoConvertit, appel, W!Tampons, Tableaux
<1>a. DOMAIN tenusM = 1..4 /\ \A x \in 1..4 : tenusM[x] \in Tableaux
  <2>1. tenusM \in Seq(Tableaux)
    BY <1>0
  <2>2. Len(tenusM) = 4
    BY <1>1
  <2> QED
    BY <2>1, <2>2, QuatreTenus
<1>2. \A b \in Tableaux : memM[b] \in Seq(Range(memM[b]))
  BY <1>0 DEF Memoire
<1>3. \A b \in Tableaux : memM'[b] = [k \in DOMAIN memM[b] |-> memM'[b][k]]
  BY <1>1
<1>4. Memoire(memM')
  <2>1. ASSUME NEW b \in Tableaux
        PROVE  memM'[b] \in Seq(Range(memM'[b]))
    <3> DEFINE v == memM'[b]
    <3>1. Len(memM[b]) \in Nat /\ DOMAIN memM[b] = 1 .. Len(memM[b])
      BY <1>2
    <3>2. v = [k \in 1 .. Len(memM[b]) |-> v[k]]
      BY <1>3, <3>1
    <3> HIDE DEF v
    <3>3. v \in Seq(Range(v))
      BY <3>1, <3>2, Suite1N
    <3> QED
      BY <3>3 DEF v
  <2>2. memM' = [b \in Tableaux |-> memM'[b]]
    BY <1>1
  <2> QED
    BY <2>1, <2>2 DEF Memoire
<1>5. ASSUME NEW g \in 1..4, NEW k \in 1 .. n
      PROVE  memM'[tenusM[g]][k] = Champs(doc)[g][k]
  <2> DEFINE b == tenusM[g]
  <2>1. b \in Tableaux /\ b \in Range(tenusM) /\ DOMAIN tenusM = 1..4
    <3>1. DOMAIN tenusM = 1..4 /\ \A x \in 1..4 : tenusM[x] \in Tableaux
      BY <1>a
    <3> QED
      BY <3>1 DEF Range
  <2>2. G(b) = {g}
    BY <1>0, <2>1 DEF IsInjective
  <2>3. Max({g}) = g
    BY DEF Max
  <2>4. Len(memM[b]) >= n
    BY <1>0, <1>1 DEF MotsJustes
  <2>5. k \in DOMAIN memM[b] /\ k <= n
    <3>1. Len(memM[b]) \in Nat /\ DOMAIN memM[b] = 1 .. Len(memM[b])
      BY <1>2, <2>1
    <3> QED
      BY <1>0, <2>4, <3>1
  <2>6. Max(G(b)) = g
    BY <2>2, <2>3
  <2> HIDE DEF b, G
  <2>7. memM'[b][k] = Champs(doc)[Max(G(b))][k]
    BY <1>1, <2>1, <2>5
  <2> QED
    BY <2>6, <2>7 DEF b
<1>6. MotsJustes'
  <2>1. pc' = "marshal" /\ tenusM' = tenusM /\ doc' = doc
    BY <1>1
  <2>2. \A g \in 1..4 : \A k \in 1 .. Nombre(doc) : memM'[tenusM[g]][k] = Champs(doc)[g][k]
    BY <1>5
  <2> QED
    BY <2>1, <2>2 DEF MotsJustes
<1>7. EcritJuste' /\ TamponJuste'
  BY <1>0, <1>1 DEF EcritJuste, TamponJuste
<1> QED
  BY <1>0, <1>1, <1>4, <1>6, <1>7 DEF Memoire

(* Giving back and collecting touch no file, and no buffer in use.         *)
LEMMA RendusJustes ==
  ASSUME TamponsOK, ContenuOK, pc \in Phases, Rend \/ Collecte
  PROVE  /\ EcritJuste' /\ TamponJuste' /\ MotsJustes'
         /\ Memoire(memO)' /\ Memoire(memM)'
<1>0. EcritJuste /\ Memoire(memO) /\ Memoire(memM)
  BY DEF ContenuOK
<1>1. ASSUME NEW m, Memoire(m), NEW S, NEW m2,
             m2 = m \/ m2 = [b \in Tableaux |-> IF b \in S THEN <<>> ELSE m[b]]
      PROVE  Memoire(m2)
  BY <1>1, MemoireJetee
<1>2. CASE Rend
  <2>1. /\ pc = "rend" /\ pc' = "rendu"
        /\ UNCHANGED <<doc, format, fichier, err>>
    BY <1>2 DEF Rend, appel
  <2>2. /\ \/ memO' = memO
           \/ memO' = [b \in Tableaux |-> IF b \in Range(tenusO) THEN <<>> ELSE memO[b]]
        /\ \/ memM' = memM
           \/ memM' = [b \in Tableaux |-> IF b \in Range(tenusM) THEN <<>> ELSE memM[b]]
    BY <1>2 DEF Rend, O!Garde, W!Garde, O!Tampons, W!Tampons, Tableaux, O!Range, W!Range, Range
  <2>3. Memoire(memO') /\ Memoire(memM')
    BY <1>0, <1>1, <2>2
  <2> QED
    BY <1>0, <2>1, <2>3 DEF EcritJuste, TamponJuste, MotsJustes, Memoire
<1>3. CASE Collecte
  <2>1. /\ pc \in {"packed", "proto"} /\ pc' = pc /\ tenusM' = <<>>
        /\ UNCHANGED <<doc, format, fichier, err>>
    BY <1>3 DEF Collecte, appel
  <2>2. /\ \/ memO' = memO
           \/ memO' = [b \in Tableaux |-> IF b \in Range(octets) THEN <<>> ELSE memO[b]]
        /\ \/ memM' = memM
           \/ memM' = [b \in Tableaux |-> IF b \in Range(mots) THEN <<>> ELSE memM[b]]
    BY <1>3 DEF Collecte, O!Ramasse, W!Ramasse, O!Tampons, W!Tampons, Tableaux,
                O!Range, W!Range, Range
  <2>3. Memoire(memO') /\ Memoire(memM')
    BY <1>0, <1>1, <2>2
  <2>4. EcritJuste' /\ TamponJuste'
    BY <1>0, <2>1 DEF EcritJuste, TamponJuste
  <2>5. MotsJustes'
    <3>1. Len(tenusM') = 0 /\ 1 .. 0 = {}
      BY <2>1
    <3> QED
      BY <2>1, <3>1 DEF MotsJustes
  <2> QED
    BY <2>3, <2>4, <2>5 DEF Memoire
<1> QED
  BY <1>2, <1>3

LEMMA SuiteContenu ==
  ASSUME TamponsOK, SerieOK, ContenuOK, [Next]_vars
  PROVE  ContenuOK'
<1>0. /\ carte.width \in Nat /\ carte.height \in Nat /\ Memoire(memO) /\ Memoire(memM)
      /\ pc \in Phases => Nombre(doc) \in Nat
      /\ EcritJuste /\ TamponJuste /\ MotsJustes /\ format \in Formats
  BY DEF ContenuOK, SerieOK
<1>1. CASE Ecriture
  <2>1. /\ pc \in Phases /\ pc' \in Phases /\ doc' = doc /\ carte' = carte /\ FNext
    BY <1>1, PhaseSuivante DEF Ecriture, serie
  <2>2. EcritJuste' /\ TamponJuste' /\ MotsJustes' /\ Memoire(memO)' /\ Memoire(memM)'
    <3>1. CASE PackedEntete \/ PackedEcritDecor \/ PackedEcritEtat \/ ProtoEcrit \/ JSONEcrit
      <4>1. UNCHANGED <<memO, memM>>
        BY <3>1, EcritLaisse
           DEF PackedEntete, PackedEcritDecor, PackedEcritEtat, ProtoEcrit, JSONEcrit
      <4> QED
        BY <1>0, <2>1, <3>1, <4>1, EcrituresJustes DEF Memoire
    <3>2. CASE PackedPrendDecor \/ PackedPrendEtat \/ ProtoTampon
      BY <2>1, <3>2, PrisesJustes
    <3>3. CASE PackedDecor \/ PackedEtat \/ ProtoMarshal
      BY <2>1, <3>3, RemplissagesJustes
    <3>4. CASE ProtoPrend
      BY <2>1, <3>4, MotsPris
    <3>5. CASE ProtoConvertit
      BY <2>1, <3>5, MotsConvertis
    <3>6. CASE Rend \/ Collecte
      BY <2>1, <3>6, RendusJustes
    <3> QED
      BY <2>1, <3>1, <3>2, <3>3, <3>4, <3>5, <3>6 DEF FNext
  <2>3. Nombre(doc)' = Nombre(doc)
    BY <2>1 DEF Nombre
  <2> QED
    BY <1>0, <2>1, <2>2, <2>3 DEF ContenuOK
<1>2. CASE Releve
  <2>1. /\ doc' = Captee /\ fichier' = <<>> /\ pc' = Sorte(format)
        /\ UNCHANGED <<format, memO, memM, tenusM, carte>> /\ Len(tenusM) = 0
    BY <1>2 DEF Releve, Ecrire, pools, serie, TamponsOK, Longueurs
  <2>2. Nombre(doc)' \in Nat
    BY <1>0, <2>1 DEF Nombre, Captee, Capture
  <2>3. \/ pc' = "packed" /\ format \in {"packed", "packedSansDecor"}
        \/ pc' = "proto" /\ format = "proto"
        \/ pc' = "json" /\ format = "json"
    BY <1>0, <2>1 DEF Sorte, Formats
  <2>4. EcritJuste' /\ TamponJuste'
    BY <2>1, <2>3 DEF EcritJuste, TamponJuste
  <2>5. MotsJustes'
    <3>1. Len(tenusM') = 0 /\ 1 .. 0 = {}
      BY <2>1
    <3> QED
      BY <2>3, <3>1 DEF MotsJustes
  <2> QED
    BY <1>0, <2>1, <2>2, <2>4, <2>5 DEF ContenuOK, Memoire
<1>3. CASE Omet \/ Revient \/ Avance \/ Suivante
  <2>1. pc' \in {"capture", "avance", "fin"} /\ UNCHANGED <<memO, memM>>
    BY <1>3 DEF Omet, Revient, Avance, Suivante, pools
  <2>2. carte'.width \in Nat /\ carte'.height \in Nat
    <3>1. CASE carte' = carte
      BY <1>0, <3>1
    <3>2. CASE carte' \in Maps
      BY <3>2, ArchiveAssumption DEF WellFormed
    <3> QED
      BY <1>3, <3>1, <3>2 DEF Omet, Revient, Avance, Suivante, serie, moteur!Tour
  <2> QED
    BY <1>0, <2>1, <2>2 DEF ContenuOK, EcritJuste, TamponJuste, MotsJustes, Memoire, Phases
<1>4. CASE UNCHANGED vars
  <2>1. /\ UNCHANGED <<carte, memO, memM, pc, doc, format, tenusO, tenusM, fichier, err>>
    BY <1>4 DEF vars, fvars, pools, serie
  <2>2. /\ Nombre(doc)' = Nombre(doc) /\ Debut' = Debut /\ Decor' = Decor /\ Etat' = Etat
        /\ Tampon' = Tampon
    BY <2>1 DEF Nombre, Debut, Decor, Etat, SansDecor, Tampon
  <2>3. EcritJuste' /\ TamponJuste' /\ MotsJustes'
    BY <1>0, <2>1, <2>2 DEF EcritJuste, TamponJuste, MotsJustes
  <2> QED
    BY <1>0, <2>1, <2>2, <2>3 DEF ContenuOK, Memoire
<1> QED
  BY <1>1, <1>2, <1>3, <1>4 DEF Next

(* A Write that returns no error has written exactly the bytes the         *)
(* documentation gives for its argument, in every format, for any maps and *)
(* whatever the buffers it was given held: an earlier snapshot, larger or  *)
(* smaller, of this format or of another.                                  *)
THEOREM FichierSansResidu == Spec => []SansResidu
<1>1. ContenuOK => SansResidu
  BY DEF ContenuOK, EcritJuste, SansResidu
<1> QED
  BY <1>1, InitSerie, SuiteSerie, InitTampons, SuiteTampons, InitContenu, SuiteContenu, PTL
     DEF Spec

-----------------------------------------------------------------------------
(* Products by a positive number, quotients and remainders.                *)
LEMMA Produit ==
  ASSUME NEW d \in Nat \ {0}, NEW a \in Int, NEW b \in Int
  PROVE  /\ a * d \in Int /\ (a + 1) * d = a * d + d /\ (a - 1) * d = a * d - d
         /\ a <= b => a * d <= b * d
         /\ a * d < b * d => a < b
<1>1. a * d \in Int /\ (a + 1) * d = a * d + d /\ (a - 1) * d = a * d - d
  BY Z3
<1>2. ASSUME NEW x \in Int, NEW y \in Int, x <= y PROVE x * d <= y * d
  <2>1. y - x \in Nat
    BY <1>2
  <2>2. (y - x) * d >= 0 /\ (y - x) * d = y * d - x * d /\ x * d \in Int /\ y * d \in Int
    BY <2>1, Z3
  <2> QED
    BY <2>2
<1>3. ASSUME a * d < b * d PROVE a < b
  <2>1. b <= a => b * d <= a * d
    BY <1>2
  <2>2. b * d \in Int
    BY Z3
  <2> QED
    BY <1>1, <1>3, <2>1, <2>2
<1> QED
  BY <1>1, <1>2, <1>3

LEMMA Division ==
  ASSUME NEW d \in Nat \ {0}, NEW a \in Int
  PROVE  /\ a \div d \in Int /\ a % d \in 0 .. d - 1
         /\ a = (a \div d) * d + (a % d)
<1>1. a % d \in 0 .. d - 1
  BY Z3
<1>2. a \div d \in Int
  BY Z3
<1>3. a = d * (a \div d) + (a % d)
  BY Z3
<1>4. d * (a \div d) = (a \div d) * d
  BY <1>2, Z3
<1>5. a = (a \div d) * d + (a % d)
  BY <1>3, <1>4
<1> QED
  BY <1>1, <1>2, <1>5

(* The quotient is known by what it leaves.                                *)
LEMMA UnQuotient ==
  ASSUME NEW d \in Nat \ {0}, NEW q \in Int, NEW r \in 0 .. d - 1
  PROVE  (q * d + r) \div d = q /\ (q * d + r) % d = r
<1> DEFINE a == q * d + r
           x == a \div d
           y == a % d
<1>1. a \in Int
  BY Produit
<1>2. x \in Int /\ y \in 0 .. d - 1 /\ a = x * d + y
  BY <1>1, Division
<1>3. q * d \in Int /\ x * d \in Int /\ (q + 1) * d = q * d + d /\ (x + 1) * d = x * d + d
  BY <1>2, Produit
<1>4. x * d < (q + 1) * d /\ q * d < (x + 1) * d
  <2>1. x * d + y = q * d + r
    BY <1>2
  <2> HIDE DEF a, x, y
  <2> QED
    BY <1>2, <1>3, <2>1
<1>5. x < q + 1 /\ q < x + 1
  <2> HIDE DEF a, x, y
  <2> QED
    BY <1>2, <1>4, Produit
<1>6. x = q
  <2> HIDE DEF a, x, y
  <2> QED
    BY <1>2, <1>5
<1>7. y = r
  <2>1. q * d + y = q * d + r
    BY <1>2, <1>6
  <2> HIDE DEF a, x, y
  <2> QED
    BY <1>2, <1>3, <2>1
<1> QED
  BY <1>6, <1>7

LEMMA QuotientBas ==
  ASSUME NEW d \in Nat \ {0}, NEW q \in Int, NEW a \in Int
  PROVE  a \div d \in Int /\ (a < q * d => a \div d < q)
<1> DEFINE x == a \div d
           y == a % d
<1>1. x \in Int /\ y \in 0 .. d - 1 /\ a = x * d + y
  BY Division
<1>2. q * d \in Int /\ x * d \in Int
  BY <1>1, Produit
<1> HIDE DEF x, y
<1>3. a < q * d => x * d < q * d
  BY <1>1, <1>2
<1>4. a < q * d => x < q
  BY <1>1, <1>3, Produit
<1> QED
  BY <1>1, <1>4 DEF x

(* Numbers and coordinates of the cells of a w x h map.                    *)
LEMMA Numerotation ==
  ASSUME NEW w \in Nat \ {0}, NEW h \in Nat \ {0}
  PROVE  /\ w * h \in Nat \ {0}
         /\ \A k \in 1 .. w * h :
              /\ (k - 1) % w \in 0 .. w - 1 /\ (k - 1) \div w \in 0 .. h - 1
              /\ ((k - 1) \div w) * w + ((k - 1) % w) + 1 = k
<1>1. w * h \in Nat \ {0} /\ h * w = w * h
  BY Z3
<1>2. ASSUME NEW k \in 1 .. w * h
      PROVE  /\ (k - 1) % w \in 0 .. w - 1 /\ (k - 1) \div w \in 0 .. h - 1
             /\ ((k - 1) \div w) * w + ((k - 1) % w) + 1 = k
  <2> DEFINE q == k - 1
             x == q % w
             y == q \div w
  <2>1. q \in Int /\ q >= 0 /\ q < h * w
    BY <1>1
  <2>2. y \in Int /\ x \in 0 .. w - 1 /\ q = y * w + x
    BY <2>1, Division
  <2>3. y * w \in Int /\ (y + 1) * w = y * w + w /\ 0 * w = 0
    BY <2>2, Produit
  <2>4. y * w < h * w /\ 0 * w < (y + 1) * w
    <3> HIDE DEF q, x, y
    <3> QED
      BY <1>1, <2>1, <2>2, <2>3
  <2>5. y < h /\ 0 < y + 1
    <3> HIDE DEF q, x, y
    <3> QED
      BY <2>2, <2>4, Produit
  <2>6. y * w + x + 1 = k
    <3> HIDE DEF x, y
    <3> QED
      BY <2>2
  <2>7. x \in 0 .. w - 1 /\ y \in 0 .. h - 1
    <3> HIDE DEF x, y
    <3> QED
      BY <2>2, <2>5
  <2> QED
    BY <2>6, <2>7
<1> QED
  BY <1>1, <1>2

-----------------------------------------------------------------------------
(* The or of two bytes that share no bit is their sum.                     *)
LEMMA Bits6 ==
  ASSUME NEW c \in 0..63
  PROVE  c = (c % 2) + 2 * ((c \div 2) % 2) + 4 * ((c \div 4) % 2) + 8 * ((c \div 8) % 2)
               + 16 * ((c \div 16) % 2) + 32 * ((c \div 32) % 2)
  BY Z3

LEMMA OuDecale2 ==
  ASSUME NEW a \in 0..3, NEW c \in 0..63
  PROVE  Ou(a, 4 * c) = a + 4 * c
<1> DEFINE b == 4 * c
<1>1. /\ (b \div 1) % 2 = 0 /\ (b \div 2) % 2 = 0 /\ b \div 4 = c
      /\ b \div 8 = c \div 2 /\ b \div 16 = c \div 4 /\ b \div 32 = c \div 8
      /\ b \div 64 = c \div 16 /\ b \div 128 = c \div 32
  <2>1. (b \div 1) % 2 = 0 /\ (b \div 2) % 2 = 0
    BY Z3
  <2>2. b \div 4 = c /\ b \div 8 = c \div 2
    BY Z3
  <2>3. b \div 16 = c \div 4 /\ b \div 32 = c \div 8
    BY Z3
  <2>4. b \div 64 = c \div 16 /\ b \div 128 = c \div 32
    BY Z3
  <2> QED
    BY <2>1, <2>2, <2>3, <2>4
<1>2. /\ a \div 4 = 0 /\ a \div 8 = 0 /\ a \div 16 = 0 /\ a \div 32 = 0 /\ a \div 64 = 0
      /\ a \div 128 = 0 /\ 0 % 2 = 0 /\ a = ((a \div 1) % 2) + 2 * ((a \div 2) % 2)
  BY Z3
<1>3. /\ c % 2 \in 0..1 /\ (c \div 2) % 2 \in 0..1 /\ (c \div 4) % 2 \in 0..1
      /\ (c \div 8) % 2 \in 0..1 /\ (c \div 16) % 2 \in 0..1 /\ (c \div 32) % 2 \in 0..1
      /\ (a \div 1) % 2 \in 0..1 /\ (a \div 2) % 2 \in 0..1
  BY Z3
<1> QED
  BY <1>1, <1>2, <1>3, Bits6, Z3 DEF Ou

LEMMA OuDecale4 ==
  ASSUME NEW a \in 0..15, NEW c \in 0..15
  PROVE  Ou(a, c * 16) = a + 16 * c
<1> DEFINE b == c * 16
<1>1. /\ (b \div 1) % 2 = 0 /\ (b \div 2) % 2 = 0 /\ (b \div 4) % 2 = 0
      /\ (b \div 8) % 2 = 0 /\ b \div 16 = c /\ b \div 32 = c \div 2
      /\ b \div 64 = c \div 4 /\ b \div 128 = c \div 8
  <2>1. (b \div 1) % 2 = 0 /\ (b \div 2) % 2 = 0
    BY Z3
  <2>2. (b \div 4) % 2 = 0 /\ (b \div 8) % 2 = 0
    BY Z3
  <2>3. b \div 16 = c /\ b \div 32 = c \div 2
    BY Z3
  <2>4. b \div 64 = c \div 4 /\ b \div 128 = c \div 8
    BY Z3
  <2> QED
    BY <2>1, <2>2, <2>3, <2>4
<1>2. /\ a \div 16 = 0 /\ a \div 32 = 0 /\ a \div 64 = 0 /\ a \div 128 = 0 /\ 0 % 2 = 0
      /\ a = ((a \div 1) % 2) + 2 * ((a \div 2) % 2) + 4 * ((a \div 4) % 2) + 8 * ((a \div 8) % 2)
      /\ c = (c % 2) + 2 * ((c \div 2) % 2) + 4 * ((c \div 4) % 2) + 8 * ((c \div 8) % 2)
  BY Z3
<1>3. /\ c % 2 \in 0..1 /\ (c \div 2) % 2 \in 0..1 /\ (c \div 4) % 2 \in 0..1
      /\ (c \div 8) % 2 \in 0..1
      /\ (a \div 1) % 2 \in 0..1 /\ (a \div 2) % 2 \in 0..1
      /\ (a \div 4) % 2 \in 0..1 /\ (a \div 8) % 2 \in 0..1
  BY Z3
<1> QED
  BY <1>1, <1>2, <1>3, Z3 DEF Ou

-----------------------------------------------------------------------------
(* f is the beginning of t, or all of it.                                  *)
Commence(f, t) ==
  /\ f \in Seq(Int) /\ t \in Seq(Int) /\ Len(f) <= Len(t)
  /\ \A k \in 1 .. Len(f) : f[k] = t[k]

(* c is a, then b.                                                         *)
Colles(a, b, c) ==
  /\ c \in Seq(Int) /\ Len(c) = Len(a) + Len(b)
  /\ \A k \in 1 .. Len(a) : c[k] = a[k]
  /\ \A k \in 1 .. Len(b) : c[Len(a) + k] = b[k]

LEMMA Colle ==
  ASSUME NEW a \in Seq(Int), NEW b \in Seq(Int)
  PROVE  Colles(a, b, a \o b)
<1>1. /\ a \o b \in Seq(Int) /\ Len(a \o b) = Len(a) + Len(b)
      /\ \A k \in 1 .. Len(a) + Len(b) :
           (a \o b)[k] = IF k <= Len(a) THEN a[k] ELSE b[k - Len(a)]
  BY ConcatProperties
<1>2. Len(a) \in Nat /\ Len(b) \in Nat
  OBVIOUS
<1>3. ASSUME NEW k \in 1 .. Len(a) PROVE (a \o b)[k] = a[k]
  BY <1>1, <1>2
<1>4. ASSUME NEW k \in 1 .. Len(b) PROVE (a \o b)[Len(a) + k] = b[k]
  <2>1. Len(a) + k \in 1 .. Len(a) + Len(b) /\ ~(Len(a) + k <= Len(a)) /\ (Len(a) + k) - Len(a) = k
    BY <1>2
  <2> QED
    BY <1>1, <2>1
<1> QED
  BY <1>1, <1>3, <1>4 DEF Colles

LEMMA CommenceTout ==
  ASSUME NEW t \in Seq(Int)
  PROVE  Commence(t, t)
BY DEF Commence

LEMMA CommencePlus ==
  ASSUME NEW f, NEW t, Commence(f, t), NEW q \in Seq(Int)
  PROVE  Commence(f, t \o q)
<1>1. f \in Seq(Int) /\ t \in Seq(Int) /\ Len(f) <= Len(t) /\ \A k \in 1 .. Len(f) : f[k] = t[k]
  BY DEF Commence
<1>2. Len(f) \in Nat /\ Len(t) \in Nat /\ Len(q) \in Nat
  BY <1>1
<1>3. /\ t \o q \in Seq(Int) /\ Len(t \o q) = Len(t) + Len(q)
      /\ \A k \in 1 .. Len(t) : (t \o q)[k] = t[k]
  BY <1>1, Colle DEF Colles
<1> QED
  BY <1>1, <1>2, <1>3 DEF Commence

LEMMA CommenceAvant ==
  ASSUME NEW a \in Seq(Int), NEW p \in Seq(Int), NEW n \in 0 .. Len(p)
  PROVE  Commence(a \o SubSeq(p, 1, n), a \o p)
<1> DEFINE b == SubSeq(p, 1, n)
<1>1. b \in Seq(Int) /\ Len(b) = n /\ \A k \in 1 .. n : b[k] = p[k]
  <2>1. \A k \in 1 .. n : p[k] \in Int
    OBVIOUS
  <2> QED
    BY <2>1, SubSeqProperties
<1> HIDE DEF b
<1>2. Len(a) \in Nat /\ Len(p) \in Nat /\ n \in Nat /\ n <= Len(p)
  OBVIOUS
<1>3. /\ a \o b \in Seq(Int) /\ Len(a \o b) = Len(a) + n
      /\ \A k \in 1 .. Len(a) : (a \o b)[k] = a[k]
      /\ \A k \in 1 .. n : (a \o b)[Len(a) + k] = b[k]
  <2>1. Colles(a, b, a \o b)
    BY <1>1, Colle
  <2> QED
    BY <1>1, <2>1 DEF Colles
<1>4. /\ a \o p \in Seq(Int) /\ Len(a \o p) = Len(a) + Len(p)
      /\ \A k \in 1 .. Len(a) : (a \o p)[k] = a[k]
      /\ \A k \in 1 .. Len(p) : (a \o p)[Len(a) + k] = p[k]
  BY Colle DEF Colles
<1>5. ASSUME NEW k \in 1 .. Len(a) + n PROVE (a \o b)[k] = (a \o p)[k]
  <2>1. CASE k <= Len(a)
    BY <1>2, <1>3, <1>4, <2>1
  <2>2. CASE k > Len(a)
    <3>1. PICK j \in 1 .. n : k = Len(a) + j
      <4>1. k - Len(a) \in 1 .. n /\ k = Len(a) + (k - Len(a))
        BY <1>2, <2>2
      <4> QED
        BY <4>1
    <3>2. j \in 1 .. Len(p)
      BY <1>2
    <3> QED
      BY <1>1, <1>3, <1>4, <3>1, <3>2
  <2>3. k \in Int /\ Len(a) \in Int
    BY <1>2
  <2>4. k <= Len(a) \/ k > Len(a)
    BY <2>3
  <2> QED
    BY <2>1, <2>2, <2>4, Zenon
<1>6. Commence(a \o b, a \o p)
  BY <1>2, <1>3, <1>4, <1>5 DEF Commence
<1> QED
  BY <1>6 DEF b

LEMMA CommenceParties ==
  ASSUME NEW f, NEW t, NEW u, Commence(f, t), Commence(t, u)
  PROVE  Commence(f, u)
<1>1. /\ f \in Seq(Int) /\ t \in Seq(Int) /\ u \in Seq(Int)
      /\ Len(f) <= Len(t) /\ Len(t) <= Len(u)
      /\ \A k \in 1 .. Len(f) : f[k] = t[k]
      /\ \A k \in 1 .. Len(t) : t[k] = u[k]
  BY DEF Commence
<1>2. Len(f) \in Nat /\ Len(t) \in Nat /\ Len(u) \in Nat
  BY <1>1
<1> QED
  BY <1>1, <1>2 DEF Commence

-----------------------------------------------------------------------------
(* The states a program captures.                                          *)
Valide(s) ==
  /\ s.turn \in Nat /\ s.width \in Nat \ {0} /\ s.height \in Nat \ {0}
  /\ s.terrain \in [1 .. Nombre(s) -> 0..2] /\ s.wind \in [1 .. Nombre(s) -> 0..8]
  /\ s.fire \in [1 .. Nombre(s) -> 0..2] /\ s.rest \in [1 .. Nombre(s) -> 0..3]
  /\ s = [turn |-> s.turn, width |-> s.width, height |-> s.height, terrain |-> s.terrain,
          wind |-> s.wind, fire |-> s.fire, rest |-> s.rest]

LEMMA CaptureValide ==
  ASSUME NEW m, WellFormed(m), NEW f \in [Cells(m) -> 0..2], NEW r \in [Cells(m) -> 0..3],
         NEW n \in Nat
  PROVE  Valide(Capture(m, f, r, n))
<1> DEFINE w == m.width
           h == m.height
           s == Capture(m, f, r, n)
<1>1. /\ w \in Nat \ {0} /\ h \in Nat \ {0} /\ Cells(m) = (0 .. w - 1) \X (0 .. h - 1)
      /\ m.terrain \in [Cells(m) -> 0..2] /\ m.wind \in [Cells(m) -> 0..8]
  <2>1. Terrains \subseteq 0..2
    BY DEF Terrains, Water, Plain, Forest
  <2> QED
    BY <2>1 DEF WellFormed, Cells
<1>2. \A k \in 1 .. w * h : Case(w, k) \in Cells(m)
  BY <1>1, Numerotation DEF Case
<1>3. ASSUME NEW S, NEW g \in [Cells(m) -> S] PROVE Ligne(g, w, h) \in [1 .. w * h -> S]
  BY <1>2 DEF Ligne
<1>4. /\ s.turn = n /\ s.width = w /\ s.height = h
      /\ s.terrain = Ligne(m.terrain, w, h) /\ s.wind = Ligne(m.wind, w, h)
      /\ s.fire = Ligne(f, w, h) /\ s.rest = Ligne(r, w, h)
      /\ s = [turn |-> s.turn, width |-> s.width, height |-> s.height, terrain |-> s.terrain,
              wind |-> s.wind, fire |-> s.fire, rest |-> s.rest]
  BY DEF Capture
<1>5. Nombre(s) = w * h
  BY <1>4 DEF Nombre
<1> HIDE DEF w, h, s
<1>6. /\ s.terrain \in [1 .. w * h -> 0..2] /\ s.wind \in [1 .. w * h -> 0..8]
      /\ s.fire \in [1 .. w * h -> 0..2] /\ s.rest \in [1 .. w * h -> 0..3]
  <2>1. /\ Ligne(m.terrain, w, h) \in [1 .. w * h -> 0..2]
        /\ Ligne(m.wind, w, h) \in [1 .. w * h -> 0..8]
        /\ Ligne(f, w, h) \in [1 .. w * h -> 0..2]
        /\ Ligne(r, w, h) \in [1 .. w * h -> 0..3]
    BY <1>1, <1>3
  <2> QED
    BY <1>4, <2>1
<1>7. Valide(s)
  BY <1>1, <1>4, <1>5, <1>6 DEF Valide
<1> QED
  BY <1>7 DEF s

LEMMA NombreValide ==
  ASSUME NEW s, Valide(s)
  PROVE  /\ Nombre(s) \in Nat \ {0} /\ s.width * s.height = Nombre(s)
         /\ Moitie(s) \in Nat
         /\ \A k \in 1 .. Nombre(s) : (k + 1) \div 2 \in 1 .. Moitie(s)
<1>1. s.width \in Nat \ {0} /\ s.height \in Nat \ {0}
  BY DEF Valide
<1>2. s.width * s.height \in Nat \ {0}
  BY <1>1, Numerotation
<1>3. s.width * s.height = Nombre(s)
  BY DEF Nombre
<1>4. ASSUME NEW n \in Nat
      PROVE  (n + 1) \div 2 \in Nat /\ \A k \in 1 .. n : (k + 1) \div 2 \in 1 .. (n + 1) \div 2
  BY Z3
<1> QED
  BY <1>2, <1>3, <1>4 DEF Moitie

(* What a byte of decor and a half of a byte of state give back.           *)
LEMMA DecorRelu ==
  ASSUME NEW a \in 0..2, NEW b \in 0..8
  PROVE  /\ Ou(a % 4, (b * 4) % 256) \in Int
         /\ Ou(a % 4, (b * 4) % 256) % 4 = a
         /\ Ou(a % 4, (b * 4) % 256) \div 4 = b
<1>1. a % 4 = a /\ (b * 4) % 256 = 4 * b
  BY Z3
<1>2. Ou(a % 4, (b * 4) % 256) = a + 4 * b
  <2>1. a \in 0..3 /\ b \in 0..63
    OBVIOUS
  <2> QED
    BY <1>1, <2>1, OuDecale2
<1>3. (a + 4 * b) % 4 = a /\ (a + 4 * b) \div 4 = b /\ a + 4 * b \in Int
  BY Z3
<1> QED
  BY <1>2, <1>3

LEMMA QuartetValide ==
  ASSUME NEW s, Valide(s), NEW k \in 1 .. Nombre(s)
  PROVE  Quartet(s, k) = s.fire[k] + 4 * s.rest[k] /\ Quartet(s, k) \in 0..15
<1> DEFINE a == s.fire[k]
           b == s.rest[k]
<1>1. a \in 0..2 /\ b \in 0..3
  BY DEF Valide
<1>2. Quartet(s, k) = Ou(a % 4, (b % 4) * 4)
  BY DEF Quartet
<1> HIDE DEF a, b
<1>3. a % 4 = a /\ (b % 4) * 4 = 4 * b /\ a \in 0..3 /\ b \in 0..63
  BY <1>1, Z3
<1>4. Quartet(s, k) = a + 4 * b
  BY <1>2, <1>3, OuDecale2
<1>5. a + 4 * b \in 0..15
  BY <1>1
<1> QED
  BY <1>4, <1>5 DEF a, b

(* A byte of state, and the two cells that are read from it.               *)
LEMMA EtatRelu ==
  ASSUME NEW s, Valide(s), NEW k \in 1 .. Nombre(s), NEW o, o = OctetEtat(0, s, (k + 1) \div 2)
  PROVE  LET q == IF k % 2 = 0 THEN o \div 16 ELSE o IN
         o \in Int /\ q % 4 = s.fire[k] /\ (q \div 4) % 4 = s.rest[k]
<1> DEFINE n == Nombre(s)
           j == (k + 1) \div 2
           fk == s.fire[k]
           rk == s.rest[k]
<1>1. n \in Nat \ {0} /\ k \in Nat /\ k >= 1 /\ k <= n
  BY NombreValide
<1>2. fk \in 0..2 /\ rk \in 0..3 /\ Quartet(s, k) = fk + 4 * rk /\ Quartet(s, k) \in 0..15
  BY QuartetValide DEF Valide
<1>3. CASE k % 2 = 0
  <2> DEFINE p == Quartet(s, k - 1)
             c == Quartet(s, k)
  <2>1. 2 * j = k /\ 2 * j - 1 = k - 1 /\ k - 1 \in 1 .. n
    BY <1>1, <1>3, Z3
  <2>2. p \in 0..15
    BY <2>1, QuartetValide
  <2>3. o = Ou(p, c * 16)
    BY <1>1, <2>1 DEF OctetEtat, Pair, Impair
  <2>4. c = fk + 4 * rk /\ c \in 0..15
    BY <1>2
  <2> HIDE DEF p, c, fk, rk
  <2>5. o = p + 16 * c
    BY <2>2, <2>3, <2>4, OuDecale4
  <2>6. o \in Int /\ o \div 16 = c
    BY <2>2, <2>4, <2>5, Z3
  <2>7. c % 4 = fk /\ (c \div 4) % 4 = rk
    BY <1>2, <2>4, Z3
  <2> QED
    BY <1>3, <2>6, <2>7 DEF fk, rk
<1>4. CASE k % 2 # 0
  <2> DEFINE p == Quartet(s, k)
             c == Quartet(s, k + 1)
  <2>1. 2 * j - 1 = k /\ 2 * j = k + 1
    BY <1>1, <1>4, Z3
  <2>2. p = fk + 4 * rk /\ p \in 0..15
    BY <1>2
  <2>3. o = IF k + 1 <= n THEN Ou(p, c * 16) ELSE p
    BY <2>1 DEF OctetEtat, Pair, Impair
  <2>4. k + 1 <= n => c \in 0..15
    <3>1. k + 1 <= n => k + 1 \in 1 .. n
      BY <1>1
    <3> QED
      BY <3>1, QuartetValide
  <2> HIDE DEF p, c, fk, rk, n
  <2>5. o = p \/ \E x \in 0..15 : o = p + 16 * x
    BY <2>2, <2>3, <2>4, OuDecale4
  <2>6. o % 4 = fk /\ (o \div 4) % 4 = rk /\ o \in Int
    <3>1. CASE o = p
      BY <1>2, <2>2, <3>1, Z3
    <3>2. CASE \E x \in 0..15 : o = p + 16 * x
      <4>1. PICK x \in 0..15 : o = p + 16 * x
        BY <3>2
      <4> QED
        BY <1>2, <2>2, <4>1, Z3
    <3> QED
      BY <2>5, <3>1, <3>2
  <2> QED
    BY <1>4, <2>6 DEF fk, rk
<1> QED
  BY <1>3, <1>4

-----------------------------------------------------------------------------
(* The bytes of a packed file, one by one.                                 *)
LEMMA EnteteValide ==
  ASSUME NEW s, Valide(s), NEW sans \in BOOLEAN
  PROVE  LET t == Entete(s, sans) IN
         /\ t \in Seq(Int) /\ Len(t) = 5
         /\ t[1] = 87 /\ t[2] = s.turn /\ t[3] = s.width /\ t[4] = s.height
         /\ t[5] = IF sans THEN 0 ELSE 1
<1> DEFINE f == IF sans THEN 0 ELSE 1
<1>1. Entete(s, sans) = <<87, s.turn, s.width, s.height, f>>
  BY DEF Entete, Magie, AvecDecor
<1>2. s.turn \in Int /\ s.width \in Int /\ s.height \in Int /\ f \in Int
  BY DEF Valide
<1> HIDE DEF f
<1>3. /\ <<87, s.turn, s.width, s.height, f>> \in Seq(Int)
      /\ Len(<<87, s.turn, s.width, s.height, f>>) = 5
  BY <1>2
<1> QED
  BY <1>1, <1>3 DEF f

LEMMA DecorValide ==
  ASSUME NEW s, Valide(s)
  PROVE  LET d == [k \in 1 .. Nombre(s) |-> OctetDecor(s, k)] IN
         /\ d \in Seq(Int) /\ Len(d) = Nombre(s)
         /\ \A k \in 1 .. Nombre(s) : d[k] % 4 = s.terrain[k] /\ d[k] \div 4 = s.wind[k]
<1> DEFINE n == Nombre(s)
           d == [k \in 1 .. n |-> OctetDecor(s, k)]
<1>1. n \in Nat
  BY NombreValide
<1>2. ASSUME NEW k \in 1 .. n
      PROVE  d[k] \in Int /\ d[k] % 4 = s.terrain[k] /\ d[k] \div 4 = s.wind[k]
  <2>1. s.terrain[k] \in 0..2 /\ s.wind[k] \in 0..8
    BY DEF Valide
  <2>2. d[k] = Ou(s.terrain[k] % 4, (s.wind[k] * 4) % 256)
    BY DEF OctetDecor
  <2> HIDE DEF d
  <2> QED
    BY <2>1, <2>2, DecorRelu
<1>3. d = [k \in 1 .. n |-> d[k]]
  OBVIOUS
<1> HIDE DEF d
<1>4. d \in [1 .. n -> Int]
  BY <1>2, <1>3
<1>5. d \in Seq(Int) /\ Len(d) = n
  BY <1>1, <1>4
<1> QED
  BY <1>2, <1>5 DEF d

LEMMA EtatValide ==
  ASSUME NEW s, Valide(s)
  PROVE  LET e == [k \in 1 .. Moitie(s) |-> OctetEtat(0, s, k)] IN
         /\ e \in Seq(Int) /\ Len(e) = Moitie(s)
         /\ \A k \in 1 .. Nombre(s) :
              LET o == e[(k + 1) \div 2]
                  q == IF k % 2 = 0 THEN o \div 16 ELSE o
              IN  q % 4 = s.fire[k] /\ (q \div 4) % 4 = s.rest[k]
<1> DEFINE n == Nombre(s)
           m == Moitie(s)
           e == [k \in 1 .. m |-> OctetEtat(0, s, k)]
<1>1. n \in Nat /\ m \in Nat /\ \A k \in 1 .. n : (k + 1) \div 2 \in 1 .. m
  BY NombreValide
<1>2. ASSUME NEW k \in 1 .. n
      PROVE  LET o == e[(k + 1) \div 2]
                 q == IF k % 2 = 0 THEN o \div 16 ELSE o
             IN  o \in Int /\ q % 4 = s.fire[k] /\ (q \div 4) % 4 = s.rest[k]
  <2> DEFINE o == e[(k + 1) \div 2]
  <2>1. o = OctetEtat(0, s, (k + 1) \div 2)
    BY <1>1
  <2> HIDE DEF o
  <2> QED
    BY <2>1, EtatRelu DEF o
<1>3. ASSUME NEW j \in 1 .. m PROVE e[j] \in Int
  <2>1. m = (n + 1) \div 2
    BY DEF Moitie
  <2> HIDE DEF m, e
  <2>2. 2 * j - 1 \in 1 .. n /\ ((2 * j - 1) + 1) \div 2 = j
    BY <1>1, <2>1, Z3
  <2> QED
    BY <1>2, <2>2
<1>4. e = [k \in 1 .. m |-> e[k]]
  OBVIOUS
<1> HIDE DEF e, m
<1>5. e \in [1 .. m -> Int]
  BY <1>3, <1>4
<1>6. e \in Seq(Int) /\ Len(e) = m
  BY <1>1, <1>5
<1> QED
  BY <1>2, <1>6 DEF e, m

(* The decor comes before the state, when it is written.                   *)
SansLeDecor(g) == g = "packedSansDecor"
DecorEcrit(g, s) == IF SansLeDecor(g) THEN 0 ELSE Nombre(s)
PackedForme(g, s, t) ==
  /\ t \in Seq(Int) /\ Len(t) = 5 + DecorEcrit(g, s) + Moitie(s)
  /\ t[1] = 87 /\ t[2] = s.turn /\ t[3] = s.width /\ t[4] = s.height
  /\ t[5] = IF SansLeDecor(g) THEN 0 ELSE 1
  /\ ~SansLeDecor(g) =>
       \A k \in 1 .. Nombre(s) : t[5 + k] % 4 = s.terrain[k] /\ t[5 + k] \div 4 = s.wind[k]
  /\ \A k \in 1 .. Nombre(s) :
       LET o == t[5 + DecorEcrit(g, s) + (k + 1) \div 2]
           q == IF k % 2 = 0 THEN o \div 16 ELSE o
       IN  q % 4 = s.fire[k] /\ (q \div 4) % 4 = s.rest[k]

LEMMA PackedEcrit ==
  ASSUME NEW s, Valide(s), NEW g \in {"packed", "packedSansDecor"}
  PROVE  PackedForme(g, s, Attendu(g, s))
<1> DEFINE n == Nombre(s)
           m == Moitie(s)
           sans == SansLeDecor(g)
           h == Entete(s, sans)
           d == [k \in 1 .. n |-> OctetDecor(s, k)]
           e == [k \in 1 .. m |-> OctetEtat(0, s, k)]
           t == Attendu(g, s)
<1>1. n \in Nat /\ m \in Nat /\ \A k \in 1 .. n : (k + 1) \div 2 \in 1 .. m
  BY NombreValide
<1>2. /\ h \in Seq(Int) /\ Len(h) = 5
      /\ h[1] = 87 /\ h[2] = s.turn /\ h[3] = s.width /\ h[4] = s.height
      /\ h[5] = IF sans THEN 0 ELSE 1
  BY EnteteValide DEF SansLeDecor
<1>3. /\ d \in Seq(Int) /\ Len(d) = n
      /\ \A k \in 1 .. n : d[k] % 4 = s.terrain[k] /\ d[k] \div 4 = s.wind[k]
  BY DecorValide
<1>4. /\ e \in Seq(Int) /\ Len(e) = m
      /\ \A k \in 1 .. n :
           LET o == e[(k + 1) \div 2]
               q == IF k % 2 = 0 THEN o \div 16 ELSE o
           IN  q % 4 = s.fire[k] /\ (q \div 4) % 4 = s.rest[k]
  BY EtatValide
<1>5. t = IF sans THEN h \o e ELSE (h \o d) \o e
  BY DEF Attendu, SansLeDecor, Entete
<1>8. h \in Seq(Int) /\ Len(h) = 5 /\ d \in Seq(Int) /\ Len(d) = n /\ e \in Seq(Int) /\ Len(e) = m
  BY <1>2, <1>3, <1>4
<1> HIDE DEF n, m, h, d, e, t
<1>6. CASE sans
  <2>1. /\ t \in Seq(Int) /\ Len(t) = 5 + m
        /\ \A k \in 1 .. 5 : t[k] = h[k]
        /\ \A k \in 1 .. m : t[5 + k] = e[k]
    <3>1. t = h \o e
      BY <1>5, <1>6
    <3>2. Colles(h, e, t)
      BY <1>8, <3>1, Colle
    <3> QED
      BY <1>8, <3>1, <3>2 DEF Colles
  <2>2. DecorEcrit(g, s) = 0 /\ 5 + 0 + m = 5 + m /\ 5 + 0 = 5
    BY <1>1, <1>6 DEF DecorEcrit
  <2>3. \A k \in 1 .. n : t[5 + 0 + ((k + 1) \div 2)] = e[(k + 1) \div 2]
    BY <1>1, <2>1, <2>2
  <2>4. t[1] = h[1] /\ t[2] = h[2] /\ t[3] = h[3] /\ t[4] = h[4] /\ t[5] = h[5]
    BY <2>1
  <2> QED
    BY <1>2, <1>4, <1>6, <2>1, <2>2, <2>3, <2>4 DEF PackedForme, n, m, t
<1>7. CASE ~sans
  <2> DEFINE a == h \o d
  <2>1. /\ a \in Seq(Int) /\ Len(a) = 5 + n
        /\ \A k \in 1 .. 5 : a[k] = h[k]
        /\ \A k \in 1 .. n : a[5 + k] = d[k]
    <3>2. Colles(h, d, a)
      BY <1>8, Colle
    <3> QED
      BY <1>8, <3>2 DEF Colles
  <2>2. t = a \o e
    BY <1>5, <1>7
  <2> HIDE DEF a
  <2>3. /\ t \in Seq(Int) /\ Len(t) = 5 + n + m
        /\ \A k \in 1 .. 5 + n : t[k] = a[k]
        /\ \A k \in 1 .. m : t[5 + n + k] = e[k]
    <3>1. a \in Seq(Int) /\ Len(a) = 5 + n
      BY <2>1
    <3>2. Colles(a, e, t)
      BY <1>8, <3>1, <2>2, Colle
    <3> QED
      BY <1>1, <1>8, <2>2, <3>1, <3>2 DEF Colles
  <2>4. \A k \in 1 .. n : 5 + k \in 1 .. 5 + n
    BY <1>1
  <2>5. \A k \in 1 .. n : t[5 + k] = d[k]
    BY <2>1, <2>3, <2>4
  <2>6. DecorEcrit(g, s) = n
    BY <1>7 DEF DecorEcrit, n
  <2>7. \A k \in 1 .. n : t[5 + n + ((k + 1) \div 2)] = e[(k + 1) \div 2]
    BY <1>1, <2>3
  <2>8. t[1] = h[1] /\ t[2] = h[2] /\ t[3] = h[3] /\ t[4] = h[4] /\ t[5] = h[5]
    <3>1. \A k \in 1 .. 5 : k \in 1 .. 5 + n
      BY <1>1
    <3> QED
      BY <2>1, <2>3, <3>1
  <2>9. PackedForme(g, s, t)
    <3>1. \A k \in 1 .. n : t[5 + k] % 4 = s.terrain[k] /\ t[5 + k] \div 4 = s.wind[k]
      BY <1>3, <2>5
    <3>2. \A k \in 1 .. n :
            LET o == t[5 + n + ((k + 1) \div 2)]
                q == IF k % 2 = 0 THEN o \div 16 ELSE o
            IN  q % 4 = s.fire[k] /\ (q \div 4) % 4 = s.rest[k]
      BY <1>4, <2>7
    <3> QED
      BY <1>2, <1>7, <2>3, <2>6, <2>8, <3>1, <3>2 DEF PackedForme, n, m
  <2> QED
    BY <2>9 DEF t
<1> QED
  BY <1>6, <1>7

(* A packed file, or the beginning of one, is the state or is refused.     *)
LEMMA PackedLu ==
  ASSUME NEW s, Valide(s), NEW g \in {"packed", "packedSansDecor"},
         NEW f, Commence(f, Attendu(g, s))
  PROVE  \/ LirePacked(f) = Rendu(g, s)
         \/ LirePacked(f) = Illisible /\ Len(f) < Len(Attendu(g, s))
<1> DEFINE n == Nombre(s)
           d == DecorEcrit(g, s)
           t == Attendu(g, s)
<1>1. PackedForme(g, s, t)
  BY PackedEcrit
<1>2. /\ f \in Seq(Int) /\ t \in Seq(Int) /\ Len(f) <= Len(t)
      /\ \A k \in 1 .. Len(f) : f[k] = t[k]
  BY DEF Commence
<1>3. /\ n \in Nat \ {0} /\ s.width * s.height = n /\ Moitie(s) \in Nat
      /\ Moitie(s) = (n + 1) \div 2
      /\ \A k \in 1 .. n : (k + 1) \div 2 \in 1 .. Moitie(s)
  BY NombreValide DEF Moitie
<1>4. Len(f) \in Nat /\ Len(t) = 5 + d + Moitie(s) /\ d \in Nat
      /\ d = IF SansLeDecor(g) THEN 0 ELSE n
  BY <1>1, <1>2, <1>3 DEF PackedForme, DecorEcrit
<1> HIDE DEF t
<1>5. CASE Len(f) < 5
  <2>1. LirePacked(f) = Illisible
    BY <1>5 DEF LirePacked, LongueurEntete
  <2>2. Len(f) < Len(t)
    BY <1>3, <1>4, <1>5
  <2> QED
    BY <2>1, <2>2 DEF t
<1>6. CASE Len(f) >= 5
  <2>1. \A k \in 1 .. 5 : f[k] = t[k]
    <3>1. \A k \in 1 .. 5 : k \in 1 .. Len(f)
      BY <1>4, <1>6
    <3> QED
      BY <1>2, <3>1
  <2>2. /\ f[1] = 87 /\ f[2] = s.turn /\ f[3] = s.width /\ f[4] = s.height
        /\ f[5] = IF SansLeDecor(g) THEN 0 ELSE 1
    BY <1>1, <2>1 DEF PackedForme
  <2>3. f[3] * f[4] = n /\ ~(n <= 0) /\ 0 % 2 = 0 /\ 1 % 2 = 1
    BY <1>3, <2>2, Z3
  <2>4. (IF f[5] % 2 = 1 THEN n ELSE 0) = d
    BY <1>4, <2>2, <2>3
  <2> DEFINE octet(k)   == f[5 + d + (k + 1) \div 2]
             quartet(k) == IF k % 2 = 0 THEN octet(k) \div 16 ELSE octet(k)
             decor(k)   == IF d = 0 THEN 0 ELSE f[5 + k]
             lu == [turn |-> f[2], width |-> f[3], height |-> f[4],
                    terrain |-> [k \in 1..n |-> decor(k) % 4],
                    wind    |-> [k \in 1..n |-> decor(k) \div 4],
                    fire    |-> [k \in 1..n |-> quartet(k) % 4],
                    rest    |-> [k \in 1..n |-> (quartet(k) \div 4) % 4]]
  <2>5. LirePacked(f) = IF Len(f) < 5 + d + Moitie(s) THEN Illisible ELSE lu
    <3>1. /\ ~(Len(f) < LongueurEntete) /\ f[1] = Magie /\ LongueurEntete = 5
          /\ ~(f[3] * f[4] <= 0) /\ AvecDecor = 1
      BY <1>4, <1>6, <2>2, <2>3 DEF LongueurEntete, Magie, AvecDecor
    <3> QED
      BY <1>3, <2>3, <2>4, <3>1, Zenon DEF LirePacked
  <2> HIDE DEF octet, quartet, decor, lu
  <2>6. CASE Len(f) < 5 + d + Moitie(s)
    BY <1>4, <2>5, <2>6 DEF t
  <2>7. CASE ~(Len(f) < 5 + d + Moitie(s))
    <3>1. \A k \in 1 .. 5 + d + Moitie(s) : f[k] = t[k]
      BY <1>2, <1>3, <1>4, <2>7
    <3>2. ASSUME NEW k \in 1 .. n
          PROVE  quartet(k) % 4 = s.fire[k] /\ (quartet(k) \div 4) % 4 = s.rest[k]
      <4>1. (k + 1) \div 2 \in 1 .. Moitie(s)
        BY <1>3
      <4>2. 5 + d + ((k + 1) \div 2) \in 1 .. 5 + d + Moitie(s)
        BY <1>3, <1>4, <4>1
      <4>3. octet(k) = t[5 + d + ((k + 1) \div 2)]
        BY <3>1, <4>2 DEF octet
      <4> QED
        BY <1>1, <4>3 DEF PackedForme, quartet
    <3>3. CASE SansLeDecor(g)
      <4>1. d = 0 /\ 0 % 4 = 0 /\ 0 \div 4 = 0
        BY <1>4, <3>3
      <4>2. \A k \in 1 .. n : decor(k) % 4 = 0 /\ decor(k) \div 4 = 0
        BY <4>1 DEF decor
      <4>3. lu = [turn |-> s.turn, width |-> s.width, height |-> s.height,
                  terrain |-> [k \in 1 .. n |-> 0], wind |-> [k \in 1 .. n |-> 0],
                  fire |-> [k \in 1 .. n |-> s.fire[k]], rest |-> [k \in 1 .. n |-> s.rest[k]]]
        BY <2>2, <3>2, <4>2 DEF lu
      <4>4. /\ s.fire = [k \in 1 .. n |-> s.fire[k]] /\ s.rest = [k \in 1 .. n |-> s.rest[k]]
            /\ DOMAIN s.terrain = 1 .. n /\ DOMAIN s.wind = 1 .. n
        BY DEF Valide
      <4>5. s = [turn |-> s.turn, width |-> s.width, height |-> s.height, terrain |-> s.terrain,
                 wind |-> s.wind, fire |-> s.fire, rest |-> s.rest]
        BY DEF Valide
      <4>6. Rendu(g, s) = [turn |-> s.turn, width |-> s.width, height |-> s.height,
                  terrain |-> [k \in 1 .. n |-> 0], wind |-> [k \in 1 .. n |-> 0],
                  fire |-> s.fire, rest |-> s.rest]
        BY <3>3, <4>4, <4>5 DEF Rendu, SansLeDecor
      <4> QED
        BY <2>5, <2>7, <4>3, <4>4, <4>6
    <3>4. CASE ~SansLeDecor(g)
      <4>1. d = n /\ d # 0
        BY <1>3, <1>4, <3>4
      <4>2. \A k \in 1 .. n : 5 + k \in 1 .. 5 + d + Moitie(s)
        BY <1>3, <4>1
      <4>3. \A k \in 1 .. n : decor(k) % 4 = s.terrain[k] /\ decor(k) \div 4 = s.wind[k]
        BY <1>1, <3>1, <3>4, <4>1, <4>2 DEF decor, PackedForme
      <4>4. lu = [turn |-> s.turn, width |-> s.width, height |-> s.height,
                  terrain |-> [k \in 1 .. n |-> s.terrain[k]],
                  wind |-> [k \in 1 .. n |-> s.wind[k]],
                  fire |-> [k \in 1 .. n |-> s.fire[k]], rest |-> [k \in 1 .. n |-> s.rest[k]]]
        BY <2>2, <3>2, <4>3 DEF lu
      <4>5. /\ s.fire = [k \in 1 .. n |-> s.fire[k]] /\ s.rest = [k \in 1 .. n |-> s.rest[k]]
            /\ s.terrain = [k \in 1 .. n |-> s.terrain[k]]
            /\ s.wind = [k \in 1 .. n |-> s.wind[k]]
        BY DEF Valide
      <4>6. lu = s
        BY <4>4, <4>5 DEF Valide
      <4>7. Rendu(g, s) = s
        BY <3>4 DEF Rendu, SansLeDecor
      <4> QED
        BY <2>5, <2>7, <4>6, <4>7
    <3> QED
      BY <3>3, <3>4
  <2> QED
    BY <2>6, <2>7
<1> QED
  BY <1>4, <1>5, <1>6

-----------------------------------------------------------------------------
(* The words of a message, one by one.                                     *)
LEMMA ChampValide ==
  ASSUME NEW s, Valide(s), NEW g \in 1..4
  PROVE  LET c == Champ(s, Champs(s), g) IN
         /\ c \in Seq(Int) /\ Len(c) = Nombre(s) + 1
         /\ \A k \in 1 .. Nombre(s) : c[1 + k] = Champs(s)[g][k]
<1> DEFINE n == Nombre(s)
           u == [k \in 1 .. n |-> Champs(s)[g][k]]
           c == Champ(s, Champs(s), g)
<1>1. n \in Nat
  BY NombreValide
<1>2. Champs(s)[g] \in [1 .. n -> Int]
  <2>1. /\ s.terrain \in [1 .. n -> Int] /\ s.wind \in [1 .. n -> Int]
        /\ s.fire \in [1 .. n -> Int] /\ s.rest \in [1 .. n -> Int]
    BY DEF Valide
  <2>2. g = 1 \/ g = 2 \/ g = 3 \/ g = 4
    OBVIOUS
  <2>3. /\ Champs(s)[1] = s.terrain /\ Champs(s)[2] = s.wind
        /\ Champs(s)[3] = s.fire /\ Champs(s)[4] = s.rest
    BY DEF Champs
  <2> QED
    BY <2>1, <2>2, <2>3
<1>3. u \in [1 .. n -> Int] /\ \A k \in 1 .. n : u[k] = Champs(s)[g][k]
  BY <1>2
<1>4. c = <<n>> \o u
  BY DEF Champ
<1> HIDE DEF n, u, c
<1>5. u \in Seq(Int) /\ Len(u) = n
  BY <1>1, <1>3
<1>6. <<n>> \in Seq(Int) /\ Len(<<n>>) = 1
  BY <1>1
<1>7. Colles(<<n>>, u, c)
  BY <1>4, <1>5, <1>6, Colle
<1>8. c \in Seq(Int) /\ Len(c) = n + 1 /\ \A k \in 1 .. n : c[1 + k] = u[k]
  BY <1>1, <1>5, <1>6, <1>7 DEF Colles
<1> QED
  BY <1>3, <1>8 DEF n, c

LEMMA MessageEcrit ==
  ASSUME NEW s, Valide(s)
  PROVE  LET t == Message(s, Champs(s))
             n == Nombre(s) IN
         /\ t \in Seq(Int) /\ Len(t) = 3 + 4 * (n + 1)
         /\ t[1] = s.turn /\ t[2] = s.width /\ t[3] = s.height
         /\ \A g \in 1..4 : \A k \in 1 .. n :
              t[3 + (g - 1) * (n + 1) + 1 + k] = Champs(s)[g][k]
<1> DEFINE n == Nombre(s)
           h == <<s.turn, s.width, s.height>>
           c1 == Champ(s, Champs(s), 1)
           c2 == Champ(s, Champs(s), 2)
           c3 == Champ(s, Champs(s), 3)
           c4 == Champ(s, Champs(s), 4)
           t1 == h \o c1
           t2 == t1 \o c2
           t3 == t2 \o c3
           t == t3 \o c4
           v(g) == Champs(s)[g]
<1>1. n \in Nat
  BY NombreValide
<1>2. h \in Seq(Int) /\ Len(h) = 3 /\ h[1] = s.turn /\ h[2] = s.width /\ h[3] = s.height
  <2>1. s.turn \in Int /\ s.width \in Int /\ s.height \in Int
    BY DEF Valide
  <2> QED
    BY <2>1
<1>3. /\ c1 \in Seq(Int) /\ Len(c1) = n + 1 /\ \A k \in 1 .. n : c1[1 + k] = v(1)[k]
      /\ c2 \in Seq(Int) /\ Len(c2) = n + 1 /\ \A k \in 1 .. n : c2[1 + k] = v(2)[k]
      /\ c3 \in Seq(Int) /\ Len(c3) = n + 1 /\ \A k \in 1 .. n : c3[1 + k] = v(3)[k]
      /\ c4 \in Seq(Int) /\ Len(c4) = n + 1 /\ \A k \in 1 .. n : c4[1 + k] = v(4)[k]
  BY ChampValide
<1>4. Message(s, Champs(s)) = t
  BY DEF Message
<1> HIDE DEF n, h, c1, c2, c3, c4, v
<1>5. Colles(h, c1, t1)
  BY <1>2, <1>3, Colle
<1> HIDE DEF t1
<1>6. /\ t1 \in Seq(Int) /\ Len(t1) = 3 + (n + 1)
      /\ \A k \in 1 .. 3 : t1[k] = h[k]
      /\ \A k \in 1 .. n + 1 : t1[3 + k] = c1[k]
  BY <1>1, <1>2, <1>3, <1>5 DEF Colles
<1>7. Colles(t1, c2, t2)
  BY <1>3, <1>6, Colle
<1> HIDE DEF t2
<1>8. /\ t2 \in Seq(Int) /\ Len(t2) = 3 + 2 * (n + 1)
      /\ \A k \in 1 .. 3 + (n + 1) : t2[k] = t1[k]
      /\ \A k \in 1 .. n + 1 : t2[3 + (n + 1) + k] = c2[k]
  BY <1>1, <1>3, <1>6, <1>7 DEF Colles
<1>9. Colles(t2, c3, t3)
  BY <1>3, <1>8, Colle
<1> HIDE DEF t3
<1>10. /\ t3 \in Seq(Int) /\ Len(t3) = 3 + 3 * (n + 1)
       /\ \A k \in 1 .. 3 + 2 * (n + 1) : t3[k] = t2[k]
       /\ \A k \in 1 .. n + 1 : t3[3 + 2 * (n + 1) + k] = c3[k]
  BY <1>1, <1>3, <1>8, <1>9 DEF Colles
<1>11. Colles(t3, c4, t)
  BY <1>3, <1>10, Colle
<1> HIDE DEF t
<1>12. /\ t \in Seq(Int) /\ Len(t) = 3 + 4 * (n + 1)
       /\ \A k \in 1 .. 3 + 3 * (n + 1) : t[k] = t3[k]
       /\ \A k \in 1 .. n + 1 : t[3 + 3 * (n + 1) + k] = c4[k]
  BY <1>1, <1>3, <1>10, <1>11 DEF Colles
<1>13. \A k \in 1 .. 3 : t[k] = h[k]
  <2>1. ASSUME NEW k \in 1 .. 3
        PROVE k \in 1 .. 3 + (n + 1) /\ k \in 1 .. 3 + 2 * (n + 1) /\ k \in 1 .. 3 + 3 * (n + 1)
    BY <1>1
  <2> QED
    BY <2>1, <1>6, <1>8, <1>10, <1>12
<1>14. ASSUME NEW k \in 1 .. n
       PROVE  /\ t[3 + 0 * (n + 1) + 1 + k] = v(1)[k]
              /\ t[3 + 1 * (n + 1) + 1 + k] = v(2)[k]
              /\ t[3 + 2 * (n + 1) + 1 + k] = v(3)[k]
              /\ t[3 + 3 * (n + 1) + 1 + k] = v(4)[k]
  <2>1. 1 + k \in 1 .. n + 1
    BY <1>1
  <2>2. /\ 3 + 0 * (n + 1) + 1 + k = 3 + (1 + k)
        /\ 3 + (1 + k) \in 1 .. 3 + (n + 1)
        /\ 3 + (1 + k) \in 1 .. 3 + 2 * (n + 1)
        /\ 3 + (1 + k) \in 1 .. 3 + 3 * (n + 1)
    BY <1>1
  <2>3. /\ 3 + 1 * (n + 1) + 1 + k = 3 + (n + 1) + (1 + k)
        /\ 3 + (n + 1) + (1 + k) \in 1 .. 3 + 2 * (n + 1)
        /\ 3 + (n + 1) + (1 + k) \in 1 .. 3 + 3 * (n + 1)
    BY <1>1
  <2>4. /\ 3 + 2 * (n + 1) + 1 + k = 3 + 2 * (n + 1) + (1 + k)
        /\ 3 + 2 * (n + 1) + (1 + k) \in 1 .. 3 + 3 * (n + 1)
        /\ 3 + 3 * (n + 1) + 1 + k = 3 + 3 * (n + 1) + (1 + k)
    BY <1>1
  <2>5. t[3 + (1 + k)] = v(1)[k]
    <3> DEFINE j == 3 + (1 + k)
    <3>1. t1[j] = c1[1 + k] /\ c1[1 + k] = v(1)[k]
      BY <2>1, <1>3, <1>6
    <3>2. j \in 1 .. 3 + (n + 1) /\ j \in 1 .. 3 + 2 * (n + 1) /\ j \in 1 .. 3 + 3 * (n + 1)
      BY <2>2
    <3> HIDE DEF j
    <3>3. t[j] = t3[j] /\ t3[j] = t2[j] /\ t2[j] = t1[j]
      BY <3>2, <1>8, <1>10, <1>12
    <3> QED
      BY <3>1, <3>3 DEF j
  <2>6. t[3 + (n + 1) + (1 + k)] = v(2)[k]
    <3> DEFINE j == 3 + (n + 1) + (1 + k)
    <3>1. t2[j] = c2[1 + k] /\ c2[1 + k] = v(2)[k]
      BY <2>1, <1>3, <1>8
    <3>2. j \in 1 .. 3 + 2 * (n + 1) /\ j \in 1 .. 3 + 3 * (n + 1)
      BY <2>3
    <3> HIDE DEF j
    <3>3. t[j] = t3[j] /\ t3[j] = t2[j]
      BY <3>2, <1>10, <1>12
    <3> QED
      BY <3>1, <3>3 DEF j
  <2>7. t[3 + 2 * (n + 1) + (1 + k)] = v(3)[k]
    BY <2>1, <2>4, <1>3, <1>10, <1>12
  <2>8. t[3 + 3 * (n + 1) + (1 + k)] = v(4)[k]
    BY <2>1, <1>3, <1>12
  <2> QED
    BY <2>2, <2>3, <2>4, <2>5, <2>6, <2>7, <2>8
<1>15. ASSUME NEW g \in 1..4, NEW k \in 1 .. n
       PROVE  t[3 + (g - 1) * (n + 1) + 1 + k] = v(g)[k]
  <2>1. g = 1 \/ g = 2 \/ g = 3 \/ g = 4
    OBVIOUS
  <2>2. 1 - 1 = 0 /\ 2 - 1 = 1 /\ 3 - 1 = 2 /\ 4 - 1 = 3
    OBVIOUS
  <2> QED
    BY <2>1, <2>2, <1>14
<1>16. t[1] = h[1] /\ t[2] = h[2] /\ t[3] = h[3]
  BY <1>13
<1> QED
  BY <1>2, <1>4, <1>12, <1>15, <1>16 DEF n, v

(* A message cut anywhere is refused.                                      *)
LEMMA ProtoLu ==
  ASSUME NEW s, Valide(s), NEW f, Commence(f, Attendu("proto", s))
  PROVE  \/ LireProto(f) = Rendu("proto", s)
         \/ LireProto(f) = Illisible /\ Len(f) < Len(Attendu("proto", s))
<1> DEFINE n == Nombre(s)
           t == Message(s, Champs(s))
           l == Len(f)
           e == (l - 3) \div (n + 1)
<1>1. Attendu("proto", s) = t /\ Rendu("proto", s) = s
  BY DEF Attendu, Rendu
<1>2. /\ f \in Seq(Int) /\ t \in Seq(Int) /\ l <= Len(t)
      /\ \A k \in 1 .. l : f[k] = t[k]
  BY <1>1 DEF Commence
<1>3. /\ Len(t) = 3 + 4 * (n + 1)
      /\ t[1] = s.turn /\ t[2] = s.width /\ t[3] = s.height
      /\ \A g \in 1..4 : \A k \in 1 .. n : t[3 + (g - 1) * (n + 1) + 1 + k] = Champs(s)[g][k]
  BY MessageEcrit
<1>4. n \in Nat \ {0} /\ s.width * s.height = n /\ l \in Nat
  BY <1>2, NombreValide
<1> HIDE DEF n, t
<1>5. CASE l < 3
  <2>1. LireProto(f) = Illisible
    BY <1>5 DEF LireProto
  <2>2. l < Len(t)
    <3> HIDE DEF l
    <3> QED
      BY <1>3, <1>4, <1>5
  <2> QED
    BY <1>1, <2>1, <2>2
<1>6. CASE l >= 3
  <2>1. f[1] = s.turn /\ f[2] = s.width /\ f[3] = s.height /\ f[2] * f[3] = n
    <3>1. \A k \in 1 .. 3 : k \in 1 .. l
      <4> HIDE DEF l
      <4> QED
        BY <1>4, <1>6
    <3>2. f[1] = t[1] /\ f[2] = t[2] /\ f[3] = t[3]
      BY <1>2, <3>1
    <3> QED
      BY <1>3, <1>4, <3>2
  <2> DEFINE champ(g) == [k \in 1..n |-> f[3 + (g - 1) * (n + 1) + 1 + k]]
             lu == [turn |-> f[1], width |-> f[2], height |-> f[3],
                    terrain |-> champ(1), wind |-> champ(2), fire |-> champ(3), rest |-> champ(4)]
  <2>2. LireProto(f) = IF (l - 3) % (n + 1) # 0 \/ \E g \in 1..4 : (IF g <= e THEN n ELSE 0) # n
                       THEN Illisible ELSE lu
    <3>1. ~(Len(f) < 3) /\ n # 0
      BY <1>4, <1>6
    <3> QED
      BY <2>1, <3>1, Zenon DEF LireProto
  <2> HIDE DEF lu, champ
  <2>3. CASE l < Len(t)
    <3>1. e < 4
      <4>1. l - 3 \in Nat /\ l - 3 < 4 * (n + 1) /\ n + 1 \in Nat \ {0}
        <5> HIDE DEF l
        <5> QED
          BY <1>3, <1>4, <1>6, <2>3
      <4>2. l - 3 \in Int /\ 4 \in Int
        BY <4>1
      <4> QED
        BY <4>1, <4>2, QuotientBas, Zenon
    <3>2. e \in Int
      <4>1. l - 3 \in Int /\ n + 1 \in Nat \ {0}
        BY <1>4
      <4> QED
        BY <4>1, QuotientBas, Zenon
    <3>3. (IF 4 <= e THEN n ELSE 0) # n
      <4> HIDE DEF e
      <4> QED
        BY <1>4, <3>1, <3>2
    <3>4. LireProto(f) = Illisible
      BY <2>2, <3>3
    <3> QED
      BY <1>1, <2>3, <3>4
  <2>4. CASE l = Len(t)
    <3>1. /\ (l - 3) = 4 * (n + 1) + 0 /\ n + 1 \in Nat \ {0} /\ 0 \in 0 .. (n + 1) - 1
          /\ 4 \in Int
      <4> HIDE DEF l
      <4> QED
        BY <1>3, <1>4, <2>4
    <3>2. e = 4 /\ (l - 3) % (n + 1) = 0
      <4>1. (4 * (n + 1) + 0) \div (n + 1) = 4 /\ (4 * (n + 1) + 0) % (n + 1) = 0
        BY <3>1, UnQuotient, Zenon
      <4> QED
        BY <3>1, <4>1, Zenon
    <3>3. LireProto(f) = lu
      <4> HIDE DEF e
      <4>1. \A g \in 1..4 : (IF g <= e THEN n ELSE 0) = n
        BY <3>2
      <4> QED
        BY <2>2, <3>2, <4>1
    <3>4. ASSUME NEW g \in 1..4 PROVE champ(g) = Champs(s)[g]
      <4>1. ASSUME NEW k \in 1 .. n PROVE f[3 + (g - 1) * (n + 1) + 1 + k] = Champs(s)[g][k]
        <5> DEFINE p == (g - 1) * (n + 1)
        <5>1. p \in Nat /\ p <= 3 * (n + 1)
          <6>1. g = 1 \/ g = 2 \/ g = 3 \/ g = 4
            OBVIOUS
          <6> QED
            BY <1>4, <6>1
        <5>2. 3 + p + 1 + k \in 1 .. l
          <6> HIDE DEF p, l
          <6> QED
            BY <1>3, <1>4, <2>4, <5>1
        <5> QED
          BY <1>2, <1>3, <5>2
      <4>2. Champs(s)[g] = [k \in 1 .. n |-> Champs(s)[g][k]]
        <5>1. g = 1 \/ g = 2 \/ g = 3 \/ g = 4
          OBVIOUS
        <5>2. /\ Champs(s)[1] = s.terrain /\ Champs(s)[2] = s.wind
              /\ Champs(s)[3] = s.fire /\ Champs(s)[4] = s.rest
          BY DEF Champs
        <5>3. /\ s.fire = [k \in 1 .. n |-> s.fire[k]] /\ s.rest = [k \in 1 .. n |-> s.rest[k]]
              /\ s.terrain = [k \in 1 .. n |-> s.terrain[k]]
              /\ s.wind = [k \in 1 .. n |-> s.wind[k]]
          BY DEF Valide, n
        <5> QED
          BY <5>1, <5>2, <5>3
      <4> QED
        BY <4>1, <4>2 DEF champ
    <3>5. lu = s
      <4>1. /\ champ(1) = s.terrain /\ champ(2) = s.wind
            /\ champ(3) = s.fire /\ champ(4) = s.rest
        BY <3>4 DEF Champs
      <4> QED
        BY <2>1, <4>1 DEF lu, Valide
    <3> QED
      BY <1>1, <3>3, <3>5
  <2> QED
    <3> HIDE DEF l
    <3>1. Len(t) \in Nat
      BY <1>2
    <3> QED
      BY <1>2, <1>4, <2>3, <2>4, <3>1
<1> QED
  <2> HIDE DEF l
  <2> QED
    BY <1>4, <1>5, <1>6

-----------------------------------------------------------------------------
(* The numbers of a document, one by one.                                  *)
LEMMA CelluleValide ==
  ASSUME NEW s, Valide(s), NEW c \in 1 .. Nombre(s)
  PROVE  /\ Cellule(s, c)[1] = (c - 1) % s.width /\ Cellule(s, c)[2] = (c - 1) \div s.width
         /\ Cellule(s, c)[3] = s.terrain[c] /\ Cellule(s, c)[4] = s.wind[c]
         /\ Cellule(s, c)[5] = s.fire[c] /\ Cellule(s, c)[6] = s.rest[c]
         /\ \A j \in 1..6 : Cellule(s, c)[j] \in Nat
<1>1. /\ Cellule(s, c)[1] = (c - 1) % s.width /\ Cellule(s, c)[2] = (c - 1) \div s.width
      /\ Cellule(s, c)[3] = s.terrain[c] /\ Cellule(s, c)[4] = s.wind[c]
      /\ Cellule(s, c)[5] = s.fire[c] /\ Cellule(s, c)[6] = s.rest[c]
  BY DEF Cellule
<1>2. s.width \in Nat \ {0} /\ s.height \in Nat \ {0} /\ c \in 1 .. s.width * s.height
  BY NombreValide DEF Valide
<1>3. (c - 1) % s.width \in 0 .. s.width - 1 /\ (c - 1) \div s.width \in 0 .. s.height - 1
  BY <1>2, Numerotation
<1>4. (c - 1) % s.width \in Nat /\ (c - 1) \div s.width \in Nat
  BY <1>2, <1>3
<1>5. s.terrain[c] \in Nat /\ s.wind[c] \in Nat /\ s.fire[c] \in Nat /\ s.rest[c] \in Nat
  <2>1. s.terrain[c] \in 0..2 /\ s.wind[c] \in 0..8 /\ s.fire[c] \in 0..2 /\ s.rest[c] \in 0..3
    BY DEF Valide
  <2> QED
    BY <2>1
<1>6. ASSUME NEW j \in 1..6 PROVE Cellule(s, c)[j] \in Nat
  <2>1. j = 1 \/ j = 2 \/ j = 3 \/ j = 4 \/ j = 5 \/ j = 6
    OBVIOUS
  <2> QED
    BY <1>1, <1>4, <1>5, <2>1
<1> QED
  BY <1>1, <1>6

LEMMA DocumentEcrit ==
  ASSUME NEW s, Valide(s)
  PROVE  LET t == Document(s)
             n == Nombre(s) IN
         /\ t \in Seq(Int) /\ Len(t) = 6 * n + 5
         /\ t[1] = s.turn /\ t[2] = s.width /\ t[3] = s.height
         /\ t[6 * n + 4] = -1
         /\ \A k \in 1 .. 6 * n + 3 : t[k] \in Nat
         /\ \A c \in 1 .. n : \A j \in 1..6 : t[6 * c - 3 + j] = Cellule(s, c)[j]
<1> DEFINE n == Nombre(s)
           h == <<s.turn, s.width, s.height>>
           u == [k \in 1 .. 6 * n |-> Cellule(s, (k + 5) \div 6)[((k + 5) % 6) + 1]]
           a == h \o u
           e == <<-1, -2>>
           t == Document(s)
           v(c) == Cellule(s, c)
<1>1. n \in Nat /\ 6 * n \in Nat
  BY NombreValide
<1>2. s.turn \in Nat /\ s.width \in Nat /\ s.height \in Nat
  BY DEF Valide
<1>3. h \in Seq(Int) /\ Len(h) = 3 /\ h[1] = s.turn /\ h[2] = s.width /\ h[3] = s.height
  BY <1>2
<1>4. e \in Seq(Int) /\ Len(e) = 2 /\ e[1] = -1
  <2>1. -1 \in Int /\ -2 \in Int
    OBVIOUS
  <2> QED
    BY <2>1
<1>5. t = a \o e
  BY DEF Document, Accolade, FinLigne
<1>6. ASSUME NEW c \in 1 .. n, NEW j \in 1..6 PROVE v(c)[j] \in Nat
  BY CelluleValide
<1>7. \A k \in 1 .. 6 * n : u[k] = v((k + 5) \div 6)[((k + 5) % 6) + 1]
  OBVIOUS
<1>8. u = [k \in 1 .. 6 * n |-> u[k]]
  OBVIOUS
<1> HIDE DEF n, h, u, e, t, v
<1>9. ASSUME NEW k \in 1 .. 6 * n PROVE u[k] \in Nat
  <2>1. (k + 5) \div 6 \in 1 .. n /\ ((k + 5) % 6) + 1 \in 1..6
    BY <1>1, Z3
  <2> QED
    BY <1>6, <1>7, <2>1
<1>10. u \in Seq(Int) /\ Len(u) = 6 * n
  <2>1. u \in [1 .. 6 * n -> Int]
    BY <1>8, <1>9
  <2> QED
    BY <1>1, <2>1
<1>11. Colles(h, u, a)
  BY <1>3, <1>10, Colle
<1> HIDE DEF a
<1>12. /\ a \in Seq(Int) /\ Len(a) = 6 * n + 3
       /\ \A k \in 1 .. 3 : a[k] = h[k]
       /\ \A k \in 1 .. 6 * n : a[3 + k] = u[k]
  BY <1>1, <1>3, <1>10, <1>11 DEF Colles
<1>13. Colles(a, e, t)
  BY <1>4, <1>5, <1>12, Colle
<1>14. /\ t \in Seq(Int) /\ Len(t) = 6 * n + 5
       /\ \A k \in 1 .. 6 * n + 3 : t[k] = a[k]
  BY <1>1, <1>4, <1>12, <1>13 DEF Colles
<1>15. t[6 * n + 4] = -1
  <2>1. t[Len(a) + 1] = e[1]
    <3>1. 1 \in 1 .. Len(e)
      BY <1>4
    <3> QED
      BY <1>13, <3>1 DEF Colles
  <2>2. Len(a) + 1 = 6 * n + 4
    BY <1>1, <1>12
  <2> QED
    BY <1>4, <2>1, <2>2
<1>16. t[1] = h[1] /\ t[2] = h[2] /\ t[3] = h[3]
  <2>1. \A k \in 1 .. 3 : k \in 1 .. 6 * n + 3
    BY <1>1
  <2> QED
    BY <1>12, <1>14, <2>1
<1>17. ASSUME NEW k \in 1 .. 6 * n + 3 PROVE t[k] \in Nat
  <2>1. CASE k \in 1 .. 3
    <3>1. t[k] = h[k]
      BY <1>12, <1>14, <2>1
    <3>2. k = 1 \/ k = 2 \/ k = 3
      BY <2>1
    <3> QED
      BY <1>2, <1>3, <3>1, <3>2
  <2>2. CASE k \notin 1 .. 3
    <3>1. k - 3 \in 1 .. 6 * n /\ k = 3 + (k - 3)
      BY <1>1, <2>2
    <3>2. a[3 + (k - 3)] = u[k - 3]
      BY <1>12, <3>1
    <3> QED
      BY <1>9, <1>14, <3>1, <3>2
  <2> QED
    BY <2>1, <2>2
<1>18. ASSUME NEW c \in 1 .. n, NEW j \in 1..6 PROVE t[6 * c - 3 + j] = v(c)[j]
  <2> DEFINE k == 6 * c - 6 + j
  <2>1. /\ k \in 1 .. 6 * n /\ (k + 5) \div 6 = c /\ ((k + 5) % 6) + 1 = j
        /\ 6 * c - 3 + j = 3 + k /\ 3 + k \in 1 .. 6 * n + 3
    BY <1>1, Z3
  <2> HIDE DEF k
  <2>2. t[3 + k] = a[3 + k] /\ a[3 + k] = u[k]
    BY <1>12, <1>14, <2>1
  <2>3. u[k] = v(c)[j]
    BY <1>7, <2>1
  <2> QED
    BY <2>1, <2>2, <2>3
<1> QED
  BY <1>3, <1>14, <1>15, <1>16, <1>17, <1>18 DEF n, t, v

LEMMA MaxSeul ==
  ASSUME NEW x \in Int
  PROVE  Max({x}) = x
BY DEF Max

(* A document that has its brace is whole, with or without its line feed.  *)
LEMMA JSONLu ==
  ASSUME NEW s, Valide(s), NEW f, Commence(f, Attendu("json", s))
  PROVE  \/ LireJSON(f) = Rendu("json", s)
         \/ LireJSON(f) = Illisible /\ Len(f) < Len(Attendu("json", s))
<1> DEFINE n == Nombre(s)
           t == Document(s)
           l == Len(f)
           w == s.width
<1>1. Attendu("json", s) = t /\ Rendu("json", s) = s
  BY DEF Attendu, Rendu
<1>2. /\ f \in Seq(Int) /\ t \in Seq(Int) /\ l <= Len(t)
      /\ \A k \in 1 .. l : f[k] = t[k]
  BY <1>1 DEF Commence
<1>3. /\ Len(t) = 6 * n + 5
      /\ t[1] = s.turn /\ t[2] = s.width /\ t[3] = s.height
      /\ t[6 * n + 4] = -1
      /\ \A k \in 1 .. 6 * n + 3 : t[k] \in Nat
      /\ \A c \in 1 .. n : \A j \in 1..6 : t[6 * c - 3 + j] = Cellule(s, c)[j]
  BY DocumentEcrit
<1>4. n \in Nat \ {0} /\ w * s.height = n /\ l \in Nat /\ DOMAIN f = 1 .. l
  BY <1>2, NombreValide
<1> DEFINE close == \E k \in DOMAIN f : k >= Len(f) - 1 /\ f[k] = Accolade
<1>5. CASE l < 6 * n + 4
  <2>1. ~close
    <3>1. ASSUME NEW k \in 1 .. l PROVE f[k] # -1
      <4>1. k \in 1 .. 6 * n + 3
        <5> HIDE DEF n, l
        <5> QED
          BY <1>4, <1>5
      <4>2. f[k] \in Nat
        BY <1>2, <1>3, <4>1
      <4> QED
        BY <4>2
    <3> QED
      BY <1>4, <3>1 DEF Accolade
  <2>2. LireJSON(f) = Illisible
    BY <2>1, Zenon DEF LireJSON
  <2>3. l < Len(t)
    <3> HIDE DEF n, l, t
    <3> QED
      BY <1>3, <1>4, <1>5
  <2> QED
    BY <1>1, <2>2, <2>3
<1>6. CASE l >= 6 * n + 4
  <2> DEFINE places == 1 .. n
             cases == {6 * c : c \in 1 .. n}
             ou(c) == f[c - 1] * w + f[c - 2] + 1
             lues(k) == {c \in cases : ou(c) = k}
             champ(g) == [k \in places |-> IF lues(k) = {} THEN 0 ELSE f[Max(lues(k)) + g]]
             lu == [turn |-> f[1], width |-> f[2], height |-> f[3],
                    terrain |-> champ(0), wind |-> champ(1),
                    fire |-> champ(2), rest |-> champ(3)]
  <2>1. /\ l = 6 * n + 4 \/ l = 6 * n + 5
        /\ (l - 4) \div 6 = n
    <3> HIDE DEF n, l
    <3>1. l = 6 * n + 4 \/ l = 6 * n + 5
      BY <1>2, <1>3, <1>4, <1>6
    <3>2. ((6 * n + 4) - 4) \div 6 = n /\ ((6 * n + 5) - 4) \div 6 = n
      BY <1>4, Z3
    <3>3. CASE l = 6 * n + 4
      BY <3>2, <3>3, Zenon
    <3>4. CASE l = 6 * n + 5
      BY <3>2, <3>4, Zenon
    <3> QED
      BY <3>1, <3>3, <3>4, Zenon
  <2>2. \A k \in 1 .. 6 * n + 4 : k \in 1 .. l /\ f[k] = t[k]
    <3>1. \A k \in 1 .. 6 * n + 4 : k \in 1 .. l
      <4> HIDE DEF n, l
      <4> QED
        BY <1>4, <1>6
    <3> QED
      BY <1>2, <3>1
  <2>3. f[1] = s.turn /\ f[2] = w /\ f[3] = s.height /\ f[2] * f[3] = n
    <3>1. 1 \in 1 .. 6 * n + 4 /\ 2 \in 1 .. 6 * n + 4 /\ 3 \in 1 .. 6 * n + 4
      <4> HIDE DEF n
      <4> QED
        BY <1>4
    <3> QED
      BY <1>3, <1>4, <2>2, <3>1
  <2>4. close
    <3> HIDE DEF n, l
    <3>1. 6 * n + 4 \in 1 .. 6 * n + 4 /\ 6 * n + 4 >= l - 1
      BY <1>4, <2>1
    <3>2. f[6 * n + 4] = -1 /\ 6 * n + 4 \in 1 .. l
      BY <1>3, <2>2, <3>1
    <3> QED
      BY <1>4, <3>1, <3>2 DEF Accolade, l
  <2>5. LireJSON(f) = IF \E c \in cases : ou(c) \notin places THEN Illisible ELSE lu
    <3>1. (Len(f) - 4) \div 6 = n
      BY <2>1
    <3> HIDE DEF n, l, w
    <3> QED
      BY <2>3, <2>4, <3>1, Zenon DEF LireJSON, places, cases, ou, lues, champ, lu, close
  <2>6. ASSUME NEW c \in 1 .. n PROVE ou(6 * c) = c
    <3>1. /\ 6 * c - 1 = 6 * c - 3 + 2 /\ 6 * c - 2 = 6 * c - 3 + 1
          /\ 6 * c - 1 \in 1 .. 6 * n + 4 /\ 6 * c - 2 \in 1 .. 6 * n + 4
      <4> HIDE DEF n
      <4> QED
        BY <1>4
    <3>2. f[6 * c - 1] = Cellule(s, c)[2] /\ f[6 * c - 2] = Cellule(s, c)[1]
      <4>1. 1 \in 1..6 /\ 2 \in 1..6
        OBVIOUS
      <4>2. t[6 * c - 3 + 2] = Cellule(s, c)[2] /\ t[6 * c - 3 + 1] = Cellule(s, c)[1]
        BY <1>3, <4>1
      <4> QED
        BY <2>2, <3>1, <4>2
    <3>3. Cellule(s, c)[1] = (c - 1) % w /\ Cellule(s, c)[2] = (c - 1) \div w
      BY CelluleValide
    <3>4. w \in Nat \ {0} /\ s.height \in Nat \ {0} /\ c \in 1 .. w * s.height
      BY <1>4 DEF Valide
    <3>5. ((c - 1) \div w) * w + ((c - 1) % w) + 1 = c
      BY <3>4, Numerotation
    <3> QED
      BY <3>2, <3>3, <3>5
  <2>7. \A c \in cases : ou(c) \in places
    BY <2>6
  <2>8. ASSUME NEW k \in 1 .. n PROVE lues(k) = {6 * k}
    <3> HIDE DEF ou
    <3>1. 6 * k \in lues(k)
      BY <2>6
    <3>2. ASSUME NEW x \in lues(k) PROVE x = 6 * k
      <4>1. PICK c \in 1 .. n : x = 6 * c
        OBVIOUS
      <4>2. ou(x) = k
        OBVIOUS
      <4> QED
        BY <2>6, <4>1, <4>2
    <3> QED
      BY <3>1, <3>2
  <2> HIDE DEF lues, ou, cases
  <2>9. ASSUME NEW g \in 0..3, NEW k \in 1 .. n
        PROVE  champ(g)[k] = Cellule(s, k)[g + 3]
    <3>1. 6 * k \in Int /\ lues(k) # {}
      BY <2>8
    <3>2. champ(g)[k] = f[6 * k + g]
      BY <2>8, <3>1, MaxSeul
    <3>3. 6 * k + g = 6 * k - 3 + (g + 3) /\ 6 * k + g \in 1 .. 6 * n + 4 /\ g + 3 \in 1..6
      <4> HIDE DEF n
      <4> QED
        BY <1>4
    <3>4. t[6 * k - 3 + (g + 3)] = Cellule(s, k)[g + 3]
      BY <1>3, <3>3
    <3> QED
      BY <2>2, <3>2, <3>3, <3>4
  <2>10. \A g \in 0..3 : champ(g) = [k \in 1 .. n |-> champ(g)[k]]
    OBVIOUS
  <2> HIDE DEF champ
  <2>11. /\ champ(0) = s.terrain /\ champ(1) = s.wind
         /\ champ(2) = s.fire /\ champ(3) = s.rest
    <3>1. \A k \in 1 .. n : /\ champ(0)[k] = s.terrain[k] /\ champ(1)[k] = s.wind[k]
                            /\ champ(2)[k] = s.fire[k] /\ champ(3)[k] = s.rest[k]
      <4>1. ASSUME NEW k \in 1 .. n
            PROVE  /\ champ(0)[k] = Cellule(s, k)[3] /\ champ(1)[k] = Cellule(s, k)[4]
                   /\ champ(2)[k] = Cellule(s, k)[5] /\ champ(3)[k] = Cellule(s, k)[6]
        <5>1. 0 + 3 = 3 /\ 1 + 3 = 4 /\ 2 + 3 = 5 /\ 3 + 3 = 6
          OBVIOUS
        <5>2. 0 \in 0..3 /\ 1 \in 0..3 /\ 2 \in 0..3 /\ 3 \in 0..3
          OBVIOUS
        <5> QED
          BY <2>9, <5>1, <5>2
      <4> QED
        BY <4>1, CelluleValide
    <3>2. /\ champ(0) = [k \in 1 .. n |-> champ(0)[k]] /\ champ(1) = [k \in 1 .. n |-> champ(1)[k]]
          /\ champ(2) = [k \in 1 .. n |-> champ(2)[k]] /\ champ(3) = [k \in 1 .. n |-> champ(3)[k]]
      BY <2>10
    <3>3. /\ s.fire = [k \in 1 .. n |-> s.fire[k]] /\ s.rest = [k \in 1 .. n |-> s.rest[k]]
          /\ s.terrain = [k \in 1 .. n |-> s.terrain[k]] /\ s.wind = [k \in 1 .. n |-> s.wind[k]]
      BY DEF Valide
    <3> QED
      BY <3>1, <3>2, <3>3
  <2>12. lu = s
    BY <2>3, <2>11 DEF Valide
  <2>13. LireJSON(f) = s
    BY <2>5, <2>7, <2>12
  <2> QED
    BY <1>1, <2>13
<1> QED
  <2> HIDE DEF n, l
  <2> QED
    BY <1>4, <1>5, <1>6

-----------------------------------------------------------------------------
(* The engine is in a state a capture can be taken of.                     *)
EtatOK ==
  WellFormed(carte) /\ feu \in [Cells(carte) -> 0..2] /\ repos \in [Cells(carte) -> 0..3]

LEMMA DepartValide ==
  ASSUME NEW m, WellFormed(m)
  PROVE  /\ moteur!FeuInitial(m) \in [Cells(m) -> 0..2]
         /\ moteur!ReposInitial(m) \in [Cells(m) -> 0..3]
<1>1. moteur!Cells(m) = Cells(m)
  BY DEF moteur!Cells, Cells
<1>2. ASSUME NEW c \in Cells(m) PROVE moteur!Combustion(m.terrain[c]) \in 0..2
  BY <1>2 DEF WellFormed, Terrains, Water, Plain, Forest,
     moteur!Combustion, moteur!Water, moteur!Plain, moteur!Forest
<1> QED
  BY <1>1, <1>2 DEF moteur!FeuInitial, moteur!ReposInitial

LEMMA InitEtat == Init => EtatOK
  BY ArchiveAssumption, DepartValide DEF Init, moteur!Init, EtatOK

LEMMA TourEtat ==
  ASSUME EtatOK, moteur!Tour
  PROVE  EtatOK'
<1>1. /\ WellFormed(carte) /\ carte' = carte
      /\ feu \in [Cells(carte) -> 0..2] /\ repos \in [Cells(carte) -> 0..3]
      /\ feu' = moteur!FeuSuivant /\ repos' = moteur!ReposSuivant
  BY DEF EtatOK, moteur!Tour
<1>2. ASSUME NEW c \in Cells(carte)
      PROVE  /\ moteur!Combustion(carte.terrain[c]) \in 0..2
             /\ moteur!Repos(carte.terrain[c]) \in 0..3
  BY <1>1 DEF WellFormed, Terrains, Water, Plain, Forest, moteur!Combustion, moteur!Repos,
     moteur!Water, moteur!Plain, moteur!Forest
<1>6. moteur!Cells(carte) = Cells(carte)
  BY DEF moteur!Cells, Cells
<1>3. ASSUME NEW c \in Cells(carte)
      PROVE  feu'[c] \in 0..2 /\ repos'[c] \in 0..3
  <2>1. feu[c] \in 0..2 /\ repos[c] \in 0..3
    BY <1>1
  <2>2. feu'[c] = CASE moteur!Brule(c) -> feu[c] - 1
                    [] moteur!Prend(c, moteur!Enflammee) -> moteur!Combustion(carte.terrain[c])
                    [] OTHER -> feu[c]
    BY <1>1, <1>6 DEF moteur!FeuSuivant
  <2>3. moteur!Brule(c) => feu[c] - 1 \in 0..2 /\ ~moteur!Prend(c, moteur!Enflammee)
    BY <2>1 DEF moteur!Brule, moteur!Prend
  <2>4. feu'[c] \in 0..2
    BY <1>2, <2>1, <2>2, <2>3
  <2>5. repos'[c] = CASE moteur!Brule(c) /\ feu[c] = 1 -> moteur!Repos(carte.terrain[c])
                      [] moteur!Repose(c) -> repos[c] - 1
                      [] OTHER -> repos[c]
    BY <1>1, <1>6 DEF moteur!ReposSuivant
  <2>6. moteur!Repose(c) => repos[c] - 1 \in 0..3 /\ ~moteur!Brule(c)
    BY <2>1 DEF moteur!Brule, moteur!Repose
  <2>7. repos'[c] \in 0..3
    BY <1>2, <2>1, <2>5, <2>6
  <2> QED
    BY <2>4, <2>7
<1>4. /\ feu' = [c \in Cells(carte) |-> feu'[c]]
      /\ repos' = [c \in Cells(carte) |-> repos'[c]]
  BY <1>1, <1>6 DEF moteur!FeuSuivant, moteur!ReposSuivant
<1>5. feu' \in [Cells(carte) -> 0..2] /\ repos' \in [Cells(carte) -> 0..3]
  BY <1>3, <1>4
<1> QED
  BY <1>1, <1>5 DEF EtatOK

LEMMA SuiteEtat ==
  ASSUME EtatOK, [Next]_vars
  PROVE  EtatOK'
<1>1. CASE Avance
  BY <1>1, TourEtat DEF Avance
<1>2. CASE Suivante
  BY <1>2, ArchiveAssumption, DepartValide DEF Suivante, EtatOK
<1>3. CASE UNCHANGED <<carte, feu, repos>>
  BY <1>3 DEF EtatOK
<1> QED
  BY <1>1, <1>2, <1>3 DEF Next, Omet, Releve, Ecriture, Revient, vars, serie

LEMMA DocValide ==
  ASSUME EtatOK, SerieOK, pc \in Phases
  PROVE  Valide(doc)
<1>1. doc = Capture(carte, feu, repos, tour) /\ tour \in Nat
  BY DEF SerieOK, Captee
<1> QED
  BY <1>1, CaptureValide DEF EtatOK

(* A Write that returns has written the beginning of its file, if not all  *)
(* of it.                                                                  *)
CommenceOK == pc \in {"rend", "rendu"} => Commence(fichier, Attendu(format, doc))

LEMMA EcritCommence ==
  ASSUME NEW piece \in Seq(Int), NEW suite, Ecrit(piece, suite), fichier \in Seq(Int),
         NEW t, Commence(fichier \o piece, t)
  PROVE  Commence(fichier', t) /\ format' = format /\ doc' = doc
<1>1. CASE fichier' = fichier \o piece
  BY <1>1 DEF Ecrit, appel
<1>2. ASSUME NEW n \in Coupes(Len(piece)), fichier' = fichier \o SubSeq(piece, 1, n)
      PROVE  Commence(fichier', t)
  <2>1. n \in 0 .. Len(piece)
    BY <1>2 DEF Coupes
  <2> QED
    BY <1>2, <2>1, CommenceAvant, CommenceParties
<1> QED
  BY <1>1, <1>2 DEF Ecrit, appel

LEMMA SuiteCommence ==
  ASSUME EtatOK, SerieOK, TamponsOK, ContenuOK, CommenceOK, [Next]_vars
  PROVE  CommenceOK'
<1>1. EcritJuste /\ TamponJuste /\ (pc \in Phases => Valide(doc))
  BY DocValide DEF ContenuOK
<1>2. ASSUME pc \in Phases, NEW piece, NEW suite, Ecrit(piece, suite), fichier \in Seq(Int),
             piece \in Seq(Int), Commence(fichier \o piece, Attendu(format, doc))
      PROVE  CommenceOK'
  <2> DEFINE t == Attendu(format, doc)
  <2>1. Commence(fichier', t) /\ format' = format /\ doc' = doc
    BY <1>2, EcritCommence
  <2>2. t' = t
    BY <2>1
  <2> QED
    BY <2>1, <2>2 DEF CommenceOK
<1>3. CASE Ecriture /\ PackedEntete
  <2>1. pc = "packed" /\ fichier = <<>> /\ format \in {"packed", "packedSansDecor"}
    BY <1>1, <1>3 DEF PackedEntete, EcritJuste
  <2>2. Valide(doc) /\ SansDecor \in BOOLEAN /\ SansDecor = SansLeDecor(format)
    BY <1>1, <2>1 DEF Phases, SansDecor, SansLeDecor
  <2> DEFINE h == Entete(doc, SansDecor)
             d == [k \in 1 .. Nombre(doc) |-> OctetDecor(doc, k)]
             e == [k \in 1 .. Moitie(doc) |-> OctetEtat(0, doc, k)]
  <2>3. h \in Seq(Int) /\ d \in Seq(Int) /\ e \in Seq(Int)
    BY <2>2, EnteteValide, DecorValide, EtatValide
  <2>4. Attendu(format, doc) = IF SansDecor THEN h \o e ELSE (h \o d) \o e
    BY <2>1 DEF Attendu, SansDecor, Entete
  <2>5. <<>> \o h = h /\ <<>> \in Seq(Int)
    BY EnteteSeul
  <2> HIDE DEF h, d, e
  <2>6. Commence(h, h \o e) /\ Commence(h, (h \o d) \o e)
    BY <2>3, CommenceTout, CommencePlus
  <2> QED
    BY <1>2, <1>3, <2>1, <2>3, <2>4, <2>5, <2>6 DEF PackedEntete, Phases, h
<1>4. CASE Ecriture /\ PackedEcritDecor
  <2> DEFINE h == Entete(doc, FALSE)
             d == [k \in 1 .. Nombre(doc) |-> OctetDecor(doc, k)]
             e == [k \in 1 .. Moitie(doc) |-> OctetEtat(0, doc, k)]
  <2>1. pc = "ecritDecor" /\ format = "packed" /\ fichier = h /\ DesOctets(Nombre(doc)) = d
    BY <1>1, <1>4 DEF PackedEcritDecor, EcritJuste, TamponJuste, DesOctets, Tampon, Last, Decor
  <2>2. Valide(doc) /\ FALSE \in BOOLEAN
    BY <1>1, <2>1 DEF Phases
  <2>3. h \in Seq(Int) /\ d \in Seq(Int) /\ e \in Seq(Int)
    BY <2>2, EnteteValide, DecorValide, EtatValide
  <2>4. Attendu(format, doc) = (h \o d) \o e
    BY <2>1 DEF Attendu
  <2> HIDE DEF h, d, e
  <2>5. h \o d \in Seq(Int)
    BY <2>3, Colle DEF Colles
  <2>6. Commence(h \o d, (h \o d) \o e)
    BY <2>3, <2>5, CommenceTout, CommencePlus
  <2>7. Ecrit(d, "prendEtat")
    BY <1>4, <2>1 DEF PackedEcritDecor
  <2> QED
    BY <1>2, <2>1, <2>3, <2>4, <2>6, <2>7 DEF Phases
<1>5. CASE Ecriture /\ PackedEcritEtat
  <2> DEFINE e == [k \in 1 .. Moitie(doc) |-> OctetEtat(0, doc, k)]
  <2>1. /\ pc = "ecritEtat" /\ format \in {"packed", "packedSansDecor"} /\ fichier = Debut
        /\ DesOctets(Moitie(doc)) = e
    BY <1>1, <1>5 DEF PackedEcritEtat, EcritJuste, TamponJuste, DesOctets, Tampon, Last, Etat
  <2>2. Valide(doc) /\ FALSE \in BOOLEAN /\ TRUE \in BOOLEAN
    BY <1>1, <2>1 DEF Phases
  <2>3. e \in Seq(Int) /\ Decor \in Seq(Int)
    BY <2>2, DecorValide, EtatValide DEF Decor
  <2>4. Debut \in Seq(Int)
    <3>1. Entete(doc, FALSE) \in Seq(Int) /\ Entete(doc, TRUE) \in Seq(Int)
      BY <2>2, EnteteValide
    <3> QED
      BY <2>3, <3>1, Colle DEF Debut, Colles
  <2>5. Attendu(format, doc) = Debut \o e
    BY <2>1 DEF Attendu, Debut, Decor, SansDecor
  <2> HIDE DEF e
  <2>6. Debut \o e \in Seq(Int)
    BY <2>3, <2>4, Colle DEF Colles
  <2>7. Commence(Debut \o e, Debut \o e)
    BY <2>6, CommenceTout
  <2>8. Ecrit(e, "rend")
    BY <1>5, <2>1 DEF PackedEcritEtat
  <2> QED
    BY <1>2, <2>1, <2>3, <2>4, <2>5, <2>7, <2>8 DEF Phases
<1>6. CASE Ecriture /\ ProtoEcrit
  <2> DEFINE t == Message(doc, Champs(doc))
  <2>1. pc = "ecritProto" /\ format = "proto" /\ fichier = <<>> /\ DesOctets(TailleMessage(doc)) = t
    BY <1>1, <1>6 DEF ProtoEcrit, EcritJuste, TamponJuste, DesOctets, Tampon, Last
  <2>2. Valide(doc)
    BY <1>1, <2>1 DEF Phases
  <2>3. t \in Seq(Int) /\ Attendu(format, doc) = t
    BY <2>1, <2>2, MessageEcrit DEF Attendu
  <2>4. <<>> \o t = t /\ <<>> \in Seq(Int)
    BY <2>2, NombreValide, MessageSuite
  <2> HIDE DEF t
  <2>5. Commence(t, t)
    BY <2>3, CommenceTout
  <2>6. Ecrit(t, "rend")
    BY <1>6, <2>1 DEF ProtoEcrit
  <2> QED
    BY <1>2, <2>1, <2>3, <2>4, <2>5, <2>6 DEF Phases
<1>7. CASE Ecriture /\ JSONEcrit
  <2> DEFINE t == Document(doc)
  <2>1. pc = "json" /\ format = "json" /\ fichier = <<>>
    BY <1>1, <1>7 DEF JSONEcrit, EcritJuste
  <2>2. Valide(doc)
    BY <1>1, <2>1 DEF Phases
  <2>3. t \in Seq(Int) /\ Attendu(format, doc) = t
    BY <2>1, <2>2, DocumentEcrit DEF Attendu
  <2>4. <<>> \o t = t /\ <<>> \in Seq(Int)
    BY <2>2, NombreValide, DocumentSeul
  <2> HIDE DEF t
  <2>5. Commence(t, t)
    BY <2>3, CommenceTout
  <2>6. Ecrit(t, "rend")
    BY <1>7 DEF JSONEcrit, t
  <2> QED
    BY <1>2, <2>1, <2>3, <2>4, <2>5, <2>6 DEF Phases
<1>8. CASE Rend
  <2>1. pc = "rend" /\ UNCHANGED <<format, doc, fichier>>
    BY <1>8 DEF Rend, appel
  <2>2. Attendu(format, doc)' = Attendu(format, doc)
    BY <2>1
  <2> QED
    BY <2>1, <2>2 DEF CommenceOK
<1>9. CASE UNCHANGED vars
  <2>1. UNCHANGED <<pc, format, doc, fichier>>
    BY <1>9 DEF vars, fvars, appel
  <2>2. Attendu(format, doc)' = Attendu(format, doc)
    BY <2>1
  <2> QED
    BY <2>1, <2>2 DEF CommenceOK
<1>10. CASE \/ PackedPrendDecor \/ PackedPrendEtat \/ ProtoTampon
            \/ PackedDecor \/ PackedEtat \/ ProtoMarshal
            \/ ProtoPrend \/ ProtoConvertit \/ Collecte
  <2>1. pc' \notin {"rend", "rendu"}
    BY <1>10 DEF PackedPrendDecor, PackedPrendEtat, ProtoTampon, PrendOctets, PackedDecor,
                 PackedEtat, ProtoMarshal, ProtoPrend, ProtoConvertit, Collecte
  <2> QED
    BY <2>1 DEF CommenceOK
<1>11. CASE Omet \/ Releve \/ Revient \/ Avance \/ Suivante
  <2>1. pc' \notin {"rend", "rendu"}
    <3>1. Sorte(format) \in {"packed", "proto", "json"}
      BY DEF SerieOK, Sorte, Formats
    <3> QED
      BY <1>11, <3>1 DEF Omet, Releve, Ecrire, Revient, Avance, Suivante
  <2> QED
    BY <2>1 DEF CommenceOK
<1> QED
  BY <1>3, <1>4, <1>5, <1>6, <1>7, <1>8, <1>9, <1>10, <1>11 DEF Next, Ecriture, FNext

(* Whatever the state and the format, a file is read back as the state it  *)
(* was written from, but for a decor left out; a file a failed Write left  *)
(* is that state as well or is refused, wherever the bytes stopped.        *)
THEOREM LectureFidele == Spec => []AllerRetour
<1>1. ASSUME EtatOK, SerieOK, ContenuOK, CommenceOK
      PROVE  AllerRetour
  <2> SUFFICES ASSUME pc = "rendu"
               PROVE  \/ Lire(format, fichier) = Rendu(format, doc)
                      \/ err /\ Lire(format, fichier) = Illisible
    BY DEF AllerRetour
  <2> DEFINE t == Attendu(format, doc)
  <2>1. Valide(doc) /\ Commence(fichier, t) /\ format \in Formats /\ (err \/ fichier = t)
    BY <1>1, DocValide DEF CommenceOK, Phases, SerieOK, ContenuOK, EcritJuste
  <2>2. \/ Lire(format, fichier) = Rendu(format, doc)
        \/ Lire(format, fichier) = Illisible /\ Len(fichier) < Len(t)
    <3>1. CASE format \in {"packed", "packedSansDecor"}
      BY <2>1, <3>1, PackedLu DEF Lire
    <3>2. CASE format = "proto"
      BY <2>1, <3>2, ProtoLu DEF Lire
    <3>3. CASE format = "json"
      BY <2>1, <3>3, JSONLu DEF Lire
    <3> QED
      BY <2>1, <3>1, <3>2, <3>3 DEF Formats
  <2>3. ~(Len(t) < Len(t))
    <3>1. Len(t) \in Nat
      BY <2>1 DEF Commence
    <3> QED
      BY <3>1
  <2> QED
    BY <2>1, <2>2, <2>3
<1>2. Init => CommenceOK
  BY DEF Init, CommenceOK
<1> QED
  BY <1>1, <1>2, InitSerie, SuiteSerie, InitTampons, SuiteTampons, InitContenu, SuiteContenu,
     InitEtat, SuiteEtat, SuiteCommence, PTL DEF Spec
=============================================================================
