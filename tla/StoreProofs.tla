----------------------------- MODULE StoreProofs ----------------------------
(***************************************************************************)
(* What an error of internal/store says of the tables, for any width of a  *)
(* fingerprint, any lists of turns and any number of calls.                *)
(***************************************************************************)
EXTENDS Store, FiniteSetTheorems, TLAPS

(* The values the variables may hold.                                      *)
Ops == {"aucun", "Migrate", "Reset", "NewRun", "InsertTurns", "CopyTurns", "CountTurns",
        "Interroge", "AddIndex", "DropIndex"}
Insertions == {"InsertTurns", "CopyTurns"}
Tours == [turn : Nat, fingerprint : 0 .. Largeur - 1]
Rangees == [run_id : Nat, turn : Nat, fingerprint : -Demi .. Demi - 1]
UnAppel ==
  [op : Ops, run : Nat, liste : Seq(Tours), empreinte : 0 .. Largeur - 1, k : Nat \ {0}]

BaseOK ==
  /\ tables \in BOOLEAN /\ index \in BOOLEAN /\ aJour \in BOOLEAN
  /\ prochain \in Nat
  /\ turns \subseteq Rangees /\ IsFiniteSet(turns)
TypeOK ==
  /\ BaseOK /\ tenus \subseteq Nat
  /\ avant \subseteq Rangees /\ IsFiniteSet(avant)
  /\ appel \in UnAppel
  /\ rendu \in [appel : UnAppel, err : BOOLEAN, valeur : Nat]
  /\ acquises \in Nat /\ echecs \in BOOLEAN

(* The row of one turn of a call, and the rows of its first n turns.       *)
LigneDe(a, n) == [run_id |-> a.run, turn |-> a.liste[n].turn,
                  fingerprint |-> Int64(a.liste[n].fingerprint)]
Debut(a, n) == {LigneDe(a, m) : m \in 1 .. n}

(* Table t holds what was there and the first n rows of call a, each for   *)
(* itself.                                                                 *)
Ecrit(t, a, n) ==
  /\ n \in 0 .. Len(a.liste)
  /\ avant \subseteq t
  /\ t \ avant = Debut(a, n) /\ Cardinality(t \ avant) = n

(* A call in progress: which statement it is at, and what it has written.  *)
EnCours ==
  /\ appel # Aucun => rendu.appel = Aucun
  /\ appel = Aucun <=> appel.op = "aucun"
  /\ appel.op = "InsertTurns" => Ecrit(turns, appel, appel.k - 1)
  /\ appel.op = "CopyTurns" => Ecrit(turns, appel, 0)
  /\ appel.op \notin Insertions => appel.liste = <<>>
  /\ appel.op \in {"AddIndex", "DropIndex"} /\ appel.k = 2 => index = (appel.op = "AddIndex")

(* Apart from the rows of the call in progress, those of the calls that    *)
(* succeeded are in the table, and no others unless a call failed.         *)
Ecrites == IF appel.op = "InsertTurns" THEN appel.k - 1 ELSE 0
Comptees ==
  /\ acquises + Ecrites <= Cardinality(turns) \/ appel.op = "Reset"
  /\ ~echecs /\ appel.op # "Reset" => acquises + Ecrites = Cardinality(turns)
  /\ appel.op = "Reset" => acquises = 0

IInv == TypeOK /\ EnCours /\ Comptees /\ Insertion /\ EmpreinteFidele /\ PlanAJour

-----------------------------------------------------------------------------
(* Read again as an int64, a fingerprint is in the column's range, and     *)
(* modulo 2^64 a stored number is the fingerprint it came from.            *)
LEMMA Signe ==
  ASSUME NEW e \in 0 .. Largeur - 1
  PROVE  /\ Int64(e) \in -Demi .. Demi - 1
         /\ \A v \in -Demi .. Demi - 1 : v % Largeur = e <=> v = Int64(e)
<1>1. Demi \in Nat \ {0} /\ Largeur = 2 * Demi /\ Largeur \in Nat \ {0}
  BY StoreAssumption DEF Largeur
<1>2. Int64(e) \in -Demi .. Demi - 1
  BY <1>1 DEF Int64
<1>3. ASSUME NEW v \in -Demi .. Demi - 1
      PROVE  v % Largeur = IF v >= 0 THEN v ELSE v + Largeur
  <2> DEFINE n == Largeur
  <2>1. n \in Nat \ {0} /\ v \in -n .. n - 1
    BY <1>1
  <2> HIDE DEF n
  <2>2. v % n = IF v >= 0 THEN v ELSE v + n
    BY <2>1, Z3
  <2> QED
    BY <2>2 DEF n
<1> QED
  BY <1>1, <1>2, <1>3 DEF Int64

(* What a list may hold, and what the rows of a call look like.            *)
LEMMA LignesDe ==
  ASSUME NEW a \in UnAppel, NEW n \in 1 .. Len(a.liste)
  PROVE  LigneDe(a, n) \in Rangees
<1>1. a.run \in Nat /\ a.liste \in Seq(Tours)
  BY DEF UnAppel
<1>2. a.liste[n] \in Tours
  BY <1>1
<1>3. a.liste[n].turn \in Nat /\ a.liste[n].fingerprint \in 0 .. Largeur - 1
  BY <1>2 DEF Tours
<1>4. Int64(a.liste[n].fingerprint) \in -Demi .. Demi - 1
  BY <1>3, Signe
<1> QED
  BY <1>1, <1>3, <1>4 DEF LigneDe, Rangees

(* The rows of the first turns of a call, one turn after the other.        *)
LEMMA DebutSuivant ==
  ASSUME NEW a, NEW n \in Nat
  PROVE  Debut(a, 0) = {} /\ Debut(a, n + 1) = Debut(a, n) \cup {LigneDe(a, n + 1)}
<1>1. 1 .. 0 = {} /\ 1 .. (n + 1) = (1 .. n) \cup {n + 1}
  OBVIOUS
<1> QED
  BY <1>1 DEF Debut

(* No call: the value of appel between two calls.                          *)
LEMMA SansAppel ==
  Aucun \in UnAppel /\ Aucun.op = "aucun" /\ Aucun.liste = <<>> /\ 0 \in 0 .. Largeur - 1
<1>1. Demi \in Nat \ {0} /\ 0 \in 0 .. Largeur - 1
  BY StoreAssumption DEF Largeur
<1> QED
  BY <1>1 DEF Aucun, Appel, UnAppel, Ops

(* What has been returned, once the rows of the call are known.            *)
LEMMA InsertionTenue ==
  ASSUME rendu'.appel.op \in Insertions =>
           \E n \in 0 .. Len(rendu'.appel.liste) :
             /\ Ecrit(turns, rendu.appel, n)'
             /\ ~rendu'.err => n = Len(rendu'.appel.liste)
             /\ rendu'.appel.op = "CopyTurns" => n \in {0, Len(rendu'.appel.liste)}
  PROVE  Insertion'
BY DEF Insertion, Insertions, Ecrit, Debut, LigneDe

(* Nothing is stored and nobody has called.                                *)
LEMMA InitIInv == Init => IInv
<1> SUFFICES ASSUME Init PROVE IInv
  OBVIOUS
<1>1. rendu = [appel |-> Aucun, err |-> FALSE, valeur |-> 0] /\ rendu.appel = Aucun
  BY DEF Init, Rendu
<1>2. rendu \in [appel : UnAppel, err : BOOLEAN, valeur : Nat]
  BY <1>1, SansAppel
<1>3. BaseOK
  BY FS_EmptySet DEF Init, BInit, BaseOK
<1>4. TypeOK
  BY <1>2, <1>3, SansAppel, FS_EmptySet DEF Init, TypeOK
<1>5. EnCours
  BY <1>1, SansAppel DEF Init, EnCours, Insertions
<1>6. Comptees
  BY SansAppel, FS_EmptySet DEF Init, BInit, Comptees, Ecrites
<1>7. Insertion /\ EmpreinteFidele /\ PlanAJour
  BY <1>1, SansAppel DEF Insertion, EmpreinteFidele, PlanAJour
<1> QED
  BY <1>4, <1>5, <1>6, <1>7 DEF IInv

-----------------------------------------------------------------------------
(* A call that fails: the rows it left are a prefix of its own, all or     *)
(* none of them for CopyTurns, and those already counted are still there.  *)
LEMMA EchoueIInv ==
  ASSUME IInv, Echoue, BaseOK',
         acquises <= Cardinality(turns'),
         appel.op \in Insertions =>
           \E n \in 0 .. Len(appel.liste) :
             /\ Ecrit(turns', appel, n)
             /\ appel.op = "CopyTurns" => n \in {0, Len(appel.liste)}
  PROVE  IInv'
<1>1. /\ appel' = Aucun /\ rendu' = [appel |-> appel, err |-> TRUE, valeur |-> 0]
      /\ rendu'.appel = appel /\ rendu'.err = TRUE
      /\ avant' = avant /\ tenus' = tenus /\ acquises' = acquises /\ echecs' = TRUE
  BY DEF Echoue, Rendu
<1>2. rendu' \in [appel : UnAppel, err : BOOLEAN, valeur : Nat]
  BY <1>1 DEF IInv, TypeOK
<1>3. TypeOK'
  BY <1>1, <1>2, SansAppel DEF IInv, TypeOK
<1>4. EnCours'
  BY <1>1, SansAppel DEF EnCours, Insertions
<1>5. Comptees'
  BY <1>1, SansAppel DEF IInv, TypeOK, Comptees, Ecrites
<1>6. Insertion'
  <2>1. ASSUME NEW n, Ecrit(turns', appel, n)
        PROVE  Ecrit(turns, rendu.appel, n)'
    BY <1>1, <2>1 DEF Ecrit, Debut, LigneDe
  <2> QED
    BY <1>1, <2>1, InsertionTenue
<1>7. EmpreinteFidele' /\ PlanAJour'
  BY <1>1 DEF EmpreinteFidele, PlanAJour
<1> QED
  BY <1>3, <1>4, <1>5, <1>6, <1>7 DEF IInv

(* A call that succeeds: it wrote all its rows, what Interroge answers is  *)
(* the count asked for, and ANALYZE came after the index.                  *)
LEMMA RendIInv ==
  ASSUME IInv, NEW v \in Nat, Rend(v), appel.op # "aucun",
         BaseOK', tenus' \subseteq Nat,
         acquises + Len(appel.liste) <= Cardinality(turns'),
         ~echecs => acquises + Len(appel.liste) = Cardinality(turns'),
         appel.op \in Insertions => Ecrit(turns', appel, Len(appel.liste)),
         appel.op = "Interroge" =>
           v = Cardinality({l \in turns' : l.fingerprint % Largeur = appel.empreinte}),
         appel.op \in {"AddIndex", "DropIndex"} => aJour' /\ index' = (appel.op = "AddIndex")
  PROVE  IInv'
<1>1. /\ appel' = Aucun /\ rendu' = [appel |-> appel, err |-> FALSE, valeur |-> v]
      /\ rendu'.appel = appel /\ rendu'.err = FALSE /\ rendu'.valeur = v
      /\ avant' = avant /\ acquises' = acquises + Len(appel.liste) /\ echecs' = echecs
  BY DEF Rend, Rendu
<1>2. rendu' \in [appel : UnAppel, err : BOOLEAN, valeur : Nat]
  BY <1>1 DEF IInv, TypeOK
<1>3. Len(appel.liste) \in Nat
  BY DEF IInv, TypeOK, UnAppel
<1>4. TypeOK'
  BY <1>1, <1>2, <1>3, SansAppel DEF IInv, TypeOK
<1>5. EnCours'
  BY <1>1, SansAppel DEF EnCours, Insertions
<1>6. Comptees'
  BY <1>1, <1>3, SansAppel DEF IInv, TypeOK, Comptees, Ecrites
<1>7. Insertion'
  <2>1. ASSUME appel.op \in Insertions
        PROVE  Ecrit(turns, rendu.appel, Len(rendu.appel.liste))'
    BY <1>1, <2>1 DEF Ecrit, Debut, LigneDe
  <2>2. Len(appel.liste) \in 0 .. Len(appel.liste)
    BY <1>3
  <2>3. ASSUME appel.op \in Insertions
        PROVE  \E n \in 0 .. Len(rendu'.appel.liste) :
                 /\ Ecrit(turns, rendu.appel, n)' /\ n = Len(rendu'.appel.liste)
    BY <1>1, <2>1, <2>2, <2>3
  <2> QED
    BY <1>1, <2>3, InsertionTenue
<1>8. EmpreinteFidele' /\ PlanAJour'
  BY <1>1 DEF EmpreinteFidele, PlanAJour
<1> QED
  BY <1>4, <1>5, <1>6, <1>7, <1>8 DEF IInv

(* A call whose statement was answered goes to the next.                   *)
LEMMA PoursuitIInv ==
  ASSUME IInv, Poursuit, BaseOK',
         \/ /\ appel.op = "InsertTurns" /\ Ecrit(turns', appel, appel.k)
            /\ Cardinality(turns') = Cardinality(turns) + 1
         \/ /\ appel.op \in {"AddIndex", "DropIndex"} /\ turns' = turns
            /\ appel.k = 1 /\ index' = (appel.op = "AddIndex")
  PROVE  IInv'
<1>1. /\ appel' = [appel EXCEPT !.k = appel.k + 1]
      /\ rendu' = rendu /\ avant' = avant /\ tenus' = tenus
      /\ acquises' = acquises /\ echecs' = echecs
  BY DEF Poursuit, client
<1>2. /\ appel \in UnAppel /\ appel.k \in Nat \ {0} /\ acquises \in Nat
      /\ Cardinality(turns) \in Nat
  BY FS_CardinalityType DEF IInv, TypeOK, BaseOK, UnAppel
<1>3. /\ appel'.op = appel.op /\ appel'.liste = appel.liste /\ appel'.run = appel.run
      /\ appel'.k = appel.k + 1 /\ appel' \in UnAppel
  BY <1>1, <1>2 DEF UnAppel
<1>4. rendu.appel = Aucun /\ appel.op # "aucun" /\ appel' # Aucun
  BY <1>3, SansAppel DEF IInv, EnCours
<1>5. TypeOK'
  BY <1>1, <1>3 DEF IInv, TypeOK
<1>6. EnCours'
  <2>1. CASE appel.op = "InsertTurns"
    <3>1. appel'.k - 1 = appel.k
      BY <1>2, <1>3
    <3>2. Ecrit(turns, appel, appel.k - 1)'
      BY <1>1, <1>3, <2>1, <3>1 DEF Ecrit, Debut, LigneDe
    <3> QED
      BY <1>1, <1>3, <1>4, <2>1, <3>2 DEF EnCours, Insertions
  <2>2. CASE appel.op \in {"AddIndex", "DropIndex"}
    BY <1>1, <1>3, <1>4, <2>2 DEF IInv, EnCours, Insertions
  <2> QED
    BY <2>1, <2>2
<1>7. Comptees'
  <2>1. appel.op = "InsertTurns" =>
          Ecrites = appel.k - 1 /\ Ecrites' = appel.k
          /\ Cardinality(turns') = Cardinality(turns) + 1
    BY <1>2, <1>3 DEF Ecrites
  <2>2. appel.op # "InsertTurns" => Ecrites = 0 /\ Ecrites' = 0 /\ turns' = turns
    BY <1>3 DEF Ecrites
  <2>3. appel.op # "Reset" /\ appel'.op # "Reset"
    BY <1>3
  <2>4. acquises + Ecrites <= Cardinality(turns)
        /\ (~echecs => acquises + Ecrites = Cardinality(turns))
    BY <2>3 DEF IInv, Comptees
  <2>5. acquises + Ecrites' <= Cardinality(turns')
        /\ (~echecs => acquises + Ecrites' = Cardinality(turns'))
    BY <1>2, <2>1, <2>2, <2>4
  <2> QED
    BY <1>1, <2>3, <2>5 DEF Comptees
<1>8. Insertion' /\ EmpreinteFidele' /\ PlanAJour'
  BY <1>1, <1>4, SansAppel DEF Insertion, EmpreinteFidele, PlanAJour
<1> QED
  BY <1>5, <1>6, <1>7, <1>8 DEF IInv

-----------------------------------------------------------------------------
(* INSERT: one more row, whose key no row of the table has.                *)
LEMMA UneLigne ==
  ASSUME IInv, appel.op = "InsertTurns", appel.k <= Len(appel.liste),
         Insere(<<Lignes[appel.k]>>)
  PROVE  /\ BaseOK' /\ Ecrit(turns', appel, appel.k)
         /\ Cardinality(turns') = Cardinality(turns) + 1
<1> DEFINE x == LigneDe(appel, appel.k)
<1>1. /\ appel \in UnAppel /\ appel.k \in 1 .. Len(appel.liste)
      /\ appel.liste \in Seq(Tours) /\ Len(appel.liste) \in Nat
  BY DEF IInv, TypeOK, UnAppel
<1>2. Lignes[appel.k] = x
  BY <1>1 DEF Lignes, Ligne, LigneDe
<1>3. x \in Rangees
  BY <1>1, LignesDe
<1>4. /\ \A l \in turns : Cle(l) # Cle(x)
      /\ turns' = turns \cup {x} /\ aJour' = FALSE
      /\ UNCHANGED <<tables, runs, prochain, index>>
  <2>1. /\ DOMAIN <<x>> = {1} /\ <<x>>[1] = x
        /\ {<<x>>[n] : n \in DOMAIN <<x>>} = {x}
    OBVIOUS
  <2> HIDE DEF x
  <2> QED
    BY <1>2, <2>1 DEF Insere, Admises
<1>5. x \notin turns
  BY <1>4 DEF Cle
<1>6. /\ BaseOK /\ IsFiniteSet(turns) /\ avant \subseteq turns
      /\ turns \ avant = Debut(appel, appel.k - 1)
      /\ Cardinality(turns \ avant) = appel.k - 1
  BY DEF IInv, TypeOK, BaseOK, EnCours, Ecrit
<1> HIDE DEF x
<1>7. IsFiniteSet(turns') /\ Cardinality(turns') = Cardinality(turns) + 1
  BY <1>4, <1>5, <1>6, FS_AddElement
<1>8. BaseOK'
  BY <1>3, <1>4, <1>6, <1>7 DEF BaseOK
<1>9. turns' \ avant = (turns \ avant) \cup {x} /\ x \notin turns \ avant
  BY <1>4, <1>5, <1>6
<1>10. IsFiniteSet(turns \ avant) /\ Cardinality(turns' \ avant) = appel.k - 1 + 1
  <2>1. IsFiniteSet(turns \ avant)
    BY <1>6, FS_Subset
  <2>2. Cardinality((turns \ avant) \cup {x}) = Cardinality(turns \ avant) + 1
    BY <1>9, <2>1, FS_AddElement
  <2> QED
    BY <1>6, <1>9, <2>1, <2>2
<1>11. turns' \ avant = Debut(appel, appel.k)
  <2>1. appel.k - 1 \in Nat /\ (appel.k - 1) + 1 = appel.k
    BY <1>1
  <2>2. Debut(appel, (appel.k - 1) + 1)
          = Debut(appel, appel.k - 1) \cup {LigneDe(appel, (appel.k - 1) + 1)}
    BY <2>1, DebutSuivant
  <2> QED
    BY <1>6, <1>9, <2>1, <2>2 DEF x
<1>12. Ecrit(turns', appel, appel.k)
  BY <1>1, <1>4, <1>6, <1>10, <1>11 DEF Ecrit
<1> QED
  BY <1>7, <1>8, <1>12

(* COPY: the rows of the whole list, which have as many keys as turns and  *)
(* none of the table's.                                                    *)
LEMMA ToutesLesLignes ==
  ASSUME IInv, appel.op = "CopyTurns", Insere(Lignes)
  PROVE  /\ BaseOK' /\ Ecrit(turns', appel, Len(appel.liste))
         /\ Cardinality(turns') = Cardinality(turns) + Len(appel.liste)
<1> DEFINE d == Len(appel.liste)
           N == Debut(appel, d)
<1>1. appel \in UnAppel /\ appel.liste \in Seq(Tours) /\ d \in Nat
  BY DEF IInv, TypeOK, UnAppel
<1>2. /\ DOMAIN Lignes = 1 .. d
      /\ \A n \in 1 .. d : Lignes[n] = LigneDe(appel, n)
      /\ {Lignes[n] : n \in DOMAIN Lignes} = N
  <2>1. DOMAIN Lignes = 1 .. d /\ \A n \in 1 .. d : Lignes[n] = LigneDe(appel, n)
    BY <1>1 DEF Lignes, Ligne, LigneDe
  <2> QED
    BY <2>1 DEF Debut
<1>3. /\ SansDoublon(Lignes)
      /\ \A n \in 1 .. d, l \in turns : Cle(l) # Cle(Lignes[n])
      /\ turns' = turns \cup N /\ aJour' = FALSE
      /\ UNCHANGED <<tables, runs, prochain, index>>
  BY <1>2 DEF Insere, Admises
<1>4. N \subseteq Rangees
  BY <1>1, LignesDe DEF Debut
<1>5. N \cap turns = {}
  BY <1>2, <1>3 DEF Cle, Debut
<1>6. IsFiniteSet(N) /\ Cardinality(N) = d
  <2>1. Lignes \in [1 .. d -> N]
    BY <1>2 DEF Debut, Lignes
  <2>2. Lignes \in Surjection(1 .. d, N)
    BY <1>2, <2>1 DEF Surjection, Debut
  <2>3. Lignes \in Injection(1 .. d, N)
    <3>1. ASSUME NEW a \in 1 .. d, NEW b \in 1 .. d, Lignes[a] = Lignes[b]
          PROVE  a = b
      BY <1>2, <1>3, <3>1 DEF SansDoublon, Cle
    <3> QED
      BY <2>1, <3>1 DEF Injection, IsInjective
  <2>4. IsFiniteSet(1 .. d) /\ Cardinality(1 .. d) = d
    BY <1>1, FS_Interval
  <2> QED
    BY <2>2, <2>3, <2>4, FS_Surjection
<1>7. /\ BaseOK /\ IsFiniteSet(turns) /\ avant \subseteq turns
      /\ Cardinality(turns) \in Nat
      /\ turns \ avant = {}
  BY DebutSuivant, FS_CardinalityType DEF IInv, TypeOK, BaseOK, EnCours, Ecrit
<1> HIDE DEF N, d
<1>8. IsFiniteSet(turns') /\ Cardinality(turns') = Cardinality(turns) + d
  <2>1. /\ IsFiniteSet(turns \cup N)
        /\ Cardinality(turns \cup N)
             = Cardinality(turns) + Cardinality(N) - Cardinality(turns \cap N)
    BY <1>6, <1>7, FS_Union
  <2>2. Cardinality(turns \cap N) = 0
    BY <1>5, FS_EmptySet
  <2> QED
    BY <1>1, <1>3, <1>6, <1>7, <2>1, <2>2
<1>9. BaseOK'
  BY <1>3, <1>4, <1>7, <1>8 DEF BaseOK
<1>10. avant \subseteq turns' /\ turns' \ avant = N
  BY <1>3, <1>5, <1>7
<1>11. d \in 0 .. d
  BY <1>1
<1> QED
  BY <1>6, <1>8, <1>9, <1>10, <1>11 DEF Ecrit, N, d

(* What EnCours says when the call in progress wrote nothing.              *)
LEMMA RienEcrit ==
  ASSUME IInv, appel.op # "aucun", appel.op # "InsertTurns"
  PROVE  /\ acquises \in Nat /\ Cardinality(turns) \in Nat
         /\ appel.op # "Reset" => acquises <= Cardinality(turns)
         /\ ~echecs /\ appel.op # "Reset" => acquises = Cardinality(turns)
         /\ appel.op = "Reset" => acquises = 0
         /\ appel.op = "CopyTurns" => Ecrit(turns, appel, 0)
         /\ appel.op # "CopyTurns" => appel.liste = <<>> /\ Len(appel.liste) = 0
BY FS_CardinalityType DEF IInv, TypeOK, BaseOK, EnCours, Insertions, Comptees, Ecrites

(* A statement that was not done: the call fails, the table is as it was.  *)
LEMMA NonFait ==
  ASSUME IInv, appel.op # "aucun", turns' = turns, BaseOK', Echoue
  PROVE  IInv'
<1>1. CASE appel.op = "InsertTurns"
  <2>1. /\ Ecrit(turns, appel, appel.k - 1) /\ acquises \in Nat /\ appel.k \in Nat \ {0}
        /\ acquises + (appel.k - 1) <= Cardinality(turns)
        /\ Cardinality(turns) \in Nat
    BY <1>1, FS_CardinalityType DEF IInv, TypeOK, BaseOK, UnAppel, EnCours, Comptees, Ecrites
  <2>2. appel.k - 1 \in 0 .. Len(appel.liste) /\ acquises <= Cardinality(turns)
    BY <2>1 DEF Ecrit
  <2> QED
    BY <1>1, <2>1, <2>2, EchoueIInv
<1>2. CASE appel.op # "InsertTurns"
  <2>1. acquises <= Cardinality(turns)
    BY <1>2, RienEcrit
  <2>2. CASE appel.op = "CopyTurns"
    <3>1. Ecrit(turns, appel, 0) /\ 0 \in 0 .. Len(appel.liste)
      BY <2>2, RienEcrit DEF Ecrit
    <3> QED
      BY <2>1, <2>2, <3>1, EchoueIInv
  <2>3. CASE appel.op # "CopyTurns"
    BY <1>2, <2>1, <2>3, EchoueIInv DEF Insertions
  <2> QED
    BY <2>2, <2>3
<1> QED
  BY <1>1, <1>2

-----------------------------------------------------------------------------
(* A call begins: it has written nothing, and Reset forgets what was.      *)
LEMMA CommenceIInv ==
  ASSUME IInv, NEW a \in Appels, Commence(a)
  PROVE  IInv'
<1>1. /\ TypeOK /\ appel = Aucun /\ appel.op = "aucun"
      /\ acquises \in Nat /\ acquises <= Cardinality(turns)
      /\ ~echecs => acquises = Cardinality(turns)
  <2>1. appel = Aucun /\ appel.op = "aucun" /\ acquises \in Nat
    BY SansAppel DEF Commence, IInv, TypeOK
  <2>2. Ecrites = 0
    BY <2>1 DEF Ecrites
  <2> QED
    BY <2>1, <2>2 DEF IInv, Comptees
<1>2. /\ appel' = a /\ rendu' = [appel |-> Aucun, err |-> FALSE, valeur |-> 0]
      /\ rendu'.appel = Aucun
      /\ avant' = (IF a.op \in Insertions THEN turns ELSE {})
      /\ UNCHANGED base
  BY DEF Commence, Rendu, Insertions
<1> DEFINE Neuf(b) == /\ b \in UnAppel /\ b.op # "aucun" /\ b.k = 1
                      /\ b.op \notin Insertions => b.liste = <<>>
<1>3. Neuf(a)
  <2>1. ASSUME NEW op \in {"Migrate", "Reset", "NewRun", "CountTurns",
                           "AddIndex", "DropIndex"},
               a = Appel(op, 0, <<>>, 0)
        PROVE  Neuf(a)
    BY <2>1, SansAppel DEF Appel, UnAppel, Ops, Insertions
  <2>2. ASSUME NEW op \in Insertions, NEW id \in tenus, NEW l \in Listes,
               a = Appel(op, id, l, 0)
        PROVE  Neuf(a)
    <3>1. l \in Seq(Tours) /\ id \in Nat
      BY StoreAssumption, <1>1 DEF Tours, TypeOK
    <3> QED
      BY <2>2, <3>1, SansAppel DEF Appel, UnAppel, Ops, Insertions
  <2>3. ASSUME NEW e \in Empreintes, a = Appel("Interroge", 0, <<>>, e)
        PROVE  Neuf(a)
    BY <2>3, StoreAssumption DEF Appel, UnAppel, Ops, Insertions
  <2> QED
    BY <2>1, <2>2, <2>3 DEF Appels, Insertions
<1>4. rendu' \in [appel : UnAppel, err : BOOLEAN, valeur : Nat]
  BY <1>2, SansAppel
<1>5. TypeOK'
  <2>1. tenus' \subseteq Nat /\ acquises' \in Nat /\ echecs' \in BOOLEAN
    <3>1. CASE a.op = "Reset"
      <4>1. tenus' = {} /\ acquises' = 0 /\ echecs' = FALSE
        BY <3>1 DEF Commence
      <4> QED
        BY <4>1
    <3>2. CASE a.op # "Reset"
      BY <1>1, <3>2 DEF Commence, TypeOK
    <3> QED
      BY <3>1, <3>2
  <2>2. avant' \subseteq Rangees /\ IsFiniteSet(avant')
    BY <1>1, <1>2, FS_EmptySet DEF TypeOK, BaseOK
  <2> QED
    BY <1>1, <1>2, <1>3, <1>4, <2>1, <2>2 DEF TypeOK, BaseOK, base
<1>6. EnCours'
  <2>1. ASSUME a.op \in Insertions
        PROVE  Ecrit(turns, appel, 0)'
    <3>1. turns' = turns /\ avant' = turns /\ turns' \ avant' = {}
      BY <1>2, <2>1 DEF base
    <3>2. Debut(a, 0) = {} /\ 0 \in 0 .. Len(a.liste)
      BY <1>3, DebutSuivant DEF UnAppel
    <3> QED
      BY <1>2, <3>1, <3>2, FS_EmptySet DEF Ecrit, Debut, LigneDe
  <2> QED
    BY <1>2, <1>3, <2>1, SansAppel DEF EnCours, Insertions
<1>7. Comptees'
  <2>1. turns' = turns /\ Ecrites' = 0
    BY <1>2, <1>3 DEF base, Ecrites
  <2>2. CASE a.op = "Reset"
    BY <1>2, <2>2 DEF Commence, Comptees
  <2>3. CASE a.op # "Reset"
    BY <1>1, <1>2, <2>1, <2>3 DEF Commence, Comptees
  <2> QED
    BY <2>2, <2>3
<1>8. Insertion' /\ EmpreinteFidele' /\ PlanAJour'
  BY <1>2, SansAppel DEF Insertion, EmpreinteFidele, PlanAJour
<1> QED
  BY <1>5, <1>6, <1>7, <1>8 DEF IInv

(* The statements that leave the rows alone keep the tables well formed.   *)
LEMMA BaseTenue ==
  ASSUME IInv
  PROVE  /\ UNCHANGED base => BaseOK' /\ turns' = turns
         /\ CreeTables \/ InsereRun \/ BruleId \/ Analyse => BaseOK' /\ turns' = turns
         /\ \A b \in BOOLEAN : PoseIndex(b) => BaseOK' /\ turns' = turns
<1>1. BaseOK
  BY DEF IInv, TypeOK
<1>2. UNCHANGED base => BaseOK' /\ turns' = turns
  BY <1>1 DEF BaseOK, base
<1>3. CreeTables \/ InsereRun \/ BruleId \/ Analyse => BaseOK' /\ turns' = turns
  <2>1. CreeTables => BaseOK' /\ turns' = turns
    BY <1>1 DEF BaseOK, CreeTables
  <2>2. InsereRun \/ BruleId => BaseOK' /\ turns' = turns
    BY <1>1 DEF BaseOK, InsereRun, BruleId
  <2>3. Analyse => BaseOK' /\ turns' = turns
    BY <1>1 DEF BaseOK, Analyse
  <2> QED
    BY <2>1, <2>2, <2>3
<1>4. ASSUME NEW b \in BOOLEAN, PoseIndex(b)
      PROVE  BaseOK' /\ turns' = turns
  BY <1>1, <1>4 DEF BaseOK, PoseIndex
<1> QED
  BY <1>2, <1>3, <1>4

(* A call that returns without an error and wrote no row.                  *)
LEMMA RendSansLigne ==
  ASSUME IInv, NEW v \in Nat, Rend(v), BaseOK', turns' = turns, tenus' \subseteq Nat,
         appel.op \in {"Migrate", "NewRun", "CountTurns", "Interroge", "AddIndex", "DropIndex"},
         appel.op = "Interroge" =>
           v = Cardinality({l \in turns : l.fingerprint % Largeur = appel.empreinte}),
         appel.op \in {"AddIndex", "DropIndex"} => aJour' /\ index' = (appel.op = "AddIndex")
  PROVE  IInv'
<1>1. /\ Len(appel.liste) = 0 /\ acquises \in Nat /\ Cardinality(turns) \in Nat
      /\ acquises <= Cardinality(turns)
      /\ ~echecs => acquises = Cardinality(turns)
  BY RienEcrit
<1>2. appel.op # "aucun" /\ appel.op \notin Insertions
  BY DEF Insertions
<1> QED
  BY <1>1, <1>2, RendIInv

(* Nor does one that writes rows break what is counted, whether its answer *)
(* arrives or not.                                                         *)
LEMMA Ecriture ==
  ASSUME IInv, InsertTurn \/ CopyTurns
  PROVE  IInv'
<1>1. appel.op \in Insertions /\ appel \in UnAppel /\ tenus \subseteq Nat
  BY DEF InsertTurn, CopyTurns, Insertions, IInv, TypeOK
<1>2. CASE InsertTurn
  <2>1. /\ appel.op = "InsertTurns" /\ appel.k <= Len(appel.liste)
        /\ \/ Insere(<<Lignes[appel.k]>>) /\ (Poursuit \/ Echoue)
           \/ UNCHANGED base /\ Echoue
    BY <1>2 DEF InsertTurn, Exec
  <2>2. ASSUME Insere(<<Lignes[appel.k]>>), Poursuit
        PROVE  IInv'
    BY <2>1, <2>2, UneLigne, PoursuitIInv
  <2>3. ASSUME Insere(<<Lignes[appel.k]>>), Echoue
        PROVE  IInv'
    <3>1. /\ BaseOK' /\ Ecrit(turns', appel, appel.k)
          /\ Cardinality(turns') = Cardinality(turns) + 1
      BY <2>1, <2>3, UneLigne
    <3>2. acquises + (appel.k - 1) <= Cardinality(turns)
      BY <2>1 DEF IInv, Comptees, Ecrites
    <3>3. acquises \in Nat /\ Cardinality(turns) \in Nat /\ appel.k \in Nat \ {0}
      BY FS_CardinalityType DEF IInv, TypeOK, BaseOK, UnAppel
    <3>4. acquises <= Cardinality(turns') /\ appel.k \in 0 .. Len(appel.liste)
      BY <3>1, <3>2, <3>3 DEF Ecrit
    <3> QED
      BY <2>1, <2>3, <3>1, <3>4, EchoueIInv
  <2>4. ASSUME UNCHANGED base, Echoue
        PROVE  IInv'
    BY <1>1, <2>4, BaseTenue, NonFait DEF Insertions
  <2> QED
    BY <2>1, <2>2, <2>3, <2>4
<1>3. CASE CopyTurns
  <2>1. /\ appel.op = "CopyTurns"
        /\ \/ Insere(Lignes) /\ ((Rend(0) /\ UNCHANGED tenus) \/ Echoue)
           \/ UNCHANGED base /\ Echoue
    BY <1>3 DEF CopyTurns, Exec
  <2>2. /\ acquises \in Nat /\ Cardinality(turns) \in Nat
        /\ acquises <= Cardinality(turns) /\ Len(appel.liste) \in Nat
        /\ ~echecs => acquises = Cardinality(turns)
    BY <1>1, <2>1, RienEcrit DEF UnAppel
  <2>3. ASSUME Insere(Lignes)
        PROVE  /\ BaseOK' /\ Ecrit(turns', appel, Len(appel.liste))
               /\ acquises <= Cardinality(turns')
               /\ acquises + Len(appel.liste) <= Cardinality(turns')
               /\ ~echecs => acquises + Len(appel.liste) = Cardinality(turns')
    <3>1. /\ BaseOK' /\ Ecrit(turns', appel, Len(appel.liste))
          /\ Cardinality(turns') = Cardinality(turns) + Len(appel.liste)
      BY <2>1, <2>3, ToutesLesLignes
    <3>2. acquises <= Cardinality(turns')
          /\ acquises + Len(appel.liste) <= Cardinality(turns')
      BY <2>2, <3>1
    <3>3. ~echecs => acquises + Len(appel.liste) = Cardinality(turns')
      BY <2>2, <3>1
    <3> QED
      BY <3>1, <3>2, <3>3
  <2>4. ASSUME Insere(Lignes), Rend(0), UNCHANGED tenus
        PROVE  IInv'
    BY <1>1, <2>1, <2>3, <2>4, RendIInv
  <2>5. ASSUME Insere(Lignes), Echoue
        PROVE  IInv'
    <3>1. Len(appel.liste) \in 0 .. Len(appel.liste)
      BY <2>2
    <3> QED
      BY <2>1, <2>3, <2>5, <3>1, EchoueIInv
  <2>6. ASSUME UNCHANGED base, Echoue
        PROVE  IInv'
    BY <2>1, <2>6, BaseTenue, NonFait
  <2> QED
    BY <2>1, <2>4, <2>5, <2>6
<1> QED
  BY <1>2, <1>3

(* The end of InsertTurns: every row asked for was written.                *)
LEMMA InsertFinIInv ==
  ASSUME IInv, InsertFin
  PROVE  IInv'
<1>1. /\ appel.op = "InsertTurns" /\ Ecrit(turns, appel, appel.k - 1)
      /\ appel \in UnAppel /\ appel.k > Len(appel.liste) /\ tenus \subseteq Nat
      /\ Rend(0) /\ UNCHANGED base /\ UNCHANGED tenus
  BY DEF InsertFin, IInv, TypeOK, EnCours
<1>2. appel.k \in Nat \ {0} /\ Len(appel.liste) \in Nat
  BY <1>1 DEF UnAppel
<1>3. appel.k - 1 = Len(appel.liste)
  BY <1>1, <1>2 DEF Ecrit
<1>4. /\ acquises + Len(appel.liste) <= Cardinality(turns)
      /\ ~echecs => acquises + Len(appel.liste) = Cardinality(turns)
  BY <1>1, <1>3 DEF IInv, Comptees, Ecrites
<1>5. BaseOK' /\ turns' = turns
  BY <1>1, BaseTenue
<1> QED
  BY <1>1, <1>3, <1>4, <1>5, RendIInv

(* Reset empties the tables, or does not, and counts nothing either way.   *)
LEMMA ResetIInv ==
  ASSUME IInv, Reset
  PROVE  IInv'
<1>1. /\ appel.op = "Reset" /\ acquises = 0 /\ appel.liste = <<>>
      /\ Len(appel.liste) = 0 /\ appel.op \notin Insertions /\ tenus \subseteq Nat
  BY RienEcrit DEF Reset, Insertions, IInv, TypeOK
<1>2. \/ Tronque /\ ((Rend(0) /\ UNCHANGED tenus) \/ Echoue)
      \/ UNCHANGED base /\ Echoue
  BY DEF Reset, Exec
<1>3. ASSUME Tronque
      PROVE  BaseOK' /\ Cardinality(turns') = 0
  BY <1>3, FS_EmptySet DEF IInv, TypeOK, BaseOK, Tronque
<1>4. ASSUME Tronque, Rend(0), UNCHANGED tenus
      PROVE  IInv'
  BY <1>1, <1>3, <1>4, RendIInv
<1>5. ASSUME Tronque, Echoue
      PROVE  IInv'
  BY <1>1, <1>3, <1>5, EchoueIInv
<1>6. ASSUME UNCHANGED base, Echoue
      PROVE  IInv'
  BY <1>1, <1>6, BaseTenue, NonFait
<1> QED
  BY <1>2, <1>4, <1>5, <1>6

(* The calls that write no row and are one statement.                      *)
LEMMA UneInstruction ==
  ASSUME IInv, Migrate \/ NewRun \/ CountTurns
  PROVE  IInv'
<1>1. /\ tenus \subseteq Nat /\ prochain \in Nat /\ Cardinality(turns) \in Nat
      /\ appel.op \in {"Migrate", "NewRun", "CountTurns"}
      /\ appel.op # "aucun"
  BY FS_CardinalityType DEF IInv, TypeOK, BaseOK, Migrate, NewRun, CountTurns
<1>2. CASE Echoue
  <2>1. BaseOK' /\ turns' = turns
    BY <1>2, BaseTenue DEF Migrate, NewRun, CountTurns, Exec
  <2> QED
    BY <1>1, <1>2, <2>1, NonFait
<1>3. CASE ~Echoue
  <2>1. /\ BaseOK' /\ turns' = turns /\ tenus' \subseteq Nat
        /\ \E v \in Nat : Rend(v)
    <3>1. CASE Migrate
      BY <1>1, <1>3, <3>1, BaseTenue DEF Migrate, Exec
    <3>2. CASE NewRun
      BY <1>1, <1>3, <3>2, BaseTenue DEF NewRun, Exec
    <3>3. CASE CountTurns
      BY <1>1, <1>3, <3>3, BaseTenue DEF CountTurns, Exec
    <3> QED
      BY <3>1, <3>2, <3>3
  <2> QED
    BY <1>1, <2>1, RendSansLigne
<1> QED
  BY <1>2, <1>3

(* Interroge compares signed numbers and counts unsigned ones: the same.   *)
LEMMA InterrogeIInv ==
  ASSUME IInv, Interroge
  PROVE  IInv'
<1> DEFINE e == appel.empreinte
           Lues == {l \in turns : l.fingerprint = Int64(e)}
<1>1. /\ appel.op = "Interroge" /\ UNCHANGED base /\ e \in 0 .. Largeur - 1
      /\ tenus \subseteq Nat
      /\ Echoue \/ (Rend(Cardinality(Lues)) /\ UNCHANGED tenus)
  BY DEF Interroge, Exec, IInv, TypeOK, UnAppel
<1>2. BaseOK' /\ turns' = turns /\ turns \subseteq Rangees /\ IsFiniteSet(turns)
  BY <1>1, BaseTenue DEF IInv, TypeOK, BaseOK
<1>3. Lues = {l \in turns : l.fingerprint % Largeur = e}
  <2>1. ASSUME NEW l \in turns
        PROVE  l.fingerprint % Largeur = e <=> l.fingerprint = Int64(e)
    BY <1>1, <1>2, Signe DEF Rangees
  <2> QED
    BY <2>1
<1>4. Cardinality(Lues) \in Nat
  BY <1>2, FS_Subset, FS_CardinalityType
<1>5. CASE Echoue
  BY <1>1, <1>2, <1>5, NonFait
<1>6. CASE Rend(Cardinality(Lues)) /\ UNCHANGED tenus
  <2>1. Cardinality(Lues) = Cardinality({l \in turns : l.fingerprint % Largeur = appel.empreinte})
    BY <1>3
  <2> HIDE DEF Lues
  <2> QED
    BY <1>1, <1>2, <1>4, <1>6, <2>1, RendSansLigne
<1> QED
  BY <1>1, <1>5, <1>6

(* The index first, then ANALYZE: when both were answered, both hold.      *)
LEMMA IndexIInv ==
  ASSUME IInv, Index
  PROVE  IInv'
<1>1. /\ appel.op \in {"AddIndex", "DropIndex"} /\ appel.op # "aucun"
      /\ appel \in UnAppel /\ appel.k \in {1, 2} /\ tenus \subseteq Nat
      /\ appel.k = 2 => index = (appel.op = "AddIndex")
  BY DEF Index, IInv, TypeOK, UnAppel, EnCours
<1>2. CASE appel.k = 1
  <2>1. \/ PoseIndex(appel.op = "AddIndex") /\ (Poursuit \/ Echoue)
        \/ UNCHANGED base /\ Echoue
    BY <1>2 DEF Index, Exec, RangAnalyse
  <2>2. BaseOK' /\ turns' = turns
    BY <2>1, BaseTenue
  <2>3. ASSUME PoseIndex(appel.op = "AddIndex"), Poursuit
        PROVE  IInv'
    <3>1. index' = (appel.op = "AddIndex")
      BY <2>3 DEF PoseIndex
    <3> QED
      BY <1>1, <1>2, <2>2, <2>3, <3>1, PoursuitIInv
  <2> QED
    BY <1>1, <2>1, <2>2, <2>3, NonFait
<1>3. CASE appel.k = 2
  <2>1. \/ Analyse /\ ((Rend(0) /\ UNCHANGED tenus) \/ Echoue)
        \/ UNCHANGED base /\ Echoue
    BY <1>3 DEF Index, Exec, RangAnalyse
  <2>2. BaseOK' /\ turns' = turns
    BY <2>1, BaseTenue
  <2>3. ASSUME Analyse, Rend(0), UNCHANGED tenus
        PROVE  IInv'
    <3>1. aJour' /\ index' = (appel.op = "AddIndex")
      BY <1>1, <1>3, <2>3 DEF Analyse
    <3> QED
      BY <1>1, <2>2, <2>3, <3>1, RendSansLigne
  <2> QED
    BY <1>1, <2>1, <2>2, <2>3, NonFait
<1> QED
  BY <1>1, <1>2, <1>3

-----------------------------------------------------------------------------
(* Opening and closing the pool, and doing nothing, change no row.         *)
LEMMA Repos ==
  ASSUME IInv, Ouvre \/ Ferme \/ UNCHANGED vars
  PROVE  IInv'
<1>1. /\ base' = base /\ appel' = appel /\ rendu' = rendu /\ avant' = avant
      /\ acquises' = acquises /\ echecs' = echecs /\ tenus' \in {tenus, {}}
  BY DEF Ouvre, Ferme, vars, client
<1>2. /\ tables' = tables /\ runs' = runs /\ prochain' = prochain /\ turns' = turns
      /\ index' = index /\ aJour' = aJour
  BY <1>1 DEF base
<1>3. TypeOK'
  BY <1>1, <1>2 DEF IInv, TypeOK, BaseOK
<1>4. EnCours' /\ Comptees'
  BY <1>1, <1>2 DEF IInv, EnCours, Ecrit, Debut, LigneDe, Comptees, Ecrites
<1>5. Insertion' /\ EmpreinteFidele' /\ PlanAJour'
  BY <1>1, <1>2 DEF IInv, Insertion, EmpreinteFidele, PlanAJour
<1> QED
  BY <1>3, <1>4, <1>5 DEF IInv

LEMMA Invariance == Spec => []IInv
<1>1. ASSUME IInv, [Next]_vars
      PROVE  IInv'
  <2>1. CASE Ouvre \/ Ferme \/ UNCHANGED vars
    BY <1>1, <2>1, Repos
  <2>2. CASE \E a \in Appels : Commence(a)
    BY <1>1, <2>2, CommenceIInv
  <2>3. CASE Migrate \/ NewRun \/ CountTurns
    BY <1>1, <2>3, UneInstruction
  <2>4. CASE Reset
    BY <1>1, <2>4, ResetIInv
  <2>5. CASE InsertTurn \/ CopyTurns
    BY <1>1, <2>5, Ecriture
  <2>6. CASE InsertFin
    BY <1>1, <2>6, InsertFinIInv
  <2>7. CASE Interroge
    BY <1>1, <2>7, InterrogeIInv
  <2>8. CASE Index
    BY <1>1, <2>8, IndexIInv
  <2> QED
    BY <1>1, <2>1, <2>2, <2>3, <2>4, <2>5, <2>6, <2>7, <2>8 DEF Next
<1> QED
  BY <1>1, InitIInv, PTL DEF Spec

(* Whatever a statement does and whatever becomes of its answer,           *)
(* InsertTurns leaves a prefix of its rows, CopyTurns all or nothing, both *)
(* all when they return no error, and the rows before are still there.     *)
THEOREM InsertionsJustes == Spec => []Insertion
<1>1. IInv => Insertion
  BY DEF IInv
<1> QED
  BY <1>1, Invariance, PTL

(* Rows that a call said it wrote are in the table, once each, and without *)
(* a failed call since the last Reset nothing else is.                     *)
THEOREM ComptesJustes == Spec => []CompteJuste
<1>1. IInv => CompteJuste
  <2> SUFFICES ASSUME IInv, appel = Aucun
      PROVE  acquises <= Cardinality(turns) /\ (~echecs => acquises = Cardinality(turns))
    BY DEF CompteJuste
  <2>1. appel.op = "aucun" /\ acquises \in Nat
    BY SansAppel DEF IInv, TypeOK
  <2>2. Ecrites = 0
    BY <2>1 DEF Ecrites
  <2> QED
    BY <2>1, <2>2 DEF IInv, Comptees
<1> QED
  BY <1>1, Invariance, PTL

(* The signed column loses nothing of a fingerprint: what Interroge counts *)
(* is the turns whose 64 bits are the ones asked for.                      *)
THEOREM EmpreintesFideles == Spec => []EmpreinteFidele
<1>1. IInv => EmpreinteFidele
  BY DEF IInv
<1> QED
  BY <1>1, Invariance, PTL

(* AddIndex and DropIndex return without an error only when the index is   *)
(* as asked and the planner has seen it.                                   *)
THEOREM PlansAJour == Spec => []PlanAJour
<1>1. IInv => PlanAJour
  BY DEF IInv
<1> QED
  BY <1>1, Invariance, PTL
=============================================================================
