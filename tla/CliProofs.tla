------------------------------ MODULE CliProofs -----------------------------
(***************************************************************************)
(* What fire.Run and the command guarantee, for any maps, options, flags   *)
(* and registered names.                                                   *)
(***************************************************************************)
EXTENDS Cli, SequenceTheorems, TLAPS

(* What a product by a positive number keeps of the order.                 *)
LEMMA Produit ==
  ASSUME NEW p \in Nat \ {0}, NEW a \in Int, NEW b \in Int
  PROVE  /\ a * p \in Int /\ (a - 1) * p = a * p - p
         /\ a < b => a * p + p <= b * p
<1>1. a * p \in Int /\ b * p \in Int /\ (a - 1) * p = a * p - p
  BY Z3
<1>2. ASSUME a < b PROVE a * p + p <= b * p
  <2>1. b - a - 1 \in Nat
    BY <1>2
  <2>2. (b - a - 1) * p >= 0
    BY <2>1, Z3
  <2>3. (b - a - 1) * p = b * p - a * p - p
    BY Z3
  <2> QED
    BY <1>1, <2>2, <2>3
<1> QED
  BY <1>1, <1>2

(* Euclid's division, for positive divisors.                               *)
LEMMA Division ==
  ASSUME NEW p \in Nat \ {0}, NEW t \in Nat
  PROVE  /\ t \div p \in Nat /\ t % p \in 0 .. p - 1
         /\ t = (t \div p) * p + (t % p)
<1>1. t % p \in 0 .. p - 1
  BY Z3
<1>2. t \div p \in Nat
  BY Z3
<1>3. t = p * (t \div p) + (t % p)
  BY Z3
<1> QED
  BY <1>1, <1>2, <1>3, Z3

(* Between two multiples, the second one included, there is no other.      *)
LEMMA Multiple ==
  ASSUME NEW p \in Nat \ {0}, NEW t \in Nat, NEW k \in Nat,
         (k - 1) * p < t, t <= k * p
  PROVE  t % p = 0 <=> t = k * p
<1> DEFINE q == t \div p
<1>1. q \in Nat /\ t % p \in 0 .. p - 1 /\ t = q * p + (t % p)
  BY Division
<1>2. q * p \in Int /\ k * p \in Int /\ (k - 1) * p = k * p - p
      /\ (q < k => q * p + p <= k * p) /\ (k < q => k * p + p <= q * p)
      /\ (q < k - 1 => q * p + p <= (k - 1) * p)
  BY <1>1, Produit
<1> HIDE DEF q
<1>3. ASSUME t % p = 0 PROVE t = k * p
  BY <1>1, <1>2, <1>3
<1>4. ASSUME t = k * p PROVE t % p = 0
  BY <1>1, <1>2, <1>4
<1> QED
  BY <1>3, <1>4

(* The quotient counts the positive multiples passed.                      *)
LEMMA Quotient ==
  ASSUME NEW p \in Nat \ {0}, NEW t \in Nat, NEW k \in Nat,
         (k - 1) * p <= t, t < k * p
  PROVE  k = t \div p + 1
<1> DEFINE q == t \div p
<1>1. q \in Nat /\ t % p \in 0 .. p - 1 /\ t = q * p + (t % p)
  BY Division
<1>2. q * p \in Int /\ k * p \in Int /\ (k - 1) * p = k * p - p
      /\ (q < k - 1 => q * p + p <= (k - 1) * p) /\ (k - 1 < q => (k - 1) * p + p <= q * p)
  BY <1>1, Produit
<1> HIDE DEF q
<1>3. ~(q < k - 1)
  BY <1>1, <1>2
<1>4. ~(k - 1 < q)
  BY <1>1, <1>2
<1>5. q = k - 1
  BY <1>1, <1>3, <1>4
<1> QED
  BY <1>5 DEF q

-----------------------------------------------------------------------------
(* The values the variables of the driver may hold; before main calls it,  *)
(* it waits.                                                               *)
RTypeOK ==
  /\ opt \in Options
  /\ pc \in {"attend", "dessine", "capture", "boucle", "burning", "rendu"}
  /\ res \in [Turns : Nat, Extinct : BOOLEAN, Err : BOOLEAN]
  /\ images \in Nat /\ captures \in Seq(Nat)

(* The result is written once, on the way out, and the turns never pass    *)
(* those asked for; the loop goes on only if the last turn left a fire.    *)
Deroulement ==
  /\ pc # "rendu" => ~res.Err /\ ~res.Extinct
  /\ res.Turns = 0 \/ res.Turns <= opt.Turns
  /\ pc = "boucle" /\ res.Turns > 0 => ~Extinct
  /\ pc = "burning" => res.Turns > 0

(* The turn at hand has its image and its snapshot, or is still to have    *)
(* them: it lies between the last multiple of the period taken and the     *)
(* next one.                                                               *)
Pris == pc \in {"boucle", "burning"} \/ (pc = "rendu" /\ ~res.Err)
APrendre == pc \in {"attend", "dessine", "capture"}
Prises ==
  LET suivante == Len(captures) * Periode
      derniere == (Len(captures) - 1) * Periode
  IN  /\ \A n \in DOMAIN captures : captures[n] = (n - 1) * Periode
      /\ opt.Snapshot /\ APrendre => derniere < res.Turns /\ res.Turns <= suivante
      /\ opt.Snapshot /\ Pris => derniere <= res.Turns /\ res.Turns < suivante
      /\ opt.Render => /\ pc \in {"attend", "dessine"} => images = res.Turns
                       /\ Pris \/ pc = "capture" => images = res.Turns + 1

RInv == RTypeOK /\ Deroulement /\ Prises /\ ResultatJuste

(* Where main is, and what the profiles and the deferred calls are there.  *)
Avant == {"flags", "cpu", "demarre", "appel"}
Apres == {"mem", "ecrit", "ferme", "affiche", "differes"}
AppelsCPU == {"StopCPUProfile", "Close"}
AppelsMem == {"WriteTo", "mf.Close"}
CpuPose ==
  /\ IF flags.cpuProfile THEN cpu = "en cours" /\ differes = <<"Close", "StopCPUProfile">>
     ELSE cpu = "aucun" /\ differes = <<>>
  /\ pannes \cap AppelsCPU = {}
CpuRange ==
  \/ CpuPose
  \/ flags.cpuProfile /\ cpu = Etat(TRUE, AppelsCPU) /\ differes \in {<<"Close">>, <<>>}
MemFini == mem = Etat(flags.memProfile, AppelsMem)

CInv ==
  /\ etape \in Avant \cup Apres \cup {"run", "autre", "sorti"}
  /\ etape # "autre" => flags \in Flags
  /\ etape \in Avant => pc = "attend"
  /\ etape \in {"cpu", "demarre", "appel", "run"} \cup Apres =>
       ~flags.list /\ flags.impl \in Names
  /\ etape \in {"flags", "cpu"} => cpu = "aucun" /\ differes = <<>>
  /\ etape = "flags" => carte = <<>>
  /\ etape = "demarre" => flags.cpuProfile /\ cpu = "vide" /\ differes = <<>>
  /\ etape \in Avant \cup {"run", "mem", "ecrit"} => pannes = {}
  /\ etape \in {"ferme", "affiche"} => pannes \subseteq AppelsMem
  /\ etape \in {"appel", "run", "mem", "ecrit", "ferme", "affiche"} => CpuPose
  /\ etape = "differes" => CpuRange
  /\ etape \in Avant \cup {"run", "mem"} => mem = "aucun"
  /\ etape \in {"ecrit", "ferme"} => flags.memProfile
  /\ etape \in {"ferme", "affiche", "differes"} => MemFini
  /\ etape \in Apres => pc = "rendu" /\ ~res.Err
  /\ etape = "differes" => affiche = (~flags.quiet /\ "Printf" \notin pannes)
  /\ etape \in (Avant \cup Apres \cup {"run"}) \ {"differes"} => affiche = FALSE
  /\ CodeFidele

IInv == RInv /\ CInv

-----------------------------------------------------------------------------
(* The period of the snapshots is a positive number, whatever was asked.   *)
LEMMA PeriodePositive ==
  ASSUME opt \in Options
  PROVE  Periode \in Nat \ {0}
  BY DEF Options, Periode

(* The two bounds of the turn at hand, as numbers.                         *)
LEMMA BornesEntieres ==
  ASSUME RTypeOK
  PROVE  /\ Len(captures) \in Nat /\ Len(captures) * Periode \in Int
         /\ (Len(captures) - 1) * Periode = Len(captures) * Periode - Periode
         /\ Periode \in Nat \ {0}
<1>1. Len(captures) \in Nat /\ Periode \in Nat \ {0}
  BY PeriodePositive DEF RTypeOK
<1> QED
  BY <1>1, Produit

(* Nothing is done when Run is called, by main or by another.              *)
LEMMA DepartInv ==
  ASSUME opt \in Options, pc \in {"attend", "dessine"}, images = 0, captures = <<>>,
         res = [Turns |-> 0, Extinct |-> FALSE, Err |-> FALSE]
  PROVE  RInv
<1>1. RTypeOK
  BY DEF RTypeOK
<1>2. Len(captures) = 0 /\ DOMAIN captures = {} /\ res.Turns = 0
  OBVIOUS
<1>3. Deroulement /\ ResultatJuste
  BY DEF Deroulement, ResultatJuste
<1>4. Prises
  BY <1>1, <1>2, BornesEntieres DEF Prises, Pris
<1> QED
  BY <1>1, <1>3, <1>4 DEF RInv

(* An image is drawn, or not.                                              *)
LEMMA DessineInv == RInv /\ Dessine => RInv'
<1> SUFFICES ASSUME RInv, Dessine PROVE RInv'
  OBVIOUS
<1>1. /\ RTypeOK /\ Deroulement /\ Prises /\ ResultatJuste /\ pc = "dessine"
      /\ opt' = opt /\ captures' = captures /\ Periode' = Periode
  BY DEF RInv, Dessine, Periode
<1>2. CASE pc' = "capture" /\ res' = res
           /\ images' = IF opt.Render THEN images + 1 ELSE images
  <2>1. RTypeOK'
    BY <1>1, <1>2 DEF RTypeOK
  <2>2. Deroulement' /\ ResultatJuste'
    BY <1>1, <1>2 DEF Deroulement, ResultatJuste
  <2>3. Prises'
    BY <1>1, <1>2 DEF Prises, Pris, APrendre
  <2> QED
    BY <2>1, <2>2, <2>3 DEF RInv
<1>3. CASE Echoue /\ images' = images
  <2>1. RTypeOK' /\ pc' = "rendu" /\ res'.Err = TRUE /\ res'.Extinct = res.Extinct
        /\ res'.Turns = res.Turns
    BY <1>1, <1>3 DEF RTypeOK, Echoue
  <2>2. Deroulement' /\ ResultatJuste'
    BY <1>1, <2>1 DEF Deroulement, ResultatJuste
  <2>3. Prises'
    BY <1>1, <2>1 DEF Prises, Pris, APrendre
  <2> QED
    BY <2>1, <2>2, <2>3 DEF RInv
<1> QED
  BY <1>2, <1>3 DEF Dessine

(* A snapshot is taken when the turn is the next multiple of the period,   *)
(* and only then.                                                          *)
LEMMA CaptureInv == RInv /\ Capture => RInv'
<1> SUFFICES ASSUME RInv, Capture PROVE RInv'
  OBVIOUS
<1> DEFINE k == Len(captures)
<1>1. /\ RTypeOK /\ Deroulement /\ Prises /\ ResultatJuste /\ pc = "capture"
      /\ opt' = opt /\ images' = images /\ Periode' = Periode
  BY DEF RInv, Capture, Periode
<1>2. /\ k \in Nat /\ k * Periode \in Int /\ (k - 1) * Periode = k * Periode - Periode
      /\ Periode \in Nat \ {0} /\ res.Turns \in Nat
  BY <1>1, BornesEntieres DEF RTypeOK
<1>3. Due(res.Turns) => res.Turns = k * Periode
  BY <1>1, <1>2, Multiple DEF Due, Prises, APrendre
<1>4. opt.Snapshot /\ ~Due(res.Turns) =>
        (k - 1) * Periode < res.Turns /\ res.Turns < k * Periode
  BY <1>1, <1>2, Multiple DEF Due, Prises, APrendre
<1>5. CASE /\ pc' = ApresCapture /\ res' = res
           /\ captures' = IF Due(res.Turns) THEN Append(captures, res.Turns) ELSE captures
  <2>1. RTypeOK' /\ pc' \in {"boucle", "burning"} /\ (pc' = "boucle" <=> res.Turns = 0)
    BY <1>1, <1>5 DEF RTypeOK, ApresCapture
  <2>2. Deroulement' /\ ResultatJuste'
    BY <1>1, <1>2, <1>5, <2>1 DEF Deroulement, ResultatJuste
  <2>3. opt.Render => images' = res'.Turns + 1
    BY <1>1, <1>5 DEF Prises
  <2>4. CASE Due(res.Turns)
    <3>1. /\ captures' = Append(captures, res.Turns) /\ captures \in Seq(Nat)
          /\ Len(captures') = k + 1 /\ (k + 1) - 1 = k
          /\ (k + 1) * Periode \in Int /\ ((k + 1) - 1) * Periode = (k + 1) * Periode - Periode
      BY <1>1, <1>2, <1>5, <2>4, Produit DEF RTypeOK
    <3>2. \A n \in DOMAIN captures' : captures'[n] = (n - 1) * Periode
      <4> SUFFICES ASSUME NEW n \in DOMAIN captures' PROVE captures'[n] = (n - 1) * Periode
        OBVIOUS
      <4>1. CASE n \in 1 .. k
        BY <1>1, <3>1, <4>1 DEF Prises
      <4>2. CASE n = k + 1
        BY <1>2, <1>3, <2>4, <3>1, <4>2
      <4> QED
        BY <1>2, <3>1, <4>1, <4>2
    <3>3. Prises'
      BY <1>1, <1>2, <1>3, <1>5, <2>1, <2>3, <2>4, <3>1, <3>2 DEF Prises, Pris, APrendre
    <3> QED
      BY <2>1, <2>2, <3>3 DEF RInv
  <2>5. CASE ~Due(res.Turns)
    <3>1. Prises'
      BY <1>1, <1>2, <1>4, <1>5, <2>1, <2>3, <2>5 DEF Prises, Pris, APrendre
    <3> QED
      BY <2>1, <2>2, <3>1 DEF RInv
  <2> QED
    BY <2>4, <2>5
<1>6. CASE Echoue /\ captures' = captures
  <2>1. RTypeOK' /\ pc' = "rendu" /\ res'.Err = TRUE /\ res'.Extinct = res.Extinct
        /\ res'.Turns = res.Turns
    BY <1>1, <1>6 DEF RTypeOK, Echoue
  <2>2. Deroulement' /\ ResultatJuste'
    BY <1>1, <2>1 DEF Deroulement, ResultatJuste
  <2>3. Prises'
    BY <1>1, <1>6, <2>1 DEF Prises, Pris, APrendre
  <2> QED
    BY <2>1, <2>2, <2>3 DEF RInv
<1> QED
  BY <1>5, <1>6 DEF Capture

(* A turn is played while turns are left and the last one left a fire.     *)
LEMMA BoucleInv == RInv /\ Boucle => RInv'
<1> SUFFICES ASSUME RInv, Boucle PROVE RInv'
  OBVIOUS
<1>1. /\ RTypeOK /\ Deroulement /\ Prises /\ pc = "boucle" /\ pc' = "dessine"
      /\ opt' = opt /\ images' = images /\ captures' = captures /\ Periode' = Periode
      /\ res.Turns < opt.Turns /\ res' = [res EXCEPT !.Turns = @ + 1]
  BY DEF RInv, Boucle, Periode
<1>2. RTypeOK' /\ res'.Turns = res.Turns + 1 /\ res'.Err = res.Err
      /\ res'.Extinct = res.Extinct
  BY <1>1 DEF RTypeOK
<1>3. Deroulement' /\ ResultatJuste'
  BY <1>1, <1>2 DEF Deroulement, ResultatJuste, RTypeOK, Options
<1>4. Prises'
  BY <1>1, <1>2, BornesEntieres DEF Prises, Pris, APrendre, RTypeOK
<1> QED
  BY <1>2, <1>3, <1>4 DEF RInv

(* The turns are spent.                                                    *)
LEMMA EpuiseInv == RInv /\ Epuise => RInv'
<1> SUFFICES ASSUME RInv, Epuise PROVE RInv'
  OBVIOUS
<1>1. /\ RTypeOK /\ Deroulement /\ Prises /\ pc = "boucle" /\ pc' = "rendu"
      /\ opt' = opt /\ images' = images /\ captures' = captures /\ Periode' = Periode
      /\ res.Turns >= opt.Turns /\ res' = res /\ Extinct' = Extinct
  BY DEF RInv, Epuise, Periode, moteur, Extinct, EnFeu
<1>2. RTypeOK'
  BY <1>1 DEF RTypeOK
<1>3. Deroulement' /\ ResultatJuste'
  BY <1>1 DEF Deroulement, ResultatJuste, RTypeOK, Options
<1>4. Prises'
  BY <1>1 DEF Prises, Pris, APrendre
<1> QED
  BY <1>2, <1>3, <1>4 DEF RInv

(* The fire is out, or the loop goes on.                                   *)
LEMMA BurningInv == RInv /\ Burning => RInv'
<1> SUFFICES ASSUME RInv, Burning PROVE RInv'
  OBVIOUS
<1>1. /\ RTypeOK /\ Deroulement /\ Prises /\ pc = "burning"
      /\ opt' = opt /\ images' = images /\ captures' = captures /\ Periode' = Periode
      /\ Extinct' = Extinct
  BY DEF RInv, Burning, Periode, moteur, Extinct, EnFeu
<1>2. CASE Extinct
  <2>1. RTypeOK' /\ pc' = "rendu" /\ res'.Turns = res.Turns /\ res'.Err = res.Err
        /\ res'.Extinct = TRUE
    BY <1>1, <1>2 DEF RTypeOK, Burning
  <2>2. Deroulement' /\ ResultatJuste'
    BY <1>1, <1>2, <2>1 DEF Deroulement, ResultatJuste
  <2>3. Prises'
    BY <1>1, <2>1 DEF Prises, Pris, APrendre
  <2> QED
    BY <2>1, <2>2, <2>3 DEF RInv
<1>3. CASE ~Extinct
  <2>1. RTypeOK' /\ pc' = "boucle" /\ res' = res
    BY <1>1, <1>3 DEF RTypeOK, Burning
  <2>2. Deroulement' /\ ResultatJuste'
    BY <1>1, <1>3, <2>1 DEF Deroulement, ResultatJuste
  <2>3. Prises'
    BY <1>1, <2>1 DEF Prises, Pris, APrendre
  <2> QED
    BY <2>1, <2>2, <2>3 DEF RInv
<1> QED
  BY <1>2, <1>3

(* A step of Run preserves its invariant.                                  *)
LEMMA RunInv == RInv /\ RNext => RInv'
BY DessineInv, CaptureInv, BoucleInv, EpuiseInv, BurningInv DEF RNext

(* Main leaves Run alone, before it calls it and after it returns.         *)
LEMMA RunStable ==
  ASSUME RInv, pc' = pc, opt' = opt, res' = res, images' = images, captures' = captures,
         pc = "attend" \/ (carte' = carte /\ feu' = feu)
  PROVE  RInv'
<1>1. RTypeOK /\ Deroulement /\ Prises /\ ResultatJuste /\ Periode' = Periode
      /\ (pc = "attend" \/ Extinct' = Extinct)
  BY DEF RInv, Periode, Extinct, EnFeu
<1>2. RTypeOK'
  BY <1>1 DEF RTypeOK
<1>3. Deroulement' /\ ResultatJuste'
  BY <1>1 DEF Deroulement, ResultatJuste
<1>4. Prises'
  BY <1>1 DEF Prises, Pris, APrendre
<1> QED
  BY <1>2, <1>3, <1>4 DEF RInv

(* The command as it starts, and Run called by others.                     *)
LEMMA InitIInv == CliInit => IInv
<1> SUFFICES ASSUME CliInit PROVE IInv
  OBVIOUS
<1>1. CASE /\ flags \in AllFlags /\ etape = "flags" /\ carte = <<>>
           /\ opt = [Turns |-> flags.turns, Render |-> flags.render,
                     Snapshot |-> FALSE, SnapshotEvery |-> 0]
           /\ pc = "attend" /\ images = 0 /\ captures = <<>>
           /\ res = [Turns |-> 0, Extinct |-> FALSE, Err |-> FALSE]
  <2>1. flags \in Flags /\ opt \in Options
    BY <1>1, FlagsAssumption DEF Flags, Options
  <2>2. RInv
    BY <1>1, <2>1, DepartInv
  <2>3. CInv
    BY <1>1, <2>1 DEF CliInit, Depart, CInv, CodeFidele, Avant, Apres
  <2> QED
    BY <2>2, <2>3 DEF IInv
<1>2. CASE RInit /\ flags = <<>> /\ etape = "autre"
  <2>1. RInv
    BY <1>2, OptionsAssumption, DepartInv DEF RInit
  <2>2. CInv
    BY <1>2 DEF CliInit, Depart, CInv, CodeFidele, Avant, Apres
  <2> QED
    BY <2>1, <2>2 DEF IInv
<1> QED
  BY <1>1, <1>2 DEF CliInit

(* The deferred calls run from the last one made to the first.             *)
LEMMA DernierRetire ==
  ASSUME NEW a, NEW b
  PROVE  RemoveAt(<<a, b>>, 2) = <<a>> /\ RemoveAt(<<a>>, 1) = <<>>
<1> DEFINE s == <<a, b>>
           q == SubSeq(s, 1, 1)
<1>1. s \in Seq({a, b}) /\ Len(s) = 2 /\ s[1] = a
  OBVIOUS
<1>2. q \in Seq({a, b}) /\ Len(q) = 1 /\ q[1] = a
  <2> HIDE DEF s
  <2> QED
    BY <1>1, SubSeqProperties
<1>3. q = <<a>>
  <2> HIDE DEF q
  <2> QED
    BY <1>2
<1>4. SubSeq(s, 3, 2) = <<>>
  <2> HIDE DEF s
  <2> QED
    BY <1>1, SubSeqEmpty
<1>5. RemoveAt(s, 2) = q \o SubSeq(s, 3, 2)
  <2> HIDE DEF s
  <2> QED
    BY <1>1 DEF RemoveAt
<1>6. q \o <<>> = <<a>>
  BY <1>3
<1>7. RemoveAt(<<a>>, 1) = <<>>
  BY DEF RemoveAt
<1> QED
  BY <1>4, <1>5, <1>6, <1>7

(* A failure of main past its flags: nothing is complete, nothing printed. *)
LEMMA EchecCInv ==
  ASSUME flags \in Flags, flags' = flags, ~flags.list, flags.impl \in Names,
         etape' = "sorti", code' = 1, affiche' = FALSE,
         cpu' # "complet", mem' # "complet"
  PROVE  CInv'
<1>1. CodeFidele'
  BY DEF CodeFidele
<1> QED
  BY <1>1 DEF CInv, Avant, Apres

(* Main preserves what it promises of its profiles and of its exit.        *)
LEMMA MainCInv ==
  ASSUME IInv, CliNext
  PROVE  CInv'
<1> USE DEF Avant, Apres, CInv, CodeFidele, CpuPose, MemFini, Sort, Suite, Fail, profils
<1>1. CASE Lit
  BY <1>1 DEF Lit, IInv
<1>2. CASE CreeCPU
  <2>1. /\ IInv /\ etape = "cpu" /\ flags \in Flags
        /\ pc' = pc /\ carte' = carte /\ res' = res /\ flags' = flags /\ mem' = mem
        /\ pannes' = pannes
    BY <1>2 DEF CreeCPU, IInv, rvars
  <2>2. CASE flags.cpuProfile /\ cpu' = "vide" /\ etape' = "demarre" /\ differes' = differes
             /\ affiche' = affiche /\ code' = code
    BY <2>1, <2>2 DEF IInv
  <2>3. CASE Fail /\ cpu' = cpu
    BY <2>1, <2>3 DEF IInv
  <2>4. CASE ~flags.cpuProfile /\ etape' = "appel" /\ UNCHANGED <<cpu, differes, affiche, code>>
    BY <2>1, <2>4 DEF IInv
  <2> QED
    BY <1>2, <2>2, <2>3, <2>4 DEF CreeCPU
<1>3. CASE DemarreCPU
  <2>1. /\ IInv /\ etape = "demarre" /\ flags \in Flags
        /\ pc' = pc /\ carte' = carte /\ res' = res /\ flags' = flags /\ mem' = mem
        /\ pannes' = pannes
    BY <1>3 DEF DemarreCPU, IInv, rvars
  <2>2. CASE /\ cpu' = "en cours" /\ differes' = <<"Close", "StopCPUProfile">>
             /\ etape' = "appel" /\ UNCHANGED <<code, affiche>>
    BY <2>1, <2>2 DEF IInv
  <2>3. CASE Fail /\ cpu' = cpu
    BY <2>1, <2>3 DEF IInv
  <2> QED
    BY <1>3, <2>2, <2>3 DEF DemarreCPU
<1>4. CASE Appelle
  BY <1>4 DEF Appelle, IInv
<1>5. CASE Joue
  BY <1>5 DEF Joue, IInv
<1>6. CASE Retour
  <2>1. /\ IInv /\ etape = "run" /\ flags \in Flags /\ pc = "rendu"
        /\ pc' = pc /\ carte' = carte /\ res' = res /\ flags' = flags
        /\ cpu' = cpu /\ mem' = mem /\ pannes' = pannes
    BY <1>6 DEF Retour, IInv, rvars
  <2>0. /\ cpu # "complet" /\ mem = "aucun" /\ affiche = FALSE
        /\ ~flags.list /\ flags.impl \in Names
    BY <2>1 DEF IInv
  <2>2. CASE res.Err /\ Fail
    BY <2>0, <2>1, <2>2, EchecCInv
  <2>3. CASE ~res.Err /\ etape' = "mem" /\ UNCHANGED <<code, affiche, differes>>
    BY <2>1, <2>3 DEF IInv
  <2> QED
    BY <1>6, <2>2, <2>3 DEF Retour
<1>7. CASE CreeMem
  <2>1. /\ IInv /\ etape = "mem" /\ flags \in Flags
        /\ pc' = pc /\ carte' = carte /\ res' = res /\ flags' = flags /\ cpu' = cpu
        /\ pannes' = pannes
    BY <1>7 DEF CreeMem, IInv, rvars
  <2>0. /\ cpu # "complet" /\ mem = "aucun" /\ affiche = FALSE
        /\ ~flags.list /\ flags.impl \in Names
    BY <2>1 DEF IInv
  <2>2. CASE /\ flags.memProfile /\ mem' = "vide" /\ etape' = "ecrit"
             /\ UNCHANGED <<code, affiche, differes>>
    BY <2>1, <2>2 DEF IInv
  <2>3. CASE Fail /\ mem' = mem
    BY <2>0, <2>1, <2>3, EchecCInv
  <2>4. CASE ~flags.memProfile /\ etape' = "affiche" /\ UNCHANGED <<mem, differes, code, affiche>>
    BY <2>1, <2>4 DEF IInv, Etat
  <2> QED
    BY <1>7, <2>2, <2>3, <2>4 DEF CreeMem
<1>8. CASE EcritMem
  <2>1. /\ IInv /\ etape = "ecrit" /\ flags \in Flags /\ flags.memProfile /\ pannes = {}
        /\ pc' = pc /\ carte' = carte /\ res' = res /\ flags' = flags /\ cpu' = cpu
    BY <1>8 DEF EcritMem, IInv, rvars
  <2>0. /\ cpu # "complet" /\ affiche = FALSE
        /\ ~flags.list /\ flags.impl \in Names
    BY <2>1 DEF IInv
  <2>2. ASSUME \/ mem' = "complet" /\ pannes' = pannes
               \/ mem' = "perdu" /\ pannes' = pannes \cup {"WriteTo"},
               etape' = "ferme", UNCHANGED <<code, affiche, differes>>
        PROVE  CInv'
    <3>1. MemFini' /\ pannes' \subseteq AppelsMem
      BY <2>1, <2>2 DEF Etat, AppelsMem
    <3>2. CpuPose'
      BY <2>1, <2>2 DEF AppelsCPU, IInv
    <3> QED
      BY <2>1, <2>2, <3>1, <3>2 DEF IInv
  <2>3. CASE Fail /\ mem' = "perdu"
    BY <2>0, <2>1, <2>3, EchecCInv
  <2>4. CASE Aveugle("WriteTo", mem' = "complet", mem' = "perdu") /\ Suite("ferme")
             /\ UNCHANGED differes
    <3>1. \/ mem' = "complet" /\ pannes' = pannes
          \/ mem' = "perdu" /\ pannes' = pannes \cup {"WriteTo"}
      BY <2>4 DEF Aveugle
    <3>2. etape' = "ferme" /\ UNCHANGED <<code, affiche, differes>>
      BY <2>4
    <3> QED
      BY <2>2, <3>1, <3>2
  <2> QED
    BY <1>8, <2>3, <2>4 DEF EcritMem
<1>9. CASE FermeMem
  <2>1. /\ IInv /\ etape = "ferme" /\ flags \in Flags /\ flags.memProfile /\ MemFini
        /\ pannes \subseteq AppelsMem /\ etape' = "affiche"
        /\ UNCHANGED <<pc, carte, res, flags, cpu, differes, code, affiche>>
    BY <1>9 DEF FermeMem, IInv, rvars
  <2>2. \/ mem' = mem /\ pannes' = pannes
        \/ mem' = "perdu" /\ pannes' = pannes \cup {"mf.Close"}
    BY <1>9 DEF FermeMem, Aveugle
  <2>3. MemFini' /\ pannes' \subseteq AppelsMem
    BY <2>1, <2>2 DEF Etat, AppelsMem
  <2>4. CpuPose'
    BY <2>1, <2>3 DEF AppelsCPU, AppelsMem, IInv
  <2> QED
    BY <2>1, <2>3, <2>4 DEF IInv
<1>10. CASE Affiche
  <2>1. /\ IInv /\ etape = "affiche" /\ flags \in Flags /\ MemFini /\ CpuPose /\ affiche = FALSE
        /\ pannes \subseteq AppelsMem /\ etape' = "differes"
        /\ UNCHANGED <<pc, carte, res, flags, cpu, mem, differes, code>>
    BY <1>10 DEF Affiche, IInv, rvars
  <2>2. \/ flags.quiet /\ affiche' = affiche /\ pannes' = pannes
        \/ ~flags.quiet /\ affiche' = TRUE /\ pannes' = pannes
        \/ ~flags.quiet /\ affiche' = affiche /\ pannes' = pannes \cup {"Printf"}
    BY <1>10 DEF Affiche, Aveugle
  <2>3. affiche' = (~flags.quiet /\ "Printf" \notin pannes')
    BY <2>1, <2>2 DEF AppelsMem
  <2>4. pannes' \cap AppelsCPU = {} /\ pannes' \cap AppelsMem = pannes \cap AppelsMem
    BY <2>1, <2>2 DEF AppelsCPU, AppelsMem
  <2>5. MemFini' /\ CpuPose'
    BY <2>1, <2>4 DEF Etat
  <2> QED
    BY <2>1, <2>3, <2>5 DEF CpuRange, IInv
<1>11. CASE Differe
  <2>1. /\ IInv /\ etape = "differes" /\ flags \in Flags /\ CpuRange /\ differes # <<>> /\ MemFini
        /\ UNCHANGED <<pc, carte, res, flags, etape, mem, affiche, code>>
    BY <1>11 DEF Differe, IInv, rvars
  <2>2. ASSUME NEW appel \in AppelsCPU, pannes' \in {pannes, pannes \cup {appel}}, CpuRange'
        PROVE  CInv'
    <3>1. /\ pannes' \cap AppelsMem = pannes \cap AppelsMem
          /\ "Printf" \in pannes' <=> "Printf" \in pannes
      BY <2>2 DEF AppelsCPU, AppelsMem
    <3>2. MemFini'
      BY <2>1, <3>1 DEF Etat
    <3> QED
      BY <2>1, <2>2, <3>1, <3>2 DEF IInv
  <2>3. CASE differes = <<"Close", "StopCPUProfile">> /\ cpu = "en cours" /\ flags.cpuProfile
             /\ pannes \cap AppelsCPU = {}
    <3>1. Len(differes) = 2 /\ differes[2] = "StopCPUProfile" /\ differes[1] = "Close"
      BY <2>3
    <3>2. \/ cpu' = "complet" /\ pannes' = pannes
          \/ cpu' = "perdu" /\ pannes' = pannes \cup {"StopCPUProfile"}
      BY <1>11, <2>3, <3>1 DEF Differe, Prochain, Aveugle
    <3>3. differes' = <<"Close">>
      BY <1>11, <2>3, <3>1, DernierRetire DEF Differe, Prochain
    <3>4. cpu' = Etat(TRUE, AppelsCPU)'
      BY <2>3, <3>2 DEF Etat, AppelsCPU
    <3>5. CpuRange'
      BY <2>1, <2>3, <3>3, <3>4 DEF CpuRange
    <3> QED
      BY <2>2, <3>2, <3>5 DEF AppelsCPU
  <2>4. CASE differes = <<"Close">> /\ cpu = Etat(TRUE, AppelsCPU) /\ flags.cpuProfile
    <3>1. Len(differes) = 1 /\ differes[1] = "Close" /\ cpu # "en cours"
      BY <2>4 DEF Etat
    <3>2. \/ cpu' = cpu /\ pannes' = pannes
          \/ cpu' = "perdu" /\ pannes' = pannes \cup {"Close"}
      BY <1>11, <2>4, <3>1 DEF Differe, Prochain, Aveugle
    <3>3. differes' = <<>>
      BY <1>11, <2>4, <3>1, DernierRetire DEF Differe, Prochain
    <3>4. cpu' = Etat(TRUE, AppelsCPU)'
      BY <2>4, <3>2 DEF Etat, AppelsCPU
    <3>5. CpuRange'
      BY <2>1, <2>4, <3>3, <3>4 DEF CpuRange
    <3> QED
      BY <2>2, <3>2, <3>5 DEF AppelsCPU
  <2> QED
    BY <2>1, <2>3, <2>4 DEF CpuRange
<1>12. CASE Termine
  <2>1. /\ IInv /\ etape = "differes" /\ differes = <<>> /\ flags \in Flags /\ CpuRange /\ MemFini
        /\ etape' = "sorti" /\ code' = 0
        /\ UNCHANGED <<pc, carte, res, flags, cpu, mem, pannes, affiche>>
    BY <1>12 DEF Termine, IInv, rvars
  <2>2. cpu = Etat(flags.cpuProfile, AppelsCPU)
    BY <2>1 DEF CpuRange, Etat, Flags
  <2>3. CodeFidele'
    BY <2>1, <2>2 DEF IInv, Etat, AppelsCPU, AppelsMem
  <2> QED
    BY <2>1, <2>3
<1> QED
  BY <1>1, <1>2, <1>3, <1>4, <1>5, <1>6, <1>7, <1>8, <1>9, <1>10, <1>11, <1>12 DEF CliNext

(* And whatever main does, Run's own promises stand.                       *)
LEMMA MainRInv ==
  ASSUME IInv, CliNext
  PROVE  RInv'
<1>1. RInv /\ CInv
  BY DEF IInv
<1>2. CASE Lit
  BY <1>1, <1>2, RunStable DEF Lit, CInv, Avant
<1>3. CASE Appelle
  <2>1. RTypeOK' /\ pc = "attend" /\ pc' = "dessine" /\ UNCHANGED <<opt, res, images, captures>>
    BY <1>1, <1>3 DEF Appelle, RInv, RTypeOK, CInv, Avant
  <2>2. Deroulement' /\ ResultatJuste'
    BY <1>1, <2>1 DEF RInv, Deroulement, ResultatJuste
  <2>3. Prises'
    <3>1. Periode' = Periode
      BY <2>1 DEF Periode
    <3> QED
      BY <1>1, <2>1, <3>1 DEF RInv, Prises, Pris, APrendre
  <2> QED
    BY <2>1, <2>2, <2>3 DEF RInv
<1>4. CASE Joue
  BY <1>1, <1>4, RunInv DEF Joue
<1>5. CASE UNCHANGED rvars
  BY <1>1, <1>5, RunStable DEF rvars
<1>6. CreeCPU \/ DemarreCPU \/ Retour \/ CreeMem \/ EcritMem \/ FermeMem \/ Affiche
        \/ Differe \/ Termine
        => UNCHANGED rvars
  BY DEF CreeCPU, DemarreCPU, Retour, CreeMem, EcritMem, FermeMem, Affiche, Differe, Termine
<1> QED
  BY <1>2, <1>3, <1>4, <1>5, <1>6 DEF CliNext

(* The invariant of the command holds for ever.                            *)
LEMMA Invariance == CliSpec => []IInv
<1>1. ASSUME IInv, UNCHANGED cvars PROVE IInv'
  <2>1. RInv'
    BY <1>1, RunStable DEF cvars, rvars, IInv
  <2>2. /\ UNCHANGED <<pc, carte, res, flags, etape, differes, cpu, mem, pannes, affiche, code>>
        /\ CInv
    BY <1>1 DEF cvars, rvars, IInv
  <2>3. CpuPose' = CpuPose /\ CpuRange' = CpuRange /\ MemFini' = MemFini
    BY <2>2 DEF CpuPose, CpuRange, MemFini, Etat
  <2>4. CodeFidele' = CodeFidele
    BY <2>2 DEF CodeFidele, Etat
  <2>5. CInv'
    BY <2>2, <2>3, <2>4 DEF CInv
  <2> QED
    BY <2>1, <2>5 DEF IInv
<1>2. IInv /\ [CliNext]_cvars => IInv'
  BY <1>1, MainCInv, MainRInv DEF IInv
<1> QED
  BY <1>2, InitIInv, PTL DEF CliSpec

(* Whoever calls Run, with whatever options and map, its Result tells why  *)
(* it stopped.                                                             *)
THEOREM ResultatsJustes == CliSpec => []ResultatJuste
<1>1. IInv => ResultatJuste
  BY DEF IInv, RInv
<1> QED
  BY <1>1, Invariance, PTL

(* Snapshots are taken at every multiple of the period and at no other     *)
(* turn, images at every turn.                                             *)
THEOREM ToutEstBienPris == CliSpec => []ToutEstPris
<1>1. IInv => ToutEstPris
  <2> SUFFICES ASSUME IInv PROVE ToutEstPris
    OBVIOUS
  <2>1. RTypeOK /\ Prises
    BY DEF IInv, RInv
  <2>2. ASSUME opt.Snapshot, pc = "rendu", ~res.Err
        PROVE  Len(captures) = res.Turns \div Periode + 1
    <3>1. Len(captures) \in Nat /\ Periode \in Nat \ {0} /\ res.Turns \in Nat
      BY <2>1, BornesEntieres DEF RTypeOK
    <3>2. /\ (Len(captures) - 1) * Periode <= res.Turns
          /\ res.Turns < Len(captures) * Periode
      BY <2>1, <2>2 DEF Prises, Pris
    <3> QED
      BY <3>1, <3>2, Quotient
  <2>3. \A n \in DOMAIN captures : captures[n] = (n - 1) * Periode
    BY <2>1 DEF Prises
  <2>4. opt.Render /\ pc = "rendu" /\ ~res.Err => images = res.Turns + 1
    BY <2>1 DEF Prises, Pris
  <2> QED
    BY <2>2, <2>3, <2>4 DEF ToutEstPris
<1> QED
  BY <1>1, Invariance, PTL

(* Whatever fails, the exit code 0 follows a map played to its end, with   *)
(* the profiles complete and the results printed but for the failures main *)
(* is not told of or does not look at; and 1 leaves no complete profile.   *)
THEOREM CodeToujoursFidele == CliSpec => []CodeFidele
<1>1. IInv => CodeFidele
  BY DEF IInv, CInv
<1> QED
  BY <1>1, Invariance, PTL

(* Past the first, no turn is computed on a fire that is out.              *)
THEOREM AucunTourInutile == CliSpec => PasDeTourInutile
<1>1. IInv /\ [CliNext]_cvars =>
        [(res'.Turns # res.Turns /\ res.Turns > 0) => ~Extinct]_rvars
  <2> SUFFICES ASSUME IInv, CliNext, res'.Turns # res.Turns, res.Turns > 0
               PROVE  ~Extinct
    BY DEF cvars
  <2>1. RTypeOK /\ Deroulement
    BY DEF IInv, RInv
  <2>2. CASE Boucle
    BY <2>1, <2>2 DEF Deroulement, Boucle
  <2>3. ~Boucle => res'.Turns = res.Turns
    BY <2>1 DEF CliNext, Lit, CreeCPU, DemarreCPU, Appelle, Joue, Retour, CreeMem, EcritMem,
                FermeMem, Affiche, Differe, Termine, rvars, RNext, Dessine, Capture, Epuise,
                Burning, Echoue, RTypeOK
  <2> QED
    BY <2>2, <2>3
<1> QED
  BY <1>1, Invariance, PTL DEF CliSpec, PasDeTourInutile
=============================================================================
