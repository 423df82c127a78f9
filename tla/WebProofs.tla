----------------------------- MODULE WebProofs ------------------------------
(***************************************************************************)
(* What the mutex of the server and the script of the page guarantee, for  *)
(* any number of tabs, of requests and of maps.                            *)
(***************************************************************************)
EXTENDS Web, FiniteSetTheorems, TLAPS

(* The values the variables may hold.                                      *)
Etapes == {"verrou", "reset", "moteur", "decor", "step", "turn", "inconnue",
           "state", "burning", "repondue", "finie"}
Fires == [carte : Cartes \cup {Aucune}, tours : Nat]
Requete ==
  [action : Actions, etape : Etapes, refus : BOOLEAN, terrain : Cartes \cup {Aucune},
   fire : Fires, turn : Nat, extinct : BOOLEAN]
Page ==
  [terrain : Cartes \cup {Aucune}, fire : Cartes \cup {Aucune}, turn : Nat,
   running : BOOLEAN, extinct : BOOLEAN, timer : BOOLEAN, attend : 0 .. MaxRequetes]

TypeOK ==
  /\ mu \in 0 .. MaxRequetes /\ envoyees \in 0 .. MaxRequetes
  /\ carte \in Cartes /\ tires \in Nat /\ turn \in Nat
  /\ engine \in [carte : Cartes, tours : Nat]
  /\ requetes \in [1 .. MaxRequetes -> Requete]
  /\ page \in [Tabs -> Page]

(* The request that holds the mutex is the only one between Lock and       *)
(* Unlock, and one that is not sent yet has done nothing.                  *)
Exclusion(n) ==
  /\ mu = n <=> requetes[n].etape \notin {"verrou", "finie"}
  /\ n > envoyees => requetes[n].etape = "verrou"

(* What a request has gathered at each step of its handler.                *)
Recolte(n) ==
  LET r == requetes[n] IN
  /\ r.etape \in {"reset", "step", "inconnue"} => r.action = r.etape
  /\ r.refus => r.etape \in {"repondue", "finie"}
  /\ r.etape \in {"verrou", "reset", "moteur", "decor", "step", "turn", "inconnue"}
       => r.terrain = Aucune
  /\ r.etape \in {"state", "burning"} => r.terrain \in {Aucune, engine.carte}
  /\ r.etape = "burning" => r.fire = engine
  /\ r.etape \in {"repondue", "finie"} /\ ~r.refus =>
       /\ r.fire.carte \in Cartes
       /\ r.terrain \in {Aucune, r.fire.carte}
       /\ r.turn = r.fire.tours
       /\ r.extinct <=> r.fire.tours >= Duree[r.fire.carte]

(* The resets that have drawn their map: each drew one, and there is a map *)
(* for every reset that was sent.                                          *)
Tirees == {n \in Resets : /\ requetes[n].etape \notin {"verrou", "reset"}
                          /\ ~requetes[n].refus}
Tirage ==
  /\ carte = tires
  /\ tires = Cardinality(Tirees) + 1
  /\ \A k \in 1 .. Cardinality(Resets) + 1 : k \in Cartes

(* Where the server is behind itself: the engine of the last map comes     *)
(* after the map, the turn after the step.                                 *)
A(etape) == mu # Aucune /\ requetes[mu].etape = etape
Serveuse ==
  /\ engine.tours <= Duree[engine.carte]
  /\ ~A("moteur") => engine.carte = carte
  /\ engine.tours = IF A("turn") THEN turn + 1 ELSE turn

IInv ==
  /\ TypeOK
  /\ \A n \in 1 .. MaxRequetes : Exclusion(n)
  /\ \A n \in 1 .. MaxRequetes : Recolte(n)
  /\ Tirage /\ Serveuse /\ UnSeulMoteur

-----------------------------------------------------------------------------
(* The sets of requests are finite, those that drew a map among them.      *)
LEMMA Finis ==
  ASSUME TypeOK
  PROVE  /\ IsFiniteSet(Resets) /\ IsFiniteSet(Tirees)
         /\ Cardinality(Resets) \in Nat /\ Cardinality(Tirees) \in Nat
         /\ Cardinality(Tirees) <= Cardinality(Resets)
<1>1. IsFiniteSet(1 .. envoyees)
  BY FS_Interval DEF TypeOK
<1>2. Resets \subseteq 1 .. envoyees /\ Tirees \subseteq Resets
  BY DEF Resets, Tirees
<1>3. IsFiniteSet(Resets)
  BY <1>1, <1>2, FS_Subset
<1> QED
  BY <1>2, <1>3, FS_Subset, FS_CardinalityType

(* The server begins with its first map drawn and nothing to serve.        *)
LEMMA InitIInv == Init => IInv
<1> SUFFICES ASSUME Init PROVE IInv
  OBVIOUS
<1>1. TypeOK
  BY WebAssumption DEF Init, TypeOK, Requete, Fires, Page, PageVide, Nouvelle,
                       Actions, Etapes, Aucune
<1>2. \A n \in 1 .. MaxRequetes : Exclusion(n) /\ Recolte(n)
  BY DEF Init, Exclusion, Recolte, Nouvelle, Aucune
<1>3. Resets = {} /\ Tirees = {}
  BY DEF Init, Resets, Tirees
<1>4. Tirage
  BY <1>3, FS_EmptySet, WebAssumption DEF Init, Tirage
<1>5. Serveuse
  BY WebAssumption DEF Init, Serveuse, A, Aucune
<1>6. UnSeulMoteur
  BY DEF Init, UnSeulMoteur, PageVide, Busy, Aucune
<1> QED
  BY <1>1, <1>2, <1>4, <1>5, <1>6 DEF IInv

(* A step of the holder of the mutex disturbs no other request: none is    *)
(* in the section.                                                         *)
LEMMA Autres ==
  ASSUME IInv, NEW n \in 1 .. MaxRequetes, NEW m \in 1 .. MaxRequetes, m # n,
         mu \in {Aucune, n}, mu' \in {Aucune, n}, envoyees' = envoyees,
         requetes'[m] = requetes[m]
  PROVE  Exclusion(m)' /\ Recolte(m)'
<1>1. Exclusion(m) /\ Recolte(m) /\ mu # m /\ mu' # m
  BY DEF IInv, Aucune
<1>2. requetes[m].etape \in {"verrou", "finie"}
  BY <1>1 DEF Exclusion
<1>3. Exclusion(m)'
  BY <1>1, <1>2 DEF Exclusion
<1>4. Recolte(m)'
  BY <1>1, <1>2 DEF Recolte
<1> QED
  BY <1>3, <1>4

(* A request that moves on to another step of its handler, and nothing     *)
(* else of it changes.                                                     *)
Bouge(n, de, vers) ==
  /\ n \in 1 .. envoyees /\ requetes[n].etape = de
  /\ requetes' \in [1 .. MaxRequetes -> Requete]
  /\ requetes'[n].etape = vers
  /\ requetes'[n].action = requetes[n].action
  /\ requetes'[n].refus = requetes[n].refus
  /\ requetes'[n].terrain = requetes[n].terrain
  /\ requetes'[n].fire = requetes[n].fire
  /\ requetes'[n].turn = requetes[n].turn
  /\ requetes'[n].extinct = requetes[n].extinct
  /\ \A m \in 1 .. MaxRequetes : m # n => requetes'[m] = requetes[m]
  /\ envoyees' = envoyees /\ page' = page

(* Avance is such a step.                                                  *)
LEMMA UneEtape ==
  ASSUME TypeOK, NEW n \in 1 .. MaxRequetes, NEW de, NEW vers \in Etapes,
         Avance(n, de, vers)
  PROVE  Bouge(n, de, vers)
<1>1. requetes[n] \in Requete
  BY DEF TypeOK
<1>2. n \in 1 .. envoyees /\ requetes[n].etape = de
  BY DEF Avance, EnCours
<1>3. requetes' = [requetes EXCEPT ![n].etape = vers]
  BY DEF Avance
<1>4. requetes' = [requetes EXCEPT ![n] = [requetes[n] EXCEPT !.etape = vers]]
  BY <1>3
<1>5. [requetes[n] EXCEPT !.etape = vers] \in Requete
  BY <1>1 DEF Requete
<1> QED
  BY <1>1, <1>2, <1>4, <1>5 DEF Avance, TypeOK, Requete, Bouge

(* A step that draws no map leaves the count of those drawn.               *)
LEMMA TirageStable ==
  ASSUME IInv, NEW n \in 1 .. MaxRequetes,
         envoyees' = envoyees, tires' = tires, carte' = carte,
         \A m \in 1 .. MaxRequetes : m # n => requetes'[m] = requetes[m],
         requetes'[n].action = requetes[n].action,
         requetes[n].action = "reset" =>
           (/\ requetes'[n].etape \notin {"verrou", "reset"}
            /\ ~requetes'[n].refus)
             <=> (/\ requetes[n].etape \notin {"verrou", "reset"}
                  /\ ~requetes[n].refus)
  PROVE  Tirage'
<1>1. \A m \in 1 .. envoyees : m \in 1 .. MaxRequetes
  BY WebAssumption DEF IInv, TypeOK
<1>2. Resets' = Resets
  BY <1>1 DEF Resets
<1>3. Tirees' = Tirees
  BY <1>1, <1>2 DEF Tirees, Resets
<1> QED
  BY <1>2, <1>3 DEF IInv, Tirage

(* The step of the handler that draws a map: one more reset has drawn its  *)
(* own, and the map it draws exists because one was left for it when the   *)
(* reset was sent.                                                         *)
LEMMA TireUneCarte ==
  ASSUME IInv, NEW n \in 1 .. MaxRequetes, ResetCarte(n)
  PROVE  tires' \in Cartes /\ Tirage'
<1>1. TypeOK /\ Recolte(n) /\ Tirage
  BY DEF IInv
<1>2. /\ requetes[n].etape = "reset" /\ n \in 1 .. envoyees
      /\ tires' = tires + 1 /\ carte' = tires' /\ envoyees' = envoyees
      /\ requetes' = [requetes EXCEPT ![n].etape = "moteur"]
  BY DEF ResetCarte, Avance, EnCours
<1>3. /\ requetes'[n] = [requetes[n] EXCEPT !.etape = "moteur"]
      /\ \A m \in 1 .. MaxRequetes : m # n => requetes'[m] = requetes[m]
  BY <1>1, <1>2 DEF TypeOK
<1>4. /\ requetes[n].action = "reset" /\ requetes[n].refus = FALSE
      /\ requetes'[n].action = "reset" /\ requetes'[n].refus = FALSE
      /\ requetes'[n].etape = "moteur"
  <2>1. requetes[n] \in Requete
    BY <1>1 DEF TypeOK
  <2> QED
    BY <1>1, <1>2, <1>3, <2>1 DEF Recolte, Requete
<1>5. n \in Resets /\ n \notin Tirees
  BY <1>2, <1>4 DEF Resets, Tirees
<1>6. Resets' = Resets /\ Tirees' = Tirees \cup {n}
  <2>1. \A m \in 1 .. envoyees : m \in 1 .. MaxRequetes
    BY <1>1, WebAssumption DEF TypeOK
  <2>2. Resets' = Resets
    BY <1>2, <1>3, <1>4, <2>1 DEF Resets
  <2> QED
    BY <1>2, <1>3, <1>4, <1>5, <2>1, <2>2 DEF Tirees, Resets
<1>7. Cardinality(Tirees') = Cardinality(Tirees) + 1
  BY <1>1, <1>5, <1>6, Finis, FS_AddElement
<1>8. Cardinality(Tirees') <= Cardinality(Resets) /\ Cardinality(Resets) \in Nat
      /\ Cardinality(Tirees) \in Nat
  <2>1. IsFiniteSet(Resets) /\ Tirees' \subseteq Resets
    BY <1>1, <1>5, <1>6, Finis DEF Tirees
  <2> QED
    BY <1>1, <2>1, Finis, FS_Subset
<1> QED
  BY <1>1, <1>2, <1>6, <1>7, <1>8 DEF Tirage

(* Each step of the handler preserves the invariant.                       *)
LEMMA ServeurIInv ==
  ASSUME IInv, NEW n \in 1 .. MaxRequetes, Serveur(n)
  PROVE  IInv'
<1> DEFINE Bilan == /\ TypeOK' /\ Exclusion(n)' /\ Recolte(n)' /\ Tirage' /\ Serveuse'
                    /\ mu \in {Aucune, n} /\ mu' \in {Aucune, n}
                    /\ envoyees' = envoyees /\ page' = page
                    /\ \A m \in 1 .. MaxRequetes : m # n => requetes'[m] = requetes[m]
<1>0. /\ TypeOK /\ Exclusion(n) /\ Recolte(n) /\ Tirage /\ Serveuse /\ UnSeulMoteur
      /\ requetes[n] \in Requete /\ n # Aucune /\ envoyees \in Nat
  BY DEF IInv, TypeOK, Aucune
<1>1. ASSUME Lock(n) PROVE Bilan
  <2>1. mu = Aucune /\ mu' = n /\ Avance(n, "verrou", requetes[n].action)
        /\ UNCHANGED <<carte, engine, turn, tires>> /\ requetes[n].action \in Etapes
        /\ requetes[n].action \in Actions
    BY <1>0, <1>1 DEF Lock, Requete, Actions, Etapes
  <2>2. Bouge(n, "verrou", requetes[n].action)
    BY <1>0, <2>1, UneEtape
  <2>3. Exclusion(n)'
    BY <1>0, <2>1, <2>2 DEF Exclusion, Actions, Bouge
  <2>4. Recolte(n)'
    BY <1>0, <2>1, <2>2 DEF Recolte, Actions, Bouge
  <2>5. Tirage'
    BY <1>0, <2>1, <2>2, TirageStable DEF Actions, Bouge
  <2>6. Serveuse'
    BY <1>0, <2>1, <2>2 DEF Serveuse, A, Actions, Bouge
  <2>7. TypeOK'
    BY <1>0, <2>1, <2>2 DEF TypeOK, Bouge
  <2> QED
    BY <2>1, <2>2, <2>3, <2>4, <2>5, <2>6, <2>7 DEF Bouge
<1>2. ASSUME ResetCarte(n) PROVE Bilan
  <2>1. /\ tires' = tires + 1 /\ carte' = tires' /\ tires' \in Cartes
        /\ UNCHANGED <<mu, engine, turn>>
    BY <1>0, <1>2, TireUneCarte DEF ResetCarte, Avance
  <2>2. Bouge(n, "reset", "moteur")
    BY <1>0, <1>2, UneEtape DEF ResetCarte, Etapes
  <2>3. mu = n
    BY <1>0, <2>2 DEF Exclusion, Bouge
  <2>4. Exclusion(n)'
    BY <1>0, <2>1, <2>2, <2>3 DEF Exclusion, Bouge
  <2>5. Recolte(n)'
    BY <1>0, <2>1, <2>2, <2>3 DEF Recolte, Bouge, Serveuse, A
  <2>6. Tirage'
    BY <1>2, TireUneCarte
  <2>7. Serveuse'
    BY <1>0, <2>1, <2>2, <2>3 DEF Serveuse, A, Bouge, TypeOK
  <2>8. TypeOK'
    BY <1>0, <2>1, <2>2, WebAssumption DEF TypeOK, Bouge
  <2> QED
    BY <2>1, <2>2, <2>3, <2>4, <2>5, <2>6, <2>7, <2>8 DEF Bouge
<1>3. ASSUME ResetMoteur(n) PROVE Bilan
  <2>1. /\ engine' = [carte |-> carte, tours |-> 0] /\ turn' = 0
        /\ UNCHANGED <<mu, carte, tires>>
    BY <1>0, <1>3 DEF ResetMoteur, Avance
  <2>2. Bouge(n, "moteur", "decor")
    BY <1>0, <1>3, UneEtape DEF ResetMoteur, Etapes
  <2>3. mu = n
    BY <1>0, <2>2 DEF Exclusion, Bouge
  <2>4. Exclusion(n)'
    BY <1>0, <2>1, <2>2, <2>3 DEF Exclusion, Bouge
  <2>5. Recolte(n)'
    BY <1>0, <2>1, <2>2, <2>3 DEF Recolte, Bouge, Serveuse, A
  <2>6. Tirage'
    BY <1>0, <2>1, <2>2, TirageStable DEF Bouge, Recolte
  <2>7. Serveuse'
    BY <1>0, <2>1, <2>2, <2>3, WebAssumption DEF Serveuse, A, Bouge, TypeOK, Cartes
  <2>8. TypeOK'
    BY <1>0, <2>1, <2>2, WebAssumption DEF TypeOK, Bouge
  <2> QED
    BY <2>1, <2>2, <2>3, <2>4, <2>5, <2>6, <2>7, <2>8 DEF Bouge
<1>4. ASSUME Step(n) PROVE Bilan
  <2>1. /\ Burning /\ UNCHANGED <<mu, carte, turn, tires>>
        /\ engine'.carte = engine.carte /\ engine'.tours = engine.tours + 1
        /\ engine' \in [carte : Cartes, tours : Nat]
    BY <1>0, <1>4 DEF Step, Avance, TypeOK
  <2>2. Bouge(n, "step", "turn")
    BY <1>0, <1>4, UneEtape DEF Step, Etapes
  <2>3. mu = n
    BY <1>0, <2>2 DEF Exclusion, Bouge
  <2>4. Exclusion(n)'
    BY <1>0, <2>1, <2>2, <2>3 DEF Exclusion, Bouge
  <2>5. Recolte(n)'
    BY <1>0, <2>1, <2>2, <2>3 DEF Recolte, Bouge, Serveuse, A
  <2>6. Tirage'
    BY <1>0, <2>1, <2>2, TirageStable DEF Bouge, Recolte
  <2>7. Serveuse'
    BY <1>0, <2>1, <2>2, <2>3, WebAssumption DEF Serveuse, A, Bouge, TypeOK, Burning, Cartes
  <2>8. TypeOK'
    BY <1>0, <2>1, <2>2, WebAssumption DEF TypeOK, Bouge
  <2> QED
    BY <2>1, <2>2, <2>3, <2>4, <2>5, <2>6, <2>7, <2>8 DEF Bouge
<1>5. ASSUME StepTurn(n) PROVE Bilan
  <2>1. turn' = turn + 1 /\ UNCHANGED <<mu, carte, engine, tires>>
    BY <1>0, <1>5 DEF StepTurn, Avance
  <2>2. Bouge(n, "turn", "state")
    BY <1>0, <1>5, UneEtape DEF StepTurn, Etapes
  <2>3. mu = n
    BY <1>0, <2>2 DEF Exclusion, Bouge
  <2>4. Exclusion(n)'
    BY <1>0, <2>1, <2>2, <2>3 DEF Exclusion, Bouge
  <2>5. Recolte(n)'
    BY <1>0, <2>1, <2>2, <2>3 DEF Recolte, Bouge, Serveuse, A
  <2>6. Tirage'
    BY <1>0, <2>1, <2>2, TirageStable DEF Bouge, Recolte
  <2>7. Serveuse'
    BY <1>0, <2>1, <2>2, <2>3 DEF Serveuse, A, Bouge, TypeOK
  <2>8. TypeOK'
    BY <1>0, <2>1, <2>2, WebAssumption DEF TypeOK, Bouge
  <2> QED
    BY <2>1, <2>2, <2>3, <2>4, <2>5, <2>6, <2>7, <2>8 DEF Bouge
<1>6. ASSUME StepRien(n) PROVE Bilan
  <2>1. UNCHANGED <<mu, carte, engine, turn, tires>>
    BY <1>0, <1>6 DEF StepRien, svars
  <2>2. Bouge(n, "step", "state")
    BY <1>0, <1>6, UneEtape DEF StepRien, Etapes
  <2>3. mu = n
    BY <1>0, <2>2 DEF Exclusion, Bouge
  <2>4. Exclusion(n)'
    BY <1>0, <2>1, <2>2, <2>3 DEF Exclusion, Bouge
  <2>5. Recolte(n)'
    BY <1>0, <2>1, <2>2, <2>3 DEF Recolte, Bouge, Serveuse, A
  <2>6. Tirage'
    BY <1>0, <2>1, <2>2, TirageStable DEF Bouge, Recolte
  <2>7. Serveuse'
    BY <1>0, <2>1, <2>2, <2>3 DEF Serveuse, A, Bouge, TypeOK
  <2>8. TypeOK'
    BY <1>0, <2>1, <2>2, WebAssumption DEF TypeOK, Bouge
  <2> QED
    BY <2>1, <2>2, <2>3, <2>4, <2>5, <2>6, <2>7, <2>8 DEF Bouge
<1>7. ASSUME Unlock(n) PROVE Bilan
  <2>1. mu' = Aucune /\ UNCHANGED <<carte, engine, turn, tires>>
    BY <1>0, <1>7 DEF Unlock, Avance
  <2>2. Bouge(n, "repondue", "finie")
    BY <1>0, <1>7, UneEtape DEF Unlock, Etapes
  <2>3. mu = n
    BY <1>0, <2>2 DEF Exclusion, Bouge
  <2>4. Exclusion(n)'
    BY <1>0, <2>1, <2>2, <2>3 DEF Exclusion, Bouge
  <2>5. Recolte(n)'
    BY <1>0, <2>1, <2>2, <2>3 DEF Recolte, Bouge, Serveuse, A
  <2>6. Tirage'
    BY <1>0, <2>1, <2>2, TirageStable DEF Bouge, Recolte
  <2>7. Serveuse'
    BY <1>0, <2>1, <2>2, <2>3 DEF Serveuse, A, Bouge, TypeOK
  <2>8. TypeOK'
    BY <1>0, <2>1, <2>2, WebAssumption DEF TypeOK, Bouge, Aucune
  <2> QED
    BY <2>1, <2>2, <2>3, <2>4, <2>5, <2>6, <2>7, <2>8 DEF Bouge
<1>8. ASSUME Decor(n) PROVE Bilan
  <2> DEFINE s == [requetes[n] EXCEPT !.etape = "state", !.terrain = carte]
  <2>1. /\ n \in 1 .. envoyees /\ requetes[n].etape = "decor"
        /\ envoyees' = envoyees /\ page' = page
        /\ mu' = mu /\ carte' = carte /\ engine' = engine /\ turn' = turn /\ tires' = tires
        /\ requetes' = [requetes EXCEPT ![n] = s]
    BY <1>8 DEF Decor, EnCours, svars
  <2>2. /\ s \in Requete /\ s.etape = "state"
        /\ s.terrain = carte
        /\ s.action = requetes[n].action /\ s.refus = requetes[n].refus /\ s.fire = requetes[n].fire
        /\ s.turn = requetes[n].turn /\ s.extinct = requetes[n].extinct
    BY <1>0 DEF Requete, Etapes, TypeOK
  <2>3. /\ requetes'[n] = s /\ requetes' \in [1 .. MaxRequetes -> Requete]
        /\ \A m \in 1 .. MaxRequetes : m # n => requetes'[m] = requetes[m]
    BY <1>0, <2>1, <2>2 DEF TypeOK
  <2> HIDE DEF s
  <2>4. mu = n
    BY <1>0, <2>1 DEF Exclusion
  <2>5. Exclusion(n)'
    BY <1>0, <2>1, <2>2, <2>3, <2>4 DEF Exclusion
  <2>6. Recolte(n)'
    BY <1>0, <2>1, <2>2, <2>3, <2>4, WebAssumption
       DEF Recolte, Serveuse, A, Burning, TypeOK, Cartes
  <2>7. Tirage'
    BY <1>0, <2>1, <2>2, <2>3, TirageStable DEF Recolte
  <2>8. Serveuse'
    BY <1>0, <2>1, <2>2, <2>3, <2>4 DEF Serveuse, A
  <2>9. TypeOK'
    BY <1>0, <2>1, <2>3 DEF TypeOK
  <2> QED
    BY <2>1, <2>3, <2>4, <2>5, <2>6, <2>7, <2>8, <2>9
<1>9. ASSUME State(n) PROVE Bilan
  <2> DEFINE s == [requetes[n] EXCEPT !.etape = "burning", !.fire = engine]
  <2>1. /\ n \in 1 .. envoyees /\ requetes[n].etape = "state"
        /\ envoyees' = envoyees /\ page' = page
        /\ mu' = mu /\ carte' = carte /\ engine' = engine /\ turn' = turn /\ tires' = tires
        /\ requetes' = [requetes EXCEPT ![n] = s]
    BY <1>9 DEF State, EnCours, svars
  <2>2. /\ s \in Requete /\ s.etape = "burning"
        /\ s.fire = engine
        /\ s.action = requetes[n].action /\ s.refus = requetes[n].refus /\ s.terrain = requetes[n].terrain
        /\ s.turn = requetes[n].turn /\ s.extinct = requetes[n].extinct
    BY <1>0 DEF Requete, Etapes, TypeOK, Fires
  <2>3. /\ requetes'[n] = s /\ requetes' \in [1 .. MaxRequetes -> Requete]
        /\ \A m \in 1 .. MaxRequetes : m # n => requetes'[m] = requetes[m]
    BY <1>0, <2>1, <2>2 DEF TypeOK
  <2> HIDE DEF s
  <2>4. mu = n
    BY <1>0, <2>1 DEF Exclusion
  <2>5. Exclusion(n)'
    BY <1>0, <2>1, <2>2, <2>3, <2>4 DEF Exclusion
  <2>6. Recolte(n)'
    BY <1>0, <2>1, <2>2, <2>3, <2>4, WebAssumption
       DEF Recolte, Serveuse, A, Burning, TypeOK, Cartes
  <2>7. Tirage'
    BY <1>0, <2>1, <2>2, <2>3, TirageStable DEF Recolte
  <2>8. Serveuse'
    BY <1>0, <2>1, <2>2, <2>3, <2>4 DEF Serveuse, A
  <2>9. TypeOK'
    BY <1>0, <2>1, <2>3 DEF TypeOK
  <2> QED
    BY <2>1, <2>3, <2>4, <2>5, <2>6, <2>7, <2>8, <2>9
<1>10. ASSUME Repond(n) PROVE Bilan
  <2> DEFINE s == [requetes[n] EXCEPT !.etape = "repondue", !.turn = turn, !.extinct = ~Burning]
  <2>1. /\ n \in 1 .. envoyees /\ requetes[n].etape = "burning"
        /\ envoyees' = envoyees /\ page' = page
        /\ mu' = mu /\ carte' = carte /\ engine' = engine /\ turn' = turn /\ tires' = tires
        /\ requetes' = [requetes EXCEPT ![n] = s]
    BY <1>10 DEF Repond, EnCours, svars
  <2>2. /\ s \in Requete /\ s.etape = "repondue"
        /\ s.turn = turn /\ s.extinct = ~Burning
        /\ s.action = requetes[n].action /\ s.refus = requetes[n].refus /\ s.terrain = requetes[n].terrain
        /\ s.fire = requetes[n].fire
    BY <1>0 DEF Requete, Etapes, TypeOK, Burning
  <2>3. /\ requetes'[n] = s /\ requetes' \in [1 .. MaxRequetes -> Requete]
        /\ \A m \in 1 .. MaxRequetes : m # n => requetes'[m] = requetes[m]
    BY <1>0, <2>1, <2>2 DEF TypeOK
  <2> HIDE DEF s
  <2>4. mu = n
    BY <1>0, <2>1 DEF Exclusion
  <2>5. Exclusion(n)'
    BY <1>0, <2>1, <2>2, <2>3, <2>4 DEF Exclusion
  <2>6. Recolte(n)'
    <3>1. /\ requetes[n].fire = engine /\ requetes[n].terrain \in {Aucune, engine.carte}
          /\ turn = engine.tours /\ requetes[n].refus = FALSE
      BY <1>0, <2>1, <2>4 DEF Recolte, Serveuse, A, Requete
    <3>2. engine.carte \in Cartes /\ engine.tours \in Nat /\ Duree[engine.carte] \in Nat
      BY <1>0, WebAssumption DEF TypeOK
    <3>3. s.extinct <=> engine.tours >= Duree[engine.carte]
      <4>1. Burning <=> ~(engine.tours >= Duree[engine.carte])
        BY <3>2 DEF Burning
      <4> QED
        BY <2>2, <4>1, Zenon
    <3> QED
      BY <2>2, <2>3, <3>1, <3>2, <3>3 DEF Recolte
  <2>7. Tirage'
    BY <1>0, <2>1, <2>2, <2>3, TirageStable DEF Recolte
  <2>8. Serveuse'
    BY <1>0, <2>1, <2>2, <2>3, <2>4 DEF Serveuse, A
  <2>9. TypeOK'
    BY <1>0, <2>1, <2>3 DEF TypeOK
  <2> QED
    BY <2>1, <2>3, <2>4, <2>5, <2>6, <2>7, <2>8, <2>9
<1>11. ASSUME Refuse(n) PROVE Bilan
  <2> DEFINE s == [requetes[n] EXCEPT !.etape = "repondue", !.refus = TRUE]
  <2>1. /\ n \in 1 .. envoyees /\ requetes[n].etape = "inconnue"
        /\ envoyees' = envoyees /\ page' = page
        /\ mu' = mu /\ carte' = carte /\ engine' = engine /\ turn' = turn /\ tires' = tires
        /\ requetes' = [requetes EXCEPT ![n] = s]
    BY <1>11 DEF Refuse, EnCours, svars
  <2>2. /\ s \in Requete /\ s.etape = "repondue"
        /\ s.refus = TRUE
        /\ s.action = requetes[n].action /\ s.terrain = requetes[n].terrain /\ s.fire = requetes[n].fire
        /\ s.turn = requetes[n].turn /\ s.extinct = requetes[n].extinct
    BY <1>0 DEF Requete, Etapes, TypeOK
  <2>3. /\ requetes'[n] = s /\ requetes' \in [1 .. MaxRequetes -> Requete]
        /\ \A m \in 1 .. MaxRequetes : m # n => requetes'[m] = requetes[m]
    BY <1>0, <2>1, <2>2 DEF TypeOK
  <2> HIDE DEF s
  <2>4. mu = n
    BY <1>0, <2>1 DEF Exclusion
  <2>5. Exclusion(n)'
    BY <1>0, <2>1, <2>2, <2>3, <2>4 DEF Exclusion
  <2>6. Recolte(n)'
    BY <1>0, <2>1, <2>2, <2>3, <2>4, WebAssumption
       DEF Recolte, Serveuse, A, Burning, TypeOK, Cartes
  <2>7. Tirage'
    BY <1>0, <2>1, <2>2, <2>3, TirageStable DEF Recolte
  <2>8. Serveuse'
    BY <1>0, <2>1, <2>2, <2>3, <2>4 DEF Serveuse, A
  <2>9. TypeOK'
    BY <1>0, <2>1, <2>3 DEF TypeOK
  <2> QED
    BY <2>1, <2>3, <2>4, <2>5, <2>6, <2>7, <2>8, <2>9
<1>12. ASSUME Bilan PROVE IInv'
  <2>1. ASSUME NEW m \in 1 .. MaxRequetes PROVE Exclusion(m)' /\ Recolte(m)'
    BY <1>12, Autres
  <2>2. UnSeulMoteur'
    BY <1>0, <1>12 DEF UnSeulMoteur, Busy
  <2> QED
    BY <1>12, <2>1, <2>2 DEF IInv
<1> HIDE DEF Bilan
<1> QED
  BY <1>1, <1>2, <1>3, <1>4, <1>5, <1>6, <1>7, <1>8, <1>9, <1>10, <1>11, <1>12
     DEF Serveur

(* A request refused before the mutex leaves the section as it is.         *)
LEMMA InvalideIInv ==
  ASSUME IInv, NEW n \in 1 .. MaxRequetes, Invalide(n)
  PROVE  IInv'
<1> DEFINE s == [requetes[n] EXCEPT !.etape = "finie", !.refus = TRUE]
<1>1. /\ TypeOK /\ Exclusion(n) /\ Recolte(n) /\ Tirage /\ Serveuse /\ UnSeulMoteur
      /\ requetes[n] \in Requete /\ envoyees \in Nat
  BY DEF IInv, TypeOK
<1>2. /\ n \in 1 .. envoyees /\ requetes[n].etape = "verrou"
      /\ envoyees' = envoyees /\ page' = page
      /\ mu' = mu /\ carte' = carte /\ engine' = engine /\ turn' = turn /\ tires' = tires
      /\ requetes' = [requetes EXCEPT ![n] = s]
  BY DEF Invalide, EnCours, svars
<1>3. s \in Requete /\ s.etape = "finie" /\ s.refus = TRUE /\ s.action = requetes[n].action
  BY <1>1 DEF Requete, Etapes
<1>4. /\ requetes'[n] = s /\ requetes' \in [1 .. MaxRequetes -> Requete]
      /\ \A m \in 1 .. MaxRequetes : m # n => requetes'[m] = requetes[m]
  BY <1>1, <1>2, <1>3 DEF TypeOK
<1> HIDE DEF s
<1>5. TypeOK'
  BY <1>1, <1>2, <1>4 DEF TypeOK
<1>6. ASSUME NEW m \in 1 .. MaxRequetes PROVE Exclusion(m)' /\ Recolte(m)'
  <2>1. Exclusion(m) /\ Recolte(m)
    BY DEF IInv
  <2>2. Exclusion(m)'
    BY <1>1, <1>2, <1>3, <1>4, <2>1 DEF Exclusion
  <2>3. Recolte(m)'
    BY <1>2, <1>3, <1>4, <2>1 DEF Recolte
  <2> QED
    BY <2>2, <2>3
<1>7. Tirage'
  BY <1>1, <1>2, <1>3, <1>4, TirageStable DEF Recolte
<1>8. mu # n
  BY <1>1, <1>2 DEF Exclusion
<1>9. Serveuse'
  BY <1>1, <1>2, <1>4, <1>8 DEF Serveuse, A, TypeOK, Aucune
<1>10. UnSeulMoteur'
  BY <1>1, <1>2 DEF UnSeulMoteur, Busy
<1> QED
  BY <1>5, <1>6, <1>7, <1>9, <1>10 DEF IInv

(* A step that touches the pages only.                                     *)
LEMMA PageSeule ==
  ASSUME IInv, page' \in [Tabs -> Page], UnSeulMoteur',
         UNCHANGED <<svars, envoyees, requetes>>
  PROVE  IInv'
<1>1. /\ mu' = mu /\ carte' = carte /\ engine' = engine /\ turn' = turn /\ tires' = tires
      /\ envoyees' = envoyees /\ requetes' = requetes
  BY DEF svars
<1>2. TypeOK'
  BY <1>1 DEF IInv, TypeOK
<1>3. \A n \in 1 .. MaxRequetes : Exclusion(n)' /\ Recolte(n)'
  BY <1>1 DEF IInv, Exclusion, Recolte
<1>4. Tirage'
  BY <1>1 DEF IInv, Tirage, Tirees, Resets
<1>5. Serveuse'
  BY <1>1 DEF IInv, Serveuse, A
<1> QED
  BY <1>2, <1>3, <1>4, <1>5 DEF IInv

(* A request that is sent waits at the mutex; a reset is sent only when    *)
(* there is a map left for it.                                             *)
LEMMA EnvoieIInv ==
  ASSUME IInv, NEW action \in Actions, Envoie(action), UNCHANGED svars,
         action = "reset" => ResteCarte,
         page' \in [Tabs -> Page], UnSeulMoteur'
  PROVE  IInv'
<1> DEFINE k == envoyees + 1
           s == Nouvelle(action)
<1>1. /\ TypeOK /\ Tirage /\ Serveuse
      /\ \A m \in 1 .. MaxRequetes : Exclusion(m) /\ Recolte(m)
  BY DEF IInv
<1>2. /\ k \in 1 .. MaxRequetes /\ envoyees' = k /\ envoyees \in Nat
      /\ mu' = mu /\ carte' = carte /\ engine' = engine /\ turn' = turn /\ tires' = tires
      /\ requetes' = [requetes EXCEPT ![k] = s]
  BY <1>1, WebAssumption DEF Envoie, svars, TypeOK
<1>3. /\ s \in Requete /\ s.etape = "verrou" /\ s.refus = FALSE /\ s.action = action
      /\ s.terrain = Aucune
  BY DEF Nouvelle, Requete, Etapes, Fires
<1>4. /\ requetes'[k] = s /\ requetes' \in [1 .. MaxRequetes -> Requete]
      /\ \A m \in 1 .. MaxRequetes : m # k => requetes'[m] = requetes[m]
  BY <1>1, <1>2, <1>3 DEF TypeOK
<1>5. requetes[k].etape = "verrou" /\ mu # k
  BY <1>1, <1>2 DEF Exclusion
<1> HIDE DEF s
<1>6. TypeOK'
  BY <1>1, <1>2, <1>4, WebAssumption DEF TypeOK
<1>7. ASSUME NEW m \in 1 .. MaxRequetes PROVE Exclusion(m)' /\ Recolte(m)'
  <2>1. CASE m = k
    BY <1>2, <1>3, <1>4, <1>5, <2>1 DEF Exclusion, Recolte
  <2>2. CASE m # k
    <3>1. Exclusion(m)'
      BY <1>1, <1>2, <1>4, <2>2 DEF Exclusion
    <3>2. Recolte(m)'
      BY <1>1, <1>2, <1>4, <2>2 DEF Recolte
    <3> QED
      BY <3>1, <3>2
  <2> QED
    BY <2>1, <2>2
<1>8. Tirage'
  <2>1. 1 .. k = (1 .. envoyees) \cup {k} /\ k \notin 1 .. envoyees
        /\ \A m \in 1 .. envoyees : m \in 1 .. MaxRequetes /\ m # k
    BY <1>2, WebAssumption
  <2>2. Resets' = IF action = "reset" THEN Resets \cup {k} ELSE Resets
    BY <1>2, <1>3, <1>4, <2>1 DEF Resets
  <2>3. k \notin Resets
    BY <2>1 DEF Resets
  <2>4. Tirees' = Tirees
    BY <1>2, <1>3, <1>4, <2>1, <2>2 DEF Tirees, Resets
  <2>5. /\ IsFiniteSet(Resets) /\ Cardinality(Resets) \in Nat
    BY <1>1, Finis
  <2>6. CASE action # "reset"
    BY <1>1, <1>2, <2>2, <2>4, <2>6 DEF Tirage
  <2>7. CASE action = "reset"
    <3>1. Cardinality(Resets') = Cardinality(Resets) + 1
      BY <2>2, <2>3, <2>5, <2>7, FS_AddElement
    <3>2. Cardinality(Resets) + 2 \in Cartes
      BY <2>7 DEF ResteCarte
    <3>3. \A j \in 1 .. Cardinality(Resets') + 1 :
             j \in 1 .. Cardinality(Resets) + 1 \/ j = Cardinality(Resets) + 2
      BY <2>5, <3>1
    <3> QED
      BY <1>1, <1>2, <2>4, <3>2, <3>3 DEF Tirage
  <2> QED
    BY <2>6, <2>7
<1>9. Serveuse'
  BY <1>1, <1>2, <1>4, <1>5 DEF Serveuse, A, TypeOK, Aucune
<1> QED
  BY <1>6, <1>7, <1>8, <1>9 DEF IInv

(* A page is driven by one thing at most, and by one if it plays.          *)
Pilotee(p) ==
  /\ p.timer => p.running /\ p.attend = Aucune
  /\ p.running => p.timer \/ p.attend # Aucune

(* One tab moves, the others do not.                                       *)
LEMMA UnePage ==
  ASSUME IInv, NEW t \in Tabs, NEW q \in Page, Pilotee(q),
         page' = [page EXCEPT ![t] = q]
  PROVE  page' \in [Tabs -> Page] /\ UnSeulMoteur'
<1>1. page \in [Tabs -> Page] /\ UnSeulMoteur
  BY DEF IInv, TypeOK
<1>2. page' \in [Tabs -> Page] /\ page'[t] = q
      /\ \A u \in Tabs : u # t => page'[u] = page[u]
  BY <1>1
<1>3. UnSeulMoteur'
  BY <1>1, <1>2 DEF UnSeulMoteur, Busy, Pilotee
<1> QED
  BY <1>2, <1>3

(* Stopping clears the timer.                                              *)
LEMMA PauseArrete ==
  ASSUME NEW p \in Page
  PROVE  /\ Pause(p) \in Page /\ Pause(p).running = FALSE /\ Pause(p).timer = FALSE
         /\ Pause(p).attend = p.attend
  BY DEF Pause, Page

(* When a request ends the page waits for nothing, and the next step is    *)
(* due if and only if the page plays.                                      *)
LEMMA FinPilotee ==
  ASSUME NEW p \in Page, p.timer => p.running
  PROVE  Finalement(p) \in Page /\ Pilotee(Finalement(p))
<1>1. p.timer \in BOOLEAN /\ p.running \in BOOLEAN
  BY DEF Page
<1>2. (p.timer \/ p.running) = p.running /\ (p.timer \/ p.running) \in BOOLEAN
  BY <1>1
<1>3. Finalement(p) = [p EXCEPT !.attend = Aucune, !.timer = p.running]
  BY <1>2 DEF Finalement
<1>4. Finalement(p) \in Page
  <2>1. Aucune \in 0 .. MaxRequetes
    BY WebAssumption DEF Aucune
  <2> QED
    BY <1>1, <1>3, <2>1 DEF Page
<1>5. /\ Finalement(p).running = p.running /\ Finalement(p).timer = p.running
      /\ Finalement(p).attend = Aucune
  BY <1>3 DEF Page
<1> QED
  BY <1>4, <1>5 DEF Pilotee

(* request(): the page that sends has no timer, it waits for the answer.   *)
LEMMA RequestIInv ==
  ASSUME IInv, NEW t \in Tabs, NEW p \in Page, ~p.timer, NEW action \in Actions,
         action = "reset" => ResteCarte, Request(t, p, action)
  PROVE  IInv'
<1> DEFINE q == [p EXCEPT !.attend = envoyees']
<1>1. Envoie(action) /\ UNCHANGED svars /\ page' = [page EXCEPT ![t] = q]
  BY DEF Request
<1>2. envoyees' \in 0 .. MaxRequetes /\ envoyees' # Aucune
  BY <1>1, WebAssumption DEF Envoie, IInv, TypeOK, Aucune
<1>3. q \in Page /\ q.timer = p.timer /\ q.attend = envoyees'
  BY <1>2 DEF Page
<1>4. Pilotee(q)
  BY <1>2, <1>3 DEF Pilotee
<1>5. page' \in [Tabs -> Page] /\ UnSeulMoteur'
  BY <1>1, <1>3, <1>4, UnePage
<1> QED
  BY <1>1, <1>5, EnvoieIInv

(* Each step of the script of a page preserves the invariant.              *)
LEMMA OngletIInv ==
  ASSUME IInv, NEW t \in Tabs, Onglet(t)
  PROVE  IInv'
<1>0. /\ page[t] \in Page /\ PageVide \in Page /\ Pilotee(page[t])
      /\ {"reset", "step"} \subseteq Actions
      /\ requetes \in [1 .. MaxRequetes -> Requete]
  BY WebAssumption DEF IInv, TypeOK, PageVide, Page, UnSeulMoteur, Pilotee, Busy, Actions,
                       Aucune
<1>1. ASSUME ClicReset(t) PROVE IInv'
  <2> DEFINE p == [Pause(page[t]) EXCEPT !.extinct = FALSE]
  <2>1. p \in Page /\ ~p.timer
    BY <1>0, PauseArrete DEF Page
  <2> QED
    BY <1>0, <1>1, <2>1, RequestIInv DEF ClicReset
<1>2. ASSUME ClicPlay(t) PROVE IInv'
  <2> DEFINE p == [page[t] EXCEPT !.running = TRUE]
  <2>1. CASE page[t].running
    <3>1. page' = [page EXCEPT ![t] = Pause(page[t])]
          /\ UNCHANGED <<svars, envoyees, requetes>>
      BY <1>2, <2>1 DEF ClicPlay
    <3>2. Pause(page[t]) \in Page /\ Pilotee(Pause(page[t]))
      BY <1>0, PauseArrete DEF Pilotee
    <3> QED
      BY <3>1, <3>2, UnePage, PageSeule
  <2>2. CASE ~page[t].running
    <3>1. /\ p \in Page /\ p.timer = page[t].timer /\ p.attend = page[t].attend
          /\ page[t].timer = FALSE
      BY <1>0, <2>2 DEF Page, Pilotee
    <3>2. CASE Busy(t)
      <4>1. page' = [page EXCEPT ![t] = p] /\ UNCHANGED <<svars, envoyees, requetes>>
        BY <1>2, <2>2, <3>2 DEF ClicPlay
      <4>2. Pilotee(p)
        BY <3>1, <3>2 DEF Pilotee, Busy
      <4> QED
        BY <3>1, <4>1, <4>2, UnePage, PageSeule
    <3>3. CASE ~Busy(t)
      <4>1. Request(t, p, "step")
        BY <1>2, <2>2, <3>3 DEF ClicPlay
      <4> QED
        BY <1>0, <3>1, <4>1, RequestIInv
    <3> QED
      BY <3>2, <3>3
  <2> QED
    BY <2>1, <2>2
<1>3. ASSUME ClicStep(t) PROVE IInv'
  <2>1. ~page[t].timer /\ Request(t, page[t], "step")
    BY <1>0, <1>3 DEF ClicStep, Pilotee
  <2> QED
    BY <1>0, <2>1, RequestIInv
<1>4. ASSUME Timer(t) PROVE IInv'
  <2> DEFINE p == [page[t] EXCEPT !.timer = FALSE]
  <2>1. p \in Page /\ ~p.timer
    BY <1>0 DEF Page
  <2>2. Request(t, p, "step")
    BY <1>0, <1>4 DEF Timer, Pilotee, Busy
  <2> QED
    BY <1>0, <2>1, <2>2, RequestIInv
<1>5. ASSUME Recharge(t) PROVE IInv'
  <2>1. ~PageVide.timer /\ ResteCarte /\ Request(t, PageVide, "reset")
    BY <1>5 DEF Recharge, PageVide
  <2> QED
    BY <1>0, <2>1, RequestIInv
<1>6. ASSUME NEW p \in Page, p.timer => p.running,
             page' = [page EXCEPT ![t] = Finalement(p)],
             UNCHANGED <<svars, envoyees, requetes>>
      PROVE  IInv'
  BY <1>6, FinPilotee, UnePage, PageSeule
<1>7. ASSUME Catch(t) PROVE IInv'
  <2>1. Pause(page[t]) \in Page /\ ~Pause(page[t]).timer
    BY <1>0, PauseArrete
  <2> QED
    BY <1>6, <1>7, <2>1 DEF Catch
<1>8. ASSUME Recoit(t) PROVE IInv'
  <2> DEFINE r == requetes[page[t].attend]
             p == [page[t] EXCEPT !.terrain = IF r.terrain # Aucune THEN r.terrain ELSE @,
                                  !.fire = r.fire.carte, !.turn = r.turn,
                                  !.extinct = r.extinct]
  <2>1. page' = [page EXCEPT ![t] = Finalement(IF r.extinct THEN Pause(p) ELSE p)]
        /\ UNCHANGED <<svars, envoyees, requetes>> /\ Busy(t)
    BY <1>8 DEF Recoit
  <2>2. r \in Requete
    BY <1>0, <2>1, WebAssumption DEF Page, Busy, Aucune
  <2>3. p \in Page /\ p.timer = page[t].timer /\ p.running = page[t].running
    BY <1>0, <2>2 DEF Page, Requete, Fires
  <2>4. p.timer => p.running
    BY <1>0, <2>3 DEF Pilotee
  <2>5. Pause(p) \in Page /\ ~Pause(p).timer
    BY <2>3, PauseArrete
  <2> HIDE DEF p
  <2>6. CASE r.extinct
    BY <1>6, <2>1, <2>5, <2>6
  <2>7. CASE ~r.extinct
    BY <1>6, <2>1, <2>3, <2>4, <2>7
  <2> QED
    BY <2>6, <2>7
<1> QED
  BY <1>1, <1>2, <1>3, <1>4, <1>5, <1>7, <1>8 DEF Onglet, RecoitErreur, Abandonne

(* The invariant holds for ever.                                           *)
LEMMA Invariance == Spec => []IInv
<1>1. IInv /\ [Next]_vars => IInv'
  <2> SUFFICES ASSUME IInv, [Next]_vars PROVE IInv'
    OBVIOUS
  <2>1. ASSUME NEW n \in 1 .. MaxRequetes, Invalide(n) \/ Serveur(n) PROVE IInv'
    BY <2>1, InvalideIInv, ServeurIInv
  <2>2. ASSUME NEW t \in Tabs, Onglet(t) PROVE IInv'
    BY <2>2, OngletIInv
  <2>3. ASSUME Tiers PROVE IInv'
    <3>1. /\ Envoie("inconnue") /\ UNCHANGED svars /\ page' = page
          /\ "inconnue" \in Actions
      BY <2>3 DEF Tiers, Actions
    <3>2. page' \in [Tabs -> Page] /\ UnSeulMoteur'
      BY <3>1 DEF IInv, TypeOK, UnSeulMoteur, Busy
    <3> QED
      BY <3>1, <3>2, EnvoieIInv
  <2>4. CASE UNCHANGED vars
    <3>1. UNCHANGED <<svars, envoyees, requetes>> /\ page' = page
      BY <2>4 DEF vars
    <3>2. page' \in [Tabs -> Page] /\ UnSeulMoteur'
      BY <3>1 DEF IInv, TypeOK, UnSeulMoteur, Busy
    <3> QED
      BY <3>1, <3>2, PageSeule
  <2> QED
    BY <2>1, <2>2, <2>3, <2>4 DEF Next
<1> QED
  BY <1>1, InitIInv, PTL DEF Spec

(* Every answer, the one of a request the tab gave up on included, speaks  *)
(* of one instant of one fire, whatever the tabs send and in which order.  *)
THEOREM ReponsesCoherentes == Spec => []ReponseCoherente
<1>1. IInv => ReponseCoherente
  <2> SUFFICES ASSUME IInv, NEW n \in 1 .. envoyees, Repondue(n), ~requetes[n].refus
               PROVE  LET r == requetes[n] IN
                      /\ r.terrain \in {Aucune, r.fire.carte}
                      /\ r.turn = r.fire.tours
                      /\ r.extinct <=> (r.fire.tours >= Duree[r.fire.carte])
    BY DEF ReponseCoherente
  <2>1. n \in 1 .. MaxRequetes
    BY WebAssumption DEF IInv, TypeOK
  <2>2. Recolte(n)
    BY <2>1 DEF IInv
  <2> QED
    BY <2>2 DEF Recolte, Repondue
<1> QED
  BY <1>1, Invariance, PTL

(* When no request holds the mutex the map, the engine and the turn agree, *)
(* and a fire is never stepped past its end.                               *)
THEOREM ServeurToujoursCoherent == Spec => []ServeurCoherent
<1>1. IInv => ServeurCoherent
  BY DEF IInv, Serveuse, A, Tirage, ServeurCoherent
<1> QED
  BY <1>1, Invariance, PTL

(* No page stalls while it plays, and none runs twice as fast.             *)
THEOREM PagesPilotees == Spec => []UnSeulMoteur
<1>1. IInv => UnSeulMoteur
  BY DEF IInv
<1> QED
  BY <1>1, Invariance, PTL
=============================================================================
