--------------------------------- MODULE Web --------------------------------
(***************************************************************************)
(* cmd/web: one fire in the memory of the server, shared by every tab, and *)
(* the page of each tab that drives it (main.go and index.html).  A tab    *)
(* gives up on a request after ten seconds, or is loaded again; the server *)
(* knows nothing of it and still serves the request.  Other clients than   *)
(* the page may send it anything.                                          *)
(*                                                                         *)
(* A map is known by the number of the reset that drew it, and a state of  *)
(* its fire by that number and the turns played; Duree says how many turns *)
(* a fire lasts.                                                           *)
(***************************************************************************)
EXTENDS Naturals, FiniteSets

CONSTANTS
  Tabs,
  Duree,         \* turns the fire of each map lasts; its domain bounds the resets
  MaxRequetes,   \* bound: requests ever sent
  Delais,        \* whether a request may outlast the page's timeout
  Etrangers      \* whether there are other clients, and seeds the server refuses

Cartes == DOMAIN Duree
Aucune == 0

ASSUME WebAssumption ==
  /\ Duree \in [Cartes -> Nat] /\ 1 \in Cartes /\ Aucune \notin Cartes
  /\ MaxRequetes \in Nat /\ Delais \in BOOLEAN /\ Etrangers \in BOOLEAN

VARIABLES
  mu,            \* the request that holds the mutex, or Aucune
  carte,         \* s.carte
  engine,        \* s.engine: its map and the turns it has computed
  turn,          \* s.turn
  tires,         \* maps drawn so far
  envoyees,      \* requests sent so far
  requetes,      \* what the server is serving, by request number
  page           \* the script of each tab

svars == <<mu, carte, engine, turn, tires>>
vars  == <<svars, envoyees, requetes, page>>

(* "inconnue" is any other action, or a reset to a landscape the server    *)
(* does not have: both are refused under the mutex.                        *)
Actions == {"reset", "step", "inconnue"}
EnCours == {n \in 1 .. envoyees : requetes[n].etape # "finie"}

Repondue(n) == requetes[n].etape \in {"repondue", "finie"}

(* etape: where the handler of a request is.                               *)
Nouvelle(action) ==
  [action |-> action, etape |-> "verrou", refus |-> FALSE, terrain |-> Aucune,
   fire |-> [carte |-> Aucune, tours |-> 0], turn |-> 0, extinct |-> FALSE]

PageVide == [terrain |-> Aucune, fire |-> Aucune, turn |-> 0, running |-> FALSE,
             extinct |-> FALSE, timer |-> FALSE, attend |-> Aucune]
Busy(t) == page[t].attend # Aucune

(* handler() draws the first map before it listens; a page begins with a   *)
(* reset of its own.                                                       *)
Init ==
  /\ mu = Aucune
  /\ carte = 1 /\ engine = [carte |-> 1, tours |-> 0] /\ turn = 0 /\ tires = 1
  /\ envoyees = 0 /\ requetes = [n \in 1 .. MaxRequetes |-> Nouvelle("reset")]
  /\ page = [t \in Tabs |-> PageVide]

-----------------------------------------------------------------------------
(* The page.  request(action) does nothing while another is in flight.     *)
Envoie(action) ==
  /\ envoyees < MaxRequetes
  /\ envoyees' = envoyees + 1
  /\ requetes' = [requetes EXCEPT ![envoyees'] = Nouvelle(action)]

Request(t, p, action) ==
  /\ Envoie(action)
  /\ page' = [page EXCEPT ![t] = [p EXCEPT !.attend = envoyees']]
  /\ UNCHANGED svars

(* A bug: the page stops without clearing its timer.                       *)
PauseSansClear(p) == [p EXCEPT !.running = FALSE]
Pause(p) == [p EXCEPT !.running = FALSE, !.timer = FALSE]

(* The load of the page, the reset button and the choice of a landscape:   *)
(* both controls are disabled while busy.                                  *)
Resets == {n \in 1 .. envoyees : requetes[n].action = "reset"}
ResteCarte == Cardinality(Resets) + 2 \in Cartes
ClicReset(t) ==
  /\ ~Busy(t)
  /\ ResteCarte
  /\ Request(t, [Pause(page[t]) EXCEPT !.extinct = FALSE], "reset")

PlayActif(t) == page[t].terrain # Aucune /\ ~page[t].extinct

ClicPlay(t) ==
  /\ PlayActif(t)
  /\ IF page[t].running
     THEN page' = [page EXCEPT ![t] = Pause(@)] /\ UNCHANGED <<svars, envoyees, requetes>>
     ELSE LET p == [page[t] EXCEPT !.running = TRUE] IN
          IF Busy(t)
          THEN page' = [page EXCEPT ![t] = p] /\ UNCHANGED <<svars, envoyees, requetes>>
          ELSE Request(t, p, "step")

ClicStep(t) ==
  /\ PlayActif(t) /\ ~Busy(t) /\ ~page[t].running
  /\ Request(t, page[t], "step")

(* setTimeout fires; the handle is spent.                                  *)
Timer(t) ==
  /\ page[t].timer
  /\ LET p == [page[t] EXCEPT !.timer = FALSE] IN
     IF Busy(t)
     THEN page' = [page EXCEPT ![t] = p] /\ UNCHANGED <<svars, envoyees, requetes>>
     ELSE Request(t, p, "step")

(* The page is loaded again: the script starts anew with its own reset.    *)
Recharge(t) ==
  /\ page[t] # PageVide /\ ResteCarte
  /\ Request(t, PageVide, "reset")

(* A client without a page, curl or a test; the resets and the steps it    *)
(* may send are as those of a tab that gave up on them.                    *)
Tiers ==
  /\ Etrangers
  /\ Envoie("inconnue")
  /\ UNCHANGED <<svars, page>>

(* finally: the next step is due if the page is still running.             *)
Finalement(p) == [p EXCEPT !.attend = Aucune, !.timer = @ \/ p.running]

Recoit(t) ==
  /\ Busy(t) /\ Repondue(page[t].attend) /\ ~requetes[page[t].attend].refus
  /\ LET r == requetes[page[t].attend]
         p == [page[t] EXCEPT
                 !.terrain = IF r.terrain # Aucune THEN r.terrain ELSE @,
                 !.fire = r.fire.carte, !.turn = r.turn, !.extinct = r.extinct]
     IN  page' = [page EXCEPT ![t] = Finalement(IF r.extinct THEN Pause(p) ELSE p)]
  /\ UNCHANGED <<svars, envoyees, requetes>>

(* catch: an answer that is an error; or AbortSignal.timeout, or the       *)
(* network, and the answer, if any, is lost.                               *)
Catch(t) ==
  /\ page' = [page EXCEPT ![t] = Finalement(Pause(@))]
  /\ UNCHANGED <<svars, envoyees, requetes>>
RecoitErreur(t) ==
  Busy(t) /\ Repondue(page[t].attend) /\ requetes[page[t].attend].refus /\ Catch(t)
Abandonne(t) == Delais /\ Busy(t) /\ Catch(t)

-----------------------------------------------------------------------------
(* The handler of request n, from one etape to the next.                   *)
Avance(n, de, vers) ==
  /\ n \in EnCours /\ requetes[n].etape = de
  /\ requetes' = [requetes EXCEPT ![n].etape = vers]
  /\ UNCHANGED <<envoyees, page>>

(* The body is decoded before the mutex is taken.  Every request carries   *)
(* the seed typed in the page, which may not be an integer of 64 bits.     *)
Invalide(n) ==
  /\ Etrangers
  /\ n \in EnCours /\ requetes[n].etape = "verrou"
  /\ requetes' = [requetes EXCEPT ![n].etape = "finie", ![n].refus = TRUE]
  /\ UNCHANGED <<svars, envoyees, page>>

(* A bug: the handler goes on without the mutex.                           *)
LockSansAttendre(n) ==
  /\ Avance(n, "verrou", requetes[n].action)
  /\ mu' = n
  /\ UNCHANGED <<carte, engine, turn, tires>>
Lock(n) ==
  /\ mu = Aucune
  /\ Avance(n, "verrou", requetes[n].action)
  /\ mu' = n
  /\ UNCHANGED <<carte, engine, turn, tires>>

(* reset: a new map, then a new engine on it; turn 0.                      *)
ResetCarte(n) ==
  /\ Avance(n, "reset", "moteur")
  /\ tires' = tires + 1 /\ carte' = tires'
  /\ UNCHANGED <<mu, engine, turn>>
(* A bug: a reset does not put the turn back to 0.                         *)
ResetMoteurSansTour(n) ==
  /\ Avance(n, "moteur", "decor")
  /\ engine' = [carte |-> carte, tours |-> 0]
  /\ UNCHANGED <<mu, carte, turn, tires>>
ResetMoteur(n) ==
  /\ Avance(n, "moteur", "decor")
  /\ engine' = [carte |-> carte, tours |-> 0] /\ turn' = 0
  /\ UNCHANGED <<mu, carte, tires>>
Decor(n) ==
  /\ n \in EnCours /\ requetes[n].etape = "decor"
  /\ requetes' = [requetes EXCEPT ![n].etape = "state", ![n].terrain = carte]
  /\ UNCHANGED <<svars, envoyees, page>>

Burning == engine.tours < Duree[engine.carte]

(* step: a fire that is out does not step.                                 *)
Step(n) ==
  /\ Burning
  /\ Avance(n, "step", "turn")
  /\ engine' = [engine EXCEPT !.tours = @ + 1]
  /\ UNCHANGED <<mu, carte, turn, tires>>
StepTurn(n) ==
  /\ Avance(n, "turn", "state")
  /\ turn' = turn + 1
  /\ UNCHANGED <<mu, carte, engine, tires>>
StepRien(n) ==
  /\ ~Burning
  /\ Avance(n, "step", "state")
  /\ UNCHANGED svars

(* state: cell after cell, then Burning and the turn.                      *)
State(n) ==
  /\ n \in EnCours /\ requetes[n].etape = "state"
  /\ requetes' = [requetes EXCEPT ![n].etape = "burning", ![n].fire = engine]
  /\ UNCHANGED <<svars, envoyees, page>>
Repond(n) ==
  /\ n \in EnCours /\ requetes[n].etape = "burning"
  /\ requetes' = [requetes EXCEPT ![n].etape = "repondue", ![n].turn = turn,
                                  ![n].extinct = ~Burning]
  /\ UNCHANGED <<svars, envoyees, page>>

(* A bug: a refusal does not release the mutex.                            *)
RefuseSansUnlock(n) ==
  /\ n \in EnCours /\ requetes[n].etape = "inconnue"
  /\ requetes' = [requetes EXCEPT ![n].etape = "finie", ![n].refus = TRUE]
  /\ UNCHANGED <<svars, envoyees, page>>
Refuse(n) ==
  /\ n \in EnCours /\ requetes[n].etape = "inconnue"
  /\ requetes' = [requetes EXCEPT ![n].etape = "repondue", ![n].refus = TRUE]
  /\ UNCHANGED <<svars, envoyees, page>>

(* The deferred unlock; the client may have the answer before it.          *)
Unlock(n) ==
  /\ Avance(n, "repondue", "finie")
  /\ mu' = Aucune
  /\ UNCHANGED <<carte, engine, turn, tires>>

Serveur(n) ==
  \/ Lock(n) \/ ResetCarte(n) \/ ResetMoteur(n) \/ Decor(n)
  \/ Step(n) \/ StepTurn(n) \/ StepRien(n) \/ State(n) \/ Repond(n)
  \/ Refuse(n) \/ Unlock(n)

Onglet(t) ==
  \/ ClicReset(t) \/ ClicPlay(t) \/ ClicStep(t) \/ Timer(t)
  \/ Recoit(t) \/ RecoitErreur(t) \/ Abandonne(t) \/ Recharge(t)

Next ==
  \/ \E n \in 1 .. MaxRequetes : Invalide(n) \/ Serveur(n)
  \/ \E t \in Tabs : Onglet(t)
  \/ Tiers

Spec == Init /\ [][Next]_vars

(* A handler runs to its end, sync.Mutex lets every waiter through, and an *)
(* answer reaches a tab that still waits for it.  A request that is not    *)
(* found invalid waits for the mutex, so Invalide is never owed to it.     *)
FairSpec ==
  /\ Spec
  /\ \A n \in 1 .. MaxRequetes : SF_vars(Serveur(n))
  /\ \A t \in Tabs : WF_vars(Recoit(t) \/ RecoitErreur(t))

-----------------------------------------------------------------------------
(* An answer describes one instant of one fire: the decor, the cells, the  *)
(* turn and the extinction in it are all of the same map and turn, however *)
(* the requests of the tabs interleave.                                    *)
ReponseCoherente ==
  \A n \in 1 .. envoyees :
    LET r == requetes[n] IN
    Repondue(n) /\ ~r.refus =>
      /\ r.terrain \in {Aucune, r.fire.carte}
      /\ r.turn = r.fire.tours
      /\ r.extinct <=> (r.fire.tours >= Duree[r.fire.carte])

(* The server counts the turns of the fire it serves and never steps one   *)
(* that is out; what was drawn last is what burns.                         *)
ServeurCoherent ==
  /\ engine.tours <= Duree[engine.carte]
  /\ mu = Aucune => turn = engine.tours /\ engine.carte = carte /\ carte = tires

(* A page that plays is driven by exactly one thing, a request in flight   *)
(* or a timer: with neither it would stall, with both it would run twice   *)
(* as fast and out of control of the pause button.                         *)
UnSeulMoteur ==
  \A t \in Tabs :
    /\ page[t].timer => page[t].running /\ ~Busy(t)
    /\ page[t].running => page[t].timer \/ Busy(t)

(* No tab waits for ever: whatever the others send, its requests pass the  *)
(* mutex and its buttons come back.                                        *)
NAttendPas == \A t \in Tabs : Busy(t) ~> ~Busy(t)

(* A page draws the cells of a fire over the decor of its own map.         *)
DecorAJour ==
  \A t \in Tabs : page[t].terrain # Aucune => page[t].terrain = page[t].fire
=============================================================================
