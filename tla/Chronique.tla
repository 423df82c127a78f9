----------------------------- MODULE Chronique ------------------------------
(***************************************************************************)
(* The rules with what an observer remembers of the turns: when each cell  *)
(* last caught fire, how many turns have passed, and the states already    *)
(* seen.  The history variables never influence a turn.                    *)
(***************************************************************************)
EXTENDS Regles, FiniteSets

CONSTANT MaxTours    \* bound: the turns the observer stays for

ASSUME MaxToursAssumption == MaxTours \in Nat

VARIABLES
  tour,      \* turns played so far
  prise,     \* by cell, the turn it last caught fire in; Jamais before
  vus        \* the states <<feu, repos>> of the turns before this one

cvars == <<carte, feu, repos, tour, prise, vus>>

Jamais == -1

CInit ==
  /\ Init
  /\ tour = 0
  /\ prise = [c \in Cells(carte) |-> IF feu[c] > 0 THEN 0 ELSE Jamais]
  /\ vus = {}

CTour ==
  /\ tour < MaxTours
  /\ Tour
  /\ tour' = tour + 1
  /\ prise' = [c \in Cells(carte) |->
                 IF feu[c] = 0 /\ feu'[c] > 0 THEN tour' ELSE prise[c]]
  /\ vus' = vus \cup {<<feu, repos>>}

CSpec == CInit /\ [][CTour]_cvars

-----------------------------------------------------------------------------
(* A cell that caught fire burns its whole combustion, then rests its      *)
(* whole rest, and only then may burn again: its two counters say exactly  *)
(* how long ago it caught fire.  No contagion received meanwhile prolongs  *)
(* the fire, restarts it or shortens the rest.                             *)
Horloge ==
  \A c \in Cells(carte) :
    LET age  == tour - prise[c]
        brul == Combustion(carte.terrain[c])
        dort == Repos(carte.terrain[c])
    IN  IF prise[c] = Jamais
        THEN feu[c] = 0 /\ repos[c] = 0
        ELSE IF age < brul THEN feu[c] = brul - age /\ repos[c] = 0
        ELSE IF age < brul + dort THEN feu[c] = 0 /\ repos[c] = brul + dort - age
        ELSE feu[c] = 0 /\ repos[c] = 0

(* The fire advances at most one cell a turn, two when winds blow: after t *)
(* turns a cell that has ever burnt lies in the cone of an initial fire.   *)
Cone ==
  LET v == IF SansVent(carte) THEN 1 ELSE 2 IN
  \A c \in Cells(carte) : prise[c] # Jamais =>
    \E f \in Foyers(carte) :
      /\ Ecart(f[1], c[1], carte.width) <= v * prise[c]
      /\ Ecart(f[2], c[2], carte.height) <= v * prise[c]

(* On land without wind or water the front is a square that widens by one  *)
(* cell a turn: a cell first burns at the turn equal to its distance to    *)
(* the nearest initial fire, neither sooner nor later.                     *)
Homogene(m) == SansVent(m) /\ \A c \in Cells(m) : m.terrain[c] # Water
Front ==
  Homogene(carte) => \A c \in Cells(carte) :
    (prise[c] # Jamais) <=>
      \E f \in Foyers(carte) :
        /\ Ecart(f[1], c[1], carte.width) <= tour
        /\ Ecart(f[2], c[2], carte.height) <= tour

(* What the rules (§6) say of a fire that keeps going: it never comes back *)
(* to a state already seen.                                                *)
JamaisDejaVu == Extinct \/ <<feu, repos>> \notin vus
=============================================================================
