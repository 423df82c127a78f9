--------------------------------- MODULE Run --------------------------------
(***************************************************************************)
(* fire.Run: the driver that plays an engine until the fire is out, the    *)
(* turns are spent, or the display or the snapshot callback fails.  The    *)
(* engine is the rules themselves: every engine implements them.           *)
(***************************************************************************)
EXTENDS Regles, FiniteSets

CONSTANT AllOptions   \* the Options a caller may pass

(* Render and Snapshot are functions or nil in the code; what matters is   *)
(* whether they are there.  Turns and SnapshotEvery are ints, of any sign. *)
Options == [Turns : Int, Render : BOOLEAN, Snapshot : BOOLEAN, SnapshotEvery : Int]

ASSUME OptionsAssumption == AllOptions \subseteq Options

VARIABLES
  opt,
  pc,          \* where Run is: the call or the test it makes next
  res,         \* the Result being built
  images,      \* images drawn so far
  captures     \* the turns the callback has accepted a snapshot of

rvars == <<carte, feu, repos, opt, pc, res, images, captures>>
moteur == <<carte, feu, repos>>

RInit ==
  /\ Init
  /\ opt \in AllOptions
  /\ pc = "dessine"
  /\ res = [Turns |-> 0, Extinct |-> FALSE, Err |-> FALSE]
  /\ images = 0 /\ captures = <<>>

Echoue ==
  /\ res' = [res EXCEPT !.Err = TRUE]
  /\ pc' = "rendu"

(* dessine: nothing without a writer; a write may fail at any turn.        *)
Dessine ==
  /\ pc = "dessine"
  /\ \/ /\ pc' = "capture"
        /\ images' = IF opt.Render THEN images + 1 ELSE images
        /\ UNCHANGED res
     \/ /\ opt.Render
        /\ Echoue
        /\ UNCHANGED images
  /\ UNCHANGED <<moteur, opt, captures>>

(* capture: due every SnapshotEvery turns, every turn when that is not a   *)
(* positive number; the callback may refuse.                               *)
Periode == IF opt.SnapshotEvery > 1 THEN opt.SnapshotEvery ELSE 1
(* A bug: the turns are counted from 1.                                    *)
DueDecalee(t) == opt.Snapshot /\ (t + 1) % Periode = 0
Due(t) == opt.Snapshot /\ t % Periode = 0

(* Before the loop there is no test of Burning.                            *)
ApresCapture == IF res.Turns = 0 THEN "boucle" ELSE "burning"

Capture ==
  /\ pc = "capture"
  /\ \/ /\ pc' = ApresCapture
        /\ captures' = IF Due(res.Turns) THEN Append(captures, res.Turns) ELSE captures
        /\ UNCHANGED res
     \/ /\ Due(res.Turns)
        /\ Echoue
        /\ UNCHANGED captures
  /\ UNCHANGED <<moteur, opt, images>>

(* A bug: the turn is played and not counted.                              *)
BoucleSansCompter ==
  /\ pc = "boucle" /\ res.Turns < opt.Turns
  /\ Tour
  /\ pc' = "dessine"
  /\ UNCHANGED <<opt, res, images, captures>>

Boucle ==
  /\ pc = "boucle" /\ res.Turns < opt.Turns
  /\ Tour
  /\ res' = [res EXCEPT !.Turns = @ + 1]
  /\ pc' = "dessine"
  /\ UNCHANGED <<opt, images, captures>>

Epuise ==
  /\ pc = "boucle" /\ res.Turns >= opt.Turns
  /\ pc' = "rendu"
  /\ UNCHANGED <<moteur, opt, res, images, captures>>

(* Two bugs: the extinction is not reported, or does not stop the loop.    *)
BurningMuet ==
  /\ pc = "burning"
  /\ pc' = IF Extinct THEN "rendu" ELSE "boucle"
  /\ UNCHANGED <<moteur, opt, res, images, captures>>
BurningSansArret ==
  /\ pc = "burning"
  /\ pc' = "boucle"
  /\ res' = [res EXCEPT !.Extinct = Extinct]
  /\ UNCHANGED <<moteur, opt, images, captures>>

Burning ==
  /\ pc = "burning"
  /\ IF Extinct
     THEN res' = [res EXCEPT !.Extinct = TRUE] /\ pc' = "rendu"
     ELSE pc' = "boucle" /\ UNCHANGED res
  /\ UNCHANGED <<moteur, opt, images, captures>>

RNext == Dessine \/ Capture \/ Boucle \/ Epuise \/ Burning

RSpec == RInit /\ [][RNext]_rvars

-----------------------------------------------------------------------------
(* Why Run stopped can be read in its Result, and in nothing else: it says *)
(* extinct exactly when the fire is out after a turn of it, and if it was  *)
(* neither extinct nor in error then every turn asked for was played.      *)
ResultatJuste ==
  pc = "rendu" =>
    /\ res.Extinct => Extinct /\ res.Turns > 0 /\ ~res.Err
    /\ Extinct /\ res.Turns > 0 /\ ~res.Err => res.Extinct
    /\ ~res.Extinct /\ ~res.Err => res.Turns = IF opt.Turns > 0 THEN opt.Turns ELSE 0

(* The snapshots accepted are those of turns 0, p, 2p... with no gap and   *)
(* no repeat, up to the last turn played, less the one that failed; an     *)
(* image goes with every turn, the initial state included.                 *)
ToutEstPris ==
  /\ \A n \in DOMAIN captures : captures[n] = (n - 1) * Periode
  /\ opt.Snapshot /\ pc = "rendu" /\ ~res.Err =>
       Len(captures) = res.Turns \div Periode + 1
  /\ opt.Render /\ pc = "rendu" /\ ~res.Err => images = res.Turns + 1

(* No turn is computed once a turn has put the fire out.                   *)
PasDeTourInutile ==
  [][(res'.Turns # res.Turns /\ res.Turns > 0) => ~Extinct]_rvars

(* Run returns when it is called, even if the fire would burn for ever.    *)
RendLaMain == pc = "dessine" ~> pc = "rendu"

(* The rules (§6): the simulation stops when nothing burns any more.  No   *)
(* turn is computed without a fire.                                        *)
PasDeTourSansFeu == [][res'.Turns # res.Turns => ~Extinct]_rvars
=============================================================================
