--------------------------------- MODULE Cli --------------------------------
(***************************************************************************)
(* cmd/wildfire: the command reads its flags, generates a map, plays it    *)
(* with fire.Run and writes the profiles it was asked for.  Whatever fails *)
(* ends it by os.Exit, which runs no deferred call; what fails in a call   *)
(* whose error main does not look at goes unseen.  fire.Run is also        *)
(* called by others, with options main never gives it.                     *)
(***************************************************************************)
EXTENDS Run, SequencesExt

CONSTANTS
  Names,       \* the implementations the registry holds
  AllFlags     \* the flags main may be given; their values reach it parsed

Flags == [list : BOOLEAN, impl : STRING, turns : Int, render : BOOLEAN,
          cpuProfile : BOOLEAN, memProfile : BOOLEAN, quiet : BOOLEAN]

ASSUME FlagsAssumption == AllFlags \subseteq Flags

VARIABLES
  flags,
  etape,       \* where main is; "autre": Run has another caller
  differes,    \* the deferred calls, the last one first to run
  cpu, mem,    \* the profile files: none, empty, being taken, lost, complete
  pannes,      \* the calls that failed without main knowing
  affiche,     \* the line of results was printed
  code         \* the exit code

cvars == <<rvars, flags, etape, differes, cpu, mem, pannes, affiche, code>>
profils == <<differes, cpu, mem, pannes>>

Depart ==
  /\ differes = <<>> /\ cpu = "aucun" /\ mem = "aucun" /\ pannes = {}
  /\ affiche = FALSE /\ code = 0

CliInit ==
  /\ Depart
  /\ \/ /\ flags \in AllFlags /\ etape = "flags"
        /\ carte = <<>> /\ feu = <<>> /\ repos = <<>>
        /\ opt = [Turns |-> flags.turns, Render |-> flags.render,
                  Snapshot |-> FALSE, SnapshotEvery |-> 0]
        /\ pc = "attend" /\ images = 0 /\ captures = <<>>
        /\ res = [Turns |-> 0, Extinct |-> FALSE, Err |-> FALSE]
     \/ RInit /\ flags = <<>> /\ etape = "autre"

(* The end of main, and the way out that skips its deferred calls.         *)
Sort(c) == etape' = "sorti" /\ code' = c /\ UNCHANGED affiche
Suite(e) == etape' = e /\ UNCHANGED <<code, affiche>>
Fail == Sort(1) /\ UNCHANGED differes

(* A call whose error is dropped, by main or before it reaches main: it    *)
(* does its work, or fails and main goes on.                               *)
Aveugle(appel, fait, rate) ==
  \/ fait /\ UNCHANGED pannes
  \/ rate /\ pannes' = pannes \cup {appel}

(* -list, an unknown name, or Generate.                                    *)
Lit ==
  /\ etape = "flags"
  /\ IF flags.list THEN Sort(0) /\ UNCHANGED carte
     ELSE IF flags.impl \notin Names THEN Sort(1) /\ UNCHANGED carte
     ELSE Suite("cpu") /\ carte' \in Maps
  /\ UNCHANGED <<feu, repos, opt, pc, res, images, captures, flags, profils>>

CreeCPU ==
  /\ etape = "cpu"
  /\ IF flags.cpuProfile
     THEN \/ cpu' = "vide" /\ Suite("demarre") /\ UNCHANGED differes
          \/ Fail /\ UNCHANGED cpu
     ELSE Suite("appel") /\ UNCHANGED <<cpu, differes>>
  /\ UNCHANGED <<rvars, flags, mem, pannes>>

DemarreCPU ==
  /\ etape = "demarre"
  /\ \/ /\ cpu' = "en cours"
        /\ differes' = <<"Close", "StopCPUProfile">>
        /\ Suite("appel")
     \/ Fail /\ UNCHANGED cpu
  /\ UNCHANGED <<rvars, flags, mem, pannes>>

Appelle ==
  /\ etape = "appel"
  /\ feu' = FeuInitial(carte) /\ repos' = ReposInitial(carte)
  /\ pc' = "dessine"
  /\ Suite("run")
  /\ UNCHANGED <<carte, opt, res, images, captures, flags, profils>>

Joue ==
  /\ etape \in {"run", "autre"}
  /\ RNext
  /\ UNCHANGED <<flags, etape, profils, affiche, code>>

Retour ==
  /\ etape = "run" /\ pc = "rendu"
  /\ IF res.Err THEN Fail ELSE Suite("mem") /\ UNCHANGED differes
  /\ UNCHANGED <<rvars, flags, cpu, mem, pannes>>

(* The allocations are written after the turns.                            *)
CreeMem ==
  /\ etape = "mem"
  /\ IF flags.memProfile
     THEN \/ mem' = "vide" /\ Suite("ecrit") /\ UNCHANGED differes
          \/ Fail /\ UNCHANGED mem
     ELSE Suite("affiche") /\ UNCHANGED <<mem, differes>>
  /\ UNCHANGED <<rvars, flags, cpu, pannes>>

(* WriteTo may return its error, or keep it for itself.                    *)
EcritMem ==
  /\ etape = "ecrit"
  /\ \/ /\ Aveugle("WriteTo", mem' = "complet", mem' = "perdu")
        /\ Suite("ferme") /\ UNCHANGED differes
     \/ mem' = "perdu" /\ Fail /\ UNCHANGED pannes
  /\ UNCHANGED <<rvars, flags, cpu>>

FermeMem ==
  /\ etape = "ferme"
  /\ Aveugle("mf.Close", UNCHANGED mem, mem' = "perdu")
  /\ Suite("affiche")
  /\ UNCHANGED <<rvars, flags, cpu, differes>>

Affiche ==
  /\ etape = "affiche"
  /\ IF flags.quiet THEN UNCHANGED <<affiche, pannes>>
     ELSE Aveugle("Printf", affiche' = TRUE, UNCHANGED affiche)
  /\ etape' = "differes"
  /\ UNCHANGED <<rvars, flags, differes, cpu, mem, code>>

(* main returns: the deferred calls, the last one made first.              *)
(* A bug: the first one made.                                              *)
PremierAppel == 1
Prochain == Len(differes)

(* Stopping the profile writes it to its file: too late once it is closed. *)
Differe ==
  /\ etape = "differes" /\ differes # <<>>
  /\ LET appel == differes[Prochain]
         suite == CASE appel = "StopCPUProfile" /\ cpu = "en cours" -> "complet"
                    [] appel = "Close" /\ cpu = "en cours" -> "perdu"
                    [] OTHER -> cpu
     IN  Aveugle(appel, cpu' = suite, cpu' = "perdu")
  /\ differes' = RemoveAt(differes, Prochain)
  /\ UNCHANGED <<rvars, flags, etape, mem, affiche, code>>

Termine ==
  /\ etape = "differes" /\ differes = <<>>
  /\ Sort(0)
  /\ UNCHANGED <<rvars, flags, profils>>

CliNext ==
  \/ Lit \/ CreeCPU \/ DemarreCPU \/ Appelle \/ Joue \/ Retour
  \/ CreeMem \/ EcritMem \/ FermeMem \/ Affiche \/ Differe \/ Termine

(* Sequential functions that call nothing that blocks for ever.            *)
CliSpec == CliInit /\ [][CliNext]_cvars /\ WF_cvars(CliNext)

-----------------------------------------------------------------------------
(* What the scripts that measure the command may conclude from its exit    *)
(* code.  0: the map was played to its end, and each profile asked for is  *)
(* complete and the results printed unless -quiet, but for what failed in  *)
(* the very calls whose error is dropped (the write and the close of a     *)
(* profile, the print): main itself loses nothing, and 0 does not vouch    *)
(* for the disk nor for the output.  1: no profile is complete and nothing *)
(* was printed; for a name that is not registered no file was touched.     *)
Etat(demande, appels) ==
  IF ~demande THEN "aucun" ELSE IF appels \cap pannes = {} THEN "complet" ELSE "perdu"

CodeFidele ==
  /\ etape = "sorti" /\ code = 0 /\ ~flags.list =>
       /\ cpu = Etat(flags.cpuProfile, {"StopCPUProfile", "Close"})
       /\ mem = Etat(flags.memProfile, {"WriteTo", "mf.Close"})
       /\ affiche = (~flags.quiet /\ "Printf" \notin pannes)
       /\ pc = "rendu" /\ ~res.Err
  /\ etape = "sorti" /\ code = 1 => "complet" \notin {cpu, mem} /\ ~affiche
  /\ etape = "sorti" /\ (flags.list \/ flags.impl \notin Names) =>
       cpu = "aucun" /\ mem = "aucun" /\ carte = <<>>
=============================================================================
