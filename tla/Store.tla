-------------------------------- MODULE Store -------------------------------
(***************************************************************************)
(* internal/store: the package between one caller and PostgreSQL.  A       *)
(* statement may not reach the database, be refused by it, or be done and  *)
(* its answer lost: the caller sees an error in every case, and may try    *)
(* again.  Its tests and benchmarks are the callers there are: they run    *)
(* one call at a time, and forget their runs when they Reset.              *)
(***************************************************************************)
EXTENDS Base

CONSTANTS
  Demi,         \* half of the fingerprints there are: 2^63 in the code
  Listes,       \* the lists of turns that may be written
  Empreintes,   \* the fingerprints that may be asked for
  MaxAppels     \* bound: calls ever made

Largeur == 2 * Demi
ASSUME StoreAssumption ==
  /\ Demi \in Nat \ {0} /\ MaxAppels \in Nat
  /\ Empreintes \subseteq 0 .. Largeur - 1
  /\ Listes \subseteq Seq([turn : Nat, fingerprint : 0 .. Largeur - 1])

VARIABLES
  ouvert,       \* the pool is open
  tenus,        \* the ids NewRun returned
  appel,        \* the call in progress and its next statement
  rendu,        \* the last call that returned, its error and its value
  appels,       \* calls made so far
  avant,        \* history: the rows when an insertion began
  acquises,     \* history: the rows the calls that returned nil wrote
  echecs        \* history: a call failed

client == <<ouvert, tenus, appels, avant, acquises, echecs>>
vars == <<base, client, appel, rendu>>

Appel(op, id, liste, empreinte) ==
  [op |-> op, run |-> id, liste |-> liste, empreinte |-> empreinte, k |-> 1]
Aucun == Appel("aucun", 0, <<>>, 0)
Rendu(a, err, valeur) == [appel |-> a, err |-> err, valeur |-> valeur]

Init ==
  /\ BInit
  /\ ouvert = FALSE /\ tenus = {} /\ appel = Aucun /\ rendu = Rendu(Aucun, FALSE, 0)
  /\ appels = 0 /\ avant = {} /\ acquises = 0 /\ echecs = FALSE

(* A uint64 read again as an int64.                                        *)
(* A bug: the conversion saturates.                                        *)
Int64Sature(u) == IF u < Demi THEN u ELSE Demi - 1
Int64(u) == IF u < Demi THEN u ELSE u - Largeur

-----------------------------------------------------------------------------
(* The calls.  Migrate may be the only one before there are tables.        *)
Appels ==
  {Appel(op, 0, <<>>, 0) : op \in {"Migrate", "Reset", "NewRun", "CountTurns",
                                   "AddIndex", "DropIndex"}}
  \cup {Appel(op, id, l, 0) : op \in {"InsertTurns", "CopyTurns"},
                              id \in tenus, l \in Listes}
  \cup {Appel("Interroge", 0, <<>>, e) : e \in Empreintes}

Ouvre ==
  /\ ~ouvert
  /\ ouvert' \in BOOLEAN
  /\ UNCHANGED <<base, tenus, appel, rendu, appels, avant, acquises, echecs>>

Ferme ==
  /\ ouvert /\ appel = Aucun
  /\ ouvert' = FALSE /\ tenus' = {}
  /\ UNCHANGED <<base, appel, rendu, appels, avant, acquises, echecs>>

Commence(a) ==
  /\ ouvert /\ appel = Aucun
  /\ appels < MaxAppels /\ appels' = appels + 1
  /\ appel' = a /\ rendu' = Rendu(Aucun, FALSE, 0)
  /\ avant' = IF a.op \in {"InsertTurns", "CopyTurns"} THEN turns ELSE {}
  /\ IF a.op = "Reset"
     THEN tenus' = {} /\ acquises' = 0 /\ echecs' = FALSE
     ELSE UNCHANGED <<tenus, acquises, echecs>>
  /\ UNCHANGED <<base, ouvert>>

Rend(valeur) ==
  /\ appel' = Aucun /\ rendu' = Rendu(appel, FALSE, valeur)
  /\ acquises' = acquises + Len(appel.liste)
  /\ UNCHANGED <<ouvert, appels, avant, echecs>>
Echoue ==
  /\ appel' = Aucun /\ rendu' = Rendu(appel, TRUE, 0)
  /\ echecs' = TRUE
  /\ UNCHANGED <<ouvert, tenus, appels, avant, acquises>>
Poursuit ==
  /\ appel' = [appel EXCEPT !.k = @ + 1]
  /\ UNCHANGED <<client, rendu>>

(* One statement: done, then answered or not; or not done.                 *)
Exec(effet, suite) ==
  \/ effet /\ (suite \/ Echoue)
  \/ UNCHANGED base /\ Echoue

Ligne(t) == [run_id |-> appel.run, turn |-> t.turn, fingerprint |-> Int64(t.fingerprint)]
Lignes == [n \in DOMAIN appel.liste |-> Ligne(appel.liste[n])]

Migrate == appel.op = "Migrate" /\ Exec(CreeTables, Rend(0) /\ UNCHANGED tenus)
Reset == appel.op = "Reset" /\ Exec(Tronque, Rend(0) /\ UNCHANGED tenus)

NewRun ==
  /\ appel.op = "NewRun"
  /\ \/ Exec(InsereRun, Rend(prochain) /\ tenus' = tenus \cup {prochain})
     \/ BruleId /\ Echoue

(* A bug: a row that is refused does not stop the others.                  *)
InsertTurnSansArret ==
  /\ appel.op = "InsertTurns" /\ appel.k <= Len(appel.liste)
  /\ \/ Exec(Insere(<<Lignes[appel.k]>>), Poursuit)
     \/ UNCHANGED base /\ Poursuit
InsertTurn ==
  /\ appel.op = "InsertTurns" /\ appel.k <= Len(appel.liste)
  /\ Exec(Insere(<<Lignes[appel.k]>>), Poursuit)

InsertFin ==
  /\ appel.op = "InsertTurns" /\ appel.k > Len(appel.liste)
  /\ Rend(0)
  /\ UNCHANGED <<base, tenus>>

CopyTurns == appel.op = "CopyTurns" /\ Exec(Insere(Lignes), Rend(0) /\ UNCHANGED tenus)

CountTurns ==
  /\ appel.op = "CountTurns"
  /\ Exec(tables /\ UNCHANGED base, Rend(Cardinality(turns)) /\ UNCHANGED tenus)

(* No row is an answer too: 0.                                             *)
Interroge ==
  /\ appel.op = "Interroge"
  /\ Exec(tables /\ UNCHANGED base,
          /\ Rend(Cardinality({l \in turns : l.fingerprint = Int64(appel.empreinte)}))
          /\ UNCHANGED tenus)

(* AddIndex and DropIndex: the index, then ANALYZE.                        *)
(* A bug: ANALYZE comes first.                                             *)
AnalyseAvant == 1
RangAnalyse == 2
Index ==
  /\ appel.op \in {"AddIndex", "DropIndex"} /\ appel.k <= 2
  /\ Exec(IF appel.k = RangAnalyse THEN Analyse ELSE PoseIndex(appel.op = "AddIndex"),
          IF appel.k = 1 THEN Poursuit ELSE Rend(0) /\ UNCHANGED tenus)

Next ==
  \/ Ouvre \/ Ferme \/ \E a \in Appels : Commence(a)
  \/ Migrate \/ Reset \/ NewRun \/ InsertTurn \/ InsertFin \/ CopyTurns
  \/ CountTurns \/ Interroge \/ Index

Spec == Init /\ [][Next]_vars

-----------------------------------------------------------------------------
(* What the error of an insertion says of the table.  Without one, both    *)
(* ways wrote exactly the rows asked for; with one, InsertTurns left a     *)
(* prefix of them, possibly all, and CopyTurns all or nothing.  Whatever   *)
(* was there before is still there.                                        *)
Insertion ==
  LET a == rendu.appel
      ecrites == turns \ avant
      ligne(n) == [run_id |-> a.run, turn |-> a.liste[n].turn,
                   fingerprint |-> Int64(a.liste[n].fingerprint)]
      debut(n) == {ligne(m) : m \in 1..n}
  IN  a.op \in {"InsertTurns", "CopyTurns"} =>
        /\ avant \subseteq turns
        /\ \E n \in 0 .. Len(a.liste) :
             /\ ecrites = debut(n) /\ Cardinality(ecrites) = n
             /\ ~rendu.err => n = Len(a.liste)
             /\ a.op = "CopyTurns" => n \in {0, Len(a.liste)}

(* A call tried again is never counted twice: the rows of the calls that   *)
(* returned without error are all there, each for itself, and if no call   *)
(* failed there are no others.                                             *)
CompteJuste ==
  appel = Aucun =>
    /\ acquises <= Cardinality(turns)
    /\ ~echecs => acquises = Cardinality(turns)

(* Stored in a signed column, a fingerprint is still told from every       *)
(* other: Interroge counts the turns of the one asked for, those whose     *)
(* 64 bits are its own.                                                    *)
EmpreinteFidele ==
  rendu.appel.op = "Interroge" /\ ~rendu.err =>
    rendu.valeur =
      Cardinality({l \in turns : l.fingerprint % Largeur = rendu.appel.empreinte})

(* After AddIndex or DropIndex the planner knows the table as it is, the   *)
(* index included, also when an earlier try failed half way.               *)
PlanAJour ==
  rendu.appel.op \in {"AddIndex", "DropIndex"} /\ ~rendu.err =>
    aJour /\ index = (rendu.appel.op = "AddIndex")
=============================================================================
