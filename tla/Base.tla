--------------------------------- MODULE Base -------------------------------
(***************************************************************************)
(* The PostgreSQL database of internal/store, as its schema and its        *)
(* statements use it.  A statement commits by itself, as a whole or not at *)
(* all.                                                                    *)
(***************************************************************************)
EXTENDS Integers, FiniteSets, Sequences

VARIABLES
  tables,      \* the schema was created
  runs,        \* the ids in table runs
  prochain,    \* the next id of its sequence
  turns,       \* the rows of table turns: [run_id, turn, fingerprint]
  index,       \* idx_turns_fingerprint exists
  aJour        \* ANALYZE has seen the rows and the index as they are

base == <<tables, runs, prochain, turns, index, aJour>>

BInit ==
  /\ tables = FALSE /\ runs = {} /\ prochain = 1 /\ turns = {}
  /\ index = FALSE /\ aJour = FALSE

(* CREATE TABLE IF NOT EXISTS.                                             *)
CreeTables ==
  tables' = TRUE /\ UNCHANGED <<runs, prochain, turns, index, aJour>>

(* TRUNCATE ... RESTART IDENTITY CASCADE.                                  *)
Tronque ==
  /\ tables
  /\ runs' = {} /\ turns' = {} /\ prochain' = 1 /\ aJour' = FALSE
  /\ UNCHANGED <<tables, index>>

(* An id taken from the sequence is not given back when the row is not.    *)
InsereRun ==
  /\ tables
  /\ runs' = runs \cup {prochain} /\ prochain' = prochain + 1
  /\ UNCHANGED <<tables, turns, index, aJour>>
BruleId ==
  /\ tables /\ prochain' = prochain + 1
  /\ UNCHANGED <<tables, runs, turns, index, aJour>>

(* The primary key and the foreign key.                                    *)
Cle(l) == <<l.run_id, l.turn>>
SansDoublon(s) == \A a, b \in DOMAIN s : a # b => Cle(s[a]) # Cle(s[b])
(* A bug: the schema has no primary key.                                   *)
AdmisesSansCle(s) == tables /\ \A n \in DOMAIN s : s[n].run_id \in runs
Admises(s) ==
  /\ tables
  /\ \A n \in DOMAIN s : s[n].run_id \in runs
  /\ SansDoublon(s)
  /\ \A n \in DOMAIN s, l \in turns : Cle(l) # Cle(s[n])
Insere(s) ==
  /\ Admises(s)
  /\ turns' = turns \cup {s[n] : n \in DOMAIN s} /\ aJour' = FALSE
  /\ UNCHANGED <<tables, runs, prochain, index>>

(* CREATE INDEX IF NOT EXISTS, which needs the table; DROP INDEX IF EXISTS,*)
(* which needs nothing; ANALYZE turns.                                     *)
PoseIndex(b) ==
  /\ b => tables
  /\ index' = b /\ aJour' = (aJour /\ index' = index)
  /\ UNCHANGED <<tables, runs, prochain, turns>>
Analyse ==
  /\ tables /\ aJour' = TRUE
  /\ UNCHANGED <<tables, runs, prochain, turns, index>>
=============================================================================
