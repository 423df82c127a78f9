------------------------------- MODULE Engines ------------------------------
(***************************************************************************)
(* The implementations internal/engines registers and what a caller of     *)
(* fire.Engine sees of the one it asked for by name.  New chooses the      *)
(* factory once and for all; from then on only that engine's memory moves. *)
(* The six engines share the names of their variables, not their contents: *)
(* ignite is a set of cells in naive, of indices in ghost, words in        *)
(* bitpack.  A variable an engine does not have stays empty.               *)
(***************************************************************************)
EXTENDS Fire, FiniteSets

CONSTANTS
  MapsDe,           \* by implementation, the maps it is started on
  WordBits          \* bits of a machine word: 64 in the code

Names == {"naive", "flat", "counters", "ghost", "front", "bitpack"}

ToutesCartes == UNION {MapsDe[n] : n \in Names}

ASSUME MapsDeAssumption == DOMAIN MapsDe = Names /\ \A m \in ToutesCartes : WellFormed(m)
ASSUME WordBitsAssumption == WordBits \in Nat \ {0}

VARIABLES
  impl,                                      \* the name given to Get
  carte, grid, next, ignite, burning, pc, k, cur,
  marked, active, resting, pending, j, count,      \* of front
  f1, f2, r1, r2, source                           \* of bitpack

listes == <<marked, active, resting, pending, j>>
plans  == <<f1, f2, r1, r2, source>>
vars == <<impl, carte, grid, next, ignite, burning, pc, k, cur, listes, count, plans>>

naive    == INSTANCE Naive    WITH Maps <- MapsDe["naive"]
flat     == INSTANCE Flat     WITH Maps <- MapsDe["flat"]
counters == INSTANCE Counters WITH Maps <- MapsDe["counters"]
ghost    == INSTANCE Ghost    WITH Maps <- MapsDe["ghost"]
front    == INSTANCE Front    WITH Maps <- MapsDe["front"]
bitpack  == INSTANCE Bitpack  WITH Maps <- MapsDe["bitpack"]

SansListes == marked = {} /\ active = <<>> /\ resting = <<>> /\ pending = <<>> /\ j = 0
SansPlans  == f1 = <<>> /\ f2 = <<>> /\ r1 = <<>> /\ r2 = <<>> /\ source = <<>>

Init ==
  \/ /\ impl = "naive" /\ naive!Init
     /\ next = <<>> /\ burning = 0 /\ count = 0 /\ SansListes /\ SansPlans
  \/ /\ impl = "flat" /\ flat!Init
     /\ burning = 0 /\ count = 0 /\ SansListes /\ SansPlans
  \/ /\ impl = "counters" /\ counters!CInit
     /\ count = 0 /\ SansListes /\ SansPlans
  \/ /\ impl = "ghost" /\ ghost!Init
     /\ count = 0 /\ SansListes /\ SansPlans
  \/ /\ impl = "front" /\ front!Init
     /\ next = <<>> /\ ignite = {} /\ burning = 0 /\ cur = <<>> /\ SansPlans
  \/ /\ impl = "bitpack" /\ bitpack!Init
     /\ grid = <<>> /\ next = <<>> /\ cur = <<>> /\ SansListes

Next ==
  /\ UNCHANGED impl
  /\ \/ /\ impl = "naive" /\ naive!Next
        /\ UNCHANGED <<next, burning, count, listes, plans>>
     \/ /\ impl = "flat" /\ flat!Next
        /\ UNCHANGED <<burning, count, listes, plans>>
     \/ /\ impl = "counters" /\ counters!CNext
        /\ UNCHANGED <<count, listes, plans>>
     \/ /\ impl = "ghost" /\ ghost!Next
        /\ UNCHANGED <<count, listes, plans>>
     \/ /\ impl = "front" /\ front!Next
        /\ UNCHANGED <<next, ignite, burning, cur, plans>>
     \/ /\ impl = "bitpack" /\ bitpack!Next
        /\ UNCHANGED <<grid, next, cur, listes>>

Spec == Init /\ [][Next]_vars

(* What Burning answers: a scan, a counter or the length of a list.        *)
Scan(feu) == Cardinality({c \in Cells(carte) : feu[c] > 0})
Burning ==
  CASE impl \in {"naive", "flat"} -> Scan([c \in Cells(carte) |-> grid[c].feu])
    [] impl \in {"counters", "ghost", "bitpack"} -> burning
    [] impl = "front" -> Len(active)

-----------------------------------------------------------------------------
(* The counters as the turn under way will leave them, or already has.     *)
FeuVu ==
  CASE impl = "naive"   -> naive!FeuVu
    [] impl \in {"flat", "counters", "ghost"} -> ghost!FeuVu
    [] impl = "front"   -> front!FeuVu
    [] impl = "bitpack" -> bitpack!FeuVu
ReposVu ==
  CASE impl = "naive"   -> naive!ReposVu
    [] impl \in {"flat", "counters", "ghost"} -> ghost!ReposVu
    [] impl = "front"   -> front!ReposVu
    [] impl = "bitpack" -> bitpack!ReposVu

R == INSTANCE Regles WITH
       Maps <- ToutesCartes, feu <- FeuVu, repos <- ReposVu

(* Whatever name is given to Get, the engine plays the rules: every Step,  *)
(* cell by cell or word by word, in place or into a second buffer, is one  *)
(* turn of the reference implementation and nothing else.                  *)
Conforme == R!Spec

(* Burning, on which Run stops, is the number of burning cells between two *)
(* Steps: a counter kept up to date never drifts, whether the fires of the *)
(* map are duplicated or laid on water, and no cell is listed twice.       *)
Exact == pc = "idle" => Burning = Scan(FeuVu)

(* No index ghost computes leaves its padded buffer, whatever the size of  *)
(* the map.                                                                *)
DansLeTampon == impl = "ghost" => ghost!DansLeTampon

(* Once ghost has folded its halo, the interior holds the ignitions of the *)
(* torus.                                                                  *)
Replie == impl = "ghost" => ghost!Replie

(* Between two Steps the lists of front say what its grid says.            *)
ListesFideles == impl = "front" => front!ListesFideles

(* No append of front goes past the capacity its lists were given.         *)
SansReallocation == impl = "front" => front!SansReallocation

(* What front has left to read of a compacted list is owed its decrement.  *)
SansDebordement == impl = "front" => front!SansDebordement

(* The padding bits of bitpack are never set.                              *)
Remplissage == impl = "bitpack" => bitpack!Remplissage
=============================================================================
