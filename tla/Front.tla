-------------------------------- MODULE Front -------------------------------
(***************************************************************************)
(* internal/front: a turn visits only the cells that burn, rest or catch   *)
(* fire, kept in three lists of reserved capacity.  The lists are          *)
(* compacted in place while they are ranged over, and the grid is aged in  *)
(* place; no cell is scanned to find out which ones are active.            *)
(***************************************************************************)
EXTENDS Fire, FiniteSets

CONSTANT Maps

VARIABLES
  carte, grid,
  marked,                     \* the cells marked true
  active, resting, pending,   \* the three lists, of cells
  pc,                         \* the loop under way, or "new", or "idle"
  k,                          \* entries that loop has read
  j,                          \* target of the k-th active cell under way
  count                       \* entries a compaction has kept

vars == <<carte, grid, marked, active, resting, pending, pc, k, j, count>>

N == Cardinality(Cells(carte))
Duree(c) == Combustion(carte.terrain[c])

(* wrap: whole turns are added, then subtracted, without a division.       *)
Wrap(x, n) ==
  IF x < 0 THEN x + n * ((n - 1 - x) \div n) ELSE x - n * (x \div n)

Init ==
  /\ carte \in Maps
  /\ grid = [c \in Cells(carte) |-> [feu |-> 0, repos |-> 0]]
  /\ marked = {}
  /\ active = <<>> /\ resting = <<>> /\ pending = <<>>
  /\ pc = "new" /\ k = 0 /\ j = 0 /\ count = 0

(* New: a fire already burning, or on water, is skipped.                   *)
Allume ==
  /\ pc = "new" /\ k < Len(carte.fires)
  /\ k' = k + 1
  /\ LET c == carte.fires[k'] IN
     IF grid[c].feu # 0 \/ Duree(c) = 0
     THEN UNCHANGED <<grid, active>>
     ELSE /\ grid' = [grid EXCEPT ![c].feu = Duree(c)]
          /\ active' = Append(active, c)
  /\ UNCHANGED <<carte, marked, resting, pending, pc, j, count>>

Entre(phase) == pc' = phase /\ k' = 0 /\ j' = 0 /\ count' = 0

Pret ==
  /\ pc = "new" /\ k = Len(carte.fires)
  /\ Entre("idle")
  /\ UNCHANGED <<carte, grid, marked, active, resting, pending>>

Step ==
  /\ pc = "idle"
  /\ Entre("mark")
  /\ UNCHANGED <<carte, grid, marked, active, resting, pending>>

(* The j-th direction of the active cell p, the jump being the ninth.      *)
Ignoree(p, d) ==
  LET wind == carte.wind[p] IN
  IF d < 8 THEN wind # 0 /\ (d - (wind - 1)) % 8 \in 3..5 ELSE wind = 0
Visee(p, d) ==
  LET v == IF d < 8 THEN d ELSE carte.wind[p] - 1
      n == IF d < 8 THEN 1 ELSE 2
  IN  <<Wrap(p[1] + n * Dx(v), carte.width), Wrap(p[2] + n * Dy(v), carte.height)>>

(* A bug: a cell may be marked twice.                                      *)
RefuseeSansMarque(c) == grid[c].feu > 0 \/ grid[c].repos > 0 \/ Duree(c) = 0
Refusee(c) ==
  c \in marked \/ grid[c].feu > 0 \/ grid[c].repos > 0 \/ Duree(c) = 0

Mark ==
  /\ pc = "mark" /\ k < Len(active)
  /\ LET p == active[k + 1] IN
     IF Ignoree(p, j) \/ Refusee(Visee(p, j))
     THEN UNCHANGED <<marked, pending>>
     ELSE /\ marked' = marked \cup {Visee(p, j)}
          /\ pending' = Append(pending, Visee(p, j))
  /\ IF j < 8 THEN j' = j + 1 /\ k' = k ELSE j' = 0 /\ k' = k + 1
  /\ UNCHANGED <<carte, grid, active, resting, pc, count>>

FinMark ==
  /\ pc = "mark" /\ k = Len(active)
  /\ Entre("rest")
  /\ UNCHANGED <<carte, grid, marked, active, resting, pending>>

(* The rests that were there before this turn, compacted in place.         *)
Dort ==
  /\ pc = "rest" /\ k < Len(resting)
  /\ k' = k + 1
  /\ LET i == resting[k'] IN
     /\ grid' = [grid EXCEPT ![i].repos = @ - 1]
     /\ IF grid'[i].repos > 0
        THEN count' = count + 1 /\ resting' = [resting EXCEPT ![count'] = i]
        ELSE UNCHANGED <<count, resting>>
  /\ UNCHANGED <<carte, marked, active, pending, pc, j>>

(* A bug: the compacted list keeps its old length.                         *)
FinDortSansCouper ==
  /\ pc = "rest" /\ k = Len(resting)
  /\ Entre("burn")
  /\ UNCHANGED <<carte, grid, marked, active, resting, pending>>

FinDort ==
  /\ pc = "rest" /\ k = Len(resting)
  /\ resting' = SubSeq(resting, 1, count)
  /\ Entre("burn")
  /\ UNCHANGED <<carte, grid, marked, active, pending>>

(* The fires of the previous turn, compacted in place; those that go out   *)
(* join the resting list.                                                  *)
Brule ==
  /\ pc = "burn" /\ k < Len(active)
  /\ k' = k + 1
  /\ LET p == active[k'] IN
     IF grid[p].feu > 1
     THEN /\ grid' = [grid EXCEPT ![p].feu = @ - 1]
          /\ count' = count + 1 /\ active' = [active EXCEPT ![count'] = p]
          /\ UNCHANGED resting
     ELSE /\ grid' = [grid EXCEPT ![p] = [feu |-> 0, repos |-> Repos(carte.terrain[p])]]
          /\ resting' = Append(resting, p)
          /\ UNCHANGED <<count, active>>
  /\ UNCHANGED <<carte, marked, pending, pc, j>>

FinBrule ==
  /\ pc = "burn" /\ k = Len(active)
  /\ active' = SubSeq(active, 1, count)
  /\ Entre("flush")
  /\ UNCHANGED <<carte, grid, marked, resting, pending>>

(* A bug: the mark of a cell that caught fire is left.                     *)
PrendSansEffacer ==
  /\ pc = "flush" /\ k < Len(pending)
  /\ k' = k + 1
  /\ LET p == pending[k'] IN
     /\ grid' = [grid EXCEPT ![p].feu = Duree(p)]
     /\ active' = Append(active, p)
  /\ UNCHANGED <<carte, marked, resting, pending, pc, j, count>>

Prend ==
  /\ pc = "flush" /\ k < Len(pending)
  /\ k' = k + 1
  /\ LET p == pending[k'] IN
     /\ grid' = [grid EXCEPT ![p].feu = Duree(p)]
     /\ active' = Append(active, p)
     /\ marked' = marked \ {p}
  /\ UNCHANGED <<carte, resting, pending, pc, j, count>>

FinPrend ==
  /\ pc = "flush" /\ k = Len(pending)
  /\ pending' = <<>>
  /\ Entre("idle")
  /\ UNCHANGED <<carte, grid, marked, active, resting>>

Next == \/ Allume \/ Pret \/ Step \/ Mark \/ FinMark \/ Dort \/ FinDort
        \/ Brule \/ FinBrule \/ Prend \/ FinPrend

Spec == Init /\ [][Next]_vars

-----------------------------------------------------------------------------
Contenu(s) == {s[n] : n \in DOMAIN s}
Distincts(s) == Cardinality(Contenu(s)) = Len(s)

(* The lists say what the grid says: between two Steps the active list     *)
(* holds every burning cell once, the resting list every resting cell      *)
(* once, and nothing is left pending or marked.  A cell missing from a     *)
(* list would never age again, and one listed twice would age twice.       *)
ListesFideles ==
  pc = "idle" =>
    /\ Distincts(active) /\ Contenu(active) = {c \in Cells(carte) : grid[c].feu > 0}
    /\ Distincts(resting) /\ Contenu(resting) = {c \in Cells(carte) : grid[c].repos > 0}
    /\ pending = <<>> /\ marked = {}

(* No append of a turn reallocates: the N entries New reserves for each    *)
(* list are enough, even while a list holds old and new entries.           *)
SansReallocation ==
  Len(active) <= N /\ Len(resting) <= N /\ Len(pending) <= N

(* Compacting in place never overwrites an entry still to be read: what is *)
(* left to read of a list is owed its decrement.  The counters are uint8,  *)
(* and a decrement that started from zero would leave 255 turns to burn.   *)
SansDebordement ==
  /\ pc = "rest" => \A n \in k + 1 .. Len(resting) : grid[resting[n]].repos > 0
  /\ pc = "burn" => \A n \in k + 1 .. Len(active) : grid[active[n]].feu > 0

(* The grid as it will stand at the end of the turn, which is decided when *)
(* the marking ends: what each list still has to do is added to it.        *)
Vieillit(c) ==
  CASE pc = "rest" -> c \in Contenu(active) \/ \E n \in k + 1 .. Len(resting) : resting[n] = c
    [] pc = "burn" -> \E n \in k + 1 .. Len(active) : active[n] = c
    [] OTHER -> FALSE
Prendra(c) ==
  CASE pc \in {"rest", "burn"} -> c \in marked
    [] pc = "flush" -> \E n \in k + 1 .. Len(pending) : pending[n] = c
    [] OTHER -> FALSE
FeuVu ==
  [c \in Cells(carte) |->
     CASE pc = "new" -> IF c \in Contenu(carte.fires) THEN Duree(c) ELSE 0
       [] Prendra(c) -> Duree(c)
       [] Vieillit(c) /\ grid[c].feu > 0 -> grid[c].feu - 1
       [] OTHER -> grid[c].feu]
ReposVu ==
  [c \in Cells(carte) |->
     CASE Vieillit(c) /\ grid[c].feu = 1 -> Repos(carte.terrain[c])
       [] Vieillit(c) /\ grid[c].repos > 0 -> grid[c].repos - 1
       [] OTHER -> grid[c].repos]
=============================================================================
