------------------------------- MODULE Bitpack ------------------------------
(***************************************************************************)
(* internal/bitpack: feu and repos are four planes of machine words, one   *)
(* bit a cell, and the cells without wind are spread a whole word at a     *)
(* time.  A word is the set of its bits that are 1; |, & and &^ are \cup,  *)
(* \cap and \.  A row starts on a word of its own, so the last word of a   *)
(* row may have padding bits.                                              *)
(***************************************************************************)
EXTENDS Fire, FiniteSets

CONSTANTS
  Maps,
  WordBits          \* bits of a word: 64 in the code

VARIABLES
  carte,
  f1, f2, r1, r2,   \* weights 1 and 2 of feu and of repos
  source, ignite,
  burning,
  pc, k,            \* k: the fire, row or word the loop under way is at
  count

vars == <<carte, f1, f2, r1, r2, source, ignite, burning, pc, k, count>>
plans == <<f1, f2, r1, r2>>

Bits == 0 .. WordBits - 1
Words(m) == (m.width + WordBits - 1) \div WordBits
LastBit(m) == (m.width - 1) % WordBits
LastMask(m) == 0 .. LastBit(m)
Mots(m) == 0 .. Words(m) * m.height - 1
Vide(m) == [i \in Mots(m) |-> {}]

(* at: the word and the bit of a cell.                                     *)
Mot(m, c) == c[2] * Words(m) + c[1] \div WordBits
Bit(c) == c[1] % WordBits
Lit(plan, m, c) == Bit(c) \in plan[Mot(m, c)]
Pose(plan, m, c) == [plan EXCEPT ![Mot(m, c)] = @ \cup {Bit(c)}]

(* The planes New fills from the map, and the targets of its windy cells.  *)
Plan(m, S) == [i \in Mots(m) |-> {Bit(c) : c \in {b \in S : Mot(m, b) = i}}]
PlainPlan(m)  == Plan(m, {c \in Cells(m) : m.terrain[c] = Plain})
ForestPlan(m) == Plan(m, {c \in Cells(m) : m.terrain[c] = Forest})
WindPlan(m)   == Plan(m, {c \in Cells(m) : m.wind[c] # 0})
Targets(m, c) ==
  LET d == m.wind[c] - 1 IN
  {At(m, c[1] + Dx(j), c[2] + Dy(j)) :
      j \in {j \in Directions : (j - d) % 8 \notin 3..5}}
    \cup {At(m, c[1] + 2 * Dx(d), c[2] + 2 * Dy(d))}

Init ==
  /\ carte \in Maps
  /\ f1 = Vide(carte) /\ f2 = Vide(carte) /\ r1 = Vide(carte) /\ r2 = Vide(carte)
  /\ source = Vide(carte) /\ ignite = Vide(carte)
  /\ burning = 0 /\ count = 0
  /\ pc = "new" /\ k = 0

(* A bug: a duplicate fire is counted twice.                               *)
AllumeDouble ==
  /\ pc = "new" /\ k < Len(carte.fires)
  /\ k' = k + 1
  /\ LET c == carte.fires[k']  t == carte.terrain[c] IN
     /\ f1' = IF t = Plain THEN Pose(f1, carte, c) ELSE f1
     /\ f2' = IF t = Forest THEN Pose(f2, carte, c) ELSE f2
     /\ burning' = IF t = Water THEN burning ELSE burning + 1
  /\ UNCHANGED <<carte, r1, r2, source, ignite, pc, count>>

Allume ==
  /\ pc = "new" /\ k < Len(carte.fires)
  /\ k' = k + 1
  /\ LET c == carte.fires[k']
         t == IF Lit(f1, carte, c) \/ Lit(f2, carte, c) THEN Water
              ELSE carte.terrain[c]
     IN  /\ f1' = IF t = Plain THEN Pose(f1, carte, c) ELSE f1
         /\ f2' = IF t = Forest THEN Pose(f2, carte, c) ELSE f2
         /\ burning' = IF t = Water THEN burning ELSE burning + 1
  /\ UNCHANGED <<carte, r1, r2, source, ignite, pc, count>>

Pret ==
  /\ pc = "new" /\ k = Len(carte.fires)
  /\ pc' = "idle" /\ k' = 0
  /\ UNCHANGED <<carte, plans, source, ignite, burning, count>>

Step ==
  /\ pc = "idle"
  /\ ignite' = Vide(carte)
  /\ source' = [i \in Mots(carte) |-> (f1[i] \cup f2[i]) \ WindPlan(carte)[i]]
  /\ pc' = "spread" /\ k' = 0
  /\ UNCHANGED <<carte, plans, burning, count>>

(* spread: the word i of the row that starts at word r, with its left and  *)
(* right shifts; the bit that leaves a word enters its neighbour, and the  *)
(* ends of the row are joined at its real width.                           *)
Gauche(r, i) ==
  LET last == Words(carte) - 1  src == source[r + i]
      entre == IF i > 0 THEN WordBits - 1 \in source[r + i - 1]
               ELSE LastBit(carte) \in source[r + last]
  IN  ({b + 1 : b \in src} \cap Bits) \cup IF entre THEN {0} ELSE {}
(* A bug: the row is joined at the end of its last word, not of the map.   *)
DroiteBordDuMot(r, i) ==
  LET last == Words(carte) - 1
      suiv == IF i < last THEN source[r + i + 1] ELSE source[r]
  IN  ({b - 1 : b \in source[r + i]} \cap Bits)
        \cup IF 0 \in suiv THEN {WordBits - 1} ELSE {}
Droite(r, i) ==
  LET last == Words(carte) - 1  src == source[r + i] IN
  ({b - 1 : b \in src} \cap Bits) \cup
    IF i < last THEN IF 0 \in source[r + i + 1] THEN {WordBits - 1} ELSE {}
    ELSE IF 0 \in source[r] THEN {LastBit(carte)} ELSE {}
(* A bug: the padding bits are not cleared.                                *)
SansMasque(i, v) == v
Masque(i, v) == IF i = Words(carte) - 1 THEN v \cap LastMask(carte) ELSE v

Ligne ==
  /\ pc = "spread" /\ k < carte.height
  /\ LET w    == Words(carte)
         prev == IF k = 0 THEN carte.height - 1 ELSE k - 1
         suiv == IF k + 1 = carte.height THEN 0 ELSE k + 1
     IN  ignite' = [n \in Mots(carte) |->
           LET i == n % w IN
           IF n \div w \in {prev, k, suiv}
           THEN Masque(i, ignite[n] \cup source[k * w + i]
                            \cup Gauche(k * w, i) \cup Droite(k * w, i))
           ELSE ignite[n]]
  /\ k' = k + 1
  /\ UNCHANGED <<carte, plans, source, burning, pc, count>>

(* The windy cells, one by one in the code, only add bits to ignite.       *)
Vents ==
  /\ pc = "spread" /\ k = carte.height
  /\ LET windy == {c \in Cells(carte) :
                     carte.wind[c] # 0 /\ (Lit(f1, carte, c) \/ Lit(f2, carte, c))}
         vise == Plan(carte, UNION {Targets(carte, c) : c \in windy})
     IN  ignite' = [i \in Mots(carte) |-> ignite[i] \cup vise[i]]
  /\ pc' = "apply" /\ k' = 0 /\ count' = 0
  /\ UNCHANGED <<carte, plans, source, burning>>

(* The four planes of the word i one turn later.                           *)
Apres(i) ==
  LET fresh == ignite[i] \ (f1[i] \cup f2[i] \cup r1[i] \cup r2[i]) IN
  [f1 |-> f2[i] \cup (fresh \cap PlainPlan(carte)[i]),
   f2 |-> fresh \cap ForestPlan(carte)[i],
   r1 |-> (r2[i] \ r1[i]) \cup (f1[i] \cap ForestPlan(carte)[i]),
   r2 |-> (r2[i] \cap r1[i]) \cup f1[i]]

Apply ==
  /\ pc = "apply" /\ k \in Mots(carte)
  /\ LET a == Apres(k) IN
     /\ f1' = [f1 EXCEPT ![k] = a.f1] /\ f2' = [f2 EXCEPT ![k] = a.f2]
     /\ r1' = [r1 EXCEPT ![k] = a.r1] /\ r2' = [r2 EXCEPT ![k] = a.r2]
     /\ count' = count + Cardinality(a.f1 \cup a.f2)
  /\ k' = k + 1
  /\ UNCHANGED <<carte, source, ignite, burning, pc>>

Rend ==
  /\ pc = "apply" /\ k \notin Mots(carte)
  /\ burning' = count
  /\ pc' = "idle" /\ k' = 0 /\ count' = 0
  /\ UNCHANGED <<carte, plans, source, ignite>>

Next == Allume \/ Pret \/ Step \/ Ligne \/ Vents \/ Apply \/ Rend

Spec == Init /\ [][Next]_vars

-----------------------------------------------------------------------------
(* The padding bits of the last word of a row are never set: they would be *)
(* counted as burning cells, and carried into the row by a shift.          *)
Remplissage ==
  \A y \in 0 .. carte.height - 1 :
    LET n == (y + 1) * Words(carte) - 1 IN
    f1[n] \cup f2[n] \cup r1[n] \cup r2[n] \cup ignite[n] \subseteq LastMask(carte)

(* What Fire and Rest answer, from the planes of one word.                 *)
Poids(b1, b2, b) == (IF b \in b1 THEN 1 ELSE 0) + (IF b \in b2 THEN 2 ELSE 0)

(* The words the last loop has not reached are seen as it will leave them. *)
Mots4(i) == IF pc = "apply" /\ i >= k THEN Apres(i)
            ELSE [f1 |-> f1[i], f2 |-> f2[i], r1 |-> r1[i], r2 |-> r2[i]]

FeuVu ==
  [c \in Cells(carte) |->
     IF pc = "new"
     THEN IF \E n \in DOMAIN carte.fires : carte.fires[n] = c
          THEN Combustion(carte.terrain[c]) ELSE 0
     ELSE LET m == Mots4(Mot(carte, c)) IN Poids(m.f1, m.f2, Bit(c))]
ReposVu ==
  [c \in Cells(carte) |->
     LET m == Mots4(Mot(carte, c)) IN Poids(m.r1, m.r2, Bit(c))]
=============================================================================
