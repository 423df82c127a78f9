----------------------------- MODULE Generation -----------------------------
(***************************************************************************)
(* fire.Generate (internal/fire/carte.go): two random fields smoothed on   *)
(* the torus, thresholds taken in them at the quantiles asked for, winds   *)
(* and fires drawn among the cells that burn.  Cells are numbered from 0   *)
(* as the slices are.                                                      *)
(*                                                                         *)
(* The numbers of a field are naturals: only their order and their gaps    *)
(* matter, so the division of a smoothing pass by 9 is a change of scale.  *)
(* A proportion is a fraction; a local no longer used is emptied.          *)
(***************************************************************************)
EXTENDS Fire, FiniteSets, SequencesExt

CONSTANTS
  Configs,     \* the configurations Generate is given
  Hasards,     \* the numbers the generator may draw for a field
  Rafales      \* the wind codes it may draw

Proportions == [num : Int, den : Nat \ {0}]
Config == [Width : Nat \ {0}, Height : Nat \ {0}, Scale : Int, Fires : Int,
           Lakes : Proportions, Rivers : Proportions, Forest : Proportions,
           Wind : Proportions]
ASSUME GenerationAssumption ==
  Configs \subseteq Config /\ Hasards \subseteq Nat /\ Rafales \subseteq 1..8

VARIABLES
  cfg, pc,
  f, p,             \* the field being smoothed and the passes done
  alt, veg, ecart,
  seuils,           \* the thresholds, by name
  terrain, combustibles, wind, fires,
  reste, out, n     \* tirage: what is left, what was drawn, how many to draw

champs == <<f, p, alt, veg, ecart, seuils>>
tirage == <<reste, out, n>>
vars == <<cfg, pc, champs, terrain, combustibles, wind, fires, tirage>>

Indices == 0 .. cfg.Width * cfg.Height - 1

Init ==
  /\ cfg \in Configs
  /\ f \in [Indices -> Hasards] /\ p = 0 /\ pc = "alt"
  /\ alt = <<>> /\ veg = <<>> /\ ecart = <<>> /\ seuils = <<>>
  /\ terrain = [i \in Indices |-> Water] /\ wind = [i \in Indices |-> 0]
  /\ combustibles = <<>> /\ fires = <<>>
  /\ reste = <<>> /\ out = <<>> /\ n = 0

-----------------------------------------------------------------------------
(* champLisse: a pass adds up the 3 x 3 cells around each cell, in another *)
(* buffer.                                                                 *)
Voisin(i, dx, dy) ==
  Mod((i \div cfg.Width) + dy, cfg.Height) * cfg.Width + Mod((i % cfg.Width) + dx, cfg.Width)
Rangee(i, dy) == f[Voisin(i, -1, dy)] + f[Voisin(i, 0, dy)] + f[Voisin(i, 1, dy)]
Moyenne(i) == Rangee(i, -1) + Rangee(i, 0) + Rangee(i, 1)

Lisse ==
  /\ pc \in {"alt", "veg"} /\ p < cfg.Scale
  /\ f' = [i \in Indices |-> Moyenne(i)] /\ p' = p + 1
  /\ UNCHANGED <<cfg, pc, alt, veg, ecart, seuils, terrain, combustibles, wind, fires, tirage>>

FinAlt ==
  /\ pc = "alt" /\ p >= cfg.Scale
  /\ alt' = f /\ f' \in [Indices -> Hasards] /\ p' = 0
  /\ pc' = "veg"
  /\ UNCHANGED <<cfg, veg, ecart, seuils, terrain, combustibles, wind, fires, tirage>>

FinVeg ==
  /\ pc = "veg" /\ p >= cfg.Scale
  /\ veg' = f /\ f' = <<>> /\ p' = 0
  /\ pc' = "seuils"
  /\ UNCHANGED <<cfg, alt, ecart, seuils, terrain, combustibles, wind, fires, tirage>>

-----------------------------------------------------------------------------
(* A threshold is a number of a field or an infinity; no number is below   *)
(* the one or above the other.                                             *)
MoinsInf == -1
PlusInf == -2
Dessous(a, b) == a # PlusInf /\ (b = PlusInf \/ a < b)

(* int(num / den), for a product of floats that should be an integer may   *)
(* fall just below it, unless the proportion in it is a binary fraction.   *)
Binaire(q) == \E d \in {1, 2, 4, 8, 16} : (q.num * d) % q.den = 0
(* A bug: the rank is one too high.                                        *)
EntiersTropHauts(num, den, exact) == {num \div den + 1}
Entiers(num, den, exact) ==
  LET i == num \div den IN
  IF exact \/ i * den < num THEN {i} ELSE {i - 1, i}
Rangs(q, m) == Entiers(q.num * m, q.den, Binaire(q))

(* The entry number i, from 0, of a field once sorted.                     *)
Trie(g, i) ==
  CHOOSE v \in Range(g) :
    /\ Cardinality({k \in DOMAIN g : Dessous(g[k], v)}) <= i
    /\ Cardinality({k \in DOMAIN g : ~Dessous(v, g[k])}) > i

(* The values quantile may return.                                         *)
(* A bug: a rank past the end is the last one.                             *)
QuantileSansBord(g, q) ==
  IF DOMAIN g = {} THEN {PlusInf}
  ELSE {IF i <= 0 THEN MoinsInf
        ELSE IF i >= Cardinality(DOMAIN g) THEN Trie(g, Cardinality(DOMAIN g) - 1)
        ELSE Trie(g, i) : i \in Rangs(q, Cardinality(DOMAIN g))}
Quantile(g, q) ==
  IF DOMAIN g = {} THEN {PlusInf}
  ELSE {IF i <= 0 THEN MoinsInf
        ELSE IF i >= Cardinality(DOMAIN g) THEN PlusInf
        ELSE Trie(g, i) : i \in Rangs(q, Cardinality(DOMAIN g))}

Distance(a, b) ==
  IF b \in {MoinsInf, PlusInf} THEN PlusInf ELSE IF a < b THEN b - a ELSE a - b
Moitie == [num |-> 1, den |-> 2]
Complement(q) == [q EXCEPT !.num = q.den - q.num]

Seuils ==
  /\ pc = "seuils"
  /\ \E median \in Quantile(alt, Moitie) :
       ecart' = [i \in Indices |-> Distance(alt[i], median)]
  /\ \E bassin \in Quantile(alt, cfg.Lakes), berge \in Quantile(ecart', cfg.Rivers) :
       seuils' = [bassin |-> bassin, berge |-> berge]
  /\ pc' = "eau"
  /\ UNCHANGED <<cfg, f, p, alt, veg, terrain, combustibles, wind, fires, tirage>>

Lacs == {i \in Indices : Dessous(alt[i], seuils.bassin)}
Rivieres == {i \in Indices : Dessous(ecart[i], seuils.berge)}
Seches == {i \in Indices : terrain[i] # Water}

Eau ==
  /\ pc = "eau"
  /\ terrain' = [i \in Indices |-> IF i \in Lacs \cup Rivieres THEN Water ELSE Plain]
  /\ pc' = "foret"
  /\ UNCHANGED <<cfg, champs, combustibles, wind, fires, tirage>>

(* The numbers of a set in the order a loop meets them.                    *)
Croissante(S) ==
  [k \in 1 .. Cardinality(S) |-> CHOOSE i \in S : Cardinality({j \in S : j < i}) = k - 1]

(* The threshold of the forest is taken on dry land only.                  *)
Foret ==
  /\ pc = "foret"
  /\ \E lisiere \in Quantile([i \in Seches |-> veg[i]], Complement(cfg.Forest)) :
       terrain' = [i \in Indices |->
         IF i \in Seches /\ ~Dessous(veg[i], lisiere) THEN Forest ELSE terrain[i]]
  /\ combustibles' = Croissante(Seches)
  /\ alt' = <<>> /\ ecart' = <<>> /\ seuils' = <<>>
  /\ pc' = "vent"
  /\ UNCHANGED <<cfg, f, p, veg, wind, fires, tirage>>

-----------------------------------------------------------------------------
(* tirage(combustibles, k).                                                *)
CommenceTirage(k, suite) ==
  /\ n' = k /\ out' = <<>>
  /\ reste' = IF k <= 0 THEN <<>> ELSE combustibles
  /\ pc' = suite

(* A bug: the element drawn stays.                                         *)
SansRetirer(s, j) == s
(* The last element takes the place of the one drawn.                      *)
Retire(s, j) == SubSeq([s EXCEPT ![j] = Last(s)], 1, Len(s) - 1)

Tire ==
  /\ pc \in {"rafales", "foyers"} /\ Len(out) < n /\ reste # <<>>
  /\ \E j \in DOMAIN reste :
       out' = Append(out, reste[j]) /\ reste' = Retire(reste, j)
  /\ UNCHANGED <<cfg, pc, champs, terrain, combustibles, wind, fires, n>>
Tiree == ~(Len(out) < n /\ reste # <<>>)

(* int(Wind * n + 0.5).                                                    *)
Vent ==
  /\ pc = "vent"
  /\ \E k \in Entiers(2 * cfg.Wind.num * Len(combustibles) + cfg.Wind.den,
                      2 * cfg.Wind.den, Binaire(cfg.Wind)) : CommenceTirage(k, "rafales")
  /\ veg' = <<>>
  /\ UNCHANGED <<cfg, f, p, alt, ecart, seuils, terrain, combustibles, wind, fires>>

FinVent ==
  /\ pc = "rafales" /\ Tiree
  /\ \E codes \in [Range(out) -> Rafales] :
       wind' = [i \in Indices |-> IF i \in Range(out) THEN codes[i] ELSE 0]
  /\ CommenceTirage(cfg.Fires, "foyers")
  /\ UNCHANGED <<cfg, champs, terrain, combustibles, fires>>

Rend ==
  /\ pc = "foyers" /\ Tiree
  /\ fires' = out /\ reste' = <<>> /\ out' = <<>> /\ n' = 0
  /\ pc' = "rendu"
  /\ UNCHANGED <<cfg, champs, terrain, combustibles, wind>>

Next ==
  \/ Lisse \/ FinAlt \/ FinVeg \/ Seuils \/ Eau \/ Foret
  \/ Vent \/ Tire \/ FinVent \/ Rend

Spec == Init /\ [][Next]_vars

-----------------------------------------------------------------------------
(* The map, as the engines know it.                                        *)
Carte ==
  LET case(i) == <<i % cfg.Width, i \div cfg.Width>>
      indice(c) == c[2] * cfg.Width + c[1]
      C == (0 .. cfg.Width - 1) \X (0 .. cfg.Height - 1)
  IN  [width |-> cfg.Width, height |-> cfg.Height,
       terrain |-> [c \in C |-> terrain[indice(c)]],
       wind |-> [c \in C |-> wind[indice(c)]],
       fires |-> [k \in DOMAIN fires |-> case(fires[k])]]

Borne(q) == q.num >= 0 /\ q.num <= q.den

(* Whatever it is asked, Generate returns a map the engines accept, with   *)
(* no wind and no fire on water, no fire twice, as many fires as asked as  *)
(* long as there are cells for them, and the nearest number of winds.      *)
CarteJouable ==
  pc = "rendu" =>
    /\ WellFormed(Carte)
    /\ IsInjective(fires)
    /\ \A i \in Range(fires) \cup {k \in Indices : wind[k] > 0} : terrain[i] # Water
    /\ Len(fires) = Min({Max({cfg.Fires, 0}), Cardinality(Seches)})
    /\ LET vents == Cardinality({i \in Indices : wind[i] > 0})
           ecarts == cfg.Wind.num * Cardinality(Seches) - vents * cfg.Wind.den
       IN  Borne(cfg.Wind) => 2 * Max({ecarts, -ecarts}) <= cfg.Wind.den

(* The part of a field below its quantile never exceeds the proportion,    *)
(* and without equal values it is short of it by less than one cell, two   *)
(* when the product fell below an integer.                                 *)
Juste(part, g, q) ==
  LET m == Cardinality(DOMAIN g) IN
  Borne(q) =>
    /\ Cardinality(part) * q.den <= q.num * m
    /\ IsInjective(g) /\ PlusInf \notin Range(g) =>
         (Cardinality(part) + IF Binaire(q) THEN 1 ELSE 2) * q.den > q.num * m

(* Lakes, banks and open land, each in its own proportion of its own cells.*)
ProportionsTenues ==
  /\ pc = "eau" => Juste(Lacs, alt, cfg.Lakes) /\ Juste(Rivieres, ecart, cfg.Rivers)
  /\ pc = "vent" =>
       Juste({i \in Seches : terrain[i] = Plain}, [i \in Seches |-> veg[i]],
             Complement(cfg.Forest))

(* A proportion of nothing or less gives nothing, of one or more the whole,*)
(* equal values or not; a single cell has no median, hence no river.       *)
Extremes ==
  LET Bord(part, tout, q) ==
        /\ q.num <= 0 => part = {}
        /\ q.num >= q.den => part = tout
  IN  /\ pc = "eau" =>
           /\ Bord(Lacs, Indices, cfg.Lakes)
           /\ Cardinality(Indices) > 1 => Bord(Rivieres, Indices, cfg.Rivers)
           /\ Cardinality(Indices) = 1 => Rivieres = {}
      /\ pc = "vent" => Bord({i \in Seches : terrain[i] = Forest}, Seches, cfg.Forest)
=============================================================================
