------------------------------ MODULE Snapshot ------------------------------
(***************************************************************************)
(* internal/snapshot: the state of a turn, what the three formats make of  *)
(* it and what they make of a file.  A file is a sequence of bytes, but a  *)
(* field of a header, or a varint, counts for one whatever its width.      *)
(***************************************************************************)
EXTENDS Fire, SequencesExt

Formats == {"packed", "packedSansDecor", "proto", "json"}

(* The slices of a State run row by row: index y * width + x, plus one.    *)
Nombre(s) == s.width * s.height
Case(w, k) == <<(k - 1) % w, (k - 1) \div w>>
Ligne(f, w, h) == [k \in 1 .. w * h |-> f[Case(w, k)]]

Capture(m, feu, repos, turn) ==
  [turn |-> turn, width |-> m.width, height |-> m.height,
   terrain |-> Ligne(m.terrain, m.width, m.height),
   wind    |-> Ligne(m.wind, m.width, m.height),
   fire    |-> Ligne(feu, m.width, m.height),
   rest    |-> Ligne(repos, m.width, m.height)]

(* FNV-1a over the fire and the rest, taken to be injective.               *)
Empreinte(s) == <<s.fire, s.rest>>

(* What Read returns instead of a state.                                   *)
Illisible == [turn |-> -1]

-----------------------------------------------------------------------------
(* packed: a header, one byte of decor a cell, two cells of state a byte.  *)
Magie == 87
AvecDecor == 1
(* A bug: the flag is set whatever the writer then does.                   *)
EnteteToujoursDecor(s, sans) == <<Magie, s.turn, s.width, s.height, AvecDecor>>
Entete(s, sans) ==
  <<Magie, s.turn, s.width, s.height, IF sans THEN 0 ELSE AvecDecor>>
LongueurEntete == 5

(* The bitwise or of two bytes.                                            *)
Ou(a, b) ==
  LET bit(p) == IF (a \div p) % 2 = 1 \/ (b \div p) % 2 = 1 THEN p ELSE 0 IN
  bit(1) + bit(2) + bit(4) + bit(8) + bit(16) + bit(32) + bit(64) + bit(128)

OctetDecor(s, k) == Ou(s.terrain[k] % 4, (s.wind[k] * 4) % 256)

Quartet(s, k) == Ou(s.fire[k] % 4, (s.rest[k] % 4) * 4)
Moitie(s) == (Nombre(s) + 1) \div 2
(* A bug: the even cell enriches the byte it finds in the buffer.          *)
PairEnrichi(ancien, q) == Ou(ancien, q)
(* The even cell replaces the byte it finds, the odd one enriches it.      *)
Pair(ancien, q) == q
Impair(ancien, q) == Ou(ancien, q * 16)
OctetEtat(ancien, s, k) ==
  LET b == Pair(ancien, Quartet(s, 2 * k - 1)) IN
  IF 2 * k <= Nombre(s) THEN Impair(b, Quartet(s, 2 * k)) ELSE b

LirePacked(f) ==
  LET cells == f[3] * f[4]
      d     == IF f[5] % 2 = AvecDecor THEN cells ELSE 0
      octet(k)   == f[LongueurEntete + d + (k + 1) \div 2]
      quartet(k) == IF k % 2 = 0 THEN octet(k) \div 16 ELSE octet(k)
      decor(k)   == IF d = 0 THEN 0 ELSE f[LongueurEntete + k]
  IN  IF \/ Len(f) < LongueurEntete \/ f[1] # Magie
         \/ cells <= 0 \/ Len(f) < LongueurEntete + d + (cells + 1) \div 2
      THEN Illisible
      ELSE [turn |-> f[2], width |-> f[3], height |-> f[4],
            terrain |-> [k \in 1..cells |-> decor(k) % 4],
            wind    |-> [k \in 1..cells |-> decor(k) \div 4],
            fire    |-> [k \in 1..cells |-> quartet(k) % 4],
            rest    |-> [k \in 1..cells |-> (quartet(k) \div 4) % 4]]

-----------------------------------------------------------------------------
(* proto: three scalars, then four repeated fields with their lengths.     *)
Champ(s, mots, g) == <<Nombre(s)>> \o [k \in 1 .. Nombre(s) |-> mots[g][k]]
Message(s, mots) ==
  <<s.turn, s.width, s.height>> \o Champ(s, mots, 1) \o Champ(s, mots, 2)
                                \o Champ(s, mots, 3) \o Champ(s, mots, 4)
TailleMessage(s) == 3 + 4 * (Nombre(s) + 1)

(* A message cut inside a field is refused, one cut between two fields     *)
(* lacks fields that are then found empty.                                 *)
LireProto(f) ==
  LET cells  == f[2] * f[3]
      entiers == (Len(f) - 3) \div (cells + 1)
      longueur(g) == IF g <= entiers THEN cells ELSE 0
      champ(g) == [k \in 1..cells |-> f[3 + (g - 1) * (cells + 1) + 1 + k]]
  IN  IF \/ Len(f) < 3 \/ cells = 0 \/ (Len(f) - 3) % (cells + 1) # 0
         \/ \E g \in 1..4 : longueur(g) # cells
      THEN Illisible
      ELSE [turn |-> f[1], width |-> f[2], height |-> f[3],
            terrain |-> champ(1), wind |-> champ(2), fire |-> champ(3), rest |-> champ(4)]

-----------------------------------------------------------------------------
(* json: a document of cells with their coordinates, closed by a brace and *)
(* a line feed the reader can do without.  No number is one of these two.  *)
Accolade == -1
FinLigne == -2
Cellule(s, k) ==
  <<(k - 1) % s.width, (k - 1) \div s.width, s.terrain[k], s.wind[k], s.fire[k], s.rest[k]>>
Document(s) ==
  <<s.turn, s.width, s.height>>
    \o [n \in 1 .. 6 * Nombre(s) |-> Cellule(s, (n + 5) \div 6)[((n + 5) % 6) + 1]]
    \o <<Accolade, FinLigne>>

(* A cell goes where its coordinates say, the last one winning; a document *)
(* that is not closed is refused.                                          *)
LireJSON(f) ==
  LET places == 1 .. f[2] * f[3]
      cases  == {6 * c : c \in 1 .. (Len(f) - 4) \div 6}
      ou(c)  == f[c - 1] * f[2] + f[c - 2] + 1
      lues(k)  == {c \in cases : ou(c) = k}
      champ(g) == [k \in places |-> IF lues(k) = {} THEN 0 ELSE f[Max(lues(k)) + g]]
      close    == \E k \in DOMAIN f : k >= Len(f) - 1 /\ f[k] = Accolade
  IN  IF ~close \/ \E c \in cases : ou(c) \notin places
      THEN Illisible
      ELSE [turn |-> f[1], width |-> f[2], height |-> f[3],
            terrain |-> champ(0), wind |-> champ(1), fire |-> champ(2), rest |-> champ(3)]

Lire(format, f) ==
  CASE format \in {"packed", "packedSansDecor"} -> LirePacked(f)
    [] format = "proto" -> LireProto(f)
    [] format = "json"  -> LireJSON(f)
=============================================================================
