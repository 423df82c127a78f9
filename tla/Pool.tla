-------------------------------- MODULE Pool --------------------------------
(***************************************************************************)
(* internal/snapshot/pool.go: slices kept from one Write to the next in a  *)
(* sync.Pool.  A slice is its backing array; the length of an array is its *)
(* capacity, and an array nobody can reach any more is empty.  Instanced   *)
(* once for the bytes and once for the words of Protobuf.                  *)
(***************************************************************************)
EXTENDS Integers, SequencesExt

CONSTANT MaxTampons  \* bound: the arrays that may be live at once

VARIABLES
  pot,               \* the slices given back, the latest last
  mem                \* by array, its contents

Tampons == 1 .. MaxTampons

PInit == pot = <<>> /\ mem = [b \in Tampons |-> <<>>]

(* Go hands out zeroed memory; which free array it is does not matter.     *)
Neuf(n) == [x \in 1..n |-> 0]
Libre(tenus) == Min(Tampons \ (Range(pot) \cup tenus))

(* Get: the latest slice given back, or the oldest when another processor  *)
(* has it.                                                                 *)
Offerts == {s \in {1, Len(pot)} : s \in DOMAIN pot}

(* prendre, b being the array returned and tenus those in use: a slice of  *)
(* the pot; a new one, the slice Get gave being too short and dropped; a   *)
(* new one, Get having nothing to give.                                    *)
Reprend(b, n) ==
  \E s \in Offerts :
    /\ pot[s] = b /\ Len(mem[b]) >= n
    /\ pot' = RemoveAt(pot, s)
    /\ UNCHANGED mem

Remplace(b, n, tenus) ==
  \E s \in Offerts :
    /\ Len(mem[pot[s]]) < n
    /\ b = Libre(tenus)
    /\ pot' = RemoveAt(pot, s)
    /\ mem' = [mem EXCEPT ![pot[s]] = <<>>, ![b] = Neuf(n)]

Alloue(b, n, tenus) ==
  /\ b = Libre(tenus)
  /\ mem' = [mem EXCEPT ![b] = Neuf(n)]
  /\ UNCHANGED pot

Prendre(actif, b, n, tenus) ==
  \/ actif /\ Reprend(b, n)
  \/ actif /\ Remplace(b, n, tenus)
  \/ (actif => pot = <<>>) /\ Alloue(b, n, tenus)

(* A bug: a slice is given back twice.                                     *)
RendreDeuxFois(actif, s) == IF actif THEN pot \o s \o s ELSE pot
(* rendre: the pot once the slices of s are given back.                    *)
Rendre(actif, s) == IF actif THEN pot \o s ELSE pot
(* Without recycling an array given back is garbage.                       *)
Garde(actif, s) ==
  IF actif THEN mem ELSE [b \in Tampons |-> IF b \in Range(s) THEN <<>> ELSE mem[b]]

(* The collector empties a pool.                                           *)
Ramasse ==
  /\ pot # <<>>
  /\ pot' = <<>>
  /\ mem' = [b \in Tampons |-> IF b \in Range(pot) THEN <<>> ELSE mem[b]]

(* No array is twice in the pot, or there and in use: two fields or two    *)
(* snapshots written in one array would corrupt each other.                *)
Exclusif(tenus) == IsInjective(pot) /\ Range(pot) \cap tenus = {}
=============================================================================
