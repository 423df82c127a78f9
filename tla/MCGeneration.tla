---------------------------- MODULE MCGeneration ----------------------------
EXTENDS Generation

Q(a, b) == [num |-> a, den |-> b]
C(w, h, s, lacs, rivieres, foret, vent, foyers) ==
  [Width |-> w, Height |-> h, Scale |-> s, Fires |-> foyers,
   Lakes |-> lacs, Rivers |-> rivieres, Forest |-> foret, Wind |-> vent]

(* One cell; two; squares and rows, smoothed or not; proportions that are  *)
(* binary fractions or not, at the ends and past them.                     *)
MCConfigs ==
  {C(1, 1, 0, Q(0, 1), Q(1, 1), Q(1, 2), Q(1, 2), 2),
   C(2, 1, 1, Q(1, 2), Q(0, 1), Q(1, 3), Q(1, 1), 1),
   C(2, 2, 0, Q(1, 4), Q(1, 4), Q(1, 2), Q(1, 3), 2),
   C(2, 2, 1, Q(1, 5), Q(2, 5), Q(9, 20), Q(3, 2), 1),
   C(2, 2, 0, Q(0, 1), Q(0, 1), Q(3, 4), Q(3, 8), 3),
   C(2, 2, -1, Q(3, 3), Q(1, 3), Q(1, 1), Q(1, 2), 1),
   C(3, 1, 2, Q(1, 3), Q(-1, 2), Q(4, 3), Q(-1, 1), 4),
   C(3, 1, 0, Q(1, 3), Q(1, 3), Q(2, 3), Q(1, 4), -1),
   C(1, 3, 0, Q(-1, 3), Q(3, 2), Q(-1, 4), Q(0, 1), 0)}
=============================================================================
