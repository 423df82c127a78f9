------------------------------- MODULE MCStore ------------------------------
EXTENDS Store

Tour(t, e) == [turn |-> t, fingerprint |-> e]

(* One turn; three, one of whose fingerprints has its high bit set; the    *)
(* same turn twice; none.                                                  *)
MCListes ==
  {<<Tour(0, 3)>>, <<Tour(0, 3), Tour(1, 7), Tour(2, 3)>>,
   <<Tour(1, 4), Tour(1, 5)>>, <<>>}
MCEmpreintes == {3, 4, 7}
=============================================================================
