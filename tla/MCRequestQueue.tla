--------------------------- MODULE MCRequestQueue ---------------------------
(***************************************************************************)
(* Instances of RequestQueue for TLC.  Addresses and tasks are stored and  *)
(* compared, never ordered.                                                *)
(***************************************************************************)
EXTENDS RequestQueue, TLC

Symmetry == Permutations(Addresses) \cup Permutations(Tasks)
=============================================================================
