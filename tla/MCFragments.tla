---------------------------- MODULE MCFragments ----------------------------
(***************************************************************************)
(* Fragments on a small instance: all three handlers, three entities and   *)
(* room for two assemblies.                                                *)
(***************************************************************************)
EXTENDS Fragments, TLC

CONSTANTS e1, e2, e3

MCEntities == {e1, e2, e3}
Symmetry == Permutations(MCEntities)

=============================================================================
