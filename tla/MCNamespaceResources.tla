------------------------- MODULE MCNamespaceResources -------------------------
(***************************************************************************)
(* NamespaceResources for TLC: images are interchangeable, as nothing but  *)
(* their equality is ever asked for.                                       *)
(***************************************************************************)
EXTENDS NamespaceResources, TLC

ImageSymmetry == Permutations(Images)

=============================================================================
