-------------------------- MODULE MCDeferredPlacer --------------------------
(* Model-checking instances of DeferredPlacer: rows, and tick slots, are    *)
(* interchangeable, so safety runs may permute them.                        *)
EXTENDS DeferredPlacer, TLC

Symmetry == Permutations(Orders) \union Permutations(Ticks)
=============================================================================
