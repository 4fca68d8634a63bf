------------------------- MODULE MCBundlePipeline -------------------------
(***************************************************************************)
(* TLC instances of BundlePipeline: interchangeable items, plans, bundles  *)
(* and workers for the safety runs.                                        *)
(***************************************************************************)
EXTENDS BundlePromise, TLC

Symmetric == Permutations(Items) \cup Permutations(Plans)
                \cup Permutations(Bundles) \cup Permutations(Workers)
SymmetricButItems == Permutations(Plans)
                \cup Permutations(Bundles) \cup Permutations(Workers)
=============================================================================
