----------------------------- MODULE MCPlanning -----------------------------
(***************************************************************************)
(* A TLC instance of Planning.  Items 1 to 4 share bundles: 1, 2 and 3     *)
(* together pass the item limit only, 3 and 4 the byte limit only; 5 is of *)
(* a dedicated feature type and needs a bundle of its own, and so would 6, *)
(* which is over the size limit of an item.                                *)
(***************************************************************************)
EXTENDS Planning

Sizes    == [i \in Items |-> <<1, 1, 2, 3, 5, 7>>[i]]
Features == [i \in Items |-> IF i = 5 THEN "warp" ELSE "default"]
=============================================================================
