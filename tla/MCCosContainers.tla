-------------------------- MODULE MCCosContainers ---------------------------
(***************************************************************************)
(* Arrays: two items in up to five cells of four, which grow to eight, or  *)
(* of eight from the start; the caller holds up to two references to an    *)
(* item, so that it can be in the array twice.                             *)
(*                                                                         *)
(* Dictionaries: keys 1 to 5 and NULL; as name objects, 5 has the name of  *)
(* 1, and three of the four names collide in tables of four, at their last *)
(* slot, and not in tables of eight.                                       *)
(*                                                                         *)
(* Ring buffers: of no slots, which hang, and of one to three, which wrap  *)
(* around and double to four or more; up to five items.                    *)
(***************************************************************************)
EXTENDS CosContainers, TLC

KeyNames == <<1, 2, 3, 4, 1>> @@ (0 :> 0)
Hashes   == 0 :> 0 @@ 1 :> 3 @@ 2 :> 7 @@ 3 :> 11 @@ 4 :> 0

Symmetry == Permutations(Items) \cup Permutations(Values)
=============================================================================
