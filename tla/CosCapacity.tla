----------------------------- MODULE CosCapacity -----------------------------
(***************************************************************************)
(* CosContainerUtils and CosUtils: the capacity that a growing container   *)
(* gets.                                                                   *)
(***************************************************************************)
EXTENDS Integers

\* cos_fls: the number of the last bit that is set.
Fls[mask \in Nat] == IF mask = 0 THEN 0 ELSE 1 + Fls[mask \div 2]

\* The value of a bit, 1 << k.
Bit[k \in Nat] == IF k = 0 THEN 1 ELSE 2 * Bit[k - 1]

NextPow2(x) == Bit[Fls[x]]

RoundCapacity(capacity) == IF capacity < 4 THEN 4 ELSE NextPow2(capacity + 1)
=============================================================================
