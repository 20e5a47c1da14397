----------------------------- MODULE MCCosBytes -----------------------------
(***************************************************************************)
(* Two strings of up to five characters over two letters; a default        *)
(* capacity of two, so that the strings grow from it, from a hint and from *)
(* the exact capacity of a copy; a hash of four bits.                      *)
(*                                                                         *)
(* Two data objects of up to three bytes, three buffers, so that one is    *)
(* always there to move to, and one reference.                             *)
(*                                                                         *)
(* Streams that are shorter and longer than the buffer of the reader.      *)
(***************************************************************************)
EXTENDS CosBytes, Bitwise, TLC

Texts == {<<>>, <<1>>, <<1, 2>>, <<2, 2, 1>>}

BytePieces == {<<>>, <<1>>, <<2, 1>>}

BitXor(a, b) == a ^^ b

Symmetry == Permutations(Names) \cup Permutations(Buffers)
=============================================================================
