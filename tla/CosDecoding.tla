---------------------------- MODULE CosDecoding ----------------------------
(***************************************************************************)
(* What a filter promises: the contents that its source encodes, in their  *)
(* order and once, however many bytes each call asks for, and then an end  *)
(* behind which there is nothing.  Once the source has failed, the bytes   *)
(* that follow may be any.                                                 *)
(***************************************************************************)
EXTENDS Sequences, SequencesExt

VARIABLES contents,   \* what is encoded
          delivered,  \* the bytes that were read
          failed,     \* the source has failed
          ended       \* the filter says that it is at its end

vars == <<contents, delivered, failed, ended>>

Init == delivered = <<>> /\ ~failed /\ ~ended

Promised == IsPrefix(delivered', contents) /\ (ended' => delivered' = contents)

Next == /\ contents' = contents
        /\ IsPrefix(delivered, delivered')
        /\ failed => failed'
        /\ ended => ended' /\ delivered' = delivered
        /\ failed' \/ Promised

Spec == Init /\ [][Next]_vars
=============================================================================
