------------------------------ MODULE CosList ------------------------------
(***************************************************************************)
(* What CosArray promises: a list, into which items are inserted and from  *)
(* which they are removed anywhere, and an item that was read out of it.   *)
(***************************************************************************)
EXTENDS Integers, Sequences

CONSTANTS Items,     \* the items
          Nothing    \* of a list that does not exist, and of nothing read

VARIABLES list,      \* the items in order, or Nothing
          out        \* the item that was read last, or Nothing

vars == <<list, out>>

Init == list = Nothing /\ out = Nothing

Create == list = Nothing /\ list' = <<>> /\ UNCHANGED out

Destroy == list # Nothing /\ list' = Nothing /\ UNCHANGED out

Insert(i, items) ==
  list' = SubSeq(list, 1, i) \o items \o SubSeq(list, i + 1, Len(list)) /\ UNCHANGED out

Remove(i, n) == list' = SubSeq(list, 1, i) \o SubSeq(list, i + n + 1, Len(list))

Get(i) == out' = list[i + 1]

Next == \/ Create
        \/ Destroy
        \/ /\ list # Nothing
           /\ \/ \E i \in 0 .. Len(list) : \E x, y \in Items :
                   Insert(i, <<x>>) \/ Insert(i, <<x, y>>)
              \/ \E i \in 0 .. Len(list) - 1 : \/ Get(i) /\ UNCHANGED list
                                               \/ \E n \in 1 .. Len(list) - i :
                                                    Remove(i, n) /\ UNCHANGED out
              \/ list # <<>> /\ Get(Len(list) - 1) /\ Remove(Len(list) - 1, 1)

Spec == Init /\ [][Next]_vars
=============================================================================
