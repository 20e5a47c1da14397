------------------------------- MODULE CosMap -------------------------------
(***************************************************************************)
(* What CosDict promises: a map from names to values.                      *)
(***************************************************************************)
CONSTANTS Names,     \* what makes keys equal
          Values,
          Absent     \* no value, and no map

VARIABLE map         \* the value of each name, or Absent

Init == map = Absent

Create == map = Absent /\ map' = [n \in Names |-> Absent]

Set == map # Absent /\ map' \in {[map EXCEPT ![n] = v] : n \in Names, v \in Values}

Destroy == map' = Absent

Next == Create \/ Destroy \/ Set

Spec == Init /\ [][Next]_map
=============================================================================
