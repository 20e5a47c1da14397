---------------------------- MODULE CosContents ----------------------------
(***************************************************************************)
(* What CosString and CosData promise: an object holds a sequence, which   *)
(* grows at its end by whole pieces, is cleared, copied and destroyed, and *)
(* is otherwise what it was, however its memory moved.                     *)
(***************************************************************************)
EXTENDS Integers, Sequences

CONSTANTS Names,     \* the objects
          Pieces,    \* the sequences that are appended
          Absent     \* of an object that does not exist

VARIABLE contents    \* the sequence of each object, or Absent

Exists(x) == contents[x] # Absent

Init == contents = [x \in Names |-> Absent]

Create(x, s) == /\ ~Exists(x)
                /\ contents' = [contents EXCEPT ![x] = s]

Copy(x, y) == Exists(x) /\ Create(y, contents[x])

Extend(x, s) == /\ Exists(x)
                /\ contents' = [contents EXCEPT ![x] = contents[x] \o s]

Clear(x) == Exists(x) /\ contents' = [contents EXCEPT ![x] = <<>>]

Destroy(x) == Exists(x) /\ contents' = [contents EXCEPT ![x] = Absent]

Next == \E x \in Names :
          \/ Create(x, <<>>)
          \/ \E s \in Pieces : Create(x, s) \/ Extend(x, s)
          \/ \E y \in Names : Copy(x, y)
          \/ Clear(x)
          \/ Destroy(x)

Spec == Init /\ [][Next]_contents
=============================================================================
