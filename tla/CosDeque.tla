------------------------------ MODULE CosDeque ------------------------------
(***************************************************************************)
(* What a double-ended queue promises its caller, with nothing about how   *)
(* the items are stored.  CosRingBuffer is shown to implement it.          *)
(***************************************************************************)
EXTENDS Naturals, Sequences

CONSTANTS
    Items,      \* the values a caller stores
    NoItem      \* what `out` holds when an operation returned no item

VARIABLES
    contents,   \* the items, front first
    out         \* what the last operation returned to its caller

vars == <<contents, out>>

Init == contents = <<>> /\ out = NoItem

PushFront(item) == contents' = <<item>> \o contents /\ out' = NoItem

PushBack(item) == contents' = Append(contents, item) /\ out' = NoItem

PopFront ==
    /\ contents /= <<>>
    /\ out' = Head(contents)
    /\ contents' = Tail(contents)

PopBack ==
    /\ contents /= <<>>
    /\ out' = contents[Len(contents)]
    /\ contents' = SubSeq(contents, 1, Len(contents) - 1)

Get(index) ==
    /\ index < Len(contents)
    /\ out' = contents[index + 1]
    /\ UNCHANGED contents

\* A pop of an empty queue, a read out of range, a push without memory.
Refuse == out' = NoItem /\ UNCHANGED contents

Next ==
    \/ \E item \in Items : PushFront(item) \/ PushBack(item)
    \/ PopFront
    \/ PopBack
    \/ \E index \in 0..Len(contents) : Get(index)
    \/ Refuse

Spec == Init /\ [][Next]_vars
=============================================================================
