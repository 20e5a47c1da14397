---------------------------- MODULE CosRingBuffer ----------------------------
(***************************************************************************)
(* src/common/CosRingBuffer.c: a double-ended queue kept in a circular     *)
(* block that doubles when a push finds it full.  The items are opaque, so *)
(* element_size is left out; calloc's zero bytes are the value Zero.       *)
(***************************************************************************)
EXTENDS Integers, Sequences

CONSTANTS
    Items,          \* the values a caller stores
    Zero,           \* a slot of fresh calloc memory
    NoItem,         \* what `out` holds when the call wrote no item
    CapacityHints,  \* the capacity_hint of cos_ring_buffer_create
    MaxCount        \* bound: no push beyond this many items

VARIABLES
    capacity,   \* number of slots in data
    count,      \* number of items
    head,       \* slot of the first item
    tail,       \* slot after the last item
    data,       \* the slots, 0 .. capacity - 1
    out,        \* *out_item of the last call
    hung        \* TRUE: a call is inside the doubling loop and never leaves it

vars == <<capacity, count, head, tail, data, out, hung>>

Fresh(n) == [i \in 0..(n - 1) |-> Zero]

Init ==
    /\ capacity \in CapacityHints
    /\ count = 0 /\ head = 0 /\ tail = 0
    /\ data = Fresh(capacity)
    /\ out = NoItem
    /\ hung = FALSE

Slot(index) == (head + index) % capacity

-----------------------------------------------------------------------------
(* cos_ring_buffer_resize_ *)

IsPowerOfTwo(p) == \A d \in 2..p : p % d = 0 => d % 2 = 0

\* The first of c, 2c, 4c, ... that is at least r, for 0 < c < r.
Doubled(c, r) ==
    CHOOSE n \in r..(2 * r - 1) : \E p \in 1..n : IsPowerOfTwo(p) /\ n = c * p

\* Mutant: one copy of the whole block, as if head were 0.
CopiedInPlace(n) == [i \in 0..(n - 1) |-> IF i < capacity THEN data[i] ELSE Zero]

\* The slots of the larger block: one copy when the items are contiguous,
\* else the slots from head to the end and then those before tail.
Relocated(n) ==
    LET firstPart == capacity - head
    IN  [i \in 0..(n - 1) |->
            IF tail > head
              THEN IF i < count THEN data[head + i] ELSE Zero
              ELSE IF i < firstPart THEN data[head + i]
                   ELSE IF i < firstPart + tail THEN data[i - firstPart]
                   ELSE Zero]

\* Mutant: the larger block keeps the old tail.
BlockKeepingTail ==
    IF capacity >= count + 1
      THEN [capacity |-> capacity, head |-> head, tail |-> tail, data |-> data]
      ELSE LET n == Doubled(capacity, count + 1)
           IN  [capacity |-> n, head |-> 0, tail |-> tail, data |-> Relocated(n)]

\* The block a push works on.
Block ==
    IF capacity >= count + 1
      THEN [capacity |-> capacity, head |-> head, tail |-> tail, data |-> data]
      ELSE LET n == Doubled(capacity, count + 1)
           IN  [capacity |-> n, head |-> 0, tail |-> count, data |-> Relocated(n)]

-----------------------------------------------------------------------------
(* cos_ring_buffer_push_front, _push_back *)

Pushable == ~hung /\ count < MaxCount /\ capacity > 0

PushFront(item) ==
    /\ Pushable
    /\ LET b == Block
           h == IF b.head = 0 THEN b.capacity - 1 ELSE b.head - 1
       IN  /\ head' = h
           /\ data' = [b.data EXCEPT ![h] = item]
           /\ capacity' = b.capacity
           /\ tail' = b.tail
    /\ count' = count + 1
    /\ out' = NoItem
    /\ UNCHANGED hung

PushBack(item) ==
    /\ Pushable
    /\ LET b == Block
       IN  /\ tail' = (b.tail + 1) % b.capacity
           /\ data' = [b.data EXCEPT ![(b.head + count) % b.capacity] = item]
           /\ capacity' = b.capacity
           /\ head' = b.head
    /\ count' = count + 1
    /\ out' = NoItem
    /\ UNCHANGED hung

\* Full and calloc fails: the push returns false and has changed nothing.
PushOutOfMemory ==
    /\ Pushable
    /\ capacity = count
    /\ out' = NoItem
    /\ UNCHANGED <<capacity, count, head, tail, data, hung>>

\* A buffer created with capacity_hint 0: twice 0 stays 0.
PushHangs ==
    /\ ~hung /\ count < MaxCount
    /\ capacity = 0
    /\ hung' = TRUE
    /\ UNCHANGED <<capacity, count, head, tail, data, out>>

\* The loop goes round once more.
Spin == hung /\ UNCHANGED vars

-----------------------------------------------------------------------------
(* cos_ring_buffer_pop_front, _pop_back, _get_item, _get_first_item,       *)
(* _get_last_item                                                          *)

PopFront ==
    /\ ~hung /\ count > 0
    /\ out' = data[Slot(0)]
    /\ head' = (head + 1) % capacity
    /\ count' = count - 1
    /\ UNCHANGED <<capacity, tail, data, hung>>

PopBack ==
    /\ ~hung /\ count > 0
    /\ out' = data[Slot(count - 1)]
    /\ tail' = IF tail = 0 THEN capacity - 1 ELSE tail - 1
    /\ count' = count - 1
    /\ UNCHANGED <<capacity, head, data, hung>>

\* _get_first_item reads index 0 and _get_last_item index count - 1.
GetItem(index) ==
    /\ ~hung /\ index < count
    /\ out' = data[Slot(index)]
    /\ UNCHANGED <<capacity, count, head, tail, data, hung>>

\* A pop of an empty buffer, a read at an index >= count: the call returns false.
Refuse ==
    /\ ~hung
    /\ out' = NoItem
    /\ UNCHANGED <<capacity, count, head, tail, data, hung>>

Next ==
    \/ \E item \in Items : PushFront(item) \/ PushBack(item)
    \/ PushOutOfMemory
    \/ PushHangs
    \/ Spin
    \/ PopFront
    \/ PopBack
    \/ \E index \in 0..count : GetItem(index)
    \/ Refuse

Spec == Init /\ [][Next]_vars

-----------------------------------------------------------------------------
(* What is checked *)

\* The types, with the slots that hold items holding items.
TypeOK ==
    /\ capacity \in Nat /\ count \in Nat /\ head \in Nat /\ tail \in Nat
    /\ data \in [0..(capacity - 1) -> Items \cup {Zero}]
    /\ out \in Items \cup {NoItem}
    /\ hung \in BOOLEAN

\* tail is redundant: every operation keeps it where head and count say it
\* is, so the copy of a resize (lines 382-406), which trusts tail, and the
\* writes of a push, which trust head and count, speak of the same slots.
TailAgrees ==
    /\ count <= capacity
    /\ capacity > 0 => head < capacity /\ tail = Slot(count)

\* No slot that holds an item is calloc's zero: nothing is lost when the
\* items wrap around the end of the block or move to a larger one.
ItemsStored == \A i \in 0..(count - 1) : data[Slot(i)] \in Items

\* The block moves only when it is full, and then doubles.
GrowsOnlyWhenFull ==
    [][capacity' /= capacity => count = capacity /\ capacity' = 2 * capacity]_vars

\* CosRingBuffer.h:123, 139: a push returns true when the item was pushed and
\* false when an error occurred, so it returns.
PushReturns == ~hung

\* The items as the caller sees them; the abstract queue they implement.
Contents == [i \in 1..count |-> data[Slot(i - 1)]]

Deque == INSTANCE CosDeque WITH contents <- Contents

DequeSpec == Deque!Spec

=============================================================================
