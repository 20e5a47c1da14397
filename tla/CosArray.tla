------------------------------ MODULE CosArray ------------------------------
(***************************************************************************)
(* CosArray: a growing array of items that calls back to retain what is    *)
(* inserted and to release what is removed. The items are counted objects; *)
(* an array of plain values has no callbacks. Indices begin at 0.          *)
(***************************************************************************)
EXTENDS CosCapacity, Sequences, FiniteSets, FiniteSetsExt

CONSTANTS Items,        \* the counted objects
          Hints,        \* the capacity hints
          CapacityMax,  \* the most that can be allocated
          LengthMax,    \* a bound on the items that are inserted
          HeldMax,      \* a bound on the references the caller holds to an item
          Junk,         \* a cell that was never written
          Nothing

ASSUME ArrayAssumption == {CapacityMax, LengthMax, HeldMax} \cup Hints \subseteq Nat

\* The arrays, and lists of items, of which Nothing is none.
Arrays == [cells : Seq(Items \cup {Junk}), count : Nat, capacity : Nat,
           callbacks : {"none", "release", "both"}]

ASSUME NothingAssumption == Nothing \notin Arrays \cup Seq(Items)

VARIABLES array,   \* its cells, count, capacity and callbacks, or Nothing
          refs,    \* the references to each item
          held,    \* how many of them are the caller's
          out,     \* the item that was read last
          fault    \* memory was touched that is not the array's

vars == <<array, refs, held, out, fault>>

(***************************************************************************)
(* Creation and destruction.                                               *)
(***************************************************************************)
Init == /\ array = Nothing
        /\ refs = [x \in Items |-> 0]
        /\ held = [x \in Items |-> 0]
        /\ out = Nothing
        /\ fault = FALSE

Retains(callbacks)  == callbacks = "both"
Releases(callbacks) == callbacks \in {"release", "both"}

Create ==
  /\ array = Nothing
  /\ \E hint \in Hints, callbacks \in {"none", "release", "both"} :
       /\ RoundCapacity(hint) <= CapacityMax
       /\ array' = [cells |-> [i \in 1 .. RoundCapacity(hint) |-> Junk], count |-> 0,
                    capacity |-> RoundCapacity(hint), callbacks |-> callbacks]
  /\ UNCHANGED <<refs, held, out, fault>>

Occurrences(cells, first, last, x) == Cardinality({i \in first .. last : cells[i] = x})

\* cos_apply_func_ with the release callback; a cell that holds no item faults.
Released(cells, first, last) ==
  IF Releases(array.callbacks)
  THEN [x \in Items |-> refs[x] - Occurrences(cells, first, last, x)] ELSE refs

Destroy ==
  /\ array # Nothing
  /\ refs' = Released(array.cells, 1, array.count)
  /\ array' = Nothing
  /\ UNCHANGED <<held, out, fault>>

(***************************************************************************)
(* The caller's own references.                                            *)
(***************************************************************************)
Acquire(x) ==
  /\ held[x] < HeldMax
  /\ refs' = [refs EXCEPT ![x] = refs[x] + 1]
  /\ held' = [held EXCEPT ![x] = held[x] + 1]
  /\ UNCHANGED <<array, out, fault>>

Drop(x) ==
  /\ held[x] > 0
  /\ refs' = [refs EXCEPT ![x] = refs[x] - 1]
  /\ held' = [held EXCEPT ![x] = held[x] - 1]
  /\ UNCHANGED <<array, out, fault>>

(***************************************************************************)
(* Insertion.                                                              *)
(***************************************************************************)
\* cos_array_resize_: what the array may be afterwards.
Resized(a, required) ==
  IF a.capacity >= required THEN {a}
  ELSE {[a EXCEPT !.capacity = c, !.cells = [i \in 1 .. c |-> IF i <= a.capacity THEN a.cells[i] ELSE Junk]] :
          c \in {RoundCapacity(required)} \cap 1 .. CapacityMax}

\* The items behind the insertion point, moved to the end of its range.
Shifted(a, i, n) ==
  [k \in 1 .. a.capacity |-> IF k \in i + n + 1 .. a.count + n THEN a.cells[k - n] ELSE a.cells[k]]

Written(cells, i, items) ==
  [k \in DOMAIN cells |-> IF k \in i + 1 .. i + Len(items) THEN items[k - i] ELSE cells[k]]

\* Mutant: the cells behind the inserted ones are retained.
RetainedBehind(i, items, cells) ==
  IF Retains(array.callbacks)
  THEN [x \in Items |-> refs[x] + Occurrences(cells, i + 2, Min({i + 1 + Len(items), Len(cells)}), x)]
  ELSE refs

Retained(i, items, cells) ==
  IF Retains(array.callbacks)
  THEN [x \in Items |-> refs[x] + Occurrences(cells, i + 1, i + Len(items), x)] ELSE refs

\* An array that releases what it does not retain takes the caller's references.
Transferred(items, x) ==
  IF array.callbacks = "release" THEN Occurrences(items, 1, Len(items), x) ELSE 0

\* cos_array_insert_items_.
InsertItems(i, items) ==
  /\ array # Nothing
  /\ \A x \in Items : held[x] >= Occurrences(items, 1, Len(items), x)
  /\ array.count + Len(items) <= LengthMax
  /\ \/ /\ i <= array.count
        /\ \E a \in Resized(array, array.count + Len(items)) :
             LET cells == Written(Shifted(a, i, Len(items)), i, items)
             IN  /\ array' = [a EXCEPT !.cells = cells, !.count = a.count + Len(items)]
                 /\ refs' = Retained(i, items, cells)
        /\ held' = [x \in Items |-> held[x] - Transferred(items, x)]
        /\ UNCHANGED <<out, fault>>
     \/ UNCHANGED vars               \* the index is out of bounds, or memory was short

\* Inserted at the end: appended, or pushed.
AppendItems(items) == array # Nothing /\ InsertItems(array.count, items)

(***************************************************************************)
(* Removal.                                                                *)
(***************************************************************************)
\* The items behind the removed ones, moved to where they were.
Closed(a, i, n) ==
  [k \in 1 .. a.capacity |-> IF k \in i + 1 .. a.count - n THEN a.cells[k + n] ELSE a.cells[k]]

\* cos_array_remove_items_: only the index is checked. If the range ends behind
\* the last item, cells that are no items are released, and the number of the
\* trailing items, which is unsigned, is beyond all memory.
RemoveItems(i, n) ==
  /\ array # Nothing /\ n > 0 /\ i < array.count
  /\ IF i + n <= array.count
     THEN /\ refs' = Released(array.cells, i + 1, i + n)
          /\ array' = [array EXCEPT !.cells = Closed(array, i, n), !.count = array.count - n]
          /\ UNCHANGED fault
     ELSE fault' = TRUE /\ UNCHANGED <<array, refs>>
  /\ UNCHANGED held

\* No item is removed: the index is out of bounds, or there is nothing to do.
RemoveNothing == array # Nothing /\ UNCHANGED vars

RemoveLastItem ==
  array # Nothing /\ array.count > 0 /\ RemoveItems(array.count - 1, 1) /\ UNCHANGED out

\* Mutant: the index is taken to begin at 1.
GetItemFromOne(i) ==
  /\ array # Nothing /\ i < array.count
  /\ out' = array.cells[IF i + 2 <= array.capacity THEN i + 2 ELSE i + 1]

GetItem(i) ==
  /\ array # Nothing /\ i < array.count
  /\ out' = array.cells[i + 1]

\* The item is read, and then removed, which releases it.
PopLastItem ==
  /\ array # Nothing /\ array.count > 0
  /\ GetItem(array.count - 1)
  /\ RemoveItems(array.count - 1, 1)

Lists == {<<x>> : x \in Items} \cup {<<x, y>> : x, y \in Items}

Caller ==
  \/ Create \/ Destroy
  \/ \E x \in Items : Acquire(x) \/ Drop(x)
  \/ \E items \in Lists : AppendItems(items) \/ \E i \in 0 .. LengthMax : InsertItems(i, items)
  \/ RemoveNothing \/ RemoveLastItem \/ PopLastItem
  \/ \E i \in 0 .. LengthMax : GetItem(i) /\ UNCHANGED <<array, refs, held, fault>>

\* The caller removes items that are there, or any.
Next == Caller \/ \E i \in 0 .. LengthMax : \E n \in 1 .. LengthMax :
                    /\ array # Nothing /\ i + n <= array.count
                    /\ RemoveItems(i, n) /\ UNCHANGED out

NextAnyRange == Caller \/ \E i \in 0 .. LengthMax : \E n \in 1 .. LengthMax :
                            RemoveItems(i, n) /\ UNCHANGED out

Spec == Init /\ [][Next]_vars

SpecAnyRange == Init /\ [][NextAnyRange]_vars

(***************************************************************************)
(* Properties.                                                             *)
(***************************************************************************)
\* The array has cells for its capacity, and its items are in them.
TypeOK ==
  array # Nothing =>
    /\ Len(array.cells) = array.capacity
    /\ array.count \in 0 .. array.capacity
    /\ \A i \in 1 .. array.count : array.cells[i] \in Items

\* An item has as many references as its caller holds and, if the array counts
\* them, as it is in the array: the callbacks are given the right cells, before
\* or after they move.
RefsExact ==
  \A x \in Items :
    refs[x] = held[x] + IF array # Nothing /\ Releases(array.callbacks)
                        THEN Occurrences(array.cells, 1, array.count, x) ELSE 0

\* The array is a list (CosList), whichever of its allocations fail.
ListOf == INSTANCE CosList WITH
  list <- IF array = Nothing THEN Nothing ELSE SubSeq(array.cells, 1, array.count)

IsList == ListOf!Spec

\* "Ensure that the index is within the bounds of the array." (CosArray.c:463):
\* no call touches memory that is not the array's.
InBounds == ~fault

\* "Returns the next power of 2 greater than or equal to @p x." (CosUtils.h:16)
NextPow2IsLeast ==
  array # Nothing =>
    \A x \in 1 .. CapacityMax : NextPow2(x) >= x /\ \A k \in 0 .. x : Bit[k] >= x => NextPow2(x) <= Bit[k]
=============================================================================
