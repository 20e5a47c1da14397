------------------------------ MODULE CosData ------------------------------
(***************************************************************************)
(* CosData: a byte buffer that is reallocated to the exact size it needs,  *)
(* and one reference to bytes of it that somebody holds. A reallocation    *)
(* fails, grows the buffer where it is, or moves it and frees the old one. *)
(***************************************************************************)
EXTENDS Integers, Sequences, FiniteSetsExt

CONSTANTS Names,         \* the data objects
          Pieces,        \* the bytes that are appended from elsewhere
          CapacityMax,   \* the most that can be allocated
          Buffers,       \* the identities of allocated memory
          Junk,          \* a byte that was never written, or was freed
          NoData, NoRef

VARIABLES data,    \* each object: its buffer, bytes, size and capacity, or NoData
          ref,     \* the reference: its buffer, offset and size, or NoRef
          taken    \* of whom the reference was taken, and what it said

vars == <<data, ref, taken>>

Contents(d) == SubSeq(d.bytes, 1, d.size)

Live == {x \in Names : data[x] # NoData}

Used == {data[x].buffer : x \in Live}

\* The bytes a pointer into a buffer reads: junk behind it, or if it was freed.
Read(heap, r) ==
  LET owners(i) == {x \in Names : heap[x] # NoData /\ heap[x].buffer = r.buffer /\ i <= heap[x].capacity}
      byte(i)   == IF owners(i) = {} THEN Junk ELSE heap[CHOOSE x \in owners(i) : TRUE].bytes[i]
  IN  [i \in 1 .. r.size |-> byte(r.offset + i)]

NotTaken == [of |-> NoData, bytes |-> <<>>]

Init == /\ data = [x \in Names |-> NoData]
        /\ ref = NoRef
        /\ taken = NotTaken

\* A call that changes an object; whoever holds a reference to it gives it up.
Modify(x, d) ==
  /\ data' = [data EXCEPT ![x] = d]
  /\ IF taken.of = x THEN ref' = NoRef /\ taken' = NotTaken ELSE UNCHANGED <<ref, taken>>

Malloc(capacity) == [i \in 1 .. capacity |-> Junk]

\* cos_data_alloc, which may fail. A new object modifies no other.
New(x, capacity, bytes) ==
  \/ /\ data[x] = NoData
     /\ capacity <= CapacityMax
     /\ \E b \in Buffers \ Used :
          data' = [data EXCEPT ![x] =
                     [buffer |-> b, capacity |-> capacity, size |-> Len(bytes),
                      bytes |-> bytes \o Malloc(capacity - Len(bytes))]]
     /\ UNCHANGED <<ref, taken>>
  \/ data[x] = NoData /\ UNCHANGED vars

Alloc(x) == \E hint \in 0 .. CapacityMax : New(x, hint, <<>>)

\* The reserve in cos_data_copy finds the capacity there.
Copy(x, y) == x \in Live /\ New(y, data[x].size, Contents(data[x]))

Free(x) == x \in Live /\ Modify(x, NoData)

Reset(x) == x \in Live /\ Modify(x, [data[x] EXCEPT !.size = 0])

IsLargeEnough(d, required) == d.capacity >= required

Realloced(d, required, b) ==
  [d EXCEPT !.buffer = b, !.capacity = required,
            !.bytes = [i \in 1 .. required |-> IF i <= d.capacity THEN d.bytes[i] ELSE Junk]]

\* cos_data_resize_: what the object may be afterwards.
Resized(x, required) ==
  IF IsLargeEnough(data[x], required) THEN {data[x]}
  ELSE {Realloced(data[x], required, b) :
          b \in IF required > CapacityMax THEN {}
                ELSE {data[x].buffer} \union (Buffers \ Used)}

Reserve(x) ==
  /\ x \in Live
  /\ \E capacity \in 0 .. CapacityMax :
       \/ \E d \in Resized(x, capacity) : d # data[x] /\ Modify(x, d)
       \/ UNCHANGED vars                    \* there was enough, or memory was short

Put(d, bytes) ==
  [d EXCEPT !.size = d.size + Len(bytes),
            !.bytes = Contents(d) \o bytes
                        \o SubSeq(d.bytes, d.size + Len(bytes) + 1, d.capacity)]

\* cos_data_append: the bytes are read after the buffer was resized.
AppendBytes(x) ==
  /\ x \in Live
  /\ \/ \E bytes \in Pieces : \E d \in Resized(x, data[x].size + Len(bytes)) :
          bytes # <<>> /\ Modify(x, Put(d, bytes))
     \/ UNCHANGED vars                      \* nothing to append, or memory was short

PushBack(x) ==
  /\ x \in Live
  /\ \/ \E byte \in UNION {{p[i] : i \in DOMAIN p} : p \in Pieces} :
          \E d \in Resized(x, data[x].size + 1) : Modify(x, Put(d, <<byte>>))
     \/ UNCHANGED vars

\* The bytes that are appended are the object's own.
AppendOwn(x) ==
  /\ x \in Live /\ ref # NoRef /\ taken.of = x /\ ref.size > 0
  /\ \E d \in Resized(x, data[x].size + ref.size) :
       Modify(x, Put(d, Read([data EXCEPT ![x] = d], ref)))

Take(x, offset, size) ==
  /\ ref' = [buffer |-> data[x].buffer, offset |-> offset, size |-> size]
  /\ taken' = [of |-> x, bytes |-> Read(data, ref')]
  /\ UNCHANGED data

GetRef(x) == x \in Live /\ Take(x, 0, data[x].size)

\* Mutant: as much as was asked for, wherever it begins.
RangeLengthUncut(size, offset, length) == IF length < size THEN length ELSE size

RangeLength(size, offset, length) == IF length < size - offset THEN length ELSE size - offset

\* A range that begins behind the end refers to nothing.
GetRange(x) ==
  /\ x \in Live
  /\ \E offset \in 0 .. CapacityMax, length \in 1 .. CapacityMax :
       IF offset >= data[x].size THEN ref' = NoRef /\ taken' = NotTaken /\ UNCHANGED data
       ELSE Take(x, offset, RangeLength(data[x].size, offset, length))

Next == \E x \in Names :
          \/ Alloc(x) \/ Free(x) \/ Reset(x) \/ Reserve(x)
          \/ \E y \in Names : Copy(x, y)
          \/ AppendBytes(x) \/ PushBack(x)
          \/ GetRef(x) \/ GetRange(x)

Spec == Init /\ [][Next]_vars

SpecWithOwnBytes == Init /\ [][Next \/ \E x \in Names : AppendOwn(x)]_vars

(***************************************************************************)
(* Properties.                                                             *)
(***************************************************************************)
\* An object has memory for its capacity, of its own, and its size is in it.
TypeOK ==
  \A x \in Live : /\ Len(data[x].bytes) = data[x].capacity
                  /\ data[x].size \in 0 .. data[x].capacity
                  /\ \A y \in Live \ {x} : data[x].buffer # data[y].buffer

\* A reference is valid until the object is modified or freed (CosData.h:150):
\* until then, whatever else was called, it reads what it read, which was written.
RefsStayValid ==
  ref # NoRef =>
    /\ ref.buffer \in Used
    /\ Read(data, ref) = taken.bytes
    /\ \A i \in 1 .. ref.size : taken.bytes[i] # Junk

\* A data object is a sequence that pieces are appended to (CosContents).
ContentsOf == INSTANCE CosContents WITH
  contents <- [x \in Names |-> IF data[x] = NoData THEN NoData ELSE Contents(data[x])],
  Pieces <- UNION {{p} \union {<<p[i]>> : i \in DOMAIN p} : p \in Pieces},
  Absent <- NoData

HoldsWhatWasAppended == ContentsOf!Spec

\* "Use memmove instead of memcpy in case the source and destination overlap."
\* (CosData.c:173): appending bytes of its own appends what they were.
OwnBytesAppended ==
  [][\A x \in Names : AppendOwn(x) => Contents(data'[x]) = Contents(data[x]) \o taken.bytes]_vars
=============================================================================
