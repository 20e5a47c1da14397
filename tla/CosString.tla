----------------------------- MODULE CosString -----------------------------
(***************************************************************************)
(* CosString: a nul-terminated character array that grows by doubling, its *)
(* comparison and its hash. A call that needs memory may fail, and leaves  *)
(* the string as it was. C strings are sequences without their terminator. *)
(***************************************************************************)
EXTENDS Integers, Sequences, SequencesExt, FiniteSetsExt

CONSTANTS Names,             \* the strings
          Sources,           \* the character arrays that are given to a call
          Hints,             \* the capacity hints
          DefaultCapacity,   \* COS_STRING_DEFAULT_CAPACITY
          CapacityMax,       \* the most that can be allocated
          HashSeed, HashFactor, HashSpace,   \* of the hash, and its range
          ExclusiveOr(_, _), \* of the bits of two numbers
          NoString

VARIABLES string,   \* the object of each name, or NoString
          result    \* what the last call returned: it succeeded or not

vars == <<string, result>>

Nul == 0
Unwritten == 3           \* what allocated memory holds before it is written

Text(s) == SubSeq(s.data, 1, s.length)

(***************************************************************************)
(* The functions of the C library, and cos_strndup.                        *)
(***************************************************************************)
Strlen(str) == Min({i \in 1 .. Len(str) : str[i] = Nul} \union {Len(str) + 1}) - 1

Strndup(str, n) == SubSeq(str, 1, Min({Strlen(str), n}))

Strncpy(str, n) == [i \in 1 .. n |-> IF i <= Strlen(str) THEN str[i] ELSE Nul]

Strncmp(a, b, n) ==
  LET differ == {i \in 1 .. n : a[i] # b[i] /\ \A j \in 1 .. i - 1 : a[j] # Nul}
  IN  IF differ = {} THEN 0 ELSE a[Min(differ)] - b[Min(differ)]

(***************************************************************************)
(* Allocation.                                                             *)
(***************************************************************************)
\* The memory of n characters.
Malloc(n) == [i \in 1 .. n |-> Unwritten]

InitialCapacity(hint) == IF hint = 0 THEN DefaultCapacity ELSE hint

Empty(capacity) ==
  [data |-> [Malloc(capacity) EXCEPT ![1] = Nul], length |-> 0, capacity |-> capacity]

WithStrn(str, n) ==
  LET copy == Strndup(str, n)
  IN  [data |-> Append(copy, Nul), length |-> Len(copy), capacity |-> Len(copy) + 1]

Init == string = [s \in Names |-> NoString] /\ result = TRUE

\* A call that allocates either makes the string or fails.
New(s, made) ==
  /\ string[s] = NoString
  /\ \/ /\ made.capacity <= CapacityMax
        /\ string' = [string EXCEPT ![s] = made]
        /\ result' = TRUE
     \/ result' = FALSE /\ UNCHANGED string

Alloc(s) == \E hint \in Hints : New(s, Empty(InitialCapacity(hint)))

AllocWithStr(s) == \E str \in Sources : New(s, WithStrn(str, Strlen(str)))

AllocWithStrn(s) == \E str \in Sources : \E n \in 0 .. Len(str) : New(s, WithStrn(str, n))

Copy(s, t) == string[s] # NoString /\ New(t, WithStrn(string[s].data, string[s].length))

Free(s) == /\ string[s] # NoString
           /\ string' = [string EXCEPT ![s] = NoString]
           /\ UNCHANGED result

(***************************************************************************)
(* Appending.                                                              *)
(***************************************************************************)
\* Mutant: the new memory is not filled from the old.
ResizedFresh(s, capacity) ==
  [data |-> [Malloc(capacity) EXCEPT ![s.length + 1] = Nul],
   length |-> s.length, capacity |-> capacity]

\* cos_string_resize_, when the memory is there. Growing never truncates.
Resized(s, capacity) ==
  LET length == Min({s.length, capacity - 1})
      kept   == [i \in 1 .. capacity |-> IF i <= s.capacity THEN s.data[i] ELSE Unwritten]
  IN  [data |-> [kept EXCEPT ![length + 1] = Nul], length |-> length, capacity |-> capacity]

\* cos_string_ensure_capacity_: doubled until it is enough, and half of it is not.
Doubled(capacity, required) ==
  {c \in {capacity * 2 ^ k : k \in 1 .. required} : c >= required /\ c < 2 * required}

EnsureCapacity(s, required) ==
  IF s.capacity >= required THEN {s}
  ELSE {Resized(s, c) : c \in Doubled(s.capacity, required) \cap 1 .. CapacityMax}

\* Mutant: no room for the terminator.
RequiredWithoutNul(length, n) == length + n

Required(length, n) == length + n + 1

Put(s, chars) ==
  [s EXCEPT !.data = [i \in 1 .. Len(s.data) |->
                        IF i \in s.length + 1 .. s.length + Len(chars) THEN chars[i - s.length]
                        ELSE IF i = s.length + Len(chars) + 1 THEN Nul ELSE s.data[i]],
            !.length = s.length + Len(chars)]

\* cos_string_append_strn_impl_.
AppendImpl(s, str, n) ==
  \/ /\ n > 0
     /\ \E grown \in EnsureCapacity(string[s], Required(string[s].length, n)) :
          string' = [string EXCEPT ![s] =
                       Put(grown, IF n > 1 THEN Strncpy(str, n) ELSE SubSeq(str, 1, 1))]
     /\ result' = TRUE
  \/ /\ n = 0 \/ string[s].capacity < Required(string[s].length, n)   \* realloc fails
     /\ result' = FALSE
     /\ UNCHANGED string

AppendStr(s) ==
  string[s] # NoString /\ \E str \in Sources : AppendImpl(s, str, Strlen(str))

AppendStrn(s) ==
  string[s] # NoString /\ \E str \in Sources : \E n \in 0 .. Len(str) : AppendImpl(s, str, n)

PushBack(s, c) ==
  /\ string[s] # NoString
  /\ IF c = Nul THEN result' = TRUE /\ UNCHANGED string ELSE AppendImpl(s, <<c>>, 1)

Next == \E s \in Names :
          \/ Alloc(s) \/ AllocWithStr(s) \/ AllocWithStrn(s) \/ Free(s)
          \/ \E t \in Names : Copy(s, t)
          \/ AppendStr(s) \/ AppendStrn(s)
          \/ \E c \in {Nul} \union UNION {Range(str) : str \in Sources} : PushBack(s, c)

Spec == Init /\ [][Next]_vars

(***************************************************************************)
(* Comparing and hashing.                                                  *)
(***************************************************************************)
Cmp(s, t) == IF s.length < t.length THEN -1
             ELSE IF s.length > t.length THEN 1 ELSE Strncmp(s.data, t.data, s.length)

Hashed(chars) == FoldLeft(LAMBDA hash, c : (ExclusiveOr(hash, c) * HashFactor) % HashSpace, HashSeed, chars)

GetHash(s) == Hashed(Text(s))

(***************************************************************************)
(* Properties.                                                             *)
(***************************************************************************)
Live == {string[s] : s \in Names} \ {NoString}

\* The memory of a string is as large as its capacity.
TypeOK ==
  /\ result \in BOOLEAN
  /\ \A s \in Live : s.length \in Nat /\ s.capacity \in Nat /\ Len(s.data) = s.capacity

\* The capacity always has room for the terminator, which is there, whatever was
\* appended, in which pieces, and which of the allocations failed.
TerminatedInCapacity ==
  \A s \in Live : s.capacity >= s.length + 1 /\ s.data[s.length + 1] = Nul

\* Comparing is an order in which only the same texts are equal: a dictionary
\* finds its key by it. It holds of texts without a nul.
CmpIsOrder ==
  \A s, t \in Live :
    /\ Cmp(s, t) = 0 <=> Text(s) = Text(t)
    /\ Cmp(s, t) > 0 <=> Cmp(t, s) < 0

\* Strings that compare as equal hash alike, whichever way each was built and
\* whatever is in the memory behind its text.
EqualHashAlike == \A s, t \in Live : Cmp(s, t) = 0 => GetHash(s) = GetHash(t)

\* A string is a sequence that pieces are appended to (CosContents).
ContentsOf == INSTANCE CosContents WITH
  contents <- [s \in Names |-> IF string[s] = NoString THEN NoString ELSE Text(string[s])],
  Pieces <- UNION {{SubSeq(str, 1, n) : n \in 0 .. Len(str)} \union {<<c>> : c \in Range(str)} :
                     str \in Sources},
  Absent <- NoString

HoldsWhatWasAppended == ContentsOf!Spec

\* "Creates a copy of the string." (CosString.h:129): the copy compares as equal.
CopyIsEqual ==
  [][\A s, t \in Names : Copy(s, t) /\ string'[t] # NoString => Cmp(string'[s], string'[t]) = 0]_vars

\* "@return true if the character was appended" (CosString.h:157).
TrueIfAppended ==
  [][\A s \in Names : \A c \in 0 .. 2 :
       PushBack(s, c) /\ result' => string'[s].length = string[s].length + 1]_<<string, result>>
=============================================================================
