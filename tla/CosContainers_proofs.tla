------------------------- MODULE CosContainers_proofs -------------------------
(***************************************************************************)
(* What is proved of arrays, dictionaries and ring buffers                 *)
(* (CosContainers), for every value of the constants.                      *)
(***************************************************************************)
EXTENDS CosContainers, CosCounting

-----------------------------------------------------------------------------
(* The capacities.  An array and the dictionary have them of their own, so *)
(* the facts are about any functions that obey the definitions.            *)

IsFls(f) == f = [mask \in Nat |-> IF mask = 0 THEN 0 ELSE 1 + f[mask \div 2]]
IsBit(f) == f = [k \in Nat |-> IF k = 0 THEN 1 ELSE 2 * f[k - 1]]

\* There is a function that counts the bits of a number.
LEMMA FlsDefined == \E f \in [Nat -> Nat] : IsFls(f)
  <1> DEFINE h == [n \in Nat |-> n \div 2]
             step == [p \in Nat \X Nat |-> 1 + p[2]]
  <1>1. h \in [Nat -> Nat] /\ \A n \in Nat \ {0} : h[n] < n OBVIOUS
  <1>2. step \in [Nat \X Nat -> Nat] OBVIOUS
  <1>3. \A n \in Nat : h[n] = n \div 2 OBVIOUS
  <1>4. \A n, k \in Nat : step[<<n, k>>] = 1 + k OBVIOUS
  <1> HIDE DEF h, step
  <1>5. IsRecursion(Nat, 0, h, step) BY <1>1, <1>2 DEF IsRecursion
  <1>6. PICK f \in [Nat -> Nat] : f = [n \in Nat |-> IF n = 0 THEN 0 ELSE step[<<n, f[h[n]]>>]]
    BY ONLY <1>5, Recursion
  <1>7. ASSUME NEW n \in Nat PROVE f[n] = IF n = 0 THEN 0 ELSE 1 + f[n \div 2]
    <2>1. f[n] = IF n = 0 THEN 0 ELSE step[<<n, f[h[n]]>>] BY <1>6
    <2>2. n \div 2 \in Nat OBVIOUS
    <2>3. f[n \div 2] \in Nat BY <2>2
    <2> QED BY ONLY <1>3, <1>4, <2>1, <2>3, n \in Nat
  <1>8. f = [n \in Nat |-> IF n = 0 THEN 0 ELSE 1 + f[n \div 2]]
    <2>1. f = [n \in Nat |-> f[n]] OBVIOUS
    <2> QED BY <1>7, <2>1
  <1> QED BY <1>8 DEF IsFls

\* There is a function that has the values of the bits.
LEMMA BitDefined == \E f \in [Nat -> Nat] : IsBit(f)
  <1> DEFINE h == [n \in Nat |-> IF n = 0 THEN 0 ELSE n - 1]
             step == [p \in Nat \X Nat |-> 2 * p[2]]
  <1>1. h \in [Nat -> Nat] /\ \A n \in Nat \ {0} : h[n] < n OBVIOUS
  <1>2. step \in [Nat \X Nat -> Nat] OBVIOUS
  <1>3. \A n \in Nat : n # 0 => h[n] = n - 1 OBVIOUS
  <1>4. \A n, k \in Nat : step[<<n, k>>] = 2 * k OBVIOUS
  <1> HIDE DEF h, step
  <1>5. IsRecursion(Nat, 1, h, step) BY <1>1, <1>2 DEF IsRecursion
  <1>6. PICK f \in [Nat -> Nat] : f = [n \in Nat |-> IF n = 0 THEN 1 ELSE step[<<n, f[h[n]]>>]]
    BY ONLY <1>5, Recursion
  <1>7. ASSUME NEW n \in Nat PROVE f[n] = IF n = 0 THEN 1 ELSE 2 * f[n - 1]
    <2>1. f[n] = IF n = 0 THEN 1 ELSE step[<<n, f[h[n]]>>] BY <1>6
    <2>2. n # 0 => n - 1 \in Nat OBVIOUS
    <2>3. n # 0 => f[n - 1] \in Nat BY <2>2
    <2> QED BY ONLY <1>3, <1>4, <2>1, <2>3, n \in Nat
  <1>8. f = [n \in Nat |-> IF n = 0 THEN 1 ELSE 2 * f[n - 1]]
    <2>1. f = [n \in Nat |-> f[n]] OBVIOUS
    <2> QED BY <1>7, <2>1
  <1> QED BY <1>8 DEF IsBit

\* Both are numbers.
LEMMA FlsType == ASSUME NEW f, IsFls(f) PROVE f \in [Nat -> Nat]
  <1> DEFINE T == {x \in Nat : f[x] \notin Nat}
  <1>1. f = [n \in Nat |-> f[n]] BY DEF IsFls
  <1>2. ASSUME T # {} PROVE FALSE
    <2>1. T \in SUBSET Nat OBVIOUS
    <2>2. PICK x \in T : \A k \in T : x <= k BY ONLY <1>2, <2>1, Least
    <2>3. f[x] = IF x = 0 THEN 0 ELSE 1 + f[x \div 2] BY DEF IsFls
    <2>4. x # 0 => x \div 2 \in Nat /\ x \div 2 < x OBVIOUS
    <2>5. x # 0 => f[x \div 2] \in Nat BY <2>2, <2>4
    <2> QED BY <2>3, <2>5
  <1> QED BY <1>1, <1>2

\* A function that answers to the recursion of Bit maps numbers to numbers.
LEMMA BitType == ASSUME NEW f, IsBit(f) PROVE f \in [Nat -> Nat]
  <1> DEFINE S == {n \in Nat : f[n] \in Nat}
  <1>1. f = [n \in Nat |-> f[n]] BY DEF IsBit
  <1>2. 0 \in S BY DEF IsBit
  <1>3. ASSUME NEW n \in Nat, n \in S PROVE n + 1 \in S
    <2>1. n + 1 \in Nat /\ n + 1 # 0 /\ (n + 1) - 1 = n OBVIOUS
    <2>2. f[n + 1] = 2 * f[n] BY <2>1 DEF IsBit
    <2> QED BY <1>3, <2>2
  <1>4. \A n \in Nat : n \in S
    <2> HIDE DEF S
    <2> QED BY ONLY <1>2, <1>3, Induction
  <1> QED BY <1>1, <1>4

\* Shifted by the number of its last bit, one is a number's next power of two.
LEMMA BitAfterLast ==
    ASSUME NEW fls \in [Nat -> Nat], IsFls(fls), NEW bit \in [Nat -> Nat], IsBit(bit)
    PROVE  \A x \in Nat : bit[fls[x]] \in Nat /\ x < bit[fls[x]]
  <1> DEFINE T == {x \in Nat : ~ (x < bit[fls[x]])}
  <1>0. \A x \in Nat : fls[x] \in Nat /\ bit[fls[x]] \in Nat OBVIOUS
  <1> SUFFICES ASSUME T # {} PROVE FALSE BY <1>0
  <1>1. T \in SUBSET Nat OBVIOUS
  <1>2. PICK x \in T : \A k \in T : x <= k BY ONLY <1>1, T # {}, Least
  <1>3. x \in Nat /\ ~ (x < bit[fls[x]]) OBVIOUS
  <1>4. CASE x = 0
    <2>1. fls[0] = 0 /\ bit[0] = 1 BY DEF IsFls, IsBit
    <2> QED BY <1>3, <1>4, <2>1
  <1>5. CASE x # 0
    <2>1. PICK y : y = x \div 2 OBVIOUS
    <2>2. y \in Nat /\ y < x /\ x < 2 * (y + 1) BY <1>3, <1>5, <2>1
    <2>3. ~ (y \in T) BY <1>2, <2>2
    <2>4. y < bit[fls[y]] BY <2>2, <2>3
    <2>5. fls[x] = 1 + fls[y] BY <1>3, <1>5, <2>1 DEF IsFls
    <2>6. PICK k : k = fls[y] OBVIOUS
    <2>7. k \in Nat /\ bit[k] \in Nat BY <2>2, <2>6
    <2>8. bit[1 + k] = 2 * bit[k]
      <3>1. 1 + k \in Nat /\ 1 + k # 0 /\ (1 + k) - 1 = k BY <2>7
      <3> QED BY <3>1 DEF IsBit
    <2> QED BY ONLY <1>3, <2>2, <2>4, <2>5, <2>6, <2>7, <2>8
  <1> QED BY <1>4, <1>5

\* A container gets more than it needs, and never less than four.
LEMMA CapacityRoundedUp ==
    \A n \in Nat : /\ RoundCapacity(n) \in Nat
                   /\ RoundCapacity(n) >= n /\ RoundCapacity(n) >= 4
  <1>1. Fls \in [Nat -> Nat] /\ IsFls(Fls)
    <2>1. Fls = CHOOSE f : IsFls(f) BY DEF Fls, IsFls
    <2>2. IsFls(Fls) BY ONLY <2>1, FlsDefined
    <2> QED BY <2>2, FlsType
  <1>2. Bit \in [Nat -> Nat] /\ IsBit(Bit)
    <2>1. Bit = CHOOSE f : IsBit(f) BY DEF Bit, IsBit
    <2>2. IsBit(Bit) BY ONLY <2>1, BitDefined
    <2> QED BY <2>2, BitType
  <1>3. \A x \in Nat : Bit[Fls[x]] \in Nat /\ x < Bit[Fls[x]] BY ONLY <1>1, <1>2, BitAfterLast
  <1> QED BY <1>3 DEF RoundCapacity, NextPow2

\* The capacity cos_dict_round_capacity_ chooses holds what was asked for,
\* and never fewer than four entries.
LEMMA TableRoundedUp ==
    \A n \in Nat : /\ Dict!RoundCapacity(n) \in Nat
                   /\ Dict!RoundCapacity(n) >= n /\ Dict!RoundCapacity(n) >= 4
  <1>1. Dict!Fls \in [Nat -> Nat] /\ IsFls(Dict!Fls)
    <2>1. Dict!Fls = CHOOSE f : IsFls(f) BY DEF Dict!Fls, IsFls
    <2>2. IsFls(Dict!Fls) BY ONLY <2>1, FlsDefined
    <2> QED BY <2>2, FlsType
  <1>2. Dict!Bit \in [Nat -> Nat] /\ IsBit(Dict!Bit)
    <2>1. Dict!Bit = CHOOSE f : IsBit(f) BY DEF Dict!Bit, IsBit
    <2>2. IsBit(Dict!Bit) BY ONLY <2>1, BitDefined
    <2> QED BY <2>2, BitType
  <1>3. \A x \in Nat : Dict!Bit[Dict!Fls[x]] \in Nat /\ x < Dict!Bit[Dict!Fls[x]]
    BY ONLY <1>1, <1>2, BitAfterLast
  <1> QED BY <1>3 DEF Dict!RoundCapacity, Dict!NextPow2

-----------------------------------------------------------------------------
(* Occurrences of an item among the cells.                                 *)

Where(f, a, b, x) == {i \in a .. b : f[i] = x}

\* They can be counted.
LEMMA WhereFinite ==
    ASSUME NEW f, NEW a \in Int, NEW b \in Int, NEW x PROVE IsFiniteSet(Where(f, a, b, x))
  <1>1. IsFiniteSet(a .. b) BY FS_Interval
  <1>2. Where(f, a, b, x) \subseteq a .. b BY DEF Where
  <1> QED BY ONLY <1>1, <1>2, FS_Subset

\* The occurrences of an item in a range are a number.
LEMMA OccurrencesType ==
    ASSUME NEW f, NEW a \in Int, NEW b \in Int, NEW x PROVE Occurrences(f, a, b, x) \in Nat
  <1>1. IsFiniteSet(Where(f, a, b, x)) BY WhereFinite
  <1>2. Cardinality(Where(f, a, b, x)) \in Nat BY ONLY <1>1, FS_CardinalityType
  <1> QED BY ONLY <1>2 DEF Occurrences, Where

\* The occurrences in two ranges that meet are those in both together.
LEMMA OccurrencesSplit ==
    ASSUME NEW f, NEW a \in Int, NEW b \in Int, NEW m \in Int, NEW c \in Int,
           m = b + 1, a <= m, b <= c, NEW x
    PROVE  Occurrences(f, a, c, x) = Occurrences(f, a, b, x) + Occurrences(f, m, c, x)
  <1> DEFINE A == Where(f, a, b, x)
             B == Where(f, m, c, x)
             C == Where(f, a, c, x)
  <1>1. IsFiniteSet(A) /\ IsFiniteSet(B) BY WhereFinite
  <1>2. C = A \cup B BY DEF Where
  <1>3. A \cap B = {} BY DEF Where
  <1> HIDE DEF A, B, C
  <1>4. Cardinality(C) = Cardinality(A) + Cardinality(B)
    <2>1. Cardinality(A \cup B) = Cardinality(A) + Cardinality(B) - Cardinality(A \cap B)
      BY ONLY <1>1, FS_Union
    <2>2. Cardinality(A \cap B) = 0 BY ONLY <1>3, FS_EmptySet
    <2>3. Cardinality(A) \in Nat /\ Cardinality(B) \in Nat BY ONLY <1>1, FS_CardinalityType
    <2> QED BY ONLY <1>2, <2>1, <2>2, <2>3
  <1> QED BY ONLY <1>4 DEF Occurrences, Where, A, B, C

\* The cells of f are in g, k places on.
MovedBy(f, g, a, b, k) == \A i \in a .. b : g[i + k] = f[i]

\* Moved cells have the same occurrences.
LEMMA OccurrencesShift ==
    ASSUME NEW f, NEW g, NEW a \in Int, NEW b \in Int, NEW k \in Int, MovedBy(f, g, a, b, k),
           NEW a2, NEW b2, a2 = a + k, b2 = b + k, NEW x
    PROVE  Occurrences(g, a2, b2, x) = Occurrences(f, a, b, x)
  <1> DEFINE A == Where(f, a, b, x)
             B == Where(g, a + k, b + k, x)
  <1>1. IsFiniteSet(A) BY WhereFinite
  <1>2. A \in SUBSET Int BY DEF Where
  <1>3. B = {i + k : i \in A}
    <2>1. ASSUME NEW j \in B PROVE j \in {i + k : i \in A}
      <3>1. j - k \in a .. b /\ (j - k) + k = j BY DEF Where
      <3>2. g[j] = f[j - k] BY <3>1 DEF MovedBy
      <3>3. j - k \in A BY <3>1, <3>2 DEF Where
      <3> QED BY <3>1, <3>3
    <2>2. ASSUME NEW i \in A PROVE i + k \in B BY DEF MovedBy, Where
    <2> HIDE DEF A, B
    <2> QED BY <2>1, <2>2
  <1> HIDE DEF A, B
  <1>4. Cardinality(B) = Cardinality(A) BY ONLY <1>1, <1>2, <1>3, ShiftCardinality, k \in Int
  <1>5. Occurrences(g, a + k, b + k, x) = Occurrences(f, a, b, x)
    BY ONLY <1>4 DEF Occurrences, Where, A, B
  <1> QED BY ONLY <1>5, a2 = a + k, b2 = b + k

-----------------------------------------------------------------------------
(* Inserting and removing.                                                 *)

\* An array with cells for its capacity and items in those that are counted.
ArrayOK(a) ==
    /\ a \in Arrays
    /\ Len(a.cells) = a.capacity
    /\ a.count <= a.capacity
    /\ \A i \in 1 .. a.count : a.cells[i] \in Items

\* An array whose cells and count are replaced.
LEMMA RecountedIsOK ==
    ASSUME NEW a, ArrayOK(a), NEW cells \in Seq(Items \cup {Junk}), Len(cells) = a.capacity,
           NEW count \in Nat, count <= a.capacity, \A i \in 1 .. count : cells[i] \in Items
    PROVE  ArrayOK([a EXCEPT !.cells = cells, !.count = count])
  <1>1. PICK r : r = [a EXCEPT !.cells = cells, !.count = count] OBVIOUS
  <1>2. a \in [cells : Seq(Items \cup {Junk}), count : Nat, capacity : Nat,
               callbacks : {"none", "release", "both"}]
    BY DEF ArrayOK, Arrays
  <1>3. /\ r.cells = cells /\ r.count = count /\ r.capacity = a.capacity
        /\ r \in [cells : Seq(Items \cup {Junk}), count : Nat, capacity : Nat,
                  callbacks : {"none", "release", "both"}]
    BY <1>1, <1>2
  <1>4. r \in Arrays BY ONLY <1>3 DEF Arrays
  <1>5. ArrayOK(r) BY <1>3, <1>4 DEF ArrayOK
  <1> QED BY ONLY <1>1, <1>5

\* A resized array has room, and the items it had.
LEMMA ResizedHasRoom ==
    ASSUME NEW a, ArrayOK(a), NEW required \in Nat, NEW r \in Resized(a, required)
    PROVE  /\ ArrayOK(r) /\ required <= r.capacity
           /\ r.count = a.count /\ r.callbacks = a.callbacks
           /\ \A i \in 1 .. a.count : r.cells[i] = a.cells[i]
  <1>1. CASE a.capacity >= required BY <1>1 DEF Resized, ArrayOK, Arrays
  <1>2. CASE ~ (a.capacity >= required)
    <2> DEFINE cells(c) == [i \in 1 .. c |-> IF i <= a.capacity THEN a.cells[i] ELSE Junk]
    <2>1. PICK c : /\ c = RoundCapacity(required)
                   /\ r = [a EXCEPT !.capacity = c, !.cells = cells(c)]
      BY <1>2 DEF Resized
    <2>2. c \in Nat /\ c >= required BY <2>1, CapacityRoundedUp
    <2>3. a.capacity \in Nat /\ a.count \in Nat /\ a.cells \in Seq(Items \cup {Junk})
      BY DEF ArrayOK, Arrays
    <2>4. a.cells \in [1 .. a.capacity -> Items \cup {Junk}] BY <2>3 DEF ArrayOK
    <2>5. cells(c) \in [1 .. c -> Items \cup {Junk}] BY <2>2, <2>3, <2>4
    <2>6. cells(c) \in Seq(Items \cup {Junk}) /\ Len(cells(c)) = c BY <2>2, <2>5
    <2>7. \A i \in 1 .. a.count : cells(c)[i] = a.cells[i] BY <1>2, <2>2, <2>3 DEF ArrayOK
    <2> HIDE DEF cells
    <2>8. /\ r.cells = cells(c) /\ r.capacity = c /\ r.count = a.count
          /\ r.callbacks = a.callbacks /\ r \in Arrays
      BY <2>1, <2>2, <2>6 DEF ArrayOK, Arrays
    <2> QED BY <1>2, <2>2, <2>3, <2>6, <2>7, <2>8 DEF ArrayOK
  <1> QED BY <1>1, <1>2

\* The cells after n items were inserted behind the first i: those, the items,
\* and the rest of the count that was.
InsertedCells(old, new, i, n, count, items) ==
    /\ \A k \in 1 .. i : new[k] = old[k]
    /\ \A k \in 1 .. n : new[i + k] = items[k]
    /\ \A k \in i + 1 .. count : new[k + n] = old[k]

\* Inserting shifts what is behind the index and writes the items.
LEMMA InsertPlaces ==
    ASSUME NEW a, ArrayOK(a), NEW items \in Seq(Items), NEW n \in Nat, n = Len(items),
           a.count + n <= a.capacity, NEW i \in 0 .. a.count
    PROVE  LET cells == Written(Shifted(a, i, n), i, items)
           IN  /\ ArrayOK([a EXCEPT !.cells = cells, !.count = a.count + n])
               /\ InsertedCells(a.cells, cells, i, n, a.count, items)
  <1> DEFINE moved == Shifted(a, i, n)
             cells == Written(moved, i, items)
  <1>1. /\ a.count \in Nat /\ a.capacity \in Nat /\ a.count <= a.capacity /\ i \in Nat
        /\ a.cells \in [1 .. a.capacity -> Items \cup {Junk}]
        /\ \A k \in 1 .. a.count : a.cells[k] \in Items
    BY DEF ArrayOK, Arrays
  <1>2. items \in [1 .. n -> Items] OBVIOUS
  <1>3. moved = [k \in 1 .. a.capacity |-> IF k \in i + n + 1 .. a.count + n THEN a.cells[k - n]
                                           ELSE a.cells[k]]
    BY DEF Shifted
  <1>4. \A k \in 1 .. a.capacity :
            cells[k] = IF k \in i + 1 .. i + n THEN items[k - i] ELSE moved[k]
    BY <1>3 DEF Written
  <1>5. DOMAIN cells = 1 .. a.capacity BY <1>3 DEF Written
  <1> HIDE DEF cells, moved
  <1>6. \A k \in 1 .. i : cells[k] = a.cells[k]
    <2> SUFFICES ASSUME NEW k \in 1 .. i PROVE cells[k] = a.cells[k] OBVIOUS
    <2>1. k \in 1 .. a.capacity /\ k \notin i + 1 .. i + n /\ k \notin i + n + 1 .. a.count + n BY <1>1
    <2> QED BY <1>3, <1>4, <2>1
  <1>7. \A k \in 1 .. n : cells[i + k] = items[k] BY <1>1, <1>4
  <1>8. \A k \in i + 1 .. a.count : cells[k + n] = a.cells[k]
    <2> SUFFICES ASSUME NEW k \in i + 1 .. a.count PROVE cells[k + n] = a.cells[k] OBVIOUS
    <2>1. /\ k + n \in 1 .. a.capacity /\ k + n \notin i + 1 .. i + n
          /\ k + n \in i + n + 1 .. a.count + n /\ (k + n) - n = k
      BY <1>1
    <2> QED BY <1>3, <1>4, <2>1
  <1>9. \A k \in 1 .. a.count + n : cells[k] \in Items
    <2> SUFFICES ASSUME NEW k \in 1 .. a.count + n PROVE cells[k] \in Items OBVIOUS
    <2>1. CASE k <= i
      <3>1. k \in 1 .. i /\ k \in 1 .. a.count BY <1>1, <2>1
      <3> QED BY <1>1, <1>6, <3>1
    <2>2. CASE k > i /\ k <= i + n
      <3>1. k - i \in 1 .. n /\ i + (k - i) = k BY <1>1, <2>2
      <3> QED BY <1>2, <1>7, <3>1
    <2>3. CASE k > i + n
      <3>1. k - n \in i + 1 .. a.count /\ (k - n) + n = k BY <1>1, <2>3
      <3>2. cells[(k - n) + n] = a.cells[k - n] BY ONLY <1>8, <3>1
      <3>3. a.cells[k - n] \in Items BY <1>1, <3>1
      <3> QED BY ONLY <3>1, <3>2, <3>3
    <2> QED BY <1>1, <2>1, <2>2, <2>3
  <1>10. cells \in [1 .. a.capacity -> Items \cup {Junk}]
    <2>1. \A k \in 1 .. a.capacity : moved[k] \in Items \cup {Junk}
      <3> SUFFICES ASSUME NEW k \in 1 .. a.capacity PROVE moved[k] \in Items \cup {Junk} OBVIOUS
      <3>1. k \in i + n + 1 .. a.count + n => k - n \in 1 .. a.capacity BY <1>1
      <3> QED BY <1>1, <1>3, <3>1
    <2>2. \A k \in 1 .. a.capacity : k \in i + 1 .. i + n => k - i \in 1 .. n BY <1>1
    <2>3. \A k \in 1 .. a.capacity : cells[k] \in Items \cup {Junk} BY <1>2, <1>4, <2>1, <2>2
    <2>4. cells = [k \in 1 .. a.capacity |-> cells[k]] BY <1>5 DEF Written, cells
    <2> QED BY <2>3, <2>4
  <1>11. cells \in Seq(Items \cup {Junk}) /\ Len(cells) = a.capacity BY SMTT(30), <1>1, <1>10
  <1>12. ArrayOK([a EXCEPT !.cells = cells, !.count = a.count + n])
    <2>1. a.count + n \in Nat BY <1>1
    <2> QED BY ONLY <1>9, <1>11, <2>1, ArrayOK(a), a.count + n <= a.capacity, RecountedIsOK
  <1>13. InsertedCells(a.cells, cells, i, n, a.count, items)
    BY ONLY <1>6, <1>7, <1>8 DEF InsertedCells
  <1> QED BY <1>12, <1>13 DEF cells, moved

\* Of each item there are as many more as were inserted.
LEMMA InsertCounts ==
    ASSUME NEW old, NEW new, NEW count \in Nat, NEW i \in 0 .. count, NEW n \in Nat, NEW items,
           InsertedCells(old, new, i, n, count, items), NEW x
    PROVE  /\ Occurrences(new, i + 1, i + n, x) = Occurrences(items, 1, n, x)
           /\ Occurrences(new, 1, count + n, x)
                = Occurrences(old, 1, count, x) + Occurrences(items, 1, n, x)
  <1>0. i \in Int /\ i <= count /\ i >= 0 OBVIOUS
  <1>1. PICK i1, j, j1, c : i1 = i + 1 /\ j = i + n /\ j1 = i + n + 1 /\ c = count + n OBVIOUS
  <1>2. /\ 1 \in Int /\ i \in Int /\ i1 \in Int /\ j \in Int /\ j1 \in Int /\ c \in Int
        /\ n \in Int /\ count \in Int
        /\ i1 = i + 1 /\ j1 = j + 1 /\ 1 <= i1 /\ 1 <= j1 /\ i <= j /\ j <= c /\ i <= count
    BY <1>0, <1>1
  <1>3. Occurrences(new, 1, i, x) = Occurrences(old, 1, i, x)
    <2>1. MovedBy(old, new, 1, i, 0) BY <1>0 DEF InsertedCells, MovedBy
    <2>2. 0 \in Int /\ 1 = 1 + 0 /\ i = i + 0 BY <1>0
    <2> QED BY ONLY <1>2, <2>1, <2>2, OccurrencesShift
  <1>4. Occurrences(new, i1, j, x) = Occurrences(items, 1, n, x)
    <2>1. MovedBy(items, new, 1, n, i)
      <3> SUFFICES ASSUME NEW k \in 1 .. n PROVE new[k + i] = items[k] BY DEF MovedBy
      <3>1. k + i = i + k BY <1>0
      <3> QED BY <3>1 DEF InsertedCells
    <2>2. i1 = 1 + i /\ j = n + i BY <1>0, <1>1
    <2> QED BY ONLY <1>2, <2>1, <2>2, OccurrencesShift
  <1>5. Occurrences(new, j1, c, x) = Occurrences(old, i1, count, x)
    <2>1. MovedBy(old, new, i1, count, n) BY <1>1 DEF InsertedCells, MovedBy
    <2>2. j1 = i1 + n /\ c = count + n BY <1>0, <1>1
    <2> QED BY ONLY <1>2, <2>1, <2>2, OccurrencesShift
  <1>6. Occurrences(old, 1, count, x) = Occurrences(old, 1, i, x) + Occurrences(old, i1, count, x)
    BY ONLY <1>2, OccurrencesSplit
  <1>7. Occurrences(new, 1, c, x) = Occurrences(new, 1, j, x) + Occurrences(new, j1, c, x)
    BY ONLY <1>2, OccurrencesSplit
  <1>8. Occurrences(new, 1, j, x) = Occurrences(new, 1, i, x) + Occurrences(new, i1, j, x)
    BY ONLY <1>2, OccurrencesSplit
  <1>9. /\ Occurrences(old, 1, i, x) \in Nat /\ Occurrences(old, i1, count, x) \in Nat
        /\ Occurrences(items, 1, n, x) \in Nat
    BY ONLY <1>2, OccurrencesType
  <1>10. Occurrences(new, 1, c, x) = Occurrences(old, 1, count, x) + Occurrences(items, 1, n, x)
    BY ONLY <1>3, <1>4, <1>5, <1>6, <1>7, <1>8, <1>9
  <1> QED BY ONLY <1>1, <1>4, <1>10

\* The cells after the n items behind the first i were removed.
ClosedCells(old, new, i, n, count) ==
    /\ \A k \in 1 .. i : new[k] = old[k]
    /\ \A k \in i + n + 1 .. count : new[k - n] = old[k]

\* Removing closes the gap.
LEMMA RemovePlaces ==
    ASSUME NEW a, ArrayOK(a), NEW i \in Nat, NEW n \in Nat, i + n <= a.count
    PROVE  /\ ArrayOK([a EXCEPT !.cells = Closed(a, i, n), !.count = a.count - n])
           /\ ClosedCells(a.cells, Closed(a, i, n), i, n, a.count)
  <1> DEFINE cells == Closed(a, i, n)
  <1>1. /\ a.count \in Nat /\ a.capacity \in Nat /\ a.count <= a.capacity
        /\ a.cells \in [1 .. a.capacity -> Items \cup {Junk}]
        /\ \A k \in 1 .. a.count : a.cells[k] \in Items
    BY DEF ArrayOK, Arrays
  <1>2. cells = [k \in 1 .. a.capacity |-> IF k \in i + 1 .. a.count - n THEN a.cells[k + n]
                                           ELSE a.cells[k]]
    BY DEF Closed
  <1>3. \A k \in 1 .. i : cells[k] = a.cells[k] BY <1>1, <1>2
  <1>4. \A k \in i + n + 1 .. a.count : cells[k - n] = a.cells[k]
    <2> SUFFICES ASSUME NEW k \in i + n + 1 .. a.count PROVE cells[k - n] = a.cells[k] OBVIOUS
    <2>1. k - n \in 1 .. a.capacity /\ k - n \in i + 1 .. a.count - n /\ (k - n) + n = k BY <1>1
    <2> QED BY <1>2, <2>1
  <1>5. \A k \in 1 .. a.count - n : cells[k] \in Items BY <1>1, <1>2
  <1>6. cells \in [1 .. a.capacity -> Items \cup {Junk}] BY <1>1, <1>2
  <1> HIDE DEF cells
  <1>7. cells \in Seq(Items \cup {Junk}) /\ Len(cells) = a.capacity BY <1>1, <1>6
  <1>8. ArrayOK([a EXCEPT !.cells = cells, !.count = a.count - n])
    <2>1. a.count - n \in Nat /\ a.count - n <= a.capacity BY <1>1
    <2> QED BY ONLY <1>5, <1>7, <2>1, ArrayOK(a), RecountedIsOK
  <1>9. ClosedCells(a.cells, cells, i, n, a.count) BY ONLY <1>3, <1>4 DEF ClosedCells
  <1> QED BY <1>8, <1>9 DEF cells

\* Of each item there are as many less as were removed.
LEMMA RemoveCounts ==
    ASSUME NEW old, NEW new, NEW count \in Nat, NEW i \in Nat, NEW n \in Nat, i + n <= count,
           ClosedCells(old, new, i, n, count), NEW x,
           NEW i1, NEW j, NEW c, i1 = i + 1, j = i + n, c = count - n
    PROVE  Occurrences(new, 1, c, x) = Occurrences(old, 1, count, x) - Occurrences(old, i1, j, x)
  <1>1. PICK j1, m : j1 = i + n + 1 /\ m = 0 - n
    OBVIOUS
  <1>2. /\ 1 \in Int /\ i \in Int /\ i1 \in Int /\ j \in Int /\ j1 \in Int /\ c \in Int
        /\ m \in Int /\ count \in Int
        /\ i1 = i + 1 /\ j1 = j + 1 /\ 1 <= i1 /\ 1 <= j1 /\ i <= j /\ j <= count /\ i <= c
    BY <1>1
  <1>3. Occurrences(new, 1, i, x) = Occurrences(old, 1, i, x)
    <2>1. MovedBy(old, new, 1, i, 0) BY DEF ClosedCells, MovedBy
    <2>2. 0 \in Int /\ 1 = 1 + 0 /\ i = i + 0 OBVIOUS
    <2> QED BY ONLY <1>2, <2>1, <2>2, OccurrencesShift
  <1>4. Occurrences(new, i1, c, x) = Occurrences(old, j1, count, x)
    <2>1. MovedBy(old, new, j1, count, m)
      <3> SUFFICES ASSUME NEW k \in j1 .. count PROVE new[k + m] = old[k] BY DEF MovedBy
      <3>1. k + m = k - n /\ k \in i + n + 1 .. count BY <1>1
      <3> QED BY <3>1 DEF ClosedCells
    <2>2. i1 = j1 + m /\ c = count + m BY <1>1
    <2> QED BY ONLY <1>2, <2>1, <2>2, OccurrencesShift
  <1>5. Occurrences(old, 1, count, x) = Occurrences(old, 1, j, x) + Occurrences(old, j1, count, x)
    BY ONLY <1>2, OccurrencesSplit
  <1>6. Occurrences(old, 1, j, x) = Occurrences(old, 1, i, x) + Occurrences(old, i1, j, x)
    BY ONLY <1>2, OccurrencesSplit
  <1>7. Occurrences(new, 1, c, x) = Occurrences(new, 1, i, x) + Occurrences(new, i1, c, x)
    BY ONLY <1>2, OccurrencesSplit
  <1>8. /\ Occurrences(old, 1, i, x) \in Nat /\ Occurrences(old, i1, j, x) \in Nat
        /\ Occurrences(old, j1, count, x) \in Nat
    BY ONLY <1>2, OccurrencesType
  <1>9. Occurrences(new, 1, c, x) = Occurrences(old, 1, count, x) - Occurrences(old, i1, j, x)
    BY ONLY <1>3, <1>4, <1>5, <1>6, <1>7, <1>8
  <1> QED BY ONLY <1>1, <1>9

-----------------------------------------------------------------------------
(* The inductive invariant of the array: its cells, and every reference.   *)

ArrayRefs == /\ refs \in [Items -> Nat] /\ held \in [Items -> Nat]
             /\ array # Nothing => ArrayOK(array)
             /\ RefsExact

\* What the array counts of an item.
InArray(a, x) ==
    IF a # Nothing /\ Releases(a.callbacks) THEN Occurrences(a.cells, 1, a.count, x) ELSE 0

\* The references are natural numbers when they are those that are counted.
LEMMA RefsType ==
    ASSUME NEW a, a # Nothing => ArrayOK(a), NEW x PROVE InArray(a, x) \in Nat
  <1>1. a # Nothing => a.count \in Int BY DEF ArrayOK, Arrays
  <1>2. a # Nothing => Occurrences(a.cells, 1, a.count, x) \in Nat
    <2>1. 1 \in Int OBVIOUS
    <2> QED BY ONLY <1>1, <2>1, OccurrencesType
  <1> QED BY <1>2 DEF InArray

\* Creating an array.
LEMMA CreateKeepsRefs == ASSUME ArrayRefs, Create PROVE ArrayRefs'
  <1>1. PICK hint \in Hints, callbacks \in {"none", "release", "both"} :
          array' = [cells |-> [i \in 1 .. RoundCapacity(hint) |-> Junk], count |-> 0,
                    capacity |-> RoundCapacity(hint), callbacks |-> callbacks]
    BY DEF Create
  <1>2. PICK c : c = RoundCapacity(hint) OBVIOUS
  <1>3. c \in Nat BY <1>2, CapacityRoundedUp, ArrayAssumption
  <1> DEFINE cells == [i \in 1 .. c |-> Junk]
  <1>4. cells \in Seq(Items \cup {Junk}) /\ Len(cells) = c BY <1>3
  <1> HIDE DEF cells
  <1>5. array' = [cells |-> cells, count |-> 0, capacity |-> c, callbacks |-> callbacks]
    BY <1>1, <1>2 DEF cells
  <1>6. ArrayOK(array') BY <1>3, <1>4, <1>5 DEF ArrayOK, Arrays
  <1>7. \A x : Occurrences(cells, 1, 0, x) = 0
    <2> SUFFICES ASSUME NEW x PROVE Occurrences(cells, 1, 0, x) = 0 OBVIOUS
    <2>1. {i \in 1 .. 0 : cells[i] = x} = {} OBVIOUS
    <2> QED BY ONLY <2>1, FS_EmptySet DEF Occurrences
  <1>8. array = Nothing /\ refs' = refs /\ held' = held BY DEF Create
  <1>9. ASSUME NEW x \in Items
        PROVE  refs'[x] = held'[x] + IF array' # Nothing /\ Releases(array'.callbacks)
                                     THEN Occurrences(array'.cells, 1, array'.count, x) ELSE 0
    <2>1. refs[x] = held[x] + 0 BY <1>8 DEF ArrayRefs, RefsExact
    <2>2. Occurrences(array'.cells, 1, array'.count, x) = 0 BY <1>5, <1>7
    <2> QED BY ONLY <1>8, <2>1, <2>2
  <1>10. RefsExact' BY <1>9 DEF RefsExact
  <1> QED BY ONLY <1>6, <1>8, <1>10, ArrayRefs DEF ArrayRefs

\* Destroying it.
LEMMA DestroyKeepsRefs == ASSUME ArrayRefs, Destroy PROVE ArrayRefs'
  <1>1. array # Nothing /\ array' = Nothing /\ held' = held
        /\ refs' = Released(array.cells, 1, array.count)
    BY DEF Destroy
  <1>2. ASSUME NEW x \in Items PROVE refs'[x] = held[x]
    <2>1. refs[x] = held[x] + InArray(array, x) BY DEF ArrayRefs, RefsExact, InArray
    <2>2. InArray(array, x) \in Nat BY RefsType DEF ArrayRefs
    <2>3. held[x] \in Nat /\ refs[x] \in Nat BY DEF ArrayRefs
    <2>4. refs'[x] = refs[x] - InArray(array, x)
      BY <1>1, <2>3 DEF Released, InArray
    <2> QED BY ONLY <2>1, <2>2, <2>3, <2>4
  <1>3. refs' \in [Items -> Nat]
    <2>1. refs' = [x \in Items |-> refs'[x]] BY <1>1 DEF Released, ArrayRefs
    <2> QED BY <1>2, <2>1 DEF ArrayRefs
  <1>4. RefsExact' BY <1>1, <1>2 DEF RefsExact, ArrayRefs
  <1> QED BY ONLY <1>1, <1>3, <1>4, ArrayRefs DEF ArrayRefs

\* The caller's own references.
LEMMA AcquireKeepsRefs == ASSUME ArrayRefs, NEW y \in Items, Acquire(y) PROVE ArrayRefs'
  <1>1. /\ refs' = [refs EXCEPT ![y] = refs[y] + 1] /\ held' = [held EXCEPT ![y] = held[y] + 1]
        /\ array' = array
    BY DEF Acquire
  <1>2. refs' \in [Items -> Nat] /\ held' \in [Items -> Nat] BY <1>1 DEF ArrayRefs
  <1>3. ASSUME NEW x \in Items PROVE refs'[x] = held'[x] + InArray(array', x)
    <2>1. refs[x] = held[x] + InArray(array, x) BY DEF ArrayRefs, RefsExact, InArray
    <2>2. InArray(array, x) \in Nat BY RefsType DEF ArrayRefs
    <2>3. held[x] \in Nat /\ refs[x] \in Nat BY DEF ArrayRefs
    <2>4. x = y => refs'[x] = refs[x] + 1 /\ held'[x] = held[x] + 1 BY <1>1 DEF ArrayRefs
    <2>5. x # y => refs'[x] = refs[x] /\ held'[x] = held[x] BY <1>1 DEF ArrayRefs
    <2> QED BY ONLY <1>1, <2>1, <2>2, <2>3, <2>4, <2>5
  <1>4. RefsExact' BY <1>3 DEF RefsExact, InArray
  <1> QED BY ONLY <1>1, <1>2, <1>4, ArrayRefs DEF ArrayRefs

\* The client gives a reference of its own back: the array's stay exact.
LEMMA DropKeepsRefs == ASSUME ArrayRefs, NEW y \in Items, Drop(y) PROVE ArrayRefs'
  <1>1. /\ refs' = [refs EXCEPT ![y] = refs[y] - 1] /\ held' = [held EXCEPT ![y] = held[y] - 1]
        /\ array' = array /\ held[y] > 0
    BY DEF Drop
  <1>2. ASSUME NEW x \in Items
        PROVE  /\ refs'[x] = held'[x] + InArray(array', x)
               /\ refs'[x] \in Nat /\ held'[x] \in Nat
    <2>1. refs[x] = held[x] + InArray(array, x) BY DEF ArrayRefs, RefsExact, InArray
    <2>2. InArray(array, x) \in Nat BY RefsType DEF ArrayRefs
    <2>3. held[x] \in Nat /\ refs[x] \in Nat BY DEF ArrayRefs
    <2>4. x = y => refs'[x] = refs[x] - 1 /\ held'[x] = held[x] - 1 BY <1>1 DEF ArrayRefs
    <2>5. x # y => refs'[x] = refs[x] /\ held'[x] = held[x] BY <1>1 DEF ArrayRefs
    <2> QED BY ONLY <1>1, <2>1, <2>2, <2>3, <2>4, <2>5
  <1>3. refs' = [x \in Items |-> refs'[x]] /\ held' = [x \in Items |-> held'[x]]
    BY <1>1 DEF ArrayRefs
  <1>4. refs' \in [Items -> Nat] /\ held' \in [Items -> Nat] BY ONLY <1>2, <1>3
  <1>5. RefsExact' BY <1>2 DEF RefsExact, InArray
  <1> QED BY ONLY <1>1, <1>4, <1>5, ArrayRefs DEF ArrayRefs

\* What an insertion at i is that was possible, and had memory.
InsertHappens(i, items, r) ==
    /\ i \in 0 .. array.count
    /\ r \in Resized(array, array.count + Len(items))
    /\ LET cells == Written(Shifted(r, i, Len(items)), i, items)
       IN  /\ array' = [r EXCEPT !.cells = cells, !.count = r.count + Len(items)]
           /\ refs' = Retained(i, items, cells)
    /\ held' = [x \in Items |-> held[x] - Transferred(items, x)]
    /\ UNCHANGED <<out, fault>>

\* An insertion does, of all this, that or nothing.
LEMMA InsertCases ==
    ASSUME NEW i \in Nat, NEW items \in Seq(Items), InsertItems(i, items), ArrayRefs
    PROVE  /\ array # Nothing
           /\ \A x \in Items : held[x] >= Occurrences(items, 1, Len(items), x)
           /\ \/ UNCHANGED vars
              \/ \E r : InsertHappens(i, items, r)
  <1>1. array.count \in Nat BY DEF InsertItems, ArrayRefs, ArrayOK, Arrays
  <1>2. /\ array # Nothing
        /\ \A x \in Items : held[x] >= Occurrences(items, 1, Len(items), x)
    BY DEF InsertItems
  <1>3. \/ UNCHANGED vars
        \/ /\ i <= array.count
           /\ \E r \in Resized(array, array.count + Len(items)) :
                LET cells == Written(Shifted(r, i, Len(items)), i, items)
                IN  /\ array' = [r EXCEPT !.cells = cells, !.count = r.count + Len(items)]
                    /\ refs' = Retained(i, items, cells)
           /\ held' = [x \in Items |-> held[x] - Transferred(items, x)]
           /\ UNCHANGED <<out, fault>>
    BY DEF InsertItems
  <1>4. CASE UNCHANGED vars BY <1>2, <1>4
  <1>5. CASE ~ UNCHANGED vars
    <2>1. PICK r \in Resized(array, array.count + Len(items)) :
                LET cells == Written(Shifted(r, i, Len(items)), i, items)
                IN  /\ array' = [r EXCEPT !.cells = cells, !.count = r.count + Len(items)]
                    /\ refs' = Retained(i, items, cells)
      BY ONLY <1>3, <1>5
    <2>2. i <= array.count /\ UNCHANGED <<out, fault>>
          /\ held' = [x \in Items |-> held[x] - Transferred(items, x)]
      BY ONLY <1>3, <1>5
    <2>3. i \in 0 .. array.count BY ONLY <1>1, <2>2, i \in Nat
    <2>4. InsertHappens(i, items, r) BY ONLY <2>1, <2>2, <2>3, Zenon DEF InsertHappens
    <2> QED BY <1>2, <2>4
  <1> QED BY ONLY <1>4, <1>5

\* What becomes of the array: its cells, and how many items it has.
LEMMA InsertedArray ==
    ASSUME ArrayRefs, array # Nothing, NEW i, NEW items \in Seq(Items), NEW r,
           InsertHappens(i, items, r)
    PROVE  /\ ArrayOK(array') /\ array' # Nothing
           /\ array'.count = array.count + Len(items)
           /\ array'.callbacks = array.callbacks
           /\ InsertedCells(array.cells, array'.cells, i, Len(items), array.count, items)
  <1>1. PICK n : n = Len(items) OBVIOUS
  <1>2. n \in Nat BY <1>1
  <1>3. ArrayOK(array) BY DEF ArrayRefs
  <1>4. array.count \in Nat /\ i \in 0 .. array.count BY <1>3 DEF ArrayOK, Arrays, InsertHappens
  <1>5. PICK required : required = array.count + n OBVIOUS
  <1>6. required \in Nat /\ r \in Resized(array, required)
    BY <1>1, <1>2, <1>4, <1>5 DEF InsertHappens
  <1>7. /\ ArrayOK(r) /\ required <= r.capacity
        /\ r.count = array.count /\ r.callbacks = array.callbacks
        /\ \A k \in 1 .. array.count : r.cells[k] = array.cells[k]
    BY ONLY <1>3, <1>6, ResizedHasRoom
  <1> DEFINE cells == Written(Shifted(r, i, n), i, items)
  <1>8. /\ ArrayOK([r EXCEPT !.cells = cells, !.count = r.count + n])
        /\ InsertedCells(r.cells, cells, i, n, r.count, items)
    <2>1. r.count + n <= r.capacity /\ i \in 0 .. r.count BY ONLY <1>4, <1>5, <1>7
    <2> QED BY ONLY <1>1, <1>2, <1>7, <2>1, items \in Seq(Items), InsertPlaces
  <1>9. array' = [r EXCEPT !.cells = cells, !.count = r.count + n]
    BY <1>1 DEF InsertHappens
  <1> HIDE DEF cells
  <1>10. array'.cells = cells /\ array'.count = r.count + n /\ array'.callbacks = r.callbacks
    BY <1>7, <1>9 DEF ArrayOK, Arrays
  <1>11. InsertedCells(array.cells, cells, i, n, array.count, items)
    BY <1>4, <1>7, <1>8 DEF InsertedCells
  <1>12. array' # Nothing BY ONLY <1>8, <1>9, NothingAssumption DEF ArrayOK
  <1> QED BY ONLY <1>1, <1>7, <1>8, <1>9, <1>10, <1>11, <1>12

\* Inserting: the items that come in are retained, or come with a reference.
LEMMA InsertKeepsRefs ==
    ASSUME ArrayRefs, NEW i \in Nat, NEW items \in Seq(Items), InsertItems(i, items)
    PROVE  ArrayRefs'
  <1>1. /\ array # Nothing
        /\ \A x \in Items : held[x] >= Occurrences(items, 1, Len(items), x)
        /\ \/ UNCHANGED vars
           \/ \E r : InsertHappens(i, items, r)
    BY InsertCases
  <1>2. CASE UNCHANGED vars BY <1>2 DEF vars, ArrayRefs, ArrayOK, RefsExact
  <1>3. CASE \E r : InsertHappens(i, items, r)
    <2>1. PICK r : InsertHappens(i, items, r) BY <1>3
    <2>2. PICK n : n = Len(items) OBVIOUS
    <2>3. n \in Nat BY <2>2
    <2>4. /\ ArrayOK(array') /\ array' # Nothing
          /\ array'.count = array.count + n /\ array'.callbacks = array.callbacks
          /\ InsertedCells(array.cells, array'.cells, i, n, array.count, items)
      BY ONLY <1>1, <2>1, <2>2, ArrayRefs, items \in Seq(Items), InsertedArray
    <2>5. array.count \in Nat /\ i \in 0 .. array.count
      BY <1>1, <2>1 DEF InsertHappens, ArrayRefs, ArrayOK, Arrays
    <2>6. /\ refs' = Retained(i, items, array'.cells)
          /\ held' = [x \in Items |-> held[x] - Transferred(items, x)]
      <3>1. array'.cells = Written(Shifted(r, i, Len(items)), i, items)
        <4>1. ArrayOK(array) BY <1>1 DEF ArrayRefs
        <4>2. PICK required : required = array.count + n OBVIOUS
        <4>3. required \in Nat /\ r \in Resized(array, required)
          BY <2>1, <2>2, <2>3, <2>5, <4>2 DEF InsertHappens
        <4>4. ArrayOK(r) BY ONLY <4>1, <4>3, ResizedHasRoom
        <4> QED BY <2>1, <4>4 DEF InsertHappens, ArrayOK, Arrays
      <3> QED BY <2>1, <3>1 DEF InsertHappens
    <2>7. ASSUME NEW x \in Items
          PROVE  /\ refs'[x] = held'[x] + InArray(array', x)
                 /\ refs'[x] \in Nat /\ held'[x] \in Nat
      <3>1. refs[x] = held[x] + InArray(array, x) BY DEF ArrayRefs, RefsExact, InArray
      <3>2. InArray(array, x) \in Nat BY RefsType DEF ArrayRefs
      <3>3. held[x] \in Nat /\ refs[x] \in Nat BY DEF ArrayRefs
      <3>4. PICK k, old, new : /\ k = Occurrences(items, 1, n, x)
                               /\ old = Occurrences(array.cells, 1, array.count, x)
                               /\ new = Occurrences(array'.cells, 1, array'.count, x)
        OBVIOUS
      <3>5. /\ Occurrences(array'.cells, i + 1, i + n, x) = k
            /\ new = old + k
        BY ONLY <2>3, <2>4, <2>5, <3>4, InsertCounts
      <3>6. k \in Nat /\ old \in Nat
        <4>1. 1 \in Int /\ n \in Int /\ array.count \in Int BY <2>3, <2>5
        <4> QED BY ONLY <3>4, <4>1, OccurrencesType
      <3>7. held[x] >= k BY <1>1, <2>2, <3>4
      <3>8. refs'[x] = refs[x] + IF array.callbacks = "both" THEN k ELSE 0
        BY <2>2, <2>6, <3>3, <3>5 DEF Retained, Retains
      <3>9. held'[x] = held[x] - IF array.callbacks = "release" THEN k ELSE 0
        BY <2>2, <2>6, <3>4 DEF Transferred
      <3>10. /\ InArray(array, x) = IF array.callbacks \in {"release", "both"} THEN old ELSE 0
             /\ InArray(array', x) = IF array.callbacks \in {"release", "both"} THEN new ELSE 0
        BY <1>1, <2>4, <3>4 DEF InArray, Releases
      <3> QED BY ONLY <3>1, <3>2, <3>3, <3>5, <3>6, <3>7, <3>8, <3>9, <3>10
    <2>8. refs' = [x \in Items |-> refs'[x]] /\ held' = [x \in Items |-> held'[x]]
      BY <2>6 DEF Retained, ArrayRefs
    <2>9. refs' \in [Items -> Nat] /\ held' \in [Items -> Nat] BY ONLY <2>7, <2>8
    <2>10. RefsExact' BY <2>7 DEF RefsExact, InArray
    <2> QED BY ONLY <2>4, <2>9, <2>10 DEF ArrayRefs
  <1> QED BY <1>1, <1>2, <1>3

\* Removing: the items that go out are released.
LEMMA RemoveKeepsRefs ==
    ASSUME ArrayRefs, NEW i \in Nat, NEW n \in Nat, i + n <= array.count, RemoveItems(i, n)
    PROVE  ArrayRefs'
  <1>1. /\ array # Nothing /\ held' = held
        /\ refs' = Released(array.cells, i + 1, i + n)
        /\ array' = [array EXCEPT !.cells = Closed(array, i, n), !.count = array.count - n]
    BY DEF RemoveItems
  <1>2. ArrayOK(array) /\ array.count \in Nat BY <1>1 DEF ArrayRefs, ArrayOK, Arrays
  <1>3. /\ ArrayOK(array')
        /\ ClosedCells(array.cells, Closed(array, i, n), i, n, array.count)
    BY ONLY <1>1, <1>2, i \in Nat, n \in Nat, i + n <= array.count, RemovePlaces
  <1>4. /\ array'.cells = Closed(array, i, n) /\ array'.count = array.count - n
        /\ array'.callbacks = array.callbacks
    BY <1>1, <1>2 DEF ArrayOK, Arrays
  <1>5. array' # Nothing BY ONLY <1>3, NothingAssumption DEF ArrayOK
  <1>6. ASSUME NEW x \in Items
        PROVE  refs'[x] = held'[x] + InArray(array', x) /\ refs'[x] \in Nat
    <2>1. refs[x] = held[x] + InArray(array, x) BY DEF ArrayRefs, RefsExact, InArray
    <2>2. InArray(array', x) \in Nat BY ONLY <1>3, RefsType
    <2>3. held[x] \in Nat /\ refs[x] \in Nat BY DEF ArrayRefs
    <2>4. PICK k, old, new : /\ k = Occurrences(array.cells, i + 1, i + n, x)
                             /\ old = Occurrences(array.cells, 1, array.count, x)
                             /\ new = Occurrences(array'.cells, 1, array'.count, x)
      OBVIOUS
    <2>5. new = old - k
      <3>1. PICK i1, j, c : i1 = i + 1 /\ j = i + n /\ c = array.count - n OBVIOUS
      <3>2. k = Occurrences(array.cells, i1, j, x) BY ONLY <2>4, <3>1
      <3>3. PICK cells : cells = Closed(array, i, n) OBVIOUS
      <3>4. new = Occurrences(cells, 1, c, x) BY ONLY <1>4, <2>4, <3>1, <3>3
      <3>5. ClosedCells(array.cells, cells, i, n, array.count) BY ONLY <1>3, <3>3
      <3>6. Occurrences(cells, 1, c, x)
              = Occurrences(array.cells, 1, array.count, x) - Occurrences(array.cells, i1, j, x)
        BY ONLY <1>2, <3>1, <3>5, i \in Nat, n \in Nat, i + n <= array.count, RemoveCounts
      <3> QED BY ONLY <2>4, <3>2, <3>4, <3>6
    <2>6. k \in Nat /\ old \in Nat
      <3>1. PICK i1, j : i1 = i + 1 /\ j = i + n OBVIOUS
      <3>2. 1 \in Int /\ i1 \in Int /\ j \in Int /\ array.count \in Int BY <1>2, <3>1
      <3>3. k = Occurrences(array.cells, i1, j, x) BY <2>4, <3>1
      <3> QED BY ONLY <2>4, <3>2, <3>3, OccurrencesType
    <2>7. refs'[x] = refs[x] - IF Releases(array.callbacks) THEN k ELSE 0
      BY <1>1, <2>3, <2>4 DEF Released
    <2>8. /\ InArray(array, x) = IF Releases(array.callbacks) THEN old ELSE 0
          /\ InArray(array', x) = IF Releases(array.callbacks) THEN new ELSE 0
      BY <1>1, <1>4, <1>5, <2>4 DEF InArray
    <2> QED BY ONLY <1>1, <2>1, <2>2, <2>3, <2>5, <2>6, <2>7, <2>8
  <1>7. refs' = [x \in Items |-> refs'[x]] BY <1>1 DEF Released, ArrayRefs
  <1>8. refs' \in [Items -> Nat] BY ONLY <1>6, <1>7
  <1>9. RefsExact' BY <1>6 DEF RefsExact, InArray
  <1> QED BY ONLY <1>1, <1>3, <1>8, <1>9, ArrayRefs DEF ArrayRefs

\* The lists that are inserted are sequences.
LEMMA ListsAreSequences == ASSUME NEW items \in Lists PROVE items \in Seq(Items)
  <1>1. CASE \E x \in Items : items = <<x>> BY <1>1
  <1>2. CASE \E x, y \in Items : items = <<x, y>> BY <1>2
  <1> QED BY <1>1, <1>2 DEF Lists

\* A step of the array's caller keeps every reference counted.
LEMMA ArrayStepKeepsRefs == ASSUME ArrayRefs, Next PROVE ArrayRefs'
  <1>1. ASSUME NEW items \in Lists PROVE items \in Seq(Items) BY ListsAreSequences
  <1>2. array # Nothing => array.count \in Nat BY DEF ArrayRefs, ArrayOK, Arrays
  <1>3. CASE Create BY <1>3, CreateKeepsRefs
  <1>4. CASE Destroy BY <1>4, DestroyKeepsRefs
  <1>5. CASE \E x \in Items : Acquire(x) BY <1>5, AcquireKeepsRefs
  <1>6. CASE \E x \in Items : Drop(x) BY <1>6, DropKeepsRefs
  <1>7. ASSUME NEW items \in Lists, AppendItems(items) PROVE ArrayRefs'
    BY <1>1, <1>2, <1>7, InsertKeepsRefs DEF AppendItems
  <1>8. ASSUME NEW items \in Lists, NEW i \in 0 .. LengthMax, InsertItems(i, items)
        PROVE  ArrayRefs'
    BY <1>1, <1>8, InsertKeepsRefs
  <1>9. CASE RemoveNothing BY <1>9 DEF RemoveNothing, vars, ArrayRefs, ArrayOK, RefsExact
  <1>10. ASSUME array # Nothing, array.count > 0, RemoveItems(array.count - 1, 1) PROVE ArrayRefs'
    <2>1. PICK i : i = array.count - 1 OBVIOUS
    <2>2. i \in Nat /\ i + 1 <= array.count /\ 1 \in Nat BY <1>2, <1>10, <2>1
    <2>3. RemoveItems(i, 1) BY <1>10, <2>1
    <2> QED BY ONLY <2>2, <2>3, ArrayRefs, RemoveKeepsRefs
  <1>11. CASE RemoveLastItem BY <1>10, <1>11 DEF RemoveLastItem
  <1>12. CASE PopLastItem BY <1>10, <1>12 DEF PopLastItem
  <1>13. ASSUME NEW i \in 0 .. LengthMax, GetItem(i), UNCHANGED <<array, refs, held, fault>>
         PROVE  ArrayRefs'
    BY <1>13 DEF ArrayRefs, ArrayOK, RefsExact
  <1>14. ASSUME NEW i \in 0 .. LengthMax, NEW n \in 1 .. LengthMax, array # Nothing,
                i + n <= array.count, RemoveItems(i, n)
         PROVE  ArrayRefs'
    BY <1>14, RemoveKeepsRefs
  <1>15. CASE Caller
    BY <1>3, <1>4, <1>5, <1>6, <1>7, <1>8, <1>9, <1>11, <1>12, <1>13, <1>15 DEF Caller
  <1> QED BY <1>14, <1>15 DEF Next

-----------------------------------------------------------------------------
(* The array is a list.                                                    *)

List == IF array = Nothing THEN Nothing ELSE SubSeq(array.cells, 1, array.count)

\* The list of an array, item by item.
LEMMA ListOfArray ==
    ASSUME NEW a, ArrayOK(a)
    PROVE  /\ SubSeq(a.cells, 1, a.count) \in Seq(Items)
           /\ Len(SubSeq(a.cells, 1, a.count)) = a.count
           /\ \A k \in 1 .. a.count : SubSeq(a.cells, 1, a.count)[k] = a.cells[k]
  <1>1. PICK c, s : c = a.count /\ s = a.cells OBVIOUS
  <1>2. c \in Nat /\ \A i \in 1 .. c : s[i] \in Items BY <1>1 DEF ArrayOK, Arrays
  <1>3. /\ SubSeq(s, 1, c) \in Seq(Items)
        /\ Len(SubSeq(s, 1, c)) = IF 1 <= c THEN c - 1 + 1 ELSE 0
        /\ \A i \in 1 .. c - 1 + 1 : SubSeq(s, 1, c)[i] = s[1 + i - 1]
    <2>1. 1 \in Int /\ c \in Int BY <1>2
    <2> QED BY ONLY <1>2, <2>1, SubSeqProperties
  <1>4. Len(SubSeq(s, 1, c)) = c BY <1>2, <1>3
  <1>5. \A k \in 1 .. c : SubSeq(s, 1, c)[k] = s[k] BY <1>2, <1>3
  <1> QED BY ONLY <1>1, <1>3, <1>4, <1>5

\* A list in three parts: the first i of a list, the items, and the rest of it.
LEMMA InsertedList ==
    ASSUME NEW s \in Seq(Items), NEW t \in Seq(Items), NEW items \in Seq(Items), NEW i \in 0 .. Len(s),
           Len(t) = Len(s) + Len(items),
           InsertedCells(s, t, i, Len(items), Len(s), items)
    PROVE  t = SubSeq(s, 1, i) \o items \o SubSeq(s, i + 1, Len(s))
  <1>1. PICK c, n : c = Len(s) /\ n = Len(items) OBVIOUS
  <1>2. c \in Nat /\ n \in Nat /\ i \in Nat /\ i <= c BY <1>1
  <1>3. PICK p, q : p = SubSeq(s, 1, i) /\ q = SubSeq(s, i + 1, c) OBVIOUS
  <1>4. /\ p \in Seq(Items) /\ Len(p) = i /\ \A k \in 1 .. i : p[k] = s[k]
        /\ q \in Seq(Items) /\ Len(q) = c - i /\ \A k \in 1 .. c - i : q[k] = s[i + k]
    <2>1. \A k \in 1 .. c : s[k] \in Items BY <1>1
    <2>2. /\ p \in Seq(Items) /\ Len(p) = IF 1 <= i THEN i - 1 + 1 ELSE 0
          /\ \A k \in 1 .. i - 1 + 1 : p[k] = s[1 + k - 1]
      <3>1. 1 \in Int /\ i \in Int /\ \A k \in 1 .. i : s[k] \in Items BY <1>2, <2>1
      <3> QED BY ONLY <1>3, <3>1, SubSeqProperties
    <2>3. PICK i1 : i1 = i + 1 OBVIOUS
    <2>4. /\ q \in Seq(Items) /\ Len(q) = IF i1 <= c THEN c - i1 + 1 ELSE 0
          /\ \A k \in 1 .. c - i1 + 1 : q[k] = s[i1 + k - 1]
      <3>1. i1 \in Int /\ c \in Int /\ \A k \in i1 .. c : s[k] \in Items BY <1>2, <2>1, <2>3
      <3> QED BY ONLY <1>3, <2>3, <3>1, SubSeqProperties
    <2>5. Len(p) = i /\ \A k \in 1 .. i : p[k] = s[k] BY <1>2, <2>2
    <2>6. Len(q) = c - i BY <1>2, <2>3, <2>4
    <2>7. ASSUME NEW k \in 1 .. c - i PROVE q[k] = s[i + k]
      <3>1. k \in 1 .. c - i1 + 1 /\ i1 + k - 1 = i + k BY <1>2, <2>3
      <3>2. q[k] = s[i1 + k - 1] BY ONLY <2>4, <3>1
      <3> QED BY ONLY <3>1, <3>2
    <2> QED BY ONLY <2>2, <2>4, <2>5, <2>6, <2>7
  <1>5. PICK u : u = p \o items OBVIOUS
  <1>6. /\ u \in Seq(Items) /\ Len(u) = i + n
        /\ \A k \in 1 .. i + n : u[k] = IF k <= i THEN p[k] ELSE items[k - i]
    <2>1. /\ p \o items \in Seq(Items) /\ Len(p \o items) = Len(p) + Len(items)
          /\ \A k \in 1 .. Len(p) + Len(items) :
               (p \o items)[k] = IF k <= Len(p) THEN p[k] ELSE items[k - Len(p)]
      BY ONLY <1>4, items \in Seq(Items), ConcatProperties
    <2>2. Len(p) = i /\ Len(items) = n BY ONLY <1>1, <1>4
    <2> QED BY ONLY <1>5, <2>1, <2>2
  <1>7. PICK v : v = u \o q OBVIOUS
  <1>8. /\ v \in Seq(Items) /\ Len(v) = (i + n) + (c - i)
        /\ \A k \in 1 .. (i + n) + (c - i) : v[k] = IF k <= i + n THEN u[k] ELSE q[k - (i + n)]
    BY ONLY <1>4, <1>6, <1>7, ConcatProperties
  <1>9. Len(v) = c + n /\ Len(t) = c + n BY <1>1, <1>2, <1>8
  <1>10. ASSUME NEW k \in 1 .. c + n PROVE t[k] = v[k]
    <2>1. CASE k <= i
      <3>1. k \in 1 .. i /\ k \in 1 .. i + n /\ k \in 1 .. (i + n) + (c - i) BY <1>2, <2>1
      <3>2. v[k] = u[k] /\ u[k] = p[k] /\ p[k] = s[k] BY <1>2, <1>4, <1>6, <1>8, <2>1, <3>1
      <3>3. t[k] = s[k] BY <3>1 DEF InsertedCells
      <3> QED BY ONLY <3>2, <3>3
    <2>2. CASE k > i /\ k <= i + n
      <3>1. k - i \in 1 .. n /\ i + (k - i) = k /\ k \in 1 .. i + n /\ k \in 1 .. (i + n) + (c - i)
        BY <1>2, <2>2
      <3>2. v[k] = items[k - i] BY SMTT(30), <1>2, <1>6, <1>8, <2>2, <3>1
      <3>3. t[i + (k - i)] = items[k - i] BY <1>1, <3>1 DEF InsertedCells
      <3> QED BY ONLY <3>1, <3>2, <3>3
    <2>3. CASE k > i + n
      <3>1. /\ k - (i + n) \in 1 .. c - i /\ i + (k - (i + n)) = k - n /\ (k - n) + n = k
            /\ k - n \in i + 1 .. c /\ k \in 1 .. (i + n) + (c - i)
        BY <1>2, <2>3
      <3>2. v[k] = s[k - n] BY <1>2, <1>4, <1>8, <2>3, <3>1
      <3>3. t[(k - n) + n] = s[k - n] BY <1>1, <3>1 DEF InsertedCells
      <3> QED BY ONLY <3>1, <3>2, <3>3
    <2> QED BY <1>2, <2>1, <2>2, <2>3
  <1>11. t = v BY ONLY <1>8, <1>9, <1>10, t \in Seq(Items), SeqEqual
  <1> QED BY ONLY <1>1, <1>3, <1>5, <1>7, <1>11

\* A list in two parts: the first i of a list, and what is behind the next n.
LEMMA ClosedList ==
    ASSUME NEW s \in Seq(Items), NEW t \in Seq(Items), NEW i \in Nat, NEW n \in Nat,
           i + n <= Len(s), Len(t) = Len(s) - n, ClosedCells(s, t, i, n, Len(s))
    PROVE  t = SubSeq(s, 1, i) \o SubSeq(s, i + n + 1, Len(s))
  <1>1. PICK c, j1 : c = Len(s) /\ j1 = i + n + 1 OBVIOUS
  <1>2. c \in Nat /\ j1 \in Nat /\ i + n <= c BY <1>1
  <1>3. PICK p, q : p = SubSeq(s, 1, i) /\ q = SubSeq(s, j1, c) OBVIOUS
  <1>4. /\ p \in Seq(Items) /\ Len(p) = i /\ \A k \in 1 .. i : p[k] = s[k]
        /\ q \in Seq(Items) /\ Len(q) = c - (i + n) /\ \A k \in 1 .. c - (i + n) : q[k] = s[i + n + k]
    <2>1. \A k \in 1 .. c : s[k] \in Items BY <1>1
    <2>2. /\ p \in Seq(Items) /\ Len(p) = IF 1 <= i THEN i - 1 + 1 ELSE 0
          /\ \A k \in 1 .. i - 1 + 1 : p[k] = s[1 + k - 1]
      <3>1. 1 \in Int /\ i \in Int /\ \A k \in 1 .. i : s[k] \in Items BY <1>2, <2>1
      <3> QED BY ONLY <1>3, <3>1, SubSeqProperties
    <2>3. /\ q \in Seq(Items) /\ Len(q) = IF j1 <= c THEN c - j1 + 1 ELSE 0
          /\ \A k \in 1 .. c - j1 + 1 : q[k] = s[j1 + k - 1]
      <3>1. j1 \in Int /\ c \in Int /\ \A k \in j1 .. c : s[k] \in Items BY <1>1, <1>2, <2>1
      <3> QED BY ONLY <1>3, <3>1, SubSeqProperties
    <2> QED BY <1>1, <1>2, <2>2, <2>3
  <1>5. PICK v : v = p \o q OBVIOUS
  <1>6. /\ v \in Seq(Items) /\ Len(v) = i + (c - (i + n))
        /\ \A k \in 1 .. i + (c - (i + n)) : v[k] = IF k <= i THEN p[k] ELSE q[k - i]
    BY ONLY <1>4, <1>5, ConcatProperties
  <1>7. Len(v) = c - n /\ Len(t) = c - n BY <1>1, <1>2, <1>6
  <1>8. ASSUME NEW k \in 1 .. c - n PROVE t[k] = v[k]
    <2>1. CASE k <= i
      <3>1. k \in 1 .. i /\ k \in 1 .. i + (c - (i + n)) BY <1>2, <2>1
      <3> QED BY <1>4, <1>6, <2>1, <3>1 DEF ClosedCells
    <2>2. CASE k > i
      <3>1. /\ k - i \in 1 .. c - (i + n) /\ i + n + (k - i) = k + n /\ (k + n) - n = k
            /\ k + n \in i + n + 1 .. c /\ k \in 1 .. i + (c - (i + n))
        BY <1>2, <2>2
      <3>2. v[k] = s[k + n] BY <1>2, <1>4, <1>6, <2>2, <3>1
      <3>3. t[(k + n) - n] = s[k + n] BY <1>1, <3>1 DEF ClosedCells
      <3> QED BY ONLY <3>1, <3>2, <3>3
    <2> QED BY <1>2, <2>1, <2>2
  <1>9. t = v BY ONLY <1>6, <1>7, <1>8, t \in Seq(Items), SeqEqual
  <1> QED BY ONLY <1>1, <1>3, <1>5, <1>9

\* An insertion into the array is one into the list, or nothing.
LEMMA InsertionIsListStep ==
    ASSUME ArrayRefs, NEW i \in Nat, NEW items \in Lists, InsertItems(i, items)
    PROVE  UNCHANGED <<List, out>>
           \/ (List # Nothing /\ \E j \in 0 .. Len(List) : ListOf!Insert(j, items))
  <1>1. items \in Seq(Items) BY ListsAreSequences
  <1>2. /\ array # Nothing
        /\ \/ UNCHANGED vars
           \/ \E r : InsertHappens(i, items, r)
    BY <1>1, InsertCases
  <1>3. CASE UNCHANGED vars BY <1>3 DEF vars, List
  <1>4. CASE \E r : InsertHappens(i, items, r)
    <2>1. PICK r : InsertHappens(i, items, r) BY <1>4
    <2>2. /\ ArrayOK(array') /\ array' # Nothing
          /\ array'.count = array.count + Len(items)
          /\ InsertedCells(array.cells, array'.cells, i, Len(items), array.count, items)
      BY ONLY <1>1, <1>2, <2>1, ArrayRefs, InsertedArray
    <2>3. ArrayOK(array) /\ i \in 0 .. array.count /\ out' = out
      BY <1>2, <2>1 DEF InsertHappens, ArrayRefs
    <2>4. PICK s, t : s = SubSeq(array.cells, 1, array.count)
                      /\ t = SubSeq(array'.cells, 1, array'.count)
      OBVIOUS
    <2>5. s \in Seq(Items) /\ Len(s) = array.count /\ \A k \in 1 .. array.count : s[k] = array.cells[k]
      BY ONLY <2>3, <2>4, ListOfArray
    <2>6. PICK b : b = array' OBVIOUS
    <2>7. t \in Seq(Items) /\ Len(t) = b.count /\ \A k \in 1 .. b.count : t[k] = b.cells[k]
      <3>1. ArrayOK(b) BY ONLY <2>2, <2>6
      <3>2. t = SubSeq(b.cells, 1, b.count) BY ONLY <2>4, <2>6
      <3> QED BY ONLY <3>1, <3>2, ListOfArray
    <2>8. InsertedCells(s, t, i, Len(items), Len(s), items)
      <3>1. PICK n, c : n = Len(items) /\ c = array.count OBVIOUS
      <3>2. n \in Nat /\ c \in Nat /\ i \in Nat /\ i <= c /\ b.count = c + n
        BY <1>1, <2>2, <2>3, <2>6, <3>1 DEF ArrayOK, Arrays
      <3>3. InsertedCells(array.cells, b.cells, i, n, c, items) BY ONLY <2>2, <2>6, <3>1
      <3>4. \A k \in 1 .. i : t[k] = s[k]
        <4>1. \A k \in 1 .. i : k \in 1 .. c /\ k \in 1 .. c + n BY <3>2
        <4> QED BY <2>5, <2>7, <3>1, <3>2, <3>3, <4>1 DEF InsertedCells
      <3>5. \A k \in 1 .. n : t[i + k] = items[k]
        <4>1. \A k \in 1 .. n : i + k \in 1 .. c + n BY <3>2
        <4> QED BY <2>7, <3>2, <3>3, <4>1 DEF InsertedCells
      <3>6. \A k \in i + 1 .. c : t[k + n] = s[k]
        <4>1. \A k \in i + 1 .. c : k + n \in 1 .. c + n /\ k \in 1 .. c BY <3>2
        <4> QED BY <2>5, <2>7, <3>1, <3>2, <3>3, <4>1 DEF InsertedCells
      <3> QED BY ONLY <2>5, <3>1, <3>4, <3>5, <3>6 DEF InsertedCells
    <2>9. t = SubSeq(s, 1, i) \o items \o SubSeq(s, i + 1, Len(s))
      <3>1. Len(t) = Len(s) + Len(items) BY ONLY <2>2, <2>5, <2>6, <2>7
      <3>2. i \in 0 .. Len(s) BY ONLY <2>3, <2>5
      <3> QED BY ONLY <1>1, <2>5, <2>7, <2>8, <3>1, <3>2, InsertedList
    <2>10. List = s /\ List' = t BY <1>2, <2>2, <2>4 DEF List
    <2>11. List # Nothing BY ONLY <2>5, <2>10, NothingAssumption
    <2>12. i \in 0 .. Len(List) BY ONLY <2>3, <2>5, <2>10
    <2>13. ListOf!Insert(i, items) BY <2>3, <2>9, <2>10 DEF ListOf!Insert, List
    <2> QED BY ONLY <2>11, <2>12, <2>13
  <1> QED BY <1>2, <1>3, <1>4

\* A removal from the array is one from the list.
LEMMA RemovalIsListStep ==
    ASSUME ArrayRefs, NEW i \in Nat, NEW n \in Nat \ {0}, array # Nothing, i + n <= array.count,
           RemoveItems(i, n)
    PROVE  /\ List # Nothing /\ Len(List) = array.count
           /\ i \in 0 .. Len(List) - 1 /\ n \in 1 .. Len(List) - i
           /\ ListOf!Remove(i, n)
  <1>1. array' = [array EXCEPT !.cells = Closed(array, i, n), !.count = array.count - n]
    BY DEF RemoveItems
  <1>2. ArrayOK(array) /\ array.count \in Nat BY DEF ArrayRefs, ArrayOK, Arrays
  <1>3. /\ ArrayOK(array')
        /\ ClosedCells(array.cells, Closed(array, i, n), i, n, array.count)
    BY ONLY <1>1, <1>2, i \in Nat, n \in Nat \ {0}, i + n <= array.count, RemovePlaces
  <1>4. array'.cells = Closed(array, i, n) /\ array'.count = array.count - n
    BY <1>1, <1>2 DEF ArrayOK, Arrays
  <1>5. array' # Nothing BY ONLY <1>3, NothingAssumption DEF ArrayOK
  <1>6. PICK s, t, b : /\ s = SubSeq(array.cells, 1, array.count)
                       /\ t = SubSeq(array'.cells, 1, array'.count) /\ b = array'
    OBVIOUS
  <1>7. s \in Seq(Items) /\ Len(s) = array.count /\ \A k \in 1 .. array.count : s[k] = array.cells[k]
    BY ONLY <1>2, <1>6, ListOfArray
  <1>8. t \in Seq(Items) /\ Len(t) = b.count /\ \A k \in 1 .. b.count : t[k] = b.cells[k]
    <2>1. ArrayOK(b) BY ONLY <1>3, <1>6
    <2>2. t = SubSeq(b.cells, 1, b.count) BY ONLY <1>6
    <2> QED BY ONLY <2>1, <2>2, ListOfArray
  <1>9. ClosedCells(s, t, i, n, Len(s))
    <2>1. PICK c : c = array.count OBVIOUS
    <2>2. c \in Nat /\ i + n <= c /\ b.count = c - n BY <1>2, <1>4, <1>6, <2>1
    <2>3. ClosedCells(array.cells, b.cells, i, n, c) BY ONLY <1>3, <1>4, <1>6, <2>1
    <2>4. \A k \in 1 .. i : t[k] = s[k]
      <3>1. \A k \in 1 .. i : k \in 1 .. c /\ k \in 1 .. c - n BY <2>2
      <3> QED BY <1>7, <1>8, <2>1, <2>2, <2>3, <3>1 DEF ClosedCells
    <2>5. \A k \in i + n + 1 .. c : t[k - n] = s[k]
      <3>1. \A k \in i + n + 1 .. c : k - n \in 1 .. c - n /\ k \in 1 .. c BY <2>2
      <3> QED BY <1>7, <1>8, <2>1, <2>2, <2>3, <3>1 DEF ClosedCells
    <2> QED BY ONLY <1>7, <2>1, <2>4, <2>5 DEF ClosedCells
  <1>10. t = SubSeq(s, 1, i) \o SubSeq(s, i + n + 1, Len(s))
    <2>1. Len(t) = Len(s) - n /\ i + n <= Len(s) BY ONLY <1>4, <1>6, <1>7, <1>8, i + n <= array.count
    <2>2. n \in Nat OBVIOUS
    <2> QED BY ONLY <1>7, <1>8, <1>9, <2>1, <2>2, i \in Nat, ClosedList
  <1>11. List = s /\ List' = t BY <1>5, <1>6 DEF List
  <1>12. List # Nothing BY ONLY <1>7, <1>11, NothingAssumption
  <1>13. ListOf!Remove(i, n) BY <1>10, <1>11 DEF ListOf!Remove, List
  <1>14. Len(List) = array.count BY ONLY <1>7, <1>11
  <1>15. i \in 0 .. Len(List) - 1 /\ n \in 1 .. Len(List) - i BY <1>2, <1>14
  <1> QED BY ONLY <1>12, <1>13, <1>14, <1>15

\* Every step of the array's caller is a step of the list, or none.
LEMMA ArrayStepIsListStep ==
    ASSUME ArrayRefs, Next PROVE ListOf!Next \/ UNCHANGED <<List, out>>
  <1>1. array # Nothing => ArrayOK(array) /\ array.count \in Nat BY DEF ArrayRefs, ArrayOK, Arrays
  <1>2. array # Nothing => /\ List = SubSeq(array.cells, 1, array.count)
                           /\ List \in Seq(Items) /\ List # Nothing /\ Len(List) = array.count
                           /\ \A k \in 1 .. array.count : List[k] = array.cells[k]
    <2> SUFFICES ASSUME array # Nothing
                 PROVE  /\ List = SubSeq(array.cells, 1, array.count)
                        /\ List \in Seq(Items) /\ List # Nothing /\ Len(List) = array.count
                        /\ \A k \in 1 .. array.count : List[k] = array.cells[k]
      OBVIOUS
    <2>1. List = SubSeq(array.cells, 1, array.count) BY DEF List
    <2>2. /\ List \in Seq(Items) /\ Len(List) = array.count
          /\ \A k \in 1 .. array.count : List[k] = array.cells[k]
      BY ONLY <1>1, <2>1, array # Nothing, ListOfArray
    <2>3. List # Nothing BY ONLY <2>2, NothingAssumption
    <2> QED BY ONLY <2>1, <2>2, <2>3
  <1>3. CASE Create
    <2>1. PICK hint \in Hints, callbacks \in {"none", "release", "both"} :
            array' = [cells |-> [i \in 1 .. RoundCapacity(hint) |-> Junk], count |-> 0,
                      capacity |-> RoundCapacity(hint), callbacks |-> callbacks]
      BY <1>3 DEF Create
    <2>2. ArrayRefs' BY <1>3, CreateKeepsRefs
    <2>3. array = Nothing /\ out' = out BY <1>3 DEF Create
    <2>4. PICK c : c = RoundCapacity(hint) OBVIOUS
    <2>5. c \in Nat BY <2>4, CapacityRoundedUp, ArrayAssumption
    <2> DEFINE cells == [i \in 1 .. c |-> Junk]
    <2>6. cells \in Seq(Items \cup {Junk}) BY <2>5
    <2> HIDE DEF cells
    <2>7. array' = [cells |-> cells, count |-> 0, capacity |-> c, callbacks |-> callbacks]
      BY <2>1, <2>4 DEF cells
    <2>8. array' # Nothing BY <2>5, <2>6, <2>7, NothingAssumption DEF Arrays
    <2>9. List' = SubSeq(array'.cells, 1, array'.count) BY <2>8 DEF List
    <2>10. array'.count = 0 BY ONLY <2>7
    <2>11. SubSeq(array'.cells, 1, 0) = <<>>
      <3>1. 1 \in Int /\ 0 \in Int /\ 0 < 1 OBVIOUS
      <3> QED BY ONLY <3>1, SubSeqEmpty
    <2>12. List = Nothing BY <2>3 DEF List
    <2>13. List' = <<>> BY ONLY <2>9, <2>10, <2>11
    <2>14. ListOf!Create BY <2>3, <2>12, <2>13 DEF ListOf!Create, List
    <2> QED BY <2>14 DEF ListOf!Next
  <1>4. CASE Destroy
    <2>1. array # Nothing /\ array' = Nothing /\ out' = out BY <1>4 DEF Destroy
    <2>2. List # Nothing /\ List' = Nothing BY <1>2, <2>1 DEF List
    <2>3. ListOf!Destroy BY <2>1, <2>2 DEF ListOf!Destroy, List
    <2> QED BY <2>3 DEF ListOf!Next
  <1>5. ASSUME NEW x \in Items, Acquire(x) \/ Drop(x) PROVE UNCHANGED <<List, out>>
    BY <1>5 DEF Acquire, Drop, List
  <1>6. ASSUME NEW items \in Lists, NEW i \in Nat, InsertItems(i, items)
        PROVE  ListOf!Next \/ UNCHANGED <<List, out>>
    <2>1. CASE UNCHANGED <<List, out>> BY <2>1
    <2>2. CASE List # Nothing /\ \E j \in 0 .. Len(List) : ListOf!Insert(j, items)
      <3>1. PICK j \in 0 .. Len(List) : ListOf!Insert(j, items) BY <2>2
      <3>2. \E x, y \in Items : items = <<x>> \/ items = <<x, y>> BY DEF Lists
      <3>3. \E x, y \in Items : ListOf!Insert(j, <<x>>) \/ ListOf!Insert(j, <<x, y>>)
        BY <3>1, <3>2
      <3> QED BY <2>2, <3>3 DEF ListOf!Next, List
    <2> QED BY <1>6, <2>1, <2>2, InsertionIsListStep
  <1>7. ASSUME NEW items \in Lists, AppendItems(items)
        PROVE  ListOf!Next \/ UNCHANGED <<List, out>>
    BY <1>1, <1>6, <1>7 DEF AppendItems
  <1>8. CASE RemoveNothing BY <1>8 DEF RemoveNothing, vars, List
  <1>9. ASSUME array # Nothing, NEW i \in Nat, NEW n \in Nat \ {0}, i + n <= array.count,
               RemoveItems(i, n), UNCHANGED out
        PROVE  ListOf!Next
    <2>1. /\ List # Nothing
          /\ i \in 0 .. Len(List) - 1 /\ n \in 1 .. Len(List) - i
          /\ ListOf!Remove(i, n)
      BY ONLY <1>9, ArrayRefs, RemovalIsListStep
    <2> QED BY <1>9, <2>1 DEF ListOf!Next, List
  <1>10. CASE RemoveLastItem
    <2>1. array # Nothing /\ array.count > 0 /\ RemoveItems(array.count - 1, 1) /\ UNCHANGED out
      BY <1>10 DEF RemoveLastItem
    <2>2. PICK i : i = array.count - 1 OBVIOUS
    <2>3. i \in Nat /\ i + 1 <= array.count /\ 1 \in Nat \ {0} BY <1>1, <2>1, <2>2
    <2>4. RemoveItems(i, 1) BY ONLY <2>1, <2>2
    <2> QED BY ONLY <1>9, <2>1, <2>3, <2>4
  <1>11. CASE PopLastItem
    <2>1. array # Nothing /\ array.count > 0 /\ RemoveItems(array.count - 1, 1)
          /\ GetItem(array.count - 1)
      BY <1>11 DEF PopLastItem
    <2>2. PICK i : i = array.count - 1 OBVIOUS
    <2>3. i \in Nat /\ i + 1 <= array.count /\ 1 \in Nat \ {0} BY <1>1, <2>1, <2>2
    <2>4. RemoveItems(i, 1) /\ GetItem(i) BY ONLY <2>1, <2>2
    <2>5. List # Nothing /\ Len(List) = array.count /\ ListOf!Remove(i, 1)
      BY ONLY <2>1, <2>3, <2>4, ArrayRefs, RemovalIsListStep
    <2>6. ListOf!Get(i)
      <3>1. out' = array.cells[i + 1] BY <2>4 DEF GetItem
      <3>2. i + 1 \in 1 .. array.count BY <1>1, <2>3
      <3>3. List[i + 1] = array.cells[i + 1] BY <1>2, <2>1, <3>2
      <3> QED BY <3>1, <3>3 DEF ListOf!Get, List
    <2>7. i = Len(List) - 1 BY ONLY <2>2, <2>5
    <2>8. List # <<>> BY <1>1, <2>1, <2>5
    <2> QED BY <2>5, <2>6, <2>7, <2>8 DEF ListOf!Next, List
  <1>12. ASSUME NEW i \in 0 .. LengthMax, GetItem(i), UNCHANGED <<array, refs, held, fault>>
         PROVE  ListOf!Next
    <2>1. array # Nothing /\ i < array.count /\ out' = array.cells[i + 1] BY <1>12 DEF GetItem
    <2>2. i \in Nat BY ArrayAssumption
    <2>3. i + 1 \in 1 .. array.count /\ i \in 0 .. Len(List) - 1 BY <1>1, <1>2, <2>1, <2>2
    <2>4. List[i + 1] = array.cells[i + 1] BY <1>2, <2>1, <2>3
    <2>5. ListOf!Get(i) BY <2>1, <2>4 DEF ListOf!Get, List
    <2>6. UNCHANGED List BY <1>12 DEF List
    <2>7. List # Nothing BY <1>2, <2>1
    <2> QED BY <2>3, <2>5, <2>6, <2>7 DEF ListOf!Next, List
  <1>13. ASSUME NEW i \in 0 .. LengthMax, NEW n \in 1 .. LengthMax, array # Nothing,
                i + n <= array.count, RemoveItems(i, n), UNCHANGED out
         PROVE  ListOf!Next
    <2>1. i \in Nat /\ n \in Nat \ {0} BY ArrayAssumption
    <2> QED BY ONLY <1>9, <1>13, <2>1
  <1>14. CASE Caller
    <2>1. \A i \in 0 .. LengthMax : i \in Nat OBVIOUS
    <2> QED BY <1>3, <1>4, <1>5, <1>6, <1>7, <1>8, <1>10, <1>11, <1>12, <1>14, <2>1 DEF Caller
  <1> QED BY <1>13, <1>14 DEF Next

-----------------------------------------------------------------------------
(* The theorems about the array.                                           *)

\* The invariant of the array holds from the start, and is kept while the
\* dictionary is used.
LEMMA ArrayRefsAlways == ContainersSpec => []ArrayRefs
  <1>1. ContainersInit => ArrayRefs
    <2> SUFFICES ASSUME Init PROVE ArrayRefs BY DEF ContainersInit
    <2> QED BY DEF Init, ArrayRefs, RefsExact
  <1>2. ArrayRefs /\ [ContainersNext]_ContainersVars => ArrayRefs'
    <2> SUFFICES ASSUME ArrayRefs, [ContainersNext]_ContainersVars PROVE ArrayRefs'
      OBVIOUS
    <2>1. CASE UseArray
      <3>1. Next BY <2>1 DEF UseArray
      <3> QED BY <3>1, ArrayStepKeepsRefs
    <2>2. CASE UNCHANGED vars BY <2>2 DEF vars, ArrayRefs, RefsExact
    <2> QED BY <2>1, <2>2 DEF ContainersNext, UseDict, UseRing, ContainersVars
  <1> QED BY <1>1, <1>2, PTL DEF ContainersSpec

\* An array is a list, whatever is inserted into it and removed from it, wherever
\* it grows and whichever of its allocations fail: cos_array_insert_items_ and
\* cos_array_remove_items_ (lines 380-503) move the cells where they belong.
THEOREM ArrayIsList == ContainersSpec => IsList
  <1>1. ContainersInit => ListOf!Init
    BY DEF ContainersInit, Init, ListOf!Init
  <1>2. ArrayRefs /\ [ContainersNext]_ContainersVars => [ListOf!Next]_ListOf!vars
    <2> SUFFICES ASSUME ArrayRefs, [ContainersNext]_ContainersVars
                 PROVE  [ListOf!Next]_ListOf!vars
      OBVIOUS
    <2>1. CASE UseArray
      <3>1. Next BY <2>1 DEF UseArray
      <3>2. ListOf!Next \/ UNCHANGED <<List, out>> BY <3>1, ArrayStepIsListStep
      <3> QED BY <3>2 DEF ListOf!vars, List
    <2>2. CASE UNCHANGED vars BY <2>2 DEF vars, ListOf!vars
    <2> QED BY <2>1, <2>2 DEF ContainersNext, UseDict, UseRing, ContainersVars
  <1> QED BY <1>1, <1>2, ArrayRefsAlways, PTL DEF ContainersSpec, IsList, ListOf!Spec

-----------------------------------------------------------------------------
(* Probing.  A slot is passed before another if the search that begins at  *)
(* slot h of c, and goes round, comes to it earlier.                       *)

Passed(h, c, s) == IF h <= s THEN h .. s - 1 ELSE (h .. c - 1) \cup (0 .. s - 1)

\* Of two slots, one is passed before the other.
LEMMA PassedTotal ==
    ASSUME NEW c \in Nat, NEW h \in 0 .. c - 1, NEW s \in 0 .. c - 1, NEW t \in 0 .. c - 1, s # t
    PROVE  s \in Passed(h, c, t) \/ t \in Passed(h, c, s)
  BY DEF Passed

\* A set of numbers has a minimum.
LEMMA LeastSlot ==
    ASSUME NEW T \in SUBSET Nat, T # {}
    PROVE  Dict!Min(T) \in T /\ \A t \in T : Dict!Min(T) <= t
  <1>1. \E m \in T : \A t \in T : m <= t BY Least
  <1> QED BY <1>1 DEF Dict!Min

\* FirstFrom is the slot before which none of the set is passed.
LEMMA FirstFromIs ==
    ASSUME NEW c \in Nat \ {0}, NEW hash \in Nat, NEW T \in SUBSET (0 .. c - 1), T # {},
           NEW h, h = hash % c, NEW f, f = Dict!FirstFrom(hash, c, T)
    PROVE  /\ f \in T /\ Passed(h, c, f) \cap T = {}
           /\ \A s \in T : Passed(h, c, s) \cap T = {} => s = f
  <1> DEFINE ahead == {s \in T : s >= h}
  <1>1. h \in 0 .. c - 1 OBVIOUS
  <1>2. f = IF ahead # {} THEN Dict!Min(ahead) ELSE Dict!Min(T) BY DEF Dict!FirstFrom
  <1>3. f \in T /\ Passed(h, c, f) \cap T = {}
    <2>1. CASE ahead # {}
      <3>0. T \subseteq Nat OBVIOUS
      <3>1. ahead \in SUBSET Nat BY ONLY <3>0
      <3>2. f \in ahead /\ \A t \in ahead : f <= t BY ONLY <1>2, <2>1, <3>1, LeastSlot
      <3> QED BY <1>1, <3>2 DEF Passed
    <2>2. CASE ahead = {}
      <3>1. T \in SUBSET Nat OBVIOUS
      <3>2. f \in T /\ \A t \in T : f <= t BY ONLY <1>2, <2>2, <3>1, T # {}, LeastSlot
      <3>3. \A t \in T : t < h BY <1>1, <2>2
      <3> QED BY <1>1, <3>2, <3>3 DEF Passed
    <2> QED BY <2>1, <2>2
  <1>4. ASSUME NEW s \in T, Passed(h, c, s) \cap T = {}, s # f PROVE FALSE
    <2>1. s \in Passed(h, c, f) \/ f \in Passed(h, c, s)
      <3>1. s \in 0 .. c - 1 /\ f \in 0 .. c - 1 BY <1>3
      <3>2. c \in Nat OBVIOUS
      <3> QED BY ONLY <1>1, <1>4, <3>1, <3>2, PassedTotal
    <2> QED BY <1>3, <1>4, <2>1
  <1> QED BY <1>3, <1>4

-----------------------------------------------------------------------------
(* Keys.                                                                   *)

Keyed == Keys \ {0}

\* Keys that are equal have equal hashes, which are natural numbers, and being
\* equal is an equivalence.
LEMMA KeysCompare ==
    ASSUME NEW b
    PROVE  /\ \A k \in Keys : Dict!Hash(b, k) \in Nat /\ Dict!KeyEqual(b, k, k)
           /\ \A k, m \in Keys : Dict!KeyEqual(b, k, m) =>
                  Dict!KeyEqual(b, m, k) /\ Dict!Hash(b, k) = Dict!Hash(b, m)
           /\ \A k, m, n \in Keys : Dict!KeyEqual(b, k, m) /\ Dict!KeyEqual(b, m, n) =>
                  Dict!KeyEqual(b, k, n)
  BY KeysAssumption DEF Dict!Hash, Dict!KeyEqual

-----------------------------------------------------------------------------
(* Tables.                                                                 *)

Start(d, key) == Dict!Hash(d.callbacks, key) % d.capacity

\* A filled slot is reached from its key's hash without passing an empty one,
\* and no two have equal keys.
Probed(d) ==
    /\ \A s \in Dict!Filled(d) :
           Passed(Start(d, d.entries[s].key), d.capacity, s) \subseteq Dict!Filled(d)
    /\ \A s, t \in Dict!Filled(d) :
           s # t => ~ Dict!KeyEqual(d.callbacks, d.entries[s].key, d.entries[t].key)

\* A dictionary as its operations leave it: some slot is always empty.
TableOK(d) ==
    /\ d.capacity \in 4 .. EntriesMax
    /\ d \in Dict!Tables(d.capacity)
    /\ Probed(d)
    /\ d.count = Cardinality(Dict!Filled(d)) /\ d.count < d.capacity

\* The entries of a table.
LEMMA TableEntries ==
    ASSUME NEW c \in Nat, NEW d \in Dict!Tables(c)
    PROVE  /\ d.capacity = c /\ d.entries \in [0 .. c - 1 -> Dict!SlotRecords]
           /\ d.count \in Nat /\ d.callbacks \in {"node", "cache"}
           /\ Dict!Filled(d) = {s \in 0 .. c - 1 : d.entries[s].key # 0}
           /\ \A s \in 0 .. c - 1 :
                  IF s \in Dict!Filled(d)
                  THEN /\ d.entries[s] \in [key : Keyed, value : Values]
                       /\ d.entries[s].key \in Keyed /\ d.entries[s].value \in Values
                  ELSE d.entries[s] = Dict!NoEntry
  BY DEF Dict!Tables, Dict!SlotRecords, Dict!Filled, Dict!NoEntry, Keyed

Vacant(d) == \E s \in 0 .. d.capacity - 1 : s \notin Dict!Filled(d)

\* The search for a key ends at a slot that is empty or has it, before which only
\* other keys are passed.
LEMMA SearchEnds ==
    ASSUME NEW c \in Nat \ {0}, NEW d \in Dict!Tables(c), Vacant(d), NEW key \in Keys,
           NEW f, f = Dict!FindEntry(d, key)
    PROVE  /\ Dict!Found(d, key) # {} /\ f \in 0 .. c - 1
           /\ f \notin Dict!Filled(d) \/ Dict!KeyEqual(d.callbacks, d.entries[f].key, key)
           /\ \A s \in Passed(Start(d, key), c, f) :
                  s \in Dict!Filled(d) /\ ~ Dict!KeyEqual(d.callbacks, d.entries[s].key, key)
  <1> DEFINE T == Dict!Found(d, key)
             hash == Dict!Hash(d.callbacks, key)
             h == hash % c
  <1>1. d.capacity = c /\ Dict!Filled(d) = {s \in 0 .. c - 1 : d.entries[s].key # 0}
    BY TableEntries
  <1>2. T = {s \in 0 .. c - 1 : s \notin Dict!Filled(d)
                                \/ Dict!KeyEqual(d.callbacks, d.entries[s].key, key)}
    BY <1>1 DEF Dict!Found
  <1>3. T # {} BY <1>1, <1>2 DEF Vacant
  <1>4. hash \in Nat BY KeysCompare
  <1>5. T \in SUBSET (0 .. c - 1) BY <1>2
  <1>6. f = Dict!FirstFrom(hash, c, T) BY <1>1 DEF Dict!FindEntry
  <1>7. h = Start(d, key) BY <1>1 DEF Start
  <1> HIDE DEF T, hash
  <1>8. f \in T /\ Passed(h, c, f) \cap T = {}
    BY ONLY <1>3, <1>4, <1>5, <1>6, c \in Nat \ {0}, FirstFromIs
  <1>9. h \in 0 .. c - 1 BY <1>4
  <1>10. Passed(h, c, f) \subseteq 0 .. c - 1 BY <1>5, <1>8, <1>9 DEF Passed
  <1> HIDE DEF h
  <1> QED BY <1>2, <1>3, <1>7, <1>8, <1>10 DEF T

\* A key that is there is found.
LEMMA SearchFinds ==
    ASSUME NEW c \in Nat \ {0}, NEW d \in Dict!Tables(c), Probed(d), NEW key \in Keys,
           NEW t \in Dict!Filled(d), Dict!KeyEqual(d.callbacks, d.entries[t].key, key)
    PROVE  Dict!FindEntry(d, key) = t
  <1> DEFINE T == Dict!Found(d, key)
             hash == Dict!Hash(d.callbacks, key)
             h == hash % c
  <1>1. /\ d.capacity = c /\ Dict!Filled(d) = {s \in 0 .. c - 1 : d.entries[s].key # 0}
        /\ \A s \in Dict!Filled(d) : d.entries[s].key \in Keys
    BY TableEntries DEF Keyed
  <1>2. T = {s \in 0 .. c - 1 : s \notin Dict!Filled(d)
                                \/ Dict!KeyEqual(d.callbacks, d.entries[s].key, key)}
    BY <1>1 DEF Dict!Found
  <1>3. t \in T /\ T \in SUBSET (0 .. c - 1) BY <1>1, <1>2
  <1>4. hash \in Nat /\ hash = Dict!Hash(d.callbacks, d.entries[t].key) BY <1>1, KeysCompare
  <1>5. Dict!FindEntry(d, key) = Dict!FirstFrom(hash, c, T) BY <1>1 DEF Dict!FindEntry
  <1>6. h = Start(d, d.entries[t].key) BY <1>1, <1>4 DEF Start
  <1>7. Passed(h, c, t) \subseteq Dict!Filled(d) BY <1>1, <1>6 DEF Probed
  <1>8. t \notin Passed(h, c, t)
    <2>1. h \in 0 .. c - 1 /\ t \in Nat BY <1>1, <1>4
    <2> QED BY ONLY <2>1, c \in Nat \ {0} DEF Passed
  <1>9. ASSUME NEW s \in Passed(h, c, t), s \in T PROVE FALSE
    <2>1. s \in Dict!Filled(d) /\ s # t BY <1>7, <1>8, <1>9
    <2>2. Dict!KeyEqual(d.callbacks, d.entries[s].key, key) BY <1>2, <1>9, <2>1
    <2>3. Dict!KeyEqual(d.callbacks, d.entries[s].key, d.entries[t].key)
      BY <1>1, <2>1, <2>2, KeysCompare
    <2> QED BY <2>1, <2>3 DEF Probed
  <1> HIDE DEF T, hash
  <1>10. Passed(h, c, t) \cap T = {} BY <1>9
  <1>11. T # {} BY <1>3
  <1>12. PICK f : f = Dict!FirstFrom(hash, c, T) OBVIOUS
  <1>13. \A s \in T : Passed(h, c, s) \cap T = {} => s = f
    BY ONLY <1>3, <1>4, <1>11, <1>12, c \in Nat \ {0}, FirstFromIs
  <1> QED BY <1>3, <1>5, <1>10, <1>12, <1>13

\* What g is when an entry was put into d where the search for its key ended.
PutInto(d, e, g, c) ==
    /\ g \in Dict!Tables(c) /\ g.callbacks = d.callbacks
    /\ g.entries = [d.entries EXCEPT ![Dict!FindEntry(d, e.key)] = e]

\* Putting an entry keeps a table probed, and fills at most one more slot.
LEMMA PutKeepsProbed ==
    ASSUME NEW c \in Nat \ {0}, NEW d \in Dict!Tables(c), Probed(d), Vacant(d),
           NEW e \in [key : Keyed, value : Values], NEW g, PutInto(d, e, g, c),
           NEW f, f = Dict!FindEntry(d, e.key)
    PROVE  /\ Probed(g)
           /\ f \in 0 .. c - 1 /\ f \in Dict!Filled(g) /\ g.entries[f] = e
           /\ Dict!Filled(g) = Dict!Filled(d) \cup {f}
           /\ \A s \in 0 .. c - 1 : s # f => g.entries[s] = d.entries[s]
           /\ f \notin Dict!Filled(d) =>
                  \A s \in Dict!Filled(d) : ~ Dict!KeyEqual(d.callbacks, d.entries[s].key, e.key)
  <1> DEFINE b == d.callbacks
             key == e.key
             F == Dict!Filled(d)
             G == Dict!Filled(g)
  <1>1. key \in Keys /\ key # 0 BY DEF Keyed
  <1>2. /\ f \in 0 .. c - 1 /\ (f \notin F \/ Dict!KeyEqual(b, d.entries[f].key, key))
        /\ \A s \in Passed(Start(d, key), c, f) : s \in F /\ ~ Dict!KeyEqual(b, d.entries[s].key, key)
    BY <1>1, SearchEnds
  <1>3. /\ d.capacity = c /\ d.entries \in [0 .. c - 1 -> Dict!SlotRecords]
        /\ F = {s \in 0 .. c - 1 : d.entries[s].key # 0}
        /\ \A s \in F : d.entries[s].key \in Keys
    BY TableEntries DEF Keyed
  <1>4. g \in Dict!Tables(c) /\ g.callbacks = b BY DEF PutInto
  <1>5. g.capacity = c /\ G = {s \in 0 .. c - 1 : g.entries[s].key # 0}
    BY <1>4, TableEntries
  <1>6. g.entries[f] = e /\ \A s \in 0 .. c - 1 : s # f => g.entries[s] = d.entries[s]
    BY <1>2, <1>3 DEF PutInto
  <1> HIDE DEF F, G
  <1>7. G = F \cup {f} BY <1>1, <1>2, <1>3, <1>5, <1>6
  <1>8. \A k : Start(g, k) = Start(d, k) BY <1>3, <1>4, <1>5 DEF Start
  <1> HIDE DEF b, key
  <1>9. ASSUME NEW s \in F, s # f PROVE ~ Dict!KeyEqual(b, d.entries[s].key, key)
    <2> SUFFICES ASSUME Dict!KeyEqual(b, d.entries[s].key, key) PROVE FALSE OBVIOUS
    <2>1. CASE f \notin F
      <3>1. Dict!FindEntry(d, key) = s
        BY ONLY <1>1, <1>9, c \in Nat \ {0}, d \in Dict!Tables(c), Probed(d),
                Dict!KeyEqual(b, d.entries[s].key, key), SearchFinds DEF F, b
      <3> QED BY <1>9, <3>1 DEF key
    <2>2. CASE f \in F
      <3>1. Dict!KeyEqual(b, d.entries[f].key, key) BY <1>2, <2>2
      <3>2. Dict!KeyEqual(b, d.entries[s].key, d.entries[f].key)
        BY <1>1, <1>3, <1>9, <2>2, <3>1, KeysCompare
      <3> QED BY <1>9, <2>2, <3>2 DEF Probed, F, b
    <2> QED BY <2>1, <2>2
  <1>10. ASSUME NEW s \in G
         PROVE  Passed(Start(g, g.entries[s].key), g.capacity, s) \subseteq G
    <2>1. CASE s = f
      <3>1. Passed(Start(d, key), c, f) \subseteq F BY <1>2
      <3> QED BY <1>5, <1>6, <1>7, <1>8, <2>1, <3>1 DEF key
    <2>2. CASE s # f
      <3>1. s \in F /\ s \in 0 .. c - 1 BY <1>3, <1>7, <2>2
      <3>2. Passed(Start(d, d.entries[s].key), c, s) \subseteq F BY <1>3, <3>1 DEF Probed, F
      <3> QED BY <1>5, <1>6, <1>7, <1>8, <2>2, <3>1, <3>2
    <2> QED BY <2>1, <2>2
  <1>11. ASSUME NEW s \in G, NEW t \in G, s # t
         PROVE  ~ Dict!KeyEqual(b, g.entries[s].key, g.entries[t].key)
    <2>0. F \subseteq 0 .. c - 1 BY <1>3
    <2>1. CASE s = f
      <3>1. t \in F /\ t # f BY <1>7, <1>11, <2>1
      <3>2. ~ Dict!KeyEqual(b, d.entries[t].key, key) BY <1>9, <3>1
      <3>3. ~ Dict!KeyEqual(b, key, d.entries[t].key) BY <1>1, <1>3, <3>1, <3>2, KeysCompare
      <3> QED BY <1>6, <2>0, <2>1, <3>1, <3>3 DEF key
    <2>2. CASE t = f
      <3>1. s \in F /\ s # f BY <1>7, <1>11, <2>2
      <3> QED BY <1>6, <1>9, <2>0, <2>2, <3>1 DEF key
    <2>3. CASE s # f /\ t # f
      <3>1. s \in F /\ t \in F BY <1>7, <2>3
      <3> QED BY <1>6, <1>11, <2>0, <2>3, <3>1 DEF Probed, F, b
    <2> QED BY <2>1, <2>2, <2>3
  <1>12. Probed(g) BY <1>4, <1>10, <1>11 DEF Probed, G
  <1> QED BY <1>2, <1>6, <1>7, <1>9, <1>12 DEF F, G, b, key

\* An entry that is put again, into a table that has room.
LEMMA PutAgainIs ==
    ASSUME NEW c \in Nat \ {0}, NEW d \in Dict!Tables(c), NEW e \in [key : Keyed, value : Values],
           NEW g, g = Dict!PutAgain(d, e)
    PROVE  PutInto(d, e, g, c) /\ g.count = d.count
  <1>1. /\ d \in [entries : [0 .. c - 1 -> Dict!SlotRecords], capacity : {c},
                  count : Nat, callbacks : {"node", "cache"}]
        /\ e \in Dict!SlotRecords
    BY DEF Dict!Tables, Dict!SlotRecords, Keyed
  <1>2. PICK f : f = Dict!FindEntry(d, e.key) OBVIOUS
  <1>3. g = [d EXCEPT !.entries = [d.entries EXCEPT ![f] = e]] BY <1>1, <1>2 DEF Dict!PutAgain
  <1>4. [d.entries EXCEPT ![f] = e] \in [0 .. c - 1 -> Dict!SlotRecords] BY <1>1
  <1>5. /\ g.entries = [d.entries EXCEPT ![f] = e] /\ g.callbacks = d.callbacks
        /\ g.count = d.count
        /\ g \in [entries : [0 .. c - 1 -> Dict!SlotRecords], capacity : {c},
                  count : Nat, callbacks : {"node", "cache"}]
    BY <1>1, <1>3, <1>4
  <1> QED BY ONLY <1>2, <1>5 DEF PutInto, Dict!Tables

\* A key and a value that are set.
LEMMA PutIs ==
    ASSUME NEW c \in Nat \ {0}, NEW d \in Dict!Tables(c), Vacant(d),
           NEW key \in Keyed, NEW value \in Values,
           NEW g, g = Dict!Put(d, key, value), NEW e, e = [key |-> key, value |-> value],
           NEW f, f = Dict!FindEntry(d, key)
    PROVE  /\ e \in [key : Keyed, value : Values] /\ PutInto(d, e, g, c)
           /\ g.count = IF f \in Dict!Filled(d) THEN d.count ELSE d.count + 1
  <1>1. /\ d \in [entries : [0 .. c - 1 -> Dict!SlotRecords], capacity : {c},
                  count : Nat, callbacks : {"node", "cache"}]
        /\ e \in Dict!SlotRecords /\ e \in [key : Keyed, value : Values] /\ e.key = key
    BY DEF Dict!Tables, Dict!SlotRecords, Keyed
  <1>2. f \in 0 .. c - 1
    <2>1. key \in Keys BY DEF Keyed
    <2> QED BY ONLY <2>1, c \in Nat \ {0}, d \in Dict!Tables(c), Vacant(d),
                    f = Dict!FindEntry(d, key), SearchEnds
  <1>3. Dict!Filled(d) = {s \in 0 .. c - 1 : d.entries[s].key # 0} BY TableEntries
  <1>4. PICK n : n = d.count + IF Dict!IsNew(d.entries[f]) THEN 1 ELSE 0 OBVIOUS
  <1>5. n = (IF f \in Dict!Filled(d) THEN d.count ELSE d.count + 1) /\ n \in Nat
    BY <1>1, <1>2, <1>3, <1>4 DEF Dict!IsNew
  <1>6. g = [d EXCEPT !.entries = [d.entries EXCEPT ![f] = e], !.count = n]
    BY <1>1, <1>4 DEF Dict!Put
  <1>7. [d.entries EXCEPT ![f] = e] \in [0 .. c - 1 -> Dict!SlotRecords] BY <1>1
  <1>8. /\ g.entries = [d.entries EXCEPT ![f] = e] /\ g.callbacks = d.callbacks
        /\ g.count = n
        /\ g \in [entries : [0 .. c - 1 -> Dict!SlotRecords], capacity : {c},
                  count : Nat, callbacks : {"node", "cache"}]
    BY <1>1, <1>5, <1>6, <1>7
  <1> QED BY ONLY <1>1, <1>5, <1>8, f = Dict!FindEntry(d, key) DEF PutInto, Dict!Tables

-----------------------------------------------------------------------------
(* Counting the entries.                                                   *)

\* The dictionary counts as everyone does: its operator has the same definition.
LEMMA SameCardinality == \A S : Dict!Cardinality(S) = Cardinality(S)
  BY DEF Cardinality, Dict!Cardinality

Full == [key : Keyed, value : Values]
WithKey(x) == {e \in Full : e.key = x}
WithValue(x) == {e \in Full : e.value = x}

\* The filled slots, and the references of the entries, as counts of the table.
LEMMA EntriesAreCounts ==
    ASSUME NEW c \in Nat, NEW d \in Dict!Tables(c), NEW x
    PROVE  /\ IsFiniteSet(DOMAIN d.entries)
           /\ Dict!Filled(d) = Hits(d.entries, Full)
           /\ Cardinality(Dict!Filled(d)) = Count(d.entries, Full)
           /\ Dict!Entries(d, x) =
                  IF x = 0 THEN 0
                  ELSE Count(d.entries, WithValue(x))
                         + IF d.callbacks = "node" THEN Count(d.entries, WithKey(x)) ELSE 0
  <1>1. /\ d.capacity = c /\ DOMAIN d.entries = 0 .. c - 1
        /\ Dict!Filled(d) = {s \in 0 .. c - 1 : d.entries[s].key # 0}
    BY TableEntries
  <1>2. \A s \in 0 .. c - 1 :
            IF s \in Dict!Filled(d)
            THEN /\ d.entries[s] \in [key : Keyed, value : Values]
                 /\ d.entries[s].key \in Keyed /\ d.entries[s].value \in Values
            ELSE d.entries[s] = Dict!NoEntry
    BY TableEntries
  <1>3. Dict!NoEntry \notin Full /\ Dict!NoEntry.key = 0 BY DEF Dict!NoEntry, Full, Keyed
  <1>4. IsFiniteSet(DOMAIN d.entries)
    <2>1. 0 \in Int /\ c - 1 \in Int OBVIOUS
    <2> QED BY ONLY <1>1, <2>1, FS_Interval
  <1>5. Dict!Filled(d) = Hits(d.entries, Full) BY <1>1, <1>2, <1>3 DEF Hits, Full
  <1>6. {s \in 0 .. d.capacity - 1 : d.entries[s].key # 0 /\ d.entries[s].value = x}
            = Hits(d.entries, WithValue(x))
    BY <1>1, <1>2, <1>3 DEF Hits, Full, WithValue
  <1>7. x # 0 => {s \in 0 .. d.capacity - 1 : d.entries[s].key = x} = Hits(d.entries, WithKey(x))
    BY <1>1, <1>2, <1>3 DEF Hits, Full, WithKey
  <1>8. Cardinality(Dict!Filled(d)) = Count(d.entries, Full) BY ONLY <1>5 DEF Count
  <1>9. PICK u, v : u = Hits(d.entries, WithValue(x)) /\ v = Hits(d.entries, WithKey(x)) OBVIOUS
  <1>10. Dict!Entries(d, x) =
             IF x = 0 THEN 0
             ELSE Cardinality(u) + IF d.callbacks = "node" THEN Cardinality(v) ELSE 0
    <2>1. CASE x = 0 BY ONLY <2>1 DEF Dict!Entries
    <2>2. CASE x # 0
      <3> DEFINE A == {s \in 0 .. d.capacity - 1 : d.entries[s].key # 0 /\ d.entries[s].value = x}
                 B == {s \in 0 .. d.capacity - 1 : d.entries[s].key = x}
      <3>1. Dict!Entries(d, x) =
                IF x = 0 THEN 0
                ELSE Cardinality(A) + IF d.callbacks = "node" THEN Cardinality(B) ELSE 0
        <4>1. Dict!Entries(d, x) =
                  IF x = 0 THEN 0
                  ELSE Dict!Cardinality(A) + IF d.callbacks = "node" THEN Dict!Cardinality(B) ELSE 0
          BY Zenon DEF Dict!Entries
        <4> HIDE DEF A, B
        <4> QED BY ONLY <4>1, SameCardinality
      <3>2. A = u /\ B = v BY <1>6, <1>7, <1>9, <2>2
      <3> HIDE DEF A, B
      <3> QED BY ONLY <2>2, <3>1, <3>2
    <2> QED BY <2>1, <2>2
  <1> QED BY ONLY <1>4, <1>5, <1>8, <1>9, <1>10 DEF Count

\* The counts after an entry was put.
LEMMA PutCounts ==
    ASSUME NEW c \in Nat \ {0}, NEW d \in Dict!Tables(c), Vacant(d),
           NEW e \in Full, NEW g, PutInto(d, e, g, c),
           NEW f, f = Dict!FindEntry(d, e.key), NEW P
    PROVE  Count(g.entries, P)
               = Count(d.entries, P) - (IF d.entries[f] \in P THEN 1 ELSE 0) + (IF e \in P THEN 1 ELSE 0)
  <1>1. e.key \in Keys BY DEF Full, Keyed
  <1>2. f \in 0 .. c - 1
    BY ONLY <1>1, c \in Nat \ {0}, d \in Dict!Tables(c), Vacant(d),
            f = Dict!FindEntry(d, e.key), SearchEnds
  <1>3. PICK u, v : u = d.entries /\ v = g.entries OBVIOUS
  <1>4. u \in [0 .. c - 1 -> Dict!SlotRecords] BY <1>3, TableEntries
  <1>5. v = [u EXCEPT ![f] = e] BY <1>3 DEF PutInto
  <1>6. IsFiniteSet(DOMAIN u)
    <2>1. c \in Nat OBVIOUS
    <2> QED BY ONLY <1>3, <2>1, d \in Dict!Tables(c), EntriesAreCounts
  <1>7. f \in DOMAIN u /\ DOMAIN v = DOMAIN u /\ v[f] = e /\ \A s \in DOMAIN u : s # f => v[s] = u[s]
    BY <1>2, <1>4, <1>5
  <1>8. Count(v, P) = Count(u, P) - (IF u[f] \in P THEN 1 ELSE 0) + (IF e \in P THEN 1 ELSE 0)
    BY ONLY <1>6, <1>7, EntryReplaced
  <1> QED BY ONLY <1>3, <1>8

\* A table with fewer entries than slots has an empty one.
LEMMA RoomIsVacant ==
    ASSUME NEW c \in Nat, NEW d \in Dict!Tables(c), Cardinality(Dict!Filled(d)) < c
    PROVE  Vacant(d)
  <1>1. d.capacity = c /\ Dict!Filled(d) \subseteq 0 .. c - 1 BY TableEntries
  <1>2. Cardinality(0 .. c - 1) = c
    <2>1. 0 \in Int /\ c - 1 \in Int OBVIOUS
    <2>2. Cardinality(0 .. c - 1) = IF 0 > c - 1 THEN 0 ELSE (c - 1) - 0 + 1
      BY ONLY <2>1, FS_Interval
    <2> QED BY <2>2
  <1>3. Dict!Filled(d) # 0 .. c - 1 BY <1>2
  <1> QED BY <1>1, <1>3 DEF Vacant

-----------------------------------------------------------------------------
(* Growing: the entries are put one by one into an empty table.            *)

Emptied(d, c) == [d EXCEPT !.capacity = c, !.entries = Dict!Empty(c)]

\* The tables that Grown goes through.
IsCopied(copied, d, c) ==
    copied = [n \in 0 .. d.capacity |->
                IF n = 0 THEN Emptied(d, c)
                ELSE IF d.entries[n - 1].key = 0 THEN copied[n - 1]
                ELSE Dict!PutAgain(copied[n - 1], d.entries[n - 1])]

\* An empty table.
LEMMA EmptyTable ==
    ASSUME NEW a \in Nat, NEW d \in Dict!Tables(a), NEW c \in Nat
    PROVE  /\ Emptied(d, c) \in Dict!Tables(c)
           /\ Emptied(d, c).callbacks = d.callbacks /\ Emptied(d, c).count = d.count
           /\ Emptied(d, c).entries = [s \in 0 .. c - 1 |-> Dict!NoEntry]
  <1>1. d \in [entries : [0 .. a - 1 -> Dict!SlotRecords], capacity : {a},
               count : Nat, callbacks : {"node", "cache"}]
    BY DEF Dict!Tables
  <1>2. Dict!Empty(c) \in [0 .. c - 1 -> Dict!SlotRecords] BY DEF Dict!Empty, Dict!SlotRecords
  <1>3. Dict!Empty(c) = [s \in 0 .. c - 1 |-> Dict!NoEntry] BY DEF Dict!Empty
  <1>4. PICK e : e = Dict!Empty(c) OBVIOUS
  <1>5. PICK g : g = [d EXCEPT !.capacity = c, !.entries = e] OBVIOUS
  <1>6. /\ g \in [entries : [0 .. c - 1 -> Dict!SlotRecords], capacity : {c},
                  count : Nat, callbacks : {"node", "cache"}]
        /\ g.callbacks = d.callbacks /\ g.count = d.count /\ g.entries = e
    BY <1>1, <1>2, <1>4, <1>5
  <1> QED BY ONLY <1>3, <1>4, <1>5, <1>6 DEF Emptied, Dict!Tables

\* The recursive definition of Grown defines a function.
LEMMA CopiedDefined ==
    ASSUME NEW a \in Nat, NEW d \in Dict!Tables(a), NEW c \in Nat \ {0}
    PROVE  \E copied : IsCopied(copied, d, c)
  <1> DEFINE V == Dict!Tables(c)
             v0 == Emptied(d, c)
             h == [n \in Nat |-> IF n = 0 THEN 0 ELSE n - 1]
             step == [p \in Nat \X V |->
                        IF p[1] \in 1 .. a /\ d.entries[p[1] - 1].key # 0
                        THEN Dict!PutAgain(p[2], d.entries[p[1] - 1]) ELSE p[2]]
  <1>1. d.capacity = a BY TableEntries
  <1>2. h \in [Nat -> Nat] /\ (\A n \in Nat \ {0} : h[n] < n)
        /\ \A n \in Nat : n # 0 => h[n] = n - 1
    OBVIOUS
  <1>3. ASSUME NEW n \in Nat, NEW g \in V
        PROVE  (IF n \in 1 .. a /\ d.entries[n - 1].key # 0
                THEN Dict!PutAgain(g, d.entries[n - 1]) ELSE g) \in V
    <2> SUFFICES ASSUME n \in 1 .. a, d.entries[n - 1].key # 0
                 PROVE  Dict!PutAgain(g, d.entries[n - 1]) \in V
      OBVIOUS
    <2>1. PICK e : e = d.entries[n - 1] OBVIOUS
    <2>2. n - 1 \in 0 .. a - 1 OBVIOUS
    <2>3. n - 1 \in Dict!Filled(d) BY <2>2, TableEntries
    <2>4. e \in [key : Keyed, value : Values] BY <2>1, <2>2, <2>3, TableEntries
    <2>5. PutInto(g, e, Dict!PutAgain(g, e), c)
      BY ONLY <2>4, c \in Nat \ {0}, g \in Dict!Tables(c), PutAgainIs
    <2> QED BY <2>1, <2>5 DEF PutInto
  <1>4. step \in [Nat \X V -> V] BY <1>3
  <1>5. \A n \in Nat : \A g \in V :
            step[<<n, g>>] = IF n \in 1 .. a /\ d.entries[n - 1].key # 0
                             THEN Dict!PutAgain(g, d.entries[n - 1]) ELSE g
    OBVIOUS
  <1>6. v0 \in V
    <2>1. c \in Nat OBVIOUS
    <2> QED BY ONLY <2>1, a \in Nat, d \in Dict!Tables(a), EmptyTable
  <1> HIDE DEF V, v0, h, step
  <1>7. IsRecursion(V, v0, h, step) BY ONLY <1>2, <1>4, <1>6 DEF IsRecursion
  <1>8. PICK f \in [Nat -> V] : f = [n \in Nat |-> IF n = 0 THEN v0 ELSE step[<<n, f[h[n]]>>]]
    BY ONLY <1>7, Recursion
  <1> DEFINE k == [n \in 0 .. a |-> f[n]]
  <1>9. ASSUME NEW n \in 0 .. a
        PROVE  k[n] = IF n = 0 THEN v0
                      ELSE IF d.entries[n - 1].key = 0 THEN k[n - 1]
                      ELSE Dict!PutAgain(k[n - 1], d.entries[n - 1])
    <2>1. n \in Nat /\ k[n] = f[n] OBVIOUS
    <2>2. f[n] = IF n = 0 THEN v0 ELSE step[<<n, f[h[n]]>>] BY <1>8, <2>1
    <2>3. CASE n = 0 BY <2>1, <2>2, <2>3
    <2>4. CASE n # 0
      <3>1. n \in 1 .. a /\ n - 1 \in 0 .. a /\ n - 1 \in Nat BY <2>4
      <3>2. k[n - 1] = f[n - 1] /\ f[n - 1] \in V BY <1>8, <3>1
      <3>3. k[n] = step[<<n, k[n - 1]>>] BY <1>2, <2>1, <2>2, <2>4, <3>2
      <3> HIDE DEF k
      <3> QED BY ONLY <1>5, <2>1, <2>4, <3>1, <3>2, <3>3
    <2> QED BY <2>3, <2>4
  <1>10. k = [n \in 0 .. a |-> IF n = 0 THEN v0
                               ELSE IF d.entries[n - 1].key = 0 THEN k[n - 1]
                               ELSE Dict!PutAgain(k[n - 1], d.entries[n - 1])]
    <2>1. k = [n \in 0 .. a |-> k[n]] OBVIOUS
    <2> HIDE DEF k
    <2> QED BY <1>9, <2>1
  <1> HIDE DEF k
  <1>11. IsCopied(k, d, c) BY ONLY <1>1, <1>10 DEF IsCopied, v0
  <1> QED BY <1>11

\* Grown is the last of them.
LEMMA GrownIsCopied ==
    ASSUME NEW a \in Nat, NEW d \in Dict!Tables(a), NEW c \in Nat \ {0}
    PROVE  \E copied : IsCopied(copied, d, c) /\ Dict!Grown(d, c) = copied[a]
  <1>1. d.capacity = a BY TableEntries
  <1>2. Dict!Grown(d, c) = (CHOOSE copied : IsCopied(copied, d, c))[d.capacity]
    BY DEF Dict!Grown, IsCopied, Emptied
  <1>3. PICK k : k = CHOOSE copied : IsCopied(copied, d, c) OBVIOUS
  <1>4. IsCopied(k, d, c) BY ONLY <1>3, CopiedDefined, a \in Nat, d \in Dict!Tables(a), c \in Nat \ {0}
  <1> QED BY ONLY <1>1, <1>2, <1>3, <1>4

\* Two tables have the same entries, wherever they are.
SameEntries(f, g) == \A P : Dict!NoEntry \notin P => Count(f, P) = Count(g, P)

\* An entry of a table is one of the other's.
LEMMA SameEntriesMeet ==
    ASSUME NEW f, IsFiniteSet(DOMAIN f), NEW g, IsFiniteSet(DOMAIN g), SameEntries(f, g),
           NEW s \in DOMAIN f, f[s] # Dict!NoEntry
    PROVE  \E t \in DOMAIN g : g[t] = f[s]
  <1> DEFINE P == {f[s]}
  <1>1. IsFiniteSet(Hits(f, P)) /\ IsFiniteSet(Hits(g, P)) BY EntriesFinite
  <1>2. Count(f, P) = Count(g, P) BY DEF SameEntries
  <1>3. Hits(f, P) # {} BY DEF Hits
  <1>4. Count(f, P) # 0 BY <1>1, <1>3, FS_EmptySet DEF Count
  <1>5. Hits(g, P) # {} BY <1>1, <1>2, <1>4, FS_EmptySet DEF Count
  <1> QED BY <1>5 DEF Hits

\* The first n slots of a table of a slots; the others are empty.
FirstSlots(d, a, n) == [s \in 0 .. a - 1 |-> IF s < n THEN d.entries[s] ELSE Dict!NoEntry]

\* What g is when those of the entries of d were copied into it.
CopyOf(g, d, a, c, n) ==
    /\ g \in Dict!Tables(c) /\ Probed(g)
    /\ g.count = d.count /\ g.callbacks = d.callbacks
    /\ SameEntries(g.entries, FirstSlots(d, a, n))

\* A larger table has room for the entries that are copied.
LEMMA CopyHasRoom ==
    ASSUME NEW a \in Nat, NEW d, NEW c \in Nat, a < c, NEW n \in Nat, NEW g, CopyOf(g, d, a, c, n)
    PROVE  Vacant(g)
  <1>1. PICK f : f = FirstSlots(d, a, n) OBVIOUS
  <1>2. DOMAIN f = 0 .. a - 1 BY <1>1 DEF FirstSlots
  <1>3. IsFiniteSet(0 .. a - 1) /\ Cardinality(0 .. a - 1) = a
    <2>1. 0 \in Int /\ a - 1 \in Int OBVIOUS
    <2>2. IsFiniteSet(0 .. a - 1)
          /\ Cardinality(0 .. a - 1) = IF 0 > a - 1 THEN 0 ELSE (a - 1) - 0 + 1
      BY ONLY <2>1, FS_Interval
    <2> QED BY <2>2
  <1>4. Hits(f, Full) \subseteq 0 .. a - 1 BY <1>2 DEF Hits
  <1>5. Cardinality(Hits(f, Full)) <= a BY ONLY <1>3, <1>4, FS_Subset
  <1>6. g \in Dict!Tables(c) /\ Cardinality(Dict!Filled(g)) = Count(g.entries, Full)
    <2>1. g \in Dict!Tables(c) BY DEF CopyOf
    <2> QED BY ONLY <2>1, c \in Nat, EntriesAreCounts
  <1>7. Dict!NoEntry \notin Full BY DEF Dict!NoEntry, Full, Keyed
  <1>8. Count(g.entries, Full) = Count(f, Full) BY <1>1, <1>7 DEF CopyOf, SameEntries
  <1>9. IsFiniteSet(Hits(f, Full)) BY ONLY <1>3, <1>4, FS_Subset
  <1>10. Cardinality(Hits(f, Full)) \in Nat BY ONLY <1>9, FS_CardinalityType
  <1>11. Cardinality(Dict!Filled(g)) < c BY <1>5, <1>6, <1>8, <1>10 DEF Count
  <1> QED BY ONLY <1>6, <1>11, c \in Nat, RoomIsVacant

\* One more slot is copied.
LEMMA CopyStep ==
    ASSUME NEW a \in Nat, NEW d \in Dict!Tables(a), Probed(d), NEW c \in Nat \ {0}, a < c,
           NEW n \in 0 .. a - 1, NEW g, CopyOf(g, d, a, c, n), NEW m, m = n + 1,
           NEW g2, g2 = IF d.entries[n].key = 0 THEN g ELSE Dict!PutAgain(g, d.entries[n])
    PROVE  CopyOf(g2, d, a, c, m)
  <1> DEFINE f == FirstSlots(d, a, n)
             f2 == FirstSlots(d, a, m)
             e == d.entries[n]
  <1>1. n \in Nat /\ n \in 0 .. a - 1 /\ m \in Nat OBVIOUS
  <1>2. /\ DOMAIN f = 0 .. a - 1 /\ DOMAIN f2 = 0 .. a - 1 /\ f[n] = Dict!NoEntry /\ f2[n] = e
        /\ \A s \in 0 .. a - 1 : s # n => f2[s] = f[s]
        /\ \A s \in 0 .. a - 1 : f[s] # Dict!NoEntry => f[s] = d.entries[s] /\ s # n
    BY DEF FirstSlots
  <1>3. IsFiniteSet(0 .. a - 1)
    <2>1. 0 \in Int /\ a - 1 \in Int OBVIOUS
    <2> QED BY ONLY <2>1, FS_Interval
  <1>4. /\ Dict!Filled(d) = {s \in 0 .. a - 1 : d.entries[s].key # 0}
        /\ \A s \in 0 .. a - 1 :
               IF s \in Dict!Filled(d)
               THEN d.entries[s] \in [key : Keyed, value : Values] /\ d.entries[s].key \in Keyed
               ELSE d.entries[s] = Dict!NoEntry
    BY TableEntries
  <1> HIDE DEF f, f2
  <1>5. /\ g \in Dict!Tables(c) /\ Probed(g) /\ g.count = d.count /\ g.callbacks = d.callbacks
        /\ SameEntries(g.entries, f)
    BY DEF CopyOf, f
  <1>6. ASSUME NEW P, Dict!NoEntry \notin P
        PROVE  Count(f2, P) = Count(f, P) + (IF e \in P THEN 1 ELSE 0) /\ Count(f, P) \in Nat
    <2>1. Count(f2, P) = Count(f, P) - (IF f[n] \in P THEN 1 ELSE 0) + (IF e \in P THEN 1 ELSE 0)
      <3>1. /\ IsFiniteSet(DOMAIN f) /\ n \in DOMAIN f /\ DOMAIN f2 = DOMAIN f /\ f2[n] = e
            /\ \A s \in DOMAIN f : s # n => f2[s] = f[s]
        BY <1>1, <1>2, <1>3
      <3> HIDE DEF e
      <3> QED BY ONLY <3>1, EntryReplaced
    <2>2. Count(f, P) \in Nat BY <1>2, <1>3, EntriesFinite
    <2> QED BY <1>2, <1>6, <2>1, <2>2
  <1>7. CASE e.key = 0
    <2>1. g2 = g /\ e = Dict!NoEntry BY <1>1, <1>4, <1>7
    <2>2. SameEntries(f, f2)
      <3> SUFFICES ASSUME NEW P, Dict!NoEntry \notin P PROVE Count(f, P) = Count(f2, P)
        BY DEF SameEntries
      <3> QED BY <1>6, <2>1
    <2>3. SameEntries(g.entries, f2) BY <1>5, <2>2 DEF SameEntries
    <2> QED BY <1>5, <2>1, <2>3 DEF CopyOf, f2
  <1>8. CASE e.key # 0
    <2>1. n \in Dict!Filled(d) /\ e \in [key : Keyed, value : Values] /\ e.key \in Keyed
      BY <1>1, <1>4, <1>8
    <2>2. g2 = Dict!PutAgain(g, e) BY <1>8
    <2>3. Vacant(g)
      <3>1. c \in Nat OBVIOUS
      <3> QED BY ONLY <1>1, <3>1, a \in Nat, a < c, CopyOf(g, d, a, c, n), CopyHasRoom
    <2> HIDE DEF e
    <2>4. PutInto(g, e, g2, c) /\ g2.count = g.count
      BY ONLY <1>5, <2>1, <2>2, c \in Nat \ {0}, PutAgainIs
    <2>5. PICK p : p = Dict!FindEntry(g, e.key) OBVIOUS
    <2>6. /\ Probed(g2)
          /\ p \in 0 .. c - 1
      BY ONLY <1>5, <2>1, <2>3, <2>4, <2>5, c \in Nat \ {0}, PutKeepsProbed
    <2>7. p \notin Dict!Filled(g)
      <3> SUFFICES ASSUME p \in Dict!Filled(g) PROVE FALSE OBVIOUS
      <3>1. Dict!KeyEqual(g.callbacks, g.entries[p].key, e.key)
        <4>1. e.key \in Keys BY <2>1 DEF Keyed
        <4>2. p \notin Dict!Filled(g) \/ Dict!KeyEqual(g.callbacks, g.entries[p].key, e.key)
          BY ONLY <1>5, <2>3, <2>5, <4>1, c \in Nat \ {0}, SearchEnds
        <4> QED BY <4>2
      <3>2. DOMAIN g.entries = 0 .. c - 1 /\ g.entries[p].key \in Keyed
        BY <1>5, TableEntries
      <3>3. g.entries[p] # Dict!NoEntry BY <3>2 DEF Dict!NoEntry, Keyed
      <3>4. IsFiniteSet(DOMAIN g.entries)
        <4>1. c \in Nat OBVIOUS
        <4> QED BY ONLY <1>5, <4>1, EntriesAreCounts
      <3>5. PICK s \in 0 .. a - 1 : f[s] = g.entries[p]
        <4>1. IsFiniteSet(DOMAIN f) /\ p \in DOMAIN g.entries BY <1>2, <1>3, <2>6, <3>2
        <4>2. PICK u : u = g.entries OBVIOUS
        <4>3. \E s \in DOMAIN f : f[s] = u[p]
          BY ONLY <1>5, <3>3, <3>4, <4>1, <4>2, SameEntriesMeet
        <4> QED BY ONLY <1>2, <4>2, <4>3
      <3>6. d.entries[s] = g.entries[p] /\ s # n BY <1>2, <3>3, <3>5
      <3>7. s \in Dict!Filled(d) BY <1>4, <3>2, <3>6 DEF Keyed
      <3> QED BY <1>5, <2>1, <3>1, <3>6, <3>7 DEF Probed, e
    <2>8. SameEntries(g2.entries, f2)
      <3> SUFFICES ASSUME NEW P, Dict!NoEntry \notin P PROVE Count(g2.entries, P) = Count(f2, P)
        BY DEF SameEntries
      <3>1. Count(g2.entries, P)
                = Count(g.entries, P) - (IF g.entries[p] \in P THEN 1 ELSE 0) + (IF e \in P THEN 1 ELSE 0)
        <4>1. e \in Full BY <2>1 DEF Full
        <4> QED BY ONLY <1>5, <2>3, <2>4, <2>5, <4>1, c \in Nat \ {0}, PutCounts
      <3>2. g.entries[p] = Dict!NoEntry BY <1>5, <2>6, <2>7, TableEntries
      <3>3. Count(g.entries, P) = Count(f, P) BY <1>5 DEF SameEntries
      <3> QED BY <1>6, <3>1, <3>2, <3>3
    <2> QED BY <1>5, <2>4, <2>6, <2>8 DEF CopyOf, PutInto, f2
  <1> QED BY <1>7, <1>8

\* What Grown copies from, before the first slot and behind the last.
LEMMA FirstAndAll ==
    ASSUME NEW a \in Nat, NEW d \in Dict!Tables(a), Probed(d), NEW c \in Nat
    PROVE  /\ CopyOf(Emptied(d, c), d, a, c, 0)
           /\ FirstSlots(d, a, a) = d.entries
  <1>1. PICK g : g = Emptied(d, c) OBVIOUS
  <1>2. /\ g \in Dict!Tables(c) /\ g.callbacks = d.callbacks /\ g.count = d.count
        /\ g.entries = [s \in 0 .. c - 1 |-> Dict!NoEntry]
    BY ONLY <1>1, a \in Nat, d \in Dict!Tables(a), c \in Nat, EmptyTable
  <1>3. Dict!Filled(g) = {}
    <2>1. Dict!Filled(g) = {s \in 0 .. c - 1 : g.entries[s].key # 0} BY <1>2, TableEntries
    <2> QED BY <1>2, <2>1 DEF Dict!NoEntry
  <1>4. Probed(g) BY <1>3 DEF Probed
  <1>5. SameEntries(g.entries, FirstSlots(d, a, 0))
    <2> SUFFICES ASSUME NEW P, Dict!NoEntry \notin P
                 PROVE  Count(g.entries, P) = Count(FirstSlots(d, a, 0), P)
      BY DEF SameEntries
    <2>1. Hits(g.entries, P) = {} BY <1>2 DEF Hits
    <2>2. Hits(FirstSlots(d, a, 0), P) = {} BY DEF Hits, FirstSlots
    <2> QED BY <2>1, <2>2 DEF Count
  <1>6. FirstSlots(d, a, a) = d.entries
    <2>1. d.entries \in [0 .. a - 1 -> Dict!SlotRecords] BY TableEntries
    <2> QED BY <2>1 DEF FirstSlots
  <1> QED BY <1>1, <1>2, <1>4, <1>5, <1>6 DEF CopyOf

\* A table that has grown has the entries that it had, and is probed.
LEMMA GrownKeepsEntries ==
    ASSUME NEW a \in Nat, NEW d \in Dict!Tables(a), Probed(d), NEW c \in Nat \ {0}, a < c,
           NEW g, g = Dict!Grown(d, c)
    PROVE  /\ g \in Dict!Tables(c) /\ Probed(g)
           /\ g.count = d.count /\ g.callbacks = d.callbacks
           /\ SameEntries(g.entries, d.entries)
  <1>1. PICK copied : IsCopied(copied, d, c) /\ g = copied[a]
    BY ONLY a \in Nat, d \in Dict!Tables(a), c \in Nat \ {0}, g = Dict!Grown(d, c), GrownIsCopied
  <1>2. d.capacity = a BY TableEntries
  <1>3. \A n \in 0 .. a :
            copied[n] = IF n = 0 THEN Emptied(d, c)
                        ELSE IF d.entries[n - 1].key = 0 THEN copied[n - 1]
                        ELSE Dict!PutAgain(copied[n - 1], d.entries[n - 1])
    BY ONLY <1>1, <1>2, Zenon DEF IsCopied
  <1> DEFINE S == {n \in Nat : n <= a => CopyOf(copied[n], d, a, c, n)}
  <1>4. 0 \in S
    <2>1. 0 \in 0 .. a OBVIOUS
    <2>2. copied[0] = Emptied(d, c) BY ONLY <1>3, <2>1
    <2>3. c \in Nat OBVIOUS
    <2>4. CopyOf(Emptied(d, c), d, a, c, 0)
      BY ONLY <2>3, a \in Nat, d \in Dict!Tables(a), Probed(d), FirstAndAll
    <2> QED BY <2>2, <2>4
  <1>5. ASSUME NEW n \in Nat, n \in S PROVE n + 1 \in S
    <2> SUFFICES ASSUME n + 1 <= a PROVE CopyOf(copied[n + 1], d, a, c, n + 1) OBVIOUS
    <2>1. PICK m, k, g2 : m = n + 1 /\ k = copied[n] /\ g2 = copied[n + 1] OBVIOUS
    <2>2. n \in 0 .. a - 1 /\ m \in 0 .. a /\ m # 0 /\ m - 1 = n BY <2>1
    <2>3. g2 = IF d.entries[n].key = 0 THEN k ELSE Dict!PutAgain(k, d.entries[n])
      BY ONLY <1>3, <2>1, <2>2
    <2>4. CopyOf(k, d, a, c, n) BY <1>5, <2>1, <2>2
    <2>5. CopyOf(g2, d, a, c, m)
      BY ONLY <2>1, <2>2, <2>3, <2>4, a \in Nat, d \in Dict!Tables(a), Probed(d), c \in Nat \ {0},
              a < c, CopyStep
    <2> QED BY ONLY <2>1, <2>5
  <1>6. \A n \in Nat : n \in S
    <2> HIDE DEF S
    <2> QED BY ONLY <1>4, <1>5, Induction
  <1>7. CopyOf(g, d, a, c, a) BY <1>1, <1>6
  <1>8. FirstSlots(d, a, a) = d.entries
    <2>1. c \in Nat OBVIOUS
    <2> QED BY ONLY <2>1, a \in Nat, d \in Dict!Tables(a), Probed(d), FirstAndAll
  <1> QED BY ONLY <1>7, <1>8 DEF CopyOf

-----------------------------------------------------------------------------
(* Setting.                                                                *)

\* Where there is room for one more entry, and then another slot.
Roomier(d) == TableOK(d) /\ d.count + 1 < d.capacity

\* The counts of a table and of one with the same entries.
LEMMA SameEntriesCount ==
    ASSUME NEW a \in Nat, NEW d \in Dict!Tables(a), NEW c \in Nat, NEW g \in Dict!Tables(c),
           g.callbacks = d.callbacks, SameEntries(g.entries, d.entries), NEW x
    PROVE  /\ Cardinality(Dict!Filled(g)) = Cardinality(Dict!Filled(d))
           /\ Dict!Entries(g, x) = Dict!Entries(d, x)
  <1>1. \A P \in {Full, WithKey(x), WithValue(x)} : Dict!NoEntry \notin P
    BY DEF Full, WithKey, WithValue, Dict!NoEntry, Keyed
  <1>2. \A P \in {Full, WithKey(x), WithValue(x)} : Count(g.entries, P) = Count(d.entries, P)
    BY <1>1 DEF SameEntries
  <1>3. /\ Cardinality(Dict!Filled(g)) = Count(g.entries, Full)
        /\ Dict!Entries(g, x) =
               IF x = 0 THEN 0
               ELSE Count(g.entries, WithValue(x))
                      + IF g.callbacks = "node" THEN Count(g.entries, WithKey(x)) ELSE 0
    BY ONLY c \in Nat, g \in Dict!Tables(c), EntriesAreCounts
  <1>4. /\ Cardinality(Dict!Filled(d)) = Count(d.entries, Full)
        /\ Dict!Entries(d, x) =
               IF x = 0 THEN 0
               ELSE Count(d.entries, WithValue(x))
                      + IF d.callbacks = "node" THEN Count(d.entries, WithKey(x)) ELSE 0
    BY ONLY a \in Nat, d \in Dict!Tables(a), EntriesAreCounts
  <1> QED BY <1>2, <1>3, <1>4

\* Growing makes room: a table is crowded when three quarters of it are filled.
LEMMA RoomyIs ==
    ASSUME NEW d, TableOK(d), NEW g \in Dict!Roomy(d)
    PROVE  /\ Roomier(g) /\ g.callbacks = d.callbacks
           /\ SameEntries(g.entries, d.entries)
  <1>1. PICK a : a = d.capacity OBVIOUS
  <1>2. /\ a \in 4 .. EntriesMax /\ a \in Nat /\ d \in Dict!Tables(a) /\ Probed(d)
        /\ d.count = Cardinality(Dict!Filled(d)) /\ d.count < a /\ d.count \in Nat
    BY <1>1, TableAssumption, TableEntries DEF TableOK
  <1>3. CASE Dict!IsCrowded(d)
    <2>1. PICK c : c = Dict!RoundCapacity(a + 1) /\ c \in 1 .. EntriesMax /\ g = Dict!Grown(d, c)
      BY <1>1, <1>3 DEF Dict!Roomy
    <2>2. c \in Nat \ {0} /\ c >= a + 1 /\ c >= 4
      <3>1. a + 1 \in Nat BY <1>2
      <3>2. /\ Dict!RoundCapacity(a + 1) \in Nat
            /\ Dict!RoundCapacity(a + 1) >= a + 1 /\ Dict!RoundCapacity(a + 1) >= 4
        BY ONLY <3>1, TableRoundedUp
      <3> QED BY <2>1, <3>2
    <2>3. a < c /\ c \in 4 .. EntriesMax /\ c \in Nat BY <1>2, <2>1, <2>2
    <2>4. /\ g \in Dict!Tables(c) /\ Probed(g)
          /\ g.count = d.count /\ g.callbacks = d.callbacks
          /\ SameEntries(g.entries, d.entries)
      BY ONLY <1>2, <2>1, <2>2, <2>3, GrownKeepsEntries
    <2>5. Cardinality(Dict!Filled(g)) = Cardinality(Dict!Filled(d))
      BY ONLY <1>2, <2>3, <2>4, SameEntriesCount
    <2>6. g.capacity = c BY ONLY <2>3, <2>4, TableEntries
    <2> QED BY <1>2, <2>2, <2>3, <2>4, <2>5, <2>6 DEF Roomier, TableOK
  <1>4. CASE ~ Dict!IsCrowded(d)
    <2>1. g = d BY <1>4 DEF Dict!Roomy
    <2>2. d.count + 1 < a BY <1>1, <1>2, <1>4 DEF Dict!IsCrowded
    <2>3. SameEntries(d.entries, d.entries) BY DEF SameEntries
    <2> QED BY <1>1, <2>1, <2>2, <2>3 DEF Roomier
  <1> QED BY <1>3, <1>4

\* What a set overwrites.
Overwritten(d, old) == IF old.key = 0 THEN {} ELSE Dict!Taken(d, old.key, old.value)

One(b) == IF b THEN 1 ELSE 0

\* Setting a key keeps the dictionary sound.  The references of its entries are
\* those it had, without what is overwritten and with what is taken.
LEMMA SetKeepsTable ==
    ASSUME NEW d, Roomier(d), NEW key \in Keyed, NEW value \in Values,
           NEW g, g = Dict!Put(d, key, value), NEW old, old = d.entries[Dict!FindEntry(d, key)]
    PROVE  /\ TableOK(g) /\ g.callbacks = d.callbacks /\ Dict!Ends(d, key)
           /\ \A x \in Keys \cup Values :
                  Dict!Entries(g, x) = Dict!Entries(d, x) - One(x \in Overwritten(d, old))
                                         + One(x \in Dict!Taken(d, key, value))
  <1>1. PICK c, f, e : /\ c = d.capacity /\ f = Dict!FindEntry(d, key)
                       /\ e = [key |-> key, value |-> value]
    OBVIOUS
  <1>2. /\ c \in 4 .. EntriesMax /\ c \in Nat \ {0} /\ c \in Nat
        /\ d \in Dict!Tables(c) /\ Probed(d)
        /\ d.count = Cardinality(Dict!Filled(d)) /\ d.count + 1 < c /\ d.count \in Nat
    BY <1>1, TableAssumption, TableEntries DEF Roomier, TableOK
  <1>3. Vacant(d)
    <2>1. Cardinality(Dict!Filled(d)) < c BY ONLY <1>2
    <2> QED BY ONLY <1>2, <2>1, RoomIsVacant
  <1>4. key \in Keys /\ e.key = key BY <1>1 DEF Keyed
  <1>5. Dict!Found(d, key) # {} /\ f \in 0 .. c - 1
    BY ONLY <1>1, <1>2, <1>3, <1>4, SearchEnds
  <1>6. /\ e \in [key : Keyed, value : Values] /\ PutInto(d, e, g, c)
        /\ g.count = IF f \in Dict!Filled(d) THEN d.count ELSE d.count + 1
    BY ONLY <1>1, <1>2, <1>3, key \in Keyed, value \in Values, g = Dict!Put(d, key, value), PutIs
  <1>7. Probed(g) /\ f \in Dict!Filled(g) /\ Dict!Filled(g) = Dict!Filled(d) \cup {f}
    BY ONLY <1>1, <1>2, <1>3, <1>4, <1>6, PutKeepsProbed
  <1>8. g \in Dict!Tables(c) /\ g.callbacks = d.callbacks BY <1>6 DEF PutInto
  <1>9. g.count = Cardinality(Dict!Filled(g))
    <2>1. IsFiniteSet(Dict!Filled(d))
      <3>1. IsFiniteSet(DOMAIN d.entries) /\ Dict!Filled(d) = Hits(d.entries, Full)
        BY ONLY <1>2, EntriesAreCounts
      <3>2. PICK u : u = d.entries OBVIOUS
      <3>3. IsFiniteSet(Hits(u, Full)) BY ONLY <3>1, <3>2, EntriesFinite
      <3> QED BY ONLY <3>1, <3>2, <3>3
    <2>2. CASE f \in Dict!Filled(d)
      <3>1. Dict!Filled(g) = Dict!Filled(d) BY <1>7, <2>2
      <3> QED BY <1>2, <1>6, <2>2, <3>1
    <2>3. CASE f \notin Dict!Filled(d)
      <3>1. Cardinality(Dict!Filled(d) \cup {f}) = Cardinality(Dict!Filled(d)) + 1
        BY ONLY <2>1, <2>3, FS_AddElement
      <3> QED BY <1>2, <1>6, <1>7, <2>3, <3>1
    <2> QED BY <2>2, <2>3
  <1>10. g.capacity = c BY ONLY <1>2, <1>8, TableEntries
  <1>11. TableOK(g) BY <1>2, <1>6, <1>7, <1>8, <1>9, <1>10 DEF TableOK
  <1>12. ASSUME NEW x \in Keys \cup Values
         PROVE  Dict!Entries(g, x) = Dict!Entries(d, x) - One(x \in Overwritten(d, old))
                                       + One(x \in Dict!Taken(d, key, value))
    <2>1. Dict!Entries(d, x) =
              IF x = 0 THEN 0
              ELSE Count(d.entries, WithValue(x))
                     + IF d.callbacks = "node" THEN Count(d.entries, WithKey(x)) ELSE 0
      BY ONLY <1>2, EntriesAreCounts
    <2>2. Dict!Entries(g, x) =
              IF x = 0 THEN 0
              ELSE Count(g.entries, WithValue(x))
                     + IF g.callbacks = "node" THEN Count(g.entries, WithKey(x)) ELSE 0
      BY ONLY <1>2, <1>8, EntriesAreCounts
    <2>3. \A P : /\ Count(d.entries, P) \in Nat
                 /\ Count(g.entries, P) = Count(d.entries, P) - One(old \in P) + One(e \in P)
      <3> TAKE P
      <3>1. e \in Full BY <1>6 DEF Full
      <3>2. Count(g.entries, P)
                = Count(d.entries, P) - (IF d.entries[f] \in P THEN 1 ELSE 0) + (IF e \in P THEN 1 ELSE 0)
        BY ONLY <1>1, <1>2, <1>3, <1>4, <1>6, <3>1, PutCounts
      <3>3. IsFiniteSet(DOMAIN d.entries) BY ONLY <1>2, EntriesAreCounts
      <3>4. PICK u : u = d.entries OBVIOUS
      <3>5. Count(u, P) \in Nat BY ONLY <3>3, <3>4, EntriesFinite
      <3> QED BY <1>1, <3>2, <3>4, <3>5 DEF One
    <2>4. IF old.key = 0 THEN old = Dict!NoEntry
          ELSE old \in Full /\ old.key \in Keyed /\ old.value \in Values
      BY <1>1, <1>2, <1>5, TableEntries DEF Full, Dict!NoEntry, Keyed
    <2>5. Dict!NoEntry \notin Full BY DEF Dict!NoEntry, Full, Keyed
    <2>6. /\ e \in WithValue(x) <=> x = value
          /\ e \in WithKey(x) <=> x = key
      BY <1>1, <1>6 DEF WithValue, WithKey, Full
    <2>7. /\ old \in WithValue(x) <=> old.key # 0 /\ x = old.value
          /\ old \in WithKey(x) <=> old.key # 0 /\ x = old.key
      BY <2>4, <2>5 DEF WithValue, WithKey
    <2>8. ~ (x = value /\ x = key) /\ ~ (old.key # 0 /\ x = old.value /\ x = old.key)
          /\ (x = 0 => x # value /\ x # key /\ (old.key # 0 => x # old.value /\ x # old.key))
      BY <1>4, <2>4, KeysAssumption DEF Keyed
    <2>9. /\ x \in Dict!Taken(d, key, value) <=> x = value \/ (d.callbacks = "node" /\ x = key)
          /\ x \in Overwritten(d, old) <=>
                 old.key # 0 /\ (x = old.value \/ (d.callbacks = "node" /\ x = old.key))
      BY DEF Dict!Taken, Overwritten
    <2>10. CASE x = 0 BY <2>1, <2>2, <2>8, <2>9, <2>10 DEF One
    <2>11. CASE x # 0 /\ d.callbacks = "node"
      <3>1. /\ Dict!Entries(d, x) = Count(d.entries, WithValue(x)) + Count(d.entries, WithKey(x))
            /\ Dict!Entries(g, x) = Count(g.entries, WithValue(x)) + Count(g.entries, WithKey(x))
        BY <1>8, <2>1, <2>2, <2>11
      <3> QED BY ONLY <2>3, <2>6, <2>7, <2>8, <2>9, <2>11, <3>1 DEF One
    <2>12. CASE x # 0 /\ d.callbacks # "node"
      <3>1. /\ Dict!Entries(d, x) = Count(d.entries, WithValue(x)) + 0
            /\ Dict!Entries(g, x) = Count(g.entries, WithValue(x)) + 0
        BY <1>8, <2>1, <2>2, <2>12
      <3> QED BY ONLY <2>3, <2>6, <2>7, <2>9, <2>12, <3>1 DEF One
    <2> QED BY <2>10, <2>11, <2>12
  <1>13. Dict!Ends(d, key) BY <1>5 DEF Dict!Ends
  <1> QED BY ONLY <1>8, <1>11, <1>12, <1>13

-----------------------------------------------------------------------------
(* The invariant of the dictionary.                                        *)

\* An iterator has returned the keys of the slots below its index, each once.
IteratorOK(d, it) ==
    /\ it \in [index : Nat, returned : Seq(Keys)]
    /\ \A i \in DOMAIN it.returned : \E s \in Dict!Filled(d) :
           s < it.index /\ it.returned[i] = d.entries[s].key
    /\ \A s \in Dict!Filled(d) : s < it.index =>
           \E i \in DOMAIN it.returned : it.returned[i] = d.entries[s].key
    /\ \A i, j \in DOMAIN it.returned : i # j => it.returned[i] # it.returned[j]

DictOK ==
    /\ dictRefs \in [Dict!Objects -> Int] /\ replaced \in [Dict!Objects -> Int]
    /\ dict # Absent => TableOK(dict)
    /\ Dict!RefsExact
    /\ iterator # Absent => dict # Absent /\ IteratorOK(dict, iterator)

\* A dictionary is not Absent.
LEMMA TableIsPresent == ASSUME NEW d, TableOK(d) PROVE d # Absent
  <1>1. d.capacity \in 0 .. EntriesMax /\ d \in Dict!Tables(d.capacity)
    BY TableAssumption DEF TableOK
  <1> QED BY ONLY <1>1, AbsentAssumption

\* The references of a dictionary's entries are a number.
LEMMA EntriesType == ASSUME NEW d, TableOK(d), NEW x PROVE Dict!Entries(d, x) \in Nat
  <1>1. PICK c : c = d.capacity OBVIOUS
  <1>2. c \in Nat /\ d \in Dict!Tables(c) BY <1>1, TableAssumption DEF TableOK
  <1>3. /\ IsFiniteSet(DOMAIN d.entries)
        /\ Dict!Entries(d, x) =
               IF x = 0 THEN 0
               ELSE Count(d.entries, WithValue(x))
                      + IF d.callbacks = "node" THEN Count(d.entries, WithKey(x)) ELSE 0
    BY ONLY <1>2, EntriesAreCounts
  <1>4. PICK u : u = d.entries OBVIOUS
  <1>5. Count(u, WithValue(x)) \in Nat /\ Count(u, WithKey(x)) \in Nat
    BY ONLY <1>3, <1>4, EntriesFinite
  <1> QED BY ONLY <1>3, <1>4, <1>5

\* A new dictionary is empty.
LEMMA NewTable ==
    ASSUME NEW c \in 4 .. EntriesMax, NEW callbacks \in {"node", "cache"},
           NEW d, d = [entries |-> Dict!Empty(c), capacity |-> c, count |-> 0, callbacks |-> callbacks]
    PROVE  TableOK(d) /\ Dict!Filled(d) = {} /\ \A x : Dict!Entries(d, x) = 0
  <1>1. c \in Nat BY TableAssumption
  <1>2. Dict!Empty(c) \in [0 .. c - 1 -> Dict!SlotRecords] BY <1>1 DEF Dict!Empty, Dict!SlotRecords
  <1>3. PICK e : e = Dict!Empty(c) OBVIOUS
  <1>4. /\ d \in [entries : [0 .. c - 1 -> Dict!SlotRecords], capacity : {c},
                  count : Nat, callbacks : {"node", "cache"}]
        /\ d.capacity = c /\ d.count = 0 /\ d.entries = e
    BY <1>2, <1>3
  <1>5. d \in Dict!Tables(c) BY ONLY <1>4 DEF Dict!Tables
  <1>6. Dict!Filled(d) = {}
    <2>1. Dict!Filled(d) = {s \in 0 .. c - 1 : d.entries[s].key # 0} BY ONLY <1>1, <1>5, TableEntries
    <2> QED BY <1>3, <1>4, <2>1 DEF Dict!NoEntry, Dict!Empty
  <1>7. Cardinality(Dict!Filled(d)) = 0 BY ONLY <1>6, FS_EmptySet
  <1>8. TableOK(d) BY <1>1, <1>4, <1>5, <1>6, <1>7 DEF TableOK, Probed
  <1>9. ASSUME NEW x PROVE Dict!Entries(d, x) = 0
    <2>1. /\ Dict!Filled(d) = Hits(d.entries, Full)
          /\ Dict!Entries(d, x) =
                 IF x = 0 THEN 0
                 ELSE Count(d.entries, WithValue(x))
                        + IF d.callbacks = "node" THEN Count(d.entries, WithKey(x)) ELSE 0
      BY ONLY <1>1, <1>5, EntriesAreCounts
    <2>2. Hits(d.entries, WithValue(x)) = {} /\ Hits(d.entries, WithKey(x)) = {}
      BY <1>6, <2>1 DEF Hits, WithValue, WithKey
    <2>3. Count(d.entries, WithValue(x)) = 0 /\ Count(d.entries, WithKey(x)) = 0
      BY ONLY <2>2, FS_EmptySet DEF Count
    <2> QED BY ONLY <2>1, <2>3
  <1> QED BY <1>6, <1>8, <1>9

\* cos_dict_create: an empty table of at least four entries is sound.
LEMMA CreateKeepsDict == ASSUME DictOK, Dict!Create PROVE DictOK'
  <1>1. PICK hint \in TableHints, callbacks \in {"node", "cache"} :
          /\ Dict!RoundCapacity(hint) <= EntriesMax
          /\ dict' = [entries |-> Dict!Empty(Dict!RoundCapacity(hint)),
                      capacity |-> Dict!RoundCapacity(hint), count |-> 0, callbacks |-> callbacks]
    BY DEF Dict!Create
  <1>2. PICK c, d : c = Dict!RoundCapacity(hint) /\ d = dict' OBVIOUS
  <1>3. c \in 4 .. EntriesMax
    <2>1. hint \in Nat BY TableAssumption
    <2>2. Dict!RoundCapacity(hint) \in Nat /\ Dict!RoundCapacity(hint) >= 4
      BY ONLY <2>1, TableRoundedUp
    <2> QED BY <1>1, <1>2, <2>2
  <1>4. TableOK(d) /\ Dict!Filled(d) = {} /\ \A x : Dict!Entries(d, x) = 0
    BY ONLY <1>1, <1>2, <1>3, NewTable
  <1>5. dict = Absent /\ UNCHANGED <<dictRefs, replaced, iterator>> BY DEF Dict!Create
  <1>6. Dict!RefsExact' BY <1>2, <1>4, <1>5 DEF DictOK, Dict!RefsExact, Dict!Objects
  <1> QED BY <1>2, <1>4, <1>5, <1>6 DEF DictOK

\* cos_dict_destroy: every entry of the table is released once.
LEMMA DestroyKeepsDict == ASSUME DictOK, Dict!Destroy PROVE DictOK'
  <1>1. /\ dict # Absent /\ dict' = Absent /\ iterator' = Absent /\ replaced' = replaced
        /\ dictRefs' = [x \in Dict!Objects |-> dictRefs[x] - Dict!Entries(dict, x)]
    BY DEF Dict!Destroy
  <1>2. \A x \in Dict!Objects :
            /\ dictRefs[x] = replaced[x] + Dict!Entries(dict, x) /\ Dict!Entries(dict, x) \in Nat
            /\ replaced[x] \in Int
    BY <1>1, EntriesType DEF DictOK, Dict!RefsExact
  <1>3. \A x \in Dict!Objects : dictRefs'[x] = replaced[x] BY <1>1, <1>2
  <1>4. dictRefs' \in [Dict!Objects -> Int] BY <1>1, <1>2
  <1> QED BY <1>1, <1>2, <1>3, <1>4 DEF DictOK, Dict!RefsExact

\* cos_dict_set_: grown or not, the table stays probed from every key's home
\* slot, and the references follow the entry put and the one it replaced.
LEMMA SetKeepsDict ==
    ASSUME DictOK, NEW key \in Keys, NEW value \in Values, Dict!Set(key, value) PROVE DictOK'
  <1>1. /\ dict # Absent /\ key \in Keyed /\ iterator' = Absent
        /\ TableOK(dict)
    BY DEF Dict!Set, DictOK, Keyed
  <1>2. PICK d \in Dict!Roomy(dict) :
          LET old == d.entries[Dict!FindEntry(d, key)]
              overwritten == IF old.key = 0 THEN {} ELSE Dict!Taken(d, old.key, old.value)
          IN  /\ dict' = Dict!Put(d, key, value)
              /\ dictRefs' = [x \in Dict!Objects |->
                                dictRefs[x] + IF x \in Dict!Taken(d, key, value) THEN 1 ELSE 0]
              /\ replaced' = [x \in Dict!Objects |->
                                replaced[x] + IF x \in overwritten THEN 1 ELSE 0]
    BY DEF Dict!Set
  <1>3. PICK old, g : old = d.entries[Dict!FindEntry(d, key)] /\ g = dict' OBVIOUS
  <1>4. /\ g = Dict!Put(d, key, value)
        /\ dictRefs' = [x \in Dict!Objects |-> dictRefs[x] + One(x \in Dict!Taken(d, key, value))]
        /\ replaced' = [x \in Dict!Objects |-> replaced[x] + One(x \in Overwritten(d, old))]
    BY <1>2, <1>3 DEF One, Overwritten
  <1>5. Roomier(d) /\ d.callbacks = dict.callbacks /\ SameEntries(d.entries, dict.entries)
    BY ONLY <1>1, <1>2, RoomyIs
  <1>6. /\ TableOK(g)
        /\ \A x \in Keys \cup Values :
               Dict!Entries(g, x) = Dict!Entries(d, x) - One(x \in Overwritten(d, old))
                                      + One(x \in Dict!Taken(d, key, value))
    BY ONLY <1>1, <1>3, <1>4, <1>5, value \in Values, SetKeepsTable
  <1>7. \A x : Dict!Entries(d, x) = Dict!Entries(dict, x)
    <2> TAKE x
    <2>1. PICK a, c : a = dict.capacity /\ c = d.capacity OBVIOUS
    <2>2. a \in Nat /\ c \in Nat /\ dict \in Dict!Tables(a) /\ d \in Dict!Tables(c)
      BY <1>1, <1>5, <2>1, TableAssumption DEF Roomier, TableOK
    <2> QED BY ONLY <1>5, <2>2, SameEntriesCount
  <1>8. ASSUME NEW x \in Dict!Objects
        PROVE  dictRefs'[x] = replaced'[x] + Dict!Entries(g, x)
    <2>1. dictRefs[x] = replaced[x] + Dict!Entries(dict, x) /\ replaced[x] \in Int
          /\ Dict!Entries(dict, x) \in Nat
      BY <1>1, EntriesType DEF DictOK, Dict!RefsExact
    <2>2. x \in Keys \cup Values BY DEF Dict!Objects
    <2>3. One(x \in Dict!Taken(d, key, value)) \in Nat /\ One(x \in Overwritten(d, old)) \in Nat
      BY DEF One
    <2> QED BY <1>4, <1>6, <1>7, <2>1, <2>2, <2>3
  <1>9. dictRefs' \in [Dict!Objects -> Int] /\ replaced' \in [Dict!Objects -> Int]
    <2>1. \A x \in Dict!Objects : dictRefs[x] \in Int /\ replaced[x] \in Int BY DEF DictOK
    <2>2. \A x : One(x \in Dict!Taken(d, key, value)) \in Int /\ One(x \in Overwritten(d, old)) \in Int
      BY DEF One
    <2> QED BY <1>4, <2>1, <2>2
  <1>10. dict' # Absent BY <1>3, <1>6, TableIsPresent
  <1> QED BY <1>1, <1>3, <1>6, <1>8, <1>9, <1>10 DEF DictOK, Dict!RefsExact

\* The iterator has returned the keys of the entries in use before its index.
LEMMA IterationKeepsDict ==
    ASSUME DictOK, Dict!IteratorInit \/ Dict!IteratorNext PROVE DictOK'
  <1>1. dict # Absent /\ TableOK(dict) /\ UNCHANGED <<dict, dictRefs, replaced>>
    BY DEF DictOK, Dict!IteratorInit, Dict!IteratorNext
  <1>2. PICK c, d : c = dict.capacity /\ d = dict OBVIOUS
  <1>3. c \in Nat /\ d \in Dict!Tables(c) /\ Probed(d) /\ c = d.capacity
    BY <1>1, <1>2, TableAssumption DEF TableOK
  <1>4. /\ Dict!Filled(d) = {s \in 0 .. c - 1 : d.entries[s].key # 0}
        /\ \A s \in Dict!Filled(d) : d.entries[s].key \in Keys
    BY <1>3, TableEntries DEF Keyed
  <1>5. IteratorOK(d, iterator')
    <2>1. CASE Dict!IteratorInit
      <3>1. iterator' = [index |-> 0, returned |-> <<>>] BY <2>1 DEF Dict!IteratorInit
      <3>2. \A s \in Dict!Filled(d) : ~ (s < 0) BY <1>4
      <3> QED BY <3>1, <3>2 DEF IteratorOK
    <2>2. CASE Dict!IteratorNext
      <3> DEFINE rest == {s \in iterator.index .. c - 1 : d.entries[s].key # 0}
      <3>1. IteratorOK(d, iterator) BY <1>2, <2>2 DEF Dict!IteratorNext, DictOK
      <3>2. PICK it, n, r : it = iterator /\ n = it.index /\ r = it.returned OBVIOUS
      <3>3. /\ it \in [index : Nat, returned : Seq(Keys)] /\ n \in Nat /\ r \in Seq(Keys)
            /\ \A i \in DOMAIN r : \E s \in Dict!Filled(d) : s < n /\ r[i] = d.entries[s].key
            /\ \A s \in Dict!Filled(d) : s < n => \E i \in DOMAIN r : r[i] = d.entries[s].key
            /\ \A i, j \in DOMAIN r : i # j => r[i] # r[j]
        BY <3>1, <3>2 DEF IteratorOK
      <3>4. rest = {s \in Dict!Filled(d) : s >= n} BY <1>3, <1>4, <3>2, <3>3
      <3>5. iterator' = IF rest = {} THEN [it EXCEPT !.index = c]
                        ELSE [index |-> Dict!Min(rest) + 1,
                              returned |-> Append(r, d.entries[Dict!Min(rest)].key)]
        BY <1>2, <2>2, <3>2 DEF Dict!IteratorNext, Dict!AfterReturned
      <3> HIDE DEF rest
      <3>6. CASE rest = {}
        <4>1. iterator' = [it EXCEPT !.index = c] BY <3>5, <3>6
        <4>2. iterator' \in [index : Nat, returned : Seq(Keys)]
              /\ iterator'.index = c /\ iterator'.returned = r
          BY <1>3, <3>2, <3>3, <4>1
        <4>3. \A s \in Dict!Filled(d) : s < c /\ s < n BY <1>3, <1>4, <3>3, <3>4, <3>6
        <4> QED BY <3>3, <4>2, <4>3 DEF IteratorOK
      <3>7. CASE rest # {}
        <4>1. PICK m, k, q, L : m = Dict!Min(rest) /\ k = d.entries[m].key /\ q = Append(r, k)
                                /\ L = Len(r)
          OBVIOUS
        <4>2. m \in Dict!Filled(d) /\ m >= n /\ \A s \in Dict!Filled(d) : s >= n => m <= s
          <5>1. rest \in SUBSET Nat BY <1>4, <3>4
          <5>2. Dict!Min(rest) \in rest /\ \A s \in rest : Dict!Min(rest) <= s
            BY ONLY <3>7, <5>1, LeastSlot
          <5> QED BY <3>4, <4>1, <5>2
        <4>3. m \in Nat /\ k \in Keys BY <1>4, <4>1, <4>2
        <4>4. iterator' = [index |-> m + 1, returned |-> q] BY <3>5, <3>7, <4>1
        <4>5. /\ q \in Seq(Keys) /\ L \in Nat /\ DOMAIN r = 1 .. L /\ DOMAIN q = 1 .. L + 1
              /\ q[L + 1] = k /\ \A i \in 1 .. L : q[i] = r[i]
          BY <3>3, <4>1, <4>3
        <4>6. \A s \in Dict!Filled(d) : s # m => d.entries[s].key # k
          <5>1. \A s \in Dict!Filled(d) : s # m =>
                    ~ Dict!KeyEqual(d.callbacks, d.entries[s].key, d.entries[m].key)
            BY <1>3, <4>2 DEF Probed
          <5>2. Dict!KeyEqual(d.callbacks, k, k) BY <4>3, KeysCompare
          <5> QED BY <4>1, <5>1, <5>2
        <4>7. \A i \in 1 .. L : r[i] # k
          <5> SUFFICES ASSUME NEW i \in 1 .. L PROVE r[i] # k OBVIOUS
          <5>1. PICK s \in Dict!Filled(d) : s < n /\ r[i] = d.entries[s].key BY <3>3, <4>5
          <5>2. s # m BY <1>4, <3>3, <4>2, <4>3, <5>1
          <5> QED BY <4>6, <5>1, <5>2
        <4>8. \A i \in DOMAIN q : \E s \in Dict!Filled(d) : s < m + 1 /\ q[i] = d.entries[s].key
          <5> SUFFICES ASSUME NEW i \in DOMAIN q
                       PROVE  \E s \in Dict!Filled(d) : s < m + 1 /\ q[i] = d.entries[s].key
            OBVIOUS
          <5>1. CASE i = L + 1
            <6>1. m < m + 1 BY <4>3
            <6> QED BY <4>1, <4>2, <4>5, <5>1, <6>1
          <5>2. CASE i # L + 1
            <6>1. i \in 1 .. L BY <4>5, <5>2
            <6>2. PICK s \in Dict!Filled(d) : s < n /\ r[i] = d.entries[s].key BY <3>3, <4>5, <6>1
            <6>3. s < m + 1 BY <1>4, <3>3, <4>2, <4>3, <6>2
            <6> QED BY <4>5, <6>1, <6>2, <6>3
          <5> QED BY <5>1, <5>2
        <4>9. \A s \in Dict!Filled(d) : s < m + 1 => \E i \in DOMAIN q : q[i] = d.entries[s].key
          <5> SUFFICES ASSUME NEW s \in Dict!Filled(d), s < m + 1
                       PROVE  \E i \in DOMAIN q : q[i] = d.entries[s].key
            OBVIOUS
          <5>1. CASE s = m
            <6>1. L + 1 \in DOMAIN q BY <4>5
            <6> QED BY <4>1, <4>5, <5>1, <6>1
          <5>2. CASE s # m
            <6>1. s < n BY <1>4, <3>3, <4>2, <4>3, <5>2
            <6>2. PICK i \in DOMAIN r : r[i] = d.entries[s].key BY <3>3, <6>1
            <6>3. i \in DOMAIN q /\ q[i] = r[i] BY <4>5, <6>2
            <6> QED BY <6>2, <6>3
          <5> QED BY <5>1, <5>2
        <4>10. \A i, j \in DOMAIN q : i # j => q[i] # q[j]
          <5> SUFFICES ASSUME NEW i \in DOMAIN q, NEW j \in DOMAIN q, i # j PROVE q[i] # q[j]
            OBVIOUS
          <5>1. CASE i = L + 1
            <6>1. j \in 1 .. L BY <4>5, <5>1
            <6> QED BY <4>5, <4>7, <5>1, <6>1
          <5>2. CASE j = L + 1
            <6>1. i \in 1 .. L BY <4>5, <5>2
            <6> QED BY <4>5, <4>7, <5>2, <6>1
          <5>3. CASE i # L + 1 /\ j # L + 1
            <6>1. i \in 1 .. L /\ j \in 1 .. L BY <4>5, <5>3
            <6> QED BY <3>3, <4>5, <6>1
          <5> QED BY <5>1, <5>2, <5>3
        <4>11. /\ iterator' \in [index : Nat, returned : Seq(Keys)]
               /\ iterator'.index = m + 1 /\ iterator'.returned = q
          BY <4>3, <4>4, <4>5
        <4> QED BY <4>8, <4>9, <4>10, <4>11 DEF IteratorOK
      <3> QED BY <3>6, <3>7
    <2> QED BY <2>1, <2>2
  <1>6. Dict!RefsExact' BY <1>1 DEF DictOK, Dict!RefsExact
  <1> QED BY <1>1, <1>2, <1>5, <1>6 DEF DictOK

\* Every step of the dictionary's caller keeps the invariant.
LEMMA DictStepKeepsDict == ASSUME DictOK, Dict!Next PROVE DictOK'
  <1>1. ASSUME NEW key \in Keys, Dict!SetFails(key) PROVE DictOK'
    BY <1>1 DEF Dict!SetFails, Dict!vars, DictOK, Dict!RefsExact
  <1> QED BY <1>1, CreateKeepsDict, DestroyKeepsDict, SetKeepsDict, IterationKeepsDict
          DEF Dict!Next

-----------------------------------------------------------------------------
(* The theorems about the dictionary, and the counts of both containers.   *)

\* Every reachable state of the dictionary satisfies its inductive invariant.
LEMMA DictOKAlways == ContainersSpec => []DictOK
  <1>1. ContainersInit => DictOK
    <2> SUFFICES ASSUME Dict!Init PROVE DictOK BY DEF ContainersInit
    <2>1. \A x \in Dict!Objects : dictRefs[x] = 0 /\ replaced[x] = 0 BY DEF Dict!Init
    <2> QED BY <2>1 DEF Dict!Init, DictOK, Dict!RefsExact
  <1>2. DictOK /\ [ContainersNext]_ContainersVars => DictOK'
    <2> SUFFICES ASSUME DictOK, [ContainersNext]_ContainersVars PROVE DictOK'
      OBVIOUS
    <2>1. CASE UseDict
      <3>1. Dict!Next BY <2>1 DEF UseDict
      <3> QED BY <3>1, DictStepKeepsDict
    <2>2. CASE UNCHANGED dictVars BY <2>2 DEF dictVars, DictOK, Dict!RefsExact
    <2> QED BY <2>1, <2>2 DEF ContainersNext, UseArray, UseRing, ContainersVars
  <1> QED BY <1>1, <1>2, PTL DEF ContainersSpec

\* Arrays and dictionaries have of each item, key and value as many references
\* as it is in them: their callbacks are given what moves, grows or is replaced
\* (CosArray.c:380-503, CosDict.c:155-203 and 249-290).
THEOREM ContainersCountExactly == ContainersSpec => []CountsExact
  <1>1. ArrayRefs => TypeOK /\ RefsExact
    <2> SUFFICES ASSUME ArrayRefs PROVE TypeOK /\ RefsExact OBVIOUS
    <2>1. RefsExact BY DEF ArrayRefs
    <2>2. TypeOK BY DEF ArrayRefs, ArrayOK, Arrays, TypeOK
    <2> QED BY <2>1, <2>2
  <1>2. DictOK => Dict!RefsExact BY DEF DictOK
  <1>3. ArrayRefs /\ DictOK => CountsExact BY <1>1, <1>2 DEF CountsExact
  <1> QED BY <1>3, ArrayRefsAlways, DictOKAlways, PTL

\* The count of a dictionary is that of its entries, whose keys differ; a search
\* ends, since some entry is always empty; an iterator returns every key, once.
THEOREM DictIsSound == ContainersSpec => []DictSound
  <1>1. DictOK => Dict!TypeOK
    BY SameCardinality DEF DictOK, TableOK, Probed, Dict!TypeOK
  <1>2. DictOK => Dict!SearchesEnd
    <2> SUFFICES ASSUME DictOK, NEW key \in Keys, dict # Absent PROVE Dict!Found(dict, key) # {}
      BY DEF Dict!SearchesEnd, Dict!SearchForever, Dict!Ends
    <2>1. PICK c, d : c = dict.capacity /\ d = dict OBVIOUS
    <2>2. /\ c \in Nat \ {0} /\ c \in Nat /\ d \in Dict!Tables(c)
          /\ Cardinality(Dict!Filled(d)) < c
      BY <2>1, TableAssumption DEF DictOK, TableOK
    <2>3. Vacant(d) BY ONLY <2>2, RoomIsVacant
    <2>4. PICK f : f = Dict!FindEntry(d, key) OBVIOUS
    <2>5. Dict!Found(d, key) # {} BY ONLY <2>2, <2>3, <2>4, key \in Keys, SearchEnds
    <2> QED BY <2>1, <2>5
  <1>3. DictOK => Dict!IteratesOverAll
    <2> SUFFICES ASSUME DictOK, iterator # Absent
                 PROVE  /\ \A i, j \in DOMAIN iterator.returned :
                               i # j => iterator.returned[i] # iterator.returned[j]
                        /\ iterator.index = dict.capacity =>
                               Dict!Range(iterator.returned)
                                   = {dict.entries[s].key : s \in Dict!Filled(dict)}
      BY DEF Dict!IteratesOverAll
    <2>1. IteratorOK(dict, iterator) /\ dict # Absent /\ TableOK(dict) BY DEF DictOK
    <2>2. PICK c, d : c = dict.capacity /\ d = dict OBVIOUS
    <2>3. c \in Nat /\ d \in Dict!Tables(c) BY <2>1, <2>2, TableAssumption DEF TableOK
    <2>4. \A s \in Dict!Filled(dict) : s < dict.capacity BY <2>2, <2>3, TableEntries
    <2> QED BY <2>1, <2>4 DEF IteratorOK, Dict!Range
  <1>4. DictOK => DictSound BY <1>1, <1>2, <1>3 DEF DictSound
  <1> QED BY <1>4, DictOKAlways, PTL

-----------------------------------------------------------------------------
(* The dictionary is a map.                                                *)

Equals(d, s, k) == Dict!KeyEqual(d.callbacks, d.entries[s].key, k)

\* Getting a key finds the value of the one that is equal to it, if there is one.
LEMMA GetIs ==
    ASSUME NEW d, TableOK(d), NEW k \in Keyed, NEW v, v = Dict!Get(d, k)
    PROVE  /\ v \in Values \cup {Absent}
           /\ \A s \in Dict!Filled(d) : Equals(d, s, k) => v = d.entries[s].value
           /\ (\A s \in Dict!Filled(d) : ~ Equals(d, s, k)) => v = Absent
  <1>1. PICK c, f : c = d.capacity /\ f = Dict!FindEntry(d, k) OBVIOUS
  <1>2. /\ c \in Nat \ {0} /\ c \in Nat /\ d \in Dict!Tables(c) /\ Probed(d)
        /\ Cardinality(Dict!Filled(d)) < c
    BY <1>1, TableAssumption DEF TableOK
  <1>3. Vacant(d) BY ONLY <1>2, RoomIsVacant
  <1>4. k \in Keys BY DEF Keyed
  <1>5. f \in 0 .. c - 1 /\ (f \notin Dict!Filled(d) \/ Equals(d, f, k))
    BY ONLY <1>1, <1>2, <1>3, <1>4, SearchEnds DEF Equals
  <1>6. v = d.entries[f].value BY <1>1 DEF Dict!Get
  <1>7. IF f \in Dict!Filled(d) THEN d.entries[f].value \in Values ELSE d.entries[f].value = Absent
    BY <1>2, <1>5, TableEntries DEF Dict!NoEntry
  <1>8. ASSUME NEW s \in Dict!Filled(d), Equals(d, s, k) PROVE s = f
    <2>1. Dict!KeyEqual(d.callbacks, d.entries[s].key, k) BY <1>8 DEF Equals
    <2>2. Dict!FindEntry(d, k) = s BY ONLY <1>2, <1>4, <1>8, <2>1, SearchFinds
    <2> QED BY <1>1, <2>2
  <1> QED BY <1>5, <1>6, <1>7, <1>8

\* A table that has grown is the same map.
LEMMA RoomyGets ==
    ASSUME NEW d, TableOK(d), NEW g, TableOK(g), g.callbacks = d.callbacks,
           SameEntries(g.entries, d.entries), NEW k \in Keyed
    PROVE  Dict!Get(g, k) = Dict!Get(d, k)
  <1>1. PICK a, c : a = d.capacity /\ c = g.capacity OBVIOUS
  <1>2. /\ a \in Nat /\ d \in Dict!Tables(a) /\ c \in Nat /\ g \in Dict!Tables(c)
    BY <1>1, TableAssumption DEF TableOK
  <1>3. PICK p, q : p = g.entries /\ q = d.entries OBVIOUS
  <1>4. /\ DOMAIN p = 0 .. c - 1 /\ DOMAIN q = 0 .. a - 1
        /\ Dict!Filled(g) = {s \in 0 .. c - 1 : p[s].key # 0}
        /\ Dict!Filled(d) = {s \in 0 .. a - 1 : q[s].key # 0}
        /\ \A s \in 0 .. c - 1 : s \notin Dict!Filled(g) => p[s] = Dict!NoEntry
    BY <1>2, <1>3, TableEntries
  <1>5. IsFiniteSet(DOMAIN p) /\ IsFiniteSet(DOMAIN q)
    <2>1. IsFiniteSet(DOMAIN g.entries) BY ONLY <1>2, EntriesAreCounts
    <2>2. IsFiniteSet(DOMAIN d.entries) BY ONLY <1>2, EntriesAreCounts
    <2> QED BY <1>3, <2>1, <2>2
  <1>6. SameEntries(q, p) /\ SameEntries(p, q) BY <1>3 DEF SameEntries
  <1>7. Dict!NoEntry.key = 0 BY DEF Dict!NoEntry
  <1>8. PICK v, w : v = Dict!Get(d, k) /\ w = Dict!Get(g, k) OBVIOUS
  <1>9. /\ \A s \in Dict!Filled(d) : Equals(d, s, k) => v = q[s].value
        /\ (\A s \in Dict!Filled(d) : ~ Equals(d, s, k)) => v = Absent
    BY ONLY <1>3, <1>8, TableOK(d), k \in Keyed, GetIs
  <1>10. /\ \A s \in Dict!Filled(g) : Equals(g, s, k) => w = p[s].value
         /\ (\A s \in Dict!Filled(g) : ~ Equals(g, s, k)) => w = Absent
    BY ONLY <1>3, <1>8, TableOK(g), k \in Keyed, GetIs
  <1>11. CASE \E s \in Dict!Filled(d) : Equals(d, s, k)
    <2>1. PICK s \in Dict!Filled(d) : Equals(d, s, k) BY <1>11
    <2>2. s \in DOMAIN q /\ q[s] # Dict!NoEntry BY <1>4, <1>7
    <2>3. PICK t \in DOMAIN p : p[t] = q[s] BY ONLY <1>5, <1>6, <2>2, SameEntriesMeet
    <2>4. t \in Dict!Filled(g) /\ Equals(g, t, k) BY <1>3, <1>4, <2>1, <2>3 DEF Equals
    <2> QED BY <1>8, <1>9, <1>10, <2>1, <2>3, <2>4
  <1>12. CASE \A s \in Dict!Filled(d) : ~ Equals(d, s, k)
    <2>1. ASSUME NEW s \in Dict!Filled(g), Equals(g, s, k) PROVE FALSE
      <3>1. s \in DOMAIN p /\ p[s] # Dict!NoEntry BY <1>4, <1>7
      <3>2. PICK t \in DOMAIN q : q[t] = p[s] BY ONLY <1>5, <1>6, <3>1, SameEntriesMeet
      <3>3. t \in Dict!Filled(d) /\ Equals(d, t, k) BY <1>3, <1>4, <2>1, <3>2 DEF Equals
      <3> QED BY <1>12, <3>3
    <2> QED BY <1>8, <1>9, <1>10, <1>12, <2>1
  <1> QED BY <1>11, <1>12

\* Setting a key changes what is got of the keys that are equal to it.
LEMMA PutGets ==
    ASSUME NEW d, Roomier(d), NEW key \in Keyed, NEW value \in Values,
           NEW g, g = Dict!Put(d, key, value), NEW k \in Keyed
    PROVE  Dict!Get(g, k) = IF Dict!KeyEqual(d.callbacks, key, k) THEN value ELSE Dict!Get(d, k)
  <1>1. PICK c, f, e, old : /\ c = d.capacity /\ f = Dict!FindEntry(d, key)
                            /\ e = [key |-> key, value |-> value]
                            /\ old = d.entries[Dict!FindEntry(d, key)]
    OBVIOUS
  <1>2. /\ c \in Nat \ {0} /\ c \in Nat /\ d \in Dict!Tables(c) /\ Probed(d) /\ TableOK(d)
        /\ Cardinality(Dict!Filled(d)) < c
    BY <1>1, TableAssumption DEF Roomier, TableOK
  <1>3. Vacant(d) BY ONLY <1>2, RoomIsVacant
  <1>4. TableOK(g) /\ g.callbacks = d.callbacks
    BY ONLY <1>1, Roomier(d), key \in Keyed, value \in Values, g = Dict!Put(d, key, value),
            SetKeepsTable
  <1>5. e \in [key : Keyed, value : Values] /\ PutInto(d, e, g, c) /\ e.key = key /\ e.value = value
    BY ONLY <1>1, <1>2, <1>3, key \in Keyed, value \in Values, g = Dict!Put(d, key, value), PutIs
  <1>6. /\ f \in Dict!Filled(g) /\ g.entries[f] = e
        /\ Dict!Filled(g) = Dict!Filled(d) \cup {f}
        /\ \A s \in 0 .. c - 1 : s # f => g.entries[s] = d.entries[s]
        /\ f \notin Dict!Filled(d) =>
               \A s \in Dict!Filled(d) : ~ Dict!KeyEqual(d.callbacks, d.entries[s].key, key)
    BY ONLY <1>1, <1>2, <1>3, <1>5, PutKeepsProbed
  <1>7. key \in Keys /\ k \in Keys BY DEF Keyed
  <1>8. f \in Dict!Filled(d) => Dict!KeyEqual(d.callbacks, d.entries[f].key, key)
    BY ONLY <1>1, <1>2, <1>3, <1>7, SearchEnds
  <1>9. Dict!Filled(d) \subseteq 0 .. c - 1 /\ \A s \in Dict!Filled(d) : d.entries[s].key \in Keys
    BY <1>2, TableEntries DEF Keyed
  <1>10. PICK v, w : v = Dict!Get(d, k) /\ w = Dict!Get(g, k) OBVIOUS
  <1>11. /\ \A s \in Dict!Filled(d) : Equals(d, s, k) => v = d.entries[s].value
         /\ (\A s \in Dict!Filled(d) : ~ Equals(d, s, k)) => v = Absent
    BY ONLY <1>2, <1>10, k \in Keyed, GetIs
  <1>12. /\ \A s \in Dict!Filled(g) : Equals(g, s, k) => w = g.entries[s].value
         /\ (\A s \in Dict!Filled(g) : ~ Equals(g, s, k)) => w = Absent
    BY ONLY <1>4, <1>10, k \in Keyed, GetIs
  <1>13. CASE Dict!KeyEqual(d.callbacks, key, k)
    <2>1. Equals(g, f, k) BY <1>4, <1>5, <1>6, <1>13 DEF Equals
    <2> QED BY <1>5, <1>6, <1>10, <1>12, <1>13, <2>1
  <1>14. CASE ~ Dict!KeyEqual(d.callbacks, key, k)
    <2>1. ~ Equals(g, f, k) BY <1>4, <1>5, <1>6, <1>14 DEF Equals
    <2>2. f \in Dict!Filled(d) => ~ Equals(d, f, k)
      <3> SUFFICES ASSUME f \in Dict!Filled(d), Equals(d, f, k) PROVE FALSE OBVIOUS
      <3>1. Dict!KeyEqual(d.callbacks, key, d.entries[f].key) BY <1>7, <1>8, <1>9, KeysCompare
      <3>2. Dict!KeyEqual(d.callbacks, d.entries[f].key, k) BY DEF Equals
      <3> QED BY <1>7, <1>9, <1>14, <3>1, <3>2, KeysCompare
    <2>3. \A s \in Dict!Filled(d) : s # f =>
              /\ s \in Dict!Filled(g) /\ g.entries[s] = d.entries[s]
              /\ Equals(g, s, k) <=> Equals(d, s, k)
      BY <1>4, <1>6, <1>9 DEF Equals
    <2>4. CASE \E s \in Dict!Filled(d) : Equals(d, s, k)
      BY <1>10, <1>11, <1>12, <1>14, <2>2, <2>3, <2>4
    <2>5. CASE \A s \in Dict!Filled(d) : ~ Equals(d, s, k)
      <3>1. \A s \in Dict!Filled(g) : ~ Equals(g, s, k) BY <1>6, <2>1, <2>3, <2>5
      <3> QED BY <1>10, <1>11, <1>12, <1>14, <2>5, <3>1
    <2> QED BY <2>4, <2>5
  <1> QED BY <1>13, <1>14

\* What is got of every name.
Map == IF dict = Absent THEN Absent
       ELSE [n \in Dict!Names |-> Dict!Get(dict, Dict!KeyNamed[n])]

\* A key has a name, and the key that stands for a name has it.
LEMMA KeysAreNamed ==
    /\ \A k \in Keyed : NameOf[k] \in Dict!Names
    /\ \A n \in Dict!Names : Dict!KeyNamed[n] \in Keyed /\ NameOf[Dict!KeyNamed[n]] = n
  BY DEF Dict!Names, Dict!KeyNamed, Keyed

\* The map of a dictionary is one.
LEMMA MapType ==
    ASSUME DictOK, dict # Absent
    PROVE  /\ Map = [n \in Dict!Names |-> Dict!Get(dict, Dict!KeyNamed[n])]
           /\ Map \in [Dict!Names -> Values \cup {Absent}] /\ Map # Absent
  <1>1. TableOK(dict) BY DEF DictOK
  <1>2. \A k \in Keyed : Dict!Get(dict, k) \in Values \cup {Absent} BY <1>1, GetIs
  <1>3. Map \in [Dict!Names -> Values \cup {Absent}] BY <1>2, KeysAreNamed DEF Map
  <1> QED BY <1>3, AbsentAssumption DEF Map

\* A set is one of the map, or none if another key stands for its name.
LEMMA SetIsMapStep ==
    ASSUME DictOK, NEW key \in Keys, NEW value \in Values, Dict!Set(key, value)
    PROVE  Dict!MapOf!Set \/ UNCHANGED Map
  <1>1. dict # Absent /\ key \in Keyed /\ TableOK(dict) BY DEF Dict!Set, DictOK, Keyed
  <1>2. PICK d \in Dict!Roomy(dict) : dict' = Dict!Put(d, key, value) BY DEF Dict!Set
  <1>3. Roomier(d) /\ d.callbacks = dict.callbacks /\ SameEntries(d.entries, dict.entries)
    BY ONLY <1>1, <1>2, RoomyIs
  <1>4. PICK g, b, old : g = dict' /\ b = dict.callbacks /\ old = d.entries[Dict!FindEntry(d, key)]
    OBVIOUS
  <1>5. TableOK(d) BY <1>3 DEF Roomier
  <1>6. TableOK(g)
    BY ONLY <1>1, <1>2, <1>3, <1>4, value \in Values, SetKeepsTable
  <1>7. g # Absent BY <1>6, TableIsPresent
  <1>8. ASSUME NEW k \in Keyed
        PROVE  Dict!Get(g, k) = IF Dict!KeyEqual(b, key, k) THEN value ELSE Dict!Get(dict, k)
    <2>1. Dict!Get(d, k) = Dict!Get(dict, k) BY ONLY <1>1, <1>3, <1>5, k \in Keyed, RoomyGets
    <2>2. Dict!Get(g, k) = IF Dict!KeyEqual(d.callbacks, key, k) THEN value ELSE Dict!Get(d, k)
      BY ONLY <1>1, <1>2, <1>3, <1>4, value \in Values, k \in Keyed, PutGets
    <2> QED BY <1>3, <1>4, <2>1, <2>2
  <1>9. Map' = [n \in Dict!Names |-> Dict!Get(g, Dict!KeyNamed[n])] BY <1>4, <1>7 DEF Map
  <1>10. Map = [n \in Dict!Names |-> Dict!Get(dict, Dict!KeyNamed[n])] /\ Map # Absent
    BY <1>1, MapType
  <1>11. PICK p, q : p = Map /\ q = Map' OBVIOUS
  <1>12. /\ p = [n \in Dict!Names |-> p[n]] /\ q = [n \in Dict!Names |-> q[n]]
         /\ \A n \in Dict!Names :
                q[n] = IF Dict!KeyEqual(b, key, Dict!KeyNamed[n]) THEN value ELSE p[n]
    BY <1>8, <1>9, <1>10, <1>11, KeysAreNamed
  <1>13. PICK m \in Dict!Names : m = NameOf[key] BY <1>1, KeysAreNamed
  <1>14. ASSUME NEW n \in Dict!Names, Dict!KeyEqual(b, key, Dict!KeyNamed[n]) PROVE n = m
    BY <1>13, <1>14, KeysAreNamed DEF Dict!KeyEqual
  <1>15. CASE Dict!KeyEqual(b, key, Dict!KeyNamed[m])
    <2>1. q = [p EXCEPT ![m] = value] BY <1>12, <1>14, <1>15
    <2> QED BY <1>10, <1>11, <2>1 DEF Dict!MapOf!Set, Map
  <1>16. CASE ~ Dict!KeyEqual(b, key, Dict!KeyNamed[m])
    <2>1. \A n \in Dict!Names : q[n] = p[n] BY <1>12, <1>14, <1>16
    <2>2. q = p BY <1>12, <2>1
    <2> QED BY <1>11, <2>2
  <1> QED BY <1>15, <1>16

\* Every step of the dictionary's caller is a step of the map, or none.
LEMMA DictStepIsMapStep == ASSUME DictOK, Dict!Next PROVE Dict!MapOf!Next \/ UNCHANGED Map
  <1>1. CASE Dict!Create
    <2>1. PICK hint \in TableHints, callbacks \in {"node", "cache"} :
            /\ Dict!RoundCapacity(hint) <= EntriesMax
            /\ dict' = [entries |-> Dict!Empty(Dict!RoundCapacity(hint)),
                        capacity |-> Dict!RoundCapacity(hint), count |-> 0, callbacks |-> callbacks]
      BY <1>1 DEF Dict!Create
    <2>2. PICK c, d : c = Dict!RoundCapacity(hint) /\ d = dict' OBVIOUS
    <2>3. c \in 4 .. EntriesMax
      <3>1. hint \in Nat BY TableAssumption
      <3>2. Dict!RoundCapacity(hint) \in Nat /\ Dict!RoundCapacity(hint) >= 4
        BY ONLY <3>1, TableRoundedUp
      <3> QED BY <2>1, <2>2, <3>2
    <2>4. TableOK(d) /\ Dict!Filled(d) = {} BY ONLY <2>1, <2>2, <2>3, NewTable
    <2>5. \A k \in Keyed : Dict!Get(d, k) = Absent BY <2>4, GetIs
    <2>6. dict' # Absent BY <2>2, <2>4, TableIsPresent
    <2>7. Map' = [n \in Dict!Names |-> Absent] BY <2>2, <2>5, <2>6, KeysAreNamed DEF Map
    <2>8. Map = Absent BY <1>1 DEF Dict!Create, Map
    <2> QED BY <2>7, <2>8 DEF Dict!MapOf!Next, Dict!MapOf!Create, Map
  <1>2. CASE Dict!Destroy
    <2>1. Map' = Absent BY <1>2 DEF Dict!Destroy, Map
    <2> QED BY <2>1 DEF Dict!MapOf!Next, Dict!MapOf!Destroy, Map
  <1>3. ASSUME NEW key \in Keys, NEW value \in Values, Dict!Set(key, value)
        PROVE  Dict!MapOf!Next \/ UNCHANGED Map
    <2>1. Dict!MapOf!Set \/ UNCHANGED Map BY <1>3, SetIsMapStep
    <2> QED BY <2>1 DEF Dict!MapOf!Next
  <1>4. CASE UNCHANGED dict BY <1>4 DEF Map
  <1> QED BY <1>1, <1>2, <1>3, <1>4
          DEF Dict!Next, Dict!SetFails, Dict!vars, Dict!IteratorInit, Dict!IteratorNext

\* What is found by probing is a map, across collisions and growth: setting a key
\* changes what is got of its name, and of no other (cos_dict_find_entry_ and
\* cos_dict_grow_).
THEOREM DictIsMap == ContainersSpec => IsMap
  <1>1. ContainersInit => Dict!MapOf!Init
    BY DEF ContainersInit, Dict!Init, Dict!MapOf!Init
  <1>2. DictOK /\ [ContainersNext]_ContainersVars => [Dict!MapOf!Next]_Map
    <2> SUFFICES ASSUME DictOK, [ContainersNext]_ContainersVars
                 PROVE  [Dict!MapOf!Next]_Map
      OBVIOUS
    <2>1. CASE UseDict
      <3>1. Dict!Next BY <2>1 DEF UseDict
      <3> QED BY <3>1, DictStepIsMapStep
    <2>2. CASE UNCHANGED dictVars BY <2>2 DEF dictVars, Map
    <2> QED BY <2>1, <2>2 DEF ContainersNext, UseArray, UseRing, ContainersVars
  <1> QED BY <1>1, <1>2, DictOKAlways, PTL
          DEF ContainersSpec, IsMap, Dict!IsMap, Dict!MapOf!Spec, Map

-----------------------------------------------------------------------------
(* Ring buffers.  That the types are right and tail agrees is not          *)
(* inductive: it does not say that the slots a pop reads hold items, which *)
(* the abstract queue needs.                                               *)

RingOK == Ring!TypeOK /\ Ring!TailAgrees /\ Ring!ItemsStored

-----------------------------------------------------------------------------
(* Indices: h is the head of c slots, i counts from it. *)

Wrap(c, x) == IF x < c THEN x ELSE x - c

\* The two cases in which the code's % is used: an index below twice the
\* capacity is its own slot or lies one lap back.
LEMMA ModLap ==
    ASSUME NEW c \in Nat \ {0}, NEW x \in 0..(2 * c - 1)
    PROVE  x % c = Wrap(c, x)
  <1>1. CASE x < c BY <1>1 DEF Wrap
  <1>2. CASE x >= c BY <1>2 DEF Wrap
  <1> QED BY <1>1, <1>2

\* The slot of index i.
LEMMA Lap ==
    ASSUME NEW c \in Nat \ {0}, NEW h \in 0..(c - 1), NEW i \in 0..c
    PROVE  (h + i) % c = Wrap(c, h + i) /\ (h + i) % c \in 0..(c - 1)
  <1>1. h + i \in 0..(2 * c - 1) OBVIOUS
  <1>2. (h + i) % c = Wrap(c, h + i) BY <1>1, ModLap, Zenon
  <1>3. Wrap(c, h + i) \in 0..(c - 1) BY DEF Wrap
  <1> QED BY <1>2, <1>3, Zenon

\* The head itself.
LEMMA LapZero ==
    ASSUME NEW c \in Nat \ {0}, NEW h \in 0..(c - 1)
    PROVE  (h + 0) % c = h
  <1>1. 0 \in 0..c OBVIOUS
  <1>2. (h + 0) % c = Wrap(c, h + 0) BY <1>1, Lap, Zenon
  <1>3. Wrap(c, h + 0) = h BY DEF Wrap
  <1> QED BY <1>2, <1>3, Zenon

\* Different indices have different slots.
LEMMA LapApart ==
    ASSUME NEW c \in Nat \ {0}, NEW h \in 0..(c - 1),
           NEW n \in 0..(c - 1), NEW i \in 0..(n - 1)
    PROVE  (h + i) % c # (h + n) % c
  <1>1. i \in 0..c /\ n \in 0..c OBVIOUS
  <1>2. (h + i) % c = Wrap(c, h + i) /\ (h + n) % c = Wrap(c, h + n)
    BY <1>1, Lap, Zenon
  <1>3. Wrap(c, h + i) # Wrap(c, h + n) BY DEF Wrap
  <1> QED BY <1>2, <1>3, Zenon

\* The slot before the head.
Before(c, h) == IF h = 0 THEN c - 1 ELSE h - 1

\* With the head one slot back, index i is at the slot i - 1 was at.
LEMMA LapBefore ==
    ASSUME NEW c \in Nat \ {0}, NEW h \in 0..(c - 1), NEW i \in 1..c
    PROVE  /\ Before(c, h) \in 0..(c - 1)
           /\ (Before(c, h) + i) % c = (h + (i - 1)) % c
           /\ i < c => (Before(c, h) + i) % c # Before(c, h)
  <1>1. Before(c, h) \in 0..(c - 1) /\ i \in 0..c /\ i - 1 \in 0..c BY DEF Before
  <1>2. /\ (Before(c, h) + i) % c = Wrap(c, Before(c, h) + i)
        /\ (h + (i - 1)) % c = Wrap(c, h + (i - 1))
    BY <1>1, Lap, Zenon
  <1>3. Wrap(c, Before(c, h) + i) = Wrap(c, h + (i - 1)) BY DEF Wrap, Before
  <1>4. i < c => Wrap(c, Before(c, h) + i) # Before(c, h) BY DEF Wrap, Before
  <1> QED BY <1>1, <1>2, <1>3, <1>4, Zenon

\* The slot after that of index i is that of index i + 1.
LEMMA LapNext ==
    ASSUME NEW c \in Nat \ {0}, NEW h \in 0..(c - 1), NEW i \in 0..(c - 1)
    PROVE  (((h + i) % c) + 1) % c = (h + (i + 1)) % c
  <1>1. i \in 0..c /\ i + 1 \in 0..c /\ 1 \in 0..c OBVIOUS
  <1>2. (h + i) % c = Wrap(c, h + i) /\ (h + (i + 1)) % c = Wrap(c, h + (i + 1))
    BY <1>1, Lap, Zenon
  <1>3. Wrap(c, h + i) \in 0..(c - 1) BY DEF Wrap
  <1>4. (Wrap(c, h + i) + 1) % c = Wrap(c, Wrap(c, h + i) + 1) BY <1>1, <1>3, Lap, Zenon
  <1>5. Wrap(c, Wrap(c, h + i) + 1) = Wrap(c, h + (i + 1)) BY DEF Wrap
  <1> QED BY <1>2, <1>4, <1>5, Zenon

\* With the head one slot on, index i is at the slot i + 1 was at.
LEMMA LapAfter ==
    ASSUME NEW c \in Nat \ {0}, NEW h \in 0..(c - 1), NEW i \in 0..(c - 1)
    PROVE  (((h + 1) % c) + i) % c = (h + (i + 1)) % c
  <1>1. i \in 0..c /\ i + 1 \in 0..c /\ 1 \in 0..c OBVIOUS
  <1>2. (h + 1) % c = Wrap(c, h + 1) /\ (h + (i + 1)) % c = Wrap(c, h + (i + 1))
    BY <1>1, Lap, Zenon
  <1>3. Wrap(c, h + 1) \in 0..(c - 1) BY DEF Wrap
  <1>4. (Wrap(c, h + 1) + i) % c = Wrap(c, Wrap(c, h + 1) + i) BY <1>1, <1>3, Lap, Zenon
  <1>5. Wrap(c, Wrap(c, h + 1) + i) = Wrap(c, h + (i + 1)) BY DEF Wrap
  <1> QED BY <1>2, <1>4, <1>5, Zenon

\* The slot before that of index n is that of index n - 1.
LEMMA LapPrevious ==
    ASSUME NEW c \in Nat \ {0}, NEW h \in 0..(c - 1), NEW n \in 1..c
    PROVE  Before(c, (h + n) % c) = (h + (n - 1)) % c
  <1>1. n \in 0..c /\ n - 1 \in 0..c OBVIOUS
  <1>2. (h + n) % c = Wrap(c, h + n) /\ (h + (n - 1)) % c = Wrap(c, h + (n - 1))
    BY <1>1, Lap, Zenon
  <1>3. Before(c, Wrap(c, h + n)) = Wrap(c, h + (n - 1)) BY DEF Wrap, Before
  <1> QED BY <1>2, <1>3, Zenon

-----------------------------------------------------------------------------
\* The doubling loop of cos_ring_buffer_resize_, entered with a full buffer,
\* runs its body once.
LEMMA DoubledOnce ==
    ASSUME NEW c \in Nat, c > 0
    PROVE  Ring!Doubled(c, c + 1) = 2 * c
  <1> DEFINE S == (c + 1)..(2 * (c + 1) - 1)
             P(n) == \E p \in 1..n : Ring!IsPowerOfTwo(p) /\ n = c * p
  <1>1. Ring!IsPowerOfTwo(2) BY DEF Ring!IsPowerOfTwo
  <1>2. 2 * c \in S /\ P(2 * c) BY <1>1
  <1>3. ASSUME NEW n \in S, P(n) PROVE n = 2 * c
    <2>1. PICK p \in 1..n : Ring!IsPowerOfTwo(p) /\ n = c * p BY <1>3
    <2>2. p # 1 BY <2>1
    <2>3. ASSUME p >= 3 PROVE FALSE
      <3>1. c * p >= c * 3 BY <2>3
      <3>2. c = 1 /\ p = 3 BY <3>1, <2>1
      <3>3. ~Ring!IsPowerOfTwo(3) BY DEF Ring!IsPowerOfTwo
      <3> QED BY <3>2, <3>3, <2>1
    <2>4. p = 2 BY <2>2, <2>3
    <2> QED BY <2>1, <2>4
  <1> HIDE DEF S, P
  <1>4. (CHOOSE n \in S : P(n)) \in S /\ P(CHOOSE n \in S : P(n)) BY <1>2, Zenon
  <1>5. (CHOOSE n \in S : P(n)) = 2 * c BY <1>3, <1>4
  <1> QED BY <1>5 DEF Ring!Doubled, S, P

\* The block a push works on has a free slot, agrees with head, count and
\* tail, and holds the same items in the same order.
LEMMA BlockKeepsItems ==
    ASSUME RingOK, Ring!Pushable
    PROVE  /\ Ring!Block.capacity \in Nat /\ Ring!Block.capacity > size
           /\ Ring!Block.head \in 0..(Ring!Block.capacity - 1)
           /\ Ring!Block.tail = (Ring!Block.head + size) % Ring!Block.capacity
           /\ Ring!Block.data \in [0..(Ring!Block.capacity - 1) -> Items \cup {Zero}]
           /\ \A i \in 0..(size - 1) :
                 Ring!Block.data[(Ring!Block.head + i) % Ring!Block.capacity]
                   = slots[Ring!Slot(i)]
           /\ Ring!Block.capacity # room =>
                 size = room /\ Ring!Block.capacity = 2 * room
  <1> USE DEF RingOK, Ring!TypeOK, Ring!TailAgrees, Ring!Pushable
  <1>1. CASE room >= size + 1
    <2>1. Ring!Block = [capacity |-> room, head |-> head, tail |-> tail, data |-> slots]
      BY <1>1 DEF Ring!Block
    <2> QED BY <2>1, <1>1 DEF Ring!Slot
  <1>2. CASE ~(room >= size + 1)
    <2>1. size = room BY <1>2
    <2>0. room \in Nat \ {0} /\ head \in 0..(room - 1) /\ 2 * room \in Nat \ {0}
          /\ 0 \in 0..(2 * room - 1)
      OBVIOUS
    <2>2. tail = head
      <3>1. room \in 0..room BY <2>0
      <3>2. (head + room) % room = Wrap(room, head + room)
        BY <2>0, <3>1, Lap, Zenon
      <3>3. Wrap(room, head + room) = head BY ONLY <2>0 DEF Wrap
      <3>4. tail = Ring!Slot(room) BY <2>0, <2>1
      <3> QED BY <3>2, <3>3, <3>4, Zenon DEF Ring!Slot
    <2>3. Ring!Doubled(room, size + 1) = 2 * room BY <2>1, DoubledOnce
    <2>4. Ring!Block = [capacity |-> 2 * room, head |-> 0, tail |-> size,
                   data |-> Ring!Relocated(2 * room)]
      BY <1>2, <2>3 DEF Ring!Block
    <2>5. Ring!Relocated(2 * room) =
            [i \in 0..(2 * room - 1) |->
                IF i < room - head THEN slots[head + i]
                ELSE IF i < room THEN slots[i - (room - head)]
                ELSE Zero]
      BY <2>2 DEF Ring!Relocated
    <2>6. Ring!Relocated(2 * room) \in [0..(2 * room - 1) -> Items \cup {Zero}]
      BY <2>5
    <2>7. ASSUME NEW i \in 0..(size - 1)
          PROVE  Ring!Relocated(2 * room)[(0 + i) % (2 * room)] = slots[Ring!Slot(i)]
      <3>0. i \in 0..room /\ i \in 0..(2 * room) BY <2>0, <2>1
      <3>1. (0 + i) % (2 * room) = i
        <4>1. (0 + i) % (2 * room) = Wrap(2 * room, 0 + i) BY <2>0, <3>0, Lap, Zenon
        <4>2. Wrap(2 * room, 0 + i) = i BY ONLY <2>0, <3>0 DEF Wrap
        <4> QED BY <4>1, <4>2, Zenon
      <3>2. Ring!Slot(i) = Wrap(room, head + i) BY <2>0, <3>0, Lap, Zenon DEF Ring!Slot
      <3>3. Ring!Relocated(2 * room)[i] =
              IF i < room - head THEN slots[head + i] ELSE slots[i - (room - head)]
        BY <2>1, <2>5
      <3>4. slots[Wrap(room, head + i)] =
              IF i < room - head THEN slots[head + i] ELSE slots[i - (room - head)]
        BY ONLY <2>0, <3>0 DEF Wrap
      <3> QED BY <3>1, <3>2, <3>3, <3>4, Zenon
    <2>8. size = (0 + size) % (2 * room)
      <3>1. size \in 0..(2 * room) BY <2>0, <2>1
      <3>2. (0 + size) % (2 * room) = Wrap(2 * room, 0 + size)
        BY <2>0, <3>1, Lap, Zenon
      <3>3. Wrap(2 * room, 0 + size) = size BY ONLY <2>0, <2>1 DEF Wrap
      <3> QED BY <3>2, <3>3, Zenon
    <2> QED BY <2>1, <2>4, <2>6, <2>7, <2>8
  <1> QED BY <1>1, <1>2
-----------------------------------------------------------------------------
(* The inductive invariant *)

\* A buffer that was just created satisfies the invariant.
LEMMA RingInitOK == Ring!Init => RingOK
  <1> SUFFICES ASSUME Ring!Init PROVE RingOK OBVIOUS
  <1>1. Ring!TypeOK BY RingAssumption DEF Ring!Init, Ring!TypeOK, Ring!Fresh
  <1>2. Ring!TailAgrees
    <2>1. room \in Nat BY <1>1 DEF Ring!TypeOK
    <2>2. ASSUME room > 0 PROVE Ring!Slot(0) = 0
      <3>1. room \in Nat \ {0} /\ 0 \in 0..(room - 1) /\ head = 0
        BY <2>1, <2>2 DEF Ring!Init
      <3> QED BY <3>1, LapZero, Zenon DEF Ring!Slot
    <2> QED BY <2>1, <2>2 DEF Ring!Init, Ring!TailAgrees
  <1>3. Ring!ItemsStored BY DEF Ring!Init, Ring!ItemsStored
  <1> QED BY <1>1, <1>2, <1>3 DEF RingOK

\* cos_ring_buffer_push_front puts the item at index 0 and moves the others
\* up by one.
LEMMA PushFrontSlots ==
    ASSUME RingOK, NEW item \in Items, Ring!PushFront(item)
    PROVE  /\ Ring!TypeOK' /\ Ring!TailAgrees' /\ size' = size + 1 /\ size \in Nat
           /\ slots'[(Ring!Slot(0))'] = item
           /\ \A i \in 1..size : slots'[(Ring!Slot(i))'] = slots[Ring!Slot(i - 1)]
  <1> DEFINE b == Ring!Block
             h == Before(b.capacity, b.head)
  <1>1. /\ head' = h /\ slots' = [b.data EXCEPT ![h] = item]
        /\ room' = b.capacity /\ tail' = b.tail /\ size' = size + 1
        /\ popped' = NoItem /\ hung' = hung /\ Ring!Pushable
    BY DEF Ring!PushFront, Before
  <1>2. /\ b.capacity \in Nat /\ b.capacity > size
        /\ b.head \in 0..(b.capacity - 1)
        /\ b.tail = (b.head + size) % b.capacity
        /\ b.data \in [0..(b.capacity - 1) -> Items \cup {Zero}]
        /\ \A i \in 0..(size - 1) : b.data[(b.head + i) % b.capacity] = slots[Ring!Slot(i)]
    BY <1>1, BlockKeepsItems
  <1> HIDE DEF b
  <1>3. size \in Nat /\ hung \in BOOLEAN BY DEF RingOK, Ring!TypeOK
  <1>4. /\ b.capacity \in Nat \ {0} /\ size + 1 \in 1..b.capacity /\ size \in 0..b.capacity
        /\ size + 1 - 1 = size
    <2>1. b.capacity \in Nat /\ b.capacity > size BY <1>2
    <2> QED BY ONLY <2>1, <1>3
  <1>5. /\ h \in 0..(b.capacity - 1)
        /\ (h + (size + 1)) % b.capacity = (b.head + size) % b.capacity
    <2> DEFINE n == size + 1
    <2>1. b.head \in 0..(b.capacity - 1) /\ n \in 1..b.capacity /\ b.capacity \in Nat \ {0}
      BY <1>2, <1>4
    <2>2. n - 1 = size BY <1>3
    <2> HIDE DEF n
    <2>3. /\ Before(b.capacity, b.head) \in 0..(b.capacity - 1)
          /\ (Before(b.capacity, b.head) + n) % b.capacity = (b.head + (n - 1)) % b.capacity
      BY ONLY <2>1, LapBefore, Zenon
    <2> QED BY <2>2, <2>3, Zenon DEF n
  <1>6. b.tail \in 0..(b.capacity - 1) BY <1>2, <1>4, Lap, ZenonT(30)
  <1> HIDE DEF h
  <1>7. Ring!TypeOK'
    <2>1. slots' \in [0..(b.capacity - 1) -> Items \cup {Zero}]
      <3>1. b.data \in [0..(b.capacity - 1) -> Items \cup {Zero}] BY <1>2
      <3> QED BY ONLY <3>1, <1>1, item \in Items
    <2>2. room' \in Nat /\ head' \in Nat /\ tail' \in Nat
      <3>1. h \in 0..(b.capacity - 1) BY <1>5
      <3> QED BY ONLY <3>1, <1>1, <1>4, <1>6
    <2>3. size' \in Nat /\ popped' \in Items \cup {NoItem} /\ hung' \in BOOLEAN BY <1>1, <1>3
    <2> QED BY ONLY <2>1, <2>2, <2>3, <1>1 DEF Ring!TypeOK
  <1>8. Ring!TailAgrees'
    <2>1. Ring!Slot(size)' = (h + (size + 1)) % b.capacity BY <1>1 DEF Ring!Slot
    <2>2. tail' = Ring!Slot(size)' BY <2>1, <1>1, <1>2, <1>4, <1>5, Zenon
    <2>3. size' <= room' /\ head' < room' BY <1>1, <1>4, <1>5
    <2> QED BY <2>2, <2>3 DEF Ring!TailAgrees
  <1>9. slots'[(Ring!Slot(0))'] = item
    <2>1. (Ring!Slot(0))' = (h + 0) % b.capacity BY <1>1 DEF Ring!Slot
    <2>2. (Ring!Slot(0))' = h BY <2>1, <1>4, <1>5, LapZero, Zenon
    <2> QED BY <2>2, <1>1, <1>2, <1>5
  <1>10. ASSUME NEW i \in 1..size PROVE slots'[(Ring!Slot(i))'] = slots[Ring!Slot(i - 1)]
    <2>1. (Ring!Slot(i))' = (h + i) % b.capacity BY <1>1 DEF Ring!Slot
    <2>2. /\ i - 1 \in 0..(size - 1) /\ i - 1 \in 0..b.capacity
          /\ i \in 1..b.capacity /\ i < b.capacity
      BY ONLY <1>3, <1>4
    <2>3. (h + i) % b.capacity = (b.head + (i - 1)) % b.capacity /\ (h + i) % b.capacity # h
      BY <1>2, <1>4, <2>2, LapBefore, Zenon DEF h
    <2>4. (b.head + (i - 1)) % b.capacity \in 0..(b.capacity - 1)
      BY <1>2, <1>4, <2>2, Lap, Zenon
    <2>5. slots'[(Ring!Slot(i))'] = b.data[(b.head + (i - 1)) % b.capacity]
      <3> DEFINE j == (b.head + (i - 1)) % b.capacity
      <3>1. (Ring!Slot(i))' = j /\ j # h /\ j \in 0..(b.capacity - 1) BY <2>1, <2>3, <2>4, Zenon
      <3> HIDE DEF j
      <3>2. b.data \in [0..(b.capacity - 1) -> Items \cup {Zero}] BY <1>2
      <3>3. slots'[j] = b.data[j] BY ONLY <3>1, <3>2, <1>1
      <3> QED BY <3>1, <3>3, Zenon DEF j
    <2> QED BY <2>2, <2>5, <1>2, Zenon
  <1> QED BY <1>1, <1>3, <1>7, <1>8, <1>9, <1>10

\* cos_ring_buffer_push_front keeps the invariant.
LEMMA PushFrontInv ==
    ASSUME RingOK, NEW item \in Items, Ring!PushFront(item)
    PROVE  RingOK'
  <1>1. ASSUME NEW i \in 0..size PROVE slots'[(Ring!Slot(i))'] \in Items
    <2>1. CASE i = 0 BY <2>1, PushFrontSlots, Zenon
    <2>2. CASE i # 0
      <3>1. i \in 1..size /\ i - 1 \in 0..(size - 1) BY <2>2, PushFrontSlots
      <3>2. slots[Ring!Slot(i - 1)] \in Items BY <3>1, Zenon DEF RingOK, Ring!ItemsStored
      <3> QED BY <3>1, <3>2, PushFrontSlots, Zenon
    <2> QED BY <2>1, <2>2
  <1>2. size' = size + 1 /\ size \in Nat BY PushFrontSlots
  <1>3. Ring!ItemsStored' BY <1>1, <1>2 DEF Ring!ItemsStored
  <1> QED BY <1>3, PushFrontSlots, Zenon DEF RingOK

\* cos_ring_buffer_push_back puts the item at index count and leaves the
\* others where they are.
LEMMA PushBackSlots ==
    ASSUME RingOK, NEW item \in Items, Ring!PushBack(item)
    PROVE  /\ Ring!TypeOK' /\ Ring!TailAgrees' /\ size' = size + 1 /\ size \in Nat
           /\ \A i \in {size} : slots'[(Ring!Slot(i))'] = item
           /\ \A i \in 0..(size - 1) : slots'[(Ring!Slot(i))'] = slots[Ring!Slot(i)]
  <1> DEFINE b == Ring!Block
             t == (b.head + size) % b.capacity
  <1>1. /\ tail' = (b.tail + 1) % b.capacity /\ slots' = [b.data EXCEPT ![t] = item]
        /\ room' = b.capacity /\ head' = b.head /\ size' = size + 1
        /\ popped' = NoItem /\ hung' = hung /\ Ring!Pushable
    BY DEF Ring!PushBack
  <1>2. /\ b.capacity \in Nat /\ b.capacity > size
        /\ b.head \in 0..(b.capacity - 1)
        /\ b.tail = t
        /\ b.data \in [0..(b.capacity - 1) -> Items \cup {Zero}]
        /\ \A i \in 0..(size - 1) : b.data[(b.head + i) % b.capacity] = slots[Ring!Slot(i)]
    BY <1>1, BlockKeepsItems
  <1> HIDE DEF b
  <1>3. size \in Nat /\ hung \in BOOLEAN BY DEF RingOK, Ring!TypeOK
  <1>4. /\ b.capacity \in Nat \ {0} /\ size \in 0..(b.capacity - 1)
        /\ size \in 0..b.capacity /\ size + 1 \in 0..b.capacity
    BY <1>2, <1>3
  <1>5. t \in 0..(b.capacity - 1) BY <1>2, <1>4, Lap, Zenon
  <1>6. (t + 1) % b.capacity = (b.head + (size + 1)) % b.capacity
    BY <1>2, <1>4, LapNext, Zenon
  <1>7. (b.head + (size + 1)) % b.capacity \in 0..(b.capacity - 1)
    BY <1>2, <1>4, Lap, Zenon
  <1> HIDE DEF t
  <1>8. tail' = Ring!Slot(size)' /\ tail' \in 0..(b.capacity - 1)
    <2>1. Ring!Slot(size)' = (b.head + (size + 1)) % b.capacity BY <1>1 DEF Ring!Slot
    <2> QED BY <2>1, <1>1, <1>2, <1>6, <1>7, Zenon
  <1>9. Ring!TypeOK'
    <2>1. slots' \in [0..(b.capacity - 1) -> Items \cup {Zero}] BY <1>1, <1>2, <1>5
    <2>2. b.head \in 0..(b.capacity - 1) BY <1>2
    <2>3. room' \in Nat /\ head' \in Nat /\ tail' \in Nat
      BY ONLY <2>2, <1>1, <1>4, <1>8
    <2>4. size' \in Nat /\ popped' \in Items \cup {NoItem} /\ hung' \in BOOLEAN BY <1>1, <1>3
    <2> QED BY ONLY <2>1, <2>3, <2>4, <1>1 DEF Ring!TypeOK
  <1>10. Ring!TailAgrees'
    <2>1. size' <= room' /\ head' < room' BY <1>1, <1>2, <1>3
    <2> QED BY <2>1, <1>8 DEF Ring!TailAgrees
  <1>11. ASSUME NEW i \in {size} PROVE slots'[(Ring!Slot(i))'] = item
    <2>1. (Ring!Slot(i))' = t BY <1>1 DEF Ring!Slot, t
    <2> QED BY <2>1, <1>1, <1>2, <1>5
  <1>12. ASSUME NEW i \in 0..(size - 1) PROVE slots'[(Ring!Slot(i))'] = slots[Ring!Slot(i)]
    <2>1. (Ring!Slot(i))' = (b.head + i) % b.capacity BY <1>1 DEF Ring!Slot
    <2>2. i \in 0..b.capacity BY ONLY <1>3, <1>4
    <2>3. (b.head + i) % b.capacity # t BY <1>2, <1>4, LapApart, Zenon DEF t
    <2>4. (b.head + i) % b.capacity \in 0..(b.capacity - 1)
      BY <1>2, <1>4, <2>2, Lap, Zenon
    <2>5. slots'[(Ring!Slot(i))'] = b.data[(b.head + i) % b.capacity]
      <3> DEFINE j == (b.head + i) % b.capacity
      <3>1. (Ring!Slot(i))' = j /\ j # t /\ j \in 0..(b.capacity - 1) BY <2>1, <2>3, <2>4, Zenon
      <3> HIDE DEF j
      <3>2. b.data \in [0..(b.capacity - 1) -> Items \cup {Zero}] BY <1>2
      <3>3. slots'[j] = b.data[j] BY ONLY <3>1, <3>2, <1>1
      <3> QED BY <3>1, <3>3, Zenon DEF j
    <2> QED BY <2>5, <1>2, Zenon
  <1> QED BY <1>1, <1>3, <1>9, <1>10, <1>11, <1>12

\* cos_ring_buffer_push_back keeps the invariant.
LEMMA PushBackInv ==
    ASSUME RingOK, NEW item \in Items, Ring!PushBack(item)
    PROVE  RingOK'
  <1>1. ASSUME NEW i \in 0..size PROVE slots'[(Ring!Slot(i))'] \in Items
    <2>1. CASE i = size BY <2>1, PushBackSlots, Zenon
    <2>2. CASE i # size
      <3>1. i \in 0..(size - 1) BY <2>2, PushBackSlots
      <3>2. slots[Ring!Slot(i)] \in Items BY <3>1, Zenon DEF RingOK, Ring!ItemsStored
      <3> QED BY <3>1, <3>2, PushBackSlots, Zenon
    <2> QED BY <2>1, <2>2
  <1>2. size' = size + 1 /\ size \in Nat BY PushBackSlots
  <1>3. Ring!ItemsStored' BY <1>1, <1>2 DEF Ring!ItemsStored
  <1> QED BY <1>3, PushBackSlots, Zenon DEF RingOK

\* What a pop starts from.
LEMMA NotEmpty ==
    ASSUME RingOK, size > 0
    PROVE  /\ room \in Nat \ {0} /\ head \in 0..(room - 1)
           /\ size \in 1..room /\ size - 1 \in 0..(room - 1)
           /\ size - 1 \in 0..room /\ 1 \in 0..room
           /\ tail = Ring!Slot(size)
  BY DEF RingOK, Ring!TypeOK, Ring!TailAgrees

\* After a pop at the front index i is at the slot i + 1 was at.
LEMMA PopFrontSlots ==
    ASSUME RingOK, Ring!PopFront, NEW i \in 0..(size - 1)
    PROVE  (Ring!Slot(i))' = Ring!Slot(i + 1)
  <1>1. size > 0 /\ head' = (head + 1) % room /\ room' = room BY DEF Ring!PopFront
  <1>2. room \in Nat \ {0} /\ head \in 0..(room - 1) /\ size \in 1..room
    BY <1>1, NotEmpty
  <1>3. i \in 0..(room - 1) BY <1>2
  <1>4. (((head + 1) % room) + i) % room = (head + (i + 1)) % room
    BY <1>2, <1>3, LapAfter, Zenon
  <1> QED BY <1>1, <1>4, Zenon DEF Ring!Slot

\* cos_ring_buffer_pop_front keeps the invariant.
LEMMA PopFrontInv == ASSUME RingOK, Ring!PopFront PROVE RingOK'
  <1>1. /\ size > 0 /\ popped' = slots[Ring!Slot(0)] /\ head' = (head + 1) % room
        /\ size' = size - 1
        /\ room' = room /\ tail' = tail /\ slots' = slots /\ hung' = hung
    BY DEF Ring!PopFront
  <1>2. /\ room \in Nat \ {0} /\ head \in 0..(room - 1) /\ size \in 1..room
        /\ 1 \in 0..room /\ tail = Ring!Slot(size)
    BY <1>1, NotEmpty
  <1>3. head' \in 0..(room - 1) BY <1>1, <1>2, Lap, Zenon
  <1>4. popped' \in Items
    <2>1. 0 \in 0..(size - 1) BY <1>2
    <2> QED BY <2>1, <1>1, Zenon DEF RingOK, Ring!ItemsStored
  <1>5. Ring!TypeOK' BY <1>1, <1>2, <1>3, <1>4 DEF RingOK, Ring!TypeOK
  <1>6. Ring!TailAgrees'
    <2>1. size - 1 \in 0..(size - 1) /\ (size - 1) + 1 = size BY <1>2
    <2>2. (head' + (size - 1)) % room' = (head + ((size - 1) + 1)) % room
      BY <2>1, PopFrontSlots DEF Ring!Slot
    <2>3. (head + ((size - 1) + 1)) % room = tail BY <1>2, <2>1, Zenon DEF Ring!Slot
    <2>4. tail' = Ring!Slot(size)' BY <1>1, <2>2, <2>3, Zenon DEF Ring!Slot
    <2>5. size' <= room' /\ head' < room' BY <1>1, <1>2, <1>3
    <2> QED BY <2>4, <2>5 DEF Ring!TailAgrees
  <1>7. Ring!ItemsStored'
    <2> SUFFICES ASSUME NEW i \in 0..(size - 2) PROVE slots[(Ring!Slot(i))'] \in Items
      BY <1>1, <1>2 DEF Ring!ItemsStored
    <2>1. i \in 0..(size - 1) /\ i + 1 \in 0..(size - 1) BY <1>2
    <2>2. (Ring!Slot(i))' = Ring!Slot(i + 1) BY <2>1, PopFrontSlots
    <2> QED BY <2>1, <2>2 DEF RingOK, Ring!ItemsStored
  <1> QED BY <1>5, <1>6, <1>7 DEF RingOK

\* cos_ring_buffer_pop_back keeps the invariant.
LEMMA PopBackInv == ASSUME RingOK, Ring!PopBack PROVE RingOK'
  <1>1. /\ size > 0 /\ popped' = slots[Ring!Slot(size - 1)] /\ tail' = Before(room, tail)
        /\ size' = size - 1
        /\ room' = room /\ head' = head /\ slots' = slots /\ hung' = hung
    BY DEF Ring!PopBack, Before
  <1>2. /\ room \in Nat \ {0} /\ head \in 0..(room - 1) /\ size \in 1..room
        /\ size - 1 \in 0..room /\ tail = Ring!Slot(size)
    BY <1>1, NotEmpty
  <1>3. tail' = (head + (size - 1)) % room
    BY <1>1, <1>2, LapPrevious, Zenon DEF Ring!Slot
  <1>4. tail' \in 0..(room - 1) BY <1>2, <1>3, Lap, Zenon
  <1>5. popped' \in Items
    <2>1. size - 1 \in 0..(size - 1) BY <1>2
    <2> QED BY <2>1, <1>1, Zenon DEF RingOK, Ring!ItemsStored
  <1>6. Ring!TypeOK' BY <1>1, <1>2, <1>4, <1>5 DEF RingOK, Ring!TypeOK
  <1>7. Ring!TailAgrees'
    <2>1. tail' = Ring!Slot(size)' BY <1>1, <1>3, Zenon DEF Ring!Slot
    <2>2. size' <= room' /\ head' < room' BY <1>1, <1>2
    <2> QED BY <2>1, <2>2 DEF Ring!TailAgrees
  <1>8. Ring!ItemsStored'
    <2>1. ASSUME NEW i \in 0..(size - 2) PROVE slots[Ring!Slot(i)] \in Items
      <3>1. i \in 0..(size - 1) BY <1>2
      <3> QED BY <3>1, Zenon DEF RingOK, Ring!ItemsStored
    <2>2. 0..(size' - 1) = 0..(size - 2) BY <1>1, <1>2
    <2>3. \A i : slots'[(Ring!Slot(i))'] = slots[Ring!Slot(i)] BY <1>1, Zenon DEF Ring!Slot
    <2> QED BY <2>1, <2>2, <2>3, Zenon DEF Ring!ItemsStored
  <1> QED BY <1>6, <1>7, <1>8 DEF RingOK

\* A call that leaves the items alone keeps the invariant.
LEMMA StaysOK ==
    ASSUME RingOK, UNCHANGED <<room, size, head, tail, slots>>,
           popped' \in {popped, NoItem}, hung' \in BOOLEAN
    PROVE  RingOK'
  BY DEF RingOK, Ring!TypeOK, Ring!TailAgrees, Ring!ItemsStored, Ring!Slot

\* Every operation keeps the invariant.
LEMMA RingStepOK == RingOK /\ [Ring!Next]_Ring!vars => RingOK'
  <1> SUFFICES ASSUME RingOK, [Ring!Next]_Ring!vars PROVE RingOK' OBVIOUS
  <1>0. hung \in BOOLEAN BY DEF RingOK, Ring!TypeOK
  <1>1. CASE \E item \in Items : Ring!PushFront(item) BY <1>1, PushFrontInv
  <1>2. CASE \E item \in Items : Ring!PushBack(item) BY <1>2, PushBackInv
  <1>3. CASE Ring!PushOutOfMemory BY <1>0, <1>3, StaysOK DEF Ring!PushOutOfMemory
  <1>4. CASE Ring!PushHangs BY <1>4, StaysOK DEF Ring!PushHangs
  <1>5. CASE Ring!PopFront BY <1>5, PopFrontInv
  <1>6. CASE Ring!PopBack BY <1>6, PopBackInv
  <1>7. ASSUME NEW index \in 0..size, Ring!GetItem(index) PROVE RingOK'
    <2>1. /\ index < size /\ popped' = slots[Ring!Slot(index)]
          /\ UNCHANGED <<room, size, head, tail, slots, hung>>
      BY <1>7 DEF Ring!GetItem
    <2>2. size \in Nat BY DEF RingOK, Ring!TypeOK
    <2>3. index \in 0..(size - 1) BY <2>1, <2>2
    <2>4. popped' \in Items BY <2>1, <2>3, Zenon DEF RingOK, Ring!ItemsStored
    <2>5. Ring!TypeOK' BY <2>1, <2>4 DEF RingOK, Ring!TypeOK
    <2>6. Ring!TailAgrees' /\ Ring!ItemsStored'
      BY <2>1 DEF RingOK, Ring!TailAgrees, Ring!ItemsStored, Ring!Slot
    <2> QED BY <2>5, <2>6 DEF RingOK
  <1>8. CASE Ring!Refuse BY <1>0, <1>8, StaysOK DEF Ring!Refuse
  <1>9. CASE Ring!Spin \/ UNCHANGED Ring!vars
    BY <1>9, StaysOK DEF RingOK, Ring!TypeOK, Ring!Spin, Ring!vars
  <1> QED BY <1>1, <1>2, <1>3, <1>4, <1>5, <1>6, <1>7, <1>8, <1>9 DEF Ring!Next

\* The invariant holds always, of a ring buffer that is used or not.
LEMMA RingOKAlways == ContainersSpec => []RingOK
  <1>1. ContainersInit => RingOK
    <2> SUFFICES ASSUME Ring!Init PROVE RingOK BY DEF ContainersInit
    <2> QED BY RingInitOK
  <1>2. RingOK /\ [ContainersNext]_ContainersVars => RingOK'
    <2> SUFFICES ASSUME RingOK, [ContainersNext]_ContainersVars PROVE RingOK'
      OBVIOUS
    <2>1. CASE UseRing
      <3>1. Ring!Next BY <2>1 DEF UseRing
      <3> QED BY <3>1, RingStepOK
    <2>2. CASE UNCHANGED ringVars
      <3>1. UNCHANGED Ring!vars BY <2>2 DEF ringVars, Ring!vars
      <3> QED BY <3>1, RingStepOK
    <2> QED BY <2>1, <2>2 DEF ContainersNext, UseArray, UseDict, ContainersVars
  <1> QED BY <1>1, <1>2, PTL DEF ContainersSpec

\* No sequence of pushes and pops, wherever the items have wrapped around the
\* block and however often it has doubled, makes tail disagree with head and
\* count (the indices of lines 196-309 and the copy of lines 382-406).
THEOREM TailAgreesAlways == ContainersSpec => []TailAgrees
  <1>1. RingOK => TailAgrees BY DEF RingOK, TailAgrees
  <1> QED BY <1>1, RingOKAlways, PTL

-----------------------------------------------------------------------------
(* Growth, and the abstract queue *)

\* The block never shrinks, and never moves while a slot is free
\* (cos_ring_buffer_resize_, lines 352-367).
THEOREM GrowsOnlyWhenFullAlways == ContainersSpec => Ring!GrowsOnlyWhenFull
  <1> DEFINE Grows == room' # room => size = room /\ room' = 2 * room
  <1>1. RingOK /\ [ContainersNext]_ContainersVars => [Grows]_Ring!vars
    <2> SUFFICES ASSUME RingOK, ContainersNext, room' # room
                 PROVE  size = room /\ room' = 2 * room
      BY DEF ContainersVars, ringVars
    <2>0. Ring!Next BY DEF ContainersNext, UseArray, UseDict, UseRing, ringVars
    <2>1. ASSUME NEW item \in Items, Ring!PushFront(item)
          PROVE  room' = Ring!Block.capacity /\ Ring!Pushable
      BY <2>1 DEF Ring!PushFront
    <2>2. ASSUME NEW item \in Items, Ring!PushBack(item)
          PROVE  room' = Ring!Block.capacity /\ Ring!Pushable
      BY <2>2 DEF Ring!PushBack
    <2>3. room' = Ring!Block.capacity /\ Ring!Pushable
      BY <2>0, <2>1, <2>2
         DEF Ring!Next, Ring!PushOutOfMemory, Ring!PushHangs, Ring!Spin, Ring!PopFront,
             Ring!PopBack, Ring!GetItem, Ring!Refuse, Ring!vars
    <2> QED BY <2>3, BlockKeepsItems
  <1> QED BY <1>1, RingOKAlways, PTL DEF ContainersSpec, Ring!GrowsOnlyWhenFull

\* The contents are a sequence of count items.
LEMMA ContentsType ==
    ASSUME RingOK PROVE Ring!Contents \in Seq(Items) /\ Len(Ring!Contents) = size
  <1>1. \A i \in 1..size : slots[Ring!Slot(i - 1)] \in Items
    BY DEF RingOK, Ring!TypeOK, Ring!ItemsStored
  <1>2. size \in Nat BY DEF RingOK, Ring!TypeOK
  <1> QED BY <1>1, <1>2 DEF Ring!Contents

\* What Append and Tail do, as functions.
LEMMA AppendIs ==
    ASSUME NEW S, NEW s \in Seq(S), NEW n \in Nat, Len(s) = n, NEW e \in S
    PROVE  Append(s, e) = [i \in 1..(n + 1) |-> IF i = n + 1 THEN e ELSE s[i]]
  <1> DEFINE t == Append(s, e)
  <1>1. /\ t \in Seq(S) /\ Len(t) = n + 1 /\ t[n + 1] = e
        /\ \A i \in 1..n : t[i] = s[i]
    BY AppendProperties
  <1> HIDE DEF t
  <1>2. t = [i \in 1..(n + 1) |-> t[i]] BY <1>1
  <1>3. ASSUME NEW i \in 1..(n + 1) PROVE t[i] = IF i = n + 1 THEN e ELSE s[i] BY <1>1
  <1>4. t = [i \in 1..(n + 1) |-> IF i = n + 1 THEN e ELSE s[i]] BY <1>2, <1>3, Zenon
  <1> QED BY <1>4 DEF t

\* The tail of a sequence, item by item.
LEMMA TailIs ==
    ASSUME NEW S, NEW s \in Seq(S), NEW n \in Nat, Len(s) = n, n > 0
    PROVE  Tail(s) = [i \in 1..(n - 1) |-> s[i + 1]] /\ s # <<>>
  <1> DEFINE t == Tail(s)
  <1>1. s # <<>> OBVIOUS
  <1>2. t \in Seq(S) /\ Len(t) = n - 1 /\ \A i \in 1..(n - 1) : t[i] = s[i + 1]
    BY <1>1, HeadTailProperties
  <1> HIDE DEF t
  <1>3. t = [i \in 1..(n - 1) |-> t[i]] BY <1>2
  <1>4. t = [i \in 1..(n - 1) |-> s[i + 1]] BY <1>2, <1>3, Zenon
  <1> QED BY <1>1, <1>4 DEF t

\* A push at the front puts the item before the contents.
LEMMA PushFrontRefines ==
    ASSUME RingOK, NEW item \in Items, Ring!PushFront(item)
    PROVE  Ring!Contents' = <<item>> \o Ring!Contents
  <1>1. /\ size' = size + 1 /\ size \in Nat /\ slots'[(Ring!Slot(0))'] = item
        /\ \A i \in 1..size : slots'[(Ring!Slot(i))'] = slots[Ring!Slot(i - 1)]
    BY PushFrontSlots
  <1>2. Ring!Contents \in Seq(Items) /\ Len(Ring!Contents) = size BY ContentsType
  <1>3. Ring!Contents' = [i \in 1..(size + 1) |-> slots'[(Ring!Slot(i - 1))']]
    BY <1>1 DEF Ring!Contents
  <1>4. ASSUME NEW i \in 1..(size + 1)
        PROVE  slots'[(Ring!Slot(i - 1))'] = IF i = 1 THEN item ELSE Ring!Contents[i - 1]
    <2>1. CASE i = 1
      <3>1. i - 1 = 0 BY <2>1
      <3> QED BY <2>1, <3>1, <1>1, Zenon
    <2>2. CASE i # 1
      <3>1. i - 1 \in 1..size BY <2>2, <1>1
      <3>2. slots'[(Ring!Slot(i - 1))'] = slots[Ring!Slot((i - 1) - 1)] BY <3>1, <1>1, Zenon
      <3>3. Ring!Contents[i - 1] = slots[Ring!Slot((i - 1) - 1)] BY <3>1 DEF Ring!Contents
      <3> QED BY <2>2, <3>2, <3>3, Zenon
    <2> QED BY <2>1, <2>2
  <1>5. Ring!Contents' = [i \in 1..(size + 1) |-> IF i = 1 THEN item ELSE Ring!Contents[i - 1]]
    BY <1>3, <1>4, Zenon
  <1>6. <<item>> \o Ring!Contents =
          [i \in 1..(size + 1) |-> IF i = 1 THEN item ELSE Ring!Contents[i - 1]]
    BY ONLY <1>1, <1>2
  <1> QED BY <1>5, <1>6, Zenon

\* A push at the back appends the item to the contents.
LEMMA PushBackRefines ==
    ASSUME RingOK, NEW item \in Items, Ring!PushBack(item)
    PROVE  Ring!Contents' = Append(Ring!Contents, item)
  <1>1. /\ size' = size + 1 /\ size \in Nat
        /\ \A i \in {size} : slots'[(Ring!Slot(i))'] = item
        /\ \A i \in 0..(size - 1) : slots'[(Ring!Slot(i))'] = slots[Ring!Slot(i)]
    BY PushBackSlots
  <1>2. Ring!Contents \in Seq(Items) /\ Len(Ring!Contents) = size BY ContentsType
  <1>3. Ring!Contents' = [i \in 1..(size + 1) |-> slots'[(Ring!Slot(i - 1))']]
    BY <1>1 DEF Ring!Contents
  <1>4. ASSUME NEW i \in 1..(size + 1)
        PROVE  slots'[(Ring!Slot(i - 1))'] = IF i = size + 1 THEN item ELSE Ring!Contents[i]
    <2>1. CASE i = size + 1
      <3>1. i - 1 \in {size} BY <2>1, <1>1
      <3> QED BY <2>1, <3>1, <1>1, Zenon
    <2>2. CASE i # size + 1
      <3>1. i \in 1..size /\ i - 1 \in 0..(size - 1) BY <2>2, <1>1
      <3>2. Ring!Contents[i] = slots[Ring!Slot(i - 1)] BY <3>1, Zenon DEF Ring!Contents
      <3> QED BY <2>2, <3>1, <3>2, <1>1, Zenon
    <2> QED BY <2>1, <2>2
  <1>5. Ring!Contents' =
          [i \in 1..(size + 1) |-> IF i = size + 1 THEN item ELSE Ring!Contents[i]]
    BY <1>3, <1>4, Zenon
  <1>6. Append(Ring!Contents, item) =
          [i \in 1..(size + 1) |-> IF i = size + 1 THEN item ELSE Ring!Contents[i]]
    <2>1. /\ Ring!Contents \in Seq(Items) /\ Len(Ring!Contents) = size
          /\ size \in Nat /\ item \in Items
      BY <1>1, <1>2
    <2> QED BY ONLY <2>1, AppendIs
  <1> QED BY <1>5, <1>6, Zenon

\* A pop at the front returns and removes the first item.
LEMMA PopFrontRefines == ASSUME RingOK, Ring!PopFront PROVE Ring!Deque!PopFront
  <1>1. Ring!Contents \in Seq(Items) /\ Len(Ring!Contents) = size BY ContentsType
  <1>2. /\ size \in Nat /\ size > 0 /\ size' = size - 1 /\ popped' = slots[Ring!Slot(0)]
        /\ slots' = slots
    BY DEF RingOK, Ring!TypeOK, Ring!PopFront
  <1>3. popped' = Head(Ring!Contents)
    <2>1. 1 \in 1..size /\ 1 - 1 = 0 BY <1>2
    <2>2. Ring!Contents[1] = slots[Ring!Slot(0)] BY <2>1, Zenon DEF Ring!Contents
    <2> QED BY <2>2, <1>1, <1>2
  <1>4. Ring!Contents' = [i \in 1..(size - 1) |-> slots[(Ring!Slot(i - 1))']]
    BY <1>2 DEF Ring!Contents
  <1>5. ASSUME NEW i \in 1..(size - 1) PROVE slots[(Ring!Slot(i - 1))'] = Ring!Contents[i + 1]
    <2>1. /\ i - 1 \in 0..(size - 1) /\ (i - 1) + 1 = i
          /\ i + 1 \in 1..size /\ (i + 1) - 1 = i
      BY <1>2
    <2>2. (Ring!Slot(i - 1))' = Ring!Slot((i - 1) + 1) BY <2>1, PopFrontSlots, Zenon
    <2>3. Ring!Contents[i + 1] = slots[Ring!Slot((i + 1) - 1)] BY <2>1, Zenon DEF Ring!Contents
    <2> QED BY <2>1, <2>2, <2>3, Zenon
  <1>6. Ring!Contents' = [i \in 1..(size - 1) |-> Ring!Contents[i + 1]] BY <1>4, <1>5, Zenon
  <1>7. /\ Tail(Ring!Contents) = [i \in 1..(size - 1) |-> Ring!Contents[i + 1]]
        /\ Ring!Contents # <<>>
    BY <1>1, <1>2, TailIs, Zenon
  <1> QED BY <1>3, <1>6, <1>7, Zenon DEF Ring!Deque!PopFront

\* A pop at the back returns and removes the last item.
LEMMA PopBackRefines == ASSUME RingOK, Ring!PopBack PROVE Ring!Deque!PopBack
  <1>1. Ring!Contents \in Seq(Items) /\ Len(Ring!Contents) = size BY ContentsType
  <1>2. /\ size \in Nat /\ size > 0 /\ size' = size - 1 /\ head' = head
        /\ popped' = slots[Ring!Slot(size - 1)] /\ slots' = slots /\ room' = room
    BY DEF RingOK, Ring!TypeOK, Ring!PopBack
  <1>3. popped' = Ring!Contents[Len(Ring!Contents)] BY <1>1, <1>2 DEF Ring!Contents
  <1>4. Ring!Contents' = [i \in 1..(size - 1) |-> slots[Ring!Slot(i - 1)]]
    BY <1>2 DEF Ring!Contents, Ring!Slot
  <1>5. SubSeq(Ring!Contents, 1, size - 1) = [i \in 1..(size - 1) |-> Ring!Contents[i]]
    BY <1>1, <1>2
  <1>6. ASSUME NEW i \in 1..(size - 1) PROVE Ring!Contents[i] = slots[Ring!Slot(i - 1)]
    BY <1>2 DEF Ring!Contents
  <1> QED BY <1>1, <1>2, <1>3, <1>4, <1>5, <1>6 DEF Ring!Deque!PopBack

\* A read returns the item of that index.
LEMMA GetItemRefines ==
    ASSUME RingOK, NEW index \in 0..size, Ring!GetItem(index)
    PROVE  Ring!Deque!Next
  <1>1. Ring!Contents \in Seq(Items) /\ Len(Ring!Contents) = size BY ContentsType
  <1>2. size \in Nat /\ index < size BY DEF RingOK, Ring!TypeOK, Ring!GetItem
  <1>3. Ring!Contents' = Ring!Contents BY DEF Ring!GetItem, Ring!Contents, Ring!Slot
  <1>4. popped' = Ring!Contents[index + 1] BY <1>2 DEF Ring!GetItem, Ring!Contents
  <1>5. Ring!Deque!Get(index) BY <1>1, <1>2, <1>3, <1>4 DEF Ring!Deque!Get
  <1> QED BY <1>1, <1>5 DEF Ring!Deque!Next

\* What a caller sees of the circular block, its laps and its resizes is a
\* plain double-ended queue: every push, pop and read (lines 130-309) returns
\* what the queue returns, in order, and no item is lost or duplicated.
THEOREM RefinesDeque == ContainersSpec => IsDeque
  <1>1. ContainersInit => Ring!Deque!Init
    <2> SUFFICES ASSUME Ring!Init PROVE Ring!Deque!Init BY DEF ContainersInit
    <2>1. Ring!Contents \in Seq(Items) /\ Len(Ring!Contents) = 0
      BY RingInitOK, ContentsType DEF Ring!Init
    <2> QED BY <2>1 DEF Ring!Init, Ring!Deque!Init
  <1>2. RingOK /\ [ContainersNext]_ContainersVars => [Ring!Deque!Next]_(Ring!Deque!vars)
    <2> SUFFICES ASSUME RingOK, [Ring!Next]_Ring!vars
                 PROVE  [Ring!Deque!Next]_(Ring!Deque!vars)
      BY DEF ContainersNext, UseArray, UseDict, UseRing, ContainersVars, ringVars, Ring!vars
    <2>1. ASSUME NEW item \in Items, Ring!PushFront(item) PROVE Ring!Deque!Next
      <3>1. Ring!Contents' = <<item>> \o Ring!Contents BY <2>1, PushFrontRefines
      <3>2. popped' = NoItem BY <2>1 DEF Ring!PushFront
      <3> QED BY <3>1, <3>2 DEF Ring!Deque!Next, Ring!Deque!PushFront
    <2>2. ASSUME NEW item \in Items, Ring!PushBack(item) PROVE Ring!Deque!Next
      <3>1. Ring!Contents' = Append(Ring!Contents, item) BY <2>2, PushBackRefines
      <3>2. popped' = NoItem BY <2>2 DEF Ring!PushBack
      <3> QED BY <3>1, <3>2 DEF Ring!Deque!Next, Ring!Deque!PushBack
    <2>3. CASE Ring!PushOutOfMemory \/ Ring!Refuse
      <3>1. Ring!Contents' = Ring!Contents /\ popped' = NoItem
        BY <2>3 DEF Ring!PushOutOfMemory, Ring!Refuse, Ring!Contents, Ring!Slot
      <3> QED BY <3>1 DEF Ring!Deque!Next, Ring!Deque!Refuse
    <2>4. CASE Ring!PushHangs \/ Ring!Spin \/ UNCHANGED Ring!vars
      <3>1. Ring!Contents' = Ring!Contents /\ popped' = popped
        BY <2>4 DEF Ring!PushHangs, Ring!Spin, Ring!vars, Ring!Contents, Ring!Slot
      <3> QED BY <3>1 DEF Ring!Deque!vars
    <2>5. CASE Ring!PopFront BY <2>5, PopFrontRefines DEF Ring!Deque!Next
    <2>6. CASE Ring!PopBack BY <2>6, PopBackRefines DEF Ring!Deque!Next
    <2>7. ASSUME NEW index \in 0..size, Ring!GetItem(index) PROVE Ring!Deque!Next
      BY <2>7, GetItemRefines
    <2> QED BY <2>1, <2>2, <2>3, <2>4, <2>5, <2>6, <2>7 DEF Ring!Next
  <1> QED BY <1>1, <1>2, RingOKAlways, PTL
          DEF ContainersSpec, IsDeque, Ring!DequeSpec, Ring!Deque!Spec
=============================================================================
