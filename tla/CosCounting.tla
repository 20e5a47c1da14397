----------------------------- MODULE CosCounting -----------------------------
(***************************************************************************)
(* Counting references: how many items of a sequence are in a set, and how *)
(* many places of the sequences of a table are.  The reference counts of   *)
(* the nodes are sums of both: the calls in progress are a sequence, the   *)
(* parts of the nodes a table.  Then induction over sets of numbers, and   *)
(* that a recursive definition defines a function.                         *)
(***************************************************************************)
EXTENDS Integers, Sequences, FiniteSetsExt, FiniteSetTheorems, SequenceTheorems, WellFoundedInduction, TLAPS

\* The items of s that are in P.
Hits(s, P) == {i \in DOMAIN s : s[i] \in P}

Count(s, P) == Cardinality(Hits(s, P))

\* The places of the table f in which there is an item in P, over the rows D.
Places(f, D, P) == UNION {{d} \X Hits(f[d], P) : d \in D}

CountIn(f, D, P) == Cardinality(Places(f, D, P))

\* A sequence has finitely many items.
LEMMA HitsFinite ==
    ASSUME NEW S, NEW s \in Seq(S), NEW P
    PROVE  IsFiniteSet(Hits(s, P)) /\ Count(s, P) \in Nat
  <1>1. IsFiniteSet(1 .. Len(s)) BY FS_Interval
  <1>2. Hits(s, P) \subseteq 1 .. Len(s) BY DEF Hits
  <1>3. IsFiniteSet(Hits(s, P)) BY <1>1, <1>2, FS_Subset
  <1> QED BY <1>3, FS_CardinalityType DEF Count

\* A set of integers that is moved has as many members as before.
LEMMA ShiftCardinality ==
    ASSUME NEW I \in SUBSET Int, IsFiniteSet(I), NEW k \in Int
    PROVE  /\ IsFiniteSet({i + k : i \in I})
           /\ Cardinality({i + k : i \in I}) = Cardinality(I)
  <1> DEFINE T == {i + k : i \in I}
             f == [i \in I |-> i + k]
  <1>1. f \in [I -> T] OBVIOUS
  <1>2. \A i, j \in I : f[i] = f[j] => i = j OBVIOUS
  <1>3. \A t \in T : \E i \in I : f[i] = t OBVIOUS
  <1> HIDE DEF f, T
  <1>4. f \in Bijection(I, T) BY <1>1, <1>2, <1>3 DEF Bijection, Injection, Surjection, IsInjective
  <1>5. ExistsBijection(I, T) BY <1>4 DEF ExistsBijection
  <1>6. IsFiniteSet(T) /\ Cardinality(T) = Cardinality(I) BY <1>5, FS_Bijection
  <1> QED BY <1>6 DEF T

\* No item of the empty sequence is in P.
LEMMA CountEmpty == ASSUME NEW P PROVE Count(<<>>, P) = 0
  <1>1. Hits(<<>>, P) = {} BY DEF Hits
  <1> QED BY <1>1, FS_EmptySet DEF Count

\* The one item of a sequence is in P or it is not.
LEMMA CountOne ==
    ASSUME NEW x, NEW P PROVE Count(<<x>>, P) = IF x \in P THEN 1 ELSE 0
  <1>1. Hits(<<x>>, P) = IF x \in P THEN {1} ELSE {} BY DEF Hits
  <1> QED BY <1>1, FS_EmptySet, FS_Singleton DEF Count

\* The items of a concatenation are those of both sequences.
LEMMA CountConcat ==
    ASSUME NEW S, NEW s \in Seq(S), NEW t \in Seq(S), NEW P
    PROVE  Count(s \o t, P) = Count(s, P) + Count(t, P)
  <1> DEFINE A == Hits(s, P)
             B == {i + Len(s) : i \in Hits(t, P)}
  <1>1. IsFiniteSet(A) /\ IsFiniteSet(Hits(t, P)) BY HitsFinite
  <1>2. Hits(t, P) \in SUBSET Int BY DEF Hits
  <1>3. IsFiniteSet(B) /\ Cardinality(B) = Count(t, P)
    <2>1. Len(s) \in Int OBVIOUS
    <2>2. IsFiniteSet({i + Len(s) : i \in Hits(t, P)})
          /\ Cardinality({i + Len(s) : i \in Hits(t, P)}) = Cardinality(Hits(t, P))
      BY ONLY <1>1, <1>2, <2>1, ShiftCardinality
    <2> QED BY ONLY <2>2 DEF Count
  <1>4. Hits(s \o t, P) = A \cup B
    <2>1. s \o t \in Seq(S) /\ DOMAIN (s \o t) = 1 .. Len(s) + Len(t) OBVIOUS
    <2>2. \A i \in 1 .. Len(s) + Len(t) :
              (s \o t)[i] = IF i <= Len(s) THEN s[i] ELSE t[i - Len(s)]
      BY ConcatProperties
    <2>3. ASSUME NEW i \in Hits(s \o t, P) PROVE i \in A \cup B
      <3>1. i \in 1 .. Len(s) + Len(t) /\ (s \o t)[i] \in P BY <2>1 DEF Hits
      <3>2. CASE i <= Len(s) BY <3>1, <3>2, <2>2 DEF Hits
      <3>3. CASE i > Len(s)
        <4>1. i - Len(s) \in Hits(t, P) BY <3>1, <3>3, <2>2 DEF Hits
        <4>2. i = (i - Len(s)) + Len(s) BY <3>1
        <4> QED BY <4>1, <4>2
      <3> QED BY <3>1, <3>2, <3>3
    <2>4. ASSUME NEW i \in A PROVE i \in Hits(s \o t, P) BY <2>1, <2>2 DEF Hits
    <2>5. ASSUME NEW j \in Hits(t, P) PROVE j + Len(s) \in Hits(s \o t, P)
      <3>1. j \in 1 .. Len(t) /\ t[j] \in P BY DEF Hits
      <3>2. j + Len(s) \in 1 .. Len(s) + Len(t) /\ ~(j + Len(s) <= Len(s))
            /\ (j + Len(s)) - Len(s) = j
        BY <3>1
      <3>3. (s \o t)[j + Len(s)] = t[j] BY <3>2, <2>2
      <3> QED BY <3>1, <3>2, <3>3, <2>1 DEF Hits
    <2> QED BY <2>3, <2>4, <2>5
  <1>5. A \cap B = {}
    <2>1. \A i \in A : i <= Len(s) BY DEF Hits
    <2>2. \A i \in B : i > Len(s) BY DEF Hits
    <2> QED BY <2>1, <2>2 DEF Hits
  <1> HIDE DEF A, B
  <1>6. Cardinality(A \cup B) = Cardinality(A) + Cardinality(B) - Cardinality({})
    BY <1>1, <1>3, <1>5, FS_Union
  <1>7. Cardinality(A) = Count(s, P) BY DEF A, Count
  <1>8. Count(s, P) \in Nat /\ Count(t, P) \in Nat BY HitsFinite
  <1> QED BY <1>3, <1>4, <1>6, <1>7, <1>8, FS_EmptySet DEF Count

\* The first item and the others.
LEMMA CountTail ==
    ASSUME NEW S, NEW s \in Seq(S), s # <<>>, NEW P
    PROVE  Count(s, P) = Count(Tail(s), P) + (IF Head(s) \in P THEN 1 ELSE 0)
  <1>1. Head(s) \in S /\ Tail(s) \in Seq(S) BY HeadTailProperties
  <1>2. <<Head(s)>> \in Seq(S) BY <1>1
  <1>3. s = <<Head(s)>> \o Tail(s) BY <1>1
  <1>4. Count(<<Head(s)>> \o Tail(s), P) = Count(<<Head(s)>>, P) + Count(Tail(s), P)
    BY <1>1, <1>2, CountConcat
  <1>5. Count(Tail(s), P) \in Nat BY <1>1, HitsFinite
  <1>6. Count(<<Head(s)>>, P) = IF Head(s) \in P THEN 1 ELSE 0 BY CountOne
  <1>7. Count(s, P) = Count(<<Head(s)>> \o Tail(s), P) BY <1>3, Zenon
  <1> QED BY ONLY <1>4, <1>5, <1>6, <1>7

\* One more item.
LEMMA CountAppend ==
    ASSUME NEW S, NEW s \in Seq(S), NEW x \in S, NEW P
    PROVE  Count(Append(s, x), P) = Count(s, P) + (IF x \in P THEN 1 ELSE 0)
  <1>1. Append(s, x) = s \o <<x>> /\ <<x>> \in Seq(S) OBVIOUS
  <1>2. Count(s \o <<x>>, P) = Count(s, P) + Count(<<x>>, P) BY <1>1, CountConcat
  <1>3. Count(<<x>>, P) = IF x \in P THEN 1 ELSE 0 BY CountOne
  <1> QED BY ONLY <1>1, <1>2, <1>3

\* The item i is taken out and the gap closed.
LEMMA CountRemoved ==
    ASSUME NEW S, NEW s \in Seq(S), NEW i \in DOMAIN s, NEW P
    PROVE  Count(SubSeq(s, 1, i - 1) \o SubSeq(s, i + 1, Len(s)), P)
               = Count(s, P) - (IF s[i] \in P THEN 1 ELSE 0)
  <1> DEFINE a == SubSeq(s, 1, i - 1)
             b == SubSeq(s, i + 1, Len(s))
  <1>1. i \in 1 .. Len(s) /\ Len(s) \in Nat /\ s[i] \in S OBVIOUS
  <1>2. a \in Seq(S) /\ b \in Seq(S) BY <1>1
  <1>3. <<s[i]>> \in Seq(S) /\ <<s[i]>> \o b \in Seq(S) BY <1>1, <1>2
  <1>4. <<s[i]>> \o b = SubSeq(s, i, Len(s))
    <2>1. Len(s) \in i .. Len(s) BY <1>1
    <2>2. SubSeq(s, i, Len(s)) = <<s[i]>> \o SubSeq(s, i + 1, Len(s))
      BY ONLY <1>1, <2>1, s \in Seq(S), SubSeqRecursiveFirst
    <2> QED BY ONLY <2>2
  <1>5. a \o SubSeq(s, i, Len(s)) = SubSeq(s, 1, Len(s))
    <2> DEFINE k == i - 1
    <2>1. 1 \in 1 .. Len(s) + 1 /\ k \in 1 - 1 .. Len(s) /\ Len(s) \in k .. Len(s) /\ k + 1 = i
      BY <1>1
    <2> HIDE DEF k
    <2>2. \A m \in 1 .. Len(s) + 1 : \A j \in m - 1 .. Len(s) : \A n \in j .. Len(s) :
              SubSeq(s, m, j) \o SubSeq(s, j + 1, n) = SubSeq(s, m, n)
      BY ConcatAdjacentSubSeq
    <2>3. SubSeq(s, 1, k) \o SubSeq(s, k + 1, Len(s)) = SubSeq(s, 1, Len(s))
      BY ONLY <2>1, <2>2
    <2> QED BY <2>1, <2>3 DEF k
  <1>6. s = a \o (<<s[i]>> \o b) BY <1>4, <1>5, SubSeqFull
  <1> HIDE DEF a, b
  <1>7. Count(a \o (<<s[i]>> \o b), P) = Count(a, P) + Count(<<s[i]>> \o b, P)
    BY ZenonT(30), <1>2, <1>3, CountConcat
  <1>8. Count(<<s[i]>> \o b, P) = Count(<<s[i]>>, P) + Count(b, P)
    BY <1>2, <1>3, CountConcat
  <1>9. Count(a \o b, P) = Count(a, P) + Count(b, P) BY <1>2, CountConcat
  <1>10. Count(a, P) \in Nat /\ Count(b, P) \in Nat BY <1>2, HitsFinite
  <1>11. Count(s, P) = Count(a, P) + ((IF s[i] \in P THEN 1 ELSE 0) + Count(b, P))
    BY <1>6, <1>7, <1>8, CountOne
  <1>12. Count(a \o b, P) = Count(s, P) - (IF s[i] \in P THEN 1 ELSE 0)
    BY <1>9, <1>10, <1>11
  <1> QED BY <1>12 DEF a, b

\* A table with finitely many entries.
LEMMA EntriesFinite ==
    ASSUME NEW f, IsFiniteSet(DOMAIN f), NEW P
    PROVE  IsFiniteSet(Hits(f, P)) /\ Count(f, P) \in Nat
  <1>1. Hits(f, P) \subseteq DOMAIN f BY DEF Hits
  <1>2. IsFiniteSet(Hits(f, P)) BY <1>1, FS_Subset
  <1> QED BY <1>2, FS_CardinalityType DEF Count

\* The entry i becomes x.
LEMMA EntryReplaced ==
    ASSUME NEW f, IsFiniteSet(DOMAIN f), NEW i \in DOMAIN f, NEW x, NEW g,
           DOMAIN g = DOMAIN f, g[i] = x, \A d \in DOMAIN f : d # i => g[d] = f[d], NEW P
    PROVE  Count(g, P) = Count(f, P) - (IF f[i] \in P THEN 1 ELSE 0) + (IF x \in P THEN 1 ELSE 0)
  <1> DEFINE I == Hits(f, P) \ {i}
  <1>1. IsFiniteSet(Hits(f, P)) /\ Count(f, P) \in Nat BY EntriesFinite
  <1>2. IsFiniteSet(I)
        /\ Cardinality(I) = Count(f, P) - (IF f[i] \in P THEN 1 ELSE 0)
    <2>1. i \in Hits(f, P) <=> f[i] \in P BY DEF Hits
    <2> QED BY <1>1, <2>1, FS_RemoveElement DEF Count
  <1>3. Hits(g, P) = IF x \in P THEN I \cup {i} ELSE I BY DEF Hits
  <1>4. i \notin I OBVIOUS
  <1> HIDE DEF I
  <1>5. Cardinality(I \cup {i}) = Cardinality(I) + 1 BY <1>2, <1>4, FS_AddElement
  <1> QED BY <1>1, <1>2, <1>3, <1>5 DEF Count

\* q is s with its first item replaced by those of d: where they go, and where
\* the others went.
TopGivesWay(S, s, d, q) ==
    /\ 1 \in DOMAIN s /\ Head(s) = s[1] /\ s[1] \in S /\ q \in Seq(S)
    /\ \A i \in DOMAIN q :
           \/ i \in DOMAIN d /\ q[i] = d[i]
           \/ \E j \in DOMAIN s : j # 1 /\ q[i] = s[j] /\ i = j + Len(d) - 1
    /\ \A i \in DOMAIN d : i \in DOMAIN q /\ q[i] = d[i]
    /\ \A j \in DOMAIN s : j # 1 => \E i \in DOMAIN q : q[i] = s[j]
    /\ \A P : Count(q, P) = Count(d, P) + Count(s, P) - (IF Head(s) \in P THEN 1 ELSE 0)

\* The top of a stack is replaced.
LEMMA TopReplaced ==
    ASSUME NEW S, NEW s \in Seq(S), s # <<>>, NEW d \in Seq(S), NEW q, q = d \o Tail(s)
    PROVE  TopGivesWay(S, s, d, q)
  <1> DEFINE t == Tail(s)
             L == Len(d)
  <1>1. 1 \in DOMAIN s /\ Head(s) = s[1] /\ s[1] \in S OBVIOUS
  <1>2. t \in Seq(S) BY HeadTailProperties
  <1>3. \A i \in DOMAIN t : i + 1 \in DOMAIN s /\ t[i] = s[i + 1] OBVIOUS
  <1>4. \A j \in DOMAIN s : j # 1 => j - 1 \in DOMAIN t /\ t[j - 1] = s[j] /\ j \in Nat OBVIOUS
  <1>5. L \in Nat /\ DOMAIN d = 1 .. L OBVIOUS
  <1>6. \A P : Count(s, P) = Count(t, P) + (IF Head(s) \in P THEN 1 ELSE 0)
    <2> TAKE P
    <2> QED BY CountTail
  <1> HIDE DEF t
  <1>7. q = d \o t BY DEF t
  <1>8. /\ q \in Seq(S) /\ Len(q) = Len(d) + Len(t)
        /\ \A i \in 1 .. Len(d) + Len(t) : q[i] = IF i <= Len(d) THEN d[i] ELSE t[i - Len(d)]
    BY ONLY <1>2, <1>7, d \in Seq(S), ConcatProperties
  <1>9. Len(t) \in Nat /\ DOMAIN t = 1 .. Len(t) /\ DOMAIN q = 1 .. L + Len(t) BY <1>2, <1>8
  <1> HIDE DEF L
  <1>10. ASSUME NEW i \in DOMAIN q
         PROVE  \/ i \in DOMAIN d /\ q[i] = d[i]
                \/ \E j \in DOMAIN s : j # 1 /\ q[i] = s[j] /\ i = j + L - 1
    <2>1. q[i] = IF i <= L THEN d[i] ELSE t[i - L] BY ONLY <1>8, <1>9, i \in DOMAIN q DEF L
    <2>2. i \in Int /\ i >= 1 BY ONLY <1>5, <1>9, i \in DOMAIN q
    <2>3. CASE i <= L BY ONLY <1>5, <2>1, <2>2, <2>3
    <2>4. CASE ~(i <= L)
      <3> DEFINE j == i - L
      <3>1. j \in DOMAIN t /\ q[i] = t[j] /\ j + 1 # 1 /\ i = (j + 1) + L - 1
        BY ONLY <1>5, <1>9, <2>1, <2>2, <2>4, i \in DOMAIN q
      <3> HIDE DEF j
      <3>2. j + 1 \in DOMAIN s /\ t[j] = s[j + 1] BY <1>3, <3>1
      <3> QED BY ONLY <3>1, <3>2
    <2> QED BY <2>3, <2>4
  <1>11. ASSUME NEW i \in DOMAIN d PROVE i \in DOMAIN q /\ q[i] = d[i]
    <2>1. i \in 1 .. L + Len(t) /\ i <= L BY ONLY <1>5, <1>9, i \in DOMAIN d
    <2> QED BY ONLY <2>1, <1>8, <1>9 DEF L
  <1>12. ASSUME NEW j \in DOMAIN s, j # 1 PROVE \E i \in DOMAIN q : q[i] = s[j]
    <2>1. j - 1 \in DOMAIN t /\ t[j - 1] = s[j] /\ j \in Nat BY <1>4, <1>12
    <2> DEFINE i == (j - 1) + L
    <2>2. i \in 1 .. L + Len(t) /\ ~(i <= L) /\ i - L = j - 1 BY ONLY <2>1, <1>5, <1>9
    <2> HIDE DEF i
    <2>3. q[i] = t[j - 1] BY ONLY <2>2, <1>8 DEF L
    <2> QED BY ONLY <2>1, <2>2, <2>3, <1>9
  <1>13. ASSUME NEW P
         PROVE  Count(q, P) = Count(d, P) + Count(s, P) - (IF Head(s) \in P THEN 1 ELSE 0)
    <2>1. Count(d \o t, P) = Count(d, P) + Count(t, P) BY ONLY <1>2, d \in Seq(S), CountConcat
    <2>2. Count(d, P) \in Nat /\ Count(t, P) \in Nat BY <1>2, HitsFinite
    <2>3. Count(s, P) = Count(t, P) + (IF Head(s) \in P THEN 1 ELSE 0) BY <1>6
    <2> QED BY ONLY <2>1, <2>2, <2>3, <1>7
  <1> QED BY ONLY <1>1, <1>8, <1>10, <1>11, <1>12, <1>13 DEF L, TopGivesWay

\* There is an item in P if and only if their number is not zero.
LEMMA CountPositive ==
    ASSUME NEW S, NEW s \in Seq(S), NEW P
    PROVE  Count(s, P) > 0 <=> \E i \in DOMAIN s : s[i] \in P
  <1>1. IsFiniteSet(Hits(s, P)) /\ Count(s, P) \in Nat BY HitsFinite
  <1>2. Count(s, P) = 0 <=> Hits(s, P) = {} BY <1>1, FS_EmptySet DEF Count
  <1> QED BY <1>1, <1>2 DEF Hits

-----------------------------------------------------------------------------
\* Finitely many sequences have finitely many items.
LEMMA PlacesFinite ==
    ASSUME NEW S, NEW D, IsFiniteSet(D), NEW f, \A d \in D : f[d] \in Seq(S), NEW P
    PROVE  IsFiniteSet(Places(f, D, P)) /\ CountIn(f, D, P) \in Nat
  <1> DEFINE row == [d \in D |-> {d} \X Hits(f[d], P)]
             Rows == {{d} \X Hits(f[d], P) : d \in D}
  <1>1. row \in Surjection(D, Rows) BY DEF Surjection
  <1>2. \A T \in Rows : IsFiniteSet(T)
    <2> SUFFICES ASSUME NEW d \in D PROVE IsFiniteSet({d} \X Hits(f[d], P)) OBVIOUS
    <2>1. IsFiniteSet({d}) BY FS_Singleton
    <2>2. IsFiniteSet(Hits(f[d], P)) BY HitsFinite
    <2> QED BY <2>1, <2>2, FS_Product
  <1> HIDE DEF row, Rows
  <1>3. IsFiniteSet(Rows) BY <1>1, FS_Surjection
  <1>4. IsFiniteSet(UNION Rows) BY <1>2, <1>3, FS_UNION
  <1>5. IsFiniteSet(Places(f, D, P)) BY <1>4 DEF Rows, Places
  <1> QED BY <1>5, FS_CardinalityType DEF CountIn

\* One row and the others.
LEMMA CountRow ==
    ASSUME NEW S, NEW D, IsFiniteSet(D), NEW f, \A d \in D : f[d] \in Seq(S), NEW P,
           NEW r \in D
    PROVE  CountIn(f, D, P) = CountIn(f, D \ {r}, P) + Count(f[r], P)
  <1> DEFINE A == Places(f, D \ {r}, P)
             B == {r} \X Hits(f[r], P)
  <1>1. IsFiniteSet(D \ {r}) BY FS_RemoveElement
  <1>2. IsFiniteSet(A) /\ CountIn(f, D \ {r}, P) \in Nat BY <1>1, PlacesFinite
  <1>3. IsFiniteSet(Hits(f[r], P)) /\ Count(f[r], P) \in Nat BY HitsFinite
  <1>4. IsFiniteSet({r}) /\ Cardinality({r}) = 1 BY FS_Singleton
  <1>5. IsFiniteSet(B) /\ Cardinality(B) = 1 * Count(f[r], P)
    BY <1>3, <1>4, FS_Product DEF Count
  <1>6. Places(f, D, P) = A \cup B BY DEF Places
  <1>7. A \cap B = {} BY DEF Places
  <1> HIDE DEF A, B
  <1>8. Cardinality(A \cup B) = Cardinality(A) + Cardinality(B) - Cardinality({})
    BY <1>2, <1>5, <1>7, FS_Union
  <1>9. Cardinality(A) = CountIn(f, D \ {r}, P) BY DEF A, CountIn
  <1> QED BY <1>2, <1>3, <1>5, <1>6, <1>8, <1>9, FS_EmptySet DEF CountIn

\* Only the rows that are counted matter.
LEMMA CountSame ==
    ASSUME NEW D, NEW f, NEW g, \A d \in D : f[d] = g[d], NEW P
    PROVE  CountIn(f, D, P) = CountIn(g, D, P)
  <1>1. Places(f, D, P) = Places(g, D, P) BY DEF Places
  <1> QED BY <1>1 DEF CountIn

\* There is an item in P in some row if and only if their number is not zero.
LEMMA CountInPositive ==
    ASSUME NEW S, NEW D, IsFiniteSet(D), NEW f, \A d \in D : f[d] \in Seq(S), NEW P
    PROVE  CountIn(f, D, P) > 0 <=> \E d \in D : \E i \in DOMAIN f[d] : f[d][i] \in P
  <1>1. IsFiniteSet(Places(f, D, P)) /\ CountIn(f, D, P) \in Nat BY PlacesFinite
  <1>2. CountIn(f, D, P) = 0 <=> Places(f, D, P) = {} BY <1>1, FS_EmptySet DEF CountIn
  <1>3. Places(f, D, P) # {} <=> \E d \in D : \E i \in DOMAIN f[d] : f[d][i] \in P
    <2>1. ASSUME Places(f, D, P) # {} PROVE \E d \in D : \E i \in DOMAIN f[d] : f[d][i] \in P
      <3>1. PICK p : p \in Places(f, D, P) BY <2>1
      <3>2. PICK d \in D : p \in {d} \X Hits(f[d], P) BY <3>1 DEF Places
      <3>3. p[2] \in Hits(f[d], P) BY <3>2
      <3> QED BY <3>3 DEF Hits
    <2>2. ASSUME NEW d \in D, NEW i \in DOMAIN f[d], f[d][i] \in P PROVE Places(f, D, P) # {}
      <3>1. <<d, i>> \in {d} \X Hits(f[d], P) BY <2>2 DEF Hits
      <3> QED BY <3>1 DEF Places
    <2> QED BY <2>1, <2>2
  <1> QED BY <1>1, <1>2, <1>3

\* One row is replaced, joins or leaves.
LEMMA CountRowChanged ==
    ASSUME NEW S, NEW D, IsFiniteSet(D), NEW f, \A d \in D : f[d] \in Seq(S),
           NEW E, IsFiniteSet(E), NEW g, \A d \in E : g[d] \in Seq(S),
           NEW r, D \ {r} = E \ {r}, \A d \in D \ {r} : f[d] = g[d], NEW P
    PROVE  CountIn(g, E, P) = CountIn(f, D, P)
               - (IF r \in D THEN Count(f[r], P) ELSE 0)
               + (IF r \in E THEN Count(g[r], P) ELSE 0)
  <1>1. CountIn(f, D \ {r}, P) = CountIn(g, E \ {r}, P) BY CountSame
  <1>2. IsFiniteSet(D \ {r}) BY FS_RemoveElement
  <1>3. CountIn(f, D \ {r}, P) \in Nat BY <1>2, PlacesFinite
  <1>4. CountIn(f, D, P) = CountIn(f, D \ {r}, P) + (IF r \in D THEN Count(f[r], P) ELSE 0)
    <2>1. CASE r \in D
      <3>1. CountIn(f, D, P) = CountIn(f, D \ {r}, P) + Count(f[r], P)
        BY ONLY <2>1, IsFiniteSet(D), \A d \in D : f[d] \in Seq(S), CountRow
      <3> QED BY <2>1, <3>1
    <2>2. CASE r \notin D
      <3>1. CountIn(f, D \ {r}, P) = CountIn(f, D, P)
        <4>1. D \ {r} = D BY <2>2
        <4> QED BY <4>1, Zenon
      <3> QED BY ONLY <2>2, <3>1, <1>3
    <2> QED BY <2>1, <2>2
  <1>5. CountIn(g, E, P) = CountIn(g, E \ {r}, P) + (IF r \in E THEN Count(g[r], P) ELSE 0)
    <2>1. CASE r \in E
      <3>1. CountIn(g, E, P) = CountIn(g, E \ {r}, P) + Count(g[r], P)
        BY ONLY <2>1, IsFiniteSet(E), \A d \in E : g[d] \in Seq(S), CountRow
      <3> QED BY <2>1, <3>1
    <2>2. CASE r \notin E
      <3>1. CountIn(g, E \ {r}, P) = CountIn(g, E, P)
        <4>1. E \ {r} = E BY <2>2
        <4> QED BY <4>1, Zenon
      <3> QED BY ONLY <2>2, <3>1, <1>3, <1>1
    <2> QED BY <2>1, <2>2
  <1>6. (r \in D => Count(f[r], P) \in Nat) /\ (r \in E => Count(g[r], P) \in Nat)
    BY HitsFinite
  <1> QED BY <1>1, <1>3, <1>4, <1>5, <1>6

-----------------------------------------------------------------------------
(* Induction.  The theorem of the library that has an operator for the     *)
(* property is out of the provers' reach; a set of numbers does as well.   *)

\* A set of numbers has a least one.
LEMMA Least ==
    ASSUME NEW T \in SUBSET Nat, T # {}
    PROVE  \E m \in T : \A k \in T : m <= k
  <1>1. IsWellFoundedOn(OpToRel(<, Nat), Nat) BY NatLessThanWellFounded
  <1>2. \A k, m \in Nat : <<k, m>> \in OpToRel(<, Nat) <=> k < m BY DEF OpToRel
  <1>3. PICK R : R = OpToRel(<, Nat) OBVIOUS
  <1>4. IsWellFoundedOn(R, Nat) BY ONLY <1>1, <1>3, Zenon
  <1>5. \A k, m \in Nat : <<k, m>> \in R <=> k < m BY ONLY <1>2, <1>3, Zenon
  <1>6. T \subseteq Nat OBVIOUS
  <1>7. \E x \in T : \A y \in T : ~ (<<y, x>> \in R)
    BY ONLY <1>4, <1>6, T # {}, WFMin
  <1>8. PICK m \in T : \A y \in T : ~ (<<y, m>> \in R) BY ONLY <1>7
  <1>9. \A k \in T : ~ (k < m) BY ONLY <1>5, <1>6, <1>8
  <1> QED BY ONLY <1>6, <1>9

\* A set of numbers that has zero, and with each number the next, has all.
LEMMA Induction ==
    ASSUME NEW S, 0 \in S, \A n \in Nat : n \in S => n + 1 \in S
    PROVE  \A n \in Nat : n \in S
  <1> SUFFICES ASSUME Nat \ S # {} PROVE FALSE OBVIOUS
  <1>1. PICK m \in Nat \ S : \A k \in Nat \ S : m <= k BY Least
  <1>2. m # 0 /\ m - 1 \in Nat OBVIOUS
  <1>3. m - 1 \in S BY <1>1, <1>2
  <1> QED BY <1>2, <1>3

\* A recursive definition: the value at 0 is v0, the one at i a step from the
\* one at h[i].
IsRecursion(V, v0, h, step) ==
    /\ v0 \in V
    /\ h \in [Nat -> Nat] /\ \A n \in Nat \ {0} : h[n] < n
    /\ step \in [Nat \X V -> V]

\* What obeys it up to n.
Obeys(g, n, V, v0, h, step) ==
    /\ g \in [0 .. n -> V]
    /\ \A i \in 0 .. n : g[i] = IF i = 0 THEN v0 ELSE step[<<i, g[h[i]]>>]

\* Two functions that obey a recursive definition agree where both are defined.
LEMMA ObeysUnique ==
    ASSUME NEW V, NEW v0, NEW h, NEW step, IsRecursion(V, v0, h, step),
           NEW m \in Nat, NEW n \in Nat, NEW f, NEW g,
           Obeys(f, m, V, v0, h, step), Obeys(g, n, V, v0, h, step)
    PROVE  \A i \in Nat : i <= m /\ i <= n => f[i] = g[i]
  <1> DEFINE T == {i \in Nat : i <= m /\ i <= n /\ f[i] # g[i]}
  <1> SUFFICES ASSUME T # {} PROVE FALSE OBVIOUS
  <1>1. T \in SUBSET Nat OBVIOUS
  <1>2. PICK i \in T : \A k \in T : i <= k BY ONLY <1>1, T # {}, Least
  <1>3. i \in Nat /\ i <= m /\ i <= n /\ f[i] # g[i] BY <1>2
  <1>0. i \in 0 .. m /\ i \in 0 .. n BY <1>3
  <1>a. /\ f[i] = IF i = 0 THEN v0 ELSE step[<<i, f[h[i]]>>]
        /\ g[i] = IF i = 0 THEN v0 ELSE step[<<i, g[h[i]]>>]
    BY ONLY <1>0, Obeys(f, m, V, v0, h, step), Obeys(g, n, V, v0, h, step) DEF Obeys
  <1>4. i # 0 BY ONLY <1>3, <1>a
  <1>5. h[i] \in Nat /\ h[i] < i BY <1>3, <1>4 DEF IsRecursion
  <1>6. f[h[i]] = g[h[i]] BY <1>2, <1>3, <1>5
  <1>7. f[i] = step[<<i, f[h[i]]>>] /\ g[i] = step[<<i, g[h[i]]>>] BY ONLY <1>4, <1>a
  <1> QED BY ONLY <1>3, <1>6, <1>7

\* A recursive definition defines a function.
LEMMA Recursion ==
    ASSUME NEW V, NEW v0, NEW h, NEW step, IsRecursion(V, v0, h, step)
    PROVE  \E f \in [Nat -> V] :
               f = [n \in Nat |-> IF n = 0 THEN v0 ELSE step[<<n, f[h[n]]>>]]
  <1> DEFINE Ob(g, n) == Obeys(g, n, V, v0, h, step)
             S == {n \in Nat : \E g : Ob(g, n)}
             G(n) == CHOOSE g : Ob(g, n)
             f == [n \in Nat |-> G(n)[n]]
  <1>0. /\ v0 \in V
        /\ h \in [Nat -> Nat] /\ \A n \in Nat \ {0} : h[n] < n
        /\ step \in [Nat \X V -> V]
    BY DEF IsRecursion
  <1>1. 0 \in S
    <2>1. Ob([i \in 0 .. 0 |-> v0], 0) BY <1>0 DEF Obeys
    <2> QED BY <2>1
  <1>2. ASSUME NEW n \in Nat, n \in S PROVE n + 1 \in S
    <2>1. PICK g : Ob(g, n) BY <1>2
    <2> DEFINE e == [i \in 0 .. n + 1 |-> IF i <= n THEN g[i] ELSE step[<<n + 1, g[h[n + 1]]>>]]
    <2>2. h[n + 1] \in 0 .. n /\ n + 1 # 0
      <3>1. n + 1 \in Nat \ {0} OBVIOUS
      <3>2. h[n + 1] \in Nat /\ h[n + 1] < n + 1 BY <1>0, <3>1
      <3> QED BY <3>2
    <2>3. g[h[n + 1]] \in V BY <2>1, <2>2 DEF Obeys
    <2>4. step[<<n + 1, g[h[n + 1]]>>] \in V BY <1>0, <2>3
    <2>5. e \in [0 .. n + 1 -> V] BY <2>1, <2>4 DEF Obeys
    <2>6. ASSUME NEW i \in 0 .. n + 1
          PROVE  e[i] = IF i = 0 THEN v0 ELSE step[<<i, e[h[i]]>>]
      <3>1. CASE i = 0
        <4>1. e[0] = g[0] OBVIOUS
        <4>2. 0 \in 0 .. n OBVIOUS
        <4>3. g[0] = v0 BY ONLY <2>1, <4>2 DEF Obeys
        <4> QED BY ONLY <3>1, <4>1, <4>3
      <3>2. CASE i # 0 /\ i <= n
        <4>1. h[i] \in Nat /\ h[i] < i BY <1>0, <3>2
        <4>2. e[h[i]] = g[h[i]] /\ e[i] = g[i] BY <3>2, <4>1
        <4>3. g[i] = step[<<i, g[h[i]]>>] BY <2>1, <3>2 DEF Obeys
        <4> QED BY ONLY <3>2, <4>2, <4>3
      <3>3. CASE i = n + 1
        <4>1. e[h[i]] = g[h[i]] BY <2>2, <3>3
        <4>2. e[i] = step[<<n + 1, g[h[n + 1]]>>] BY <3>3
        <4> QED BY ONLY <2>2, <3>3, <4>1, <4>2
      <3> QED BY <3>1, <3>2, <3>3
    <2>7. Ob(e, n + 1) BY ONLY <2>5, <2>6 DEF Obeys
    <2> QED BY <2>7
  <1>3. \A n \in Nat : n \in S
    <2> HIDE DEF S
    <2> QED BY ONLY <1>1, <1>2, Induction
  <1>4. \A n \in Nat : Ob(G(n), n) BY <1>3
  <1>b. ASSUME NEW n \in Nat
        PROVE  /\ G(n)[n] \in V
               /\ G(n)[n] = IF n = 0 THEN v0 ELSE step[<<n, G(n)[h[n]]>>]
    <2>1. PICK g : g = G(n) OBVIOUS
    <2>2. Ob(g, n) BY <1>4, <2>1
    <2>3. n \in 0 .. n OBVIOUS
    <2>4. g[n] \in V /\ g[n] = IF n = 0 THEN v0 ELSE step[<<n, g[h[n]]>>]
      BY ONLY <2>2, <2>3 DEF Obeys
    <2> QED BY ONLY <2>1, <2>4
  <1>5. f \in [Nat -> V]
    <2> HIDE DEF G
    <2> QED BY <1>b
  <1>6. ASSUME NEW n \in Nat PROVE f[n] = IF n = 0 THEN v0 ELSE step[<<n, f[h[n]]>>]
    <2>1. f[n] = G(n)[n] BY <1>6
    <2>2. G(n)[n] = IF n = 0 THEN v0 ELSE step[<<n, G(n)[h[n]]>>] BY <1>b
    <2>3. CASE n = 0 BY <2>1, <2>2, <2>3
    <2>4. CASE n # 0
      <3>1. h[n] \in Nat /\ h[n] < n BY <1>0, <2>4
      <3>2. \A i \in Nat : i <= n /\ i <= h[n] => G(n)[i] = G(h[n])[i]
        <4>1. PICK p : p = G(n) OBVIOUS
        <4>2. PICK q : q = G(h[n]) OBVIOUS
        <4>3. Obeys(p, n, V, v0, h, step) /\ Obeys(q, h[n], V, v0, h, step)
          BY <1>4, <3>1, <4>1, <4>2
        <4>4. PICK k : k = h[n] OBVIOUS
        <4>5. k \in Nat /\ Obeys(q, k, V, v0, h, step) BY ONLY <3>1, <4>3, <4>4
        <4>6. \A i \in Nat : i <= n /\ i <= k => p[i] = q[i]
          BY ONLY <4>3, <4>5, ObeysUnique, IsRecursion(V, v0, h, step), n \in Nat
        <4> QED BY ONLY <4>1, <4>2, <4>4, <4>6
      <3>3. G(n)[h[n]] = G(h[n])[h[n]]
        <4> HIDE DEF G
        <4>1. h[n] <= n /\ h[n] <= h[n] BY ONLY <3>1, n \in Nat
        <4> QED BY ONLY <3>1, <3>2, <4>1
      <3>4. f[h[n]] = G(h[n])[h[n]] BY <3>1
      <3> QED BY ONLY <2>1, <2>2, <2>4, <3>3, <3>4
    <2> QED BY <2>3, <2>4
  <1> HIDE DEF f
  <1>7. f = [n \in Nat |-> IF n = 0 THEN v0 ELSE step[<<n, f[h[n]]>>]] BY ONLY <1>5, <1>6
  <1> QED BY <1>5, <1>7

-----------------------------------------------------------------------------
(* Folds over the indices 1 .. N from the highest on: the definition of a   *)
(* fold recurs over the sets of indices.                                    *)

\* max is the highest of every set of indices.
IsHighest(max, N) ==
    \A s \in SUBSET (1 .. N) : s # {} => max[s] \in s /\ \A i \in s : i <= max[s]

IsFoldOf(f, N, v0, step, max) ==
    f = [s \in SUBSET (1 .. N) |-> IF s = {} THEN v0 ELSE step[<<max[s], f[s \ {max[s]}]>>]]

\* Without its highest, a set of indices up to n + 1 is one up to n.
LEMMA WithoutHighest ==
    ASSUME NEW N \in Nat, NEW max, IsHighest(max, N), NEW n \in Nat,
           NEW s \in SUBSET (1 .. N), s # {}, s \subseteq 1 .. n + 1
    PROVE  s \ {max[s]} \subseteq 1 .. n /\ s \ {max[s]} \in SUBSET (1 .. N)
  <1>1. max[s] \in s /\ \A i \in s : i <= max[s] BY DEF IsHighest
  <1>2. max[s] \in 1 .. n + 1 BY <1>1
  <1>3. ASSUME NEW i \in s \ {max[s]} PROVE i \in 1 .. n
    <2>1. i \in 1 .. n + 1 /\ i <= max[s] /\ i # max[s] BY <1>1, <1>3
    <2> QED BY <1>2, <2>1
  <1> QED BY <1>3

\* A fold is defined, and its values are those of its steps.
LEMMA FoldDefined ==
    ASSUME NEW N \in Nat, NEW V, NEW v0 \in V, NEW step \in [(1 .. N) \X V -> V],
           NEW max, IsHighest(max, N)
    PROVE  \E f \in [SUBSET (1 .. N) -> V] : IsFoldOf(f, N, v0, step, max)
  <1> DEFINE D == SUBSET (1 .. N)
             W == [D -> V]
             Once(G) == [s \in D |-> IF s = {} THEN v0 ELSE step[<<max[s], G[s \ {max[s]}]>>]]
             w0 == [s \in D |-> v0]
             h == [n \in Nat |-> IF n = 0 THEN 0 ELSE n - 1]
             next == [p \in Nat \X W |-> Once(p[2])]
  <1>1. ASSUME NEW s \in D, s # {} PROVE max[s] \in 1 .. N /\ s \ {max[s]} \in D
    BY <1>1 DEF IsHighest
  <1>2. ASSUME NEW G \in W PROVE Once(G) \in W
    <2>1. ASSUME NEW s \in D
          PROVE  (IF s = {} THEN v0 ELSE step[<<max[s], G[s \ {max[s]}]>>]) \in V
      <3>1. CASE s = {} BY <3>1
      <3>2. CASE s # {}
        <4>1. G[s \ {max[s]}] \in V BY <1>1, <3>2
        <4>2. <<max[s], G[s \ {max[s]}]>> \in (1 .. N) \X V BY <1>1, <3>2, <4>1
        <4> QED BY <3>2, <4>2
      <3> QED BY <3>1, <3>2
    <2> QED BY <2>1
  <1>3. w0 \in W OBVIOUS
  <1>4. \A G \in W, n \in Nat : next[<<n, G>>] = Once(G)
    <2> HIDE DEF Once, W
    <2> QED OBVIOUS
  <1>5. next \in [Nat \X W -> W]
    <2> HIDE DEF Once, W
    <2> QED BY <1>2
  <1>6. h \in [Nat -> Nat] /\ \A n \in Nat \ {0} : h[n] < n OBVIOUS
  <1>7. \A n \in Nat : n + 1 # 0 /\ n + 1 \in Nat /\ h[n + 1] = n OBVIOUS
  <1> HIDE DEF next, W, h, w0
  <1>8. IsRecursion(W, w0, h, next) BY <1>3, <1>5, <1>6 DEF IsRecursion
  <1>9. PICK F \in [Nat -> W] : F = [n \in Nat |-> IF n = 0 THEN w0 ELSE next[<<n, F[h[n]]>>]]
    BY ONLY <1>8, Recursion
  <1>10. ASSUME NEW n \in Nat PROVE F[n] \in W /\ F[n + 1] = Once(F[n])
    <2>1. F[n] \in W OBVIOUS
    <2>2. F[n + 1] = next[<<n + 1, F[n]>>]
      <3>1. F[n + 1] = IF n + 1 = 0 THEN w0 ELSE next[<<n + 1, F[h[n + 1]]>>] BY ONLY <1>7, <1>9
      <3> QED BY ONLY <3>1, <1>7
    <2>3. next[<<n + 1, F[n]>>] = Once(F[n])
      <3> HIDE DEF Once
      <3> QED BY ONLY <1>4, <1>7, <2>1
    <2> QED BY ONLY <2>1, <2>2, <2>3
  <1>11. F[0] = w0 BY <1>9
  <1> DEFINE S == {n \in Nat : \A s \in D : s \subseteq 1 .. n => F[n][s] = F[n + 1][s]}
  <1>12. 0 \in S
    <2>1. ASSUME NEW s \in D, s \subseteq 1 .. 0 PROVE F[0][s] = F[0 + 1][s]
      <3>1. s = {} BY <2>1
      <3>2. F[0][s] = v0 BY <1>11 DEF w0
      <3>3. F[0 + 1] = Once(F[0]) BY <1>10
      <3>4. Once(F[0])[s] = v0 BY <3>1
      <3> QED BY ONLY <3>2, <3>3, <3>4
    <2> QED BY <2>1
  <1>13. ASSUME NEW n \in Nat, n \in S PROVE n + 1 \in S
    <2>1. ASSUME NEW s \in D, s \subseteq 1 .. n + 1
          PROVE  F[n + 1][s] = F[(n + 1) + 1][s]
      <3>1. F[n + 1] = Once(F[n]) /\ F[(n + 1) + 1] = Once(F[n + 1])
        <4> HIDE DEF Once
        <4>1. n + 1 \in Nat OBVIOUS
        <4> QED BY ONLY <1>10, <4>1, n \in Nat
      <3>2. CASE s = {}
        <4>1. Once(F[n])[s] = v0 /\ Once(F[n + 1])[s] = v0 BY <3>2
        <4> QED BY ONLY <3>1, <4>1
      <3>3. CASE s # {}
        <4>1. s \ {max[s]} \subseteq 1 .. n /\ s \ {max[s]} \in D
          BY ONLY <3>3, <2>1, n \in Nat, N \in Nat, s \in D, IsHighest(max, N), WithoutHighest
        <4>2. F[n][s \ {max[s]}] = F[n + 1][s \ {max[s]}] BY <1>13, <4>1
        <4>3. /\ Once(F[n])[s] = step[<<max[s], F[n][s \ {max[s]}]>>]
              /\ Once(F[n + 1])[s] = step[<<max[s], F[n + 1][s \ {max[s]}]>>]
          BY <3>3
        <4> HIDE DEF Once
        <4> QED BY ONLY <3>1, <4>2, <4>3
      <3> QED BY ONLY <3>2, <3>3
    <2> QED BY <2>1
  <1>14. \A n \in Nat : n \in S
    <2> HIDE DEF S
    <2> QED BY ONLY <1>12, <1>13, Induction
  <1>15. F[N] \in W /\ F[N + 1] = Once(F[N]) BY <1>10
  <1>16. \A s \in D : F[N][s] = F[N + 1][s] BY <1>14
  <1>17. \A s \in D : F[N][s] = IF s = {} THEN v0 ELSE step[<<max[s], F[N][s \ {max[s]}]>>]
    <2>1. \A s \in D : Once(F[N])[s] = IF s = {} THEN v0 ELSE step[<<max[s], F[N][s \ {max[s]}]>>]
      OBVIOUS
    <2> HIDE DEF Once
    <2> QED BY ONLY <1>15, <1>16, <2>1
  <1>18. PICK f : f = F[N] OBVIOUS
  <1>19. f \in [D -> V] BY <1>15, <1>18 DEF W
  <1>20. \A s \in D : f[s] = IF s = {} THEN v0 ELSE step[<<max[s], f[s \ {max[s]}]>>]
    BY ONLY <1>17, <1>18
  <1>21. f = [s \in D |-> IF s = {} THEN v0 ELSE step[<<max[s], f[s \ {max[s]}]>>]]
    BY ONLY <1>19, <1>20
  <1> QED BY <1>19, <1>21 DEF IsFoldOf

\* The highest index of a set of indices, and the highest up to n.
LEMMA HighestIs ==
    ASSUME NEW N \in Nat
    PROVE  /\ IsHighest([s \in SUBSET (1 .. N) |-> Max(s)], N)
           /\ \A n \in 1 .. N : Max(1 .. n) = n /\ (1 .. n) \ {n} = 1 .. (n - 1)
  <1>1. ASSUME NEW s \in SUBSET (1 .. N), s # {} PROVE Max(s) \in s /\ \A i \in s : i <= Max(s)
    <2> DEFINE T == {n \in Nat : \A i \in s : i <= n}
    <2>1. T \in SUBSET Nat /\ N \in T OBVIOUS
    <2>2. PICK m \in T : \A k \in T : m <= k
      <3> HIDE DEF T
      <3> QED BY ONLY <2>1, Least
    <2>3. m \in s
      <3>1. SUFFICES ASSUME m \notin s PROVE FALSE OBVIOUS
      <3>2. PICK i \in s : TRUE BY <1>1
      <3>3. i \in 1 .. N /\ i <= m /\ m \in Nat BY <2>2, <3>2
      <3>4. m - 1 \in Nat /\ ~(m <= m - 1) BY <3>3
      <3>5. \A j \in s : j <= m - 1
        <4>1. SUFFICES ASSUME NEW j \in s PROVE j <= m - 1 OBVIOUS
        <4>2. j \in Nat /\ j <= m /\ j # m BY <2>2, <3>1, <4>1
        <4> QED BY <3>3, <4>2
      <3>6. m - 1 \in T BY <3>4, <3>5
      <3> HIDE DEF T
      <3> QED BY <2>2, <3>4, <3>6
    <2>4. \A i \in s : m >= i BY <2>2
    <2>5. Max(s) \in s /\ \A i \in s : Max(s) >= i BY <2>3, <2>4 DEF Max
    <2>6. \A i \in s : i \in Int BY <1>1
    <2> QED BY <2>5, <2>6
  <1>2. ASSUME NEW n \in 1 .. N PROVE Max(1 .. n) = n /\ (1 .. n) \ {n} = 1 .. (n - 1)
    <2>1. n \in 1 .. n /\ 1 .. n \in SUBSET (1 .. N) /\ 1 .. n # {} OBVIOUS
    <2>2. Max(1 .. n) \in 1 .. n /\ \A i \in 1 .. n : i <= Max(1 .. n) BY ONLY <1>1, <2>1
    <2>3. PICK m : m = Max(1 .. n) OBVIOUS
    <2>4. m \in 1 .. n /\ n <= m BY <2>1, <2>2, <2>3
    <2>5. m = n BY <2>4
    <2>6. (1 .. n) \ {n} = 1 .. (n - 1) OBVIOUS
    <2> QED BY <2>3, <2>5, <2>6
  <1>3. \A s \in SUBSET (1 .. N) : [x \in SUBSET (1 .. N) |-> Max(x)][s] = Max(s) OBVIOUS
  <1> QED BY <1>1, <1>2, <1>3 DEF IsHighest

-----------------------------------------------------------------------------
(* Sums of sequences of numbers.                                           *)

\* g has the sums of the first items of w.
IsRunning(g, w) == g[0] = 0 /\ \A n \in 1 .. Len(w) : g[n] = g[n - 1] + w[n]

Total(w) == (CHOOSE g : IsRunning(g, w))[Len(w)]

Recurs(g, v0, h, step) == g = [n \in Nat |-> IF n = 0 THEN v0 ELSE step[<<n, g[h[n]]>>]]

\* A recursion has a function.
LEMMA RecursionIs ==
    ASSUME NEW V, NEW v0, NEW h, NEW step, IsRecursion(V, v0, h, step)
    PROVE  \E f \in [Nat -> V] : Recurs(f, v0, h, step)
  BY ONLY IsRecursion(V, v0, h, step), Recursion DEF Recurs

\* The sums of the first items are defined, and they are numbers.
LEMMA RunningDefined ==
    ASSUME NEW w \in Seq(Nat) PROVE \E g \in [Nat -> Nat] : IsRunning(g, w)
  <1> DEFINE N == Len(w)
             h == [n \in Nat |-> IF n = 0 THEN 0 ELSE n - 1]
             step == [p \in Nat \X Nat |-> p[2] + (IF p[1] \in 1 .. N THEN w[p[1]] ELSE 0)]
  <1>1. N \in Nat /\ \A n \in 1 .. N : w[n] \in Nat OBVIOUS
  <1>2. h \in [Nat -> Nat] /\ \A n \in Nat \ {0} : h[n] < n OBVIOUS
  <1>3. ASSUME NEW n \in Nat, NEW k \in Nat
        PROVE  /\ step[<<n, k>>] = k + (IF n \in 1 .. N THEN w[n] ELSE 0)
               /\ step[<<n, k>>] \in Nat
    <2>1. step[<<n, k>>] = k + (IF n \in 1 .. N THEN w[n] ELSE 0) OBVIOUS
    <2> QED BY <1>1, <2>1
  <1>4. step \in [Nat \X Nat -> Nat]
    <2> HIDE DEF N
    <2>1. \A p \in Nat \X Nat : p[2] + (IF p[1] \in 1 .. N THEN w[p[1]] ELSE 0) \in Nat BY <1>1
    <2> QED BY <2>1
  <1>5. \A n \in 1 .. N : h[n] = n - 1 /\ n \in Nat /\ n # 0 /\ n - 1 \in Nat BY <1>1
  <1> HIDE DEF h, step
  <1>6. IsRecursion(Nat, 0, h, step) BY <1>2, <1>4 DEF IsRecursion
  <1>7. PICK g \in [Nat -> Nat] : Recurs(g, 0, h, step) BY ONLY <1>6, RecursionIs
  <1>8. g[0] = 0 BY ONLY <1>7 DEF Recurs
  <1>9. ASSUME NEW n \in 1 .. N PROVE g[n] = g[n - 1] + w[n]
    <2>1. n \in Nat /\ n # 0 /\ n - 1 \in Nat /\ h[n] = n - 1 BY <1>5
    <2>2. g[n] = IF n = 0 THEN 0 ELSE step[<<n, g[h[n]]>>] BY ONLY <1>7, <2>1 DEF Recurs
    <2>3. g[n - 1] \in Nat BY <2>1
    <2> QED BY ONLY <1>3, <2>1, <2>2, <2>3, n \in 1 .. N
  <1> QED BY <1>8, <1>9 DEF IsRunning

\* They are determined by the sequence.
LEMMA TotalIs ==
    ASSUME NEW w \in Seq(Nat), NEW g, IsRunning(g, w)
    PROVE  Total(w) = g[Len(w)] /\ Total(w) \in Nat
  <1> DEFINE N == Len(w)
  <1>1. N \in Nat OBVIOUS
  <1>2. PICK f \in [Nat -> Nat] : IsRunning(f, w) BY RunningDefined
  <1>3. PICK c : c = CHOOSE e : IsRunning(e, w) OBVIOUS
  <1>4. IsRunning(c, w) BY ONLY <1>2, <1>3
  <1>5. ASSUME NEW e, IsRunning(e, w) PROVE e[N] = f[N]
    <2> DEFINE S == {n \in Nat : n <= N => e[n] = f[n]}
    <2>1. 0 \in S BY <1>2, <1>5 DEF IsRunning
    <2>2. ASSUME NEW n \in Nat, n \in S PROVE n + 1 \in S
      <3>1. ASSUME n + 1 <= N PROVE e[n + 1] = f[n + 1]
        <4>1. n + 1 \in 1 .. N /\ (n + 1) - 1 = n /\ n <= N BY <1>1, <3>1
        <4>2. e[n] = f[n] BY <2>2, <4>1
        <4>3. e[n + 1] = e[n] + w[n + 1] /\ f[n + 1] = f[n] + w[n + 1]
          BY ONLY <1>2, <1>5, <4>1 DEF IsRunning
        <4> QED BY ONLY <4>2, <4>3
      <3> QED BY <3>1
    <2>3. \A n \in Nat : n \in S
      <3> HIDE DEF S
      <3> QED BY ONLY <2>1, <2>2, Induction
    <2> QED BY <1>1, <2>3
  <1>6. c[N] = f[N] /\ g[N] = f[N] BY <1>4, <1>5
  <1>7. Total(w) = c[N] BY <1>3 DEF Total
  <1> QED BY <1>1, <1>2, <1>6, <1>7

\* The empty sequence has the sum 0.
LEMMA TotalEmpty == Total(<<>>) = 0
  <1>1. <<>> \in Seq(Nat) /\ Len(<<>>) = 0 OBVIOUS
  <1>2. PICK g \in [Nat -> Nat] : IsRunning(g, <<>>) BY <1>1, RunningDefined
  <1>3. Total(<<>>) = g[Len(<<>>)] BY ONLY <1>1, <1>2, TotalIs
  <1> QED BY <1>1, <1>2, <1>3 DEF IsRunning

\* An item that is appended is added.
LEMMA TotalAppend ==
    ASSUME NEW w \in Seq(Nat), NEW x \in Nat PROVE Total(Append(w, x)) = Total(w) + x
  <1> DEFINE N == Len(w)
  <1>1. PICK v : v = Append(w, x) OBVIOUS
  <1>2. /\ N \in Nat /\ v \in Seq(Nat) /\ Len(v) = N + 1 /\ v[N + 1] = x
        /\ \A n \in 1 .. N : v[n] = w[n]
    BY <1>1
  <1>3. PICK g \in [Nat -> Nat] : IsRunning(g, w) BY RunningDefined
  <1> DEFINE h == [n \in Nat |-> IF n <= N THEN g[n] ELSE g[N] + x]
  <1>4. h[0] = 0 BY <1>2, <1>3 DEF IsRunning
  <1>5. ASSUME NEW n \in 1 .. N + 1 PROVE h[n] = h[n - 1] + v[n]
    <2>1. CASE n \in 1 .. N
      <3>1. g[n] = g[n - 1] + w[n] BY <1>3, <2>1 DEF IsRunning
      <3>2. n \in Nat /\ n <= N /\ n - 1 \in Nat /\ n - 1 <= N BY <1>2, <2>1
      <3>3. h[n] = g[n] /\ h[n - 1] = g[n - 1] BY <3>2
      <3> QED BY ONLY <1>2, <2>1, <3>1, <3>3
    <2>2. CASE n = N + 1
      <3>1. n \in Nat /\ ~(n <= N) /\ n - 1 = N BY <1>2, <2>2
      <3>2. h[n] = g[N] + x /\ h[n - 1] = g[N] BY <1>2, <3>1
      <3> QED BY ONLY <1>2, <2>2, <3>2
    <2> QED BY <1>2, <2>1, <2>2
  <1>6. IsRunning(h, v)
    <2> HIDE DEF h
    <2> QED BY ONLY <1>2, <1>4, <1>5 DEF IsRunning
  <1>7. h[N + 1] = g[N] + x BY <1>2
  <1> HIDE DEF h
  <1>8. Total(v) = h[N + 1] BY ONLY <1>2, <1>6, TotalIs
  <1>9. Total(w) = g[N] BY <1>3, TotalIs
  <1> QED BY ONLY <1>1, <1>7, <1>8, <1>9

\* So is one in front.
LEMMA TotalPush ==
    ASSUME NEW w \in Seq(Nat), NEW x \in Nat
    PROVE  Total(<<x>> \o w) = x + Total(w) /\ Total(w) \in Nat
  <1> DEFINE N == Len(w)
  <1>0. \A k \in 1 .. N : w[k] \in Nat OBVIOUS
  <1>1. PICK v : v = <<x>> \o w OBVIOUS
  <1>2. /\ N \in Nat /\ v \in Seq(Nat) /\ Len(v) = N + 1 /\ v[1] = x
        /\ \A n \in 2 .. N + 1 : v[n] = w[n - 1]
    BY <1>1
  <1>3. PICK g \in [Nat -> Nat] : IsRunning(g, w) BY RunningDefined
  <1> DEFINE h == [n \in Nat |-> IF n = 0 THEN 0 ELSE x + g[n - 1]]
  <1>4. h[0] = 0 OBVIOUS
  <1>5. ASSUME NEW n \in 1 .. N + 1 PROVE h[n] = h[n - 1] + v[n]
    <2>1. CASE n = 1
      <3>1. h[1] = x + g[0] OBVIOUS
      <3>2. g[0] = 0 BY <1>3 DEF IsRunning
      <3> QED BY ONLY <1>2, <1>4, <2>1, <3>1, <3>2, x \in Nat
    <2>2. CASE n \in 2 .. N + 1
      <3>1. n - 1 \in 1 .. N /\ (n - 1) - 1 \in Nat /\ n \in Nat /\ n # 0 /\ n - 1 \in Nat /\ n - 1 # 0
        BY <1>2, <2>2
      <3>2. g[n - 1] = g[(n - 1) - 1] + w[n - 1] BY <1>3, <3>1 DEF IsRunning
      <3>3. h[n] = x + g[n - 1] /\ h[n - 1] = x + g[(n - 1) - 1] BY <3>1
      <3>4. g[(n - 1) - 1] \in Nat BY ONLY <3>1, g \in [Nat -> Nat]
      <3>5. w[n - 1] \in Nat
        <4> HIDE DEF N
        <4> QED BY ONLY <1>0, <3>1
      <3>6. v[n] = w[n - 1] BY <1>2, <2>2
      <3>7. PICK a, b, c, d, e, y : /\ a = h[n] /\ b = h[n - 1] /\ c = g[n - 1]
                                   /\ d = g[(n - 1) - 1] /\ e = w[n - 1] /\ y = v[n]
        OBVIOUS
      <3>8. a = x + c /\ b = x + d /\ c = d + e /\ d \in Nat /\ e \in Nat /\ y = e
        BY ONLY <3>2, <3>3, <3>4, <3>5, <3>6, <3>7
      <3>9. a = b + y BY ONLY <3>8, x \in Nat
      <3> QED BY ONLY <3>7, <3>9
    <2> QED BY <1>2, <2>1, <2>2
  <1>6. IsRunning(h, v)
    <2> HIDE DEF h
    <2> QED BY ONLY <1>2, <1>4, <1>5 DEF IsRunning
  <1>7. h[N + 1] = x + g[N] BY <1>2
  <1> HIDE DEF h
  <1>8. Total(v) = h[N + 1] BY ONLY <1>2, <1>6, TotalIs
  <1>9. Total(w) = g[N] /\ Total(w) \in Nat BY <1>3, TotalIs
  <1> QED BY ONLY <1>1, <1>7, <1>8, <1>9

\* An item that is replaced is subtracted.
LEMMA TotalExcept ==
    ASSUME NEW w \in Seq(Nat), NEW i \in 1 .. Len(w), NEW x \in Nat
    PROVE  Total([w EXCEPT ![i] = x]) = Total(w) - w[i] + x
  <1> DEFINE N == Len(w)
  <1>0. \A k \in 1 .. N : w[k] \in Nat OBVIOUS
  <1>1. PICK v : v = [w EXCEPT ![i] = x] OBVIOUS
  <1>2. /\ N \in Nat /\ v \in Seq(Nat) /\ Len(v) = N /\ v[i] = x /\ w[i] \in Nat /\ i \in 1 .. N
        /\ \A n \in 1 .. N : n # i => v[n] = w[n]
    BY <1>1
  <1>3. PICK g \in [Nat -> Nat] : IsRunning(g, w) BY RunningDefined
  <1> DEFINE h == [n \in Nat |-> IF n < i THEN g[n] ELSE g[n] - w[i] + x]
  <1>4. h[0] = 0 BY <1>2, <1>3 DEF IsRunning
  <1>5. ASSUME NEW n \in 1 .. N PROVE h[n] = h[n - 1] + v[n]
    <2>1. g[n] = g[n - 1] + w[n] BY <1>3 DEF IsRunning
    <2>2. n \in Nat /\ n - 1 \in Nat /\ g[n - 1] \in Nat /\ w[n] \in Nat
      <3> HIDE DEF N, h
      <3>2. n \in Nat /\ n - 1 \in Nat BY ONLY <1>2, n \in 1 .. N
      <3>3. w[n] \in Nat BY ONLY <1>0, n \in 1 .. N
      <3> QED BY ONLY <3>2, <3>3, g \in [Nat -> Nat]
    <2>3. /\ h[n] = IF n < i THEN g[n] ELSE g[n] - w[i] + x
          /\ h[n - 1] = IF n - 1 < i THEN g[n - 1] ELSE g[n - 1] - w[i] + x
      BY <2>2
    <2>4. n # i => v[n] = w[n] BY ONLY <1>2, n \in 1 .. N
    <2> HIDE DEF h, N
    <2>5. PICK a, b, c, d, e, y, z : /\ a = h[n] /\ b = h[n - 1] /\ c = g[n] /\ d = g[n - 1]
                                    /\ e = w[n] /\ y = v[n] /\ z = w[i]
      OBVIOUS
    <2>6. /\ a = (IF n < i THEN c ELSE c - z + x) /\ b = (IF n - 1 < i THEN d ELSE d - z + x)
          /\ c = d + e /\ d \in Nat /\ e \in Nat /\ z \in Nat /\ (n # i => y = e)
          /\ (n = i => y = x /\ z = e)
      BY ONLY <1>2, <2>1, <2>2, <2>3, <2>4, <2>5
    <2>7. i \in Nat BY ONLY <1>2
    <2>8. n \in Nat BY ONLY <2>2
    <2>9. a = b + y
      <3>1. CASE n < i
        <4>1. n - 1 < i /\ n # i BY ONLY <2>7, <2>8, <3>1
        <4> QED BY ONLY <2>6, <3>1, <4>1
      <3>2. CASE n = i
        <4>1. ~(n < i) /\ n - 1 < i BY ONLY <2>7, <3>2
        <4>2. a = c - z + x /\ b = d /\ y = x /\ z = e BY ONLY <2>6, <3>2, <4>1
        <4>3. c = d + e /\ d \in Nat /\ e \in Nat BY ONLY <2>6
        <4> QED BY ONLY <4>2, <4>3, x \in Nat
      <3>3. CASE n > i
        <4>1. ~(n < i) /\ ~(n - 1 < i) /\ n # i BY ONLY <2>7, <2>8, <3>3
        <4>2. a = c - z + x /\ b = d - z + x /\ y = e BY ONLY <2>6, <4>1
        <4>3. c = d + e /\ d \in Nat /\ e \in Nat /\ z \in Nat BY ONLY <2>6
        <4> QED BY ONLY <4>2, <4>3, x \in Nat
      <3> QED BY ONLY <2>7, <2>8, <3>1, <3>2, <3>3
    <2> QED BY ONLY <2>5, <2>9
  <1>6. IsRunning(h, v)
    <2> HIDE DEF h
    <2> QED BY ONLY <1>2, <1>4, <1>5 DEF IsRunning
  <1>7. h[N] = g[N] - w[i] + x BY <1>2
  <1> HIDE DEF h
  <1>8. Total(v) = h[N] BY ONLY <1>2, <1>6, TotalIs
  <1>9. Total(w) = g[N] BY <1>3, TotalIs
  <1> QED BY ONLY <1>1, <1>7, <1>8, <1>9
=============================================================================
