------------------------- MODULE CosObjParser_proofs -------------------------
(***************************************************************************)
(* Proofs about CosObjParser, for every text, however deep its objects     *)
(* nest and wherever they break off, and for any number of calls.          *)
(***************************************************************************)
EXTENDS CosParsers, CosCounting, TLAPS

IsSeq(s) == s \in Seq(Range(s))

\* What a variable for a node may hold; a name has no parts.
Sized(node) == node.size \in Nat /\ (node.type = "Name" => node.size = 1)

Nodes(kids) == IsSeq(kids) /\ \A i \in DOMAIN kids : kids[i].size \in Nat

\* Only a dictionary waits for the value of a key; arrays, dictionaries and
\* streams have parts, a stream its dictionary.
FrameOK(frame) ==
    /\ frame = [call |-> frame.call, value |-> frame.value, kids |-> frame.kids, key |-> frame.key]
    /\ Nodes(frame.kids) /\ Sized(frame.key)
    /\ frame.call # "dict" => frame.key = NoNode
    /\ frame.call \in {"next", "peek", "load", "def"} => frame.kids = <<>>
    /\ frame.call = "stream" => Len(frame.kids) = 1

\* A client is at the bottom, nothing else is, and an object is loaded for the stream below it.
Placed(s) ==
    \A i \in DOMAIN s :
        /\ s[i].call \in {"next", "peek"} <=> i = Len(s)
        /\ s[i].call = "load" => i < Len(s) /\ s[i + 1].call = "stream"

Frames(s) == IsSeq(s) /\ (\A i \in DOMAIN s : FrameOK(s[i])) /\ Placed(s)

AllHeld(s) == SumOf([i \in DOMAIN s |-> Held(s[i])])

Control ==
    /\ ctl \in {"idle", "destroyed"} => stack = <<>>
    /\ ctl \notin {"idle", "destroyed"} => stack # <<>>
    /\ ctl \in {"loop", "finish"} => Top.call \in {"array", "dict"} /\ Top.key = NoNode
    /\ ctl \in {"length", "seek"} => Top.call = "stream"
    /\ ctl # "return" => ret = NoNode
    /\ stack # <<>> => peeked = NoNode

Sound ==
    /\ Frames(stack) /\ Control
    /\ Sized(ret) /\ peeked.size \in Nat /\ got \in Nat /\ lost \in Nat
    /\ live = AllHeld(stack) + ret.size + peeked.size + got + lost

IInv == ctl # "undefined" => Sound

-----------------------------------------------------------------------------

(* Sums *)

IsSumFold(f, S, w) ==
    f = [s \in SUBSET S |-> IF s = {} THEN 0 ELSE LET x == Max(s) IN f[s \ {x}] + w[x]]

\* A sum is that of the items one by one.
LEMMA SumIsTotal == ASSUME NEW w \in Seq(Nat) PROVE SumOf(w) = Total(w) /\ SumOf(w) \in Nat
  <1> DEFINE N == Len(w)
             step == [p \in (1..N) \X Nat |-> p[2] + w[p[1]]]
             max == [s \in SUBSET (1..N) |-> Max(s)]
  <1>1. N \in Nat /\ DOMAIN w = 1..N /\ \A n \in 1..N : w[n] \in Nat OBVIOUS
  <1>2. ASSUME NEW n \in 1..N, NEW v \in Nat PROVE step[<<n, v>>] = v + w[n] /\ v + w[n] \in Nat
    <2>1. w[n] \in Nat BY ONLY <1>1, n \in 1..N
    <2> HIDE DEF N
    <2> QED BY <2>1
  <1>3. step \in [(1..N) \X Nat -> Nat]
    <2> HIDE DEF N
    <2>1. \A p \in (1..N) \X Nat : p[2] + w[p[1]] \in Nat BY <1>2
    <2> QED BY <2>1
  <1>4. IsHighest(max, N) /\ \A n \in 1..N : Max(1..n) = n /\ (1..n) \ {n} = 1..(n - 1)
    <2> HIDE DEF N
    <2> QED BY <1>1, HighestIs
  <1>5. \A s \in SUBSET (1..N) : max[s] = Max(s) OBVIOUS
  <1> HIDE DEF step, max, N
  <1>6. PICK f \in [SUBSET (1..N) -> Nat] : IsFoldOf(f, N, 0, step, max)
    BY ONLY <1>1, <1>3, <1>4, 0 \in Nat, FoldDefined
  <1>7. IsSumFold(f, 1..N, w)
    <2>1. ASSUME NEW s \in SUBSET (1..N)
          PROVE  f[s] = IF s = {} THEN 0 ELSE LET x == Max(s) IN f[s \ {x}] + w[x]
      <3>1. f[s] = IF s = {} THEN 0 ELSE step[<<max[s], f[s \ {max[s]}]>>]
        BY ONLY <1>6 DEF IsFoldOf
      <3>2. CASE s = {} BY <3>1, <3>2
      <3>3. CASE s # {}
        <4>1. Max(s) \in 1..N BY <1>4, <1>5, <3>3 DEF IsHighest
        <4>2. f[s \ {Max(s)}] \in Nat OBVIOUS
        <4> QED BY ONLY <1>2, <1>5, <3>1, <3>3, <4>1, <4>2
      <3> QED BY <3>2, <3>3
    <2>2. f = [s \in SUBSET (1..N) |-> f[s]] BY <1>6
    <2> QED BY ONLY <2>1, <2>2 DEF IsSumFold
  <1>8. PICK e : e = CHOOSE h : IsSumFold(h, 1..N, w) OBVIOUS
  <1>9. IsSumFold(e, 1..N, w) BY ONLY <1>7, <1>8
  <1>10. SumOf(w) = e[1..N]
    <2>1. SumOf(w) = (CHOOSE h : IsSumFold(h, DOMAIN w, w))[DOMAIN w]
      BY ONLY Zenon DEF SumOf, FoldLeft, MapThenFoldSet, IsSumFold
    <2> QED BY ONLY <1>1, <1>8, <2>1
  <1>11. e[{}] = 0
    <2>1. {} \in SUBSET (1..N) OBVIOUS
    <2> QED BY ONLY <1>9, <2>1 DEF IsSumFold
  <1>12. ASSUME NEW n \in 1..N PROVE e[1..n] = e[1..(n - 1)] + w[n]
    <2>0. N \in Nat /\ n \in 1..N BY <1>1
    <2>1. 1..n \in SUBSET (1..N) /\ 1..n # {}
      <3>1. PICK m : m = N OBVIOUS
      <3>2. m \in Nat /\ n \in 1..m BY ONLY <2>0, <3>1
      <3>3. n \in 1..n /\ \A i \in 1..n : i \in 1..m BY ONLY <3>2
      <3> QED BY ONLY <3>1, <3>3
    <2>2. e[1..n] = LET x == Max(1..n) IN e[(1..n) \ {x}] + w[x]
      BY ONLY <1>9, <2>1 DEF IsSumFold
    <2> QED BY ONLY <1>4, <1>12, <2>2
  <1> DEFINE g == [n \in 0..N |-> e[1..n]]
  <1>13. g[0] = 0 /\ g[N] = e[1..N] /\ \A n \in 1..N : g[n] = g[n - 1] + w[n]
    <2>1. 1..0 = {} /\ 0 \in 0..N /\ N \in 0..N BY <1>1
    <2>2. \A n \in 1..N : n \in 0..N /\ n - 1 \in 0..N BY <1>1
    <2> QED BY <1>11, <1>12, <2>1, <2>2
  <1> HIDE DEF g
  <1>14. IsRunning(g, w) BY <1>13 DEF IsRunning, N
  <1>15. Total(w) = g[N] /\ Total(w) \in Nat BY <1>14, TotalIs DEF N
  <1> QED BY ONLY <1>10, <1>13, <1>15

-----------------------------------------------------------------------------
(* The parts of a node *)

Sizes(kids) == [i \in DOMAIN kids |-> kids[i].size]

\* A sequence of any kind.
LEMMA SeqIs ==
    /\ \A T : \A s \in Seq(T) : IsSeq(s)
    /\ \A s : IsSeq(s) => Len(s) \in Nat /\ DOMAIN s = 1..Len(s)
  <1>1. ASSUME NEW T, NEW s \in Seq(T) PROVE IsSeq(s)
    <2>1. Len(s) \in Nat /\ s = [i \in 1..Len(s) |-> s[i]] /\ DOMAIN s = 1..Len(s) OBVIOUS
    <2>2. \A i \in 1..Len(s) : s[i] \in Range(s) BY <2>1 DEF Range
    <2> QED BY <2>1, <2>2 DEF IsSeq
  <1> QED BY <1>1 DEF IsSeq

\* The sizes of the parts are numbers.
LEMMA SizesAre ==
    ASSUME NEW kids, Nodes(kids)
    PROVE  /\ Sizes(kids) \in Seq(Nat) /\ Len(Sizes(kids)) = Len(kids)
           /\ \A i \in DOMAIN kids : Sizes(kids)[i] = kids[i].size
           /\ SizeOf(kids) = Total(Sizes(kids)) /\ SizeOf(kids) \in Nat /\ Len(kids) \in Nat
  <1>1. Len(kids) \in Nat /\ DOMAIN kids = 1..Len(kids) BY SeqIs DEF Nodes
  <1>2. \A i \in DOMAIN kids : kids[i].size \in Nat BY DEF Nodes
  <1>3. PICK n \in Nat : n = Len(kids) BY <1>1
  <1>4. Sizes(kids) = [i \in 1..n |-> kids[i].size] BY <1>1, <1>3 DEF Sizes
  <1>5. Sizes(kids) \in Seq(Nat) /\ Len(Sizes(kids)) = n BY <1>1, <1>2, <1>3, <1>4
  <1>6. SizeOf(kids) = SumOf(Sizes(kids)) BY DEF SizeOf, Sizes
  <1>7. SumOf(Sizes(kids)) = Total(Sizes(kids)) /\ SumOf(Sizes(kids)) \in Nat
    BY ONLY <1>5, SumIsTotal
  <1> QED BY <1>3, <1>4, <1>5, <1>6, <1>7, <1>1

\* A node without parts.
LEMMA NoNodes == Nodes(<<>>) /\ SizeOf(<<>>) = 0 /\ Len(<<>>) = 0
  <1>1. Nodes(<<>>)
    <2>1. <<>> \in Seq({}) /\ DOMAIN <<>> = {} OBVIOUS
    <2>2. IsSeq(<<>>) BY ONLY <2>1, SeqIs
    <2> QED BY <2>1, <2>2 DEF Nodes
  <1>2. Sizes(<<>>) = <<>> BY DEF Sizes
  <1> QED BY <1>1, <1>2, SizesAre, TotalEmpty

\* One more part.
LEMMA OneMoreNode ==
    ASSUME NEW kids, Nodes(kids), NEW node, node.size \in Nat
    PROVE  /\ Nodes(Append(kids, node)) /\ Len(Append(kids, node)) = Len(kids) + 1
           /\ SizeOf(Append(kids, node)) = SizeOf(kids) + node.size
  <1>1. PICK new : new = Append(kids, node) OBVIOUS
  <1>2. PICK n \in Nat : n = Len(kids) /\ DOMAIN kids = 1..n BY SeqIs DEF Nodes
  <1>3. /\ IsSeq(new) /\ Len(new) = n + 1 /\ DOMAIN new = 1..(n + 1) /\ new[n + 1] = node
        /\ \A i \in 1..n : new[i] = kids[i]
    <2>1. PICK T : kids \in Seq(T) BY DEF Nodes, IsSeq
    <2>2. kids \in Seq(T \cup {node}) BY <2>1
    <2>3. new \in Seq(T \cup {node}) BY <1>1, <2>2
    <2>4. IsSeq(new) BY ONLY <2>3, SeqIs
    <2> QED BY ONLY <1>1, <1>2, <2>2, <2>3, <2>4
  <1>4. Nodes(new)
    <2>1. \A i \in 1..(n + 1) : i \in 1..n \/ i = n + 1 OBVIOUS
    <2> QED BY <1>2, <1>3, <2>1 DEF Nodes
  <1>5. Sizes(new) = Append(Sizes(kids), node.size)
    <2>1. Sizes(kids) \in Seq(Nat) /\ Len(Sizes(kids)) = n
          /\ \A i \in 1..n : Sizes(kids)[i] = kids[i].size
      BY <1>2, SizesAre
    <2>2. Sizes(new) \in Seq(Nat) /\ Len(Sizes(new)) = n + 1
          /\ \A i \in 1..(n + 1) : Sizes(new)[i] = new[i].size
      BY <1>3, <1>4, SizesAre
    <2>3. \A i \in 1..(n + 1) : i \in 1..n \/ i = n + 1 OBVIOUS
    <2>4. PICK a, b, m : a = Sizes(kids) /\ b = Sizes(new) /\ m = node.size OBVIOUS
    <2>5. /\ a \in Seq(Nat) /\ Len(a) = n /\ b \in Seq(Nat) /\ Len(b) = n + 1 /\ b[n + 1] = m
          /\ \A i \in 1..n : b[i] = a[i]
      BY <1>3, <2>1, <2>2, <2>3, <2>4
    <2>6. b = Append(a, m) BY ONLY <2>5, n \in Nat
    <2> QED BY ONLY <2>4, <2>6
  <1>6. Sizes(kids) \in Seq(Nat) BY SizesAre
  <1>7. Total(Sizes(new)) = Total(Sizes(kids)) + node.size
    BY ONLY <1>5, <1>6, TotalAppend, node.size \in Nat
  <1>8. SizeOf(new) = Total(Sizes(new)) BY ONLY <1>4, SizesAre
  <1>9. SizeOf(kids) = Total(Sizes(kids)) BY SizesAre
  <1> QED BY ONLY <1>1, <1>2, <1>3, <1>4, <1>7, <1>8, <1>9

\* A single part.
LEMMA OneNode ==
    ASSUME NEW node, node.size \in Nat
    PROVE  Nodes(<<node>>) /\ SizeOf(<<node>>) = node.size /\ Len(<<node>>) = 1
  <1>1. Append(<<>>, node) = <<node>> OBVIOUS
  <1>2. /\ Nodes(Append(<<>>, node)) /\ Len(Append(<<>>, node)) = Len(<<>>) + 1
        /\ SizeOf(Append(<<>>, node)) = SizeOf(<<>>) + node.size
    BY ONLY NoNodes, OneMoreNode, node.size \in Nat
  <1>3. PICK m \in Nat : m = node.size OBVIOUS
  <1>4. SizeOf(<<node>>) = 0 + m /\ Len(<<node>>) = 0 + 1 /\ Nodes(<<node>>)
    BY ONLY <1>1, <1>2, <1>3, NoNodes
  <1> QED BY ONLY <1>3, <1>4

\* Another part in the place of one.
LEMMA OtherNode ==
    ASSUME NEW kids, Nodes(kids), NEW i \in DOMAIN kids, NEW node, node.size \in Nat
    PROVE  LET new == [kids EXCEPT ![i] = node]
           IN  /\ Nodes(new) /\ Len(new) = Len(kids)
               /\ SizeOf(new) = SizeOf(kids) - kids[i].size + node.size
  <1>1. PICK new : new = [kids EXCEPT ![i] = node] OBVIOUS
  <1>2. PICK n \in Nat : n = Len(kids) /\ DOMAIN kids = 1..n BY SeqIs DEF Nodes
  <1>3. /\ IsSeq(new) /\ Len(new) = n /\ DOMAIN new = 1..n /\ new[i] = node
        /\ \A j \in 1..n : j # i => new[j] = kids[j]
    <2>1. PICK T : kids \in Seq(T) BY DEF Nodes, IsSeq
    <2>2. kids \in Seq(T \cup {node}) BY <2>1
    <2>3. new \in Seq(T \cup {node}) BY <1>1, <2>2
    <2>4. IsSeq(new) BY ONLY <2>3, SeqIs
    <2> QED BY ONLY <1>1, <1>2, <2>2, <2>3, <2>4
  <1>4. Nodes(new) BY <1>2, <1>3 DEF Nodes
  <1>5. Sizes(new) = [Sizes(kids) EXCEPT ![i] = node.size]
    <2>1. Sizes(kids) \in Seq(Nat) /\ Len(Sizes(kids)) = n
          /\ \A j \in 1..n : Sizes(kids)[j] = kids[j].size
      BY <1>2, SizesAre
    <2>2. Sizes(new) \in Seq(Nat) /\ Len(Sizes(new)) = n
          /\ \A j \in 1..n : Sizes(new)[j] = new[j].size
      BY <1>3, <1>4, SizesAre
    <2>3. PICK a, b, m : a = Sizes(kids) /\ b = Sizes(new) /\ m = node.size OBVIOUS
    <2>4. /\ a \in Seq(Nat) /\ Len(a) = n /\ b \in Seq(Nat) /\ Len(b) = n /\ b[i] = m
          /\ \A j \in 1..n : j # i => b[j] = a[j]
      BY <1>2, <1>3, <2>1, <2>2, <2>3
    <2>5. b = [a EXCEPT ![i] = m]
      <3>1. i \in 1..n /\ DOMAIN a = 1..n /\ DOMAIN b = 1..n BY ONLY <1>2, <2>4, i \in DOMAIN kids
      <3>2. b = [j \in 1..n |-> b[j]] BY ONLY <2>4
      <3>3. [a EXCEPT ![i] = m] = [j \in 1..n |-> IF j = i THEN m ELSE a[j]] BY ONLY <3>1
      <3> QED BY ONLY <2>4, <3>1, <3>2, <3>3
    <2> QED BY ONLY <2>3, <2>5
  <1>6. /\ Sizes(kids) \in Seq(Nat) /\ i \in 1..Len(Sizes(kids)) /\ Sizes(kids)[i] = kids[i].size
    BY <1>2, SizesAre
  <1>7. Total(Sizes(new)) = Total(Sizes(kids)) - kids[i].size + node.size
    <2>1. PICK a, m, b : a = Sizes(kids) /\ m = node.size /\ b = kids[i].size OBVIOUS
    <2>2. a \in Seq(Nat) /\ i \in 1..Len(a) /\ a[i] = b /\ m \in Nat
      BY ONLY <1>6, <2>1, node.size \in Nat
    <2>3. Total([a EXCEPT ![i] = m]) = Total(a) - a[i] + m BY ONLY <2>2, TotalExcept
    <2> QED BY ONLY <1>5, <2>1, <2>2, <2>3
  <1>8. SizeOf(new) = Total(Sizes(new)) BY ONLY <1>4, SizesAre
  <1>9. SizeOf(kids) = Total(Sizes(kids)) BY SizesAre
  <1> QED BY ONLY <1>1, <1>2, <1>3, <1>4, <1>7, <1>8, <1>9

-----------------------------------------------------------------------------
(* The calls under way *)

Amounts(s) == [i \in DOMAIN s |-> Held(s[i])]

\* What a call holds is a number.
LEMMA HeldIs == ASSUME NEW frame, FrameOK(frame) PROVE Held(frame) \in Nat
  <1>1. Nodes(frame.kids) /\ frame.key.size \in Nat BY DEF FrameOK, Sized
  <1>2. SizeOf(frame.kids) \in Nat /\ Len(frame.kids) \in Nat BY ONLY <1>1, SizesAre
  <1> QED BY ONLY <1>1, <1>2 DEF Held

\* So is what all of them hold.
LEMMA AmountsAre ==
    ASSUME NEW s, IsSeq(s), \A i \in DOMAIN s : FrameOK(s[i])
    PROVE  /\ Amounts(s) \in Seq(Nat) /\ Len(Amounts(s)) = Len(s)
           /\ \A i \in DOMAIN s : Amounts(s)[i] = Held(s[i])
           /\ AllHeld(s) = Total(Amounts(s)) /\ AllHeld(s) \in Nat
  <1>1. PICK n \in Nat : n = Len(s) /\ DOMAIN s = 1..n BY SeqIs
  <1>2. \A i \in 1..n : Held(s[i]) \in Nat BY <1>1, HeldIs
  <1>3. Amounts(s) = [i \in 1..n |-> Held(s[i])] BY <1>1 DEF Amounts
  <1>4. Amounts(s) \in Seq(Nat) /\ Len(Amounts(s)) = n BY ONLY <1>2, <1>3, n \in Nat
  <1>5. AllHeld(s) = SumOf(Amounts(s)) BY DEF AllHeld, Amounts
  <1>6. SumOf(Amounts(s)) = Total(Amounts(s)) /\ SumOf(Amounts(s)) \in Nat
    BY ONLY <1>4, SumIsTotal
  <1> QED BY ONLY <1>1, <1>3, <1>4, <1>5, <1>6

\* Where nothing is called, nothing is held.
LEMMA NoFrames == Frames(<<>>) /\ AllHeld(<<>>) = 0
  <1>1. <<>> \in Seq({}) /\ DOMAIN <<>> = {} OBVIOUS
  <1>2. IsSeq(<<>>) BY ONLY <1>1, SeqIs
  <1>3. Frames(<<>>) BY ONLY <1>1, <1>2 DEF Frames, Placed
  <1>4. Amounts(<<>>) = <<>> BY DEF Amounts
  <1>5. AllHeld(<<>>) = Total(<<>>) BY ONLY <1>1, <1>2, <1>4, AmountsAre
  <1> QED BY ONLY <1>3, <1>5, TotalEmpty

\* A call that is made.
LEMMA PushIs ==
    ASSUME NEW s, Frames(s), NEW f, FrameOK(f),
           f.call \in {"next", "peek"} <=> s = <<>>,
           f.call = "load" => s # <<>> /\ Head(s).call = "stream"
    PROVE  /\ Frames(<<f>> \o s) /\ <<f>> \o s # <<>> /\ Head(<<f>> \o s) = f
           /\ AllHeld(<<f>> \o s) = Held(f) + AllHeld(s)
  <1>1. PICK new : new = <<f>> \o s OBVIOUS
  <1>2. PICK n \in Nat : n = Len(s) /\ DOMAIN s = 1..n BY SeqIs DEF Frames
  <1>3. /\ IsSeq(new) /\ Len(new) = n + 1 /\ DOMAIN new = 1..(n + 1) /\ new[1] = f
        /\ new # <<>> /\ Head(new) = f
        /\ \A i \in 1..n : new[i + 1] = s[i]
    <2>1. PICK T : s \in Seq(T) BY DEF Frames, IsSeq
    <2>2. s \in Seq(T \cup {f}) /\ <<f>> \in Seq(T \cup {f}) BY <2>1
    <2>3. new \in Seq(T \cup {f}) BY <1>1, <2>2
    <2>4. IsSeq(new) BY ONLY <2>3, SeqIs
    <2> QED BY ONLY <1>1, <1>2, <2>2, <2>3, <2>4
  <1>4. \A i \in 1..(n + 1) : i = 1 \/ (i # 1 /\ i - 1 \in 1..n /\ new[i] = s[i - 1])
    <2>1. \A i \in 1..(n + 1) : i = 1 \/ (i # 1 /\ i - 1 \in 1..n /\ (i - 1) + 1 = i) OBVIOUS
    <2> QED BY ONLY <1>3, <2>1
  <1>5. \A i \in 1..(n + 1) : FrameOK(new[i]) BY <1>2, <1>3, <1>4 DEF Frames
  <1>6. Placed(new)
    <2>1. SUFFICES ASSUME NEW i \in 1..(n + 1)
                   PROVE  /\ new[i].call \in {"next", "peek"} <=> i = n + 1
                          /\ new[i].call = "load" => i < n + 1 /\ new[i + 1].call = "stream"
      BY <1>3 DEF Placed
    <2>2. CASE i = 1
      <3>1. f.call \in {"next", "peek"} <=> n = 0
        <4>1. PICK T : s \in Seq(T) BY DEF Frames, IsSeq
        <4>2. s = <<>> <=> n = 0 BY ONLY <1>2, <4>1
        <4> QED BY <4>2
      <3>2. ASSUME f.call = "load" PROVE 1 \in 1..n /\ new[2].call = "stream"
        <4>1. s # <<>> /\ Head(s).call = "stream" BY <3>2
        <4>2. PICK T : s \in Seq(T) BY DEF Frames, IsSeq
        <4>3. n # 0 /\ Head(s) = s[1] BY ONLY <1>2, <4>1, <4>2
        <4>4. 1 \in 1..n BY ONLY <4>3, n \in Nat
        <4>5. new[1 + 1] = s[1] BY ONLY <1>3, <4>4
        <4> QED BY ONLY <4>1, <4>3, <4>4, <4>5
      <3>3. new[i] = f /\ i + 1 = 2 BY ONLY <1>3, <2>2
      <3>4. n \in Nat BY ONLY <1>2
      <3> QED BY ONLY <2>2, <3>1, <3>2, <3>3, <3>4
    <2>3. CASE i # 1
      <3>1. i - 1 \in 1..n /\ new[i] = s[i - 1] BY ONLY <1>4, <2>1, <2>3
      <3>2. PICK j \in 1..n : j = i - 1 BY ONLY <3>1
      <3>3. /\ s[j].call \in {"next", "peek"} <=> j = n
            /\ s[j].call = "load" => j < n /\ s[j + 1].call = "stream"
        BY ONLY <1>2, Frames(s) DEF Frames, Placed
      <3>4. ASSUME j < n PROVE new[i + 1] = s[j + 1]
        <4>1. j + 1 \in 1..n /\ (j + 1) + 1 = i + 1 BY ONLY <2>1, <3>2, <3>4, n \in Nat
        <4> QED BY ONLY <1>3, <4>1
      <3>5. j = n <=> i = n + 1 BY ONLY <2>1, <3>2, n \in Nat
      <3>6. j < n => i < n + 1 BY ONLY <2>1, <3>2, n \in Nat
      <3> QED BY ONLY <3>1, <3>2, <3>3, <3>4, <3>5, <3>6
    <2> QED BY ONLY <2>2, <2>3
  <1>7. Frames(new) BY ONLY <1>3, <1>5, <1>6 DEF Frames
  <1>8. /\ Amounts(s) \in Seq(Nat) /\ Len(Amounts(s)) = n /\ AllHeld(s) = Total(Amounts(s))
        /\ \A i \in 1..n : Amounts(s)[i] = Held(s[i])
    BY ONLY <1>2, Frames(s), AmountsAre DEF Frames
  <1>9. /\ Amounts(new) \in Seq(Nat) /\ Len(Amounts(new)) = n + 1
        /\ AllHeld(new) = Total(Amounts(new))
        /\ \A i \in 1..(n + 1) : Amounts(new)[i] = Held(new[i])
    BY ONLY <1>3, <1>5, AmountsAre
  <1>10. Held(f) \in Nat BY HeldIs
  <1>11. Amounts(new) = <<Held(f)>> \o Amounts(s)
    <2>1. PICK a, b, h : a = Amounts(s) /\ b = Amounts(new) /\ h = Held(f) OBVIOUS
    <2>2. b[1] = h /\ \A i \in 1..n : b[i + 1] = a[i]
      <3>1. 1 \in 1..(n + 1) /\ \A i \in 1..n : i + 1 \in 1..(n + 1) BY ONLY n \in Nat
      <3> QED BY ONLY <1>3, <1>8, <1>9, <2>1, <3>1
    <2>3. a \in Seq(Nat) /\ Len(a) = n /\ b \in Seq(Nat) /\ Len(b) = n + 1 /\ h \in Nat
      BY ONLY <1>8, <1>9, <1>10, <2>1
    <2>4. b = <<h>> \o a BY ONLY <2>2, <2>3, n \in Nat
    <2> QED BY ONLY <2>1, <2>4
  <1>12. Total(Amounts(new)) = Held(f) + Total(Amounts(s))
    BY ONLY <1>8, <1>10, <1>11, TotalPush
  <1> QED BY ONLY <1>1, <1>3, <1>7, <1>8, <1>9, <1>12

\* The innermost call, and what is under way when it has returned.
LEMMA PopIs ==
    ASSUME NEW s, Frames(s), s # <<>>
    PROVE  /\ FrameOK(Head(s)) /\ Frames(Tail(s))
           /\ Held(Head(s)) \in Nat /\ AllHeld(Tail(s)) \in Nat
           /\ AllHeld(s) = Held(Head(s)) + AllHeld(Tail(s))
           /\ Head(s).call \in {"next", "peek"} <=> Tail(s) = <<>>
           /\ Head(s).call = "load" => Tail(s) # <<>> /\ Head(Tail(s)).call = "stream"
  <1>1. PICK f, t : f = Head(s) /\ t = Tail(s) OBVIOUS
  <1>2. PICK n \in Nat : n = Len(s) /\ DOMAIN s = 1..n BY SeqIs DEF Frames
  <1>3. PICK T : s \in Seq(T) BY DEF Frames, IsSeq
  <1>4. n # 0 /\ f = s[1] /\ t \in Seq(T) /\ Len(t) = n - 1 /\ s = <<f>> \o t
    BY ONLY <1>1, <1>2, <1>3, s # <<>>
  <1>5. PICK m \in Nat : m = n - 1 BY ONLY <1>4, n \in Nat
  <1>6. DOMAIN t = 1..m /\ IsSeq(t) /\ \A i \in 1..m : t[i] = s[i + 1]
    <2>1. IsSeq(t) BY ONLY <1>4, SeqIs
    <2>2. n \in Nat /\ 1..m = 1..(n - 1) BY <1>5
    <2> QED BY ONLY <1>1, <1>2, <1>3, <1>4, <1>5, <2>1, <2>2, s # <<>>
  <1>7. /\ \A i \in 1..n : FrameOK(s[i])
        /\ \A i \in 1..n : /\ s[i].call \in {"next", "peek"} <=> i = n
                           /\ s[i].call = "load" => i < n /\ s[i + 1].call = "stream"
    BY ONLY <1>2, Frames(s) DEF Frames, Placed
  <1>8. 1 \in 1..n /\ \A i \in 1..m : i + 1 \in 1..n BY ONLY <1>4, <1>5, n \in Nat
  <1>9. FrameOK(f) BY ONLY <1>4, <1>7, <1>8
  <1>10. Frames(t)
    <2>1. \A i \in 1..m : FrameOK(t[i]) BY ONLY <1>6, <1>7, <1>8
    <2>2. Placed(t)
      <3>0. Len(t) = m BY ONLY <1>4, <1>5
      <3>1. SUFFICES ASSUME NEW i \in 1..m
                     PROVE  /\ t[i].call \in {"next", "peek"} <=> i = m
                            /\ t[i].call = "load" => i < m /\ t[i + 1].call = "stream"
        BY <1>6, <3>0 DEF Placed
      <3>2. i + 1 \in 1..n /\ t[i] = s[i + 1] BY ONLY <1>6, <1>8, <3>1
      <3>3. ASSUME i + 1 < n PROVE t[i + 1] = s[(i + 1) + 1]
        <4>1. i + 1 \in 1..m BY ONLY <1>5, <3>1, <3>3, n \in Nat
        <4> QED BY ONLY <1>6, <4>1
      <3>4. (i + 1 = n <=> i = m) /\ (i + 1 < n => i < m) BY ONLY <1>5, <3>1, n \in Nat
      <3> QED BY ONLY <1>7, <3>2, <3>3, <3>4
    <2> QED BY ONLY <1>6, <2>1, <2>2 DEF Frames
  <1>11. f.call \in {"next", "peek"} <=> t = <<>>
    <2>1. f.call \in {"next", "peek"} <=> n = 1 BY ONLY <1>4, <1>7, <1>8
    <2> QED BY ONLY <1>4, <2>1
  <1>12. f.call = "load" => t # <<>> /\ Head(t).call = "stream"
    <2>1. SUFFICES ASSUME f.call = "load" PROVE t # <<>> /\ Head(t).call = "stream" OBVIOUS
    <2>2. 1 < n /\ s[1 + 1].call = "stream" BY ONLY <1>4, <1>7, <1>8, <2>1
    <2>3. 1 \in 1..m BY ONLY <1>5, <2>2, n \in Nat
    <2>4. t[1] = s[1 + 1] /\ t # <<>> BY ONLY <1>6, <2>3
    <2>5. Head(t) = t[1] BY ONLY <1>4, <2>4
    <2> QED BY ONLY <2>2, <2>4, <2>5
  <1>13. Held(f) \in Nat BY ONLY <1>9, HeldIs
  <1>14. AllHeld(t) \in Nat BY ONLY <1>10, AmountsAre DEF Frames
  <1>15. AllHeld(<<f>> \o t) = Held(f) + AllHeld(t) BY ONLY <1>9, <1>10, <1>11, <1>12, PushIs
  <1> QED BY ONLY <1>1, <1>4, <1>9, <1>10, <1>11, <1>12, <1>13, <1>14, <1>15

-----------------------------------------------------------------------------
(* Frames and nodes that are made *)

\* The fields of a frame, and of one whose parts or key are others.
LEMMA FrameIs ==
    ASSUME NEW frame, FrameOK(frame)
    PROVE  /\ Nodes(frame.kids) /\ Sized(frame.key)
           /\ SizeOf(frame.kids) \in Nat /\ Len(frame.kids) \in Nat
           /\ \A kids, key :
                 /\ [frame EXCEPT !.kids = kids] =
                       [call |-> frame.call, value |-> frame.value, kids |-> kids, key |-> frame.key]
                 /\ [frame EXCEPT !.key = key] =
                       [call |-> frame.call, value |-> frame.value, kids |-> frame.kids, key |-> key]
  <1>1. Nodes(frame.kids) /\ Sized(frame.key) BY DEF FrameOK
  <1>2. SizeOf(frame.kids) \in Nat /\ Len(frame.kids) \in Nat BY ONLY <1>1, SizesAre
  <1>3. PICK a, b, c, d : frame = [call |-> a, value |-> b, kids |-> c, key |-> d] BY DEF FrameOK
  <1> QED BY <1>1, <1>2, <1>3

\* A NULL holds nothing.
LEMMA NoNodeIs == Sized(NoNode) /\ NoNode.size = 0
  BY DEF NoNode, Sized

\* A call that begins holds nothing.
LEMMA NewFrameIs ==
    ASSUME NEW call \in {"next", "peek", "load", "def", "array", "dict"}, NEW value
    PROVE  FrameOK(Frame(call, value)) /\ Frame(call, value).call = call
           /\ Frame(call, value).key = NoNode /\ Held(Frame(call, value)) = 0
  <1>1. PICK f : f = Frame(call, value) OBVIOUS
  <1>2. f.call = call /\ f.value = value /\ f.kids = <<>> /\ f.key = NoNode BY <1>1 DEF Frame
  <1>3. f = [call |-> f.call, value |-> f.value, kids |-> f.kids, key |-> f.key]
    BY <1>1 DEF Frame
  <1>4. FrameOK(f) BY ONLY <1>2, <1>3, NoNodeIs, NoNodes, call # "stream" DEF FrameOK
  <1>5. Held(f) = 0 BY ONLY <1>2, NoNodeIs, NoNodes DEF Held
  <1> QED BY ONLY <1>1, <1>2, <1>4, <1>5

\* A node without parts, and the null object, which is not allocated.
LEMMA NodeIs ==
    ASSUME NEW type, NEW value
    PROVE  /\ Sized(Node(type, value)) /\ Node(type, value).size = 1
           /\ type # "Name" => /\ Sized([Node(type, value) EXCEPT !.size = 0])
                               /\ [Node(type, value) EXCEPT !.size = 0].size = 0
  BY DEF Node, Sized

\* A node with parts has the size of its parts, and its own.
LEMMA WholeIs ==
    ASSUME NEW kids, Nodes(kids)
    PROVE  /\ ArrayNode(kids).size = 1 + SizeOf(kids) /\ Sized(ArrayNode(kids))
           /\ DictNode(kids).size = 1 + Len(kids) + SizeOf(kids) /\ Sized(DictNode(kids))
  <1>1. SizeOf(kids) \in Nat /\ Len(kids) \in Nat BY SizesAre
  <1>2. ArrayNode(kids).size = 1 + SizeOf(kids) /\ ArrayNode(kids).type = "Array" BY DEF ArrayNode
  <1>3. DictNode(kids).size = 1 + Len(kids) + SizeOf(kids) /\ DictNode(kids).type = "Dict"
    BY DEF DictNode
  <1> QED BY ONLY <1>1, <1>2, <1>3 DEF Sized

\* So has one around another, and an entry of a dictionary is its value.
LEMMA WrapIs ==
    ASSUME NEW node, node.size \in Nat, NEW value, NEW type \in {"Def", "Stream"}
    PROVE  /\ Wrap(type, value, node).size = 1 + node.size /\ Sized(Wrap(type, value, node))
           /\ Entry(value, node).size = node.size
  BY DEF Wrap, Entry, Sized

-----------------------------------------------------------------------------
(* What the actions do to the calls under way *)

\* A call is made.
LEMMA CallSound ==
    ASSUME Sound, NEW f, FrameOK(f), Held(f) = 0, f.key = NoNode,
           f.call \in {"next", "peek"} <=> stack = <<>>,
           f.call = "load" => stack # <<>> /\ Top.call = "stream",
           stack' = <<f>> \o stack, ctl # "return", peeked = NoNode,
           ctl' = "parse" \/ (ctl' = "loop" /\ f.call \in {"array", "dict"}),
           UNCHANGED <<ret, peeked, live, got, lost>>
    PROVE  Sound'
  <1>1. Frames(stack) BY DEF Sound
  <1>2. Frames(<<f>> \o stack) /\ <<f>> \o stack # <<>> /\ Head(<<f>> \o stack) = f
        /\ AllHeld(<<f>> \o stack) = Held(f) + AllHeld(stack)
    BY <1>1, PushIs DEF Top
  <1>3. AllHeld(stack) \in Nat BY ONLY <1>1, AmountsAre DEF Frames
  <1>4. Frames(stack') /\ stack' # <<>> /\ Head(stack') = f /\ AllHeld(stack') = AllHeld(stack)
    BY ONLY <1>2, <1>3, Held(f) = 0, stack' = <<f>> \o stack
  <1>5. ret = NoNode BY DEF Sound, Control
  <1>6. Control' BY <1>4, <1>5 DEF Control, Top
  <1> QED BY <1>4, <1>6 DEF Sound

\* The handler of an object without parts is done.
LEMMA ReturnSound ==
    ASSUME Sound, ctl = "parse", ctl' = "return", Sized(ret'), live' = live + ret'.size,
           UNCHANGED <<stack, peeked, got, lost>>
    PROVE  Sound'
  <1>1. stack # <<>> /\ ret = NoNode /\ peeked = NoNode BY DEF Sound, Control
  <1>2. Control' BY <1>1 DEF Control
  <1>3. ret.size = 0 BY <1>1, NoNodeIs
  <1>4. live' = AllHeld(stack) + ret'.size + peeked.size + got + lost
    <2>1. AllHeld(stack) \in Nat BY AmountsAre DEF Sound, Frames
    <2>2. live = AllHeld(stack) + ret.size + peeked.size + got + lost BY DEF Sound
    <2>3. ret'.size \in Nat BY DEF Sized
    <2>4. peeked.size \in Nat /\ got \in Nat /\ lost \in Nat BY DEF Sound
    <2> QED BY ONLY <1>3, <2>1, <2>2, <2>3, <2>4, live' = live + ret'.size
  <1>5. UNCHANGED <<stack, peeked, got, lost>> OBVIOUS
  <1>6. /\ Frames(stack) /\ peeked.size \in Nat /\ got \in Nat /\ lost \in Nat BY DEF Sound
  <1> QED BY ONLY <1>2, <1>4, <1>5, <1>6, Sized(ret') DEF Sound

\* The innermost call gets its part, or goes without it.
LEMMA ReplaceSound ==
    ASSUME Sound, ctl = "return", stack # <<>>, Top.call \in {"array", "dict"},
           NEW f, FrameOK(f), f.call = Top.call,
           stack' = <<f>> \o Tail(stack), ret' = NoNode,
           ctl' = "parse" \/ (ctl' \in {"loop", "finish"} /\ f.key = NoNode),
           lost' \in Nat,
           live' = live - Held(Top) - ret.size - lost + Held(f) + lost',
           UNCHANGED <<peeked, got>>
    PROVE  Sound'
  <1>1. Frames(stack) BY DEF Sound
  <1>2. PICK t : t = Tail(stack) OBVIOUS
  <1>3. /\ Frames(t) /\ AllHeld(t) \in Nat /\ Held(Top) \in Nat
        /\ AllHeld(stack) = Held(Top) + AllHeld(t) /\ t # <<>>
    BY <1>1, <1>2, PopIs DEF Top
  <1>4. /\ Frames(<<f>> \o t) /\ <<f>> \o t # <<>> /\ Head(<<f>> \o t) = f
        /\ AllHeld(<<f>> \o t) = Held(f) + AllHeld(t)
    BY <1>3, PushIs
  <1>5. Frames(stack') /\ stack' # <<>> /\ Head(stack') = f /\ AllHeld(stack') = Held(f) + AllHeld(t)
    BY ONLY <1>2, <1>4, stack' = <<f>> \o Tail(stack)
  <1>6. Control'
    <2>1. peeked = NoNode BY DEF Sound, Control
    <2> QED BY <1>5, <2>1 DEF Control, Top
  <1>7. Sized(ret') /\ ret'.size = 0 BY NoNodeIs
  <1>8. live' = AllHeld(stack') + ret'.size + peeked.size + got + lost'
    <2>1. live = AllHeld(stack) + ret.size + peeked.size + got + lost BY DEF Sound
    <2>2. ret.size \in Nat /\ peeked.size \in Nat /\ got \in Nat /\ lost \in Nat BY DEF Sound, Sized
    <2>3. Held(f) \in Nat BY HeldIs
    <2>4. PICK a, b, c, d, e, r, p : /\ a = AllHeld(stack) /\ b = AllHeld(stack') /\ c = AllHeld(t)
                                    /\ d = Held(Top) /\ e = Held(f) /\ r = ret.size /\ p = peeked.size
      OBVIOUS
    <2>5. /\ a = d + c /\ b = e + c /\ live = a + r + p + got + lost
          /\ live' = live - d - r - lost + e + lost'
      BY ONLY <1>3, <1>5, <2>1, <2>4, live' = live - Held(Top) - ret.size - lost + Held(f) + lost'
    <2>6. c \in Nat /\ d \in Nat /\ e \in Nat /\ r \in Nat /\ p \in Nat
      BY ONLY <1>3, <2>2, <2>3, <2>4
    <2>7. live' = b + 0 + p + got + lost' BY ONLY <2>2, <2>5, <2>6, lost' \in Nat
    <2> QED BY ONLY <1>7, <2>4, <2>7
  <1>9. peeked' = peeked /\ got' = got OBVIOUS
  <1>10. peeked.size \in Nat /\ got \in Nat BY DEF Sound
  <1> QED BY ONLY <1>5, <1>6, <1>7, <1>8, <1>9, <1>10, lost' \in Nat DEF Sound

\* The innermost call returns.
LEMMA PopSound ==
    ASSUME Sound, stack # <<>>, stack' = Tail(stack), Control', Sized(ret'),
           peeked'.size \in Nat, got' \in Nat, lost' \in Nat,
           live' = live - Held(Top) - ret.size - got - lost + ret'.size + peeked'.size + got' + lost'
    PROVE  Sound'
  <1>1. Frames(stack) BY DEF Sound
  <1>2. PICK t : t = Tail(stack) OBVIOUS
  <1>3. /\ Frames(t) /\ AllHeld(t) \in Nat /\ Held(Top) \in Nat
        /\ AllHeld(stack) = Held(Top) + AllHeld(t)
    BY <1>1, <1>2, PopIs DEF Top
  <1>4. peeked = NoNode BY DEF Sound, Control
  <1>5. peeked.size = 0 BY <1>4, NoNodeIs
  <1>6. live' = AllHeld(t) + ret'.size + peeked'.size + got' + lost'
    <2>1. live = AllHeld(stack) + ret.size + peeked.size + got + lost BY DEF Sound
    <2>2. ret.size \in Nat /\ ret'.size \in Nat /\ got \in Nat /\ lost \in Nat BY DEF Sound, Sized
    <2>3. PICK a, c, d, r, r1, p1 : /\ a = AllHeld(stack) /\ c = AllHeld(t) /\ d = Held(Top)
                                   /\ r = ret.size /\ r1 = ret'.size /\ p1 = peeked'.size
      OBVIOUS
    <2>4. /\ a = d + c /\ live = a + r + 0 + got + lost
          /\ live' = live - d - r - got - lost + r1 + p1 + got' + lost'
      BY <1>3, <1>5, <2>1, <2>3
    <2>5. c \in Nat /\ d \in Nat /\ r \in Nat /\ r1 \in Nat /\ p1 \in Nat BY <1>3, <2>2, <2>3
    <2>6. live' = c + r1 + p1 + got' + lost'
      BY ONLY <2>2, <2>4, <2>5, got' \in Nat, lost' \in Nat
    <2> QED BY ONLY <2>3, <2>6
  <1>7. stack' = t BY <1>2
  <1> QED BY ONLY <1>3, <1>6, <1>7, Control', Sized(ret'), peeked'.size \in Nat, got' \in Nat,
                  lost' \in Nat
          DEF Sound

-----------------------------------------------------------------------------
(* The actions *)

\* Where something is awaited, a call is under way.
LEMMA Awaited ==
    ASSUME Sound
    PROVE  /\ ctl \notin {"idle", "destroyed"} => stack # <<>> /\ FrameOK(Top) /\ Held(Top) \in Nat
           /\ ctl \notin {"idle", "destroyed"} /\ Top.call \notin {"next", "peek"} => Tail(stack) # <<>>
           /\ Sized(ret) /\ ret.size \in Nat /\ peeked.size \in Nat /\ got \in Nat /\ lost \in Nat
           /\ live \in Nat
  <1>1. Frames(stack) /\ Control BY DEF Sound
  <1>2. ASSUME ctl \notin {"idle", "destroyed"}
        PROVE  stack # <<>> /\ FrameOK(Top) /\ Held(Top) \in Nat
               /\ (Top.call \notin {"next", "peek"} => Tail(stack) # <<>>)
    <2>1. stack # <<>> BY <1>1, <1>2 DEF Control
    <2> QED BY <1>1, <2>1, PopIs DEF Top
  <1>3. /\ Sized(ret) /\ ret.size \in Nat /\ peeked.size \in Nat /\ got \in Nat /\ lost \in Nat
        /\ live = AllHeld(stack) + ret.size + peeked.size + got + lost
    BY DEF Sound, Sized
  <1>4. AllHeld(stack) \in Nat BY ONLY <1>1, AmountsAre DEF Frames
  <1>5. live \in Nat BY ONLY <1>3, <1>4
  <1> QED BY ONLY <1>2, <1>3, <1>5

\* cos_obj_parser_next_object and cos_obj_parser_peek_object: a peeked node
\* goes to the client.
LEMMA BeginSound ==
    ASSUME Sound, NEW call, NEW w, Begin(call, w),
           (ctl = "idle" /\ call \in {"next", "peek"}) \/ (ctl = "length" /\ call = "load")
    PROVE  Sound'
  <1>1. Control BY DEF Sound
  <1>2. CASE peeked = NoNode
    <2>1. PICK f : f = Frame(call, Unread(w)) OBVIOUS
    <2>2. Descend(f, "parse", w) BY <1>2, <2>1 DEF Begin
    <2>3. FrameOK(f) /\ f.call = call /\ f.key = NoNode /\ Held(f) = 0 BY <2>1, NewFrameIs
    <2>4. /\ stack' = <<f>> \o stack /\ ctl' = "parse"
          /\ UNCHANGED <<ret, peeked, live, got, lost>>
      BY <2>2 DEF Descend
    <2>5. f.call \in {"next", "peek"} <=> stack = <<>> BY <1>1, <2>3 DEF Control
    <2>6. f.call = "load" => stack # <<>> /\ Top.call = "stream" BY <1>1, <2>3 DEF Control
    <2>7. ctl # "return" OBVIOUS
    <2> QED BY ONLY Sound, <1>2, <2>3, <2>4, <2>5, <2>6, <2>7, CallSound
  <1>3. CASE peeked # NoNode
    <2>1. stack = <<>> /\ ret = NoNode /\ call \in {"next", "peek"} BY <1>1, <1>3 DEF Control
    <2>2. /\ ctl' = "idle" /\ peeked' = (IF call = "peek" THEN peeked ELSE NoNode)
          /\ got' = (IF call = "peek" THEN got ELSE got + peeked.size)
          /\ UNCHANGED <<stack, ret, live, lost>>
      BY <1>3, <2>1 DEF Begin
    <2>3. Control' BY <2>1, <2>2 DEF Control
    <2>4. Sized(ret) /\ ret.size \in Nat /\ peeked.size \in Nat /\ got \in Nat /\ lost \in Nat
      BY Awaited
    <2>5. live = AllHeld(stack) + ret.size + peeked.size + got + lost /\ Frames(stack) BY DEF Sound
    <2>6. AllHeld(stack) \in Nat BY ONLY <2>5, AmountsAre DEF Frames
    <2>7. /\ peeked'.size \in Nat /\ got' \in Nat
          /\ live = AllHeld(stack) + ret.size + peeked'.size + got' + lost
      <3>1. CASE call = "peek" BY ONLY <2>2, <2>4, <2>5, <3>1
      <3>2. CASE call # "peek"
        <4>1. peeked'.size = 0 BY <2>2, <3>2, NoNodeIs
        <4>2. got' = got + peeked.size BY <2>2, <3>2
        <4> QED BY ONLY <2>4, <2>5, <2>6, <4>1, <4>2
      <3> QED BY <3>1, <3>2
    <2> QED BY ONLY <2>2, <2>3, <2>4, <2>5, <2>7 DEF Sound
  <1> QED BY <1>2, <1>3

\* cos_obj_parser_destroy releases the peeked node.
LEMMA DestroySound == ASSUME Sound, Destroy PROVE Sound'
  <1>1. /\ ctl = "idle" /\ ctl' = "destroyed" /\ peeked' = NoNode
        /\ live' = (IF peeked = NoNode THEN live ELSE live - peeked.size)
        /\ UNCHANGED <<stack, ret, got, lost>>
    BY DEF Destroy
  <1>2. Control' /\ Control BY <1>1 DEF Sound, Control
  <1>3. live' = live - peeked.size
    <2>1. live \in Nat BY Awaited
    <2>2. NoNode.size = 0 BY NoNodeIs
    <2> QED BY <1>1, <2>1, <2>2
  <1>4. Sized(ret) /\ ret.size \in Nat /\ peeked.size \in Nat /\ got \in Nat /\ lost \in Nat
    BY Awaited
  <1>5. live = AllHeld(stack) + ret.size + peeked.size + got + lost /\ Frames(stack) BY DEF Sound
  <1>6. AllHeld(stack) \in Nat BY ONLY <1>5, AmountsAre DEF Frames
  <1>7. peeked'.size = 0 BY <1>1, NoNodeIs
  <1>8. live' = AllHeld(stack) + ret.size + 0 + got + lost BY ONLY <1>3, <1>4, <1>5, <1>6
  <1> QED BY ONLY <1>1, <1>2, <1>4, <1>5, <1>7, <1>8 DEF Sound

\* A result goes to the client, or is kept for it.
LEMMA ReturnToClientSound == ASSUME Sound, ReturnToClient PROVE Sound'
  <1>1. /\ ctl = "return" /\ Top.call \in {"next", "peek", "load"}
        /\ stack' = Tail(stack) /\ ret' = NoNode
        /\ ctl' = (IF Top.call = "load" THEN "seek" ELSE "idle")
        /\ peeked' = (IF Top.call = "peek" THEN ret ELSE peeked)
        /\ got' = (IF Top.call = "peek" \/ ret = NoNode THEN got ELSE got + ret.size)
        /\ UNCHANGED <<live, lost>>
    BY DEF ReturnToClient
  <1>2. stack # <<>> /\ FrameOK(Top) /\ Held(Top) \in Nat BY <1>1, Awaited
  <1>3. /\ Top.call \in {"next", "peek"} <=> Tail(stack) = <<>>
        /\ Top.call = "load" => Tail(stack) # <<>> /\ Head(Tail(stack)).call = "stream"
    BY <1>2, PopIs DEF Sound, Top
  <1>4. peeked = NoNode BY <1>2 DEF Sound, Control
  <1>5. Control' BY <1>1, <1>3, <1>4 DEF Control, Top
  <1>6. Held(Top) = 0
    <2>1. Top.kids = <<>> /\ Top.key = NoNode /\ Top.call # "dict" BY <1>1, <1>2 DEF FrameOK
    <2> QED BY ONLY <2>1, NoNodes, NoNodeIs DEF Held
  <1>7. ret.size \in Nat /\ peeked.size \in Nat /\ got \in Nat /\ lost \in Nat /\ live \in Nat BY Awaited
  <1>8. /\ peeked'.size \in Nat /\ got' \in Nat
        /\ live = live - 0 - ret.size - got - lost + 0 + peeked'.size + got' + lost
    <2>1. NoNode.size = 0 BY NoNodeIs
    <2>2. CASE Top.call = "peek" BY ONLY <1>1, <1>7, <2>2
    <2>3. CASE Top.call # "peek"
      <3>1. peeked'.size = 0 BY ONLY <1>1, <1>4, <2>1, <2>3
      <3>2. got' = got + ret.size BY ONLY <1>1, <1>7, <2>1, <2>3
      <3> QED BY ONLY <1>7, <3>1, <3>2
    <2> QED BY <2>2, <2>3
  <1>9. Sized(ret') /\ ret'.size = 0 BY <1>1, NoNodeIs
  <1>10. live' = live - Held(Top) - ret.size - got - lost + ret'.size + peeked'.size + got' + lost'
    BY ONLY <1>1, <1>6, <1>8, <1>9
  <1>11. lost' \in Nat BY <1>1, <1>7
  <1> QED BY ONLY Sound, <1>1, <1>2, <1>5, <1>8, <1>9, <1>10, <1>11, PopSound

\* A node that is made, or none, goes to the innermost call.
LEMMA HandedOver ==
    ASSUME Sound, ctl = "parse", NEW node, Sized(node), NEW w,
           ReturnNew(node, w) \/ (ReturnNull(w) /\ node = NoNode)
    PROVE  Sound'
  <1>1. /\ ctl' = "return" /\ ret' = node /\ UNCHANGED <<stack, peeked, got, lost>>
        /\ live' = live + node.size
    <2>1. NoNode.size = 0 /\ live \in Nat BY NoNodeIs, Awaited
    <2>2. ReturnNull(w) => live' = live + NoNode.size BY <2>1 DEF ReturnNull
    <2>3. Return(node, w) /\ live' = live + node.size BY <2>2 DEF ReturnNew, ReturnNull
    <2> QED BY <2>3 DEF Return
  <1> QED BY ONLY <1>1, Sound, ctl = "parse", Sized(node), ReturnSound

\* cos_next_object_: an object without parts, or a call for one with parts.
LEMMA ParseObjectSound == ASSUME Sound, ParseObject PROVE Sound'
  <1>1. ctl = "parse" BY DEF ParseObject
  <1>2. ASSUME NEW w, ReturnNull(w) PROVE Sound' BY ONLY <1>1, <1>2, Sound, NoNodeIs, HandedOver
  <1>3. ASSUME NEW type, NEW value, NEW w, ReturnNew(Node(type, value), w) PROVE Sound'
    <2>1. Sized(Node(type, value)) BY NodeIs
    <2> QED BY ONLY <1>1, <1>3, <2>1, Sound, HandedOver
  <1>4. ASSUME NEW call \in {"def", "array", "dict"}, NEW value, NEW w,
               Descend(Frame(call, value), "parse", w)
               \/ (call # "def" /\ Descend(Frame(call, value), "loop", w))
        PROVE  Sound'
    <2>1. PICK f : f = Frame(call, value) OBVIOUS
    <2>2. FrameOK(f) /\ f.call = call /\ f.key = NoNode /\ Held(f) = 0 BY <2>1, NewFrameIs
    <2>3. /\ stack' = <<f>> \o stack /\ UNCHANGED <<ret, peeked, live, got, lost>>
          /\ ctl' = "parse" \/ (ctl' = "loop" /\ f.call \in {"array", "dict"})
      BY <1>4, <2>1, <2>2 DEF Descend
    <2>4. stack # <<>> /\ peeked = NoNode /\ ctl # "return" BY <1>1 DEF Sound, Control
    <2>5. f.call \in {"next", "peek"} <=> stack = <<>> BY <2>2, <2>4
    <2>6. f.call # "load" BY <2>2
    <2> QED BY ONLY Sound, <2>2, <2>3, <2>4, <2>5, <2>6, CallSound
  <1>5. CASE ParseUnexpected BY <1>2, <1>5 DEF ParseUnexpected
  <1>6. CASE ParseName BY <1>3, <1>6 DEF ParseName
  <1>7. CASE ParseReal BY <1>2, <1>3, <1>7 DEF ParseReal
  <1>8. CASE ParseBool BY <1>2, <1>3, <1>8 DEF ParseBool
  <1>9. CASE ParseNull
    <2>1. PICK node : node = [Node("Null", 0) EXCEPT !.size = 0] OBVIOUS
    <2>2. Sized(node) BY <2>1, NodeIs
    <2>3. ReturnNull(Ahead(0)) \/ ReturnNew(node, Ahead(0)) BY <1>9, <2>1 DEF ParseNull
    <2> QED BY ONLY <1>1, <1>2, <2>2, <2>3, Sound, HandedOver
  <1>10. CASE ParseInteger BY <1>3, <1>10 DEF ParseInteger
  <1>11. CASE ParseIndirectRef BY <1>2, <1>3, <1>11 DEF ParseIndirectRef
  <1>12. CASE ParseIndirectDef BY <1>2, <1>4, <1>12 DEF ParseIndirectDef
  <1>13. CASE ParseArray BY <1>4, <1>13 DEF ParseArray
  <1>14. CASE ParseDict BY <1>4, <1>14 DEF ParseDict
  <1> QED
    BY <1>5, <1>6, <1>7, <1>8, <1>9, <1>10, <1>11, <1>12, <1>13, <1>14 DEF ParseObject

\* cos_handle_indirect_def_ wraps the object it got.
LEMMA FinishIndirectDefSound == ASSUME Sound, FinishIndirectDef PROVE Sound'
  <1>1. /\ ctl = "return" /\ Top.call = "def" /\ stack' = Tail(stack)
        /\ ctl' = ctl /\ UNCHANGED <<peeked, got, lost>>
        /\ ret = NoNode => ret' = ret /\ live' = live
        /\ ret # NoNode => ret' = Wrap("Def", Top.value, ret) /\ live' = live + 1
    BY DEF FinishIndirectDef
  <1>2. stack # <<>> /\ FrameOK(Top) /\ Tail(stack) # <<>> BY <1>1, Awaited
  <1>3. Held(Top) = 0
    <2>1. Top.kids = <<>> /\ Top.key = NoNode /\ Top.call # "dict" BY <1>1, <1>2 DEF FrameOK
    <2> QED BY ONLY <2>1, NoNodes, NoNodeIs DEF Held
  <1>4. Control'
    <2>1. peeked = NoNode BY <1>2 DEF Sound, Control
    <2> QED BY <1>1, <1>2, <2>1 DEF Control
  <1>5. Sized(ret) /\ ret.size \in Nat /\ peeked.size \in Nat /\ got \in Nat /\ lost \in Nat /\ live \in Nat
    BY Awaited
  <1>6. peeked.size = 0
    <2>1. peeked = NoNode BY <1>2 DEF Sound, Control
    <2> QED BY <2>1, NoNodeIs
  <1>7. Sized(ret') /\ live' = live - 0 - ret.size - got - lost + ret'.size + 0 + got + lost
    <2>1. CASE ret = NoNode BY ONLY <1>1, <1>5, <2>1
    <2>2. CASE ret # NoNode
      <3>1. Wrap("Def", Top.value, ret).size = 1 + ret.size /\ Sized(Wrap("Def", Top.value, ret))
        BY ONLY <1>5, WrapIs
      <3>2. ret'.size = 1 + ret.size /\ Sized(ret') /\ live' = live + 1 BY ONLY <1>1, <2>2, <3>1
      <3> QED BY ONLY <1>5, <3>2
    <2> QED BY <2>1, <2>2
  <1>8. /\ live' = live - Held(Top) - ret.size - got - lost + ret'.size + peeked'.size + got' + lost'
        /\ peeked'.size \in Nat /\ got' \in Nat /\ lost' \in Nat
    BY ONLY <1>1, <1>3, <1>5, <1>6, <1>7
  <1> QED BY ONLY Sound, <1>1, <1>2, <1>4, <1>7, <1>8, PopSound

\* The loop looks at the next token.
LEMMA LoopSound == ASSUME Sound, Loop PROVE Sound'
  <1>1. /\ ctl = "loop" /\ ctl' \in {"finish", "parse"}
        /\ UNCHANGED <<stack, ret, peeked, live, got, lost>>
    BY DEF Loop
  <1>2. Control' BY <1>1 DEF Sound, Control, Top
  <1> QED BY ONLY Sound, <1>1, <1>2 DEF Sound

\* An array gets an element, or ends where one failed.
LEMMA AddElementSound == ASSUME Sound, AddElement PROVE Sound'
  <1>1. ctl = "return" /\ Top.call = "array" /\ UNCHANGED <<live, lost>> BY DEF AddElement
  <1>2. stack # <<>> /\ FrameOK(Top) /\ Held(Top) \in Nat BY <1>1, Awaited
  <1>3. Sized(ret) /\ ret.size \in Nat /\ live \in Nat /\ lost \in Nat BY Awaited
  <1>4. Nodes(Top.kids) /\ SizeOf(Top.kids) \in Nat /\ Len(Top.kids) \in Nat BY <1>2, FrameIs
  <1>5. Top.key = NoNode BY <1>1, <1>2 DEF FrameOK
  <1>6. CASE ret = NoNode
    <2>1. /\ stack' = <<Top>> \o Tail(stack) /\ ctl' = "finish" /\ ret' = NoNode
          /\ UNCHANGED <<peeked, got>>
      BY <1>6 DEF AddElement, Replace, OnFailure
    <2>2. ret.size = 0 BY <1>6, NoNodeIs
    <2>3. live' = live - Held(Top) - ret.size - lost + Held(Top) + lost'
      BY ONLY <1>1, <1>2, <1>3, <2>2
    <2>4. lost' \in Nat BY <1>1, <1>3
    <2> QED BY ONLY Sound, <1>1, <1>2, <1>5, <2>1, <2>3, <2>4, ReplaceSound
  <1>7. CASE ret # NoNode
    <2>1. PICK f : f = [Top EXCEPT !.kids = Append(@, ret)] OBVIOUS
    <2>2. /\ stack' = <<f>> \o Tail(stack) /\ ctl' = "loop" /\ ret' = NoNode
          /\ UNCHANGED <<peeked, got>>
      BY <1>7, <2>1 DEF AddElement, Replace
    <2>3. PICK kids : kids = Append(Top.kids, ret) OBVIOUS
    <2>4. f = [call |-> Top.call, value |-> Top.value, kids |-> kids, key |-> Top.key]
      BY ONLY <1>2, <2>1, <2>3, FrameIs
    <2>5. Nodes(kids) /\ SizeOf(kids) = SizeOf(Top.kids) + ret.size
      BY ONLY <1>3, <1>4, <2>3, OneMoreNode
    <2>6. f.call = "array" /\ f.kids = kids /\ f.key = NoNode BY <1>1, <1>5, <2>4
    <2>7. FrameOK(f)
      <3>1. f = [call |-> f.call, value |-> f.value, kids |-> f.kids, key |-> f.key] BY <2>4
      <3> QED BY ONLY <2>5, <2>6, <3>1, NoNodeIs DEF FrameOK
    <2>8. Held(f) = Held(Top) + ret.size
      BY ONLY <1>1, <1>3, <1>4, <1>5, <2>5, <2>6, NoNodeIs DEF Held
    <2>9. live' = live - Held(Top) - ret.size - lost + Held(f) + lost'
      BY ONLY <1>1, <1>2, <1>3, <2>8
    <2>10. lost' \in Nat BY <1>1, <1>3
    <2>11. f.call = Top.call BY ONLY <1>1, <2>6
    <2> QED BY ONLY Sound, <1>1, <1>2, <2>2, <2>6, <2>7, <2>9, <2>10, <2>11, ReplaceSound
  <1> QED BY <1>6, <1>7

\* A dictionary gets a key, or ends where one failed.
LEMMA AddKeySound == ASSUME Sound, AddKey PROVE Sound'
  <1>1. ctl = "return" /\ Top.call = "dict" /\ Top.key = NoNode /\ UNCHANGED <<live, lost>>
    BY DEF AddKey
  <1>2. stack # <<>> /\ FrameOK(Top) /\ Held(Top) \in Nat BY <1>1, Awaited
  <1>3. Sized(ret) /\ ret.size \in Nat /\ live \in Nat /\ lost \in Nat BY Awaited
  <1>4. Nodes(Top.kids) /\ SizeOf(Top.kids) \in Nat /\ Len(Top.kids) \in Nat BY <1>2, FrameIs
  <1>5. CASE ret = NoNode
    <2>1. /\ stack' = <<Top>> \o Tail(stack) /\ ctl' = "finish" /\ ret' = NoNode
          /\ UNCHANGED <<peeked, got>>
      BY <1>5 DEF AddKey, Replace, OnFailure
    <2>2. ret.size = 0 BY <1>5, NoNodeIs
    <2>3. live' = live - Held(Top) - ret.size - lost + Held(Top) + lost'
      BY ONLY <1>1, <1>2, <1>3, <2>2
    <2>4. lost' \in Nat BY <1>1, <1>3
    <2> QED BY ONLY Sound, <1>1, <1>2, <2>1, <2>3, <2>4, ReplaceSound
  <1>6. CASE ret # NoNode
    <2>1. PICK f : f = [Top EXCEPT !.key = ret] OBVIOUS
    <2>2. /\ stack' = <<f>> \o Tail(stack) /\ ctl' = "parse" /\ ret' = NoNode
          /\ UNCHANGED <<peeked, got>>
      BY <1>6, <2>1 DEF AddKey, Replace
    <2>3. f = [call |-> Top.call, value |-> Top.value, kids |-> Top.kids, key |-> ret]
      BY ONLY <1>2, <2>1, FrameIs
    <2>4. f.call = "dict" /\ f.kids = Top.kids /\ f.key = ret BY <1>1, <2>3
    <2>5. FrameOK(f)
      <3>1. f = [call |-> f.call, value |-> f.value, kids |-> f.kids, key |-> f.key] BY <2>3
      <3> QED BY ONLY <1>3, <1>4, <2>4, <3>1 DEF FrameOK
    <2>6. Held(f) = Held(Top) + ret.size
      BY ONLY <1>1, <1>3, <1>4, <2>4, NoNodeIs DEF Held
    <2>7. live' = live - Held(Top) - ret.size - lost + Held(f) + lost'
      BY ONLY <1>1, <1>2, <1>3, <2>6
    <2>8. lost' \in Nat BY <1>1, <1>3
    <2>9. f.call = Top.call BY ONLY <1>1, <2>4
    <2> QED BY ONLY Sound, <1>1, <1>2, <2>2, <2>5, <2>7, <2>8, <2>9, ReplaceSound
  <1> QED BY <1>5, <1>6

\* A dictionary gets a value.  Without one the key is released; a value that
\* is replaced, and its key, are not.
LEMMA AddValueSound == ASSUME Sound, AddValue, ctl' # "undefined" PROVE Sound'
  <1>1. ctl = "return" /\ Top.call = "dict" BY DEF AddValue
  <1>2. stack # <<>> /\ FrameOK(Top) /\ Held(Top) \in Nat BY <1>1, Awaited
  <1>3. Sized(ret) /\ ret.size \in Nat /\ live \in Nat /\ lost \in Nat BY Awaited
  <1>4. /\ Nodes(Top.kids) /\ Sized(Top.key)
        /\ SizeOf(Top.kids) \in Nat /\ Len(Top.kids) \in Nat
    BY <1>2, FrameIs
  <1>5. PICK done : done = [Top EXCEPT !.key = NoNode] OBVIOUS
  <1>6. PICK entry : entry = Entry(Top.key.value, ret) OBVIOUS
  <1>7. entry.size = ret.size BY ONLY <1>3, <1>6, WrapIs
  <1>8. done = [call |-> Top.call, value |-> Top.value, kids |-> Top.kids, key |-> NoNode]
    BY ONLY <1>2, <1>5, FrameIs
  <1>9. Held(Top) = SizeOf(Top.kids) + Top.key.size + Len(Top.kids) /\ Top.key.size \in Nat
    BY ONLY <1>1, <1>4 DEF Held, Sized
  <1>10. ASSUME NEW kids, Nodes(kids), NEW f,
                f = [call |-> "dict", value |-> Top.value, kids |-> kids, key |-> NoNode]
         PROVE  FrameOK(f) /\ f.call = Top.call /\ f.key = NoNode
                /\ Held(f) = SizeOf(kids) + Len(kids)
    <2>1. f.call = "dict" /\ f.kids = kids /\ f.key = NoNode BY <1>10
    <2>2. f = [call |-> f.call, value |-> f.value, kids |-> f.kids, key |-> f.key] BY <1>10
    <2>3. FrameOK(f) BY ONLY <1>10, <2>1, <2>2, NoNodeIs DEF FrameOK
    <2>4. SizeOf(kids) \in Nat /\ Len(kids) \in Nat BY ONLY <1>10, SizesAre
    <2>5. Held(f) = SizeOf(kids) + Len(kids) BY ONLY <2>1, <2>4, NoNodeIs DEF Held
    <2> QED BY ONLY <1>1, <2>1, <2>3, <2>5
  <1>11. CASE ret = NoNode
    <2>1. /\ stack' = <<done>> \o Tail(stack) /\ ctl' = "finish" /\ ret' = NoNode
          /\ UNCHANGED <<peeked, got, lost>> /\ live' = live - Top.key.size
      BY <1>5, <1>11 DEF AddValue, Replace, OnFailure, KeyReleased
    <2>2. /\ FrameOK(done) /\ done.call = Top.call /\ done.key = NoNode
          /\ Held(done) = SizeOf(Top.kids) + Len(Top.kids)
      BY ONLY <1>1, <1>4, <1>8, <1>10
    <2>3. ret.size = 0 BY <1>11, NoNodeIs
    <2>4. live' = live - Held(Top) - ret.size - lost + Held(done) + lost'
      <3>1. PICK a, n, k, h, g : /\ a = SizeOf(Top.kids) /\ n = Len(Top.kids) /\ k = Top.key.size
                                /\ h = Held(Top) /\ g = Held(done)
        OBVIOUS
      <3>2. /\ a \in Nat /\ n \in Nat /\ k \in Nat /\ h = a + k + n /\ g = a + n
            /\ live' = live - k /\ lost' = lost
        BY ONLY <1>4, <1>9, <2>1, <2>2, <3>1
      <3>3. live' = live - h - 0 - lost + g + lost' BY ONLY <1>3, <3>2
      <3> QED BY ONLY <2>3, <3>1, <3>3
    <2>5. lost' \in Nat BY <1>3, <2>1
    <2>6. Top.call \in {"array", "dict"} BY <1>1
    <2> QED BY ONLY Sound, <1>1, <1>2, <2>1, <2>2, <2>4, <2>5, <2>6, ReplaceSound
  <1>12. CASE ret # NoNode
    <2> DEFINE same == {i \in DOMAIN Top.kids : Top.kids[i].key = Top.key.value}
    <2>1. Top.key.type = "Name" BY <1>12 DEF AddValue
    <2>2. Top.key.size = 1 BY <1>4, <2>1 DEF Sized
    <2>3. CASE same = {}
      <3>1. PICK kids : kids = Append(Top.kids, entry) OBVIOUS
      <3>2. PICK f : f = [done EXCEPT !.kids = Append(@, entry)] OBVIOUS
      <3>3. /\ stack' = <<f>> \o Tail(stack) /\ ctl' = "loop" /\ ret' = NoNode
            /\ UNCHANGED <<peeked, got, live, lost>>
        BY <1>5, <1>6, <1>12, <2>1, <2>3, <3>2 DEF AddValue, Replace
      <3>4. f = [call |-> "dict", value |-> Top.value, kids |-> kids, key |-> NoNode]
        BY ONLY <1>1, <1>8, <3>1, <3>2
      <3>5. /\ Nodes(kids) /\ SizeOf(kids) = SizeOf(Top.kids) + ret.size
            /\ Len(kids) = Len(Top.kids) + 1
        BY ONLY <1>3, <1>4, <1>7, <3>1, OneMoreNode
      <3>6. /\ FrameOK(f) /\ f.call = Top.call /\ f.key = NoNode
            /\ Held(f) = SizeOf(kids) + Len(kids)
        BY ONLY <1>10, <3>4, <3>5
      <3>7. live' = live - Held(Top) - ret.size - lost + Held(f) + lost'
        <4>1. PICK a, n, r, h, g : /\ a = SizeOf(Top.kids) /\ n = Len(Top.kids) /\ r = ret.size
                                  /\ h = Held(Top) /\ g = Held(f)
          OBVIOUS
        <4>2. a \in Nat /\ n \in Nat /\ r \in Nat BY ONLY <1>3, <1>4, <4>1
        <4>3. h = a + 1 + n BY ONLY <1>9, <2>2, <4>1
        <4>4. g = (a + r) + (n + 1) BY ONLY <3>5, <3>6, <4>1
        <4>5. live' = live /\ lost' = lost BY <3>3
        <4>6. live' = live - h - r - lost + g + lost'
          BY ONLY <1>3, <4>2, <4>3, <4>4, <4>5
        <4> QED BY ONLY <4>1, <4>6
      <3>8. lost' \in Nat /\ Top.call \in {"array", "dict"} BY <1>1, <1>3, <3>3
      <3> QED BY ONLY Sound, <1>1, <1>2, <3>3, <3>6, <3>7, <3>8, ReplaceSound
    <2>4. CASE same # {}
      <3>1. PICK i : i = CHOOSE j \in same : TRUE OBVIOUS
      <3>2. i \in DOMAIN Top.kids BY <2>4, <3>1
      <3>3. PICK kids : kids = [Top.kids EXCEPT ![i] = entry] OBVIOUS
      <3>4. PICK f : f = [done EXCEPT !.kids[i] = entry] OBVIOUS
      <3>5. /\ stack' = <<f>> \o Tail(stack) /\ ctl' = "loop" /\ ret' = NoNode
            /\ UNCHANGED <<peeked, got, live>> /\ lost' = lost + 1 + Top.kids[i].size
        BY <1>5, <1>6, <1>12, <2>1, <2>4, <3>1, <3>4 DEF AddValue, Replace
      <3>6. f = [call |-> "dict", value |-> Top.value, kids |-> kids, key |-> NoNode]
        BY ONLY <1>1, <1>8, <3>3, <3>4
      <3>7. Top.kids[i].size \in Nat BY <1>4, <3>2 DEF Nodes
      <3>8. /\ Nodes(kids) /\ SizeOf(kids) = SizeOf(Top.kids) - Top.kids[i].size + ret.size
            /\ Len(kids) = Len(Top.kids)
        BY ONLY <1>3, <1>4, <1>7, <3>2, <3>3, OtherNode
      <3>9. /\ FrameOK(f) /\ f.call = Top.call /\ f.key = NoNode
            /\ Held(f) = SizeOf(kids) + Len(kids)
        BY ONLY <1>10, <3>6, <3>8
      <3>10. live' = live - Held(Top) - ret.size - lost + Held(f) + lost'
        <4>1. PICK a, n, r, h, g, k : /\ a = SizeOf(Top.kids) /\ n = Len(Top.kids) /\ r = ret.size
                                     /\ h = Held(Top) /\ g = Held(f) /\ k = Top.kids[i].size
          OBVIOUS
        <4>2. a \in Nat /\ n \in Nat /\ r \in Nat /\ k \in Nat BY ONLY <1>3, <1>4, <3>7, <4>1
        <4>3. h = a + 1 + n BY ONLY <1>9, <2>2, <4>1
        <4>4. g = (a - k + r) + n BY ONLY <3>8, <3>9, <4>1
        <4>5. live' = live /\ lost' = lost + 1 + k BY <3>5, <4>1
        <4>6. live' = live - h - r - lost + g + lost' BY ONLY <1>3, <4>2, <4>3, <4>4, <4>5
        <4> QED BY ONLY <4>1, <4>6
      <3>11. lost' \in Nat /\ Top.call \in {"array", "dict"} BY <1>1, <1>3, <3>5, <3>7
      <3> QED BY ONLY Sound, <1>1, <1>2, <3>5, <3>9, <3>10, <3>11, ReplaceSound
    <2> QED BY <2>3, <2>4
  <1> QED BY <1>11, <1>12

\* An array or a dictionary is made of its parts.
LEMMA FinishSound == ASSUME Sound, FinishArray \/ FinishDict PROVE Sound'
  <1>1. /\ ctl = "finish" /\ Top.call \in {"array", "dict"}
        /\ stack' = Tail(stack) /\ ctl' = "return" /\ live' = live + 1
        /\ UNCHANGED <<peeked, got, lost>>
        /\ ret' = IF Top.call = "array" THEN ArrayNode(Top.kids) ELSE DictNode(Top.kids)
    BY DEF FinishArray, FinishDict
  <1>2. stack # <<>> /\ FrameOK(Top) /\ Tail(stack) # <<>> BY <1>1, Awaited
  <1>3. Top.key = NoNode /\ ret = NoNode /\ peeked = NoNode BY <1>1 DEF Sound, Control
  <1>4. ret.size \in Nat /\ peeked.size \in Nat /\ got \in Nat /\ lost \in Nat /\ live \in Nat
    BY Awaited
  <1>5. Nodes(Top.kids) /\ SizeOf(Top.kids) \in Nat /\ Len(Top.kids) \in Nat BY <1>2, FrameIs
  <1>6. Control' BY <1>1, <1>2, <1>3 DEF Control
  <1>7. Sized(ret') /\ ret'.size = 1 + Held(Top)
    <2>1. /\ ArrayNode(Top.kids).size = 1 + SizeOf(Top.kids) /\ Sized(ArrayNode(Top.kids))
          /\ DictNode(Top.kids).size = 1 + Len(Top.kids) + SizeOf(Top.kids)
          /\ Sized(DictNode(Top.kids))
      BY ONLY <1>5, WholeIs
    <2>2. CASE Top.call = "array"
      <3>1. Held(Top) = SizeOf(Top.kids) BY ONLY <1>3, <1>5, <2>2, NoNodeIs DEF Held
      <3> QED BY ONLY <1>1, <2>1, <2>2, <3>1
    <2>3. CASE Top.call = "dict"
      <3>1. Held(Top) = SizeOf(Top.kids) + Len(Top.kids)
        BY ONLY <1>3, <1>5, <2>3, NoNodeIs DEF Held
      <3> QED BY ONLY <1>1, <1>5, <2>1, <2>3, <3>1
    <2> QED BY <1>1, <2>2, <2>3
  <1>8. ret.size = 0 /\ peeked.size = 0 BY <1>3, NoNodeIs
  <1>9. Held(Top) \in Nat BY ONLY <1>2, HeldIs
  <1>10. /\ live' = live - Held(Top) - ret.size - got - lost + ret'.size + peeked'.size + got' + lost'
         /\ peeked'.size \in Nat /\ got' \in Nat /\ lost' \in Nat
    BY ONLY <1>1, <1>4, <1>7, <1>8, <1>9
  <1> QED BY ONLY Sound, <1>1, <1>2, <1>6, <1>7, <1>10, PopSound

\* The dictionary of a stream becomes a part of it.
LEMMA BeginStreamSound == ASSUME Sound, BeginStream PROVE Sound'
  <1>1. PICK dict, f : /\ dict = DictNode(Top.kids)
                       /\ f = [Frame("stream", PosAfter(Ahead(0).buffer[1])) EXCEPT !.kids = <<dict>>]
    OBVIOUS
  <1>2. /\ ctl = "finish" /\ Top.call = "dict" /\ stack' = <<f>> \o Tail(stack)
        /\ ctl' = "length" /\ live' = live + 1
        /\ UNCHANGED <<ret, peeked, got, lost>>
    BY <1>1 DEF BeginStream
  <1>3. stack # <<>> /\ FrameOK(Top) /\ Held(Top) \in Nat BY <1>2, Awaited
  <1>4. Top.key = NoNode /\ ret = NoNode /\ peeked = NoNode BY <1>2, <1>3 DEF Sound, Control
  <1>5. Nodes(Top.kids) /\ SizeOf(Top.kids) \in Nat /\ Len(Top.kids) \in Nat BY <1>3, FrameIs
  <1>6. /\ f.call = "stream" /\ f.kids = <<dict>> /\ f.key = NoNode
        /\ f = [call |-> f.call, value |-> f.value, kids |-> f.kids, key |-> f.key]
    BY <1>1 DEF Frame
  <1>7. dict.size = 1 + Held(Top) /\ dict.size \in Nat
    <2>1. dict.size = 1 + Len(Top.kids) + SizeOf(Top.kids) BY ONLY <1>1, <1>5, WholeIs
    <2>2. Held(Top) = SizeOf(Top.kids) + Len(Top.kids) BY ONLY <1>2, <1>4, <1>5, NoNodeIs DEF Held
    <2> QED BY ONLY <1>5, <2>1, <2>2
  <1>8. Nodes(<<dict>>) /\ SizeOf(<<dict>>) = dict.size /\ Len(<<dict>>) = 1 BY ONLY <1>7, OneNode
  <1>9. FrameOK(f) BY ONLY <1>6, <1>8, NoNodeIs DEF FrameOK
  <1>10. Held(f) = 1 + Held(Top) BY ONLY <1>3, <1>6, <1>7, <1>8, NoNodeIs DEF Held
  <1>11. PICK t : t = Tail(stack) OBVIOUS
  <1>12. /\ Frames(t) /\ AllHeld(t) \in Nat /\ AllHeld(stack) = Held(Top) + AllHeld(t) /\ t # <<>>
    BY <1>2, <1>3, <1>11, PopIs DEF Sound, Top
  <1>13. /\ Frames(<<f>> \o t) /\ <<f>> \o t # <<>> /\ Head(<<f>> \o t) = f
         /\ AllHeld(<<f>> \o t) = Held(f) + AllHeld(t)
    BY ONLY <1>6, <1>9, <1>12, PushIs
  <1>14. /\ Frames(stack') /\ stack' # <<>> /\ Head(stack') = f
         /\ AllHeld(stack') = 1 + AllHeld(stack)
    BY ONLY <1>2, <1>3, <1>10, <1>11, <1>12, <1>13
  <1>15. Control' BY <1>2, <1>4, <1>6, <1>14 DEF Control, Top
  <1>16. live = AllHeld(stack) + ret.size + peeked.size + got + lost BY DEF Sound
  <1>17. Sized(ret) /\ ret.size \in Nat /\ peeked.size \in Nat /\ got \in Nat /\ lost \in Nat
    BY Awaited
  <1>18. AllHeld(stack) \in Nat BY ONLY <1>3, <1>12
  <1>19. live' = AllHeld(stack') + ret.size + peeked.size + got + lost
    <2>1. PICK a, b, r, p : a = AllHeld(stack) /\ b = AllHeld(stack') /\ r = ret.size /\ p = peeked.size
      OBVIOUS
    <2>2. a \in Nat /\ b = 1 + a /\ r \in Nat /\ p \in Nat /\ live = a + r + p + got + lost
      BY ONLY <1>14, <1>16, <1>17, <1>18, <2>1
    <2>3. live' = live + 1 BY <1>2
    <2>4. live' = b + r + p + got + lost BY ONLY <1>17, <2>2, <2>3
    <2> QED BY ONLY <2>1, <2>4
  <1> QED BY ONLY <1>2, <1>14, <1>15, <1>17, <1>19 DEF Sound

\* A reference to the length may be loaded on the way.
LEMMA ResolveLengthSound == ASSUME Sound, ResolveLength PROVE Sound'
  <1>1. ctl = "length" BY DEF ResolveLength
  <1>2. CASE ctl' = "seek" /\ UNCHANGED <<window, stack, ret, peeked, live, got, lost>>
    <2>1. Control' BY <1>1, <1>2 DEF Sound, Control, Top
    <2>2. UNCHANGED <<stack, ret, peeked, live, got, lost>> BY <1>2
    <2> QED BY ONLY Sound, <2>1, <2>2 DEF Sound
  <1>3. ASSUME NEW w, Begin("load", w) PROVE Sound' BY ONLY Sound, <1>1, <1>3, BeginSound
  <1> QED BY <1>2, <1>3 DEF ResolveLength

\* The stream is made of its dictionary, or the dictionary is lost.
LEMMA SkipDataSound == ASSUME Sound, SkipData PROVE Sound'
  <1>1. PICK dict : dict = Top.kids[1] OBVIOUS
  <1>2. /\ ctl = "seek" /\ stack' = Tail(stack) /\ ctl' = "return" /\ UNCHANGED <<peeked, got>>
        /\ \/ ret' = Wrap("Stream", 0, dict) /\ live' = live + 1 /\ lost' = lost
           \/ ret' = NoNode /\ lost' = lost + dict.size /\ live' = live
    BY <1>1 DEF SkipData
  <1>3. stack # <<>> /\ FrameOK(Top) /\ Top.call = "stream" /\ ret = NoNode /\ peeked = NoNode
    BY <1>2, Awaited DEF Sound, Control
  <1>4. Tail(stack) # <<>> BY <1>2, <1>3, Awaited
  <1>5. Control' BY <1>2, <1>3, <1>4 DEF Control
  <1>6. Held(Top) = dict.size /\ dict.size \in Nat
    <2>1. Len(Top.kids) = 1 /\ Nodes(Top.kids) /\ Top.key = NoNode BY <1>3 DEF FrameOK
    <2>2. DOMAIN Top.kids = 1..1 BY <2>1, SeqIs DEF Nodes
    <2>3. 1 \in DOMAIN Top.kids BY <2>2
    <2>4. dict.size \in Nat BY <1>1, <2>1, <2>3 DEF Nodes
    <2>5. Top.kids = <<dict>>
      <3>1. PICK kids : kids = Top.kids OBVIOUS
      <3>2. PICK T : kids \in Seq(T) BY <2>1, <3>1 DEF Nodes, IsSeq
      <3>3. Len(kids) = 1 /\ kids[1] = dict BY ONLY <1>1, <2>1, <3>1
      <3>4. kids = <<dict>> BY ONLY <3>2, <3>3
      <3> QED BY ONLY <3>1, <3>4
    <2>6. SizeOf(Top.kids) = dict.size BY ONLY <2>4, <2>5, OneNode
    <2> QED BY ONLY <1>3, <2>1, <2>4, <2>6, NoNodeIs DEF Held
  <1>7. ret.size = 0 /\ peeked.size = 0 BY <1>3, NoNodeIs
  <1>8. got \in Nat /\ lost \in Nat /\ live \in Nat BY Awaited
  <1>9. /\ Sized(ret') /\ lost' \in Nat
        /\ live' = live - dict.size - 0 - got - lost + ret'.size + 0 + got + lost'
    <2>1. CASE ret' = Wrap("Stream", 0, dict) /\ live' = live + 1 /\ lost' = lost
      <3>1. Wrap("Stream", 0, dict).size = 1 + dict.size /\ Sized(Wrap("Stream", 0, dict))
        BY ONLY <1>6, WrapIs
      <3>2. ret'.size = 1 + dict.size /\ Sized(ret') BY ONLY <2>1, <3>1
      <3> QED BY ONLY <1>6, <1>8, <2>1, <3>2
    <2>2. CASE ret' = NoNode /\ lost' = lost + dict.size /\ live' = live
      <3>1. ret'.size = 0 /\ Sized(ret') BY <2>2, NoNodeIs
      <3> QED BY ONLY <1>6, <1>8, <2>2, <3>1
    <2> QED BY <1>2, <2>1, <2>2
  <1>10. /\ live' = live - Held(Top) - ret.size - got - lost + ret'.size + peeked'.size + got' + lost'
         /\ peeked'.size \in Nat /\ got' \in Nat
    <2>1. peeked'.size = 0 /\ got' = got BY <1>2, <1>7
    <2> QED BY ONLY <1>6, <1>7, <1>8, <1>9, <2>1
  <1> QED BY ONLY Sound, <1>2, <1>3, <1>5, <1>9, <1>10, PopSound

-----------------------------------------------------------------------------

\* Before the first call there are no nodes.
LEMMA InitSound == Init => Sound
  <1> SUFFICES ASSUME Init PROVE Sound OBVIOUS
  <1>1. /\ stack = <<>> /\ ctl = "idle" /\ ret = NoNode /\ peeked = NoNode
        /\ live = 0 /\ got = 0 /\ lost = 0
    BY DEF Init
  <1>2. Control BY <1>1 DEF Control
  <1>3. Frames(stack) /\ AllHeld(stack) = 0 BY ONLY <1>1, NoFrames
  <1>4. Sized(ret) /\ ret.size = 0 /\ peeked.size = 0 BY <1>1, NoNodeIs
  <1> QED BY ONLY <1>1, <1>2, <1>3, <1>4 DEF Sound

\* What follows a key that is no name is undefined, and nothing follows.
LEMMA UndefinedIsLast == ASSUME ctl = "undefined", [Next]_vars PROVE UNCHANGED vars
  <1>1. ~Client /\ ~Destroy BY DEF Client, Destroy
  <1>2. ~NextObject /\ ~PeekObject /\ \A num : ~LoadObject(num)
    BY <1>1 DEF NextObject, PeekObject, LoadObject
  <1>3. ~Step
    BY DEF Step, ParseObject, Loop, AddElement, AddKey, AddValue, FinishArray, FinishDict,
           FinishIndirectDef, BeginStream, ResolveLength, SkipData, ReturnToClient
  <1> QED BY <1>1, <1>2, <1>3 DEF Next

\* Every step keeps the books.
LEMMA NextInv == IInv /\ [Next]_vars => IInv'
  <1>1. SUFFICES ASSUME IInv, [Next]_vars, ctl' # "undefined" PROVE Sound' BY DEF IInv
  <1>2. ctl # "undefined" BY <1>1, UndefinedIsLast DEF vars
  <1>3. Sound BY <1>1, <1>2 DEF IInv
  <1>4. ASSUME NEW call \in {"next", "peek"}, NEW w, ctl = "idle", Begin(call, w) PROVE Sound'
    BY ONLY <1>3, <1>4, BeginSound
  <1>5. CASE NextObject BY <1>4, <1>5 DEF NextObject, Client
  <1>6. CASE PeekObject BY <1>4, <1>6 DEF PeekObject, Client
  <1>7. ASSUME NEW num, LoadObject(num) PROVE Sound' BY <1>4, <1>7 DEF LoadObject, Client
  <1>8. CASE Destroy BY <1>3, <1>8, DestroySound
  <1>9. CASE Step
    <2>1. CASE ParseObject BY <1>3, <2>1, ParseObjectSound
    <2>2. CASE Loop BY <1>3, <2>2, LoopSound
    <2>3. CASE AddElement BY <1>3, <2>3, AddElementSound
    <2>4. CASE AddKey BY <1>3, <2>4, AddKeySound
    <2>5. CASE AddValue BY <1>1, <1>3, <2>5, AddValueSound
    <2>6. CASE FinishArray \/ FinishDict BY <1>3, <2>6, FinishSound
    <2>7. CASE FinishIndirectDef BY <1>3, <2>7, FinishIndirectDefSound
    <2>8. CASE BeginStream BY <1>3, <2>8, BeginStreamSound
    <2>9. CASE ResolveLength BY <1>3, <2>9, ResolveLengthSound
    <2>10. CASE SkipData BY <1>3, <2>10, SkipDataSound
    <2>11. CASE ReturnToClient BY <1>3, <2>11, ReturnToClientSound
    <2> QED
      BY <1>9, <2>1, <2>2, <2>3, <2>4, <2>5, <2>6, <2>7, <2>8, <2>9, <2>10, <2>11 DEF Step
  <1>10. CASE UNCHANGED vars
    <2>1. UNCHANGED <<stack, ctl, ret, peeked, live, got, lost>> BY <1>10 DEF vars
    <2>2. Control' BY <1>3, <2>1 DEF Sound, Control, Top
    <2> QED BY ONLY <1>3, <2>1, <2>2 DEF Sound
  <1> QED BY <1>1, <1>5, <1>6, <1>7, <1>8, <1>9, <1>10 DEF Next

\* Every node has one owner through all calls, however their objects nest
\* and wherever they fail: a call under way (CosObjParser.c, the cleanups of
\* its handlers), the parser (peeked_node) or a client.
THEOREM EveryNodeOwnedAlways == Spec => []EveryNodeOwned
  <1>1. Init => IInv BY InitSound DEF IInv
  <1>2. IInv => EveryNodeOwned BY DEF IInv, Sound, EveryNodeOwned, AllHeld
  <1> QED BY <1>1, <1>2, NextInv, PTL DEF Spec

-----------------------------------------------------------------------------
(* The tokens that are read ahead *)

\* What a window is, whenever the parser looks at it.
Ready(w) ==
    /\ w = [pos |-> w.pos, buffer |-> w.buffer]
    /\ IsSeq(w.buffer) /\ Len(w.buffer) <= BufferSize
    /\ \A i \in DOMAIN w.buffer : i < Len(w.buffer) => w.buffer[i].type = "Integer"

\* A parser that has a stream of its own loads nothing on the way.
NoLoads(s) == \A i \in DOMAIN s : s[i].call # "load"

LookInv ==
    /\ Ready(window)
    /\ OwnStream => NoLoads(stack)
    /\ OwnStream /\ ctl \in {"length", "seek"} => window.buffer = <<>>

\* A window of which nothing is consumed yet.
LEMMA WindowIs == ASSUME NEW pos PROVE Ready(Window(pos)) /\ Window(pos).buffer = <<>>
  <1>1. <<>> \in Seq({}) /\ Len(<<>>) = 0 /\ DOMAIN <<>> = {} OBVIOUS
  <1>2. IsSeq(<<>>) BY ONLY <1>1, SeqIs
  <1> QED BY <1>1, <1>2 DEF Window, Ready, BufferSize

\* Another place of the tokenizer does not change the buffer.
LEMMA MovedIs ==
    ASSUME NEW w, Ready(w), NEW pos
    PROVE  Ready([w EXCEPT !.pos = pos])
  <1>1. PICK p, b : w = [pos |-> p, buffer |-> b] BY DEF Ready
  <1>2. [w EXCEPT !.pos = pos] = [pos |-> pos, buffer |-> b] BY <1>1
  <1> QED BY <1>1, <1>2 DEF Ready

\* A token is read when all before it are integers.
LEMMA ReadIs ==
    ASSUME NEW tokens, NEW w, Ready(w), NEW i \in 0..2,
           \A j \in DOMAIN w.buffer : j <= i => w.buffer[j].type = "Integer"
    PROVE  Ready(Read(tokens, w, i))
  <1>1. PICK b, n : b = w.buffer /\ n = Len(b) OBVIOUS
  <1>2. PICK T : b \in Seq(T) BY <1>1 DEF Ready, IsSeq
  <1>3. n \in Nat /\ DOMAIN b = 1..n BY ONLY <1>1, <1>2
  <1>4. CASE Read(tokens, w, i) = w BY <1>4
  <1>5. CASE Read(tokens, w, i) # w
    <2>1. PICK token, p : /\ Read(tokens, w, i) = [pos |-> p, buffer |-> Append(b, token)]
                          /\ ~(n > i)
      BY <1>1, <1>5 DEF Read
    <2>2. PICK c : c = Append(b, token) OBVIOUS
    <2>3. b \in Seq(T \cup {token}) BY ONLY <1>2
    <2>4. c \in Seq(T \cup {token}) /\ Len(c) = n + 1 /\ \A j \in 1..n : c[j] = b[j]
      BY ONLY <1>1, <2>2, <2>3
    <2>5. IsSeq(c) BY ONLY <2>4, SeqIs
    <2>6. n + 1 <= 3 /\ \A j \in 1..n : j <= i BY ONLY <1>3, <2>1, i \in 0..2
    <2>7. \A j \in 1..n : b[j].type = "Integer" BY ONLY <1>1, <1>3, <2>6,
          \A j \in DOMAIN w.buffer : j <= i => w.buffer[j].type = "Integer"
    <2>8. \A j \in DOMAIN c : j < Len(c) => c[j].type = "Integer"
      <3>1. SUFFICES ASSUME NEW j \in DOMAIN c, j < Len(c) PROVE c[j].type = "Integer" OBVIOUS
      <3>2. j \in 1..n BY ONLY <1>3, <2>4, <3>1
      <3> QED BY ONLY <2>4, <2>7, <3>2
    <2>9. Len(c) <= BufferSize BY ONLY <2>4, <2>6 DEF BufferSize
    <2>10. Read(tokens, w, i) = [pos |-> p, buffer |-> c] BY ONLY <2>1, <2>2
    <2> QED BY ONLY <2>5, <2>8, <2>9, <2>10 DEF Ready
  <1> QED BY <1>4, <1>5

\* The next token may always be read.
LEMMA FilledIs == ASSUME NEW tokens, NEW w, Ready(w) PROVE Ready(Filled(tokens, w, 0))
  <1>1. DOMAIN w.buffer = 1..Len(w.buffer) BY SeqIs DEF Ready
  <1>2. \A j \in DOMAIN w.buffer : ~(j <= 0) BY ONLY <1>1
  <1>3. Ready(Read(tokens, w, 0)) BY <1>2, ReadIs
  <1> QED BY <1>3 DEF Filled

\* The token in the place where it is looked for.
LEMMA IsThere ==
    ASSUME NEW w, Ready(w), NEW i \in 0..2, NEW type, Is(w, i, type)
    PROVE  i < Len(w.buffer) /\ w.buffer[i + 1].type = type
  BY DEF Is, Peeked

\* The token behind an integer, and the one behind two, may be read.
LEMMA AheadIs ==
    ASSUME Ready(window)
    PROVE  /\ Ready(Ahead(0))
           /\ NextIs({"Integer"}) => Ready(Ahead(1))
           /\ TwoIntegers => Ready(Ahead(2))
  <1> DEFINE tokens == file.tokens
  <1>1. PICK w0, w1 : w0 = Read(tokens, window, 0) /\ w1 = Read(tokens, w0, 1) OBVIOUS
  <1>2. Ahead(0) = w0 /\ Ahead(1) = w1 /\ Ahead(2) = Read(tokens, w1, 2)
    <2>1. Filled(tokens, window, 0) = w0 BY ONLY <1>1 DEF Filled
    <2>2. Filled(tokens, window, 1) = w1 BY ONLY <1>1 DEF Filled
    <2>3. Filled(tokens, window, 2) = Read(tokens, w1, 2) BY ONLY <1>1 DEF Filled
    <2> QED BY ONLY <2>1, <2>2, <2>3 DEF Ahead
  <1>3. Ready(w0)
    <2>1. Ready(Filled(tokens, window, 0)) BY ONLY Ready(window), FilledIs
    <2>2. Filled(tokens, window, 0) = w0 BY ONLY <1>1 DEF Filled
    <2> QED BY ONLY <2>1, <2>2
  <1>4. ASSUME NextIs({"Integer"}) PROVE Ready(w1)
    <2>1. Is(w0, 0, "Integer") BY <1>2, <1>4 DEF NextIs
    <2>2. 0 < Len(w0.buffer) /\ w0.buffer[0 + 1].type = "Integer" BY ONLY <1>3, <2>1, IsThere
    <2>3. DOMAIN w0.buffer = 1..Len(w0.buffer) /\ Len(w0.buffer) \in Nat BY <1>3, SeqIs DEF Ready
    <2>4. \A j \in DOMAIN w0.buffer : j <= 1 => j = 0 + 1 BY ONLY <2>3
    <2>5. \A j \in DOMAIN w0.buffer : j <= 1 => w0.buffer[j].type = "Integer" BY ONLY <2>2, <2>4
    <2>6. Ready(Read(tokens, w0, 1)) BY ONLY <1>3, <2>5, ReadIs
    <2> QED BY ONLY <1>1, <2>6
  <1>5. ASSUME TwoIntegers PROVE Ready(Read(tokens, w1, 2))
    <2>1. Ready(w1) /\ Is(w1, 1, "Integer") BY <1>2, <1>4, <1>5 DEF TwoIntegers
    <2>2. 1 < Len(w1.buffer) /\ w1.buffer[1 + 1].type = "Integer" BY ONLY <2>1, IsThere
    <2>3. DOMAIN w1.buffer = 1..Len(w1.buffer) /\ Len(w1.buffer) \in Nat BY <2>1, SeqIs DEF Ready
    <2>4. \A j \in DOMAIN w1.buffer : j < Len(w1.buffer) => w1.buffer[j].type = "Integer"
      BY <2>1 DEF Ready
    <2>5. \A j \in DOMAIN w1.buffer : j <= 2 => j < Len(w1.buffer) \/ j = 1 + 1
      BY ONLY <2>2, <2>3
    <2>6. \A j \in DOMAIN w1.buffer : j <= 2 => w1.buffer[j].type = "Integer"
      BY ONLY <2>2, <2>4, <2>5
    <2> QED BY ONLY <2>1, <2>6, ReadIs
  <1> QED BY <1>1, <1>2, <1>3, <1>4, <1>5

\* Without its first token, and without all three.
LEMMA AdvancedIs ==
    ASSUME NEW w, Ready(w)
    PROVE  /\ Ready(Advanced(w)) /\ Ready(Consumed(w, 3))
           /\ Len(w.buffer) <= 1 => Advanced(w).buffer = <<>>
  <1>1. PICK p, b : w = [pos |-> p, buffer |-> b] BY DEF Ready
  <1>2. PICK T : b \in Seq(T) BY <1>1 DEF Ready, IsSeq
  <1>3. PICK n \in Nat : n = Len(b) /\ DOMAIN b = 1..n BY <1>2
  <1>4. n <= 3 /\ \A i \in 1..n : i < n => b[i].type = "Integer" BY <1>1, <1>3 DEF Ready, BufferSize
  <1>5. Consumed(w, 3) = Window(p)
    <2> DEFINE c == SubSeq(b, 3 + 1, n)
    <2>3. w.buffer = b BY <1>1
    <2>4. Consumed(w, 3) = [w EXCEPT !.buffer = c] BY ONLY <1>3, <2>3 DEF Consumed
    <2>5. \A d : [w EXCEPT !.buffer = d] = [pos |-> p, buffer |-> d] BY ONLY <1>1
    <2>1. Consumed(w, 3) = [pos |-> p, buffer |-> c] BY ONLY <2>4, <2>5
    <2>2. SubSeq(b, 3 + 1, n) = <<>>
      <3>1. ~(3 + 1 <= n) BY ONLY <1>4
      <3> QED BY ONLY <1>2, <1>3, <3>1
    <2> QED BY ONLY <2>1, <2>2 DEF Window
  <1>6. Ready(Consumed(w, 3)) BY ONLY <1>5, WindowIs
  <1>7. CASE b = <<>>
    <2>1. Advanced(w) = w /\ w.buffer = <<>> BY <1>1, <1>7 DEF Advanced
    <2> QED BY ONLY <1>6, <2>1, Ready(w)
  <1>8. CASE b # <<>>
    <2>1. PICK c : c = Tail(b) OBVIOUS
    <2>2. Advanced(w) = [pos |-> p, buffer |-> c] BY <1>1, <1>8, <2>1 DEF Advanced
    <2>3. n # 0 /\ c \in Seq(T) /\ Len(c) = n - 1 BY ONLY <1>2, <1>3, <1>8, <2>1
    <2>4. PICK m \in Nat : m = n - 1 BY ONLY <2>3, n \in Nat
    <2>5. DOMAIN c = 1..m /\ \A i \in 1..m : c[i] = b[i + 1]
      BY ONLY <1>2, <1>3, <1>8, <2>1, <2>3, <2>4
    <2>6. \A i \in DOMAIN c : i < Len(c) => c[i].type = "Integer"
      <3>1. SUFFICES ASSUME NEW i \in 1..m, i < m PROVE c[i].type = "Integer" BY <2>3, <2>4, <2>5
      <3>2. i + 1 \in 1..n /\ i + 1 < n BY ONLY <2>4, <3>1, n \in Nat
      <3> QED BY ONLY <1>4, <2>5, <3>1, <3>2
    <2>7. IsSeq(c) BY ONLY <2>3, SeqIs
    <2>8. Len(c) <= BufferSize BY ONLY <1>4, <2>3, n \in Nat DEF BufferSize
    <2>9. Ready(Advanced(w)) BY ONLY <2>2, <2>6, <2>7, <2>8 DEF Ready
    <2>10. n <= 1 => c = <<>> BY ONLY <2>3, n \in Nat
    <2>11. w.buffer = b /\ Advanced(w).buffer = c BY <1>1, <2>2
    <2> QED BY ONLY <1>3, <1>6, <2>9, <2>10, <2>11
  <1> QED BY <1>7, <1>8

\* A call that is no load, more or less, leaves a stack without loads.
LEMMA NoLoadsIs ==
    ASSUME NEW s, IsSeq(s), NoLoads(s)
    PROVE  /\ \A f : f.call # "load" => NoLoads(<<f>> \o s)
           /\ s # <<>> => /\ Head(s).call # "load"
                          /\ \A f : f.call # "load" => NoLoads(<<f>> \o Tail(s))
                          /\ NoLoads(Tail(s))
  <1>1. PICK T : s \in Seq(T) BY DEF IsSeq
  <1>2. PICK n \in Nat : n = Len(s) /\ DOMAIN s = 1..n BY ONLY <1>1
  <1>3. \A i \in 1..n : s[i].call # "load" BY ONLY <1>2, NoLoads(s) DEF NoLoads
  <1>4. ASSUME NEW S, NEW t, t \in Seq(S), NoLoads(t), NEW f, f.call # "load"
        PROVE  NoLoads(<<f>> \o t)
    <2>1. PICK m \in Nat : m = Len(t) /\ DOMAIN t = 1..m BY ONLY <1>4
    <2>2. \A i \in 1..m : t[i].call # "load" BY ONLY <1>4, <2>1 DEF NoLoads
    <2>3. PICK u : u = <<f>> \o t OBVIOUS
    <2>4. t \in Seq(S \cup {f}) /\ <<f>> \in Seq(S \cup {f}) BY ONLY <1>4
    <2>5. Len(u) = m + 1 /\ DOMAIN u = 1..(m + 1) /\ \A i \in 1..(m + 1) : u[i] = IF i = 1 THEN f ELSE t[i - 1]
      BY ONLY <2>1, <2>3, <2>4
    <2>6. \A i \in 1..(m + 1) : i = 1 \/ i - 1 \in 1..m BY ONLY m \in Nat
    <2>7. \A i \in 1..(m + 1) : u[i].call # "load" BY ONLY <2>2, <2>5, <2>6, f.call # "load"
    <2> QED BY ONLY <2>3, <2>5, <2>7 DEF NoLoads
  <1>5. \A f : f.call # "load" => NoLoads(<<f>> \o s) BY ONLY <1>1, <1>4, NoLoads(s)
  <1>6. ASSUME s # <<>>
        PROVE  /\ Head(s).call # "load" /\ NoLoads(Tail(s))
               /\ \A f : f.call # "load" => NoLoads(<<f>> \o Tail(s))
    <2>1. PICK t : t = Tail(s) OBVIOUS
    <2>2. n # 0 /\ t \in Seq(T) /\ Len(t) = n - 1 /\ \A i \in 1..(n - 1) : t[i] = s[i + 1]
      BY ONLY <1>1, <1>2, <1>6, <2>1
    <2>3. DOMAIN t = 1..(n - 1) BY ONLY <1>2, <2>2
    <2>4. \A i \in 1..(n - 1) : i + 1 \in 1..n BY ONLY n \in Nat
    <2>5. NoLoads(t) BY ONLY <1>3, <2>2, <2>3, <2>4 DEF NoLoads
    <2>6. Head(s) = s[1] /\ 1 \in 1..n BY ONLY <1>1, <1>2, <2>2
    <2> QED BY ONLY <1>3, <1>4, <2>1, <2>2, <2>5, <2>6
  <1> QED BY ONLY <1>5, <1>6

\* Where a token is found that is no integer, no other is buffered.
LEMMA LastIs ==
    ASSUME Ready(window), NextIs({"Stream"})
    PROVE  Advanced(Ahead(0)).buffer = <<>>
  <1>1. PICK w : w = Ahead(0) /\ Ready(w) BY AheadIs
  <1>2. Is(w, 0, "Stream") BY <1>1 DEF NextIs
  <1>3. 0 < Len(w.buffer) /\ w.buffer[0 + 1].type = "Stream" BY ONLY <1>1, <1>2, IsThere
  <1>4. DOMAIN w.buffer = 1..Len(w.buffer) /\ Len(w.buffer) \in Nat BY <1>1, SeqIs DEF Ready
  <1>5. 1 < Len(w.buffer) => w.buffer[1].type = "Integer" BY <1>1, <1>4 DEF Ready
  <1>6. Len(w.buffer) <= 1 BY ONLY <1>3, <1>4, <1>5
  <1> QED BY ONLY <1>1, <1>6, AdvancedIs

\* The handlers that hand an object over or begin one.
LEMMA ParseObjectLook ==
    ASSUME Sound, LookInv, ParseObject, file' = file
    PROVE  LookInv'
  <1>1. Ready(window) /\ IsSeq(stack) BY DEF LookInv, Sound, Frames
  <1>2. OwnStream => NoLoads(stack) BY DEF LookInv
  <1>3. /\ Ready(Ahead(0)) /\ Ready(Advanced(Ahead(0)))
        /\ NextIs({"Integer"}) => Ready(Ahead(1)) /\ Ready(Advanced(Ahead(1)))
        /\ TwoIntegers => Ready(Ahead(2)) /\ Ready(Advanced(Ahead(2))) /\ Ready(Consumed(Ahead(2), 3))
    BY ONLY <1>1, AheadIs, AdvancedIs
  <1>4. ASSUME NEW node, NEW w, Ready(w), ReturnNew(node, w) \/ ReturnNull(w) PROVE LookInv'
    <2>1. window' = w /\ ctl' = "return" /\ stack' = stack
      BY <1>4 DEF ReturnNew, ReturnNull, Return
    <2> QED BY <1>2, <1>4, <2>1 DEF LookInv, OwnStream
  <1>5. ASSUME NEW call \in {"def", "array", "dict"}, NEW value, NEW then \in {"parse", "loop"},
               NEW w, Ready(w), Descend(Frame(call, value), then, w)
        PROVE  LookInv'
    <2>1. PICK f : f = Frame(call, value) OBVIOUS
    <2>4. f.call # "load" BY <2>1, NewFrameIs
    <2>2. window' = w /\ ctl' = then /\ stack' = <<f>> \o stack BY <1>5, <2>1 DEF Descend
    <2>3. OwnStream => NoLoads(<<f>> \o stack) BY ONLY <1>1, <1>2, <2>4, NoLoadsIs
    <2> QED BY <1>5, <2>2, <2>3 DEF LookInv, OwnStream
  <1>6. CASE ParseUnexpected BY <1>3, <1>4, <1>6 DEF ParseUnexpected
  <1>7. CASE ParseName BY <1>3, <1>4, <1>7 DEF ParseName
  <1>8. CASE ParseReal BY <1>3, <1>4, <1>8 DEF ParseReal
  <1>9. CASE ParseBool BY <1>3, <1>4, <1>9 DEF ParseBool
  <1>10. CASE ParseNull BY <1>3, <1>4, <1>10 DEF ParseNull
  <1>11. CASE ParseInteger
    <2>1. PICK w : /\ w = (IF TwoIntegers THEN Ahead(2) ELSE Ahead(1))
                   /\ ReturnNew(Node("Integer", w.buffer[1].value), Advanced(w))
                   /\ NextIs({"Integer"})
      BY <1>11 DEF ParseInteger
    <2>2. Ready(Advanced(w)) BY ONLY <1>3, <2>1
    <2> QED BY <1>4, <2>1, <2>2
  <1>12. CASE ParseIndirectRef BY <1>3, <1>4, <1>12 DEF ParseIndirectRef
  <1>13. CASE ParseIndirectDef BY <1>3, <1>4, <1>5, <1>13 DEF ParseIndirectDef
  <1>14. CASE ParseArray BY <1>3, <1>5, <1>14 DEF ParseArray
  <1>15. CASE ParseDict BY <1>3, <1>5, <1>15 DEF ParseDict
  <1> QED BY <1>6, <1>7, <1>8, <1>9, <1>10, <1>11, <1>12, <1>13, <1>14, <1>15 DEF ParseObject

\* A call of a client, and the load of what a Length refers to.
LEMMA BeginLook ==
    ASSUME Sound, LookInv, file' = file, NEW call, NEW w, Ready(w), Begin(call, w),
           (ctl = "idle" /\ call \in {"next", "peek"}) \/ ~OwnStream
    PROVE  LookInv'
  <1>1. IsSeq(stack) /\ (OwnStream => NoLoads(stack)) BY DEF Sound, Frames, LookInv
  <1>2. window' = w BY DEF Begin, Descend
  <1>3. CASE ~OwnStream BY <1>2, <1>3 DEF LookInv, OwnStream
  <1>4. CASE OwnStream
    <2>1. call \in {"next", "peek"} BY <1>4
    <2>2. PICK f : f = Frame(call, Unread(w)) OBVIOUS
    <2>3. f.call # "load" BY <2>1, <2>2, NewFrameIs
    <2>4. NoLoads(<<f>> \o stack) BY ONLY <1>1, <1>4, <2>3, NoLoadsIs
    <2>5. stack' = <<f>> \o stack \/ stack' = stack BY <2>2 DEF Begin, Descend
    <2>6. ctl' \notin {"length", "seek"} BY <2>1 DEF Begin, Descend
    <2> QED BY <1>1, <1>2, <1>4, <2>4, <2>5, <2>6 DEF LookInv
  <1> QED BY <1>3, <1>4

\* An innermost call that gets its part.
LEMMA ReplaceLook ==
    ASSUME Sound, LookInv, file' = file, ctl = "return", NEW f, f.call # "load", NEW then, Replace(f, then),
           then \in {"loop", "finish", "parse"}
    PROVE  LookInv'
  <1>1. IsSeq(stack) /\ stack # <<>> /\ (OwnStream => NoLoads(stack))
    BY DEF Sound, Frames, Control, LookInv
  <1>2. stack' = <<f>> \o Tail(stack) /\ ctl' = then /\ window' = window BY DEF Replace
  <1>3. OwnStream => NoLoads(<<f>> \o Tail(stack)) BY ONLY <1>1, f.call # "load", NoLoadsIs
  <1> QED BY <1>2, <1>3 DEF LookInv, OwnStream

\* An innermost call that returns.
LEMMA PopLook ==
    ASSUME Sound, LookInv, file' = file, stack # <<>>, stack' = Tail(stack), Ready(window'),
           OwnStream => ctl' \notin {"length", "seek"}
    PROVE  LookInv'
  <1>1. IsSeq(stack) /\ (OwnStream => NoLoads(stack)) BY DEF Sound, Frames, LookInv
  <1>2. OwnStream => NoLoads(Tail(stack)) BY ONLY <1>1, stack # <<>>, NoLoadsIs
  <1> QED BY <1>2 DEF LookInv, OwnStream

\* Every step reads ahead behind integers only, and leaves no token where
\* data is skipped.
LEMMA NextLook == ASSUME Sound, LookInv, ctl # "undefined", [Next]_vars PROVE LookInv'
  <1>0. file' = file
    BY DEF Next, NextObject, PeekObject, LoadObject, Client, Destroy, Step, vars
  <1>1. /\ Ready(window) /\ Ready(Ahead(0)) /\ Ready(Advanced(Ahead(0)))
    BY AheadIs, AdvancedIs DEF LookInv
  <1>2. /\ IsSeq(stack) /\ (OwnStream => NoLoads(stack))
        /\ ctl \notin {"idle", "destroyed"} => stack # <<>>
    BY DEF Sound, Frames, Control, LookInv
  <1>3. CASE NextObject \/ PeekObject
    BY <1>0, <1>1, <1>3, BeginLook DEF NextObject, PeekObject, Client
  <1>4. ASSUME NEW num, LoadObject(num) PROVE LookInv'
    <2>1. PICK w : Ready(w) /\ ctl = "idle" /\ Begin("next", w)
      BY <1>4, WindowIs DEF LoadObject, Client, Moved
    <2> QED BY ONLY <1>0, <2>1, Sound, LookInv, BeginLook
  <1>5. CASE Destroy
    <2>1. stack' = stack /\ ctl' = "destroyed" /\ window' = [window EXCEPT !.buffer = <<>>]
      BY <1>5 DEF Destroy
    <2>2. PICK p, b : window = [pos |-> p, buffer |-> b] BY <1>1 DEF Ready
    <2>3. window' = Window(p) BY ONLY <2>1, <2>2 DEF Window
    <2> QED BY <1>0, <1>2, <2>1, <2>3, WindowIs DEF LookInv, OwnStream
  <1>6. CASE Step
    <2>1. CASE ParseObject BY <1>0, <2>1, ParseObjectLook
    <2>2. CASE Loop
      <3>1. stack' = stack /\ ctl' \in {"finish", "parse"} /\ Ready(window')
        BY <1>1, <2>2 DEF Loop
      <3> QED BY <1>0, <1>2, <3>1 DEF LookInv, OwnStream
    <2>3. CASE AddElement \/ AddKey \/ AddValue
      <3>1. ctl = "return" /\ stack # <<>> /\ FrameOK(Top) /\ Top.call \in {"array", "dict"}
        BY <2>3, Awaited DEF AddElement, AddKey, AddValue
      <3>2. PICK c, v, k, y : Top = [call |-> c, value |-> v, kids |-> k, key |-> y] /\ c # "load"
        BY <3>1 DEF FrameOK
      <3>3. \/ \E f, then : f.call # "load" /\ then \in {"loop", "finish", "parse"} /\ Replace(f, then)
            \/ UNCHANGED <<window, stack>> /\ ctl' = "undefined"
        <4>1. /\ Top.call = c /\ \A x : [Top EXCEPT !.kids = x].call = c
              /\ \A x : [Top EXCEPT !.key = x].call = c
          BY ONLY <3>2
        <4>2. CASE AddElement BY <3>2, <4>1, <4>2 DEF AddElement, OnFailure
        <4>3. CASE AddKey BY <3>2, <4>1, <4>3 DEF AddKey, OnFailure
        <4>4. CASE AddValue
          <5>1. PICK done : done = [Top EXCEPT !.key = NoNode] OBVIOUS
          <5>2. done = [call |-> c, value |-> v, kids |-> k, key |-> NoNode] BY ONLY <3>2, <5>1
          <5>3. done.call = c /\ \A x : [done EXCEPT !.kids = x].call = c BY ONLY <5>2
          <5>4. \/ Replace(done, OnFailure)
                \/ UNCHANGED <<window, stack>> /\ ctl' = "undefined"
                \/ \E x : Replace([done EXCEPT !.kids = x], "loop")
            BY ONLY <4>4, <5>1 DEF AddValue
          <5> QED BY ONLY <3>2, <5>3, <5>4 DEF OnFailure
        <4> QED BY <2>3, <4>2, <4>3, <4>4
      <3>4. ASSUME NEW f, NEW then, f.call # "load", then \in {"loop", "finish", "parse"},
                   Replace(f, then)
            PROVE  LookInv'
        BY ONLY <1>0, <3>1, <3>4, Sound, LookInv, ReplaceLook
      <3>5. CASE UNCHANGED <<window, stack>> /\ ctl' = "undefined" BY <1>0, <1>1, <1>2, <3>5 DEF LookInv, OwnStream
      <3> QED BY ONLY <3>3, <3>4, <3>5
    <2>4. CASE FinishArray \/ FinishDict
      <3>1. stack # <<>> /\ stack' = Tail(stack) /\ ctl' = "return" /\ Ready(window')
        BY <1>1, <1>2, <2>4 DEF FinishArray, FinishDict
      <3> QED BY ONLY <1>0, <3>1, Sound, LookInv, PopLook
    <2>5. CASE FinishIndirectDef
      <3>1. stack # <<>> /\ stack' = Tail(stack) /\ ctl' = "return" /\ Ready(window')
        BY <1>1, <1>2, <2>5 DEF FinishIndirectDef
      <3> QED BY ONLY <1>0, <3>1, Sound, LookInv, PopLook
    <2>6. CASE BeginStream
      <3>1. PICK f : f = Frame("stream", PosAfter(Ahead(0).buffer[1])) OBVIOUS
      <3>2. PICK g : g = [f EXCEPT !.kids = <<DictNode(Top.kids)>>] OBVIOUS
      <3>3. f = [call |-> "stream", value |-> f.value, kids |-> f.kids, key |-> f.key]
        BY ONLY <3>1 DEF Frame
      <3>4. g.call # "load" BY ONLY <3>2, <3>3
      <3>5. stack' = <<g>> \o Tail(stack) /\ window' = Advanced(Ahead(0)) /\ stack # <<>>
        BY <1>2, <2>6, <3>1, <3>2 DEF BeginStream
      <3>6. OwnStream => NoLoads(<<g>> \o Tail(stack)) BY ONLY <1>2, <3>4, <3>5, NoLoadsIs
      <3>7. window'.buffer = <<>> BY <1>1, <2>6, <3>5, LastIs DEF BeginStream
      <3> QED BY <1>0, <1>1, <3>5, <3>6, <3>7 DEF LookInv, OwnStream
    <2>7. CASE ResolveLength
      <3>1. CASE ctl' = "seek" /\ UNCHANGED <<window, stack>> /\ ctl = "length"
        BY <1>0, <1>1, <1>2, <3>1 DEF LookInv, OwnStream
      <3>2. ASSUME ~OwnStream, NEW pos, Begin("load", Moved(window, pos)) PROVE LookInv'
        <4>1. Ready(Moved(window, pos)) BY ONLY WindowIs DEF Moved
        <4> QED BY ONLY <1>0, <3>2, <4>1, Sound, LookInv, BeginLook
      <3> QED BY <2>7, <3>1, <3>2 DEF ResolveLength
    <2>8. CASE SkipData
      <3>1. stack # <<>> /\ stack' = Tail(stack) /\ ctl' = "return" BY <1>2, <2>8 DEF SkipData
      <3>2. PICK w, v : /\ v = [window EXCEPT !.pos = Place(Top.value + IntegerLength)]
                        /\ w = Filled(file.tokens, v, 0)
                        /\ window' \in {w, Advanced(w), window}
        BY <2>8 DEF SkipData, EndOfData
      <3>3. Ready(v) BY ONLY <1>1, <3>2, MovedIs
      <3>4. Ready(w) BY ONLY <3>2, <3>3, FilledIs
      <3>5. Ready(window') BY ONLY <1>1, <3>2, <3>4, AdvancedIs
      <3> QED BY ONLY <1>0, <3>1, <3>5, Sound, LookInv, PopLook
    <2>9. CASE ReturnToClient
      <3>1. /\ stack # <<>> /\ stack' = Tail(stack) /\ window' = window
            /\ ctl' = IF Top.call = "load" THEN "seek" ELSE "idle"
        BY <1>2, <2>9 DEF ReturnToClient
      <3>2. OwnStream => Top.call # "load" BY ONLY <1>2, <3>1, NoLoadsIs DEF Top
      <3>3. OwnStream => ctl' \notin {"length", "seek"} BY <3>1, <3>2
      <3>4. Ready(window') BY ONLY <1>1, <3>1
      <3> QED BY ONLY <1>0, <3>1, <3>3, <3>4, Sound, LookInv, PopLook
    <2> QED
      BY <1>6, <2>1, <2>2, <2>3, <2>4, <2>5, <2>6, <2>7, <2>8, <2>9 DEF Step
  <1>7. CASE UNCHANGED vars
    <2>1. UNCHANGED <<window, stack, ctl>> BY <1>7 DEF vars
    <2> QED BY <1>0, <2>1 DEF LookInv, OwnStream
  <1> QED BY <1>3, <1>4, <1>5, <1>6, <1>7 DEF Next

\* At first nothing is read, and no call is under way.
LEMMA InitInv == Init => IInv /\ LookInv
  <1>1. ASSUME Init PROVE Ready(window) /\ stack = <<>> /\ ctl = "idle"
    BY <1>1, WindowIs DEF Init
  <1>2. NoLoads(<<>>)
    <2>1. DOMAIN <<>> = {} OBVIOUS
    <2> QED BY ONLY <2>1 DEF NoLoads
  <1> QED BY <1>1, <1>2, InitSound DEF IInv, LookInv

\* What the invariant says of the tokens.
LEMMA InvImplies == IInv /\ LookInv => AheadOfIntegers /\ NoTokenFromBeforeTheData
  BY DEF LookInv, Ready, AheadOfIntegers, NoTokenFromBeforeTheData

\* It holds after every step, the undefined ones included.
LEMMA NextLookInv == IInv /\ LookInv /\ [Next]_vars => LookInv'
  <1>1. SUFFICES ASSUME IInv, LookInv, [Next]_vars PROVE LookInv' OBVIOUS
  <1>2. CASE ctl = "undefined"
    <2>1. UNCHANGED <<file, window, stack, ctl>> BY <1>1, <1>2, UndefinedIsLast DEF vars
    <2> QED BY <1>1, <2>1 DEF LookInv, OwnStream
  <1>3. CASE ctl # "undefined" BY <1>1, <1>3, NextLook DEF IInv
  <1> QED BY <1>2, <1>3

\* No token is used that was read before the data of a stream was passed
\* over, although the tokenizer is reset there and the buffer of tokens is
\* not (CosObjParser.c:824-831): more than one token is in the buffer only
\* behind integers, however far the parser looks ahead for a reference or a
\* definition.
THEOREM TokensAheadAlways == Spec => [](AheadOfIntegers /\ NoTokenFromBeforeTheData)
  BY InitInv, InvImplies, NextInv, NextLookInv, PTL DEF Spec

-----------------------------------------------------------------------------
(* Where the tokenizer is, and what is read *)

\* An integer has a number for its value.
Numeric(node) == node.type = "Integer" => node.value \in Int

Numbered(kids) == \A i \in DOMAIN kids : Numeric(kids[i])

\* A tokenizer is in its file; its tokens end somewhere.
InFile(w) ==
    /\ w = [pos |-> w.pos, buffer |-> w.buffer] /\ IsSeq(w.buffer)
    /\ w.pos \in DOMAIN file.tokens
    /\ \A i \in DOMAIN w.buffer : Numeric(w.buffer[i]) /\ PosAfter(w.buffer[i]) \in Int

\* The parts that were read are numeric; a stream has a place and a dictionary.
Known(frame) ==
    /\ Numbered(frame.kids)
    /\ frame.call = "stream" => frame.value \in Int /\ Numbered(frame.kids[1].kids)

AllKnown(s) == \A i \in DOMAIN s : Known(s[i])

Controls ==
    {"idle", "parse", "loop", "finish", "length", "seek", "return", "undefined", "destroyed"}

PlaceInv ==
    /\ file \in Files /\ calls \in 0..MaxCalls /\ ctl \in Controls
    /\ InFile(window) /\ Numeric(ret)
    /\ AllKnown(stack)

LEMMA TokensAre ==
    ASSUME PlaceInv
    PROVE  /\ Len(file.tokens) \in Nat \ {0} /\ DOMAIN file.tokens = 1..Len(file.tokens)
           /\ \A pos \in DOMAIN file.tokens :
                 LET token == file.tokens[pos]
                 IN  Numeric(token) /\ PosAfter(token) \in DOMAIN file.tokens
           /\ file.objects \in Seq(Int)
  <1>1. IsFile(file.tokens) /\ file.objects \in Seq(Int) BY FilesAssumption DEF PlaceInv
  <1> QED BY <1>1 DEF IsFile, Numeric

\* A place of the file, after a seek that succeeds.
LEMMA PlaceIs ==
    ASSUME PlaceInv, NEW pos \in Int, CanSeek(pos) PROVE Place(pos) \in DOMAIN file.tokens
  <1>1. PICK n \in Nat \ {0} : n = Len(file.tokens) /\ DOMAIN file.tokens = 1..n BY TokensAre
  <1>2. pos >= 1 BY DEF CanSeek
  <1>3. Place(pos) = IF pos > n THEN n ELSE pos BY ONLY <1>1 DEF Place
  <1>4. (IF pos > n THEN n ELSE pos) \in 1..n BY ONLY <1>2, n \in Nat \ {0}, pos \in Int
  <1> QED BY ONLY <1>1, <1>3, <1>4

\* An empty window in the file.
LEMMA NewInFile ==
    ASSUME NEW pos \in DOMAIN file.tokens PROVE InFile(Window(pos))
  <1>1. <<>> \in Seq({}) /\ DOMAIN <<>> = {} OBVIOUS
  <1>2. IsSeq(<<>>) BY ONLY <1>1, SeqIs
  <1> QED BY <1>1, <1>2 DEF Window, InFile

\* The tokenizer stays in the file when a token is read.
LEMMA ReadInFile ==
    ASSUME PlaceInv, NEW w, InFile(w), NEW i
    PROVE  LET v == Read(file.tokens, w, i)
           IN  /\ InFile(v)
               /\ 0 < Len(w.buffer) => 0 < Len(v.buffer) /\ v.buffer[1] = w.buffer[1]
  <1>1. PICK p, b : w = [pos |-> p, buffer |-> b] /\ w.pos = p /\ w.buffer = b BY DEF InFile
  <1>2. PICK T : b \in Seq(T) BY <1>1 DEF InFile, IsSeq
  <1>3. PICK n \in Nat : n = Len(b) /\ DOMAIN b = 1..n BY <1>2
  <1>4. CASE Read(file.tokens, w, i) = w BY <1>4
  <1>5. CASE Read(file.tokens, w, i) # w
    <2>1. PICK token : token = file.tokens[p] OBVIOUS
    <2>2. PICK c, q : c = Append(b, token) /\ q = PosAfter(token) OBVIOUS
    <2>3. Read(file.tokens, w, i) = [pos |-> q, buffer |-> c] BY <1>1, <1>5, <2>1, <2>2 DEF Read
    <2>4. b \in Seq(T \cup {token}) BY ONLY <1>2
    <2>5. /\ c \in Seq(T \cup {token}) /\ Len(c) = n + 1 /\ DOMAIN c = 1..(n + 1)
          /\ c[n + 1] = token /\ \A j \in 1..n : c[j] = b[j]
      BY ONLY <1>3, <2>2, <2>4
    <2>6. IsSeq(c) BY ONLY <2>5, SeqIs
    <2>7. p \in DOMAIN file.tokens BY ONLY <1>1, InFile(w) DEF InFile
    <2>8. Numeric(token) /\ q \in DOMAIN file.tokens /\ q \in Int
      <3>1. Numeric(token) /\ q \in DOMAIN file.tokens BY <2>1, <2>2, <2>7, TokensAre
      <3>2. DOMAIN file.tokens \subseteq Int BY TokensAre
      <3> QED BY ONLY <3>1, <3>2
    <2>9. \A j \in 1..n : Numeric(b[j]) /\ PosAfter(b[j]) \in Int
      BY ONLY <1>1, <1>3, InFile(w) DEF InFile
    <2>10. \A j \in 1..(n + 1) : j \in 1..n \/ j = n + 1 OBVIOUS
    <2>11. \A j \in 1..(n + 1) : Numeric(c[j]) /\ PosAfter(c[j]) \in Int
      BY ONLY <2>2, <2>5, <2>8, <2>9, <2>10
    <2>12. PICK v : v = [pos |-> q, buffer |-> c] OBVIOUS
    <2>13. v.pos = q /\ v.buffer = c BY ONLY <2>12
    <2>14. InFile(v) BY ONLY <2>5, <2>6, <2>8, <2>11, <2>12, <2>13 DEF InFile
    <2>15. 0 < n => 0 < n + 1 /\ 1 \in 1..n BY ONLY n \in Nat
    <2> QED BY ONLY <1>1, <1>3, <2>3, <2>5, <2>12, <2>13, <2>14, <2>15
  <1> QED BY <1>4, <1>5

\* So does it when the parser looks ahead; the first token stays the first.
LEMMA AheadInFile ==
    ASSUME PlaceInv
    PROVE  /\ InFile(Ahead(0)) /\ InFile(Ahead(1)) /\ InFile(Ahead(2))
           /\ \A type : NextIs({type}) =>
                 \A k \in 0..2 : 0 < Len(Ahead(k).buffer) /\ Ahead(k).buffer[1].type = type
  <1> DEFINE tokens == file.tokens
  <1>1. PICK w0, w1, w2 :
           w0 = Read(tokens, window, 0) /\ w1 = Read(tokens, w0, 1) /\ w2 = Read(tokens, w1, 2)
    OBVIOUS
  <1>2. Ahead(0) = w0 /\ Ahead(1) = w1 /\ Ahead(2) = w2
    <2>1. Filled(tokens, window, 0) = w0 BY ONLY <1>1 DEF Filled
    <2>2. Filled(tokens, window, 1) = w1 BY ONLY <1>1 DEF Filled
    <2>3. Filled(tokens, window, 2) = w2 BY ONLY <1>1 DEF Filled
    <2> QED BY ONLY <2>1, <2>2, <2>3 DEF Ahead
  <1>3. InFile(w0) BY <1>1, ReadInFile DEF PlaceInv
  <1>4. InFile(w1) /\ (0 < Len(w0.buffer) => 0 < Len(w1.buffer) /\ w1.buffer[1] = w0.buffer[1])
    BY ONLY <1>1, <1>3, PlaceInv, ReadInFile
  <1>5. InFile(w2) /\ (0 < Len(w1.buffer) => 0 < Len(w2.buffer) /\ w2.buffer[1] = w1.buffer[1])
    BY ONLY <1>1, <1>4, PlaceInv, ReadInFile
  <1>6. ASSUME NEW type, NextIs({type})
        PROVE  0 < Len(w0.buffer) /\ w0.buffer[1].type = type
    <2>1. Is(w0, 0, type) BY <1>2, <1>6 DEF NextIs
    <2> QED BY ONLY <2>1 DEF Is, Peeked
  <1>7. ASSUME NEW type, NextIs({type}), NEW k \in 0..2
        PROVE  0 < Len(Ahead(k).buffer) /\ Ahead(k).buffer[1].type = type
    <2>1. 0 < Len(w0.buffer) /\ w0.buffer[1].type = type BY <1>6, <1>7
    <2>2. k = 0 \/ k = 1 \/ k = 2 BY ONLY k \in 0..2
    <2> QED BY ONLY <1>2, <1>4, <1>5, <2>1, <2>2
  <1> QED BY ONLY <1>2, <1>3, <1>4, <1>5, <1>7

\* And when tokens are consumed.
LEMMA ConsumedInFile ==
    ASSUME NEW w, InFile(w) PROVE InFile(Advanced(w)) /\ InFile(Consumed(w, 3))
  <1>1. PICK p, b : w = [pos |-> p, buffer |-> b] /\ w.pos = p /\ w.buffer = b BY DEF InFile
  <1>2. PICK T : b \in Seq(T) BY <1>1 DEF InFile, IsSeq
  <1>3. PICK n \in Nat : n = Len(b) /\ DOMAIN b = 1..n BY <1>2
  <1>4. /\ p \in DOMAIN file.tokens
        /\ \A j \in 1..n : Numeric(b[j]) /\ PosAfter(b[j]) \in Int
    BY ONLY <1>1, <1>3, InFile(w) DEF InFile
  <1>5. ASSUME NEW c, c \in Seq(T), \A j \in DOMAIN c : \E i \in 1..n : c[j] = b[i]
        PROVE  InFile([pos |-> p, buffer |-> c])
    <2>1. IsSeq(c) BY ONLY <1>5, SeqIs
    <2>2. \A j \in DOMAIN c : Numeric(c[j]) /\ PosAfter(c[j]) \in Int BY ONLY <1>4, <1>5
    <2> QED BY ONLY <1>4, <2>1, <2>2 DEF InFile
  <1>6. InFile(Consumed(w, 3))
    <2>1. PICK c : c = SubSeq(b, 3 + 1, n) OBVIOUS
    <2>2. Consumed(w, 3) = [pos |-> p, buffer |-> c]
      <3>1. Consumed(w, 3) = [w EXCEPT !.buffer = SubSeq(b, 3 + 1, Len(b))]
        BY ONLY <1>1 DEF Consumed
      <3>2. \A d : [w EXCEPT !.buffer = d] = [pos |-> p, buffer |-> d] BY ONLY <1>1
      <3> QED BY ONLY <1>3, <2>1, <3>1, <3>2
    <2>3. c \in Seq(T) /\ \A j \in DOMAIN c : \E i \in 1..n : c[j] = b[i]
      <3>1. /\ Len(c) = IF 4 <= n THEN n - 4 + 1 ELSE 0
            /\ c \in Seq(T) /\ \A j \in 1..Len(c) : c[j] = b[4 + j - 1]
        BY ONLY <1>2, <1>3, <2>1, SubSeqProperties
      <3>2. DOMAIN c = 1..Len(c) BY ONLY <3>1
      <3>3. \A j \in 1..Len(c) : 4 + j - 1 \in 1..n BY ONLY <3>1, n \in Nat
      <3> QED BY ONLY <3>1, <3>2, <3>3
    <2> QED BY ONLY <1>5, <2>2, <2>3
  <1>7. InFile(Advanced(w))
    <2>1. CASE b = <<>>
      <3>1. Advanced(w) = w BY <1>1, <2>1 DEF Advanced
      <3> QED BY ONLY <3>1, InFile(w)
    <2>2. CASE b # <<>>
      <3>1. PICK c : c = Tail(b) OBVIOUS
      <3>2. Advanced(w) = [pos |-> p, buffer |-> c] BY ONLY <1>1, <2>2, <3>1 DEF Advanced
      <3>3. n # 0 /\ c \in Seq(T) /\ Len(c) = n - 1 /\ \A j \in 1..(n - 1) : c[j] = b[j + 1]
        BY ONLY <1>2, <1>3, <2>2, <3>1
      <3>4. DOMAIN c = 1..(n - 1) /\ \A j \in 1..(n - 1) : j + 1 \in 1..n
        BY ONLY <3>3, n \in Nat
      <3>5. \A j \in DOMAIN c : \E i \in 1..n : c[j] = b[i] BY ONLY <3>3, <3>4
      <3> QED BY ONLY <1>5, <3>2, <3>3, <3>5
    <2> QED BY <2>1, <2>2
  <1> QED BY <1>6, <1>7

\* A call that is made, and one that changes or returns.
LEMMA KnownIs ==
    ASSUME NEW s, IsSeq(s), AllKnown(s)
    PROVE  /\ \A f : Known(f) => AllKnown(<<f>> \o s)
           /\ s # <<>> => /\ Known(Head(s)) /\ AllKnown(Tail(s))
                          /\ \A f : Known(f) => AllKnown(<<f>> \o Tail(s))
  <1>1. PICK T : s \in Seq(T) BY DEF IsSeq
  <1>2. PICK n \in Nat : n = Len(s) /\ DOMAIN s = 1..n BY ONLY <1>1
  <1>3. \A i \in 1..n : Known(s[i]) BY ONLY <1>2, AllKnown(s) DEF AllKnown
  <1>4. ASSUME NEW S, NEW t, t \in Seq(S), AllKnown(t), NEW f, Known(f)
        PROVE  AllKnown(<<f>> \o t)
    <2>1. PICK m \in Nat : m = Len(t) /\ DOMAIN t = 1..m BY ONLY <1>4
    <2>2. \A i \in 1..m : Known(t[i]) BY ONLY <1>4, <2>1 DEF AllKnown
    <2>3. PICK u : u = <<f>> \o t OBVIOUS
    <2>4. t \in Seq(S \cup {f}) /\ <<f>> \in Seq(S \cup {f}) BY ONLY <1>4
    <2>5. /\ Len(u) = m + 1 /\ DOMAIN u = 1..(m + 1)
          /\ \A i \in 1..(m + 1) : u[i] = IF i = 1 THEN f ELSE t[i - 1]
      BY ONLY <2>1, <2>3, <2>4
    <2>6. \A i \in 1..(m + 1) : i = 1 \/ i - 1 \in 1..m BY ONLY m \in Nat
    <2>7. \A i \in 1..(m + 1) : Known(u[i]) BY ONLY <2>2, <2>5, <2>6, <1>4
    <2> QED BY ONLY <2>3, <2>5, <2>7 DEF AllKnown
  <1>5. \A f : Known(f) => AllKnown(<<f>> \o s) BY ONLY <1>1, <1>4, AllKnown(s)
  <1>6. ASSUME s # <<>>
        PROVE  /\ Known(Head(s)) /\ AllKnown(Tail(s))
               /\ \A f : Known(f) => AllKnown(<<f>> \o Tail(s))
    <2>1. PICK t : t = Tail(s) OBVIOUS
    <2>2. n # 0 /\ t \in Seq(T) /\ Len(t) = n - 1 /\ \A i \in 1..(n - 1) : t[i] = s[i + 1]
      BY ONLY <1>1, <1>2, <1>6, <2>1
    <2>3. DOMAIN t = 1..(n - 1) BY ONLY <1>2, <2>2
    <2>4. \A i \in 1..(n - 1) : i + 1 \in 1..n BY ONLY n \in Nat
    <2>5. AllKnown(t) BY ONLY <1>3, <2>2, <2>3, <2>4 DEF AllKnown
    <2>6. Head(s) = s[1] /\ 1 \in 1..n BY ONLY <1>1, <1>2, <2>2
    <2> QED BY ONLY <1>3, <1>4, <2>1, <2>2, <2>5, <2>6
  <1> QED BY ONLY <1>5, <1>6

\* A call that has no parts yet, and no place of a stream.
LEMMA NewKnown ==
    ASSUME NEW call, call # "stream", NEW value PROVE Known(Frame(call, value))
  <1>1. PICK f : f = Frame(call, value) OBVIOUS
  <1>2. f.call = call /\ f.kids = <<>> BY ONLY <1>1 DEF Frame
  <1>3. DOMAIN <<>> = {} OBVIOUS
  <1> QED BY ONLY <1>1, <1>2, <1>3, call # "stream" DEF Known, Numbered

\* One more part, and another in the place of one.
LEMMA NumberedIs ==
    ASSUME NEW kids, IsSeq(kids), Numbered(kids), NEW node, Numeric(node)
    PROVE  /\ Numbered(Append(kids, node)) /\ Numbered(<<node>>)
           /\ \A i : Numbered([kids EXCEPT ![i] = node])
  <1>1. PICK T : kids \in Seq(T) BY DEF IsSeq
  <1>2. PICK n \in Nat : n = Len(kids) /\ DOMAIN kids = 1..n BY ONLY <1>1
  <1>3. \A i \in 1..n : Numeric(kids[i]) BY ONLY <1>2, Numbered(kids) DEF Numbered
  <1>4. Numbered(Append(kids, node))
    <2>1. PICK c : c = Append(kids, node) OBVIOUS
    <2>2. kids \in Seq(T \cup {node}) BY ONLY <1>1
    <2>3. DOMAIN c = 1..(n + 1) /\ c[n + 1] = node /\ \A j \in 1..n : c[j] = kids[j]
      BY ONLY <1>2, <2>1, <2>2
    <2>4. \A j \in 1..(n + 1) : j \in 1..n \/ j = n + 1 OBVIOUS
    <2> QED BY ONLY <1>3, <2>1, <2>3, <2>4, Numeric(node) DEF Numbered
  <1>5. Numbered(<<node>>)
    <2>1. DOMAIN <<node>> = {1} /\ <<node>>[1] = node OBVIOUS
    <2> QED BY ONLY <2>1, Numeric(node) DEF Numbered
  <1>6. ASSUME NEW i PROVE Numbered([kids EXCEPT ![i] = node])
    <2>1. PICK c : c = [kids EXCEPT ![i] = node] OBVIOUS
    <2>2. DOMAIN c = 1..n /\ \A j \in 1..n : c[j] = IF j = i THEN node ELSE kids[j]
      BY ONLY <1>1, <1>2, <2>1
    <2> QED BY ONLY <1>3, <2>1, <2>2, Numeric(node) DEF Numbered
  <1> QED BY <1>4, <1>5, <1>6

\* What a step has to leave.
LEMMA PlaceStep ==
    ASSUME file \in Files, file' = file, calls' \in 0..MaxCalls, ctl' \in Controls,
           NEW w, InFile(w), window' = w, Numeric(ret'), AllKnown(stack')
    PROVE  PlaceInv'
  <1>1. InFile(window)' BY DEF InFile, IsSeq
  <1> QED BY ONLY <1>1, file \in Files, file' = file, calls' \in 0..MaxCalls, ctl' \in Controls,
                  Numeric(ret'), AllKnown(stack') DEF PlaceInv

\* The handlers that hand an object over or begin one.
LEMMA ParseObjectPlace ==
    ASSUME Sound, PlaceInv, ParseObject, file' = file, calls' = calls PROVE PlaceInv'
  <1>1. IsSeq(stack) /\ AllKnown(stack) /\ calls' \in 0..MaxCalls /\ file \in Files
    BY DEF Sound, Frames, PlaceInv
  <1>2. /\ InFile(Ahead(0)) /\ InFile(Ahead(1)) /\ InFile(Ahead(2))
        /\ \A type : NextIs({type}) =>
              \A k \in 0..2 : 0 < Len(Ahead(k).buffer) /\ Ahead(k).buffer[1].type = type
    BY AheadInFile
  <1>3. \A w : InFile(w) => InFile(Advanced(w)) /\ InFile(Consumed(w, 3)) BY ConsumedInFile
  <1>4. ASSUME NEW node, Numeric(node), NEW w, InFile(w), ReturnNew(node, w) \/ ReturnNull(w)
        PROVE  PlaceInv'
    <2>1. /\ window' = w /\ ctl' = "return" /\ stack' = stack
          /\ ret' = node \/ ret' = NoNode
      BY ONLY <1>4 DEF ReturnNew, ReturnNull, Return
    <2>2. Numeric(ret') BY ONLY <1>4, <2>1 DEF Numeric, NoNode
    <2>3. ctl' \in Controls /\ AllKnown(stack') BY ONLY <1>1, <2>1 DEF Controls
    <2> QED BY ONLY <1>1, <1>4, <2>1, <2>2, <2>3, file' = file, PlaceStep
  <1>5. ASSUME NEW call \in {"def", "array", "dict"}, NEW value, NEW then \in {"parse", "loop"},
               NEW w, InFile(w), Descend(Frame(call, value), then, w)
        PROVE  PlaceInv'
    <2>1. PICK f : f = Frame(call, value) OBVIOUS
    <2>2. Known(f) BY ONLY <2>1, call \in {"def", "array", "dict"}, NewKnown
    <2>3. window' = w /\ ctl' = then /\ stack' = <<f>> \o stack /\ ret' = ret
      BY ONLY <1>5, <2>1 DEF Descend
    <2>4. AllKnown(stack') BY ONLY <1>1, <2>2, <2>3, KnownIs
    <2>5. Numeric(ret') BY <2>3 DEF PlaceInv
    <2>6. ctl' \in Controls BY ONLY <2>3, then \in {"parse", "loop"} DEF Controls
    <2> QED BY ONLY <1>1, <1>5, <2>3, <2>4, <2>5, <2>6, file' = file, PlaceStep
  <1>6. /\ \A v : Numeric(Node("Name", v)) /\ Numeric(Node("Real", v)) /\ Numeric(Node("Bool", v))
        /\ \A v : Numeric(Node("Ref", v)) /\ Numeric([Node("Null", 0) EXCEPT !.size = 0])
        /\ \A v \in Int : Numeric(Node("Integer", v))
        /\ Numeric(NoNode)
    <2>1. \A t, v : Node(t, v).type = t /\ Node(t, v).value = v BY DEF Node
    <2>2. [Node("Null", 0) EXCEPT !.size = 0].type = "Null" BY DEF Node
    <2> QED BY ONLY <2>1, <2>2 DEF Numeric, NoNode
  <1>7. CASE ParseUnexpected BY <1>2, <1>4, <1>6, <1>7 DEF ParseUnexpected
  <1>8. CASE ParseName BY <1>2, <1>3, <1>4, <1>6, <1>8 DEF ParseName
  <1>9. CASE ParseReal BY <1>2, <1>3, <1>4, <1>6, <1>9 DEF ParseReal
  <1>10. CASE ParseBool BY <1>2, <1>3, <1>4, <1>6, <1>10 DEF ParseBool
  <1>11. CASE ParseNull BY <1>2, <1>3, <1>4, <1>6, <1>11 DEF ParseNull
  <1>12. CASE ParseInteger
    <2>1. PICK k \in 1..2 : /\ ReturnNew(Node("Integer", Ahead(k).buffer[1].value), Advanced(Ahead(k)))
                            /\ NextIs({"Integer"})
      BY <1>12 DEF ParseInteger
    <2>2. k \in 0..2 /\ (k = 1 \/ k = 2) OBVIOUS
    <2>3. PICK w : w = Ahead(k) OBVIOUS
    <2>4. InFile(w) /\ InFile(Advanced(w)) BY ONLY <1>2, <1>3, <2>2, <2>3
    <2>5. 0 < Len(w.buffer) /\ w.buffer[1].type = "Integer" BY ONLY <1>2, <2>1, <2>2, <2>3
    <2>6. w.buffer[1].value \in Int
      <3>1. IsSeq(w.buffer) BY ONLY <2>4 DEF InFile
      <3>2. 1 \in DOMAIN w.buffer BY ONLY <2>5, <3>1, SeqIs
      <3> QED BY ONLY <2>4, <2>5, <3>2 DEF InFile, Numeric
    <2> QED BY <1>4, <1>6, <2>1, <2>3, <2>4, <2>6
  <1>13. CASE ParseIndirectRef BY <1>2, <1>3, <1>4, <1>6, <1>13 DEF ParseIndirectRef
  <1>14. CASE ParseIndirectDef BY <1>2, <1>3, <1>4, <1>5, <1>6, <1>14 DEF ParseIndirectDef
  <1>15. CASE ParseArray BY <1>2, <1>3, <1>5, <1>15 DEF ParseArray
  <1>16. CASE ParseDict BY <1>2, <1>3, <1>5, <1>16 DEF ParseDict
  <1> QED BY <1>7, <1>8, <1>9, <1>10, <1>11, <1>12, <1>13, <1>14, <1>15, <1>16 DEF ParseObject

\* A call of a client, and the load of what a Length refers to.
LEMMA BeginPlace ==
    ASSUME Sound, PlaceInv, file' = file, calls' \in 0..MaxCalls,
           NEW call \in {"next", "peek", "load"}, NEW w, InFile(w), Begin(call, w)
    PROVE  PlaceInv'
  <1>1. IsSeq(stack) /\ AllKnown(stack) /\ Numeric(ret) /\ file \in Files
    BY DEF Sound, Frames, PlaceInv
  <1>2. PICK f : f = Frame(call, Unread(w)) OBVIOUS
  <1>3. Known(f) BY ONLY <1>2, call \in {"next", "peek", "load"}, NewKnown
  <1>4. /\ window' = w /\ ctl' \in {"parse", "seek", "idle"} /\ ret' = ret
        /\ stack' = <<f>> \o stack \/ stack' = stack
    BY <1>2 DEF Begin, Descend
  <1>5. AllKnown(stack') BY ONLY <1>1, <1>3, <1>4, KnownIs
  <1>6. Numeric(ret') /\ ctl' \in Controls BY ONLY <1>1, <1>4 DEF Controls
  <1> QED BY ONLY <1>1, <1>4, <1>5, <1>6, InFile(w), file' = file, calls' \in 0..MaxCalls, PlaceStep

\* An innermost call that gets its part, and one that returns.
LEMMA ReplacePlace ==
    ASSUME Sound, PlaceInv, file' = file, calls' = calls, stack # <<>>, NEW f, Known(f),
           NEW then, then \in {"loop", "finish", "parse"}, Replace(f, then)
    PROVE  PlaceInv'
  <1>1. IsSeq(stack) /\ AllKnown(stack) /\ InFile(window) /\ file \in Files /\ calls' \in 0..MaxCalls
    BY DEF Sound, Frames, PlaceInv
  <1>2. stack' = <<f>> \o Tail(stack) /\ ctl' = then /\ window' = window /\ ret' = NoNode
    BY DEF Replace
  <1>3. AllKnown(stack') BY ONLY <1>1, <1>2, stack # <<>>, Known(f), KnownIs
  <1>4. Numeric(ret') BY ONLY <1>2 DEF NoNode, Numeric
  <1>5. ctl' \in Controls BY ONLY <1>2, then \in {"loop", "finish", "parse"} DEF Controls
  <1> QED BY ONLY <1>1, <1>2, <1>3, <1>4, <1>5, file' = file, PlaceStep

\* An innermost call that returns.
LEMMA PopPlace ==
    ASSUME Sound, PlaceInv, file' = file, calls' = calls, stack # <<>>, stack' = Tail(stack),
           ctl' \in Controls, Numeric(ret'), NEW w, InFile(w), window' = w
    PROVE  PlaceInv'
  <1>1. IsSeq(stack) /\ AllKnown(stack) /\ file \in Files /\ calls' \in 0..MaxCalls
    BY DEF Sound, Frames, PlaceInv
  <1>2. AllKnown(stack') BY ONLY <1>1, stack # <<>>, stack' = Tail(stack), KnownIs
  <1> QED BY ONLY <1>1, <1>2, ctl' \in Controls, Numeric(ret'), InFile(w), window' = w,
                  file' = file, PlaceStep

\* Elements of arrays, keys and values of dictionaries.
LEMMA PartPlace ==
    ASSUME Sound, PlaceInv, file' = file, calls' = calls, AddElement \/ AddKey \/ AddValue,
           ctl' # "undefined"
    PROVE  PlaceInv'
  <1>1. ctl = "return" /\ stack # <<>> /\ FrameOK(Top) /\ Top.call \in {"array", "dict"}
    BY Awaited DEF AddElement, AddKey, AddValue
  <1>2. IsSeq(stack) /\ AllKnown(stack) /\ Numeric(ret) BY DEF Sound, Frames, PlaceInv
  <1>3. Known(Top) BY ONLY <1>1, <1>2, KnownIs DEF Top
  <1>4. PICK c, v, k, y : Top = [call |-> c, value |-> v, kids |-> k, key |-> y]
    BY ONLY <1>1 DEF FrameOK
  <1>5. /\ Top.call = c /\ c # "stream" /\ Top.kids = k /\ IsSeq(k) /\ Numbered(k)
        /\ Top = [call |-> c, value |-> v, kids |-> k, key |-> y]
    <2>1. Top.call = c /\ Top.kids = k BY ONLY <1>4
    <2> QED BY ONLY <1>1, <1>3, <1>4, <2>1 DEF FrameOK, Nodes, Known
  <1>6. \A l, z : Numbered(l) => Known([call |-> c, value |-> v, kids |-> l, key |-> z])
    BY ONLY <1>5 DEF Known
  <1>7. ASSUME NEW f, Known(f), NEW then, then \in {"loop", "finish", "parse"}, Replace(f, then)
        PROVE  PlaceInv'
    BY ONLY <1>1, <1>7, Sound, PlaceInv, file' = file, calls' = calls, ReplacePlace
  <1>8. CASE AddElement
    <2>1. Replace(Top, "finish") \/ Replace([Top EXCEPT !.kids = Append(k, ret)], "loop")
      BY ONLY <1>5, <1>8 DEF AddElement, OnFailure
    <2>2. [Top EXCEPT !.kids = Append(k, ret)]
            = [call |-> c, value |-> v, kids |-> Append(k, ret), key |-> y]
      BY ONLY <1>5
    <2>3. Numbered(Append(k, ret)) BY ONLY <1>2, <1>5, NumberedIs
    <2>4. Known([Top EXCEPT !.kids = Append(k, ret)]) BY ONLY <1>6, <2>2, <2>3
    <2> QED BY <1>3, <1>7, <2>1, <2>4
  <1>9. CASE AddKey
    <2>1. Replace(Top, "finish") \/ Replace([Top EXCEPT !.key = ret], "parse")
      BY ONLY <1>9 DEF AddKey, OnFailure
    <2>2. [Top EXCEPT !.key = ret] = [call |-> c, value |-> v, kids |-> k, key |-> ret]
      BY ONLY <1>5
    <2>3. Known([Top EXCEPT !.key = ret]) BY ONLY <1>5, <1>6, <2>2
    <2> QED BY <1>3, <1>7, <2>1, <2>3
  <1>10. CASE AddValue
    <2>1. PICK done, entry : done = [Top EXCEPT !.key = NoNode] /\ entry = Entry(Top.key.value, ret)
      OBVIOUS
    <2>2. done = [call |-> c, value |-> v, kids |-> k, key |-> NoNode] BY ONLY <1>5, <2>1
    <2>3. done.kids = k BY ONLY <2>2
    <2>4. \/ Replace(done, "finish")
          \/ Replace([done EXCEPT !.kids = Append(k, entry)], "loop")
          \/ \E i : Replace([done EXCEPT !.kids = [k EXCEPT ![i] = entry]], "loop")
      <3>1. \/ Replace(done, "finish")
            \/ Replace([done EXCEPT !.kids = Append(@, entry)], "loop")
            \/ \E i : Replace([done EXCEPT !.kids[i] = entry], "loop")
        BY ONLY <1>10, <2>1, ctl' # "undefined" DEF AddValue, OnFailure
      <3> QED BY ONLY <2>3, <3>1
    <2>5. entry.type = ret.type /\ entry.value = ret.value BY ONLY <2>1 DEF Entry
    <2>6. Numeric(entry) BY ONLY <1>2, <2>5 DEF Numeric
    <2>7. Numbered(Append(k, entry)) /\ \A i : Numbered([k EXCEPT ![i] = entry])
      BY ONLY <1>5, <2>6, NumberedIs
    <2>8. \A l : [done EXCEPT !.kids = l] = [call |-> c, value |-> v, kids |-> l, key |-> NoNode]
      BY ONLY <2>2
    <2>9. /\ Known(done) /\ Known([done EXCEPT !.kids = Append(k, entry)])
          /\ \A i : Known([done EXCEPT !.kids = [k EXCEPT ![i] = entry]])
      <3>1. ASSUME NEW l, Numbered(l) PROVE Known([done EXCEPT !.kids = l])
        <4>1. PICK f, g : /\ f = [done EXCEPT !.kids = l]
                          /\ g = [call |-> c, value |-> v, kids |-> l, key |-> NoNode]
          OBVIOUS
        <4>2. f = g BY ONLY <2>8, <4>1
        <4>3. Known(g) BY ONLY <1>6, <3>1, <4>1
        <4> QED BY ONLY <4>1, <4>2, <4>3
      <3>2. Known(done) BY ONLY <1>5, <1>6, <2>2
      <3> HIDE DEF Known, Numbered
      <3> QED BY ONLY <2>7, <3>1, <3>2, Zenon
    <2> QED BY <1>7, <2>4, <2>9
  <1> QED BY <1>8, <1>9, <1>10

\* Streams.
LEMMA StreamPlace ==
    ASSUME Sound, PlaceInv, file' = file, calls' = calls, BeginStream \/ ResolveLength \/ SkipData
    PROVE  PlaceInv'
  <1>1. stack # <<>> /\ FrameOK(Top) BY Awaited DEF BeginStream, ResolveLength, SkipData
  <1>2. /\ IsSeq(stack) /\ AllKnown(stack) /\ Numeric(ret) /\ InFile(window)
        /\ file \in Files /\ calls' \in 0..MaxCalls
    BY DEF Sound, Frames, PlaceInv
  <1>3. Known(Top) BY ONLY <1>1, <1>2, KnownIs DEF Top
  <1>4. ASSUME NEW pos \in Int, CanSeek(pos) PROVE Place(pos) \in DOMAIN file.tokens
    BY <1>4, PlaceIs
  <1>5. CASE BeginStream
    <2>1. PICK w : w = Ahead(0) OBVIOUS
    <2>2. /\ InFile(w) /\ InFile(Advanced(w)) /\ 0 < Len(w.buffer)
      <3>1. NextIs({"Stream"}) /\ 0 \in 0..2 BY ONLY <1>5 DEF BeginStream
      <3>2. InFile(w) /\ 0 < Len(w.buffer) BY <2>1, <3>1, AheadInFile
      <3> QED BY ONLY <3>2, ConsumedInFile
    <2>3. PosAfter(w.buffer[1]) \in Int
      <3>1. IsSeq(w.buffer) BY ONLY <2>2 DEF InFile
      <3>2. 1 \in DOMAIN w.buffer BY ONLY <2>2, <3>1, SeqIs
      <3> QED BY ONLY <2>2, <3>2 DEF InFile
    <2>4. PICK f, d : f = Frame("stream", PosAfter(w.buffer[1])) /\ d = DictNode(Top.kids) OBVIOUS
    <2>5. PICK g : g = [f EXCEPT !.kids = <<d>>] OBVIOUS
    <2>6. f = [call |-> "stream", value |-> PosAfter(w.buffer[1]), kids |-> <<>>, key |-> NoNode]
      BY ONLY <2>4 DEF Frame
    <2>7. g = [call |-> "stream", value |-> PosAfter(w.buffer[1]), kids |-> <<d>>, key |-> NoNode]
      BY ONLY <2>5, <2>6
    <2>8. g.value = PosAfter(w.buffer[1]) /\ g.kids = <<d>> BY ONLY <2>7
    <2>9. d.type = "Dict" /\ d.kids = Top.kids BY ONLY <2>4 DEF DictNode
    <2>10. DOMAIN <<d>> = {1} /\ <<d>>[1] = d OBVIOUS
    <2>11. Numbered(<<d>>) BY ONLY <2>9, <2>10 DEF Numbered, Numeric
    <2>12. Numbered(<<d>>[1].kids) BY ONLY <1>3, <2>9, <2>10 DEF Known
    <2>13. Known(g) BY ONLY <2>3, <2>8, <2>11, <2>12 DEF Known
    <2>14. /\ stack' = <<g>> \o Tail(stack) /\ ctl' = "length" /\ window' = Advanced(w) /\ ret' = ret
      BY ONLY <1>5, <2>1, <2>4, <2>5 DEF BeginStream
    <2>15. AllKnown(stack') BY ONLY <1>1, <1>2, <2>13, <2>14, KnownIs
    <2>16. ctl' \in Controls /\ Numeric(ret') BY ONLY <1>2, <2>14 DEF Controls
    <2> QED BY ONLY <1>2, <2>2, <2>14, <2>15, <2>16, file' = file, PlaceStep
  <1>6. CASE ResolveLength
    <2>1. CASE ctl' = "seek" /\ UNCHANGED <<window, stack, ret>>
      <3>1. ctl' \in Controls /\ Numeric(ret') /\ AllKnown(stack') BY <1>2, <2>1 DEF Controls
      <3> QED BY ONLY <1>2, <2>1, <3>1, file' = file, PlaceStep
    <2>2. ASSUME NEW pos, pos \in Int, CanSeek(pos), Begin("load", Moved(window, Place(pos)))
          PROVE  PlaceInv'
      <3>1. Place(pos) \in DOMAIN file.tokens BY <1>4, <2>2
      <3>2. InFile(Moved(window, Place(pos))) BY ONLY <3>1, NewInFile DEF Moved
      <3> QED BY ONLY <1>2, <2>2, <3>2, Sound, PlaceInv, file' = file, BeginPlace
    <2>3. \A i \in DOMAIN file.objects : file.objects[i] \in Int BY TokensAre
    <2> QED BY ONLY <1>6, <2>1, <2>2, <2>3 DEF ResolveLength
  <1>7. CASE SkipData
    <2>1. Top.call = "stream" BY <1>7 DEF SkipData, Sound, Control
    <2>2. Top.value \in Int /\ Numbered(Top.kids[1].kids) BY ONLY <1>3, <2>1 DEF Known
    <2>3. IntegerLength \in Int
      <3>1. CASE Lengths # {} /\ Length.type = "Integer"
        <4>1. PICK i : i = CHOOSE j \in Lengths : TRUE OBVIOUS
        <4>2. i \in Lengths BY ONLY <3>1, <4>1
        <4>3. i \in DOMAIN Top.kids[1].kids BY ONLY <4>2 DEF Lengths
        <4>4. Length = Top.kids[1].kids[i] BY ONLY <4>1 DEF Length
        <4>5. Length.value \in Int BY ONLY <2>2, <3>1, <4>3, <4>4 DEF Numbered, Numeric
        <4> QED BY ONLY <3>1, <4>5 DEF IntegerLength
      <3>2. CASE ~(Lengths # {} /\ Length.type = "Integer") BY ONLY <3>2 DEF IntegerLength
      <3> QED BY ONLY <3>1, <3>2
    <2>4. PICK end, u, w : /\ end = Top.value + IntegerLength
                           /\ u = [window EXCEPT !.pos = Place(end)]
                           /\ w = Filled(file.tokens, u, 0)
      OBVIOUS
    <2>5. end \in Int
      <3>1. PICK a, b : a = Top.value /\ b = IntegerLength OBVIOUS
      <3> QED BY ONLY <2>2, <2>3, <2>4, <3>1
    <2>6. stack' = Tail(stack) /\ ctl' = "return" BY ONLY <1>7 DEF SkipData
    <2>7. ctl' \in Controls BY ONLY <2>6 DEF Controls
    <2>8. CASE OwnStream /\ CanSeek(end)
      <3>1. Place(end) \in DOMAIN file.tokens BY <1>4, <2>5, <2>8
      <3>2. InFile(u)
        <4>1. PICK p, b : window = [pos |-> p, buffer |-> b] /\ window.buffer = b
          BY ONLY <1>2 DEF InFile
        <4>2. PICK q : q = Place(end) OBVIOUS
        <4>3. u = [pos |-> q, buffer |-> b] BY ONLY <2>4, <4>1, <4>2
        <4>4. u.pos = q /\ u.buffer = b BY ONLY <4>3
        <4>5. IsSeq(b) /\ \A i \in DOMAIN b : Numeric(b[i]) /\ PosAfter(b[i]) \in Int
          BY ONLY <1>2, <4>1 DEF InFile
        <4> QED BY ONLY <3>1, <4>2, <4>3, <4>4, <4>5 DEF InFile
      <3>3. InFile(w)
        <4>1. w = Read(file.tokens, u, 0) BY ONLY <2>4 DEF Filled
        <4> QED BY ONLY <3>2, <4>1, PlaceInv, ReadInFile
      <3>4. InFile(Advanced(w)) BY ONLY <3>3, ConsumedInFile
      <3>5. window' \in {w, Advanced(w)} /\ ret' = Wrap("Stream", 0, Top.kids[1])
        BY ONLY <1>7, <2>4, <2>8 DEF SkipData, EndOfData
      <3>6. Numeric(ret') BY ONLY <3>5 DEF Wrap, Numeric
      <3> QED BY ONLY <1>1, <2>6, <2>7, <3>3, <3>4, <3>5, <3>6, Sound, PlaceInv,
                      file' = file, calls' = calls, PopPlace
    <2>9. CASE ~(OwnStream /\ CanSeek(end))
      <3>1. window' = window /\ ret' = NoNode BY ONLY <1>7, <2>4, <2>9 DEF SkipData, EndOfData
      <3>2. Numeric(ret') BY ONLY <3>1 DEF NoNode, Numeric
      <3> QED BY ONLY <1>1, <1>2, <2>6, <2>7, <3>1, <3>2, Sound, PlaceInv,
                      file' = file, calls' = calls, PopPlace
    <2> QED BY ONLY <2>8, <2>9
  <1> QED BY <1>5, <1>6, <1>7

\* Every step leaves the tokenizer in the file.
LEMMA NextPlace ==
    ASSUME Sound, PlaceInv, ctl' # "undefined", [Next]_vars PROVE PlaceInv'
  <1>1. /\ file \in Files /\ calls \in 0..MaxCalls /\ ctl \in Controls /\ MaxCalls \in Nat
        /\ InFile(window) /\ Numeric(ret) /\ AllKnown(stack)
    BY FilesAssumption DEF PlaceInv
  <1>2. ASSUME Client PROVE file' = file /\ calls' \in 0..MaxCalls
    <2>1. file' = file /\ calls' = calls + 1 /\ calls < MaxCalls BY <1>2 DEF Client
    <2> QED BY ONLY <1>1, <2>1
  <1>3. CASE NextObject \/ PeekObject
    <2>1. PICK call \in {"next", "peek", "load"} : Begin(call, window)
      BY <1>3 DEF NextObject, PeekObject
    <2>2. Client BY <1>3 DEF NextObject, PeekObject
    <2> QED BY ONLY <1>1, <1>2, <2>1, <2>2, Sound, PlaceInv, BeginPlace
  <1>4. ASSUME NEW num \in DOMAIN file.objects, LoadObject(num) PROVE PlaceInv'
    <2>1. PICK pos : pos = file.objects[num] OBVIOUS
    <2>2. Client /\ CanSeek(pos) /\ Begin("next", Moved(window, Place(pos)))
      BY <1>4, <2>1 DEF LoadObject
    <2>3. pos \in Int BY <1>4, <2>1, TokensAre
    <2>4. Place(pos) \in DOMAIN file.tokens BY <2>2, <2>3, PlaceIs
    <2>5. InFile(Moved(window, Place(pos))) BY ONLY <2>4, NewInFile DEF Moved
    <2>6. "next" \in {"next", "peek", "load"} OBVIOUS
    <2> QED BY ONLY <1>2, <2>2, <2>5, <2>6, Sound, PlaceInv, BeginPlace
  <1>5. CASE Destroy
    <2>1. /\ window' = [window EXCEPT !.buffer = <<>>] /\ ctl' = "destroyed"
          /\ UNCHANGED <<file, stack, ret, calls>>
      BY <1>5 DEF Destroy
    <2>2. PICK p, b : window = [pos |-> p, buffer |-> b] /\ window.pos = p BY ONLY <1>1 DEF InFile
    <2>3. window' = Window(p) BY ONLY <2>1, <2>2 DEF Window
    <2>4. p \in DOMAIN file.tokens BY ONLY <1>1, <2>2 DEF InFile
    <2>5. InFile(Window(p)) BY ONLY <2>4, NewInFile
    <2>6. /\ file' = file /\ calls' \in 0..MaxCalls /\ ctl' \in Controls
          /\ Numeric(ret') /\ AllKnown(stack')
      BY ONLY <1>1, <2>1 DEF Controls
    <2> QED BY ONLY <1>1, <2>3, <2>5, <2>6, PlaceStep
  <1>6. CASE Step
    <2>0. file' = file /\ calls' = calls BY <1>6 DEF Step
    <2>1. InFile(Ahead(0)) /\ InFile(Advanced(Ahead(0)))
      BY AheadInFile, ConsumedInFile
    <2>2. ctl \notin {"idle", "destroyed"} => stack # <<>> BY DEF Sound, Control
    <2>3. CASE ParseObject BY ONLY <2>0, <2>3, Sound, PlaceInv, ParseObjectPlace
    <2>4. CASE Loop
      <3>1. /\ window' = Ahead(0) \/ window' = Advanced(Ahead(0))
            /\ ctl' = "finish" \/ ctl' = "parse"
            /\ stack' = stack /\ ret' = ret
        BY <2>4 DEF Loop
      <3>2. ctl' \in Controls /\ Numeric(ret') /\ AllKnown(stack') BY ONLY <1>1, <3>1 DEF Controls
      <3>3. calls' \in 0..MaxCalls BY ONLY <1>1, <2>0
      <3> QED BY ONLY <1>1, <2>0, <2>1, <3>1, <3>2, <3>3, PlaceStep
    <2>5. CASE AddElement \/ AddKey \/ AddValue
      BY ONLY <2>0, <2>5, Sound, PlaceInv, ctl' # "undefined", PartPlace
    <2>6. CASE FinishArray \/ FinishDict \/ FinishIndirectDef
      <3>1. stack # <<>> /\ stack' = Tail(stack) /\ ctl' = "return"
        BY <2>2, <2>6 DEF FinishArray, FinishDict, FinishIndirectDef
      <3>2. \E w : InFile(w) /\ window' = w
        BY <1>1, <2>1, <2>6 DEF FinishArray, FinishDict, FinishIndirectDef
      <3>3. Numeric(ret')
        <4>1. \A k : ArrayNode(k).type = "Array" /\ DictNode(k).type = "Dict"
          BY DEF ArrayNode, DictNode
        <4>2. \A v, n : Wrap("Def", v, n).type = "Def" BY DEF Wrap
        <4>3. \/ ret' = ArrayNode(Top.kids) \/ ret' = DictNode(Top.kids)
              \/ ret' = Wrap("Def", Top.value, ret) \/ ret' = ret
          BY ONLY <2>6 DEF FinishArray, FinishDict, FinishIndirectDef
        <4> QED BY ONLY <1>1, <4>1, <4>2, <4>3 DEF Numeric
      <3>4. ctl' \in Controls BY ONLY <3>1 DEF Controls
      <3> QED BY ONLY <2>0, <3>1, <3>2, <3>3, <3>4, Sound, PlaceInv, PopPlace
    <2>7. CASE BeginStream \/ ResolveLength \/ SkipData
      BY ONLY <2>0, <2>7, Sound, PlaceInv, StreamPlace
    <2>8. CASE ReturnToClient
      <3>1. /\ stack # <<>> /\ stack' = Tail(stack) /\ window' = window /\ ret' = NoNode
            /\ ctl' \in {"seek", "idle"}
        BY <2>2, <2>8 DEF ReturnToClient
      <3>2. Numeric(ret') /\ ctl' \in Controls BY ONLY <3>1 DEF NoNode, Numeric, Controls
      <3> QED BY ONLY <1>1, <2>0, <3>1, <3>2, Sound, PlaceInv, PopPlace
    <2> QED BY <1>6, <2>3, <2>4, <2>5, <2>6, <2>7, <2>8 DEF Step
  <1>7. CASE UNCHANGED vars
    <2>1. UNCHANGED <<file, window, stack, ctl, ret, calls>> BY <1>7 DEF vars
    <2>2. /\ file' = file /\ calls' \in 0..MaxCalls /\ ctl' \in Controls
          /\ Numeric(ret') /\ AllKnown(stack')
      BY ONLY <1>1, <2>1
    <2> QED BY ONLY <1>1, <2>1, <2>2, PlaceStep
  <1> QED BY <1>3, <1>4, <1>5, <1>6, <1>7 DEF Next

\* Where what follows is undefined, the parser has stopped in the middle of
\* an object.
StoppedInv ==
    ctl = "undefined" =>
        /\ file \in Files /\ window.pos \in Nat /\ stack # <<>>
        /\ live \in Nat /\ got \in Nat /\ lost \in Nat /\ calls \in 0..MaxCalls

TypeInv == (ctl # "undefined" => PlaceInv) /\ StoppedInv

\* Where the parser is at work, its variables have their types.
LEMMA TypedIs ==
    ASSUME Sound, PlaceInv
    PROVE  /\ file \in Files /\ window.pos \in Nat /\ calls \in 0..MaxCalls
           /\ live \in Nat /\ got \in Nat /\ lost \in Nat
           /\ ctl \in Controls /\ (ctl \in {"idle", "destroyed"} <=> stack = <<>>)
           /\ ret # NoNode => ctl = "return"
  <1>1. /\ file \in Files /\ calls \in 0..MaxCalls /\ ctl \in Controls /\ InFile(window)
    BY DEF PlaceInv
  <1>2. window.pos \in Nat
    <2>1. PICK n \in Nat : DOMAIN file.tokens = 1..n BY TokensAre
    <2>2. window.pos \in DOMAIN file.tokens BY ONLY <1>1 DEF InFile
    <2> QED BY ONLY <2>1, <2>2
  <1>3. live \in Nat /\ got \in Nat /\ lost \in Nat BY Awaited
  <1>4. /\ ctl \in {"idle", "destroyed"} <=> stack = <<>>
        /\ ret # NoNode => ctl = "return"
    BY DEF Sound, Control
  <1> QED BY ONLY <1>1, <1>2, <1>3, <1>4

\* Every step keeps the types.
LEMMA NextType == IInv /\ TypeInv /\ [Next]_vars => TypeInv'
  <1>1. SUFFICES ASSUME IInv, TypeInv, [Next]_vars PROVE TypeInv' OBVIOUS
  <1>2. CASE ctl = "undefined"
    <2>1. UNCHANGED <<file, window, stack, ctl, live, got, lost, calls>>
      BY <1>1, <1>2, UndefinedIsLast DEF vars
    <2> QED BY <1>1, <1>2, <2>1 DEF TypeInv, StoppedInv
  <1>3. CASE ctl # "undefined"
    <2>1. Sound /\ PlaceInv BY <1>1, <1>3 DEF IInv, TypeInv
    <2>2. CASE ctl' # "undefined" BY <1>1, <2>1, <2>2, NextPlace DEF TypeInv, StoppedInv
    <2>3. CASE ctl' = "undefined"
      <3>1. Step
        BY <1>1, <1>3, <2>3
           DEF Next, NextObject, PeekObject, LoadObject, Begin, Descend, Destroy, vars
      <3>2. AddValue
        BY <2>3, <3>1, <1>3
           DEF Step, ParseObject, ParseUnexpected, ParseName, ParseReal, ParseBool, ParseNull,
               ParseInteger, ParseIndirectRef, ParseIndirectDef, ParseArray, ParseDict,
               ReturnNew, ReturnNull, Return, Descend, Loop, AddElement, AddKey, Replace, OnFailure,
               FinishArray, FinishDict, FinishIndirectDef, BeginStream, ResolveLength, Begin,
               SkipData, ReturnToClient
      <3>3. ctl = "return" /\ UNCHANGED <<window, stack, live, got, lost>>
        BY <2>3, <3>2 DEF AddValue, Replace, OnFailure
      <3>4. file' = file /\ calls' = calls BY <3>1 DEF Step
      <3>5. /\ file \in Files /\ window.pos \in Nat /\ calls \in 0..MaxCalls
            /\ live \in Nat /\ got \in Nat /\ lost \in Nat /\ stack # <<>>
        BY ONLY <2>1, <3>3, TypedIs
      <3> QED BY ONLY <2>3, <3>3, <3>4, <3>5 DEF TypeInv, StoppedInv
    <2> QED BY <2>2, <2>3
  <1> QED BY <1>2, <1>3

\* At first nothing is read.
LEMMA InitType == Init => TypeInv
  <1>1. SUFFICES ASSUME Init PROVE TypeInv OBVIOUS
  <1>2. file \in Files /\ window = Window(1) /\ stack = <<>> /\ ctl = "idle" /\ ret = NoNode /\ calls = 0
    BY <1>1 DEF Init
  <1>3. IsFile(file.tokens) /\ MaxCalls \in Nat BY <1>2, FilesAssumption
  <1>4. 1 \in DOMAIN file.tokens BY <1>3 DEF IsFile
  <1>5. InFile(window) BY ONLY <1>2, <1>4, NewInFile
  <1>6. DOMAIN <<>> = {} OBVIOUS
  <1>7. AllKnown(stack) /\ Numeric(ret) BY ONLY <1>2, <1>6 DEF AllKnown, Numeric, NoNode
  <1>8. calls \in 0..MaxCalls BY ONLY <1>2, <1>3
  <1> QED BY <1>2, <1>5, <1>7, <1>8 DEF TypeInv, StoppedInv, PlaceInv, Controls

-----------------------------------------------------------------------------
(* The text behind the tokens *)

\* A text: an integer has a value, the keyword stream two cells.
IsText(text) ==
    /\ Len(text) \in Nat /\ DOMAIN text = 1..Len(text)
    /\ \A i \in 1..Len(text) : /\ text[i].type = "Integer" => text[i].value \in Int
                               /\ text[i].type = "Stream" => i < Len(text)

\* White space ends, at one place.
LEMMA SkippedIs ==
    ASSUME NEW text, IsText(text), NEW pos \in 1..(Len(text) + 1)
    PROVE  LET i == Skipped(text, pos)
           IN  /\ i \in pos..(Len(text) + 1) /\ Skipped(text, i) = i
               /\ i <= Len(text) => text[i].type # "eol"
  <1>1. PICK n \in Nat : n = Len(text) BY DEF IsText
  <1> DEFINE Begins(p, i) == /\ \A j \in p..(i - 1) : text[j].type = "eol"
                             /\ i <= n => text[i].type # "eol"
             P == {i \in pos..(n + 1) : i <= n => text[i].type # "eol"}
  <1>2. P \in SUBSET Nat /\ n + 1 \in P BY <1>1
  <1>3. PICK i \in P : \A j \in P : i <= j
    <2> HIDE DEF P
    <2> QED BY ONLY <1>2, Least
  <1>4. i \in pos..(n + 1) /\ Begins(pos, i)
    <2>1. i \in pos..(n + 1) /\ (i <= n => text[i].type # "eol") BY <1>3
    <2>2. ASSUME NEW j \in pos..(i - 1) PROVE text[j].type = "eol"
      <3>1. j \in pos..(n + 1) /\ j <= n /\ ~(i <= j) BY ONLY <2>1, <1>1, j \in pos..(i - 1), pos \in 1..(Len(text) + 1)
      <3> QED BY <1>3, <3>1
    <2> QED BY <2>1, <2>2
  <1>5. \A p : Skipped(text, p) = CHOOSE k \in p..(n + 1) : Begins(p, k)
    BY <1>1 DEF Skipped
  <1>6. PICK k : k = Skipped(text, pos) OBVIOUS
  <1>7. k \in pos..(n + 1) /\ Begins(pos, k)
    <2> HIDE DEF Begins
    <2> QED BY ONLY <1>4, <1>5, <1>6
  <1>8. k \in Nat /\ k \in k..(n + 1) /\ Begins(k, k) /\ (k <= n => text[k].type # "eol")
    BY ONLY <1>1, <1>7, pos \in 1..(Len(text) + 1)
  <1>9. ASSUME NEW m \in k..(n + 1), Begins(k, m) PROVE m = k
    <2>1. m # k => k \in k..(m - 1) /\ k <= n BY ONLY <1>1, <1>8, m \in k..(n + 1)
    <2> QED BY ONLY <1>8, <1>9, <2>1
  <1>10. Skipped(text, k) = k
    <2> HIDE DEF Begins
    <2> QED BY ONLY <1>5, <1>8, <1>9
  <1> QED BY ONLY <1>1, <1>6, <1>7, <1>8, <1>10

\* The tokens of a text are a file: where they are asked for, each token lies
\* in the text, is the same from where it starts, and is followed by another
\* place of the text.
LEMMA TextIsFile ==
    ASSUME NEW text, IsText(text), \A t, v, a, l : NoToken # [type |-> t, value |-> v, at |-> a, len |-> l]
    PROVE  IsFile(FileOf(text))
  <1>1. PICK n \in Nat : n = Len(text) /\ DOMAIN text = 1..n BY DEF IsText
  <1>2. PICK tokens : tokens = FileOf(text) OBVIOUS
  <1>3. /\ DOMAIN tokens = 1..(n + 1) /\ Len(tokens) = n + 1
        /\ \A pos \in 1..(n + 1) : tokens[pos] = TokenAt(text, pos)
    <2>1. tokens = [pos \in 1..(n + 1) |-> TokenAt(text, pos)] BY ONLY <1>1, <1>2 DEF FileOf
    <2>2. PICK f : f = [pos \in 1..(n + 1) |-> TokenAt(text, pos)] OBVIOUS
    <2>3. DOMAIN f = 1..(n + 1) /\ \A pos \in 1..(n + 1) : f[pos] = TokenAt(text, pos)
      BY ONLY <2>2
    <2>4. f \in Seq(Range(f))
      <3>1. \A i \in 1..(n + 1) : f[i] \in Range(f) BY ONLY <2>3 DEF Range
      <3>2. f = [i \in 1..(n + 1) |-> f[i]] BY ONLY <2>2, <2>3
      <3> QED BY ONLY <3>1, <3>2, n \in Nat
    <2>5. Len(f) = n + 1 BY ONLY <2>3, <2>4, n \in Nat
    <2> QED BY ONLY <2>1, <2>2, <2>3, <2>5
  <1>4. ASSUME NEW pos \in 1..(n + 1)
        PROVE  LET token == tokens[pos]
               IN  /\ token # NoToken
                   /\ token.at \in pos..(n + 1) /\ tokens[token.at] = token
                   /\ PosAfter(token) \in 1..(n + 1)
                   /\ token.type = "Integer" => token.value \in Int
    <2>1. PICK i : i = Skipped(text, pos) OBVIOUS
    <2>2. i \in pos..(n + 1) /\ Skipped(text, i) = i BY <1>1, <2>1, SkippedIs
    <2>3. i \in 1..(n + 1) BY ONLY <2>2, pos \in 1..(n + 1), n \in Nat
    <2>4. tokens[pos] = TokenAt(text, pos) /\ tokens[i] = TokenAt(text, i) BY ONLY <1>3, <2>3, pos \in 1..(n + 1)
    <2>5. TokenAt(text, i) = TokenAt(text, pos) BY ONLY <2>1, <2>2 DEF TokenAt
    <2>6. PICK token : token = tokens[pos] OBVIOUS
    <2>7. CASE i > n
      <3>1. token = [type |-> "EOF", value |-> 0, at |-> i, len |-> 0]
        BY ONLY <1>1, <2>1, <2>4, <2>6, <2>7 DEF TokenAt
      <3>2. token.at = i /\ PosAfter(token) = i + 0 /\ token.type = "EOF" BY ONLY <3>1 DEF PosAfter
      <3>3. i + 0 = i BY ONLY <2>3
      <3>4. token # NoToken BY <3>1
      <3> QED BY ONLY <2>2, <2>3, <2>4, <2>5, <2>6, <3>2, <3>3, <3>4
    <2>8. CASE ~(i > n)
      <3>1. i \in 1..n BY ONLY <2>3, <2>8, n \in Nat
      <3>2. PICK cell, t, v, l : /\ cell = text[i] /\ t = TypeOf(cell) /\ v = cell.value
                                 /\ l = IF cell.type = "Stream" THEN 2 ELSE 1
        OBVIOUS
      <3>3. token = [type |-> t, value |-> v, at |-> i, len |-> l]
        BY ONLY <1>1, <2>1, <2>4, <2>6, <2>8, <3>2 DEF TokenAt
      <3>4. token.at = i /\ PosAfter(token) = i + l /\ token.type = t /\ token.value = v
        BY ONLY <3>3 DEF PosAfter
      <3>5. /\ cell.type = "Integer" => v \in Int
            /\ cell.type = "Stream" => i < n
        BY <1>1, <3>1, <3>2 DEF IsText
      <3>6. t = "Integer" => v \in Int BY ONLY <3>2, <3>5 DEF TypeOf
      <3>7. i + l \in 1..(n + 1) BY ONLY <3>1, <3>2, <3>5, n \in Nat
      <3>8. token # NoToken BY <3>3
      <3> QED BY ONLY <2>2, <2>3, <2>4, <2>5, <2>6, <3>4, <3>6, <3>7, <3>8
    <2> QED BY ONLY <2>7, <2>8
  <1>5. n + 1 \in Nat \ {0} BY ONLY n \in Nat
  <1>6. IsFile(tokens) BY ONLY <1>3, <1>4, <1>5 DEF IsFile
  <1> QED BY ONLY <1>2, <1>6

-----------------------------------------------------------------------------
(* The window is a cursor *)

\* A token where the file has it, which can be read.
Readable(f, token) ==
    token.at \in DOMAIN f /\ f[token.at] = token /\ token.type # "broken"

\* The buffer has the tokens that follow each other up to the tokenizer.
Chain(f, w) ==
    /\ w = [pos |-> w.pos, buffer |-> w.buffer] /\ w.pos \in DOMAIN f
    /\ IsSeq(w.buffer) /\ Len(w.buffer) <= BufferSize
    /\ \A i \in DOMAIN w.buffer :
          /\ Readable(f, w.buffer[i])
          /\ i < Len(w.buffer) => f[PosAfter(w.buffer[i])] = w.buffer[i + 1]
          /\ i = Len(w.buffer) => PosAfter(w.buffer[i]) = w.pos

\* The token k places ahead is in the buffer, or there is none to be read.
Reached(f, w, k) == k < Len(w.buffer) \/ f[w.pos].type = "broken"

StartOf(f, w) == f[Unread(w)].at

\* Every place of a file has a token, and there is a place behind it.
LEMMA FileIs ==
    ASSUME NEW f, IsFile(f)
    PROVE  /\ 1 \in DOMAIN f
           /\ \A pos \in DOMAIN f : /\ f[pos] # NoToken /\ f[pos].at \in DOMAIN f
                                    /\ f[f[pos].at] = f[pos] /\ PosAfter(f[pos]) \in DOMAIN f
  <1>1. PICK n \in Nat \ {0} : n = Len(f) /\ DOMAIN f = 1..n BY DEF IsFile
  <1>2. 1 \in 1..n /\ \A pos \in 1..n : \A i \in pos..n : i \in 1..n BY ONLY n \in Nat \ {0}
  <1> QED BY <1>1, <1>2 DEF IsFile

\* Where the window starts.
LEMMA StartIs ==
    ASSUME NEW f, IsFile(f), NEW w, Chain(f, w)
    PROVE  /\ w.buffer = <<>> => StartOf(f, w) = f[w.pos].at
           /\ w.buffer # <<>> => StartOf(f, w) = w.buffer[1].at /\ 1 \in DOMAIN w.buffer
                                 /\ Readable(f, w.buffer[1])
  <1>1. PICK b, n : b = w.buffer /\ n = Len(b) OBVIOUS
  <1>2. PICK T : b \in Seq(T) BY <1>1 DEF Chain, IsSeq
  <1>3. CASE b = <<>> BY <1>1, <1>3 DEF StartOf, Unread
  <1>4. CASE b # <<>>
    <2>1. Head(b) = b[1] /\ 1 \in DOMAIN b BY ONLY <1>2, <1>4
    <2>2. Readable(f, b[1]) BY <1>1, <2>1 DEF Chain
    <2>3. Unread(w) = b[1].at BY <1>1, <1>4, <2>1 DEF Unread
    <2>4. f[Unread(w)].at = b[1].at BY ONLY <2>2, <2>3 DEF Readable
    <2> QED BY ONLY <1>1, <1>4, <2>1, <2>2, <2>4 DEF StartOf
  <1> QED BY <1>3, <1>4

\* A token is read behind the others.
LEMMA ReadChain ==
    ASSUME NEW f, IsFile(f), NEW w, Chain(f, w), NEW i \in 0..2,
           i <= Len(w.buffer) \/ f[w.pos].type = "broken"
    PROVE  LET v == Read(f, w, i)
           IN  Chain(f, v) /\ Reached(f, v, i) /\ StartOf(f, v) = StartOf(f, w)
  <1>1. PICK p, b : w = [pos |-> p, buffer |-> b] /\ w.pos = p /\ w.buffer = b BY DEF Chain
  <1>2. PICK T : b \in Seq(T) BY <1>1 DEF Chain, IsSeq
  <1>3. PICK n \in Nat : n = Len(b) /\ DOMAIN b = 1..n BY <1>2
  <1>4. p \in DOMAIN f /\ n <= 3 BY <1>1, <1>3 DEF Chain, BufferSize
  <1>5. CASE n > i \/ f[p].type = "broken"
    <2>1. Read(f, w, i) = w BY <1>1, <1>3, <1>5 DEF Read
    <2> QED BY <1>1, <1>3, <1>5, <2>1 DEF Reached
  <1>6. CASE ~(n > i) /\ f[p].type # "broken"
    <2>1. n = i BY <1>1, <1>3, <1>6
    <2>2. PICK token : token = f[p] OBVIOUS
    <2>3. PICK c, q : c = Append(b, token) /\ q = PosAfter(token) OBVIOUS
    <2>4. PICK v : v = [pos |-> q, buffer |-> c] OBVIOUS
    <2>5. Read(f, w, i) = v BY <1>1, <1>3, <1>6, <2>2, <2>3, <2>4 DEF Read
    <2>6. b \in Seq(T \cup {token}) BY ONLY <1>2
    <2>7. /\ c \in Seq(T \cup {token}) /\ Len(c) = n + 1 /\ DOMAIN c = 1..(n + 1)
          /\ c[n + 1] = token /\ \A j \in 1..n : c[j] = b[j]
      BY ONLY <1>3, <2>3, <2>6
    <2>8. IsSeq(c) BY ONLY <2>7, SeqIs
    <2>9. Readable(f, token) /\ q \in DOMAIN f BY ONLY <1>4, <1>6, <2>2, <2>3, IsFile(f), FileIs DEF Readable
    <2>10. \A j \in 1..n : /\ Readable(f, b[j])
                           /\ j < n => f[PosAfter(b[j])] = b[j + 1]
                           /\ j = n => PosAfter(b[j]) = p
      BY <1>1, <1>3 DEF Chain
    <2>11. \A j \in 1..(n + 1) : /\ Readable(f, c[j])
                                 /\ j < n + 1 => f[PosAfter(c[j])] = c[j + 1]
                                 /\ j = n + 1 => PosAfter(c[j]) = q
      <3>1. SUFFICES ASSUME NEW j \in 1..(n + 1)
                     PROVE  /\ Readable(f, c[j])
                            /\ j < n + 1 => f[PosAfter(c[j])] = c[j + 1]
                            /\ j = n + 1 => PosAfter(c[j]) = q
        OBVIOUS
      <3>2. CASE j = n + 1 BY ONLY <2>3, <2>7, <2>9, <3>2, n \in Nat
      <3>3. CASE j = n
        <4>1. j \in 1..n /\ j < n + 1 /\ j # n + 1 BY ONLY <3>1, <3>3, n \in Nat
        <4> QED BY ONLY <2>2, <2>7, <2>10, <3>3, <4>1
      <3>4. CASE j < n
        <4>1. j \in 1..n /\ j # n + 1 /\ j + 1 \in 1..n BY ONLY <3>1, <3>4, n \in Nat
        <4> QED BY ONLY <2>7, <2>10, <3>4, <4>1
      <3> QED BY ONLY <3>1, <3>2, <3>3, <3>4, n \in Nat
    <2>12. n + 1 <= 3 BY ONLY <2>1, i \in 0..2
    <2>13. v.pos = q /\ v.buffer = c BY ONLY <2>4
    <2>14. Chain(f, v) BY ONLY <2>4, <2>7, <2>8, <2>9, <2>11, <2>12, <2>13 DEF Chain, BufferSize
    <2>15. Reached(f, v, i) BY ONLY <2>1, <2>7, <2>13, n \in Nat DEF Reached
    <2>16. StartOf(f, v) = StartOf(f, w)
      <3>1. c # <<>> BY ONLY <2>7, n \in Nat
      <3>2. StartOf(f, v) = c[1].at BY ONLY <2>13, <2>14, <3>1, IsFile(f), StartIs
      <3>3. CASE b = <<>>
        <4>1. n + 1 = 1 BY ONLY <1>3, <3>3
        <4>2. c[1] = token BY ONLY <2>7, <4>1
        <4>3. StartOf(f, w) = f[p].at BY ONLY <1>1, <3>3, Chain(f, w), IsFile(f), StartIs
        <4> QED BY ONLY <2>2, <3>2, <4>2, <4>3
      <3>4. CASE b # <<>>
        <4>1. StartOf(f, w) = b[1].at /\ 1 \in 1..n
          BY ONLY <1>1, <1>3, <3>4, Chain(f, w), IsFile(f), StartIs
        <4> QED BY ONLY <2>7, <3>2, <4>1
      <3> QED BY <3>3, <3>4
    <2> QED BY ONLY <2>5, <2>14, <2>15, <2>16
  <1> QED BY <1>5, <1>6

\* The window is filled up to the token that is looked at.
LEMMA FilledChain ==
    ASSUME NEW f, IsFile(f), NEW w, Chain(f, w), NEW k \in 0..BufferSize
    PROVE  LET v == Filled(f, w, k)
           IN  /\ Chain(f, v) /\ StartOf(f, v) = StartOf(f, w)
               /\ k < BufferSize => Reached(f, v, k)
  <1>1. PICK w0, w1, w2 : w0 = Read(f, w, 0) /\ w1 = Read(f, w0, 1) /\ w2 = Read(f, w1, 2) OBVIOUS
  <1>2. k \in {0, 1, 2, 3} BY DEF BufferSize
  <1>3. Filled(f, w, k) = CASE k = 0 -> w0 [] k = 1 -> w1 [] k = 2 -> w2 [] OTHER -> w
    BY ONLY <1>1 DEF Filled
  <1>4. \A v : Chain(f, v) => Len(v.buffer) \in Nat BY SeqIs DEF Chain
  <1>5. Chain(f, w0) /\ Reached(f, w0, 0) /\ StartOf(f, w0) = StartOf(f, w)
    <2>1. 0 <= Len(w.buffer) /\ 0 \in 0..2 BY <1>4
    <2> QED BY ONLY <1>1, <2>1, IsFile(f), Chain(f, w), ReadChain
  <1>6. Chain(f, w1) /\ Reached(f, w1, 1) /\ StartOf(f, w1) = StartOf(f, w)
    <2>1. (1 <= Len(w0.buffer) \/ f[w0.pos].type = "broken") /\ 1 \in 0..2
      BY ONLY <1>4, <1>5 DEF Reached
    <2> QED BY ONLY <1>1, <1>5, <2>1, IsFile(f), ReadChain
  <1>7. Chain(f, w2) /\ Reached(f, w2, 2) /\ StartOf(f, w2) = StartOf(f, w)
    <2>1. (2 <= Len(w1.buffer) \/ f[w1.pos].type = "broken") /\ 2 \in 0..2
      BY ONLY <1>4, <1>6 DEF Reached
    <2> QED BY ONLY <1>1, <1>6, <2>1, IsFile(f), ReadChain
  <1>8. CASE k = 0 BY ONLY <1>3, <1>5, <1>8
  <1>9. CASE k = 1
    <2>1. Filled(f, w, k) = w1 BY ONLY <1>3, <1>9
    <2> QED BY ONLY <1>6, <1>9, <2>1
  <1>10. CASE k = 2
    <2>1. Filled(f, w, k) = w2 BY ONLY <1>3, <1>10
    <2> QED BY ONLY <1>7, <1>10, <2>1
  <1>11. CASE k = 3
    <2>1. Filled(f, w, k) = w BY ONLY <1>3, <1>11
    <2> QED BY ONLY <1>11, <2>1, Chain(f, w) DEF BufferSize
  <1> QED BY ONLY <1>2, <1>8, <1>9, <1>10, <1>11

\* The first token is consumed.
LEMMA AdvancedChain ==
    ASSUME NEW f, IsFile(f), NEW w, Chain(f, w)
    PROVE  LET v == Advanced(w)
               token == w.buffer[1]
           IN  /\ Chain(f, v)
               /\ w.buffer = <<>> => v = w
               /\ w.buffer # <<>> => StartOf(f, v) = f[PosAfter(token)].at
  <1>1. PICK p, b : w = [pos |-> p, buffer |-> b] /\ w.pos = p /\ w.buffer = b BY DEF Chain
  <1>2. PICK T : b \in Seq(T) BY <1>1 DEF Chain, IsSeq
  <1>3. PICK n \in Nat : n = Len(b) /\ DOMAIN b = 1..n BY <1>2
  <1>4. p \in DOMAIN f /\ n <= 3 BY <1>1, <1>3 DEF Chain, BufferSize
  <1>5. CASE b = <<>>
    <2>1. Advanced(w) = w BY <1>1, <1>5 DEF Advanced
    <2> QED BY <1>1, <1>5, <2>1
  <1>6. CASE b # <<>>
    <2>1. PICK c : c = Tail(b) OBVIOUS
    <2>2. PICK v : v = [pos |-> p, buffer |-> c] OBVIOUS
    <2>3. Advanced(w) = v
      <3>1. Advanced(w) = [pos |-> p, buffer |-> c] BY ONLY <1>1, <1>6, <2>1 DEF Advanced
      <3> QED BY ONLY <2>2, <3>1
    <2>4. n # 0 /\ c \in Seq(T) /\ Len(c) = n - 1 BY ONLY <1>2, <1>3, <1>6, <2>1
    <2>5. PICK m \in Nat : m = n - 1 BY ONLY <2>4, n \in Nat
    <2>6. DOMAIN c = 1..m /\ \A i \in 1..m : c[i] = b[i + 1]
      BY ONLY <1>2, <1>3, <1>6, <2>1, <2>4, <2>5
    <2>7. \A j \in 1..n : /\ Readable(f, b[j])
                          /\ j < n => f[PosAfter(b[j])] = b[j + 1]
                          /\ j = n => PosAfter(b[j]) = p
      BY <1>1, <1>3 DEF Chain
    <2>8. \A j \in 1..m : /\ Readable(f, c[j])
                          /\ j < m => f[PosAfter(c[j])] = c[j + 1]
                          /\ j = m => PosAfter(c[j]) = p
      <3>1. SUFFICES ASSUME NEW j \in 1..m
                     PROVE  /\ Readable(f, c[j])
                            /\ j < m => f[PosAfter(c[j])] = c[j + 1]
                            /\ j = m => PosAfter(c[j]) = p
        OBVIOUS
      <3>2. /\ j + 1 \in 1..n /\ (j < m => j + 1 < n /\ j + 1 \in 1..m) /\ (j = m => j + 1 = n)
        BY ONLY <2>5, <3>1, n \in Nat
      <3> QED BY ONLY <2>6, <2>7, <3>1, <3>2
    <2>9. IsSeq(c) BY ONLY <2>4, SeqIs
    <2>10. v.pos = p /\ v.buffer = c BY ONLY <2>2
    <2>11. m <= 3 /\ Len(c) = m BY ONLY <1>4, <2>4, <2>5, n \in Nat
    <2>12. Chain(f, v) BY ONLY <1>4, <2>2, <2>6, <2>8, <2>9, <2>10, <2>11 DEF Chain, BufferSize
    <2>13. StartOf(f, v) = f[PosAfter(b[1])].at
      <3>1. 1 \in 1..n BY ONLY <2>4, n \in Nat
      <3>2. CASE c = <<>>
        <4>1. 1 = n BY ONLY <2>4, <2>5, <2>6, <3>2, n \in Nat
        <4>2. PosAfter(b[1]) = p BY ONLY <2>7, <3>1, <4>1
        <4>3. StartOf(f, v) = f[p].at BY ONLY <2>10, <2>12, <3>2, IsFile(f), StartIs
        <4> QED BY ONLY <4>2, <4>3
      <3>3. CASE c # <<>>
        <4>1. StartOf(f, v) = c[1].at /\ 1 \in 1..m BY ONLY <2>6, <2>10, <2>12, <3>3, IsFile(f), StartIs
        <4>2. 1 < n BY ONLY <2>5, <4>1, n \in Nat
        <4>3. c[1] = b[1 + 1] /\ f[PosAfter(b[1])] = b[1 + 1] BY ONLY <2>6, <2>7, <3>1, <4>1, <4>2
        <4> QED BY ONLY <4>1, <4>3
      <3> QED BY ONLY <3>2, <3>3
    <2> QED BY ONLY <1>1, <1>6, <2>3, <2>12, <2>13
  <1> QED BY <1>5, <1>6

\* The window alone and the parser have the same operators on windows.
LEMMA SameWindows ==
    /\ \A w : TokenWindow!Unread(w) = Unread(w) /\ TokenWindow!Advanced(w) = Advanced(w)
    /\ \A w, k : TokenWindow!Peeked(w, k) = Peeked(w, k)
    /\ \A w, pos : TokenWindow!Moved(w, pos) = Window(pos)
    /\ \A pos : TokenWindow!Window(pos) = Window(pos)
    /\ TokenWindow!BufferSize = BufferSize
    /\ \A f, w, k : TokenWindow!Filled(f, w, k) = Filled(f, w, k)
  <1>1. \A f, w, k : TokenWindow!Read(f, w, k) = Read(f, w, k)
    BY DEF TokenWindow!Read, TokenWindow!PosAfter, Read, PosAfter
  <1>2. \A f, w, k : TokenWindow!Filled(f, w, k) = Filled(f, w, k)
    BY ONLY <1>1, Zenon DEF TokenWindow!Filled, Filled
  <1> QED
    BY <1>2 DEF TokenWindow!Unread, TokenWindow!Advanced, TokenWindow!Peeked, TokenWindow!Moved,
                TokenWindow!Window, TokenWindow!BufferSize, Unread, Advanced, Peeked, Window, BufferSize

-----------------------------------------------------------------------------
(* The steps of the cursor *)

Starts == {i \in DOMAIN windowFile : windowFile[i].at = i}

After(i) == windowFile[i + windowFile[i].len].at

WindowInv ==
    /\ windowFile \in WindowFiles /\ Chain(windowFile, tokenWindow)
    /\ seen \in {windowFile[i].type : i \in DOMAIN windowFile} \cup {"unseen", NoToken}

\* A token starts somewhere, and the next one behind it.
LEMMA StartsAre ==
    ASSUME WindowInv
    PROVE  /\ IsFile(windowFile)
           /\ \A pos \in DOMAIN windowFile : windowFile[pos].at \in Starts
           /\ \A i \in Starts : After(i) \in Starts
           /\ \A token : Readable(windowFile, token) =>
                 token.at \in Starts /\ After(token.at) = windowFile[PosAfter(token)].at
  <1>1. IsFile(windowFile) BY WindowAssumption DEF WindowInv
  <1>2. \A pos \in DOMAIN windowFile : windowFile[pos].at \in Starts
    BY ONLY <1>1, FileIs DEF Starts
  <1>3. \A i \in Starts : After(i) = windowFile[PosAfter(windowFile[i])].at
    BY DEF Starts, After, PosAfter
  <1>4. \A i \in Starts : After(i) \in Starts
    BY ONLY <1>1, <1>2, <1>3, FileIs DEF Starts
  <1>5. ASSUME NEW token, Readable(windowFile, token)
        PROVE  token.at \in Starts /\ After(token.at) = windowFile[PosAfter(token)].at
    <2>1. token.at \in DOMAIN windowFile /\ windowFile[token.at] = token BY ONLY <1>5 DEF Readable
    <2>2. token.at \in Starts BY ONLY <2>1 DEF Starts
    <2> QED BY ONLY <1>3, <2>1, <2>2
  <1> QED BY ONLY <1>1, <1>2, <1>4, <1>5

\* Where a window starts, a token does.
LEMMA StartStarts ==
    ASSUME WindowInv, NEW w, Chain(windowFile, w) PROVE StartOf(windowFile, w) \in Starts
  <1>1. CASE w.buffer = <<>>
    <2>1. StartOf(windowFile, w) = windowFile[w.pos].at BY <1>1, StartsAre, StartIs
    <2> QED BY <2>1, StartsAre DEF Chain
  <1>2. CASE w.buffer # <<>>
    <2>1. StartOf(windowFile, w) = w.buffer[1].at /\ Readable(windowFile, w.buffer[1])
      BY <1>2, StartsAre, StartIs
    <2> QED BY <2>1, StartsAre
  <1> QED BY <1>1, <1>2

\* There is a path of as many tokens as wanted, and it leads through the
\* buffer, to the place of the tokenizer.
LEMMA PathIs ==
    ASSUME WindowInv, NEW w, Chain(windowFile, w), NEW k \in 0..3
    PROVE  \E path \in [0..k -> Starts] :
              /\ path[0] = StartOf(windowFile, w)
              /\ \A i \in 1..k : path[i] = After(path[i - 1])
              /\ \A i \in 0..k : /\ i < Len(w.buffer) => path[i] = w.buffer[i + 1].at
                                 /\ i = Len(w.buffer) => path[i] = windowFile[w.pos].at
  <1>1. PICK b, n : b = w.buffer /\ n = Len(b) OBVIOUS
  <1>2. n \in Nat /\ DOMAIN b = 1..n BY <1>1, SeqIs DEF Chain
  <1>3. PICK a0, a1, a2, a3 : a0 = StartOf(windowFile, w) /\ a1 = After(a0) /\ a2 = After(a1) /\ a3 = After(a2)
    OBVIOUS
  <1>4. a0 \in Starts /\ a1 \in Starts /\ a2 \in Starts /\ a3 \in Starts
    BY <1>3, StartsAre, StartStarts
  <1>5. PICK path : path = [i \in 0..k |-> IF i = 0 THEN a0 ELSE IF i = 1 THEN a1
                                          ELSE IF i = 2 THEN a2 ELSE a3]
    OBVIOUS
  <1>6. path \in [0..k -> Starts] /\ path[0] = a0 BY ONLY <1>4, <1>5, k \in 0..3
  <1>7. ASSUME NEW i \in 1..k PROVE path[i] = After(path[i - 1])
    <2>1. i \in {1, 2, 3} /\ i \in 0..k /\ i - 1 \in 0..k BY ONLY k \in 0..3, i \in 1..k
    <2>2. CASE i = 1
      <3>1. path[i] = a1 /\ path[i - 1] = a0 BY ONLY <1>5, <2>1, <2>2
      <3> QED BY ONLY <1>3, <3>1
    <2>3. CASE i = 2
      <3>1. path[i] = a2 /\ path[i - 1] = a1 BY ONLY <1>5, <2>1, <2>3
      <3> QED BY ONLY <1>3, <3>1
    <2>4. CASE i = 3
      <3>1. path[i] = a3 /\ path[i - 1] = a2 BY ONLY <1>5, <2>1, <2>4
      <3> QED BY ONLY <1>3, <3>1
    <2> QED BY ONLY <2>1, <2>2, <2>3, <2>4
  <1> DEFINE Leads(i) == /\ i < n => path[i] = b[i + 1].at
                         /\ i = n => path[i] = windowFile[w.pos].at
  <1>8. Leads(0)
    <2>1. CASE b = <<>>
      <3>1. n = 0 BY <1>1, <2>1
      <3>2. a0 = windowFile[w.pos].at BY <1>1, <1>3, <2>1, StartsAre, StartIs
      <3> QED BY ONLY <1>6, <3>1, <3>2
    <2>2. CASE b # <<>>
      <3>1. a0 = b[1].at /\ 1 \in 1..n BY <1>1, <1>2, <1>3, <2>2, StartsAre, StartIs
      <3>2. 0 # n BY ONLY <3>1
      <3> QED BY ONLY <1>6, <3>1, <3>2
    <2> QED BY ONLY <2>1, <2>2
  <1>9. ASSUME NEW i \in 0..2, i + 1 <= k, Leads(i) PROVE Leads(i + 1)
    <2>0. i + 1 < n \/ i + 1 = n => i + 1 <= n BY ONLY <1>2, i \in 0..2
    <2>1. SUFFICES ASSUME i + 1 <= n PROVE Leads(i + 1)
      <3>1. CASE i + 1 <= n BY <3>1
      <3>2. CASE ~(i + 1 <= n)
        <4>1. ~(i + 1 < n) /\ ~(i + 1 = n) BY ONLY <2>0, <3>2
        <4> QED BY ONLY <4>1
      <3> QED BY ONLY <3>1, <3>2
    <2>2. i + 1 \in 1..n /\ i < n /\ i + 1 \in 1..k /\ (i + 1) - 1 = i
      BY ONLY <1>2, <1>9, <2>1, k \in 0..3
    <2>3. /\ Readable(windowFile, b[i + 1])
          /\ i + 1 < n => windowFile[PosAfter(b[i + 1])] = b[(i + 1) + 1]
          /\ i + 1 = n => PosAfter(b[i + 1]) = w.pos
      BY <1>1, <1>2, <2>2 DEF Chain
    <2>4. path[i] = b[i + 1].at /\ path[i + 1] = After(path[i]) BY ONLY <1>7, <1>9, <2>2
    <2>5. path[i + 1] = windowFile[PosAfter(b[i + 1])].at
      <3>1. After(b[i + 1].at) = windowFile[PosAfter(b[i + 1])].at BY ONLY <2>3, WindowInv, StartsAre
      <3> QED BY ONLY <2>4, <3>1
    <2> QED BY ONLY <2>3, <2>5
  <1>10. ASSUME NEW i \in 0..k PROVE Leads(i)
    <2>1. 1 <= k => Leads(1) BY ONLY <1>8, <1>9, 0 \in 0..2, 0 + 1 = 1
    <2>2. 2 <= k => Leads(2)
      <3>1. 2 <= k => 1 <= k BY ONLY k \in 0..3
      <3> QED BY ONLY <1>9, <2>1, <3>1, 1 \in 0..2, 1 + 1 = 2
    <2>3. 3 <= k => Leads(3)
      <3>1. 3 <= k => 2 <= k BY ONLY k \in 0..3
      <3> QED BY ONLY <1>9, <2>2, <3>1, 2 \in 0..2, 2 + 1 = 3
    <2>4. i \in {0, 1, 2, 3} /\ i <= k BY ONLY k \in 0..3, i \in 0..k
    <2> QED BY ONLY <1>8, <2>1, <2>2, <2>3, <2>4
  <1> QED BY ONLY <1>1, <1>3, <1>6, <1>7, <1>10

\* A window of which nothing was read.
LEMMA EmptyChain ==
    ASSUME NEW f, NEW pos \in DOMAIN f
    PROVE  Chain(f, Window(pos)) /\ Window(pos).buffer = <<>> /\ Window(pos).pos = pos
  <1>1. <<>> \in Seq({}) /\ Len(<<>>) = 0 /\ DOMAIN <<>> = {} OBVIOUS
  <1>2. IsSeq(<<>>) BY ONLY <1>1, SeqIs
  <1> QED BY <1>1, <1>2 DEF Window, Chain, BufferSize

\* A look finds the token as many places ahead, unless it cannot be read.
LEMMA LookIs ==
    ASSUME WindowInv, NEW k \in 0..BufferSize, TokenWindow!Peek(k)
    PROVE  WindowInv' /\ TokenWindow!Cursor!Look(k)
  <1> DEFINE f == windowFile
  <1>1. PICK v : v = Filled(f, tokenWindow, k) OBVIOUS
  <1>2. /\ tokenWindow' = v /\ windowFile' = f
        /\ seen' = IF Peeked(v, k) = NoToken \/ k >= BufferSize THEN NoToken ELSE Peeked(v, k).type
    BY <1>1, SameWindows DEF TokenWindow!Peek
  <1>3. IsFile(f) /\ Chain(f, tokenWindow) BY StartsAre DEF WindowInv
  <1>4. /\ Chain(f, v) /\ StartOf(f, v) = StartOf(f, tokenWindow)
        /\ k < BufferSize => Reached(f, v, k)
    BY ONLY <1>1, <1>3, FilledChain, k \in 0..BufferSize
  <1>5. k \in 0..3 /\ BufferSize = 3 BY DEF BufferSize
  <1>6. PICK b, n : b = v.buffer /\ n = Len(b) OBVIOUS
  <1>7. n \in Nat /\ DOMAIN b = 1..n BY <1>4, <1>6, SeqIs DEF Chain
  <1>8. PICK path \in [0..k -> Starts] :
              /\ path[0] = StartOf(f, v)
              /\ \A i \in 1..k : path[i] = After(path[i - 1])
              /\ \A i \in 0..k : /\ i < n => path[i] = b[i + 1].at
                                 /\ i = n => path[i] = f[v.pos].at
    BY ONLY <1>4, <1>5, <1>6, WindowInv, PathIs
  <1>9. seen' = IF k < BufferSize /\ \A i \in 0..k : f[path[i]].type # "broken"
                THEN f[path[k]].type ELSE NoToken
    <2>1. CASE k < BufferSize /\ k < n
      <3>1. \A i \in 0..k : i < n /\ i + 1 \in 1..n BY ONLY <1>5, <1>7, <2>1
      <3>2. \A i \in 0..k : Readable(f, b[i + 1]) BY ONLY <1>4, <1>6, <1>7, <3>1 DEF Chain
      <3>3. \A i \in 0..k : f[path[i]] = b[i + 1] /\ f[path[i]].type # "broken"
        BY ONLY <1>8, <3>1, <3>2 DEF Readable
      <3>4. k \in 0..k BY ONLY <1>5
      <3>5. Peeked(v, k) = b[k + 1] BY ONLY <1>6, <2>1 DEF Peeked
      <3>6. b[k + 1] # NoToken
        <4>1. Readable(f, b[k + 1]) BY ONLY <3>2, <3>4
        <4> QED BY ONLY <1>3, <4>1, FileIs DEF Readable
      <3> QED BY ONLY <1>2, <1>5, <2>1, <3>3, <3>4, <3>5, <3>6
    <2>2. CASE k < BufferSize /\ ~(k < n)
      <3>1. Peeked(v, k) = NoToken BY ONLY <1>6, <2>2 DEF Peeked
      <3>2. f[v.pos].type = "broken" BY ONLY <1>4, <1>6, <2>2 DEF Reached
      <3>3. n \in 0..k BY ONLY <1>5, <1>7, <2>2
      <3>4. path[n] = f[v.pos].at BY ONLY <1>8, <3>3
      <3>5. f[path[n]] = f[v.pos] BY ONLY <1>3, <1>4, <3>4, FileIs DEF Chain
      <3> QED BY ONLY <1>2, <3>1, <3>2, <3>3, <3>5
    <2>3. CASE ~(k < BufferSize)
      <3>1. k >= BufferSize BY ONLY <1>5, <2>3
      <3> QED BY ONLY <1>2, <2>3, <3>1
    <2> QED BY ONLY <2>1, <2>2, <2>3
  <1>10. WindowInv'
    <2>1. k \in 0..k BY ONLY <1>5
    <2>2. path[k] \in DOMAIN f BY ONLY <1>8, <2>1 DEF Starts
    <2>3. seen' \in {f[i].type : i \in DOMAIN f} \cup {"unseen", NoToken} BY ONLY <1>9, <2>2
    <2> QED BY <1>2, <1>4, <2>3 DEF WindowInv
  <1>11. TokenWindow!Cursor!Look(k)
    <2>1. TokenWindow!Cursor!Starts = Starts BY DEF TokenWindow!Cursor!Starts, Starts
    <2>2. \A i : TokenWindow!Cursor!After(i) = After(i) BY DEF TokenWindow!Cursor!After, After
    <2>3. f[TokenWindow!Unread(tokenWindow)].at = path[0]
      BY <1>4, <1>8, SameWindows DEF StartOf
    <2>4. f'[TokenWindow!Unread(tokenWindow)'].at = f[TokenWindow!Unread(tokenWindow)].at
      <3>1. TokenWindow!Unread(tokenWindow)' = Unread(v) BY <1>2, SameWindows
      <3> QED BY <1>2, <1>4, <3>1, SameWindows DEF StartOf
    <2>5. BufferSize = TokenWindow!BufferSize BY SameWindows
    <2> QED BY ONLY <1>2, <1>8, <1>9, <2>1, <2>2, <2>3, <2>4, <2>5 DEF TokenWindow!Cursor!Look
  <1> QED BY <1>10, <1>11

\* Consuming the first token moves the cursor to the next.
LEMMA AdvanceMoves ==
    ASSUME WindowInv, TokenWindow!Advance
    PROVE  WindowInv' /\ (TokenWindow!Cursor!MoveOn \/ UNCHANGED TokenWindow!Cursor!vars)
  <1> DEFINE f == windowFile
  <1>1. PICK v : v = Advanced(tokenWindow) OBVIOUS
  <1>2. tokenWindow' = v /\ windowFile' = f /\ seen' = seen
    BY <1>1, SameWindows DEF TokenWindow!Advance
  <1>3. IsFile(f) /\ Chain(f, tokenWindow) BY StartsAre DEF WindowInv
  <1>4. PICK token : token = tokenWindow.buffer[1] OBVIOUS
  <1>5. /\ Chain(f, v)
        /\ tokenWindow.buffer = <<>> => v = tokenWindow
        /\ tokenWindow.buffer # <<>> => StartOf(f, v) = f[PosAfter(token)].at
    BY ONLY <1>1, <1>3, <1>4, AdvancedChain
  <1>6. WindowInv' BY <1>2, <1>5 DEF WindowInv
  <1>7. PICK s, t : s = StartOf(f, tokenWindow) /\ t = StartOf(f, v) OBVIOUS
  <1>8. /\ s = f[TokenWindow!Unread(tokenWindow)].at
        /\ t = f[TokenWindow!Unread(tokenWindow)].at'
    <2>1. TokenWindow!Unread(tokenWindow)' = Unread(v) BY <1>2, SameWindows
    <2> QED BY <1>2, <1>7, <2>1, SameWindows DEF StartOf
  <1>9. CASE tokenWindow.buffer = <<>>
    <2>1. t = s BY ONLY <1>5, <1>7, <1>9
    <2> QED BY ONLY <1>2, <1>6, <1>8, <2>1 DEF TokenWindow!Cursor!vars
  <1>10. CASE tokenWindow.buffer # <<>>
    <2>1. s = token.at /\ Readable(f, token) BY ONLY <1>3, <1>4, <1>7, <1>10, StartIs
    <2>2. f[s].type # "broken" BY ONLY <2>1 DEF Readable
    <2>3. t = After(s) BY ONLY <1>5, <1>7, <1>10, <2>1, WindowInv, StartsAre
    <2>4. TokenWindow!Cursor!After(s) = After(s) BY DEF TokenWindow!Cursor!After, After
    <2> QED BY ONLY <1>2, <1>6, <1>8, <2>2, <2>3, <2>4 DEF TokenWindow!Cursor!MoveOn
  <1> QED BY <1>9, <1>10

\* The parser is put somewhere else.
LEMMA RepositionMoves ==
    ASSUME WindowInv, NEW pos \in DOMAIN windowFile, TokenWindow!Reposition(pos)
    PROVE  WindowInv' /\ TokenWindow!Cursor!Move
  <1> DEFINE f == windowFile
  <1>1. tokenWindow' = Window(pos) /\ windowFile' = f /\ seen' = "unseen"
    BY SameWindows DEF TokenWindow!Reposition
  <1>2. Chain(f, Window(pos)) /\ Window(pos).buffer = <<>> /\ Window(pos).pos = pos
    BY EmptyChain
  <1>3. WindowInv' BY <1>1, <1>2 DEF WindowInv
  <1>4. StartOf(f, Window(pos)) \in Starts BY <1>2, StartStarts
  <1>5. f[TokenWindow!Unread(tokenWindow)].at' = StartOf(f, Window(pos))
    <2>1. TokenWindow!Unread(tokenWindow)' = Unread(Window(pos)) BY <1>1, SameWindows
    <2> QED BY <1>1, <2>1 DEF StartOf
  <1>6. TokenWindow!Cursor!Starts = Starts BY DEF TokenWindow!Cursor!Starts, Starts
  <1> QED BY ONLY <1>1, <1>3, <1>4, <1>5, <1>6 DEF TokenWindow!Cursor!Move

\* The window begins as the cursor does.
LEMMA WindowBegins == TokenWindow!Init => WindowInv /\ TokenWindow!Cursor!Init
  <1>1. SUFFICES ASSUME TokenWindow!Init PROVE WindowInv /\ TokenWindow!Cursor!Init OBVIOUS
  <1>2. windowFile \in WindowFiles /\ tokenWindow = Window(1) /\ seen = "unseen"
    BY <1>1, SameWindows DEF TokenWindow!Init
  <1>3. IsFile(windowFile) /\ 1 \in DOMAIN windowFile BY <1>2, WindowAssumption, FileIs
  <1>4. /\ Chain(windowFile, Window(1)) /\ Window(1).buffer = <<>> /\ Window(1).pos = 1
    BY <1>3, EmptyChain
  <1>5. WindowInv BY <1>2, <1>4 DEF WindowInv
  <1>6. windowFile[TokenWindow!Unread(tokenWindow)].at = windowFile[1].at
    BY <1>2, <1>4, SameWindows DEF Unread
  <1> QED BY ONLY <1>2, <1>5, <1>6 DEF TokenWindow!Cursor!Init

\* Every step of the window is one of the cursor.
LEMMA WindowMoves ==
    WindowInv /\ [TokenWindow!Next]_(TokenWindow!vars)
        => WindowInv' /\ [TokenWindow!Cursor!Next]_(TokenWindow!Cursor!vars)
  <1>1. SUFFICES ASSUME WindowInv, [TokenWindow!Next]_(TokenWindow!vars)
                 PROVE  WindowInv' /\ [TokenWindow!Cursor!Next]_(TokenWindow!Cursor!vars)
    OBVIOUS
  <1>2. ASSUME NEW k \in 0..BufferSize, TokenWindow!Peek(k)
        PROVE  WindowInv' /\ [TokenWindow!Cursor!Next]_(TokenWindow!Cursor!vars)
    <2>1. WindowInv' /\ TokenWindow!Cursor!Look(k) BY ONLY <1>1, <1>2, LookIs
    <2>2. BufferSize = TokenWindow!BufferSize BY SameWindows
    <2> QED BY ONLY <2>1, <2>2, k \in 0..BufferSize DEF TokenWindow!Cursor!Next
  <1>3. CASE TokenWindow!Advance
    BY <1>1, <1>3, AdvanceMoves DEF TokenWindow!Cursor!Next
  <1>4. ASSUME NEW pos \in DOMAIN windowFile, TokenWindow!Reposition(pos)
        PROVE  WindowInv' /\ [TokenWindow!Cursor!Next]_(TokenWindow!Cursor!vars)
    <2>1. WindowInv' /\ TokenWindow!Cursor!Move BY ONLY <1>1, <1>4, RepositionMoves
    <2> QED BY ONLY <2>1 DEF TokenWindow!Cursor!Next
  <1>5. CASE UNCHANGED TokenWindow!vars
    <2>1. UNCHANGED <<windowFile, tokenWindow, seen>> BY <1>5 DEF TokenWindow!vars
    <2>2. WindowInv' BY <1>1, <2>1 DEF WindowInv
    <2>3. UNCHANGED TokenWindow!Cursor!vars
      <3>1. TokenWindow!Unread(tokenWindow)' = TokenWindow!Unread(tokenWindow) BY <2>1, SameWindows
      <3> QED BY <2>1, <3>1 DEF TokenWindow!Cursor!vars
    <2> QED BY <2>2, <2>3
  <1>6. 0 \in 0..BufferSize /\ \A k \in 1..BufferSize : k \in 0..BufferSize BY DEF BufferSize
  <1>7. BufferSize = TokenWindow!BufferSize BY SameWindows
  <1> QED
    BY <1>1, <1>2, <1>3, <1>4, <1>5, <1>6, <1>7 DEF TokenWindow!Next, TokenWindow!CurrentToken

\* What the window alone promises.
LEMMA WindowRefines == TokenWindow!Spec => WindowIsCursor /\ []WindowInv
  BY WindowBegins, WindowMoves, PTL
  DEF TokenWindow!Spec, WindowIsCursor, TokenWindow!CursorSpec, TokenWindow!Cursor!Spec

-----------------------------------------------------------------------------
(* The values of tokens *)

ValueKinds == {"String", "Data"}

TokenValues ==
    [type : {"IntegerNumber", "LongIntegerNumber", "RealNumber", "None"}, at : {Nothing}]
        \cup [type : ValueKinds, at : Memory]

Owned(m) ==
    (\E i \in DOMAIN values : values[i].at = m) \/ (\E n \in ValueNodes : nodeValue[n] = m)

TokensOwn ==
    \A i \in DOMAIN values :
        values[i].at \in Memory =>
            /\ kind[values[i].at] = values[i].type
            /\ \A j \in DOMAIN values : values[j].at = values[i].at => i = j
            /\ \A n \in ValueNodes : nodeValue[n] # values[i].at

NodesOwn ==
    \A n \in ValueNodes :
        nodeValue[n] \in Memory =>
            /\ kind[nodeValue[n]] # Nothing
            /\ \A k \in ValueNodes : nodeValue[k] = nodeValue[n] => k = n

AllOwned ==
    \A m \in Memory :
        /\ m \in lostNames => kind[m] # Nothing
        /\ m \in lostNames => ~Owned(m)
        /\ kind[m] # Nothing => m \in lostNames \/ Owned(m)

\* Tokens and nodes have places of their own, which are allocated, and as what
\* the token says; a name that was lost is allocated and has no owner.
OwnersInv ==
    /\ kind \in [Memory -> ValueKinds \cup {Nothing}]
    /\ values \in Seq(TokenValues) /\ Len(values) <= BufferSize
    /\ nodeValue \in [ValueNodes -> Memory \cup {Nothing}]
    /\ ~misuse
    /\ TokensOwn /\ NodesOwn /\ AllOwned

\* A value and the place it is in.
LEMMA TokenValueIs ==
    /\ Nothing \notin Memory /\ Nothing \notin ValueKinds
    /\ \A v \in TokenValues : /\ v.type \in ValueKinds <=> v.at \in Memory
                              /\ v.at \notin Memory => v.at = Nothing
                              /\ Value!ToFree(v) = IF v.at \in Memory THEN {v} ELSE {}
  BY ValueAssumption DEF TokenValues, ValueKinds, Value!ToFree, Value!Kinds

\* What has an owner is allocated.
LEMMA AllocatedIs == ASSUME OwnersInv, NEW m \in Memory, Owned(m) PROVE kind[m] # Nothing
  <1>1. ASSUME NEW i \in DOMAIN values, values[i].at = m PROVE kind[m] # Nothing
    <2>1. values[i] \in TokenValues BY DEF OwnersInv
    <2>2. kind[m] = values[i].type BY <1>1 DEF OwnersInv, TokensOwn
    <2> QED BY ONLY <1>1, <2>1, <2>2, m \in Memory, TokenValueIs
  <1>2. ASSUME NEW n \in ValueNodes, nodeValue[n] = m PROVE kind[m] # Nothing
    BY <1>2 DEF OwnersInv, NodesOwn
  <1> QED BY <1>1, <1>2 DEF Owned

\* The invariant says who owns what.
LEMMA OwnersInvImplies == OwnersInv => OneOwner
  <1>1. SUFFICES ASSUME OwnersInv PROVE OneOwner OBVIOUS
  <1>2. PICK n \in Nat : n = Len(values) /\ DOMAIN values = 1..n BY <1>1 DEF OwnersInv
  <1>3. \A i \in 1..n : values[i] \in TokenValues BY <1>1, <1>2 DEF OwnersInv
  <1>4. Value!TypeOK
    <2>1. ASSUME NEW v \in Value!Range(values)
          PROVE  v.at \in IF v.type \in Value!Kinds THEN Memory ELSE {Nothing}
      <3>1. PICK i \in 1..n : v = values[i] BY <1>2, <2>1 DEF Value!Range
      <3> QED BY <1>3, <3>1, TokenValueIs DEF Value!Kinds, ValueKinds
    <2> QED BY <1>1, <2>1 DEF Value!TypeOK, OwnersInv
  <1>5. ASSUME NEW m \in Memory
        PROVE  Cardinality(Value!Owners(m)) = IF kind[m] = Nothing \/ m \in lostNames THEN 0 ELSE 1
    <2>1. CASE ~Owned(m)
      <3>1. Value!Owners(m) = {} BY <2>1 DEF Value!Owners, Owned
      <3>2. kind[m] = Nothing \/ m \in lostNames BY <1>1, <2>1 DEF OwnersInv, AllOwned
      <3> QED BY <3>1, <3>2, FS_EmptySet
    <2>2. CASE Owned(m)
      <3>1. ~(kind[m] = Nothing \/ m \in lostNames)
        <4>1. kind[m] # Nothing /\ AllOwned BY <1>1, <2>2, AllocatedIs DEF OwnersInv
        <4> QED BY ONLY <2>2, <4>1 DEF AllOwned
      <3>2. \E o : Value!Owners(m) = {o}
        <4>1. ASSUME NEW i \in 1..n, values[i].at = m PROVE Value!Owners(m) = {<<"token", i>>}
          BY <1>1, <1>2, <4>1 DEF OwnersInv, TokensOwn, NodesOwn, Value!Owners
        <4>2. ASSUME NEW k \in ValueNodes, nodeValue[k] = m PROVE Value!Owners(m) = {<<"node", k>>}
          BY <1>1, <1>2, <4>2 DEF OwnersInv, TokensOwn, NodesOwn, Value!Owners
        <4> QED BY <1>2, <2>2, <4>1, <4>2 DEF Owned
      <3> QED BY <3>1, <3>2, FS_Singleton
    <2> QED BY <2>1, <2>2
  <1>6. \A i \in DOMAIN values : values[i].type \in Value!Kinds => kind[values[i].at] = values[i].type
    BY <1>1, <1>2, <1>3, TokenValueIs DEF OwnersInv, TokensOwn, Value!Kinds, ValueKinds
  <1>7. ~misuse BY <1>1 DEF OwnersInv
  <1>8. \A S : Value!Cardinality(S) = Cardinality(S) BY DEF Value!Cardinality, Cardinality
  <1>9. Value!OneOwner BY ONLY <1>5, <1>6, <1>7, <1>8 DEF Value!OneOwner
  <1> QED BY <1>4, <1>9 DEF OneOwner

\* What is unused has no owner.
LEMMA UnusedIs ==
    ASSUME OwnersInv, NEW m \in Value!Malloc
    PROVE  m \in Memory /\ kind[m] = Nothing /\ ~Owned(m) /\ m \notin lostNames
  <1>1. m \in Memory /\ kind[m] = Nothing BY DEF Value!Malloc, Value!Unused
  <1>2. ~Owned(m) BY <1>1, AllocatedIs
  <1>3. AllOwned BY DEF OwnersInv
  <1>4. m \notin lostNames BY ONLY <1>1, <1>3 DEF AllOwned
  <1> QED BY <1>1, <1>2, <1>4

\* One more token.
LEMMA AppendOwned ==
    ASSUME OwnersInv, Value!ReadNextToken
    PROVE  OwnersInv'
  <1>1. PICK n \in Nat : n = Len(values) /\ DOMAIN values = 1..n /\ n < BufferSize
    BY DEF OwnersInv, Value!ReadNextToken
  <1>2. ASSUME NEW v \in TokenValues, values' = Append(values, v)
        PROVE  /\ values' \in Seq(TokenValues) /\ Len(values') <= BufferSize
               /\ DOMAIN values' = 1..(n + 1) /\ values'[n + 1] = v
               /\ \A i \in 1..n : values'[i] = values[i]
    <2>1. values \in Seq(TokenValues) BY DEF OwnersInv
    <2>2. PICK a : a = Append(values, v) OBVIOUS
    <2>3. /\ a \in Seq(TokenValues) /\ Len(a) = n + 1 /\ DOMAIN a = 1..(n + 1) /\ a[n + 1] = v
          /\ \A i \in 1..n : a[i] = values[i]
      BY ONLY <1>1, <2>1, <2>2, v \in TokenValues
    <2>4. n + 1 <= BufferSize BY ONLY <1>1 DEF BufferSize
    <2> QED BY ONLY <1>2, <2>2, <2>3, <2>4
  <1>3. \A i \in 1..(n + 1) : i \in 1..n \/ i = n + 1 OBVIOUS
  <1>4. \A i \in 1..n : i \in 1..(n + 1) /\ i # n + 1 OBVIOUS
  <1>5. n + 1 \in 1..(n + 1) OBVIOUS
  <1>6. UNCHANGED <<nodeValue, lostNames, misuse>> BY DEF Value!ReadNextToken
  <1>7. ASSUME NEW type \in {"IntegerNumber", "LongIntegerNumber", "RealNumber", "None"},
               values' = Append(values, [type |-> type, at |-> Nothing]), kind' = kind
        PROVE  OwnersInv'
    <2>1. [type |-> type, at |-> Nothing] \in TokenValues BY DEF TokenValues
    <2>2. PICK v \in TokenValues : v.at = Nothing /\ values' = Append(values, v) BY <1>7, <2>1
    <2>3. /\ values' \in Seq(TokenValues) /\ Len(values') <= BufferSize
          /\ DOMAIN values' = 1..(n + 1) /\ values'[n + 1].at = Nothing
          /\ \A i \in 1..n : values'[i] = values[i]
      BY <1>2, <2>2
    <2>4. \A m \in Memory : Owned(m)' <=> Owned(m)
      BY <1>1, <1>3, <1>4, <1>6, <2>3, TokenValueIs DEF Owned
    <2>5. TokensOwn' BY <1>1, <1>3, <1>4, <1>6, <1>7, <2>3, TokenValueIs DEF OwnersInv, TokensOwn
    <2>6. NodesOwn' BY <1>6, <1>7 DEF OwnersInv, NodesOwn
    <2>7. AllOwned' BY <1>6, <1>7, <2>4 DEF OwnersInv, AllOwned
    <2> QED BY <1>6, <1>7, <2>3, <2>5, <2>6, <2>7 DEF OwnersInv
  <1>8. ASSUME NEW type \in ValueKinds, NEW m \in Value!Malloc,
               values' = Append(values, [type |-> type, at |-> m]), kind' = [kind EXCEPT ![m] = type]
        PROVE  OwnersInv'
    <2>1. m \in Memory /\ kind[m] = Nothing /\ ~Owned(m) /\ m \notin lostNames BY UnusedIs
    <2>2. [type |-> type, at |-> m] \in TokenValues BY <2>1 DEF TokenValues
    <2>3. PICK v \in TokenValues : v.at = m /\ v.type = type /\ values' = Append(values, v)
      BY <1>8, <2>2
    <2>4. /\ values' \in Seq(TokenValues) /\ Len(values') <= BufferSize
          /\ DOMAIN values' = 1..(n + 1) /\ values'[n + 1].at = m /\ values'[n + 1].type = type
          /\ \A i \in 1..n : values'[i] = values[i]
      BY <1>2, <2>3
    <2>5. kind' \in [Memory -> ValueKinds \cup {Nothing}] /\ kind'[m] = type
          /\ \A x \in Memory : x # m => kind'[x] = kind[x]
      BY <1>8, <2>1 DEF OwnersInv
    <2>6. \A x \in Memory : Owned(x)' <=> Owned(x) \/ x = m
      BY <1>1, <1>3, <1>4, <1>5, <1>6, <2>4 DEF Owned
    <2>7. type # Nothing BY <1>8, TokenValueIs
    <2>8. TokensOwn'
      BY <1>1, <1>3, <1>4, <1>6, <2>1, <2>4, <2>5 DEF OwnersInv, TokensOwn, Owned
    <2>9. NodesOwn' BY <1>6, <2>1, <2>5, <2>7 DEF OwnersInv, NodesOwn, Owned
    <2>10. AllOwned' BY <1>6, <2>1, <2>5, <2>6, <2>7 DEF OwnersInv, AllOwned
    <2> QED BY <1>6, <2>4, <2>5, <2>8, <2>9, <2>10 DEF OwnersInv
  <1> QED BY <1>7, <1>8
      DEF Value!ReadNextToken, Value!Set, Value!NumberTypes, Value!Kinds, ValueKinds

\* The first token of the window is gone, and its value freed or in a node.
LEMMA TailIs ==
    ASSUME OwnersInv, values # <<>>, values' = Tail(values)
    PROVE  \E n \in Nat \ {0} :
              /\ n = Len(values) /\ DOMAIN values = 1..n /\ values[1] \in TokenValues
              /\ values' \in Seq(TokenValues) /\ Len(values') <= BufferSize
              /\ DOMAIN values' = 1..(n - 1)
              /\ \A i \in 1..(n - 1) : values'[i] = values[i + 1] /\ i + 1 \in 1..n /\ i + 1 # 1
              /\ \A i \in 1..n : i = 1 \/ \E j \in 1..(n - 1) : i = j + 1
              /\ \A i, j \in 1..(n - 1) : i + 1 = j + 1 => i = j
  <1>1. values \in Seq(TokenValues) /\ Len(values) <= BufferSize BY DEF OwnersInv
  <1>2. PICK n \in Nat : n = Len(values) /\ DOMAIN values = 1..n BY <1>1
  <1>3. n # 0 /\ 1 \in 1..n BY ONLY <1>1, <1>2, values # <<>>
  <1>4. PICK t : t = Tail(values) OBVIOUS
  <1>5. t \in Seq(TokenValues) /\ Len(t) = n - 1 /\ \A i \in 1..(n - 1) : t[i] = values[i + 1]
    BY ONLY <1>1, <1>2, <1>4, values # <<>>
  <1>6. n - 1 \in Nat /\ n - 1 <= BufferSize BY ONLY <1>1, <1>2, <1>3 DEF BufferSize
  <1>7. DOMAIN t = 1..(n - 1) BY ONLY <1>5, <1>6
  <1>8. /\ \A i \in 1..(n - 1) : i + 1 \in 1..n /\ i + 1 # 1
        /\ \A i, j \in 1..(n - 1) : i + 1 = j + 1 => i = j
    BY ONLY n \in Nat
  <1>9. \A i \in 1..n : i = 1 \/ \E j \in 1..(n - 1) : i = j + 1
    <2>1. SUFFICES ASSUME NEW i \in 1..n, i # 1 PROVE \E j \in 1..(n - 1) : i = j + 1 OBVIOUS
    <2>2. i - 1 \in 1..(n - 1) /\ i = (i - 1) + 1 BY ONLY <2>1, n \in Nat
    <2> QED BY ONLY <2>2
  <1>10. values[1] \in TokenValues BY ONLY <1>1, <1>2, <1>3
  <1> QED BY ONLY <1>2, <1>3, <1>4, <1>5, <1>6, <1>7, <1>8, <1>9, <1>10, values' = Tail(values)

\* What is freed is no longer allocated, and nothing else changes.
LEMMA FreeIs ==
    ASSUME OwnersInv, NEW vs, Value!Free(vs), \A v \in vs : kind[v.at] = v.type
    PROVE  /\ kind' \in [Memory -> ValueKinds \cup {Nothing}] /\ ~misuse'
           /\ \A m \in Memory : kind'[m] = IF \E v \in vs : v.at = m THEN Nothing ELSE kind[m]
  BY DEF Value!Free, OwnersInv

\* A token that is advanced over is freed.
LEMMA AdvanceOwned == ASSUME OwnersInv, Value!Advance PROVE OwnersInv'
  <1>1. values # <<>> /\ values' = Tail(values) /\ UNCHANGED <<nodeValue, lostNames>>
    BY DEF Value!Advance
  <1>2. PICK n \in Nat \ {0} :
              /\ n = Len(values) /\ DOMAIN values = 1..n /\ values[1] \in TokenValues
              /\ values' \in Seq(TokenValues) /\ Len(values') <= BufferSize
              /\ DOMAIN values' = 1..(n - 1)
              /\ \A i \in 1..(n - 1) : values'[i] = values[i + 1] /\ i + 1 \in 1..n /\ i + 1 # 1
              /\ \A i \in 1..n : i = 1 \/ \E j \in 1..(n - 1) : i = j + 1
              /\ \A i, j \in 1..(n - 1) : i + 1 = j + 1 => i = j
    BY ONLY <1>1, OwnersInv, TailIs
  <1>3. PICK a, vs : a = values[1].at /\ vs = Value!ToFree(values[1]) OBVIOUS
  <1>4. Value!Free(vs) BY <1>3 DEF Value!Advance
  <1>5. 1 \in 1..n BY <1>2
  <1>6. vs = IF a \in Memory THEN {values[1]} ELSE {} BY ONLY <1>2, <1>3, TokenValueIs
  <1>7. \A v \in vs : kind[v.at] = v.type
    BY <1>2, <1>3, <1>5, <1>6 DEF OwnersInv, TokensOwn
  <1>8. /\ kind' \in [Memory -> ValueKinds \cup {Nothing}] /\ ~misuse'
        /\ \A m \in Memory : kind'[m] = IF m = a THEN Nothing ELSE kind[m]
    <2>1. \A m \in Memory : (\E v \in vs : v.at = m) <=> m = a BY ONLY <1>3, <1>6
    <2>2. /\ kind' \in [Memory -> ValueKinds \cup {Nothing}] /\ ~misuse'
          /\ \A m \in Memory : kind'[m] = IF \E v \in vs : v.at = m THEN Nothing ELSE kind[m]
      BY ONLY <1>4, <1>7, OwnersInv, FreeIs
    <2> QED BY ONLY <2>1, <2>2
  <1>9. \A m \in Memory : m # a => (Owned(m)' <=> Owned(m))
    <2>1. ASSUME NEW m \in Memory, m # a
          PROVE  (\E i \in 1..(n - 1) : values'[i].at = m) <=> (\E i \in 1..n : values[i].at = m)
      <3>1. ASSUME NEW i \in 1..(n - 1), values'[i].at = m PROVE \E k \in 1..n : values[k].at = m
        BY ONLY <1>2, <3>1
      <3>2. ASSUME NEW k \in 1..n, values[k].at = m PROVE \E i \in 1..(n - 1) : values'[i].at = m
        <4>1. k # 1 BY ONLY <1>3, <2>1, <3>2
        <4>2. PICK i \in 1..(n - 1) : k = i + 1 BY ONLY <1>2, <3>2, <4>1
        <4>3. values'[i] = values[k] BY ONLY <1>2, <4>2
        <4> QED BY ONLY <3>2, <4>2, <4>3
      <3> QED BY ONLY <3>1, <3>2
    <2> QED BY ONLY <1>1, <1>2, <2>1 DEF Owned
  <1>10. a \in Memory => Owned(a) /\ ~Owned(a)'
    BY <1>1, <1>2, <1>3, <1>5 DEF OwnersInv, TokensOwn, Owned
  <1>11. TokensOwn'
    <2>1. /\ nodeValue' = nodeValue /\ DOMAIN values' = 1..(n - 1)
          /\ \A i \in 1..(n - 1) : values'[i] = values[i + 1]
      BY <1>1, <1>2
    <2>2. ASSUME NEW i \in 1..(n - 1), values[i + 1].at \in Memory
          PROVE  /\ kind'[values[i + 1].at] = values[i + 1].type
                 /\ \A j \in 1..(n - 1) : values[j + 1].at = values[i + 1].at => i = j
                 /\ \A k \in ValueNodes : nodeValue[k] # values[i + 1].at
      <3>1. values[i + 1].at # a BY <1>2, <1>3, <1>5, <2>2 DEF OwnersInv, TokensOwn
      <3>2. i + 1 \in 1..n /\ \A j \in 1..(n - 1) : j + 1 \in 1..n BY ONLY <1>2, <2>2
      <3>3. /\ kind[values[i + 1].at] = values[i + 1].type
            /\ \A j \in 1..n : values[j].at = values[i + 1].at => i + 1 = j
            /\ \A k \in ValueNodes : nodeValue[k] # values[i + 1].at
        BY <1>2, <2>2, <3>2 DEF OwnersInv, TokensOwn
      <3> QED BY ONLY <1>2, <1>8, <2>2, <3>1, <3>2, <3>3
    <2>3. ASSUME NEW i \in DOMAIN values', values'[i].at \in Memory
          PROVE  /\ kind'[values'[i].at] = values'[i].type
                 /\ \A j \in DOMAIN values' : values'[j].at = values'[i].at => i = j
                 /\ \A k \in ValueNodes : nodeValue'[k] # values'[i].at
      <3>1. i \in 1..(n - 1) /\ values'[i] = values[i + 1] BY ONLY <2>3, <2>1
      <3>2. values[i + 1].at \in Memory BY ONLY <2>3, <3>1
      <3>3. \A j \in DOMAIN values' : j \in 1..(n - 1) /\ values'[j] = values[j + 1] BY ONLY <2>1
      <3>4. /\ kind'[values[i + 1].at] = values[i + 1].type
            /\ \A j \in 1..(n - 1) : values[j + 1].at = values[i + 1].at => i = j
            /\ \A k \in ValueNodes : nodeValue[k] # values[i + 1].at
        BY ONLY <2>2, <3>1, <3>2
      <3> QED BY ONLY <2>1, <3>1, <3>3, <3>4
    <2> QED BY ONLY <2>3 DEF TokensOwn
  <1>12. NodesOwn'
    <2>1. \A k \in ValueNodes : nodeValue[k] \in Memory => nodeValue[k] # a
      BY <1>2, <1>3, <1>5 DEF OwnersInv, TokensOwn
    <2> QED BY <1>1, <1>8, <2>1 DEF OwnersInv, NodesOwn
  <1>13. AllOwned' BY <1>1, <1>8, <1>9, <1>10 DEF OwnersInv, AllOwned
  <1> QED BY <1>1, <1>2, <1>8, <1>11, <1>12, <1>13 DEF OwnersInv

\* All tokens of the window are freed.
LEMMA FlushOwned == ASSUME OwnersInv, Value!FlushTokens \/ Value!DestroyParser PROVE OwnersInv'
  <1>1. values' = <<>> /\ UNCHANGED <<nodeValue, lostNames>>
    BY DEF Value!FlushTokens, Value!DestroyParser
  <1>2. PICK vs : vs = Value!ToFreeAll(Value!Range(values)) OBVIOUS
  <1>3. Value!Free(vs) BY <1>2 DEF Value!FlushTokens, Value!DestroyParser
  <1>4. \A i \in DOMAIN values : values[i] \in TokenValues BY DEF OwnersInv
  <1>5. vs = {v \in Value!Range(values) : v.at \in Memory}
    <2>1. \A v \in Value!Range(values) : v \in TokenValues BY <1>4 DEF Value!Range
    <2>2. \A v \in Value!Range(values) : Value!ToFree(v) = IF v.at \in Memory THEN {v} ELSE {}
      BY ONLY <2>1, TokenValueIs
    <2> QED BY ONLY <1>2, <2>2 DEF Value!ToFreeAll
  <1>6. \A v \in vs : kind[v.at] = v.type BY <1>5 DEF OwnersInv, TokensOwn, Value!Range
  <1>7. /\ kind' \in [Memory -> ValueKinds \cup {Nothing}] /\ ~misuse'
        /\ \A m \in Memory : kind'[m] = IF \E v \in vs : v.at = m THEN Nothing ELSE kind[m]
    BY ONLY <1>3, <1>6, OwnersInv, FreeIs
  <1>8. \A m \in Memory : (\E v \in vs : v.at = m) <=> \E i \in DOMAIN values : values[i].at = m
    BY <1>5 DEF Value!Range
  <1>9. DOMAIN values' = {} /\ values' \in Seq(TokenValues) /\ Len(values') <= BufferSize
    BY <1>1 DEF BufferSize
  <1>10. \A m : Owned(m)' <=> \E n \in ValueNodes : nodeValue[n] = m BY ONLY <1>1, <1>9 DEF Owned
  <1>11. \A n \in ValueNodes : nodeValue[n] \in Memory => kind'[nodeValue[n]] = kind[nodeValue[n]]
    BY <1>7, <1>8 DEF OwnersInv, TokensOwn
  <1>12. TokensOwn' BY ONLY <1>9 DEF TokensOwn
  <1>13. NodesOwn' BY <1>1, <1>11 DEF OwnersInv, NodesOwn
  <1>14. AllOwned'
    <2>1. SUFFICES ASSUME NEW m \in Memory
                   PROVE  /\ m \in lostNames => kind'[m] # Nothing
                          /\ m \in lostNames => ~Owned(m)'
                          /\ kind'[m] # Nothing => m \in lostNames \/ Owned(m)'
      BY <1>1 DEF AllOwned
    <2>2. ASSUME m \in lostNames PROVE kind'[m] # Nothing /\ ~Owned(m)'
      <3>1. kind[m] # Nothing /\ ~Owned(m) BY <2>2 DEF OwnersInv, AllOwned
      <3> QED BY ONLY <1>7, <1>8, <1>10, <2>1, <3>1 DEF Owned
    <2>3. ASSUME kind'[m] # Nothing, m \notin lostNames PROVE Owned(m)'
      <3>1. kind[m] # Nothing /\ ~\E i \in DOMAIN values : values[i].at = m
        BY ONLY <1>7, <1>8, <2>1, <2>3
      <3>2. Owned(m) BY <2>3, <3>1 DEF OwnersInv, AllOwned
      <3> QED BY ONLY <1>10, <3>1, <3>2 DEF Owned
    <2> QED BY <2>2, <2>3
  <1> QED BY <1>1, <1>7, <1>9, <1>12, <1>13, <1>14 DEF OwnersInv

\* A name is moved from its token to a node, or lost.
LEMMA ParseNameOwned == ASSUME OwnersInv, Value!ParseName PROVE OwnersInv'
  <1>1. values # <<>> /\ values' = Tail(values) BY DEF Value!ParseName
  <1>2. PICK n \in Nat \ {0} :
              /\ n = Len(values) /\ DOMAIN values = 1..n /\ values[1] \in TokenValues
              /\ values' \in Seq(TokenValues) /\ Len(values') <= BufferSize
              /\ DOMAIN values' = 1..(n - 1)
              /\ \A i \in 1..(n - 1) : values'[i] = values[i + 1] /\ i + 1 \in 1..n /\ i + 1 # 1
              /\ \A i \in 1..n : i = 1 \/ \E j \in 1..(n - 1) : i = j + 1
              /\ \A i, j \in 1..(n - 1) : i + 1 = j + 1 => i = j
    BY ONLY <1>1, OwnersInv, TailIs
  <1>3. PICK v : v = values[1] OBVIOUS
  <1>4. v.type = "String" /\ Value!Get(v, "String") = v.at /\ Value!Taken(v, "String") = Value!None
    BY <1>3 DEF Value!ParseName, Value!Get, Value!Taken
  <1>5. v.at \in Memory BY ONLY <1>2, <1>3, <1>4, TokenValueIs DEF ValueKinds
  <1>6. kind' = kind /\ ~misuse'
    <2>1. Value!ToFree(Value!None) = {} BY DEF Value!ToFree, Value!None, Value!Kinds
    <2>2. Value!Free({}) BY <1>3, <1>4, <2>1 DEF Value!ParseName
    <2>3. kind \in [Memory -> ValueKinds \cup {Nothing}] BY DEF OwnersInv
    <2>4. /\ kind' \in [Memory -> ValueKinds \cup {Nothing}] /\ ~misuse'
          /\ \A m \in Memory : kind'[m] = kind[m]
      BY <2>2, FreeIs
    <2> QED BY ONLY <2>3, <2>4
  <1>7. /\ kind[v.at] # Nothing /\ v.at \notin lostNames /\ 1 \in 1..n
        /\ \A k \in ValueNodes : nodeValue[k] # v.at
    <2>1. 1 \in 1..n BY ONLY <1>2
    <2>2. kind[v.at] = v.type /\ \A k \in ValueNodes : nodeValue[k] # v.at
      BY <1>2, <1>3, <1>5, <2>1 DEF OwnersInv, TokensOwn
    <2>3. Owned(v.at) BY <1>2, <1>3, <2>1 DEF Owned
    <2>4. v.at \notin lostNames BY <1>5, <2>3 DEF OwnersInv, AllOwned
    <2> QED BY ONLY <1>4, <2>1, <2>2, <2>4, TokenValueIs DEF ValueKinds
  <1>8. \A i \in 1..(n - 1) :
          values[i + 1].at \in Memory =>
              /\ kind[values[i + 1].at] = values[i + 1].type
              /\ \A j \in 1..(n - 1) : values[j + 1].at = values[i + 1].at => i = j
              /\ \A k \in ValueNodes : nodeValue[k] # values[i + 1].at
              /\ values[i + 1].at # v.at
    <2>1. SUFFICES ASSUME NEW i \in 1..(n - 1), values[i + 1].at \in Memory
                   PROVE  /\ kind[values[i + 1].at] = values[i + 1].type
                          /\ \A j \in 1..(n - 1) : values[j + 1].at = values[i + 1].at => i = j
                          /\ \A k \in ValueNodes : nodeValue[k] # values[i + 1].at
                          /\ values[i + 1].at # v.at
      OBVIOUS
    <2>2. i + 1 \in 1..n /\ i + 1 # 1 /\ \A j \in 1..(n - 1) : j + 1 \in 1..n
      BY ONLY <1>2, <2>1
    <2>3. /\ kind[values[i + 1].at] = values[i + 1].type
          /\ \A j \in 1..n : values[j].at = values[i + 1].at => i + 1 = j
          /\ \A k \in ValueNodes : nodeValue[k] # values[i + 1].at
      BY <1>2, <2>1, <2>2 DEF OwnersInv, TokensOwn
    <2>4. 1 \in 1..n BY ONLY <1>2
    <2> QED BY ONLY <1>2, <1>3, <2>1, <2>2, <2>3, <2>4
  <1>9. \A m : (\E i \in 1..n : values[i].at = m)
                 <=> (m = v.at \/ \E i \in 1..(n - 1) : values'[i].at = m)
    <2>1. SUFFICES ASSUME NEW m PROVE (\E i \in 1..n : values[i].at = m)
                 <=> (m = v.at \/ \E i \in 1..(n - 1) : values'[i].at = m)
      OBVIOUS
    <2>2. ASSUME NEW i \in 1..n, values[i].at = m
          PROVE  m = v.at \/ \E k \in 1..(n - 1) : values'[k].at = m
      <3>1. CASE i = 1 BY <1>3, <2>2, <3>1
      <3>2. CASE i # 1
        <4>1. PICK k \in 1..(n - 1) : i = k + 1 BY ONLY <1>2, <3>2, i \in 1..n
        <4>2. values'[k] = values[i] BY ONLY <1>2, <4>1
        <4> QED BY ONLY <2>2, <4>1, <4>2
      <3> QED BY ONLY <3>1, <3>2
    <2>3. ASSUME NEW i \in 1..(n - 1), values'[i].at = m PROVE \E k \in 1..n : values[k].at = m
      BY ONLY <1>2, <2>3
    <2> QED BY ONLY <1>3, <1>7, <2>2, <2>3
  <1>10. CASE \E k \in ValueNodes : /\ nodeValue[k] = Nothing /\ lostNames' = lostNames
                                    /\ nodeValue' = [nodeValue EXCEPT ![k] = v.at]
    <2>1. PICK k \in ValueNodes : /\ nodeValue[k] = Nothing /\ lostNames' = lostNames
                                  /\ nodeValue' = [nodeValue EXCEPT ![k] = v.at]
      BY <1>10
    <2>2. /\ nodeValue' \in [ValueNodes -> Memory \cup {Nothing}]
          /\ \A j \in ValueNodes : nodeValue'[j] = IF j = k THEN v.at ELSE nodeValue[j]
      BY <1>5, <2>1 DEF OwnersInv
    <2>3. TokensOwn' BY ONLY <1>2, <1>6, <1>8, <2>2 DEF TokensOwn
    <2>4. NodesOwn' BY <1>6, <1>7, <2>2 DEF OwnersInv, NodesOwn
    <2>5. \A m \in Memory : Owned(m)' <=> Owned(m)
      <3>1. \A m \in Memory : (\E j \in ValueNodes : nodeValue'[j] = m)
                                <=> (m = v.at \/ \E j \in ValueNodes : nodeValue[j] = m)
        BY ONLY <1>7, <2>1, <2>2, TokenValueIs
      <3> QED BY ONLY <1>2, <1>9, <3>1 DEF Owned
    <2>6. AllOwned' BY <1>6, <2>1, <2>5 DEF OwnersInv, AllOwned
    <2> QED BY <1>2, <1>6, <2>2, <2>3, <2>4, <2>6 DEF OwnersInv
  <1>11. CASE lostNames' = lostNames \cup {v.at} /\ nodeValue' = nodeValue
    <2>1. TokensOwn'
      <3>1. DOMAIN values' = 1..(n - 1) /\ \A i \in 1..(n - 1) : values'[i] = values[i + 1]
        BY ONLY <1>2
      <3> QED BY ONLY <1>6, <1>8, <1>11, <3>1 DEF TokensOwn
    <2>2. NodesOwn' BY <1>6, <1>11 DEF OwnersInv, NodesOwn
    <2>3. \A m \in Memory : Owned(m)' <=> Owned(m) /\ m # v.at
      <3>1. ~\E i \in 1..(n - 1) : values'[i].at = v.at BY ONLY <1>2, <1>5, <1>8
      <3> QED BY ONLY <1>2, <1>7, <1>9, <1>11, <3>1 DEF Owned
    <2>4. AllOwned' BY <1>6, <1>7, <1>11, <2>3 DEF OwnersInv, AllOwned
    <2> QED BY <1>2, <1>6, <1>11, <2>1, <2>2, <2>4 DEF OwnersInv
  <1> QED BY <1>3, <1>4, <1>10, <1>11 DEF Value!ParseName

\* A node that is freed, gets another value, or is made.
LEMMA NodeOwned ==
    ASSUME OwnersInv, NEW n \in ValueNodes,
           Value!FreeNode(n) \/ Value!SetValue(n) \/ Value!NewNode(n)
    PROVE  OwnersInv'
  <1>1. UNCHANGED <<values, lostNames>> BY DEF Value!FreeNode, Value!SetValue, Value!NewNode
  <1>2. PICK a : a = nodeValue[n] OBVIOUS
  <1>3. a \in Memory \cup {Nothing} BY <1>2 DEF OwnersInv
  <1>4. a \in Memory =>
          /\ kind[a] \in ValueKinds /\ a \notin lostNames
          /\ \A i \in DOMAIN values : values[i].at # a
          /\ \A k \in ValueNodes : nodeValue[k] = a => k = n
    <2>1. SUFFICES ASSUME a \in Memory
                   PROVE  /\ kind[a] \in ValueKinds /\ a \notin lostNames
                          /\ \A i \in DOMAIN values : values[i].at # a
                          /\ \A k \in ValueNodes : nodeValue[k] = a => k = n
      OBVIOUS
    <2>2. Owned(a) BY <1>2 DEF Owned
    <2>3. kind[a] # Nothing /\ kind[a] \in ValueKinds \cup {Nothing}
      BY <2>1, <2>2, AllocatedIs DEF OwnersInv
    <2>4. a \notin lostNames BY <2>1, <2>2 DEF OwnersInv, AllOwned
    <2>5. \A i \in DOMAIN values : values[i].at # a BY <1>2, <2>1 DEF OwnersInv, TokensOwn
    <2>6. \A k \in ValueNodes : nodeValue[k] = a => k = n BY <1>2, <2>1 DEF OwnersInv, NodesOwn
    <2> QED BY ONLY <2>3, <2>4, <2>5, <2>6
  \* The place b is given to the node n, and its former place becomes unused.
  <1>5. ASSUME NEW b \in Memory \cup {Nothing}, NEW type \in ValueKinds,
               b \in Memory => b \in Value!Malloc,
               kind' \in [Memory -> ValueKinds \cup {Nothing}], ~misuse',
               \A m \in Memory : kind'[m] = IF m = b THEN type ELSE IF m = a THEN Nothing ELSE kind[m],
               nodeValue' = [nodeValue EXCEPT ![n] = b]
        PROVE  OwnersInv'
    <2>1. b \in Memory => kind[b] = Nothing /\ ~Owned(b) /\ b \notin lostNames BY <1>5, UnusedIs
    <2>2. /\ nodeValue' \in [ValueNodes -> Memory \cup {Nothing}]
          /\ \A k \in ValueNodes : nodeValue'[k] = IF k = n THEN b ELSE nodeValue[k]
      BY <1>5 DEF OwnersInv
    <2>3. type # Nothing BY <1>5, TokenValueIs
    <2>4. TokensOwn'
      <3>1. SUFFICES ASSUME NEW i \in DOMAIN values, values[i].at \in Memory
                     PROVE  /\ kind'[values[i].at] = values[i].type
                            /\ \A j \in DOMAIN values : values[j].at = values[i].at => i = j
                            /\ \A k \in ValueNodes : nodeValue'[k] # values[i].at
        BY <1>1 DEF TokensOwn
      <3>2. /\ kind[values[i].at] = values[i].type
            /\ \A j \in DOMAIN values : values[j].at = values[i].at => i = j
            /\ \A k \in ValueNodes : nodeValue[k] # values[i].at
        BY <3>1 DEF OwnersInv, TokensOwn
      <3>3. values[i].at # b BY <2>1, <3>1 DEF Owned
      <3>4. values[i].at # a BY ONLY <1>4, <3>1
      <3> QED BY ONLY <1>5, <2>2, <3>1, <3>2, <3>3, <3>4
    <2>5. NodesOwn'
      <3>1. SUFFICES ASSUME NEW k \in ValueNodes, nodeValue'[k] \in Memory
                     PROVE  /\ kind'[nodeValue'[k]] # Nothing
                            /\ \A j \in ValueNodes : nodeValue'[j] = nodeValue'[k] => j = k
        BY DEF NodesOwn
      <3>2. CASE k = n
        <4>1. b \in Memory /\ nodeValue'[k] = b BY ONLY <2>2, <3>1, <3>2
        <4>2. kind'[b] = type BY ONLY <1>5, <4>1
        <4>3. \A j \in ValueNodes : nodeValue[j] # b BY ONLY <2>1, <4>1 DEF Owned
        <4> QED BY ONLY <2>2, <2>3, <3>2, <4>1, <4>2, <4>3
      <3>3. CASE k # n
        <4>1. nodeValue'[k] = nodeValue[k] /\ nodeValue[k] \in Memory BY ONLY <2>2, <3>1, <3>3
        <4>2. /\ kind[nodeValue[k]] # Nothing
              /\ \A j \in ValueNodes : nodeValue[j] = nodeValue[k] => j = k
          BY <4>1 DEF OwnersInv, NodesOwn
        <4>3. nodeValue[k] # a BY ONLY <1>4, <3>3, <4>1
        <4>4. nodeValue[k] # b BY <2>1, <4>1 DEF Owned
        <4>5. kind'[nodeValue[k]] = kind[nodeValue[k]] BY ONLY <1>5, <4>1, <4>3, <4>4
        <4> QED BY ONLY <2>2, <4>1, <4>2, <4>4, <4>5
      <3> QED BY ONLY <3>2, <3>3
    <2>6. \A m \in Memory : Owned(m)' <=> (m = b \/ (Owned(m) /\ m # a))
      <3>1. \A m \in Memory : (\E k \in ValueNodes : nodeValue'[k] = m)
                             <=> (m = b \/ (m # a /\ \E k \in ValueNodes : nodeValue[k] = m))
        BY ONLY <1>2, <1>4, <2>2
      <3> QED BY ONLY <1>1, <1>4, <3>1 DEF Owned
    <2>7. AllOwned'
      <3>1. SUFFICES ASSUME NEW m \in Memory
                     PROVE  /\ m \in lostNames => kind'[m] # Nothing
                            /\ m \in lostNames => ~Owned(m)'
                            /\ kind'[m] # Nothing => m \in lostNames \/ Owned(m)'
        BY <1>1 DEF AllOwned
      <3>2. /\ m \in lostNames => kind[m] # Nothing
            /\ m \in lostNames => ~Owned(m)
            /\ kind[m] # Nothing => m \in lostNames \/ Owned(m)
        BY DEF OwnersInv, AllOwned
      <3> QED BY ONLY <1>4, <1>5, <2>1, <2>3, <2>6, <3>1, <3>2
    <2> QED BY <1>1, <1>5, <2>2, <2>4, <2>5, <2>7 DEF OwnersInv
  <1>6. CASE Value!FreeNode(n)
    <2>1. a \in Memory BY <1>2, <1>3, <1>6 DEF Value!FreeNode
    <2>2. PICK v : v = Value!Valued(n) OBVIOUS
    <2>3. v.at = a /\ v.type = kind[a] BY <1>2, <2>2 DEF Value!Valued, Value!Set
    <2>4. Value!Free({v}) /\ nodeValue' = [nodeValue EXCEPT ![n] = Nothing]
      BY <1>6, <2>2 DEF Value!FreeNode
    <2>5. /\ kind' \in [Memory -> ValueKinds \cup {Nothing}] /\ ~misuse'
          /\ \A m \in Memory : kind'[m] = IF m = a THEN Nothing ELSE kind[m]
      BY <2>3, <2>4, FreeIs
    <2>6. Nothing \notin Memory BY TokenValueIs
    <2> QED BY <1>5, <2>4, <2>5, <2>6 DEF ValueKinds
  <1>7. CASE Value!SetValue(n)
    <2>1. a \in Memory BY <1>2, <1>3, <1>7 DEF Value!SetValue
    <2>2. CASE UNCHANGED <<kind, misuse, nodeValue>>
      BY <1>1, <2>2 DEF OwnersInv, TokensOwn, NodesOwn, AllOwned, Owned
    <2>3. CASE ~UNCHANGED <<kind, misuse, nodeValue>>
      <3>1. PICK m \in Value!Malloc :
               /\ kind' = [kind EXCEPT ![a] = Nothing, ![m] = kind[a]] /\ misuse' = misuse
               /\ nodeValue' = [nodeValue EXCEPT ![n] = m]
        BY <1>2, <1>7, <2>3 DEF Value!SetValue
      <3>2. m \in Memory BY UnusedIs
      <3>3. PICK t \in ValueKinds : t = kind[a] BY <1>4, <2>1
      <3>4. /\ kind' \in [Memory -> ValueKinds \cup {Nothing}] /\ ~misuse'
            /\ \A x \in Memory : kind'[x] = IF x = m THEN t ELSE IF x = a THEN Nothing ELSE kind[x]
        BY <3>1, <3>2, <3>3 DEF OwnersInv
      <3> QED BY <1>5, <3>1, <3>2, <3>3, <3>4
    <2> QED BY <2>2, <2>3
  <1>8. CASE Value!NewNode(n)
    <2>1. PICK type \in ValueKinds, m \in Value!Malloc :
             /\ kind' = [kind EXCEPT ![m] = type] /\ nodeValue' = [nodeValue EXCEPT ![n] = m]
      BY <1>8 DEF Value!NewNode, Value!Kinds, ValueKinds
    <2>2. a \notin Memory /\ misuse' = misuse BY <1>2, <1>8, TokenValueIs DEF Value!NewNode
    <2>3. m \in Memory BY UnusedIs
    <2>4. /\ kind' \in [Memory -> ValueKinds \cup {Nothing}] /\ ~misuse'
          /\ \A x \in Memory : kind'[x] = IF x = m THEN type ELSE IF x = a THEN Nothing ELSE kind[x]
      BY <2>1, <2>2, <2>3 DEF OwnersInv
    <2> QED BY <1>5, <2>1, <2>3, <2>4
  <1> QED BY <1>6, <1>7, <1>8

\* Nothing is allocated at first.
LEMMA InitOwned == Value!Init => OwnersInv
  <1>1. SUFFICES ASSUME Value!Init PROVE OwnersInv OBVIOUS
  <1>2. /\ kind = [m \in Memory |-> Nothing] /\ values = <<>> /\ misuse = FALSE /\ lostNames = {}
        /\ nodeValue = [n \in ValueNodes |-> Nothing]
    BY <1>1 DEF Value!Init
  <1>3. values \in Seq(TokenValues) /\ Len(values) <= BufferSize /\ DOMAIN values = {}
    BY <1>2 DEF BufferSize
  <1>4. TokensOwn BY ONLY <1>3 DEF TokensOwn
  <1>5. NodesOwn BY ONLY <1>2, TokenValueIs DEF NodesOwn
  <1>6. AllOwned BY ONLY <1>2 DEF AllOwned
  <1> QED BY <1>2, <1>3, <1>4, <1>5, <1>6 DEF OwnersInv

\* Every step keeps the owners apart.
LEMMA NextOwned == OwnersInv /\ [Value!Next]_(Value!vars) => OwnersInv'
  <1>1. SUFFICES ASSUME OwnersInv, [Value!Next]_(Value!vars) PROVE OwnersInv' OBVIOUS
  <1>2. CASE UNCHANGED Value!vars
    <2>1. UNCHANGED <<kind, values, nodeValue, lostNames, misuse>> BY <1>2 DEF Value!vars
    <2> QED BY <1>1, <2>1 DEF OwnersInv, TokensOwn, NodesOwn, AllOwned, Owned
  <1>3. CASE Value!ReadNextToken BY <1>1, <1>3, AppendOwned
  <1>4. CASE Value!ReadFails BY <1>2, <1>4 DEF Value!ReadFails
  <1>5. CASE Value!Advance BY <1>1, <1>5, AdvanceOwned
  <1>6. CASE Value!FlushTokens \/ Value!DestroyParser BY <1>1, <1>6, FlushOwned
  <1>7. CASE Value!ParseName BY <1>1, <1>7, ParseNameOwned
  <1>8. ASSUME NEW n \in ValueNodes, Value!FreeNode(n) \/ Value!SetValue(n) \/ Value!NewNode(n)
        PROVE  OwnersInv'
    BY ONLY <1>1, <1>8, NodeOwned
  <1> QED BY <1>1, <1>2, <1>3, <1>4, <1>5, <1>6, <1>7, <1>8 DEF Value!Next

\* Values
LEMMA OneOwnerOfValues == Value!Spec => []OneOwner
  BY InitOwned, NextOwned, OwnersInvImplies, PTL DEF Value!Spec

-----------------------------------------------------------------------------
(* All three *)

\* The window alone has its types.
LEMMA WindowTyped == WindowInv => TokenWindow!TypeOK
  <1>1. SUFFICES ASSUME WindowInv PROVE TokenWindow!TypeOK OBVIOUS
  <1>2. tokenWindow.pos \in DOMAIN windowFile /\ Len(tokenWindow.buffer) <= BufferSize
    BY <1>1 DEF WindowInv, Chain
  <1>3. TokenWindow!BufferSize = BufferSize BY SameWindows
  <1> QED BY <1>1, <1>2, <1>3 DEF WindowInv, TokenWindow!TypeOK

\* The parser of objects has its types.
LEMMA ParserTyped == IInv /\ LookInv /\ TypeInv => TypeOK
  <1>1. SUFFICES ASSUME IInv, LookInv, TypeInv PROVE TypeOK OBVIOUS
  <1>2. Len(window.buffer) <= BufferSize BY <1>1 DEF LookInv, Ready
  <1>3. CASE ctl = "undefined" BY <1>1, <1>2, <1>3 DEF TypeInv, StoppedInv, TypeOK
  <1>4. CASE ctl # "undefined"
    <2>1. Sound /\ PlaceInv BY <1>1, <1>4 DEF IInv, TypeInv
    <2> QED BY <1>2, <1>4, <2>1, TypedIs DEF TypeOK, Controls
  <1> QED BY <1>3, <1>4

\* What holds of the parser of objects without fairness.
LEMMA ParserSafe ==
    Init /\ [][Next]_vars => [](TypeOK /\ AheadOfIntegers /\ NoTokenFromBeforeTheData)
  BY InitInv, InvImplies, NextInv, NextLookInv, NextType, ParserTyped, InitType, PTL

\* Each part of a behaviour is a behaviour of its part.
LEMMA Parts ==
    ParsersSpec => Init /\ [][Next]_vars /\ TokenWindow!Spec /\ Value!Spec
  <1>1. ParsersInit => Init /\ TokenWindow!Init /\ Value!Init BY DEF ParsersInit
  <1>2. [ParsersNext]_<<used, vars, windowVars, valueVars>>
          => [Next]_vars /\ [TokenWindow!Next]_(TokenWindow!vars) /\ [Value!Next]_(Value!vars)
    BY DEF ParsersNext, UseParser, UseWindow, UseValues, windowVars, valueVars,
           TokenWindow!vars, Value!vars
  <1> QED BY <1>1, <1>2, PTL DEF ParsersSpec, TokenWindow!Spec, Value!Spec

\* The window is a cursor, whatever looks, failing reads and moves are made
\* of it (CosBaseParser.c): no token is skipped and none is seen twice.
THEOREM WindowAlwaysCursor == ParsersSpec => WindowIsCursor
  BY Parts, WindowRefines

\* The value of a token is freed once, by its token or by the node it went
\* to, except a name that is set over another (CosToken.c, CosObjParser.c).
THEOREM OneOwnerAlways == ParsersSpec => []OneOwner
  BY Parts, OneOwnerOfValues

\* No token is used that is stale, and every variable has its type: the
\* tokenizer stays in the file through every seek, and what Length says is
\* a number (CosObjParser.c:776-860).
THEOREM NoTokenIsStaleAlways == ParsersSpec => []NoTokenIsStale
  BY Parts, ParserSafe, WindowRefines, WindowTyped, PTL DEF NoTokenIsStale
=============================================================================
