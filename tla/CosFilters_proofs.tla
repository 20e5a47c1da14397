-------------------------- MODULE CosFilters_proofs --------------------------
(***************************************************************************)
(* Proofs about CosFilters, for every text, buffer and call.  The contents *)
(* of a text are those of what was delivered, what is in the buffer and    *)
(* what the rest of the text encodes, behind the block or the run that the *)
(* decoder has begun.                                                      *)
(***************************************************************************)
EXTENDS CosFilters, CosCounting

\* What is delivered: bytes.
Symbols == Int \cup UNION {Range(ASCII85!Bytes(c)) : c \in Seq(Int)}

Bytes == Seq(Symbols)

-----------------------------------------------------------------------------
(* Recursive definitions over the characters that are left of a text       *)

\* What obeys a recursion up to a bound.
ObeysTo(f, L, v0, h, step) ==
    f[0] = v0 /\ \A n \in 1 .. L : f[n] = step[<<n, f[h[n]]>>]

\* There is a function that does.
LEMMA BoundedRecursion ==
    ASSUME NEW L \in Nat, NEW V, NEW v0 \in V, NEW h, \A n \in 1 .. L : h[n] \in 0 .. n - 1,
           NEW step, step \in [(1 .. L) \X V -> V]
    PROVE  \E f \in [0 .. L -> V] : ObeysTo(f, L, v0, h, step)
  <1> DEFINE H == [n \in Nat |-> IF n \in 1 .. L THEN h[n] ELSE 0]
             T == [p \in Nat \X V |-> IF p[1] \in 1 .. L THEN step[p] ELSE v0]
  <1>1. H \in [Nat -> Nat] /\ \A n \in Nat \ {0} : H[n] < n OBVIOUS
  <1>2. T \in [Nat \X V -> V]
    <2>1. ASSUME NEW p \in Nat \X V PROVE (IF p[1] \in 1 .. L THEN step[p] ELSE v0) \in V
      <3>1. p = <<p[1], p[2]>> /\ p[2] \in V OBVIOUS
      <3>2. CASE p[1] \in 1 .. L
        <4>1. p \in (1 .. L) \X V BY <3>1, <3>2
        <4> QED BY <3>2, <4>1
      <3> QED BY <3>2
    <2> QED BY <2>1
  <1>3. \A n \in 1 .. L : H[n] = h[n] /\ n \in Nat /\ n # 0 OBVIOUS
  <1>4. ASSUME NEW n \in 1 .. L, NEW v \in V PROVE T[<<n, v>>] = step[<<n, v>>]
    <2>1. <<n, v>> \in Nat \X V OBVIOUS
    <2> QED BY <2>1
  <1> HIDE DEF H, T
  <1>5. IsRecursion(V, v0, H, T) BY <1>1, <1>2 DEF IsRecursion
  <1>6. PICK g \in [Nat -> V] : Recurs(g, v0, H, T) BY ONLY <1>5, RecursionIs
  <1>7. \A n \in Nat : g[n] = IF n = 0 THEN v0 ELSE T[<<n, g[H[n]]>>]
    BY ONLY <1>6 DEF Recurs
  <1> DEFINE f == [n \in 0 .. L |-> g[n]]
  <1>8. f \in [0 .. L -> V] /\ f[0] = v0
    <2>1. g[0] = v0 BY <1>7
    <2> QED BY <2>1
  <1>9. ASSUME NEW n \in 1 .. L PROVE f[n] = step[<<n, f[h[n]]>>]
    <2>1. g[n] = T[<<n, g[h[n]]>>] BY <1>3, <1>7
    <2>2. h[n] \in 0 .. L /\ n \in 0 .. L /\ h[n] \in Nat
      <3>1. h[n] \in 0 .. n - 1 OBVIOUS
      <3> QED BY ONLY <3>1, L \in Nat
    <2>3. f[n] = g[n] /\ f[h[n]] = g[h[n]] BY <2>2
    <2>4. g[h[n]] \in V BY <2>2
    <2> QED BY ONLY <1>4, <2>1, <2>3, <2>4, n \in 1 .. L
  <1> QED BY <1>8, <1>9 DEF ObeysTo

\* Each byte that is decoded is one.
LEMMA BytesAre ==
    ASSUME NEW chars \in Seq(Int)
    PROVE  /\ HexBytes(chars) \in Bytes /\ Len(HexBytes(chars)) <= 1
           /\ ASCII85!Bytes(chars) \in Bytes
           /\ Len(chars) <= BlockSize => Len(ASCII85!Bytes(chars)) <= ASCII85!BytesPerBlock
           /\ HexBytes(<<>>) = <<>> /\ ASCII85!Bytes(<<>>) = <<>> /\ <<>> \in Bytes
  <1>1. HexBytes(<<>>) = <<>> /\ ASCII85!Bytes(<<>>) = <<>> /\ <<>> \in Bytes
    BY DEF HexBytes, ASCII85!Bytes, Bytes
  <1>2. HexBytes(chars) \in Bytes /\ Len(HexBytes(chars)) <= 1
    <2> DEFINE digits == ASCIIHex!Padded(chars)
    <2>1. CASE HexBytes(chars) = <<>> BY <1>1, <2>1
    <2>2. CASE HexBytes(chars) # <<>>
      <3>1. ASCIIHex!IsValid(digits) /\ HexBytes(chars) = <<ASCIIHex!Byte(digits)>>
        BY <2>2 DEF HexBytes
      <3>2. digits[1] \in Int /\ digits[2] \in Int BY <3>1 DEF ASCIIHex!IsValid
      <3>3. ASCIIHex!Byte(digits) \in Symbols BY ONLY <3>2 DEF ASCIIHex!Byte, Symbols
      <3> QED BY ONLY <3>1, <3>3 DEF Bytes
    <2> QED BY <2>1, <2>2
  <1>3. /\ ASCII85!Bytes(chars) \in Bytes
        /\ Len(chars) <= BlockSize => Len(ASCII85!Bytes(chars)) <= ASCII85!BytesPerBlock
    <2>1. PICK b : b = ASCII85!Bytes(chars) OBVIOUS
    <2>2. Range(b) \subseteq Symbols BY <2>1 DEF Symbols
    <2>3. PICK n \in Nat : n = Len(chars) OBVIOUS
    <2>4. b = <<>> \/ (n # 0 /\ DOMAIN b = 1 .. n - 1 /\ b = [i \in 1 .. n - 1 |-> b[i]])
      <3>1. n = 0 => chars = <<>> BY <2>3, EmptySeq
      <3> DEFINE e(i) == (ASCII85!Value(chars) \div ByteBase ^ (ASCII85!BytesPerBlock - i)) % ByteBase
      <3>2. b = <<>> \/ (chars # <<>> /\ b = [i \in 1 .. n - 1 |-> e(i)])
        BY <2>1, <2>3 DEF ASCII85!Bytes
      <3> HIDE DEF e
      <3> QED BY ONLY <3>1, <3>2
    <2>5. \A i \in DOMAIN b : b[i] \in Symbols BY <2>2 DEF Range
    <2>6. BlockSize \in Nat /\ ASCII85!BytesPerBlock = BlockSize - 1 /\ BlockSize > 1
      BY DecodersAssumption DEF ASCII85!BytesPerBlock
    <2>7. CASE b = <<>> BY <1>1, <2>1, <2>6, <2>7
    <2>8. CASE b # <<>>
      <3>1. b \in Seq(Symbols) /\ Len(b) = n - 1 BY ONLY <2>4, <2>5, <2>8, n \in Nat
      <3> QED BY ONLY <2>1, <2>3, <2>6, <3>1 DEF Bytes
    <2> QED BY <2>7, <2>8
  <1> QED BY <1>1, <1>2, <1>3

\* What holds of the value at 0 and goes from each to the next holds of all.
LEMMA AllTyped ==
    ASSUME NEW L \in Nat, NEW V, NEW g, g[0] \in V, \A n \in 1 .. L : g[n - 1] \in V => g[n] \in V
    PROVE  \A n \in 0 .. L : g[n] \in V
  <1> DEFINE S == {n \in Nat : n <= L => g[n] \in V}
  <1>1. 0 \in S OBVIOUS
  <1>2. ASSUME NEW n \in Nat, n \in S PROVE n + 1 \in S
    <2>1. CASE n + 1 <= L
      <3>1. n + 1 \in 1 .. L /\ (n + 1) - 1 = n /\ n <= L BY <2>1
      <3>2. g[n] \in V BY <1>2, <3>1
      <3>3. g[(n + 1) - 1] \in V => g[n + 1] \in V BY <3>1
      <3> QED BY <3>1, <3>2, <3>3
    <2>2. CASE ~(n + 1 <= L) BY <2>2
    <2> QED BY <2>1, <2>2
  <1> HIDE DEF S
  <1>3. \A n \in Nat : n \in S BY ONLY <1>1, <1>2, Induction
  <1> QED BY <1>3 DEF S

\* What the rest of a text encodes, behind any characters of a block.
Rests == [Seq(Int) -> Bytes]

\* A character of hexadecimal text encodes bytes, and the rest of the text does.
LEMMA HexNextIs ==
    ASSUME NEW char \in Int, NEW rest \in Rests, NEW chars \in Seq(Int)
    PROVE  HexNext(char, rest, chars) \in Bytes
  <1>1. PICK group : group = Append(chars, char) OBVIOUS
  <1>2. group \in Seq(Int) /\ <<>> \in Seq(Int) BY <1>1
  <1>3. rest[chars] \in Bytes /\ rest[group] \in Bytes /\ rest[<<>>] \in Bytes BY <1>2 DEF Rests
  <1>4. HexBytes(chars) \in Bytes /\ HexBytes(group) \in Bytes BY <1>2, BytesAre
  <1>5. HexBytes(group) \o rest[<<>>] \in Bytes BY ONLY <1>3, <1>4, ConcatProperties DEF Bytes
  <1> QED BY ONLY <1>1, <1>3, <1>4, <1>5 DEF HexNext

\* What HexRest is defined to be.
HexDefined(text, g) ==
    g = [n \in 0 .. Len(text) |-> [chars \in Seq(Int) |->
           IF n = 0 THEN HexBytes(chars) ELSE HexNext(CharAt(text, n), g[n - 1], chars)]]

\* The contents of hexadecimal text, character by character.
LEMMA HexRestIs ==
    ASSUME NEW text \in Seq(Int)
    PROVE  /\ HexRest(text) \in [0 .. Len(text) -> Rests]
           /\ \A chars \in Seq(Int) : HexRest(text)[0][chars] = HexBytes(chars)
           /\ \A n \in 1 .. Len(text), chars \in Seq(Int) :
                 HexRest(text)[n][chars] = HexNext(CharAt(text, n), HexRest(text)[n - 1], chars)
  <1> DEFINE L == Len(text)
             v0 == [chars \in Seq(Int) |-> HexBytes(chars)]
             N(n, r) == [chars \in Seq(Int) |-> HexNext(CharAt(text, n), r, chars)]
             h == [n \in 1 .. L |-> n - 1]
             step == [p \in (1 .. L) \X Rests |-> N(p[1], p[2])]
  <1>1. L \in Nat /\ \A n \in 1 .. L : CharAt(text, n) \in Int BY DEF CharAt
  <1>2. v0 \in Rests BY BytesAre DEF Rests
  <1>3. ASSUME NEW n \in 1 .. L, NEW r \in Rests PROVE N(n, r) \in Rests
    <2>1. CharAt(text, n) \in Int BY <1>1
    <2>2. \A chars \in Seq(Int) : HexNext(CharAt(text, n), r, chars) \in Bytes BY <2>1, HexNextIs
    <2> QED BY <2>2 DEF Rests
  <1> HIDE DEF N, v0, L
  <1>4. \A n \in 1 .. L : h[n] = n - 1 /\ h[n] \in 0 .. n - 1 BY <1>1
  <1>5. step \in [(1 .. L) \X Rests -> Rests] BY <1>3
  <1>6. ASSUME NEW n \in 1 .. L, NEW r \in Rests PROVE step[<<n, r>>] = N(n, r) OBVIOUS
  <1> HIDE DEF h, step
  <1>7. PICK f \in [0 .. L -> Rests] : ObeysTo(f, L, v0, h, step)
    BY ONLY <1>1, <1>2, <1>4, <1>5, BoundedRecursion
  <1>8. HexDefined(text, f)
    <2>1. ASSUME NEW n \in 0 .. L
          PROVE  f[n] = [chars \in Seq(Int) |->
                     IF n = 0 THEN HexBytes(chars) ELSE HexNext(CharAt(text, n), f[n - 1], chars)]
      <3>1. CASE n = 0 BY <1>7, <3>1 DEF ObeysTo, v0
      <3>2. CASE n # 0
        <4>1. n \in 1 .. L /\ n - 1 \in 0 .. L BY <1>1, <3>2
        <4>2. f[n - 1] \in Rests BY <4>1
        <4>3. f[n] = N(n, f[n - 1]) BY <1>4, <1>6, <1>7, <4>1, <4>2 DEF ObeysTo
        <4> QED BY ONLY <3>2, <4>3 DEF N
      <3> QED BY <3>1, <3>2
    <2>2. f = [n \in 0 .. L |-> f[n]] OBVIOUS
    <2> QED BY ONLY <2>1, <2>2 DEF HexDefined, L
  <1>9. PICK g : g = HexRest(text) OBVIOUS
  <1>10. HexDefined(text, g)
    <2>1. HexRest(text) = CHOOSE e : HexDefined(text, e) BY DEF HexRest, HexDefined
    <2> QED BY ONLY <1>8, <1>9, <2>1
  <1>11. \A n \in 0 .. L : g[n] = [chars \in Seq(Int) |->
             IF n = 0 THEN HexBytes(chars) ELSE HexNext(CharAt(text, n), g[n - 1], chars)]
    BY ONLY <1>10 DEF HexDefined, L
  <1>12. g[0] = v0 BY <1>1, <1>11 DEF v0
  <1>13. \A n \in 1 .. L : g[n] = N(n, g[n - 1]) BY <1>1, <1>11 DEF N
  <1>14. \A n \in 0 .. L : g[n] \in Rests
    <2>1. g[0] \in Rests BY <1>2, <1>12
    <2>2. \A n \in 1 .. L : g[n - 1] \in Rests => g[n] \in Rests BY <1>3, <1>13
    <2> QED BY ONLY <1>1, <2>1, <2>2, AllTyped
  <1>15. g = [n \in 0 .. L |-> g[n]] BY ONLY <1>10 DEF HexDefined, L
  <1>16. g \in [0 .. L -> Rests] BY ONLY <1>14, <1>15
  <1> QED BY <1>9, <1>12, <1>13, <1>16 DEF v0, N, L

-----------------------------------------------------------------------------
\* So does a character of ASCII85.
LEMMA ASCII85NextIs ==
    ASSUME NEW char \in Int, NEW rest \in Rests, NEW chars \in Seq(Int)
    PROVE  ASCII85Next(char, rest, chars) \in Bytes /\ ASCII85!ZeroBytes \in Bytes
  <1>1. PICK group : group = Append(chars, char) OBVIOUS
  <1>2. group \in Seq(Int) /\ <<>> \in Seq(Int) BY <1>1
  <1>3. rest[chars] \in Bytes /\ rest[group] \in Bytes /\ rest[<<>>] \in Bytes BY <1>2 DEF Rests
  <1>4. ASCII85!Bytes(chars) \in Bytes /\ ASCII85!Bytes(group) \in Bytes BY <1>2, BytesAre
  <1>5. ASCII85!Bytes(group) \o rest[<<>>] \in Bytes BY ONLY <1>3, <1>4, ConcatProperties DEF Bytes
  <1>6. ASCII85!ZeroBytes \in Bytes
    <2>1. ASCII85!BytesPerBlock \in Nat BY DecodersAssumption DEF ASCII85!BytesPerBlock
    <2> QED BY ONLY <2>1 DEF ASCII85!ZeroBytes, Bytes, Symbols
  <1>7. ASCII85!ZeroBytes \o rest[<<>>] \in Bytes BY ONLY <1>3, <1>6, ConcatProperties DEF Bytes
  <1> QED BY ONLY <1>1, <1>3, <1>4, <1>5, <1>6, <1>7 DEF ASCII85Next

\* What ASCII85Rest is defined to be.
ASCII85Defined(text, g) ==
    g = [n \in 0 .. Len(text) |-> [chars \in Seq(Int) |->
           IF n = 0 THEN ASCII85!Bytes(chars) ELSE ASCII85Next(CharAt(text, n), g[n - 1], chars)]]

\* The contents of ASCII85, character by character.
LEMMA ASCII85RestIs ==
    ASSUME NEW text \in Seq(Int)
    PROVE  /\ ASCII85Rest(text) \in [0 .. Len(text) -> Rests]
           /\ \A chars \in Seq(Int) : ASCII85Rest(text)[0][chars] = ASCII85!Bytes(chars)
           /\ \A n \in 1 .. Len(text), chars \in Seq(Int) :
                 ASCII85Rest(text)[n][chars]
                     = ASCII85Next(CharAt(text, n), ASCII85Rest(text)[n - 1], chars)
  <1> DEFINE L == Len(text)
             v0 == [chars \in Seq(Int) |-> ASCII85!Bytes(chars)]
             N(n, r) == [chars \in Seq(Int) |-> ASCII85Next(CharAt(text, n), r, chars)]
             h == [n \in 1 .. L |-> n - 1]
             step == [p \in (1 .. L) \X Rests |-> N(p[1], p[2])]
  <1>1. L \in Nat /\ \A n \in 1 .. L : CharAt(text, n) \in Int BY DEF CharAt
  <1>2. v0 \in Rests BY BytesAre DEF Rests
  <1>3. ASSUME NEW n \in 1 .. L, NEW r \in Rests PROVE N(n, r) \in Rests
    <2>1. CharAt(text, n) \in Int BY <1>1
    <2>2. \A chars \in Seq(Int) : ASCII85Next(CharAt(text, n), r, chars) \in Bytes
      BY <2>1, ASCII85NextIs
    <2> QED BY <2>2 DEF Rests
  <1> HIDE DEF N, v0, L
  <1>4. \A n \in 1 .. L : h[n] = n - 1 /\ h[n] \in 0 .. n - 1 BY <1>1
  <1>5. step \in [(1 .. L) \X Rests -> Rests] BY <1>3
  <1>6. ASSUME NEW n \in 1 .. L, NEW r \in Rests PROVE step[<<n, r>>] = N(n, r) OBVIOUS
  <1> HIDE DEF h, step
  <1>7. PICK f \in [0 .. L -> Rests] : ObeysTo(f, L, v0, h, step)
    BY ONLY <1>1, <1>2, <1>4, <1>5, BoundedRecursion
  <1>8. ASCII85Defined(text, f)
    <2>1. ASSUME NEW n \in 0 .. L
          PROVE  f[n] = [chars \in Seq(Int) |->
                     IF n = 0 THEN ASCII85!Bytes(chars)
                     ELSE ASCII85Next(CharAt(text, n), f[n - 1], chars)]
      <3>1. CASE n = 0 BY <1>7, <3>1 DEF ObeysTo, v0
      <3>2. CASE n # 0
        <4>1. n \in 1 .. L /\ n - 1 \in 0 .. L BY <1>1, <3>2
        <4>2. f[n - 1] \in Rests BY <4>1
        <4>3. f[n] = N(n, f[n - 1]) BY <1>4, <1>6, <1>7, <4>1, <4>2 DEF ObeysTo
        <4> QED BY ONLY <3>2, <4>3 DEF N
      <3> QED BY <3>1, <3>2
    <2>2. f = [n \in 0 .. L |-> f[n]] OBVIOUS
    <2> QED BY ONLY <2>1, <2>2 DEF ASCII85Defined, L
  <1>9. PICK g : g = ASCII85Rest(text) OBVIOUS
  <1>10. ASCII85Defined(text, g)
    <2>1. ASCII85Rest(text) = CHOOSE e : ASCII85Defined(text, e)
      BY DEF ASCII85Rest, ASCII85Defined
    <2> QED BY ONLY <1>8, <1>9, <2>1
  <1>11. \A n \in 0 .. L : g[n] = [chars \in Seq(Int) |->
             IF n = 0 THEN ASCII85!Bytes(chars) ELSE ASCII85Next(CharAt(text, n), g[n - 1], chars)]
    BY ONLY <1>10 DEF ASCII85Defined, L
  <1>12. g[0] = v0 BY <1>1, <1>11 DEF v0
  <1>13. \A n \in 1 .. L : g[n] = N(n, g[n - 1]) BY <1>1, <1>11 DEF N
  <1>14. \A n \in 0 .. L : g[n] \in Rests
    <2>1. g[0] \in Rests BY <1>2, <1>12
    <2>2. \A n \in 1 .. L : g[n - 1] \in Rests => g[n] \in Rests BY <1>3, <1>13
    <2> QED BY ONLY <1>1, <2>1, <2>2, AllTyped
  <1>15. g = [n \in 0 .. L |-> g[n]] BY ONLY <1>10 DEF ASCII85Defined, L
  <1>16. g \in [0 .. L -> Rests] BY ONLY <1>14, <1>15
  <1> QED BY <1>9, <1>12, <1>13, <1>16 DEF v0, N, L

-----------------------------------------------------------------------------
\* Sequences of bytes are put one behind the other.
LEMMA BytesConcat ==
    ASSUME NEW a \in Bytes, NEW b \in Bytes, NEW c \in Bytes
    PROVE  /\ a \o b \in Bytes /\ (a \o b) \o c = a \o (b \o c)
           /\ Len(a \o b) = Len(a) + Len(b) /\ a \o <<>> = a /\ <<>> \o a = a
           /\ <<>> \in Bytes /\ Len(a) \in Nat
  BY ConcatProperties, ConcatAssociative, ConcatEmptySeq, EmptySeq, LenProperties DEF Bytes

\* A part of a sequence.
LEMMA PartOf ==
    ASSUME NEW S, NEW w \in Seq(S), NEW lo \in Nat, NEW hi \in Nat,
           1 <= lo, hi <= Len(w), lo <= hi + 1
    PROVE  /\ SubSeq(w, lo, hi) \in Seq(S) /\ Len(SubSeq(w, lo, hi)) = hi - lo + 1
           /\ \A j \in 1 .. hi - lo + 1 : SubSeq(w, lo, hi)[j] = w[lo + j - 1]
  <1>1. \A j \in lo .. hi : w[j] \in S
    <2>1. \A j \in lo .. hi : j \in 1 .. Len(w) OBVIOUS
    <2> QED BY <2>1
  <1>2. lo \in Int /\ hi \in Int OBVIOUS
  <1>3. /\ SubSeq(w, lo, hi) \in Seq(S)
        /\ Len(SubSeq(w, lo, hi)) = IF lo <= hi THEN hi - lo + 1 ELSE 0
        /\ \A j \in 1 .. hi - lo + 1 : SubSeq(w, lo, hi)[j] = w[lo + j - 1]
    BY ONLY <1>1, <1>2, SubSeqProperties
  <1>4. (IF lo <= hi THEN hi - lo + 1 ELSE 0) = hi - lo + 1 OBVIOUS
  <1> QED BY ONLY <1>3, <1>4

\* A part of a text of integers is bytes.
LEMMA PartIs ==
    ASSUME NEW text \in Seq(Int), NEW i \in Nat, NEW n \in Nat, i + n <= Len(text)
    PROVE  /\ SubSeq(text, i + 1, i + n) \in Bytes /\ Len(SubSeq(text, i + 1, i + n)) = n
           /\ \A j \in 1 .. n : SubSeq(text, i + 1, i + n)[j] = text[i + j]
  <1>1. text \in Seq(Symbols) BY DEF Symbols
  <1>3. PICK part : part = SubSeq(text, i + 1, i + n) OBVIOUS
  <1>4. PICK lo \in Nat : lo = i + 1 OBVIOUS
  <1>5. PICK hi \in Nat : hi = i + n OBVIOUS
  <1>6. 1 <= lo /\ hi <= Len(text) /\ lo <= hi + 1 /\ hi - lo + 1 = n BY <1>4, <1>5
  <1>7. part \in Seq(Symbols) /\ Len(part) = n /\ \A j \in 1 .. n : part[j] = text[lo + j - 1]
    BY ONLY <1>1, <1>3, <1>4, <1>5, <1>6, lo \in Nat, hi \in Nat, PartOf
  <1>8. \A j \in 1 .. n : lo + j - 1 = i + j BY ONLY <1>4, i \in Nat
  <1> QED BY ONLY <1>3, <1>7, <1>8 DEF Bytes

RunTexts == Seq(0 .. 2 * EodMarker - 1)

\* The characters that are left behind a run, and what they encode with it.
LeftBehind(text, n) ==
    LET length == RunLength!LiteralLength(CharAt(text, n))
    IN  IF CharAt(text, n) < EodMarker THEN n - 1 - (IF length < n THEN length ELSE n - 1)
        ELSE IF n = 1 THEN 0 ELSE n - 2

WithRun(text, n, behind) ==
    IF CharAt(text, n) = EodMarker THEN <<>>
    ELSE IF CharAt(text, n) < EodMarker
         THEN SubSeq(text, Len(text) - n + 2, Len(text) - LeftBehind(text, n)) \o behind
    ELSE IF n = 1 THEN <<>>
    ELSE [i \in 1 .. RunLength!CopyLength(CharAt(text, n)) |-> CharAt(text, n - 1)] \o behind

\* A run encodes bytes, and there are fewer characters behind it.
LEMMA RunIs ==
    ASSUME NEW text \in RunTexts, NEW n \in 1 .. Len(text), NEW behind \in Bytes
    PROVE  LeftBehind(text, n) \in 0 .. n - 1 /\ WithRun(text, n, behind) \in Bytes
  <1>1. PICK c : c = CharAt(text, n) OBVIOUS
  <1>2. Len(text) \in Nat /\ EodMarker \in Nat /\ c \in 0 .. 2 * EodMarker - 1 /\ text \in Seq(Int)
    BY <1>1, DecodersAssumption DEF RunTexts, CharAt
  <1>3. PICK h : h = LeftBehind(text, n) OBVIOUS
  <1>4. h \in 0 .. n - 1
    BY <1>1, <1>2, <1>3 DEF LeftBehind, RunLength!LiteralLength
  <1>5. CASE c = EodMarker BY <1>1, <1>3, <1>4, <1>5, BytesConcat DEF WithRun
  <1>6. CASE c < EodMarker
    <2>1. PICK i \in Nat : i = Len(text) - n + 1 BY <1>2
    <2>1a. PICK k \in Nat : k = n - 1 - h BY <1>2, <1>4
    <2>2. i + k <= Len(text) /\ i + 1 = Len(text) - n + 2 /\ i + k = Len(text) - h
      BY ONLY <1>2, <1>4, <2>1, <2>1a, n \in 1 .. Len(text)
    <2>3. SubSeq(text, i + 1, i + k) \in Bytes BY <1>2, <2>2, PartIs
    <2>4. SubSeq(text, i + 1, i + k) \o behind \in Bytes BY <2>3, BytesConcat
    <2>5. c # EodMarker BY <1>2, <1>6
    <2>6. WithRun(text, n, behind) = SubSeq(text, i + 1, i + k) \o behind
      BY ONLY <1>1, <1>3, <1>6, <2>2, <2>5 DEF WithRun
    <2> QED BY ONLY <1>3, <1>4, <2>4, <2>6
  <1>7. CASE c > EodMarker /\ n = 1
    <2>1. WithRun(text, n, behind) = <<>>
      BY ONLY <1>1, <1>2, <1>7 DEF WithRun
    <2> QED BY <1>3, <1>4, <2>1, BytesConcat
  <1>8. CASE c > EodMarker /\ n # 1
    <2>1. PICK b : b = CharAt(text, n - 1) OBVIOUS
    <2>2. b \in Int BY <1>2, <1>8, <2>1 DEF CharAt
    <2>3. PICK k \in Nat : k = RunLength!CopyLength(c)
      BY <1>2 DEF RunLength!CopyLength, RunLength!CopyBase
    <2>4. [i \in 1 .. k |-> b] \in Bytes BY ONLY <2>2, k \in Nat DEF Bytes, Symbols
    <2>5. [i \in 1 .. k |-> b] \o behind \in Bytes BY <2>4, BytesConcat
    <2>6. c # EodMarker /\ ~(c < EodMarker) BY ONLY <1>2, <1>8
    <2>7. WithRun(text, n, behind) = [i \in 1 .. k |-> b] \o behind
      BY ONLY <1>1, <1>8, <2>1, <2>3, <2>6 DEF WithRun
    <2> QED BY ONLY <1>3, <1>4, <2>5, <2>7
  <1> QED BY <1>2, <1>5, <1>6, <1>7, <1>8

\* RunsNext looks at the rest of a text behind the run.
LEMMA RunsNextIs ==
    ASSUME NEW text \in RunTexts, NEW n \in 1 .. Len(text), NEW rest
    PROVE  RunsNext(text, n, rest) = WithRun(text, n, rest[LeftBehind(text, n)])
  <1>1. PICK c : c = CharAt(text, n) OBVIOUS
  <1>2. Len(text) \in Nat /\ EodMarker \in Nat /\ c \in 0 .. 2 * EodMarker - 1
    BY <1>1, DecodersAssumption DEF RunTexts, CharAt
  <1>3. PICK h : h = LeftBehind(text, n) OBVIOUS
  <1>4. CASE c < EodMarker
    <2>1. PICK there : there = IF c + 1 < n THEN c + 1 ELSE n - 1 OBVIOUS
    <2>2. there \in Int BY <1>2, <2>1
    <2>3. h = n - 1 - there
      BY <1>1, <1>3, <1>4, <2>1 DEF LeftBehind, RunLength!LiteralLength
    <2>4. /\ Len(text) - n + 1 + 1 = Len(text) - n + 2
          /\ Len(text) - n + 1 + there = Len(text) - h
      BY ONLY <1>2, <2>2, <2>3, n \in 1 .. Len(text)
    <2>5. c # EodMarker BY <1>2, <1>4
    <2>6. RunsNext(text, n, rest)
              = SubSeq(text, Len(text) - n + 1 + 1, Len(text) - n + 1 + there) \o rest[n - 1 - there]
      BY ONLY <1>1, <1>4, <2>1, <2>5 DEF RunsNext, RunLength!LiteralLength
    <2>7. WithRun(text, n, rest[h]) = SubSeq(text, Len(text) - n + 2, Len(text) - h) \o rest[h]
      BY ONLY <1>1, <1>3, <1>4, <2>5 DEF WithRun
    <2> QED BY ONLY <1>3, <2>3, <2>4, <2>6, <2>7
  <1>5. CASE ~(c < EodMarker)
    <2>1. n # 1 /\ c # EodMarker => h = n - 2 BY <1>1, <1>3, <1>5 DEF LeftBehind
    <2> QED BY ONLY <1>1, <1>3, <1>5, <2>1 DEF RunsNext, WithRun
  <1> QED BY <1>4, <1>5

RunsDefined(text, g) == g = [n \in 0 .. Len(text) |-> IF n = 0 THEN <<>> ELSE RunsNext(text, n, g)]

\* The contents of runs, run by run.
LEMMA RunsRestIs ==
    ASSUME NEW text \in RunTexts
    PROVE  /\ RunsRest(text) \in [0 .. Len(text) -> Bytes]
           /\ RunsRest(text)[0] = <<>>
           /\ \A n \in 1 .. Len(text) :
                 RunsRest(text)[n] = WithRun(text, n, RunsRest(text)[LeftBehind(text, n)])
  <1> DEFINE L == Len(text)
             h == [n \in 1 .. L |-> LeftBehind(text, n)]
             step == [p \in (1 .. L) \X Bytes |-> WithRun(text, p[1], p[2])]
  <1>1. L \in Nat /\ <<>> \in Bytes BY BytesAre DEF RunTexts, Bytes
  <1>2. \A n \in 1 .. L : LeftBehind(text, n) \in 0 .. n - 1 BY <1>1, RunIs
  <1>3. \A n \in 1 .. L, b \in Bytes : WithRun(text, n, b) \in Bytes BY RunIs
  <1> HIDE DEF L
  <1>4. \A n \in 1 .. L : h[n] = LeftBehind(text, n) /\ h[n] \in 0 .. n - 1 BY <1>2
  <1>5. step \in [(1 .. L) \X Bytes -> Bytes] BY <1>3
  <1>6. ASSUME NEW n \in 1 .. L, NEW b \in Bytes PROVE step[<<n, b>>] = WithRun(text, n, b) OBVIOUS
  <1> HIDE DEF h, step
  <1>7. PICK f \in [0 .. L -> Bytes] : ObeysTo(f, L, <<>>, h, step)
    BY ONLY <1>1, <1>4, <1>5, BoundedRecursion
  <1>8. RunsDefined(text, f)
    <2>1. ASSUME NEW n \in 0 .. L PROVE f[n] = IF n = 0 THEN <<>> ELSE RunsNext(text, n, f)
      <3>1. CASE n = 0 BY <1>7, <3>1 DEF ObeysTo
      <3>2. CASE n # 0
        <4>1. n \in 1 .. L BY <1>1, <3>2
        <4>2. h[n] \in 0 .. L /\ h[n] = LeftBehind(text, n)
          <5>1. h[n] \in 0 .. n - 1 /\ h[n] = LeftBehind(text, n) BY <1>4, <4>1
          <5> QED BY ONLY <1>1, <4>1, <5>1
        <4>3. f[h[n]] \in Bytes BY <4>2
        <4>4. f[n] = step[<<n, f[h[n]]>>] BY ONLY <1>7, <4>1 DEF ObeysTo
        <4>5. f[n] = WithRun(text, n, f[LeftBehind(text, n)])
          BY ONLY <1>6, <4>1, <4>2, <4>3, <4>4
        <4>6. RunsNext(text, n, f) = WithRun(text, n, f[LeftBehind(text, n)])
          BY <4>1, RunsNextIs DEF L
        <4> QED BY ONLY <3>2, <4>5, <4>6
      <3> QED BY <3>1, <3>2
    <2>2. f = [n \in 0 .. L |-> f[n]] OBVIOUS
    <2> QED BY ONLY <2>1, <2>2 DEF RunsDefined, L
  <1>9. PICK g : g = RunsRest(text) OBVIOUS
  <1>10. RunsDefined(text, g)
    <2>1. RunsRest(text) = CHOOSE e : RunsDefined(text, e) BY DEF RunsRest, RunsDefined
    <2> QED BY ONLY <1>8, <1>9, <2>1
  <1>11. \A n \in 0 .. L : g[n] = IF n = 0 THEN <<>> ELSE RunsNext(text, n, g)
    BY ONLY <1>10 DEF RunsDefined, L
  <1>12. g[0] = <<>> BY <1>1, <1>11
  <1>13. ASSUME NEW n \in 1 .. L PROVE g[n] = WithRun(text, n, g[LeftBehind(text, n)])
    <2>1. g[n] = RunsNext(text, n, g) BY <1>1, <1>11
    <2> QED BY <2>1, RunsNextIs DEF L
  <1>14. \A n \in 0 .. L : g[n] \in Bytes
    <2> DEFINE T == {n \in 0 .. L : g[n] \notin Bytes}
    <2>1. T = {}
      <3> SUFFICES ASSUME T # {} PROVE FALSE OBVIOUS
      <3>1. T \in SUBSET Nat BY <1>1
      <3>2. PICK m \in T : \A k \in T : m <= k BY <3>1, Least
      <3>3. m \in 1 .. L /\ g[m] \notin Bytes BY <1>1, <1>12, <3>2
      <3>4. PICK k : k = LeftBehind(text, m) OBVIOUS
      <3>5. k \in 0 .. m - 1 BY <1>2, <3>3, <3>4
      <3>6. g[k] \in Bytes
        <4>1. k \in 0 .. L /\ ~(m <= k) BY ONLY <1>1, <3>3, <3>5
        <4> QED BY <3>2, <4>1
      <3> QED BY <1>3, <1>13, <3>3, <3>4, <3>6
    <2> QED BY <2>1
  <1>15. g = [n \in 0 .. L |-> g[n]] BY ONLY <1>10 DEF RunsDefined, L
  <1>16. g \in [0 .. L -> Bytes] BY ONLY <1>14, <1>15
  <1> QED BY <1>9, <1>12, <1>13, <1>16 DEF L

-----------------------------------------------------------------------------
(* Steps                                                                   *)

\* A buffer of which nothing was read is unread; what is put behind it comes
\* behind what there is.
LEMMA UnreadIs ==
    ASSUME NEW data \in Bytes, NEW more \in Bytes
    PROVE  /\ SubSeq(data, 0 + 1, Len(data)) = data
           /\ \A i \in Nat : i <= Len(data) => SubSeq(data, i + 1, Len(data)) \in Bytes
           /\ \A i \in Nat : i >= Len(data) => SubSeq(data, i + 1, Len(data)) = <<>>
           /\ data \o more \in Bytes /\ data \o <<>> = data
  <1>1. SubSeq(data, 0 + 1, Len(data)) = data BY SubSeqFull DEF Bytes
  <1>2. ASSUME NEW i \in Nat PROVE SubSeq(data, i + 1, Len(data)) \in Bytes
    <2>1. Len(data) \in Int /\ i + 1 \in Int BY LenProperties DEF Bytes
    <2>2. \A j \in i + 1 .. Len(data) : data[j] \in Symbols BY DEF Bytes
    <2> QED BY ONLY <2>1, <2>2, SubSeqProperties DEF Bytes
  <1>3. ASSUME NEW i \in Nat, i >= Len(data) PROVE SubSeq(data, i + 1, Len(data)) = <<>>
    <2>1. Len(data) \in Int /\ i + 1 \in Int /\ Len(data) < i + 1 BY <1>3, LenProperties DEF Bytes
    <2> QED BY ONLY <2>1, SubSeqEmpty
  <1> QED BY <1>1, <1>2, <1>3, BytesConcat

\* Of the L first of a sequence, n are read behind the i first.
AreRead(data, i, n, L, first, last, next) ==
    /\ data \in Bytes /\ L <= Len(data)
    /\ i \in Nat /\ n \in Nat /\ L \in Nat /\ i + n <= L
    /\ first = i + 1 /\ last = i + n /\ next = i + n + 1

\* They are bytes, as the rest of the L is, and come before it.
IsRead(data, n, L, first, last, next) ==
    /\ SubSeq(data, first, last) \in Bytes /\ Len(SubSeq(data, first, last)) = n
    /\ SubSeq(data, next, L) \in Bytes
    /\ SubSeq(data, first, last) \o SubSeq(data, next, L) = SubSeq(data, first, L)

\* The part of a sequence that is read is followed by the part that is not.
LEMMA ReadAndUnread ==
    ASSUME NEW data, NEW i, NEW n, NEW L, NEW first, NEW last, NEW next,
           AreRead(data, i, n, L, first, last, next)
    PROVE  IsRead(data, n, L, first, last, next)
  <1> USE DEF AreRead
  <1>a. PICK a : a = SubSeq(data, first, last) OBVIOUS
  <1>b. PICK b : b = SubSeq(data, next, L) OBVIOUS
  <1>0. data \in Bytes /\ L <= Len(data) /\ i \in Nat /\ n \in Nat /\ L \in Nat /\ i + n <= L
    OBVIOUS
  <1>1. PICK N \in Nat : N = Len(data) BY <1>0 DEF Bytes
  <1>2. a = SubSeq(data, i + 1, i + n) BY <1>a
  <1>3. b = SubSeq(data, i + n + 1, L) BY <1>b
  <1>4. PICK c : c = SubSeq(data, i + 1, L) /\ c = SubSeq(data, first, L) OBVIOUS
  <1>5. data \in Seq(Symbols) BY <1>0 DEF Bytes
  <1>7. a \in Seq(Symbols) /\ Len(a) = n /\ \A j \in 1 .. n : a[j] = data[i + j]
    <2>1. PICK lo \in Nat : lo = i + 1 OBVIOUS
    <2>2. PICK hi \in Nat : hi = i + n OBVIOUS
    <2>3. 1 <= lo /\ hi <= Len(data) /\ lo <= hi + 1 /\ hi - lo + 1 = n
      BY ONLY <1>1, <2>1, <2>2, <1>0, N \in Nat
    <2>3a. a = SubSeq(data, lo, hi) BY ONLY <1>2, <2>1, <2>2
    <2>3b. /\ SubSeq(data, lo, hi) \in Seq(Symbols) /\ Len(SubSeq(data, lo, hi)) = hi - lo + 1
           /\ \A j \in 1 .. hi - lo + 1 : SubSeq(data, lo, hi)[j] = data[lo + j - 1]
      BY ONLY <1>5, <2>3, lo \in Nat, hi \in Nat, PartOf
    <2>4. /\ a \in Seq(Symbols) /\ Len(a) = n
          /\ \A j \in 1 .. n : a[j] = data[lo + j - 1]
      BY ONLY <2>3, <2>3a, <2>3b
    <2>5. \A j \in 1 .. n : lo + j - 1 = i + j BY ONLY <2>1, <1>0
    <2> QED BY ONLY <2>4, <2>5
  <1>8. b \in Seq(Symbols) /\ Len(b) = L - i - n /\ \A j \in 1 .. L - i - n : b[j] = data[i + n + j]
    <2>1. PICK lo \in Nat : lo = i + n + 1 OBVIOUS
    <2>2. 1 <= lo /\ L <= Len(data) /\ lo <= L + 1 /\ L - lo + 1 = L - i - n
      BY ONLY <2>1, <1>0
    <2>2a. /\ b \in Seq(Symbols) /\ Len(b) = L - lo + 1
          /\ \A j \in 1 .. L - lo + 1 : b[j] = data[lo + j - 1]
      BY ONLY <1>3, <1>5, <2>1, <2>2, lo \in Nat, <1>0, PartOf
    <2>3. /\ b \in Seq(Symbols) /\ Len(b) = L - i - n
          /\ \A j \in 1 .. L - i - n : b[j] = data[lo + j - 1]
      BY ONLY <2>2, <2>2a
    <2>4. \A j \in 1 .. L - i - n : lo + j - 1 = i + n + j BY ONLY <2>1, <1>0
    <2> QED BY ONLY <2>3, <2>4
  <1>9. c \in Seq(Symbols) /\ Len(c) = L - i /\ \A j \in 1 .. L - i : c[j] = data[i + j]
    <2>1. PICK lo \in Nat : lo = i + 1 OBVIOUS
    <2>2. 1 <= lo /\ L <= Len(data) /\ lo <= L + 1 /\ L - lo + 1 = L - i
      BY ONLY <2>1, <1>0
    <2>3. /\ c \in Seq(Symbols) /\ Len(c) = L - i
          /\ \A j \in 1 .. L - i : c[j] = data[lo + j - 1]
      BY ONLY <1>4, <1>5, <2>1, <2>2, lo \in Nat, <1>0, PartOf
    <2>4. \A j \in 1 .. L - i : lo + j - 1 = i + j BY ONLY <2>1, <1>0
    <2> QED BY ONLY <2>3, <2>4
  <1>10. Len(a) + Len(b) = L - i BY ONLY <1>7, <1>8, <1>0
  <1>11. PICK d : d = a \o b OBVIOUS
  <1>12. /\ d \in Seq(Symbols) /\ Len(d) = L - i
         /\ \A j \in 1 .. L - i : d[j] = IF j <= n THEN a[j] ELSE b[j - n]
    <2>1. /\ d \in Seq(Symbols) /\ Len(d) = Len(a) + Len(b)
          /\ \A j \in 1 .. Len(a) + Len(b) : d[j] = IF j <= Len(a) THEN a[j] ELSE b[j - Len(a)]
      BY ONLY <1>7, <1>8, <1>11, ConcatProperties
    <2>2. Len(a) = n BY <1>7
    <2> QED BY ONLY <1>10, <2>1, <2>2
  <1>13. \A j \in 1 .. L - i : d[j] = c[j]
    <2> TAKE j \in 1 .. L - i
    <2>1. c[j] = data[i + j] BY <1>9
    <2>2. CASE j <= n
      <3>1. j \in 1 .. n BY <2>2
      <3> QED BY ONLY <1>7, <1>12, <2>1, <2>2, <3>1, j \in 1 .. L - i
    <2>3. CASE ~(j <= n)
      <3>1. j - n \in 1 .. L - i - n /\ i + n + (j - n) = i + j BY <2>3
      <3> QED BY ONLY <1>8, <1>12, <2>1, <2>3, <3>1, j \in 1 .. L - i
    <2> QED BY <2>2, <2>3
  <1>14. d = c BY ONLY <1>9, <1>12, <1>13, SeqEqual
  <1>15. a \in Bytes /\ b \in Bytes /\ a \o b = c /\ Len(a) = n
    BY ONLY <1>7, <1>8, <1>11, <1>14 DEF Bytes
  <1> QED BY ONLY <1>a, <1>b, <1>4, <1>15 DEF IsRead

\* What is decoded next comes behind what was.
LEMMA GoesOn ==
    ASSUME NEW got \in Bytes, NEW next \in Bytes, NEW ahead \in Bytes
    PROVE  /\ (got \o next) \o ahead = got \o (next \o ahead)
           /\ got \o next \in Bytes /\ next \o ahead \in Bytes
  <1>1. got \o next \in Bytes /\ next \o ahead \in Bytes BY ConcatProperties DEF Bytes
  <1>2. (got \o next) \o ahead = got \o (next \o ahead) BY ConcatAssociative DEF Bytes
  <1> QED BY <1>1, <1>2

-----------------------------------------------------------------------------
(* The inductive invariant                                                 *)

Sources == [text : Seq(Int), contents : Bytes, pos : Nat, failures : Nat]
Buffers == [data : Bytes, index : Nat, eod : BOOLEAN]
Blocks  == [chars : Seq(Int), ended : BOOLEAN]
Runs    == [type : {"none", "literal", "copy"}, remaining : Nat, byte : Int]

HasBlocks == decoder \in {"ASCIIHex", "ASCII85"}

\* The state is as the decoders declare it.
Types ==
    /\ decoder \in {"ASCIIHex", "ASCII85", "RunLength"}
    /\ source \in Sources /\ source.pos <= Len(source.text)
    /\ attached \in BOOLEAN /\ delivered \in Bytes
    /\ buffer \in Buffers /\ buffer.index <= Len(buffer.data) /\ Len(buffer.data) <= BufferSize
    /\ call = Idle \/ (call \in [count : Nat, got : Nat] /\ call.got < call.count)
    /\ HasBlocks => block = Idle \/ block \in Blocks
    /\ decoder = "RunLength" =>
          block \in {Idle, RunLength!Working} /\ source.text \in RunTexts /\ context \in Runs

\* A decoder works in a call, into a buffer from which nothing is read
\* meanwhile; one without a source has not begun.
Working ==
    block # Idle =>
       /\ call # Idle /\ buffer.index = 0
       /\ HasBlocks => (~attached => block = ASCIIHex!Start)
       /\ decoder = "ASCIIHex" =>
             Len(buffer.data) < BufferSize /\ Len(block.chars) <= ASCIIHex!PairSize
       /\ decoder = "ASCII85" => buffer.data = <<>> /\ Len(block.chars) <= BlockSize

\* Behind the end of the data no block is begun, but by the hexadecimal decoder.
AtEndOfData ==
    block # Idle =>
       /\ HasBlocks => (block.ended => buffer.eod)
       /\ buffer.eod => decoder # "RunLength" /\ (decoder = "ASCII85" => block.ended)

(* What was decoded, and what will be, of a source s, into a buffer b, from *)
(* a block k or a run c.                                                    *)
LeftOf(s) == Len(s.text) - s.pos

Got(b, d) == d \o SubSeq(b.data, b.index + 1, Len(b.data))

BlocksAhead(s, b, k, size, bytes, rest) ==
    IF k = Idle THEN IF b.eod THEN <<>> ELSE rest[LeftOf(s)][<<>>]
    ELSE IF k.ended THEN bytes
    ELSE IF Len(k.chars) = size THEN bytes \o rest[LeftOf(s)][<<>>]
    ELSE rest[LeftOf(s)][k.chars]

HexAhead(s, b, k) ==
    BlocksAhead(s, b, k, ASCIIHex!PairSize, HexBytes(k.chars), HexRest(s.text))

ASCII85Ahead(s, b, k) ==
    BlocksAhead(s, b, k, BlockSize, ASCII85!Bytes(k.chars), ASCII85Rest(s.text))

LiteralLeft(s, c) == IF c.remaining < LeftOf(s) THEN c.remaining ELSE LeftOf(s)

RunsAhead(s, b, c) ==
    LET from == RunsRest(s.text)
        n    == LiteralLeft(s, c)
    IN  IF b.eod THEN <<>>
        ELSE IF c.type = "none" \/ c.remaining = 0 THEN from[LeftOf(s)]
        ELSE IF c.type = "literal" THEN SubSeq(s.text, s.pos + 1, s.pos + n) \o from[LeftOf(s) - n]
        ELSE [i \in 1 .. c.remaining |-> c.byte] \o from[LeftOf(s)]

\* The hexadecimal digits that were read are pairs and the block; behind an odd
\* one the end is the end of the text.
Digits(text, n) == {j \in 1 .. n : text[j] # ASCIIHex!White}

Paired(s, b, k) ==
    /\ ~b.eod =>
          /\ \A i \in 1 .. s.pos : s.text[i] # ASCIIHex!EndMarker
          /\ Cardinality(Digits(s.text, s.pos)) % 2 = IF k = Idle THEN 0 ELSE Len(k.chars) % 2
    /\ b.eod /\ k # Idle =>
          /\ ~k.ended => k.chars = <<>>
          /\ LeftOf(s) = 0 \/ (k.ended /\ k.chars = <<>>)

HexWhole(s, b, k, d) ==
    s.failures = 0 =>
       HexEnds(s.text) /\ Paired(s, b, k) /\ Got(b, d) \o HexAhead(s, b, k) = s.contents

ASCII85Whole(s, b, k, d) == s.failures = 0 => Got(b, d) \o ASCII85Ahead(s, b, k) = s.contents

RunsWhole(s, b, c, d) ==
    /\ s.failures = 0 \/ ~b.eod => Got(b, d) \o RunsAhead(s, b, c) = s.contents
    /\ \E t \in Bytes : Got(b, d) \o t = s.contents

Whole ==
    /\ decoder = "ASCIIHex" => HexWhole(source, buffer, block, delivered)
    /\ decoder = "ASCII85" => ASCII85Whole(source, buffer, block, delivered)
    /\ decoder = "RunLength" => RunsWhole(source, buffer, context, delivered)

FiltersInv == Types /\ Working /\ AtEndOfData /\ Whole

-----------------------------------------------------------------------------
(* The steps of the decoders, as those of CosFilter                        *)

\* The steps that leave the source and a run as they are.
Kept == UNCHANGED <<source, decoder, context>>

\* The steps of a filter, of its decoder and of its client.
LEMMA StepIs ==
    ASSUME [DecoderNext]_vars
    PROVE  \/ UNCHANGED vars
           \/ Kept /\ (Client \/ ReadGoesOn)
           \/ Kept /\ HasBlocks /\ Decode(ASCIIHex!Start)
           \/ Kept /\ decoder = "RunLength" /\ Decode(RunLength!Working)
           \/ /\ decoder = "ASCIIHex" /\ UNCHANGED <<decoder, context>>
              /\ ASCIIHex!ReadChar \/ ASCIIHex!DecodeBlock
           \/ /\ decoder = "ASCII85" /\ UNCHANGED <<decoder, context>>
              /\ ASCII85!ReadChar \/ ASCII85!DecodeBlock
           \/ decoder = "RunLength" /\ UNCHANGED decoder /\ RunLength!DecodeRuns
  <1>1. /\ (ASCIIHex!ReadGoesOn <=> ReadGoesOn) /\ (ASCII85!ReadGoesOn <=> ReadGoesOn)
        /\ (RunLength!ReadGoesOn <=> ReadGoesOn)
    <2>1. /\ (ASCIIHex!AtEnd <=> AtEnd) /\ (ASCII85!AtEnd <=> AtEnd) /\ (RunLength!AtEnd <=> AtEnd)
      BY DEF ASCIIHex!AtEnd, ASCII85!AtEnd, RunLength!AtEnd, AtEnd,
             ASCIIHex!IsEmpty, ASCII85!IsEmpty, RunLength!IsEmpty, IsEmpty
    <2>2. /\ (ASCIIHex!NoSource <=> NoSource) /\ (ASCII85!NoSource <=> NoSource)
          /\ (RunLength!NoSource <=> NoSource)
      BY DEF ASCIIHex!NoSource, ASCII85!NoSource, RunLength!NoSource, NoSource,
             ASCIIHex!Returns, ASCII85!Returns, RunLength!Returns, Returns
    <2>3. (ASCIIHex!Copy <=> Copy) /\ (ASCII85!Copy <=> Copy) /\ (RunLength!Copy <=> Copy)
      BY DEF ASCIIHex!Copy, ASCII85!Copy, RunLength!Copy, Copy,
             ASCIIHex!IsEmpty, ASCII85!IsEmpty, RunLength!IsEmpty, IsEmpty,
             ASCIIHex!Copied, ASCII85!Copied, RunLength!Copied, Copied
    <2> QED BY ONLY <2>1, <2>2, <2>3
               DEF ASCIIHex!ReadGoesOn, ASCII85!ReadGoesOn, RunLength!ReadGoesOn, ReadGoesOn
  <1>2. ASSUME NEW l
        PROVE  /\ (ASCIIHex!Decode(l) <=> Decode(l)) /\ (ASCII85!Decode(l) <=> Decode(l))
               /\ (RunLength!Decode(l) <=> Decode(l))
    BY DEF ASCIIHex!Decode, ASCII85!Decode, RunLength!Decode, Decode,
           ASCIIHex!IsEmpty, ASCII85!IsEmpty, RunLength!IsEmpty, IsEmpty,
           ASCIIHex!MayDecode, ASCII85!MayDecode, RunLength!MayDecode, MayDecode,
           ASCIIHex!Cleared, ASCII85!Cleared, RunLength!Cleared, Cleared
  <1>3. ReadGoesOn => UNCHANGED source
    BY DEF ReadGoesOn, AtEnd, NoSource, Copy
  <1>4. Client => UNCHANGED source BY DEF Client, Attach, Detach, Read
  <1>5. \A l : Decode(l) => UNCHANGED source BY DEF Decode
  <1>6. ASCII85!Start = ASCIIHex!Start BY DEF ASCII85!Start, ASCIIHex!Start
  <1>7. CASE Uses("ASCIIHex") /\ ASCIIHex!Works /\ UNCHANGED context
    <2>1. decoder = "ASCIIHex" /\ HasBlocks /\ UNCHANGED <<decoder, context>>
      BY ONLY <1>7 DEF Uses, HasBlocks
    <2>2. \/ Decode(ASCIIHex!Start) \/ ReadGoesOn
          \/ ASCIIHex!ReadChar \/ ASCIIHex!DecodeBlock
      BY ONLY <1>1, <1>2, <1>7 DEF ASCIIHex!Works
    <2> QED BY ONLY <1>3, <1>5, <2>1, <2>2 DEF Kept
  <1>8. CASE Uses("ASCII85") /\ ASCII85!Works /\ UNCHANGED context
    <2>1. decoder = "ASCII85" /\ HasBlocks /\ UNCHANGED <<decoder, context>>
      BY ONLY <1>8 DEF Uses, HasBlocks
    <2>2. \/ Decode(ASCIIHex!Start) \/ ReadGoesOn
          \/ ASCII85!ReadChar \/ ASCII85!DecodeBlock
      BY ONLY <1>1, <1>2, <1>6, <1>8 DEF ASCII85!Works
    <2> QED BY ONLY <1>3, <1>5, <2>1, <2>2 DEF Kept
  <1>9. CASE Uses("RunLength") /\ RunLength!Works
    <2>1. decoder = "RunLength" /\ UNCHANGED decoder BY ONLY <1>9 DEF Uses
    <2>2. \/ RunLength!DecodeRuns
          \/ (Decode(RunLength!Working) \/ ReadGoesOn) /\ UNCHANGED context
      BY ONLY <1>1, <1>2, <1>9 DEF RunLength!Works
    <2> QED BY ONLY <1>3, <1>5, <2>1, <2>2 DEF Kept
  <1>10. CASE ClientStep(Client) BY ONLY <1>4, <1>10 DEF ClientStep, Kept
  <1>11. CASE UNCHANGED vars BY <1>11
  <1>12. \/ Uses("ASCIIHex") /\ ASCIIHex!Works /\ UNCHANGED context
         \/ Uses("ASCII85") /\ ASCII85!Works /\ UNCHANGED context
         \/ Uses("RunLength") /\ RunLength!Works
         \/ ClientStep(Client) \/ UNCHANGED vars
    BY DEF DecoderNext, DecoderWorks
  <1> QED BY ONLY <1>7, <1>8, <1>9, <1>10, <1>11, <1>12

-----------------------------------------------------------------------------
(* The steps of a call, around its decoder                                 *)

\* A block begins without characters, of which nothing is decoded.
LEMMA StartIs ==
    /\ ASCIIHex!Start \in Blocks /\ ASCIIHex!Start # Idle /\ RunLength!Working # Idle
    /\ ASCIIHex!Start.chars = <<>> /\ ~ASCIIHex!Start.ended
    /\ <<>> \in Seq(Int) /\ Len(<<>>) = 0 /\ Idle \notin Blocks
    /\ HexBytes(<<>>) = <<>> /\ ASCII85!Bytes(<<>>) = <<>>
  <1>1. <<>> \in Seq(Int) /\ Len(<<>>) = 0 OBVIOUS
  <1>2. HexBytes(<<>>) = <<>> /\ ASCII85!Bytes(<<>>) = <<>> BY <1>1, BytesAre
  <1>3. ASCIIHex!Start.chars = <<>> /\ ASCIIHex!Start.ended = FALSE BY DEF ASCIIHex!Start
  <1>4. ASCIIHex!Start \in Blocks BY ONLY <1>1 DEF ASCIIHex!Start, Blocks
  <1>5. Idle \notin Blocks /\ RunLength!Working # Idle BY ONLY IdleAssumption DEF Blocks
  <1> QED BY ONLY <1>1, <1>2, <1>3, <1>4, <1>5

\* Nothing changes but the call and whether a source is attached.
LEMMA ClientKeeps ==
    ASSUME FiltersInv, Kept, UNCHANGED <<buffer, block, delivered>>,
           block = Idle \/ UNCHANGED <<attached, call>>,
           attached' \in BOOLEAN,
           call' = Idle \/ (call' \in [count : Nat, got : Nat] /\ call'.got < call'.count)
    PROVE  FiltersInv'
  <1> USE DEF Kept, FiltersInv
  <1>1. Types' BY DEF Types, HasBlocks
  <1>2. Working' BY DEF Working, HasBlocks
  <1>3. AtEndOfData' BY DEF AtEndOfData, HasBlocks
  <1>4. Whole' BY DEF Whole
  <1> QED BY <1>1, <1>2, <1>3, <1>4

\* A decoder that is without a source returns as it began.
LEMMA NoSourceKeeps ==
    ASSUME FiltersInv, Kept, NoSource
    PROVE  FiltersInv'
  <1> USE DEF Kept, FiltersInv
  <1>1. /\ block # Idle /\ block' = Idle /\ call' = Idle /\ ~attached
        /\ UNCHANGED <<source, attached, buffer, delivered>>
    BY DEF NoSource, Returns
  <1>2. Types' BY ONLY Types, Kept, <1>1 DEF Types, HasBlocks, Kept
  <1>3. Working' /\ AtEndOfData' BY <1>1 DEF Working, AtEndOfData
  <1>4. PICK s \in Sources : s = source BY DEF Types
  <1>5. PICK b \in Buffers : b = buffer BY DEF Types
  <1>6. HasBlocks => block = ASCIIHex!Start BY <1>1 DEF Working
  <1>7. PICK start : start = ASCIIHex!Start OBVIOUS
  <1>8. start.chars = <<>> /\ ~start.ended /\ start # Idle
    BY ONLY <1>7, StartIs
  <1>9. s.text \in Seq(Int) /\ s.pos \in Nat /\ s.pos <= Len(s.text) BY <1>4 DEF Sources, Types
  <1>10. ASSUME decoder = "ASCIIHex", s.failures = 0
         PROVE  HexAhead(s, b, Idle) = HexAhead(s, b, start) /\ Paired(s, b, Idle)
    <2>1. block = start BY <1>6, <1>7, <1>10 DEF HasBlocks
    <2>2. Paired(s, b, start) BY <1>4, <1>5, <1>10, <2>1 DEF Whole, HexWhole
    <2>3. HexRest(s.text)[0][<<>>] = <<>>
      <3>1. HexRest(s.text)[0][<<>>] = HexBytes(<<>>) BY ONLY <1>9, HexRestIs, StartIs
      <3> QED BY ONLY <3>1, StartIs
    <2>4. b.eod => LeftOf(s) = 0 BY ONLY <1>8, <2>2 DEF Paired
    <2>5. Len(<<>>) # ASCIIHex!PairSize /\ Len(<<>>) % 2 = 0 BY DEF ASCIIHex!PairSize
    <2>6. HexAhead(s, b, Idle) = HexAhead(s, b, start)
      BY ONLY <1>8, <2>3, <2>4, <2>5 DEF HexAhead, BlocksAhead
    <2>7. Paired(s, b, Idle) BY ONLY <1>8, <2>2, <2>5 DEF Paired
    <2> QED BY <2>6, <2>7
  <1>11. ASSUME decoder = "ASCII85" PROVE ASCII85Ahead(s, b, Idle) = ASCII85Ahead(s, b, start)
    <2>1. block = start BY <1>6, <1>7, <1>11 DEF HasBlocks
    <2>2. ~b.eod BY <1>1, <1>5, <1>8, <1>11, <2>1 DEF AtEndOfData
    <2>3. Len(<<>>) # BlockSize BY DecodersAssumption
    <2> QED BY ONLY <1>8, <2>2, <2>3 DEF ASCII85Ahead, BlocksAhead
  <1>12. Whole'
    <2>1. CASE decoder = "ASCIIHex"
      <3>1. HexWhole(s, b, start, delivered)
        BY <1>4, <1>5, <1>6, <1>7, <2>1 DEF Whole, HasBlocks
      <3>2. HexWhole(s, b, Idle, delivered) BY ONLY <1>10, <2>1, <3>1 DEF HexWhole
      <3> QED BY ONLY Kept, <1>1, <1>4, <1>5, <2>1, <3>2 DEF Whole, Kept
    <2>2. CASE decoder = "ASCII85"
      <3>1. ASCII85Whole(s, b, start, delivered)
        BY <1>4, <1>5, <1>6, <1>7, <2>2 DEF Whole, HasBlocks
      <3>2. ASCII85Whole(s, b, Idle, delivered) BY ONLY <1>11, <2>2, <3>1 DEF ASCII85Whole
      <3> QED BY ONLY Kept, <1>1, <1>4, <1>5, <2>2, <3>2 DEF Whole, Kept
    <2>3. CASE decoder = "RunLength" BY ONLY Whole, Kept, <1>1, <2>3 DEF Whole, Kept
    <2> QED BY <2>1, <2>2, <2>3 DEF Types
  <1> QED BY ONLY <1>2, <1>3, <1>12 DEF FiltersInv

\* A sequence is the start of one that goes on behind it, and of itself.
LEMMA StartOf ==
    ASSUME NEW a \in Bytes, NEW t \in Bytes
    PROVE  IsPrefix(a, a \o t) /\ IsPrefix(a, a)
  <1>1. PICK n \in Nat : n = Len(a) BY BytesConcat
  <1>2. PICK w : w = a \o t OBVIOUS
  <1>3. /\ w \in Seq(Symbols) /\ Len(w) = Len(a) + Len(t)
        /\ \A i \in 1 .. Len(a) + Len(t) : w[i] = IF i <= Len(a) THEN a[i] ELSE t[i - Len(a)]
    BY ONLY <1>2, a \in Bytes, t \in Bytes, ConcatProperties DEF Bytes
  <1>4. Len(t) \in Nat BY BytesConcat
  <1>5. \A i \in 1 .. n : w[i] = a[i] /\ w[i] \in Symbols
    BY ONLY <1>1, <1>3, <1>4, a \in Bytes, n \in Nat DEF Bytes
  <1>6. PICK part : part = SubSeq(w, 1, n) OBVIOUS
  <1>7. /\ part \in Seq(Symbols) /\ Len(part) = IF 1 <= n THEN n - 1 + 1 ELSE 0
        /\ \A i \in 1 .. n - 1 + 1 : part[i] = w[1 + i - 1]
    BY ONLY <1>5, <1>6, n \in Nat, SubSeqProperties
  <1>8. Len(part) = n BY ONLY <1>7, n \in Nat
  <1>9. \A i \in 1 .. n : part[i] = a[i] BY ONLY <1>5, <1>7, n \in Nat
  <1>10. part = a BY ONLY <1>1, <1>7, <1>8, <1>9, a \in Bytes, SeqEqual DEF Bytes
  <1>11. SubSeq(a, 1, n) = a BY <1>1, SubSeqFull DEF Bytes
  <1> QED BY ONLY <1>1, <1>2, <1>3, <1>4, <1>6, <1>10, <1>11, n \in Nat DEF IsPrefix

\* What is decoded but not delivered may be moved.
LEMMA WholeMoves ==
    ASSUME NEW s, NEW b, NEW b2, NEW k, NEW c, NEW d, NEW d2,
           b2.eod = b.eod, Got(b2, d2) = Got(b, d)
    PROVE  /\ HexWhole(s, b, k, d) => HexWhole(s, b2, k, d2)
           /\ ASCII85Whole(s, b, k, d) => ASCII85Whole(s, b2, k, d2)
           /\ RunsWhole(s, b, c, d) => RunsWhole(s, b2, c, d2)
  <1>1. HexAhead(s, b2, k) = HexAhead(s, b, k) BY DEF HexAhead, BlocksAhead
  <1>2. ASCII85Ahead(s, b2, k) = ASCII85Ahead(s, b, k) BY DEF ASCII85Ahead, BlocksAhead
  <1>3. RunsAhead(s, b2, c) = RunsAhead(s, b, c) BY DEF RunsAhead
  <1>4. Paired(s, b, k) => Paired(s, b2, k) BY DEF Paired
  <1>5. HexWhole(s, b, k, d) => HexWhole(s, b2, k, d2) BY ONLY Got(b2, d2) = Got(b, d), <1>1, <1>4 DEF HexWhole
  <1>6. ASCII85Whole(s, b, k, d) => ASCII85Whole(s, b2, k, d2)
    BY ONLY Got(b2, d2) = Got(b, d), <1>2 DEF ASCII85Whole
  <1>7. RunsWhole(s, b, c, d) => RunsWhole(s, b2, c, d2)
    BY ONLY Got(b2, d2) = Got(b, d), b2.eod = b.eod, <1>3 DEF RunsWhole
  <1> QED BY <1>5, <1>6, <1>7

\* Bytes are copied from the buffer to the client.
LEMMA CopyKeeps ==
    ASSUME FiltersInv, Kept, Copy
    PROVE  FiltersInv' /\ IsPrefix(delivered, delivered')
  <1> USE DEF Kept, FiltersInv
  <1>1. PICK b \in Buffers : b = buffer BY DEF Types
  <1>2. PICK i \in Nat : i = b.index BY DEF Buffers
  <1>3. PICK data \in Bytes : data = b.data BY DEF Buffers
  <1>4. PICK L \in Nat : L = Len(data) BY BytesConcat
  <1>5. PICK d \in Bytes : d = delivered BY DEF Types
  <1>6. PICK cl \in [count : Nat, got : Nat] : cl = call /\ cl.got < cl.count BY DEF Types, Copy
  <1>7. PICK m \in Nat : m = cl.count - cl.got
    <2>1. cl.count \in Nat /\ cl.got \in Nat OBVIOUS
    <2>2. cl.count - cl.got \in Nat BY ONLY <1>6, <2>1
    <2> QED BY ONLY <2>2
  <1>8. PICK n : n = IF L - i < m THEN L - i ELSE m OBVIOUS
  <1>9. i < L
    <2>1. ~(i >= L) BY ONLY Copy, <1>1, <1>2, <1>3, <1>4 DEF Copy, IsEmpty
    <2> QED BY <2>1
  <1>10. n \in Nat /\ i + n <= L /\ n <= m BY ONLY <1>8, <1>9, i \in Nat, L \in Nat, m \in Nat
  <1>11. PICK part : part = SubSeq(data, i + 1, i + n) OBVIOUS
  <1>12. /\ delivered' = d \o part /\ buffer' = [b EXCEPT !.index = i + n]
         /\ call' = IF n = m THEN Idle ELSE [cl EXCEPT !.got = cl.got + n]
         /\ block = Idle /\ block' = Idle /\ attached' = attached
    BY ONLY Copy, <1>1, <1>2, <1>3, <1>4, <1>5, <1>6, <1>7, <1>8, <1>11 DEF Copy, Copied
  <1>13. PICK b2 : b2 = buffer' OBVIOUS
  <1>14. b2 = [data |-> data, index |-> i + n, eod |-> b.eod] /\ b2 \in Buffers
    BY ONLY <1>2, <1>3, <1>10, <1>12, <1>13, b \in Buffers, data \in Bytes, i \in Nat DEF Buffers
  <1>15a. PICK unread : unread = SubSeq(data, i + n + 1, L) OBVIOUS
  <1>15. part \in Bytes /\ unread \in Bytes /\ part \o unread = SubSeq(data, i + 1, L)
    <2>1. L <= Len(data) BY <1>4
    <2>2. n \in Nat /\ i + n <= L BY <1>10
    <2>3. PICK first : first = i + 1 OBVIOUS
    <2>4. PICK last : last = i + n OBVIOUS
    <2>5. PICK next : next = i + n + 1 OBVIOUS
    <2>6. part = SubSeq(data, first, last) /\ unread = SubSeq(data, next, L)
      BY ONLY <1>11, <1>15a, <2>3, <2>4, <2>5
    <2>7. AreRead(data, i, n, L, first, last, next)
      BY ONLY <2>1, <2>2, <2>3, <2>4, <2>5, data \in Bytes, i \in Nat, L \in Nat DEF AreRead
    <2>8. part \in Bytes /\ unread \in Bytes /\ part \o unread = SubSeq(data, first, L)
      <3>1. IsRead(data, n, L, first, last, next) BY ONLY <2>7, ReadAndUnread
      <3> QED BY ONLY <2>6, <3>1 DEF IsRead
    <2> QED BY ONLY <2>3, <2>8
  <1>16. d \o part \in Bytes BY <1>15, BytesConcat
  <1>17. Got(b2, d \o part) = Got(b, d)
    <2>3. (d \o part) \o unread = d \o (part \o unread)
      <3>1. d \in Bytes /\ part \in Bytes /\ unread \in Bytes BY <1>15
      <3> QED BY ONLY <3>1, GoesOn
    <2>4. Got(b2, d \o part) = (d \o part) \o unread
      <3>1. b2.data = data /\ b2.index = i + n BY <1>14
      <3> QED BY ONLY <1>4, <1>15a, <3>1 DEF Got
    <2>5. Got(b, d) = d \o SubSeq(data, i + 1, L) BY ONLY <1>2, <1>3, <1>4 DEF Got
    <2> QED BY ONLY <1>15, <2>3, <2>4, <2>5
  <1>18. call' = Idle \/ (call' \in [count : Nat, got : Nat] /\ call'.got < call'.count)
    <2>1. CASE n = m BY <1>12, <2>1
    <2>2. CASE n # m
      <3>1. cl.count \in Nat /\ cl.got \in Nat OBVIOUS
      <3>2. call' = [count |-> cl.count, got |-> cl.got + n]
        BY ONLY <1>12, <2>2, cl \in [count : Nat, got : Nat]
      <3>3. cl.got + n < cl.count /\ cl.got + n \in Nat
        BY ONLY <1>7, <1>10, <2>2, <3>1
      <3> QED BY ONLY <3>1, <3>2, <3>3
    <2> QED BY <2>1, <2>2
  <1>19. Types'
    <2>1. buffer' \in Buffers /\ buffer'.index <= Len(buffer'.data) /\ Len(buffer'.data) <= BufferSize
      <3>1. b2.index = i + n /\ b2.data = data BY <1>14
      <3>2. Len(data) <= BufferSize BY <1>1, <1>3 DEF Types
      <3> QED BY ONLY <1>4, <1>10, <1>13, <1>14, <3>1, <3>2
    <2> QED BY ONLY Types, Kept, <1>12, <1>16, <1>18, <2>1 DEF Types, HasBlocks, Kept
  <1>20. Working' /\ AtEndOfData' BY ONLY <1>12 DEF Working, AtEndOfData
  <1>21. Whole'
    <2>1. b2.eod = b.eod BY <1>14
    <2> QED BY ONLY Whole, Kept, WholeMoves, <1>1, <1>5, <1>12, <1>13, <1>17, <2>1 DEF Whole, Kept
  <1>22. IsPrefix(delivered, delivered')
    BY ONLY <1>5, <1>12, <1>15, d \in Bytes, StartOf
  <1> QED BY ONLY <1>19, <1>20, <1>21, <1>22 DEF FiltersInv

\* A decoder begins, when the buffer is empty.
LEMMA DecodeKeeps ==
    ASSUME FiltersInv, Kept, NEW start, Decode(start),
           \/ HasBlocks /\ start = ASCIIHex!Start
           \/ decoder = "RunLength" /\ start = RunLength!Working
    PROVE  FiltersInv'
  <1> USE DEF Kept, FiltersInv
  <1>1. /\ call # Idle /\ block = Idle /\ block' = start /\ buffer.index >= Len(buffer.data)
        /\ ~buffer.eod /\ UNCHANGED <<source, attached, call, delivered>>
        /\ buffer' = [buffer EXCEPT !.data = <<>>, !.index = 0]
    BY DEF Decode, IsEmpty, MayDecode, Cleared
  <1>2. PICK b \in Buffers : b = buffer BY DEF Types
  <1>3. PICK b2 : b2 = buffer' OBVIOUS
  <1>4. b2 = [data |-> <<>>, index |-> 0, eod |-> b.eod] /\ ~b.eod
    BY ONLY <1>1, <1>2, <1>3, b \in Buffers DEF Buffers
  <1>5. <<>> \in Bytes /\ b2.data = <<>> /\ b2.index = 0 /\ b2.eod = b.eod /\ b.eod = FALSE
    BY <1>4, BytesAre, <1>2 DEF Buffers, Bytes
  <1>6. b2 \in Buffers BY ONLY <1>4, <1>5 DEF Buffers
  <1>7. PICK d \in Bytes : d = delivered BY DEF Types
  <1>8. Got(b2, d) = Got(b, d)
    <2>1. SubSeq(b.data, b.index + 1, Len(b.data)) = <<>>
      <3>1. b.data \in Bytes /\ b.index \in Nat /\ b.index >= Len(b.data)
        BY <1>1, <1>2 DEF Buffers
      <3> QED BY <1>5, <3>1, UnreadIs
    <2>2. SubSeq(b2.data, b2.index + 1, Len(b2.data)) = <<>>
      <3>1. b2.index >= Len(b2.data) BY ONLY <1>5
      <3> QED BY ONLY <1>5, <3>1, UnreadIs
    <2> QED BY ONLY <2>1, <2>2 DEF Got
  <1>9. Types'
    <2>1. buffer' \in Buffers /\ buffer'.index <= Len(buffer'.data) /\ Len(buffer'.data) <= BufferSize
      <3>1. 0 <= BufferSize BY FilterAssumption
      <3> QED BY ONLY <1>3, <1>5, <1>6, <3>1
    <2>2. HasBlocks => block' \in Blocks BY <1>1, StartIs DEF HasBlocks
    <2>3. decoder = "RunLength" => block' = RunLength!Working BY <1>1 DEF HasBlocks
    <2> QED BY ONLY Types, Kept, <1>1, <2>1, <2>2, <2>3 DEF Types, HasBlocks, Kept
  <1>10. Working'
    <2>1. call' # Idle /\ buffer'.index = 0 /\ buffer'.data = <<>> BY <1>1, <1>3, <1>5
    <2>2. HasBlocks => block' = ASCIIHex!Start BY <1>1 DEF HasBlocks
    <2>3. /\ Len(<<>>) < BufferSize /\ Len(<<>>) <= ASCIIHex!PairSize /\ Len(<<>>) <= BlockSize
      BY FilterAssumption, DecodersAssumption DEF ASCIIHex!PairSize
    <2>4. HasBlocks => Len(block'.chars) = Len(<<>>) BY ONLY <2>2, StartIs
    <2> QED BY ONLY Kept, <2>1, <2>2, <2>3, <2>4 DEF Working, HasBlocks, Kept
  <1>11. AtEndOfData'
    <2>1. buffer'.eod = FALSE BY <1>3, <1>5
    <2>2. HasBlocks => ~block'.ended BY <1>1, StartIs DEF HasBlocks
    <2> QED BY ONLY Kept, <2>1, <2>2 DEF AtEndOfData, HasBlocks, Kept
  <1>12. Whole'
    <2>1. CASE decoder = "ASCIIHex"
      <3>1. HexWhole(source, b2, Idle, d) BY <1>1, <1>2, <1>5, <1>7, <1>8, <2>1, WholeMoves DEF Whole
      <3>2. start = ASCIIHex!Start BY <2>1 DEF HasBlocks
      <3>3. Len(<<>>) # ASCIIHex!PairSize /\ Len(<<>>) % 2 = 0 BY DEF ASCIIHex!PairSize
      <3>4. Paired(source, b2, Idle) => Paired(source, b2, start)
        BY ONLY <1>5, <3>2, <3>3, StartIs DEF Paired
      <3>5. HexAhead(source, b2, Idle) = HexAhead(source, b2, start)
        BY ONLY <1>5, <3>2, <3>3, StartIs DEF HexAhead, BlocksAhead
      <3>6. HexWhole(source, b2, start, d) BY ONLY <3>1, <3>4, <3>5 DEF HexWhole
      <3> QED BY ONLY Kept, <1>1, <1>3, <1>7, <2>1, <3>6 DEF Whole, Kept
    <2>2. CASE decoder = "ASCII85"
      <3>1. ASCII85Whole(source, b2, Idle, d) BY <1>1, <1>2, <1>5, <1>7, <1>8, <2>2, WholeMoves DEF Whole
      <3>2. start = ASCIIHex!Start BY <2>2 DEF HasBlocks
      <3>3. Len(<<>>) # BlockSize BY DecodersAssumption
      <3>4. ASCII85Ahead(source, b2, Idle) = ASCII85Ahead(source, b2, start)
        BY ONLY <1>5, <3>2, <3>3, StartIs DEF ASCII85Ahead, BlocksAhead
      <3>5. ASCII85Whole(source, b2, start, d) BY ONLY <3>1, <3>4 DEF ASCII85Whole
      <3> QED BY ONLY Kept, <1>1, <1>3, <1>7, <2>2, <3>5 DEF Whole, Kept
    <2>3. CASE decoder = "RunLength"
      <3>1. RunsWhole(source, b2, context, d) BY <1>2, <1>5, <1>7, <1>8, <2>3, WholeMoves DEF Whole
      <3> QED BY ONLY Kept, <1>1, <1>3, <1>7, <2>3, <3>1 DEF Whole, Kept
    <2> QED BY <2>1, <2>2, <2>3 DEF Types
  <1> QED BY ONLY <1>9, <1>10, <1>11, <1>12 DEF FiltersInv

-----------------------------------------------------------------------------
(* The hexadecimal decoder                                                 *)

\* Characters of the source are read.
LEMMA Advance ==
    ASSUME NEW s \in Sources, NEW n \in Nat, s.pos + n <= Len(s.text),
           NEW t, t = [s EXCEPT !.pos = s.pos + n]
    PROVE  /\ t \in Sources /\ t.text = s.text /\ t.contents = s.contents
           /\ t.failures = s.failures /\ t.pos = s.pos + n /\ t.pos <= Len(t.text)
           /\ LeftOf(s) \in 0 .. Len(s.text) /\ LeftOf(t) = LeftOf(s) - n
           /\ n > 0 => /\ LeftOf(s) \in 1 .. Len(s.text)
                       /\ CharAt(s.text, LeftOf(s)) = s.text[s.pos + 1]
                       /\ s.text[s.pos + 1] \in Int
  <1>1. PICK x \in Seq(Int) : x = s.text BY DEF Sources
  <1>2. PICK p \in Nat : p = s.pos BY DEF Sources
  <1>3. PICK L \in Nat : L = Len(x) OBVIOUS
  <1>4. t \in Sources /\ t.text = x /\ t.contents = s.contents /\ t.failures = s.failures /\ t.pos = p + n
    BY <1>1, <1>2 DEF Sources
  <1>5. LeftOf(s) = L - p /\ LeftOf(t) = L - (p + n) BY <1>1, <1>2, <1>3, <1>4 DEF LeftOf
  <1>6. p + n <= L BY <1>1, <1>2, <1>3
  <1>7. LeftOf(s) \in 0 .. L /\ LeftOf(t) = LeftOf(s) - n
    BY ONLY <1>5, <1>6, p \in Nat, n \in Nat, L \in Nat
  <1>8. ASSUME n > 0
        PROVE  LeftOf(s) \in 1 .. L /\ CharAt(x, LeftOf(s)) = x[p + 1] /\ x[p + 1] \in Int
    <2>1. p + 1 \in 1 .. L /\ L - (L - p) + 1 = p + 1 /\ L - p \in 1 .. L BY <1>6, <1>8
    <2>2. x[p + 1] \in Int BY ONLY <1>3, <2>1, x \in Seq(Int)
    <2> QED BY ONLY <1>3, <1>5, <2>1, <2>2 DEF CharAt
  <1> QED BY ONLY <1>1, <1>2, <1>3, <1>4, <1>6, <1>7, <1>8

\* Of the characters read so far, one more may be a digit.
LEMMA DigitsGrow ==
    ASSUME NEW text, NEW p \in Nat
    PROVE  /\ Cardinality(Digits(text, p)) \in Nat
           /\ Cardinality(Digits(text, p + 1)) = Cardinality(Digits(text, p))
                  + (IF text[p + 1] = ASCIIHex!White THEN 0 ELSE 1)
  <1>1. IsFiniteSet(Digits(text, p))
    <2>1. Digits(text, p) \subseteq 1 .. p BY DEF Digits
    <2>2. IsFiniteSet(1 .. p) BY FS_Interval
    <2> QED BY <2>1, <2>2, FS_Subset
  <1>2. Cardinality(Digits(text, p)) \in Nat BY <1>1, FS_CardinalityType
  <1>3. CASE text[p + 1] = ASCIIHex!White
    <2>1. Digits(text, p + 1) = Digits(text, p)
      <3>1. \A j \in Int : j \in 1 .. p + 1 <=> j \in 1 .. p \/ j = p + 1 OBVIOUS
      <3>2. Digits(text, p + 1) \subseteq Int /\ Digits(text, p) \subseteq Int BY DEF Digits
      <3> QED BY <1>3, <3>1, <3>2 DEF Digits
    <2> QED BY <1>2, <1>3, <2>1
  <1>4. CASE text[p + 1] # ASCIIHex!White
    <2>1. Digits(text, p + 1) = Digits(text, p) \cup {p + 1} /\ p + 1 \notin Digits(text, p)
      <3>1. \A j \in Int : j \in 1 .. p + 1 <=> j \in 1 .. p \/ j = p + 1 OBVIOUS
      <3>2. Digits(text, p + 1) \subseteq Int /\ Digits(text, p) \subseteq Int BY DEF Digits
      <3>3. p + 1 \notin 1 .. p OBVIOUS
      <3> QED BY <1>4, <3>1, <3>2, <3>3 DEF Digits
    <2>2. Cardinality(Digits(text, p) \cup {p + 1}) = Cardinality(Digits(text, p)) + 1
      BY ONLY <1>1, <2>1, FS_AddElement
    <2>3. Cardinality(Digits(text, p + 1)) = Cardinality(Digits(text, p)) + 1 BY ONLY <2>1, <2>2
    <2> QED BY ONLY <1>2, <1>4, <2>3
  <1> QED BY <1>2, <1>3, <1>4

\* A decoder at work on a block of hexadecimal digits.
HexAtWork(s, b, k, d) ==
    /\ s \in Sources /\ s.pos <= Len(s.text) /\ s.failures = 0
    /\ b \in Buffers /\ b.index = 0 /\ d \in Bytes
    /\ k \in Blocks /\ Len(k.chars) <= ASCIIHex!PairSize
    /\ HexWhole(s, b, k, d)

\* What is unread while it works.
LEMMA GotAtWork ==
    ASSUME NEW b \in Buffers, b.index = 0, NEW d
    PROVE  Got(b, d) = d \o b.data
  <1>1. b.data \in Bytes BY DEF Buffers
  <1>2. SubSeq(b.data, 0 + 1, Len(b.data)) = b.data BY ONLY <1>1, UnreadIs
  <1> QED BY ONLY <1>2, b.index = 0 DEF Got

\* The source is at its end.
LEMMA HexReadsEnd ==
    ASSUME NEW s, NEW b, NEW k, NEW d, HexAtWork(s, b, k, d),
           ~k.ended, Len(k.chars) < ASCIIHex!PairSize, LeftOf(s) = 0
    PROVE  HexWhole(s, [b EXCEPT !.eod = TRUE], [k EXCEPT !.ended = TRUE], d)
  <1> USE DEF HexAtWork
  <1>1. PICK b2 : b2 = [b EXCEPT !.eod = TRUE] OBVIOUS
  <1>2. PICK k2 : k2 = [k EXCEPT !.ended = TRUE] OBVIOUS
  <1>3. b2.eod = TRUE /\ b2.data = b.data /\ b2.index = b.index BY ONLY <1>1, HexAtWork(s, b, k, d) DEF Buffers, HexAtWork
  <1>4. k2 \in Blocks /\ k2.ended = TRUE /\ k2.chars = k.chars /\ k.chars \in Seq(Int)
    BY ONLY <1>2, HexAtWork(s, b, k, d) DEF Blocks, HexAtWork
  <1>5. k # Idle /\ k2 # Idle BY <1>4, StartIs
  <1>6. s.text \in Seq(Int) BY DEF Sources
  <1>7. HexRest(s.text)[0][k.chars] = HexBytes(k.chars) BY ONLY <1>4, <1>6, HexRestIs
  <1>8. Len(k.chars) # ASCIIHex!PairSize
    <2>1. PICK q \in Nat : q = Len(k.chars) BY ONLY <1>4, LenProperties
    <2> QED BY ONLY <2>1, q \in Nat, Len(k.chars) < ASCIIHex!PairSize DEF ASCIIHex!PairSize
  <1>9. HexAhead(s, b, k) = HexBytes(k.chars)
    BY ONLY <1>5, <1>7, <1>8, ~k.ended, LeftOf(s) = 0 DEF HexAhead, BlocksAhead
  <1>10. HexAhead(s, b2, k2) = HexBytes(k.chars) BY ONLY <1>4, <1>5 DEF HexAhead, BlocksAhead
  <1>11. Got(b2, d) = Got(b, d) BY ONLY <1>3 DEF Got
  <1>12. Paired(s, b2, k2) BY ONLY <1>3, <1>4, LeftOf(s) = 0 DEF Paired
  <1> QED BY <1>1, <1>2, <1>9, <1>10, <1>11, <1>12 DEF HexWhole

\* A character is read.
LEMMA HexReadsChar ==
    ASSUME NEW s, NEW b, NEW k, NEW d, HexAtWork(s, b, k, d),
           ~k.ended, Len(k.chars) < ASCIIHex!PairSize, LeftOf(s) > 0,
           NEW char, char = s.text[s.pos + 1],
           NEW t, t = [s EXCEPT !.pos = s.pos + 1],
           NEW b2, b2 = IF char = ASCIIHex!EndMarker THEN [b EXCEPT !.eod = TRUE] ELSE b,
           NEW k2, k2 = IF char = ASCIIHex!White THEN k
                        ELSE IF char = ASCIIHex!EndMarker THEN [k EXCEPT !.ended = TRUE]
                        ELSE [k EXCEPT !.chars = Append(k.chars, char)]
    PROVE  HexWhole(t, b2, k2, d)
  <1> USE DEF HexAtWork
  <1>1. PICK text \in Seq(Int) : text = s.text BY DEF Sources
  <1>2. PICK p \in Nat : p = s.pos BY DEF Sources
  <1>3. PICK n : n = LeftOf(s) OBVIOUS
  <1>4. p + 1 <= Len(text)
    <2>1. Len(text) - p > 0 /\ Len(text) \in Nat BY <1>1, <1>2 DEF LeftOf
    <2> QED BY ONLY <2>1, p \in Nat
  <1>5. /\ t \in Sources /\ t.text = text /\ t.contents = s.contents
        /\ t.failures = 0 /\ t.pos = p + 1 /\ LeftOf(t) = n - 1
        /\ n \in 1 .. Len(text) /\ CharAt(text, n) = char /\ char \in Int
    BY <1>1, <1>2, <1>3, <1>4, Advance
  <1>6. PICK chars \in Seq(Int) : chars = k.chars BY DEF Blocks
  <1>7. PICK q \in {0, 1} : q = Len(chars) /\ q # ASCIIHex!PairSize
    <2>1. PICK q \in Nat : q = Len(chars) OBVIOUS
    <2>2. q < 2 BY ONLY <1>6, <2>1, Len(k.chars) < ASCIIHex!PairSize DEF ASCIIHex!PairSize
    <2>3. q \in {0, 1} BY ONLY <2>2, q \in Nat
    <2> QED BY ONLY <2>1, <2>2, <2>3, q \in Nat DEF ASCIIHex!PairSize
  <1>8. PICK rest : rest = HexRest(text) OBVIOUS
  <1>9. rest[n][chars] = HexNext(char, rest[n - 1], chars)
    BY ONLY <1>5, <1>8, text \in Seq(Int), chars \in Seq(Int), HexRestIs
  <1>10. k # Idle BY StartIs
  <1>11. HexAhead(s, b, k) = rest[n][chars]
    <2>1. Len(chars) # ASCIIHex!PairSize BY ONLY <1>7
    <2> QED BY ONLY <1>1, <1>3, <1>6, <1>8, <1>10, <2>1, ~k.ended DEF HexAhead, BlocksAhead
  <1>12. Got(b, d) \o rest[n][chars] = s.contents /\ Paired(s, b, k) /\ HexEnds(text)
    BY <1>1, <1>11 DEF HexWhole
  <1>13. ~b.eod
    <2>1. LeftOf(s) # 0 BY ONLY <1>3, <1>5
    <2> QED BY ONLY <1>10, <1>12, <2>1, ~k.ended DEF Paired
  <1>14. /\ \A i \in 1 .. p : text[i] # ASCIIHex!EndMarker
         /\ Cardinality(Digits(text, p)) % 2 = Len(chars) % 2
    BY ONLY <1>1, <1>2, <1>6, <1>10, <1>12, <1>13 DEF Paired
  <1>15. PICK m \in Nat : m = Cardinality(Digits(text, p)) BY DigitsGrow
  <1>16. Cardinality(Digits(text, p + 1)) = m + (IF char = ASCIIHex!White THEN 0 ELSE 1)
    BY <1>1, <1>2, <1>15, DigitsGrow
  <1>17. m % 2 = q
    <2>1. m % 2 = q % 2 BY ONLY <1>7, <1>14, <1>15
    <2> QED BY ONLY <2>1, q \in {0, 1}
  <1>18. \A i \in 1 .. p + 1 : i \in 1 .. p \/ i = p + 1 OBVIOUS
  <1>19. ASSUME NEW b3, b3.data = b.data, b3.index = b.index, NEW k3, Paired(t, b3, k3),
                HexAhead(t, b3, k3) = rest[n][chars]
         PROVE  HexWhole(t, b3, k3, d)
    <2>1. Got(b3, d) = Got(b, d) BY ONLY <1>19 DEF Got
    <2> QED BY ONLY <1>5, <1>12, <1>19, <2>1 DEF HexWhole
  <1>20. CASE char = ASCIIHex!White
    <2>1. char # ASCIIHex!EndMarker BY ONLY <1>20 DEF ASCIIHex!White, ASCIIHex!EndMarker
    <2>2. b2 = b /\ k2 = k BY ONLY <1>20, <2>1, b2 = IF char = ASCIIHex!EndMarker THEN [b EXCEPT !.eod = TRUE] ELSE b, k2 = IF char = ASCIIHex!White THEN k
                        ELSE IF char = ASCIIHex!EndMarker THEN [k EXCEPT !.ended = TRUE]
                        ELSE [k EXCEPT !.chars = Append(k.chars, char)]
    <2>3. rest[n][chars] = rest[n - 1][chars] BY ONLY <1>9, <1>20, <2>1 DEF HexNext
    <2>4. HexAhead(t, b, k) = rest[n - 1][chars]
      <3>1. Len(chars) # ASCIIHex!PairSize BY ONLY <1>7
      <3> QED BY ONLY <1>5, <1>6, <1>8, <1>10, <3>1, ~k.ended DEF HexAhead, BlocksAhead
    <2>5. Paired(t, b, k)
      <3>1. \A i \in 1 .. p + 1 : text[i] # ASCIIHex!EndMarker
        BY <1>1, <1>2, <1>14, <1>18, <2>1
      <3>2. Cardinality(Digits(text, p + 1)) % 2 = Len(chars) % 2
        BY ONLY <1>14, <1>15, <1>16, <1>20, m \in Nat
      <3> QED BY ONLY <1>5, <1>6, <1>10, <1>13, <3>1, <3>2 DEF Paired
    <2> QED BY ONLY <1>19, <2>2, <2>3, <2>4, <2>5
  <1>21. CASE char = ASCIIHex!EndMarker
    <2>1. char # ASCIIHex!White BY ONLY <1>21 DEF ASCIIHex!White, ASCIIHex!EndMarker
    <2>2. b2 = [b EXCEPT !.eod = TRUE] /\ k2 = [k EXCEPT !.ended = TRUE] BY <1>21, <2>1
    <2>3. b2.eod = TRUE /\ b2.data = b.data /\ b2.index = b.index
      BY ONLY <2>2, HexAtWork(s, b, k, d) DEF Buffers, HexAtWork
    <2>4. k2 \in Blocks /\ k2.ended = TRUE /\ k2.chars = chars
      BY ONLY <1>6, <2>2, HexAtWork(s, b, k, d) DEF Blocks, HexAtWork
    <2>5. k2 # Idle BY ONLY <2>4, StartIs
    <2>6. rest[n][chars] = HexBytes(chars) BY ONLY <1>9, <1>21 DEF HexNext
    <2>7. HexAhead(t, b2, k2) = HexBytes(chars) BY ONLY <2>4, <2>5 DEF HexAhead, BlocksAhead
    <2>8. Paired(t, b2, k2)
      <3>1. LeftOf(t) = 0 \/ chars = <<>>
        <4>1. PICK i : i = p + 1 OBVIOUS
        <4>2. i \in DOMAIN text /\ i - 1 = p /\ text[i] = char
          <5>1. char = text[p + 1] BY <1>1, <1>2
          <5>2. p + 1 \in DOMAIN text BY <1>4
          <5> QED BY ONLY <4>1, <5>1, <5>2, p \in Nat
        <4>3. i = Len(text) \/ Cardinality({j \in 1 .. i - 1 : text[j] # ASCIIHex!White}) % 2 = 0
          BY ONLY <1>12, <1>14, <1>21, <4>2 DEF HexEnds
        <4>4. i = Len(text) \/ m % 2 = 0 BY ONLY <1>15, <4>2, <4>3 DEF Digits
        <4>5. CASE i = Len(text)
          <5>1. LeftOf(t) = Len(text) - (p + 1) BY ONLY <1>5 DEF LeftOf
          <5>2. Len(text) - (p + 1) = 0 BY ONLY <4>1, <4>5, p \in Nat
          <5> QED BY <5>1, <5>2
        <4>6. CASE m % 2 = 0
          <5>1. Len(chars) = 0 BY ONLY <1>7, <1>17, <4>6
          <5> QED BY ONLY <5>1, chars \in Seq(Int), EmptySeq
        <4> QED BY <4>4, <4>5, <4>6
      <3> QED BY ONLY <2>3, <2>4, <3>1 DEF Paired
    <2> QED BY ONLY <1>19, <2>3, <2>6, <2>7, <2>8
  <1>22. CASE char # ASCIIHex!White /\ char # ASCIIHex!EndMarker
    <2>1. b2 = b /\ k2 = [k EXCEPT !.chars = Append(k.chars, char)] BY <1>22
    <2>2. PICK group : group = Append(chars, char) OBVIOUS
    <2>3. group \in Seq(Int) /\ Len(group) = Len(chars) + 1 BY ONLY <1>5, <2>2, chars \in Seq(Int)
    <2>4. k2 \in Blocks /\ k2.ended = k.ended /\ k2.chars = group
      BY ONLY <1>6, <2>1, <2>2, <2>3, HexAtWork(s, b, k, d) DEF Blocks, HexAtWork
    <2>5. k2 # Idle BY ONLY <2>4, StartIs
    <2>6. rest[n][chars] = IF Len(group) = ASCIIHex!PairSize THEN HexBytes(group) \o rest[n - 1][<<>>]
                           ELSE rest[n - 1][group]
      BY ONLY <1>9, <1>22, <2>2 DEF HexNext
    <2>7. HexAhead(t, b2, k2) = rest[n][chars]
      BY ONLY <1>5, <1>8, <2>4, <2>5, <2>6, ~k.ended DEF HexAhead, BlocksAhead
    <2>8. Paired(t, b2, k2)
      <3>1. \A i \in 1 .. p + 1 : text[i] # ASCIIHex!EndMarker
        BY <1>1, <1>2, <1>14, <1>18, <1>22
      <3>2. (m + 1) % 2 = Len(group) % 2
        <4>1. (m + 1) % 2 = (q + 1) % 2 BY ONLY <1>17, m \in Nat, q \in {0, 1}
        <4> QED BY ONLY <1>7, <2>3, <4>1
      <3>3. Cardinality(Digits(text, p + 1)) % 2 = Len(group) % 2
        BY ONLY <1>16, <1>22, <3>2
      <3> QED BY ONLY <1>5, <1>13, <2>1, <2>4, <2>5, <3>1, <3>3 DEF Paired
    <2> QED BY ONLY <1>19, <2>1, <2>7, <2>8
  <1> QED BY <1>20, <1>21, <1>22

\* A block without bytes is passed over.
LEMMA HexPassesOver ==
    ASSUME NEW s, NEW b, NEW k, NEW d, HexAtWork(s, b, k, d),
           k.ended \/ Len(k.chars) = ASCIIHex!PairSize, k.ended => b.eod,
           HexBytes(k.chars) = <<>>
    PROVE  HexWhole(s, b, Idle, d)
  <1> USE DEF HexAtWork
  <1>1. k # Idle BY StartIs
  <1>2. PICK rest : rest = HexRest(s.text) OBVIOUS
  <1>3. s.text \in Seq(Int) /\ LeftOf(s) \in 0 .. Len(s.text)
    <2>1. s.text \in Seq(Int) BY DEF Sources
    <2>2. LeftOf(s) \in 0 .. Len(s.text)
      <3>1. PICK p \in Nat : p = s.pos BY DEF Sources
      <3>2. PICK L \in Nat : L = Len(s.text) BY <2>1
      <3> QED BY <3>1, <3>2 DEF LeftOf
    <2> QED BY <2>1, <2>2
  <1>4. PICK next : next = rest[LeftOf(s)][<<>>] OBVIOUS
  <1>5. next \in Bytes /\ (LeftOf(s) = 0 => next = <<>>)
    <2>1. rest \in [0 .. Len(s.text) -> Rests] /\ rest[0][<<>>] = <<>>
      BY ONLY <1>2, <1>3, HexRestIs, StartIs
    <2>2. rest[LeftOf(s)] \in Rests BY ONLY <1>3, <2>1
    <2> QED BY ONLY <1>4, <2>1, <2>2, StartIs DEF Rests
  <1>6. <<>> \o next = next BY ONLY <1>5, BytesConcat
  <1>7. Paired(s, b, k) BY DEF HexWhole
  <1>8. HexAhead(s, b, Idle) = HexAhead(s, b, k)
    <2>1. CASE k.ended
      <3>1. HexAhead(s, b, k) = <<>>
        BY ONLY <1>1, <2>1, HexBytes(k.chars) = <<>> DEF HexAhead, BlocksAhead
      <3>2. HexAhead(s, b, Idle) = <<>>
        BY ONLY <2>1, k.ended => b.eod DEF HexAhead, BlocksAhead
      <3> QED BY <3>1, <3>2
    <2>2. CASE ~k.ended
      <3>1. HexAhead(s, b, k) = <<>> \o next
        BY ONLY <1>1, <1>2, <1>4, <2>2, k.ended \/ Len(k.chars) = ASCIIHex!PairSize,
                HexBytes(k.chars) = <<>> DEF HexAhead, BlocksAhead
      <3>2. b.eod => LeftOf(s) = 0 BY ONLY <1>1, <1>7, <2>2 DEF Paired
      <3>3. HexAhead(s, b, Idle) = next
        BY ONLY <1>2, <1>4, <1>5, <3>2 DEF HexAhead, BlocksAhead
      <3> QED BY ONLY <1>6, <3>1, <3>3
    <2> QED BY <2>1, <2>2
  <1>9. Paired(s, b, Idle)
    <2>1. ~b.eod => Len(k.chars) = ASCIIHex!PairSize
      BY ONLY k.ended \/ Len(k.chars) = ASCIIHex!PairSize, k.ended => b.eod
    <2>2. ASCIIHex!PairSize % 2 = 0 BY DEF ASCIIHex!PairSize
    <2>3. ~b.eod => /\ \A i \in 1 .. s.pos : s.text[i] # ASCIIHex!EndMarker
                    /\ Cardinality(Digits(s.text, s.pos)) % 2 = 0
      BY ONLY <1>1, <1>7, <2>1, <2>2 DEF Paired
    <2> QED BY ONLY <2>3 DEF Paired
  <1> QED BY ONLY HexAtWork(s, b, k, d), <1>8, <1>9 DEF HexWhole, HexAtWork

\* The byte of a block is put into the buffer.
LEMMA HexPutsByte ==
    ASSUME NEW s, NEW b, NEW k, NEW d, HexAtWork(s, b, k, d),
           k.ended \/ Len(k.chars) = ASCIIHex!PairSize, k.ended => b.eod,
           HexBytes(k.chars) # <<>>,
           NEW b2 \in Buffers, b2.data = b.data \o HexBytes(k.chars), b2.index = 0, b2.eod = b.eod
    PROVE  HexWhole(s, b2, Idle, d) /\ HexWhole(s, b2, ASCIIHex!Start, d)
  <1> USE DEF HexAtWork
  <1>1. k # Idle BY StartIs
  <1>2. PICK rest : rest = HexRest(s.text) OBVIOUS
  <1>3. s.text \in Seq(Int) /\ LeftOf(s) \in 0 .. Len(s.text)
    <2>1. s.text \in Seq(Int) BY DEF Sources
    <2>2. LeftOf(s) \in 0 .. Len(s.text)
      <3>1. PICK p \in Nat : p = s.pos BY DEF Sources
      <3>2. PICK L \in Nat : L = Len(s.text) BY <2>1
      <3> QED BY <3>1, <3>2 DEF LeftOf
    <2> QED BY <2>1, <2>2
  <1>4. PICK next : next = rest[LeftOf(s)][<<>>] OBVIOUS
  <1>5. next \in Bytes /\ (LeftOf(s) = 0 => next = <<>>)
    <2>1. rest \in [0 .. Len(s.text) -> Rests] /\ rest[0][<<>>] = <<>>
      BY ONLY <1>2, <1>3, HexRestIs, StartIs
    <2>2. rest[LeftOf(s)] \in Rests BY ONLY <1>3, <2>1
    <2> QED BY ONLY <1>4, <2>1, <2>2, StartIs DEF Rests
  <1>6. PICK byte : byte = HexBytes(k.chars) OBVIOUS
  <1>7. byte \in Bytes /\ byte \o <<>> = byte /\ byte # <<>>
    <2>1. k.chars \in Seq(Int) BY DEF Blocks
    <2>2. byte \in Bytes BY ONLY <1>6, <2>1, BytesAre
    <2> QED BY ONLY <1>6, <2>2, BytesConcat, HexBytes(k.chars) # <<>>
  <1>8. Paired(s, b, k) BY DEF HexWhole
  <1>9. k.chars # <<>> BY ONLY StartIs, HexBytes(k.chars) # <<>>
  <1>10. b.eod => k.ended /\ LeftOf(s) = 0
    BY ONLY <1>1, <1>8, <1>9 DEF Paired
  <1>11. PICK ahead : ahead = IF b.eod THEN <<>> ELSE next OBVIOUS
  <1>12. HexAhead(s, b, k) = byte \o ahead
    <2>1. k.ended <=> b.eod BY ONLY <1>10, k.ended => b.eod
    <2> QED BY ONLY <1>1, <1>2, <1>4, <1>6, <1>7, <1>11, <2>1,
                    k.ended \/ Len(k.chars) = ASCIIHex!PairSize DEF HexAhead, BlocksAhead
  <1>13. HexAhead(s, b2, Idle) = ahead
    BY ONLY <1>2, <1>4, <1>11, b2.eod = b.eod DEF HexAhead, BlocksAhead
  <1>14. HexAhead(s, b2, ASCIIHex!Start) = ahead
    <2>1. Len(<<>>) # ASCIIHex!PairSize BY DEF ASCIIHex!PairSize
    <2>2. HexAhead(s, b2, ASCIIHex!Start) = next
      BY ONLY <1>2, <1>4, <2>1, StartIs DEF HexAhead, BlocksAhead
    <2>3. next = ahead BY ONLY <1>5, <1>10, <1>11
    <2> QED BY <2>2, <2>3
  <1>15. ahead \in Bytes BY ONLY <1>5, <1>11, BytesConcat
  <1>16. Got(b2, d) \o ahead = s.contents
    <2>1. PICK data \in Bytes : data = b.data BY DEF Buffers
    <2>2. Got(b, d) = d \o data BY <2>1, GotAtWork
    <2>3. Got(b2, d) = d \o (data \o byte) BY <1>6, <2>1, GotAtWork
    <2>4. d \o (data \o byte) = (d \o data) \o byte
      <3>1. d \in Bytes /\ data \in Bytes /\ byte \in Bytes BY <1>7
      <3> QED BY ONLY <3>1, GoesOn
    <2>5. d \o data \in Bytes BY BytesConcat
    <2>6. ((d \o data) \o byte) \o ahead = (d \o data) \o (byte \o ahead)
      BY ONLY <1>7, <1>15, <2>5, GoesOn
    <2>7. Got(b, d) \o (byte \o ahead) = s.contents
      BY ONLY HexAtWork(s, b, k, d), <1>12 DEF HexAtWork, HexWhole
    <2> QED BY ONLY <2>2, <2>3, <2>4, <2>6, <2>7
  <1>17. Paired(s, b2, Idle) /\ Paired(s, b2, ASCIIHex!Start)
    <2>1. ~b.eod => Len(k.chars) = ASCIIHex!PairSize
      BY ONLY k.ended \/ Len(k.chars) = ASCIIHex!PairSize, k.ended => b.eod
    <2>2. ASCIIHex!PairSize % 2 = 0 /\ Len(<<>>) % 2 = 0 BY DEF ASCIIHex!PairSize
    <2>3. ~b.eod => /\ \A i \in 1 .. s.pos : s.text[i] # ASCIIHex!EndMarker
                    /\ Cardinality(Digits(s.text, s.pos)) % 2 = 0
      BY ONLY <1>1, <1>8, <2>1, <2>2 DEF Paired
    <2> QED BY ONLY <1>10, <2>2, <2>3, StartIs, b2.eod = b.eod DEF Paired
  <1> QED BY ONLY HexAtWork(s, b, k, d), <1>13, <1>14, <1>16, <1>17 DEF HexWhole, HexAtWork

\* What a step of a decoder of blocks leaves.
BlockGoesOn(b2, k2) ==
    /\ k2 \in Blocks /\ (k2.ended => b2.eod)
    /\ decoder = "ASCIIHex" => Len(b2.data) < BufferSize /\ Len(k2.chars) <= ASCIIHex!PairSize
    /\ decoder = "ASCII85" =>
          b2.data = <<>> /\ Len(k2.chars) <= BlockSize /\ (b2.eod => k2.ended)

\* A step of a decoder of blocks keeps what Types, Working and AtEndOfData say.
LEMMA BlocksKeep ==
    ASSUME FiltersInv, HasBlocks, attached, block # Idle,
           UNCHANGED <<decoder, attached, delivered>>,
           source' \in Sources, source'.pos <= Len(source'.text),
           buffer' \in Buffers, buffer'.index = 0, Len(buffer'.data) <= BufferSize,
           \/ block' = Idle /\ call' \in {Idle, call}
           \/ BlockGoesOn(buffer', block') /\ call' = call
    PROVE  Types' /\ Working' /\ AtEndOfData'
  <1>1. Types /\ Working BY DEF FiltersInv
  <1>2. decoder # "RunLength" /\ HasBlocks' /\ decoder' = decoder BY DEF HasBlocks
  <1>3. call # Idle BY ONLY <1>1, block # Idle DEF Working
  <1>4. 0 <= Len(buffer'.data)
    <2>1. buffer'.data \in Bytes BY DEF Buffers
    <2>2. Len(buffer'.data) \in Nat BY ONLY <2>1, BytesConcat
    <2> QED BY ONLY <2>2
  <1>5. Types'
    <2>1. block' = Idle \/ block' \in Blocks BY DEF BlockGoesOn
    <2>2. call' = Idle \/ (call' \in [count : Nat, got : Nat] /\ call'.got < call'.count)
      BY ONLY <1>1, \/ block' = Idle /\ call' \in {Idle, call}
                    \/ BlockGoesOn(buffer', block') /\ call' = call DEF Types
    <2> QED BY ONLY <1>1, <1>2, <1>4, <2>1, <2>2, UNCHANGED <<decoder, attached, delivered>>,
                    source' \in Sources, source'.pos <= Len(source'.text),
                    buffer' \in Buffers, buffer'.index = 0, Len(buffer'.data) <= BufferSize
               DEF Types
  <1>6. block' # Idle => BlockGoesOn(buffer', block') /\ call' # Idle BY <1>3
  <1>7. Working'
    BY ONLY <1>2, <1>6, attached, UNCHANGED <<decoder, attached, delivered>>, buffer'.index = 0
       DEF Working, BlockGoesOn
  <1>8. AtEndOfData' BY ONLY <1>2, <1>6 DEF AtEndOfData, BlockGoesOn
  <1> QED BY <1>5, <1>7, <1>8

\* What a step does to what a client sees, but for what it copies to it.
Unseen ==
    /\ UNCHANGED delivered /\ (buffer.eod => buffer'.eod)
    /\ source'.failures = 0 => source.failures = 0
    /\ source'.contents = source.contents

\* A step of the hexadecimal decoder.
LEMMA HexKeeps ==
    ASSUME FiltersInv, decoder = "ASCIIHex", UNCHANGED <<decoder, context>>,
           ASCIIHex!ReadChar \/ ASCIIHex!DecodeBlock
    PROVE  FiltersInv' /\ Unseen
  <1>1. HasBlocks BY DEF HasBlocks
  <1>2. Types /\ Working /\ AtEndOfData /\ Whole BY DEF FiltersInv
  <1>3. PICK s \in Sources : s = source /\ s.pos <= Len(s.text) BY <1>2 DEF Types
  <1>4. PICK b \in Buffers : b = buffer BY <1>2 DEF Types
  <1>5. block # Idle /\ attached
    BY DEF ASCIIHex!ReadChar, ASCIIHex!DecodeBlock, ASCIIHex!BlockIsRead
  <1>6. PICK k \in Blocks : k = block BY ONLY <1>1, <1>2, <1>5 DEF Types
  <1>7. PICK d \in Bytes : d = delivered BY <1>2 DEF Types
  <1>8. /\ call # Idle /\ b.index = 0 /\ Len(b.data) < BufferSize
        /\ Len(k.chars) <= ASCIIHex!PairSize /\ (k.ended => b.eod)
    BY ONLY <1>1, <1>2, <1>4, <1>5, <1>6, decoder = "ASCIIHex" DEF Working, AtEndOfData
  <1>9. HexWhole(s, b, k, d) BY ONLY <1>2, <1>3, <1>4, <1>6, <1>7, decoder = "ASCIIHex" DEF Whole
  <1>10. s.failures = 0 => HexAtWork(s, b, k, d)
    BY ONLY <1>3, <1>8, <1>9, s \in Sources, b \in Buffers, k \in Blocks, d \in Bytes DEF HexAtWork
  <1>11. PICK data \in Bytes : data = b.data BY DEF Buffers
  <1>12. PICK chars \in Seq(Int) : chars = k.chars BY DEF Blocks
  <1>13. b.eod \in BOOLEAN /\ k.ended \in BOOLEAN BY DEF Buffers, Blocks
  <1>14. BufferSize \in Nat /\ Len(data) \in Nat /\ Len(data) <= BufferSize
    <2>1. BufferSize \in Nat BY FilterAssumption
    <2>2. Len(data) \in Nat BY BytesConcat
    <2> QED BY ONLY <1>8, <1>11, <2>1, <2>2
  <1>15. PICK t : t = source' OBVIOUS
  <1>16. PICK b2 : b2 = buffer' OBVIOUS
  <1>17. PICK k2 : k2 = block' OBVIOUS
  <1>18. PICK bEnd : bEnd = [b EXCEPT !.eod = TRUE] OBVIOUS
  <1>19. bEnd \in Buffers /\ bEnd.data = data /\ bEnd.index = 0 /\ bEnd.eod = TRUE
    BY ONLY <1>8, <1>11, <1>18, b \in Buffers DEF Buffers
  <1>20. PICK kEnd : kEnd = [k EXCEPT !.ended = TRUE] OBVIOUS
  <1>21. kEnd \in Blocks /\ kEnd.chars = chars /\ kEnd.ended = TRUE
    BY ONLY <1>12, <1>20, k \in Blocks DEF Blocks
  <1>22. ASSUME t \in Sources, t.pos <= Len(t.text), t.contents = s.contents,
                t.failures = 0 => s.failures = 0, delivered' = d, attached' = attached,
                b2 \in Buffers, b2.index = 0, Len(b2.data) <= BufferSize, b.eod => b2.eod,
                \/ k2 = Idle /\ call' \in {Idle, call}
                \/ BlockGoesOn(b2, k2) /\ call' = call,
                HexWhole(t, b2, k2, d)
         PROVE  FiltersInv' /\ Unseen
    <2>1. Types' /\ Working' /\ AtEndOfData'
      <3>1. /\ source' \in Sources /\ source'.pos <= Len(source'.text)
            /\ buffer' \in Buffers /\ buffer'.index = 0 /\ Len(buffer'.data) <= BufferSize
            /\ \/ block' = Idle /\ call' \in {Idle, call}
               \/ BlockGoesOn(buffer', block') /\ call' = call
        BY ONLY <1>15, <1>16, <1>17, <1>22
      <3>2. UNCHANGED <<decoder, attached, delivered>>
        BY ONLY <1>7, <1>22, UNCHANGED <<decoder, context>>
      <3> QED BY ONLY <1>1, <1>5, <3>1, <3>2, FiltersInv, BlocksKeep
    <2>2. Whole'
      BY ONLY <1>15, <1>16, <1>17, <1>22, decoder = "ASCIIHex", UNCHANGED <<decoder, context>>
         DEF Whole
    <2> QED BY ONLY <1>3, <1>4, <1>7, <1>15, <1>16, <1>22, <2>1, <2>2 DEF FiltersInv, Unseen
  <1>23. CASE ASCIIHex!ReadChar
    <2>1. /\ ~k.ended /\ Len(k.chars) < ASCIIHex!PairSize
          /\ attached' = attached /\ call' = call /\ delivered' = d
      BY ONLY <1>6, <1>7, <1>23 DEF ASCIIHex!ReadChar
    <2>2. PICK char : char = s.text[s.pos + 1] OBVIOUS
    <2>3. \/ ASCIIHex!GivesNone /\ b2 = bEnd /\ k2 = kEnd
          \/ /\ ASCIIHex!Gives(1)
             /\ b2 = IF char = ASCIIHex!EndMarker THEN bEnd ELSE b
             /\ k2 = IF char = ASCIIHex!White THEN k
                     ELSE IF char = ASCIIHex!EndMarker THEN kEnd
                     ELSE [k EXCEPT !.chars = Append(k.chars, char)]
      <3>1. ASCIIHex!White # ASCIIHex!EndMarker BY DEF ASCIIHex!White, ASCIIHex!EndMarker
      <3> QED BY ONLY <1>3, <1>4, <1>6, <1>16, <1>17, <1>18, <1>20, <1>23, <2>2, <3>1
                 DEF ASCIIHex!ReadChar, ASCIIHex!NextChar, ASCIIHex!Ended
    <2>4. BlockGoesOn(bEnd, kEnd)
      BY ONLY <1>8, <1>11, <1>12, <1>19, <1>21, decoder = "ASCIIHex" DEF BlockGoesOn
    <2>5. CASE ASCIIHex!GivesNone /\ b2 = bEnd /\ k2 = kEnd
      <3>1. \/ LeftOf(s) = 0 /\ t = s
            \/ t = [s EXCEPT !.failures = s.failures + 1]
        BY ONLY <1>3, <1>15, <2>5 DEF ASCIIHex!GivesNone, ASCIIHex!Left, LeftOf
      <3>2. CASE LeftOf(s) = 0 /\ t = s
        <4>1. s.failures = 0 => HexWhole(s, bEnd, kEnd, d)
          BY ONLY <1>10, <1>18, <1>20, <2>1, <3>2, HexReadsEnd
        <4>2. HexWhole(s, bEnd, kEnd, d) BY ONLY <4>1 DEF HexWhole
        <4> QED BY ONLY <1>3, <1>14, <1>19, <1>22, <2>1, <2>4, <2>5, <3>2, <4>2, s \in Sources
      <3>3. CASE t = [s EXCEPT !.failures = s.failures + 1]
        <4>1. /\ t \in Sources /\ t.pos = s.pos /\ t.text = s.text /\ t.contents = s.contents
              /\ t.failures # 0
          <5>1. PICK f \in Nat : f = s.failures BY DEF Sources
          <5>2. f + 1 \in Nat /\ f + 1 # 0 OBVIOUS
          <5>3. /\ t.failures = f + 1 /\ t.pos = s.pos /\ t.text = s.text /\ t.contents = s.contents
                /\ t \in Sources
            BY ONLY <3>3, <5>1, <5>2, s \in Sources DEF Sources
          <5> QED BY ONLY <5>2, <5>3
        <4>2. HexWhole(t, bEnd, kEnd, d) BY ONLY <4>1 DEF HexWhole
        <4> QED BY ONLY <1>3, <1>14, <1>19, <1>22, <2>1, <2>4, <2>5, <4>1, <4>2
      <3> QED BY <3>1, <3>2, <3>3
    <2>6. CASE /\ ASCIIHex!Gives(1)
               /\ b2 = IF char = ASCIIHex!EndMarker THEN bEnd ELSE b
               /\ k2 = IF char = ASCIIHex!White THEN k
                       ELSE IF char = ASCIIHex!EndMarker THEN kEnd
                       ELSE [k EXCEPT !.chars = Append(k.chars, char)]
      <3>1. t = [s EXCEPT !.pos = s.pos + 1] /\ 1 <= LeftOf(s)
        BY ONLY <1>3, <1>15, <2>6 DEF ASCIIHex!Gives, ASCIIHex!Left, LeftOf
      <3>2. s.pos + 1 <= Len(s.text)
        <4>1. PICK p \in Nat : p = s.pos BY DEF Sources
        <4>2. PICK L \in Nat : L = Len(s.text)
          <5>1. s.text \in Seq(Int) BY DEF Sources
          <5> QED BY ONLY <5>1, LenProperties
        <4> QED BY ONLY <3>1, <4>1, <4>2, p \in Nat, L \in Nat DEF LeftOf
      <3>3. /\ t \in Sources /\ t.pos <= Len(t.text) /\ t.contents = s.contents
            /\ t.failures = s.failures /\ char \in Int
        <4>1. 1 \in Nat /\ 1 > 0 OBVIOUS
        <4> QED BY ONLY <2>2, <3>1, <3>2, <4>1, s \in Sources, Advance
      <3>4. s.failures = 0 => HexWhole(t, b2, k2, d)
        <4>1. LeftOf(s) > 0
          <5>1. PICK n \in Int : n = LeftOf(s)
            <6>1. s.pos \in Nat /\ Len(s.text) \in Nat
              <7>1. s.pos \in Nat /\ s.text \in Seq(Int) BY DEF Sources
              <7> QED BY ONLY <7>1, LenProperties
            <6> QED BY ONLY <6>1 DEF LeftOf
          <5> QED BY ONLY <3>1, <5>1, n \in Int
        <4> QED BY ONLY <1>10, <1>18, <1>20, <2>1, <2>2, <2>6, <3>1, <4>1, HexReadsChar
      <3>5. HexWhole(t, b2, k2, d) BY ONLY <3>3, <3>4 DEF HexWhole
      <3>6. b2 \in Buffers /\ b2.index = 0 /\ b2.data = data /\ (b.eod => b2.eod)
        BY ONLY <1>8, <1>11, <1>19, <2>6, b \in Buffers
      <3>7. BlockGoesOn(b2, k2)
        <4>1. CASE k2 = k
          BY ONLY <1>8, <1>11, <2>1, <3>6, <4>1, k \in Blocks, decoder = "ASCIIHex" DEF BlockGoesOn
        <4>2. CASE b2 = bEnd /\ k2 = kEnd BY ONLY <2>4, <4>2
        <4>3. CASE k2 = [k EXCEPT !.chars = Append(k.chars, char)]
          <5>1. PICK group : group = Append(chars, char) OBVIOUS
          <5>2. group \in Seq(Int) /\ Len(group) = Len(chars) + 1
            BY ONLY <3>3, <5>1, chars \in Seq(Int)
          <5>3. k2 \in Blocks /\ k2.chars = group /\ ~k2.ended
            BY ONLY <1>12, <2>1, <4>3, <5>1, <5>2, k \in Blocks DEF Blocks
          <5>4. Len(group) <= ASCIIHex!PairSize
            <6>1. PICK q \in Nat : q = Len(chars) BY ONLY chars \in Seq(Int), LenProperties
            <6> QED BY ONLY <1>12, <2>1, <5>2, <6>1, q \in Nat DEF ASCIIHex!PairSize
          <5> QED BY ONLY <1>8, <1>11, <3>6, <5>3, <5>4, decoder = "ASCIIHex" DEF BlockGoesOn
        <4> QED BY ONLY <2>6, <4>1, <4>2, <4>3
      <3> QED BY ONLY <1>14, <1>22, <2>1, <3>3, <3>5, <3>6, <3>7
    <2> QED BY ONLY <2>3, <2>5, <2>6
  <1>24. CASE ASCIIHex!DecodeBlock
    <2>1. /\ k.ended \/ Len(k.chars) = ASCIIHex!PairSize
          /\ t = s /\ attached' = attached /\ delivered' = d
      BY ONLY <1>3, <1>6, <1>7, <1>15, <1>24 DEF ASCIIHex!DecodeBlock, ASCIIHex!BlockIsRead
    <2>2. PICK byte : byte = HexBytes(chars) OBVIOUS
    <2>3. byte \in Bytes /\ Len(byte) <= 1 /\ Len(byte) \in Nat
      BY ONLY <2>2, chars \in Seq(Int), BytesAre, BytesConcat
    <2>4. CASE chars = <<>> \/ ~ASCIIHex!IsValid(ASCIIHex!Padded(chars))
      <3>1. byte = <<>> BY ONLY <2>2, <2>4 DEF HexBytes
      <3>2. b2 = b /\ k2 = Idle /\ call' \in {Idle, call}
        BY ONLY <1>4, <1>6, <1>12, <1>16, <1>17, <1>24, <2>4
           DEF ASCIIHex!DecodeBlock, ASCIIHex!Returns
      <3>3. s.failures = 0 => HexWhole(s, b, Idle, d)
        BY ONLY <1>8, <1>10, <1>12, <2>1, <2>2, <3>1, HexPassesOver
      <3>4. HexWhole(s, b, Idle, d) BY ONLY <3>3 DEF HexWhole
      <3> QED BY ONLY <1>3, <1>8, <1>11, <1>14, <1>22, <2>1, <3>2, <3>4, s \in Sources, b \in Buffers
    <2>5. CASE ~(chars = <<>> \/ ~ASCIIHex!IsValid(ASCIIHex!Padded(chars)))
      <3>1. PICK v : v = ASCIIHex!Byte(ASCIIHex!Padded(chars)) OBVIOUS
      <3>2. byte = <<v>> BY ONLY <2>2, <2>5, <3>1 DEF HexBytes
      <3>3. v \in Symbols
        <4>1. <<v>> \in Seq(Symbols) BY ONLY <2>3, <3>2 DEF Bytes
        <4> QED BY ONLY <4>1
      <3>4. Append(data, v) = data \o byte
        BY ONLY <3>2, <3>3, data \in Bytes DEF Bytes
      <3>5. PICK more : more = data \o byte OBVIOUS
      <3>6. more \in Bytes /\ Len(more) = Len(data) + 1
        <4>1. Len(more) = Len(data) + Len(byte) /\ more \in Bytes
          BY ONLY <2>3, <3>5, data \in Bytes, BytesConcat
        <4>2. Len(byte) = 1 BY ONLY <3>2
        <4> QED BY <4>1, <4>2
      <3>7. /\ b2 = [b EXCEPT !.data = more]
            /\ \/ k2 = Idle /\ call' \in {Idle, call}
               \/ ~(Len(b2.data) >= BufferSize) /\ k2 = ASCIIHex!Start /\ call' = call
        <4>1. block.chars = chars /\ Append(buffer.data, v) = more BY <1>4, <1>6, <1>11, <1>12, <3>4, <3>5
        <4> QED BY ONLY <1>4, <1>16, <1>17, <1>24, <2>5, <3>1, <4>1
                   DEF ASCIIHex!DecodeBlock, ASCIIHex!Returns, ASCIIHex!IsFull
      <3>8. b2 \in Buffers /\ b2.data = more /\ b2.index = 0 /\ b2.eod = b.eod
        BY ONLY <1>8, <3>6, <3>7, b \in Buffers DEF Buffers
      <3>9. Len(more) <= BufferSize /\ (~(Len(more) >= BufferSize) => Len(more) < BufferSize)
        BY ONLY <1>8, <1>11, <1>14, <3>6
      <3>10. s.failures = 0 => HexWhole(s, b2, Idle, d) /\ HexWhole(s, b2, ASCIIHex!Start, d)
        <4>1. byte # <<>> BY ONLY <3>2
        <4> QED BY ONLY <1>8, <1>10, <1>11, <1>12, <2>1, <2>2, <3>5, <3>8, <4>1, HexPutsByte
      <3>11. HexWhole(s, b2, Idle, d) /\ HexWhole(s, b2, ASCIIHex!Start, d)
        BY ONLY <3>10 DEF HexWhole
      <3>12. CASE k2 = Idle /\ call' \in {Idle, call}
        BY ONLY <1>3, <1>22, <2>1, <3>8, <3>9, <3>11, <3>12, s \in Sources
      <3>13. CASE ~(Len(b2.data) >= BufferSize) /\ k2 = ASCIIHex!Start /\ call' = call
        <4>1. Len(<<>>) <= ASCIIHex!PairSize BY DEF ASCIIHex!PairSize
        <4>2. BlockGoesOn(b2, k2)
          BY ONLY <3>8, <3>9, <3>13, <4>1, StartIs, decoder = "ASCIIHex" DEF BlockGoesOn
        <4> QED BY ONLY <1>3, <1>22, <2>1, <3>8, <3>9, <3>11, <3>13, <4>2, s \in Sources
      <3> QED BY ONLY <3>7, <3>12, <3>13
    <2> QED BY ONLY <2>4, <2>5
  <1> QED BY <1>23, <1>24

-----------------------------------------------------------------------------
(* The ASCII85 decoder                                                     *)

\* A decoder at work on a block of digits of ASCII85.
ASCII85AtWork(s, b, k, d) ==
    /\ s \in Sources /\ s.pos <= Len(s.text) /\ s.failures = 0
    /\ b \in Buffers /\ b.index = 0 /\ d \in Bytes
    /\ k \in Blocks
    /\ ASCII85Whole(s, b, k, d)

\* The source is at its end.
LEMMA ASCII85ReadsEnd ==
    ASSUME NEW s, NEW b, NEW k, NEW d, ASCII85AtWork(s, b, k, d),
           ~k.ended, Len(k.chars) < BlockSize, LeftOf(s) = 0
    PROVE  ASCII85Whole(s, [b EXCEPT !.eod = TRUE], [k EXCEPT !.ended = TRUE], d)
  <1> USE DEF ASCII85AtWork
  <1>1. PICK b2 : b2 = [b EXCEPT !.eod = TRUE] OBVIOUS
  <1>2. PICK k2 : k2 = [k EXCEPT !.ended = TRUE] OBVIOUS
  <1>3. b2.eod = TRUE /\ b2.data = b.data /\ b2.index = b.index
    BY ONLY <1>1, ASCII85AtWork(s, b, k, d) DEF Buffers, ASCII85AtWork
  <1>4. k2 \in Blocks /\ k2.ended = TRUE /\ k2.chars = k.chars /\ k.chars \in Seq(Int)
    BY ONLY <1>2, ASCII85AtWork(s, b, k, d) DEF Blocks, ASCII85AtWork
  <1>5. k # Idle /\ k2 # Idle BY <1>4, StartIs
  <1>6. s.text \in Seq(Int) BY DEF Sources
  <1>7. ASCII85Rest(s.text)[0][k.chars] = ASCII85!Bytes(k.chars) BY ONLY <1>4, <1>6, ASCII85RestIs
  <1>8. Len(k.chars) # BlockSize
    <2>1. PICK q \in Nat : q = Len(k.chars) BY ONLY <1>4, LenProperties
    <2>2. BlockSize \in Nat BY DecodersAssumption
    <2> QED BY ONLY <2>1, <2>2, q \in Nat, Len(k.chars) < BlockSize
  <1>9. ASCII85Ahead(s, b, k) = ASCII85!Bytes(k.chars)
    BY ONLY <1>5, <1>7, <1>8, ~k.ended, LeftOf(s) = 0 DEF ASCII85Ahead, BlocksAhead
  <1>10. ASCII85Ahead(s, b2, k2) = ASCII85!Bytes(k.chars)
    BY ONLY <1>4, <1>5 DEF ASCII85Ahead, BlocksAhead
  <1>11. Got(b2, d) = Got(b, d) BY ONLY <1>3 DEF Got
  <1> QED BY ONLY ASCII85AtWork(s, b, k, d), <1>1, <1>2, <1>9, <1>10, <1>11
             DEF ASCII85Whole, ASCII85AtWork

\* A character is read; behind a tilde the source may be read on.
LEMMA ASCII85ReadsChar ==
    ASSUME NEW s, NEW b, NEW k, NEW d, ASCII85AtWork(s, b, k, d),
           ~k.ended, ~b.eod, Len(k.chars) < BlockSize, LeftOf(s) > 0,
           NEW char, char = s.text[s.pos + 1],
           NEW t, t = [s EXCEPT !.pos = s.pos + 1]
    PROVE  /\ char = ASCII85!White => ASCII85Whole(t, b, k, d)
           /\ char = ASCII85!Tilde =>
                 \A u : u.text = s.text /\ u.contents = s.contents =>
                    ASCII85Whole(u, [b EXCEPT !.eod = TRUE], [k EXCEPT !.ended = TRUE], d)
           /\ char = ASCII85!Zeros /\ k.chars = <<>> /\ b.data = <<>> =>
                 ASCII85Whole(t, [b EXCEPT !.data = ASCII85!ZeroBytes], Idle, d)
           /\ char \notin {ASCII85!White, ASCII85!Tilde} /\ ~(char = ASCII85!Zeros /\ k.chars = <<>>) =>
                 ASCII85Whole(t, b, [k EXCEPT !.chars = Append(k.chars, char)], d)
  <1> USE DEF ASCII85AtWork
  <1>1. PICK text \in Seq(Int) : text = s.text BY DEF Sources
  <1>2. PICK p \in Nat : p = s.pos BY DEF Sources
  <1>3. PICK n : n = LeftOf(s) OBVIOUS
  <1>4. p + 1 <= Len(text)
    <2>1. Len(text) - p > 0 /\ Len(text) \in Nat BY <1>1, <1>2 DEF LeftOf
    <2> QED BY ONLY <2>1, p \in Nat
  <1>5. /\ t \in Sources /\ t.text = text /\ t.contents = s.contents
        /\ t.failures = 0 /\ LeftOf(t) = n - 1
        /\ n \in 1 .. Len(text) /\ CharAt(text, n) = char /\ char \in Int
    BY <1>1, <1>2, <1>3, <1>4, Advance
  <1>6. PICK chars \in Seq(Int) : chars = k.chars BY DEF Blocks
  <1>7. Len(chars) # BlockSize
    <2>1. PICK q \in Nat : q = Len(chars) OBVIOUS
    <2>2. BlockSize \in Nat BY DecodersAssumption
    <2> QED BY ONLY <1>6, <2>1, <2>2, q \in Nat, Len(k.chars) < BlockSize
  <1>8. PICK rest : rest = ASCII85Rest(text) OBVIOUS
  <1>9. /\ rest[n][chars] = ASCII85Next(char, rest[n - 1], chars)
        /\ rest[n - 1][<<>>] \in Bytes
    <2>1. /\ rest[n][chars] = ASCII85Next(char, rest[n - 1], chars)
          /\ rest \in [0 .. Len(text) -> Rests]
      BY ONLY <1>5, <1>8, text \in Seq(Int), chars \in Seq(Int), ASCII85RestIs
    <2>2. n - 1 \in 0 .. Len(text) BY ONLY <1>5, text \in Seq(Int)
    <2>3. rest[n - 1] \in Rests BY ONLY <2>1, <2>2
    <2> QED BY ONLY <2>1, <2>3, StartIs DEF Rests
  <1>10. k # Idle BY StartIs
  <1>11. ASCII85Ahead(s, b, k) = rest[n][chars]
    BY ONLY <1>1, <1>3, <1>6, <1>7, <1>8, <1>10, ~k.ended DEF ASCII85Ahead, BlocksAhead
  <1>12. Got(b, d) \o rest[n][chars] = s.contents BY ONLY ASCII85AtWork(s, b, k, d), <1>11
                                                      DEF ASCII85Whole, ASCII85AtWork
  <1>13. ASSUME NEW u, u.contents = s.contents, NEW b3, b3.data = b.data, b3.index = b.index, NEW k3,
                ASCII85Ahead(u, b3, k3) = rest[n][chars]
         PROVE  ASCII85Whole(u, b3, k3, d)
    <2>1. Got(b3, d) = Got(b, d) BY ONLY <1>13 DEF Got
    <2> QED BY ONLY <1>12, <1>13, <2>1 DEF ASCII85Whole
  <1>14. ASCII85!White # ASCII85!Tilde /\ ASCII85!Zeros \notin {ASCII85!White, ASCII85!Tilde}
    BY DEF ASCII85!White, ASCII85!Tilde, ASCII85!Zeros
  <1>15. ASSUME char = ASCII85!White PROVE ASCII85Whole(t, b, k, d)
    <2>1. rest[n][chars] = rest[n - 1][chars] BY ONLY <1>9, <1>14, <1>15 DEF ASCII85Next
    <2>2. ASCII85Ahead(t, b, k) = rest[n - 1][chars]
      BY ONLY <1>5, <1>6, <1>7, <1>8, <1>10, ~k.ended DEF ASCII85Ahead, BlocksAhead
    <2> QED BY ONLY <1>5, <1>13, <2>1, <2>2
  <1>16. ASSUME char = ASCII85!Tilde, NEW u, u.text = s.text, u.contents = s.contents
         PROVE  ASCII85Whole(u, [b EXCEPT !.eod = TRUE], [k EXCEPT !.ended = TRUE], d)
    <2>1. PICK b2 : b2 = [b EXCEPT !.eod = TRUE] OBVIOUS
    <2>2. PICK k2 : k2 = [k EXCEPT !.ended = TRUE] OBVIOUS
    <2>3. b2.data = b.data /\ b2.index = b.index
      BY ONLY <2>1, ASCII85AtWork(s, b, k, d) DEF Buffers, ASCII85AtWork
    <2>4. k2 \in Blocks /\ k2.ended = TRUE /\ k2.chars = chars
      BY ONLY <1>6, <2>2, ASCII85AtWork(s, b, k, d) DEF Blocks, ASCII85AtWork
    <2>5. k2 # Idle BY ONLY <2>4, StartIs
    <2>6. rest[n][chars] = ASCII85!Bytes(chars) BY ONLY <1>9, <1>16 DEF ASCII85Next
    <2>7. ASCII85Ahead(u, b2, k2) = ASCII85!Bytes(chars)
      BY ONLY <2>4, <2>5 DEF ASCII85Ahead, BlocksAhead
    <2> QED BY ONLY <1>13, <1>16, <2>1, <2>2, <2>3, <2>6, <2>7
  <1>17. ASSUME char = ASCII85!Zeros, k.chars = <<>>, b.data = <<>>
         PROVE  ASCII85Whole(t, [b EXCEPT !.data = ASCII85!ZeroBytes], Idle, d)
    <2>1. PICK zeros : zeros = ASCII85!ZeroBytes OBVIOUS
    <2>2. zeros \in Bytes
      <3>1. [c \in Seq(Int) |-> <<>>] \in Rests BY BytesAre DEF Rests, Bytes
      <3> QED BY ONLY <1>5, <2>1, <3>1, chars \in Seq(Int), ASCII85NextIs
    <2>3. PICK b2 : b2 = [b EXCEPT !.data = zeros] OBVIOUS
    <2>4. b2 \in Buffers /\ b2.data = zeros /\ b2.index = 0 /\ b2.eod = b.eod
      BY ONLY <2>2, <2>3, ASCII85AtWork(s, b, k, d) DEF Buffers, ASCII85AtWork
    <2>5. PICK ahead \in Bytes : ahead = rest[n - 1][<<>>] BY <1>9
    <2>6. rest[n][chars] = zeros \o ahead
      BY ONLY <1>6, <1>9, <1>14, <1>17, <2>1, <2>5 DEF ASCII85Next
    <2>7. ASCII85Ahead(t, b2, Idle) = ahead
      BY ONLY <1>5, <1>8, <2>4, <2>5, ~b.eod DEF ASCII85Ahead, BlocksAhead
    <2>8. Got(b2, d) = d \o zeros BY ONLY <2>4, GotAtWork
    <2>9. Got(b, d) = d
      <3>1. Got(b, d) = d \o <<>> BY ONLY <1>17, ASCII85AtWork(s, b, k, d), GotAtWork DEF ASCII85AtWork
      <3> QED BY ONLY <3>1, ASCII85AtWork(s, b, k, d), BytesConcat DEF ASCII85AtWork
    <2>10. (d \o zeros) \o ahead = d \o (zeros \o ahead)
      <3>1. d \in Bytes OBVIOUS
      <3> QED BY ONLY <2>2, <3>1, ahead \in Bytes, GoesOn
    <2> QED BY ONLY <1>5, <1>12, <2>1, <2>3, <2>6, <2>7, <2>8, <2>9, <2>10 DEF ASCII85Whole
  <1>18. ASSUME char \notin {ASCII85!White, ASCII85!Tilde}, ~(char = ASCII85!Zeros /\ k.chars = <<>>)
         PROVE  ASCII85Whole(t, b, [k EXCEPT !.chars = Append(k.chars, char)], d)
    <2>1. PICK group : group = Append(chars, char) OBVIOUS
    <2>2. group \in Seq(Int) BY ONLY <1>5, <2>1, chars \in Seq(Int)
    <2>3. PICK k2 : k2 = [k EXCEPT !.chars = group] OBVIOUS
    <2>4. k2 \in Blocks /\ k2.ended = k.ended /\ k2.chars = group
      BY ONLY <2>2, <2>3, ASCII85AtWork(s, b, k, d) DEF Blocks, ASCII85AtWork
    <2>5. k2 # Idle BY ONLY <2>4, StartIs
    <2>6. rest[n][chars] = IF Len(group) = BlockSize THEN ASCII85!Bytes(group) \o rest[n - 1][<<>>]
                           ELSE rest[n - 1][group]
      BY ONLY <1>6, <1>9, <1>18, <2>1 DEF ASCII85Next
    <2>7. ASCII85Ahead(t, b, k2) = rest[n][chars]
      BY ONLY <1>5, <1>8, <2>4, <2>5, <2>6, ~k.ended DEF ASCII85Ahead, BlocksAhead
    <2> QED BY ONLY <1>5, <1>6, <1>13, <2>1, <2>3, <2>7
  <1> QED BY <1>15, <1>16, <1>17, <1>18

\* The bytes of a block are put into the buffer.
LEMMA ASCII85PutsBytes ==
    ASSUME NEW s, NEW b, NEW k, NEW d, ASCII85AtWork(s, b, k, d), b.data = <<>>,
           k.ended \/ Len(k.chars) = BlockSize, k.ended <=> b.eod
    PROVE  ASCII85Whole(s, [b EXCEPT !.data = ASCII85!Bytes(k.chars)], Idle, d)
  <1> USE DEF ASCII85AtWork
  <1>1. k # Idle BY StartIs
  <1>2. PICK rest : rest = ASCII85Rest(s.text) OBVIOUS
  <1>3. s.text \in Seq(Int) /\ LeftOf(s) \in 0 .. Len(s.text)
    <2>1. s.text \in Seq(Int) BY DEF Sources
    <2>2. LeftOf(s) \in 0 .. Len(s.text)
      <3>1. PICK p \in Nat : p = s.pos BY DEF Sources
      <3>2. PICK L \in Nat : L = Len(s.text) BY <2>1
      <3> QED BY <3>1, <3>2 DEF LeftOf
    <2> QED BY <2>1, <2>2
  <1>4. PICK next : next = rest[LeftOf(s)][<<>>] OBVIOUS
  <1>5. next \in Bytes
    <2>1. rest \in [0 .. Len(s.text) -> Rests] BY ONLY <1>2, <1>3, ASCII85RestIs
    <2>2. rest[LeftOf(s)] \in Rests BY ONLY <1>3, <2>1
    <2> QED BY ONLY <1>4, <2>2, StartIs DEF Rests
  <1>6. PICK bytes : bytes = ASCII85!Bytes(k.chars) OBVIOUS
  <1>7. bytes \in Bytes /\ bytes \o <<>> = bytes
    <2>1. k.chars \in Seq(Int) BY DEF Blocks
    <2>2. bytes \in Bytes BY ONLY <1>6, <2>1, BytesAre
    <2> QED BY ONLY <2>2, BytesConcat
  <1>8. PICK b2 : b2 = [b EXCEPT !.data = bytes] OBVIOUS
  <1>9. b2 \in Buffers /\ b2.data = bytes /\ b2.index = 0 /\ b2.eod = b.eod
    BY ONLY <1>7, <1>8, ASCII85AtWork(s, b, k, d) DEF Buffers, ASCII85AtWork
  <1>10. PICK ahead : ahead = IF b.eod THEN <<>> ELSE next OBVIOUS
  <1>11. ahead \in Bytes BY ONLY <1>5, <1>10, BytesConcat
  <1>12. ASCII85Ahead(s, b, k) = bytes \o ahead
    BY ONLY <1>1, <1>2, <1>4, <1>6, <1>7, <1>10, k.ended \/ Len(k.chars) = BlockSize, k.ended <=> b.eod
       DEF ASCII85Ahead, BlocksAhead
  <1>13. ASCII85Ahead(s, b2, Idle) = ahead
    BY ONLY <1>2, <1>4, <1>9, <1>10 DEF ASCII85Ahead, BlocksAhead
  <1>14. Got(b2, d) = d \o bytes BY ONLY <1>9, GotAtWork
  <1>15. Got(b, d) = d
    <2>1. Got(b, d) = d \o <<>>
      BY ONLY ASCII85AtWork(s, b, k, d), b.data = <<>>, GotAtWork DEF ASCII85AtWork
    <2> QED BY ONLY <2>1, ASCII85AtWork(s, b, k, d), BytesConcat DEF ASCII85AtWork
  <1>16. (d \o bytes) \o ahead = d \o (bytes \o ahead)
    <2>1. d \in Bytes OBVIOUS
    <2> QED BY ONLY <1>7, <1>11, <2>1, GoesOn
  <1> QED BY ONLY ASCII85AtWork(s, b, k, d), <1>6, <1>8, <1>12, <1>13, <1>14, <1>15, <1>16
             DEF ASCII85AtWork, ASCII85Whole

\* A step of the ASCII85 decoder.
LEMMA ASCII85Keeps ==
    ASSUME FiltersInv, decoder = "ASCII85", UNCHANGED <<decoder, context>>,
           ASCII85!ReadChar \/ ASCII85!DecodeBlock
    PROVE  FiltersInv' /\ Unseen
  <1>1. HasBlocks BY DEF HasBlocks
  <1>2. Types /\ Working /\ AtEndOfData /\ Whole BY DEF FiltersInv
  <1>3. PICK s \in Sources : s = source /\ s.pos <= Len(s.text) BY <1>2 DEF Types
  <1>4. PICK b \in Buffers : b = buffer BY <1>2 DEF Types
  <1>5. block # Idle /\ attached
    BY DEF ASCII85!ReadChar, ASCII85!DecodeBlock
  <1>6. PICK k \in Blocks : k = block BY ONLY <1>1, <1>2, <1>5 DEF Types
  <1>7. PICK d \in Bytes : d = delivered BY <1>2 DEF Types
  <1>8. /\ call # Idle /\ b.index = 0 /\ b.data = <<>>
        /\ Len(k.chars) <= BlockSize /\ (k.ended <=> b.eod)
    BY ONLY <1>1, <1>2, <1>4, <1>5, <1>6, decoder = "ASCII85" DEF Working, AtEndOfData
  <1>9. ASCII85Whole(s, b, k, d)
    BY ONLY <1>2, <1>3, <1>4, <1>6, <1>7, decoder = "ASCII85" DEF Whole
  <1>10. s.failures = 0 => ASCII85AtWork(s, b, k, d)
    BY ONLY <1>3, <1>8, <1>9, s \in Sources, b \in Buffers, k \in Blocks, d \in Bytes DEF ASCII85AtWork
  <1>11. PICK chars \in Seq(Int) : chars = k.chars BY DEF Blocks
  <1>12. b.eod \in BOOLEAN /\ k.ended \in BOOLEAN BY DEF Buffers, Blocks
  <1>13. /\ BufferSize \in Nat /\ Len(<<>>) <= BufferSize /\ BlockSize \in Nat
         /\ ASCII85!BytesPerBlock \in Nat /\ ASCII85!BytesPerBlock <= BufferSize
    BY FilterAssumption, DecodersAssumption DEF ASCII85!BytesPerBlock
  <1>14. PICK t : t = source' OBVIOUS
  <1>15. PICK b2 : b2 = buffer' OBVIOUS
  <1>16. PICK k2 : k2 = block' OBVIOUS
  <1>17. PICK bEnd : bEnd = [b EXCEPT !.eod = TRUE] OBVIOUS
  <1>18. bEnd \in Buffers /\ bEnd.data = <<>> /\ bEnd.index = 0 /\ bEnd.eod = TRUE
    BY ONLY <1>8, <1>17, b \in Buffers DEF Buffers
  <1>19. PICK kEnd : kEnd = [k EXCEPT !.ended = TRUE] OBVIOUS
  <1>20. kEnd \in Blocks /\ kEnd.chars = chars /\ kEnd.ended = TRUE
    BY ONLY <1>11, <1>19, k \in Blocks DEF Blocks
  <1>21. ASSUME t \in Sources, t.pos <= Len(t.text), t.contents = s.contents,
                t.failures = 0 => s.failures = 0, delivered' = d, attached' = attached,
                b2 \in Buffers, b2.index = 0, Len(b2.data) <= BufferSize, b.eod => b2.eod,
                \/ k2 = Idle /\ call' \in {Idle, call}
                \/ BlockGoesOn(b2, k2) /\ call' = call,
                ASCII85Whole(t, b2, k2, d)
         PROVE  FiltersInv' /\ Unseen
    <2>1. Types' /\ Working' /\ AtEndOfData'
      <3>1. /\ source' \in Sources /\ source'.pos <= Len(source'.text)
            /\ buffer' \in Buffers /\ buffer'.index = 0 /\ Len(buffer'.data) <= BufferSize
            /\ \/ block' = Idle /\ call' \in {Idle, call}
               \/ BlockGoesOn(buffer', block') /\ call' = call
        BY ONLY <1>14, <1>15, <1>16, <1>21
      <3>2. UNCHANGED <<decoder, attached, delivered>>
        BY ONLY <1>7, <1>21, UNCHANGED <<decoder, context>>
      <3> QED BY ONLY <1>1, <1>5, <3>1, <3>2, FiltersInv, BlocksKeep
    <2>2. Whole'
      BY ONLY <1>14, <1>15, <1>16, <1>21, decoder = "ASCII85", UNCHANGED <<decoder, context>>
         DEF Whole
    <2> QED BY ONLY <1>3, <1>4, <1>7, <1>14, <1>15, <1>21, <2>1, <2>2 DEF FiltersInv, Unseen
  <1>22. CASE ASCII85!ReadChar
    <2>1. /\ ~k.ended /\ Len(k.chars) < BlockSize
          /\ attached' = attached /\ delivered' = d
      BY ONLY <1>6, <1>7, <1>22 DEF ASCII85!ReadChar
    <2>2. PICK char : char = s.text[s.pos + 1] OBVIOUS
    <2>3. \/ ASCII85!GivesNone /\ b2 = bEnd /\ k2 = kEnd /\ call' = call
          \/ /\ LeftOf(s) > 0 /\ char = ASCII85!Tilde
             /\ b2 = bEnd /\ k2 = kEnd /\ call' = call
             /\ \/ t = [s EXCEPT !.pos = s.pos + 2] /\ 2 <= LeftOf(s)
                \/ t = [s EXCEPT !.pos = s.pos + 1,
                                 !.failures = s.failures + IF LeftOf(s) = 1 THEN 0 ELSE 1]
          \/ /\ t = [s EXCEPT !.pos = s.pos + 1] /\ 1 <= LeftOf(s)
             /\ \/ char = ASCII85!White /\ b2 = b /\ k2 = k /\ call' = call
                \/ /\ char = ASCII85!Zeros /\ chars = <<>>
                   /\ b2 = [b EXCEPT !.data = ASCII85!ZeroBytes]
                   /\ k2 = Idle /\ call' \in {Idle, call}
                \/ /\ char \notin {ASCII85!White, ASCII85!Tilde}
                   /\ ~(char = ASCII85!Zeros /\ chars = <<>>)
                   /\ b2 = b /\ k2 = [k EXCEPT !.chars = Append(chars, char)] /\ call' = call
      BY ONLY <1>3, <1>4, <1>6, <1>11, <1>14, <1>15, <1>16, <1>17, <1>19, <1>22, <2>2
         DEF ASCII85!ReadChar, ASCII85!NextChar, ASCII85!Ended, ASCII85!ReadEndMarker, ASCII85!Closed,
             ASCII85!Gives, ASCII85!Left, LeftOf, ASCII85!IsZeros, ASCII85!Returns
    <2>4. BlockGoesOn(bEnd, kEnd)
      BY ONLY <1>8, <1>11, <1>18, <1>20, decoder = "ASCII85" DEF BlockGoesOn
    <2>5. PICK p \in Nat : p = s.pos BY DEF Sources
    <2>6. PICK L \in Nat : L = Len(s.text)
      <3>1. s.text \in Seq(Int) BY DEF Sources
      <3> QED BY ONLY <3>1, LenProperties
    <2>7. LeftOf(s) = L - p BY ONLY <2>5, <2>6 DEF LeftOf
    <2>8. s.failures \in Nat BY DEF Sources
    <2>9. CASE ASCII85!GivesNone /\ b2 = bEnd /\ k2 = kEnd /\ call' = call
      <3>1. \/ LeftOf(s) = 0 /\ t = s
            \/ t = [s EXCEPT !.failures = s.failures + 1]
        BY ONLY <1>3, <1>14, <2>9 DEF ASCII85!GivesNone, ASCII85!Left, LeftOf
      <3>2. CASE LeftOf(s) = 0 /\ t = s
        <4>1. s.failures = 0 => ASCII85Whole(s, bEnd, kEnd, d)
          BY ONLY <1>10, <1>17, <1>19, <2>1, <3>2, ASCII85ReadsEnd
        <4>2. ASCII85Whole(s, bEnd, kEnd, d) BY ONLY <4>1 DEF ASCII85Whole
        <4> QED BY ONLY <1>3, <1>13, <1>18, <1>21, <2>1, <2>4, <2>9, <3>2, <4>2, s \in Sources
      <3>3. CASE t = [s EXCEPT !.failures = s.failures + 1]
        <4>1. /\ t \in Sources /\ t.pos = s.pos /\ t.text = s.text /\ t.contents = s.contents
              /\ t.failures # 0
          <5>1. PICK f \in Nat : f = s.failures BY <2>8
          <5>2. f + 1 \in Nat /\ f + 1 # 0 OBVIOUS
          <5>3. /\ t.failures = f + 1 /\ t.pos = s.pos /\ t.text = s.text /\ t.contents = s.contents
                /\ t \in Sources
            BY ONLY <3>3, <5>1, <5>2, s \in Sources DEF Sources
          <5> QED BY ONLY <5>2, <5>3
        <4>2. ASCII85Whole(t, bEnd, kEnd, d) BY ONLY <4>1 DEF ASCII85Whole
        <4> QED BY ONLY <1>3, <1>13, <1>18, <1>21, <2>1, <2>4, <2>9, <4>1, <4>2
      <3> QED BY <3>1, <3>2, <3>3
    <2>10. CASE /\ LeftOf(s) > 0 /\ char = ASCII85!Tilde
                /\ b2 = bEnd /\ k2 = kEnd /\ call' = call
                /\ \/ t = [s EXCEPT !.pos = s.pos + 2] /\ 2 <= LeftOf(s)
                   \/ t = [s EXCEPT !.pos = s.pos + 1,
                                    !.failures = s.failures + IF LeftOf(s) = 1 THEN 0 ELSE 1]
      <3>1. /\ t \in Sources /\ t.pos <= Len(t.text) /\ t.contents = s.contents /\ t.text = s.text
            /\ t.failures = 0 => s.failures = 0
        <4>1. CASE t = [s EXCEPT !.pos = s.pos + 2] /\ 2 <= LeftOf(s)
          <5>1. s.pos + 2 <= Len(s.text) BY ONLY <2>5, <2>6, <2>7, <4>1, p \in Nat, L \in Nat
          <5>2. 2 \in Nat OBVIOUS
          <5> QED BY ONLY <4>1, <5>1, <5>2, s \in Sources, Advance
        <4>2. CASE t = [s EXCEPT !.pos = s.pos + 1,
                                 !.failures = s.failures + IF LeftOf(s) = 1 THEN 0 ELSE 1]
          <5>1. s.pos + 1 <= Len(s.text) BY ONLY <2>5, <2>6, <2>7, <2>10, p \in Nat, L \in Nat
          <5>2. PICK f \in Nat : f = IF LeftOf(s) = 1 THEN 0 ELSE 1 OBVIOUS
          <5>4. /\ t \in Sources /\ t.pos <= Len(t.text) /\ t.contents = s.contents /\ t.text = s.text
                /\ t.failures = s.failures + f
            <6>1. t = [s EXCEPT !.pos = s.pos + 1, !.failures = s.failures + f]
              BY ONLY <4>2, <5>2
            <6>2. PICK g \in Nat : g = s.failures BY <2>8
            <6>3. p + 1 \in Nat /\ g + f \in Nat OBVIOUS
            <6>4. t = [s EXCEPT !.pos = p + 1, !.failures = g + f] BY ONLY <2>5, <6>1, <6>2
            <6>5. /\ t \in Sources /\ t.pos = p + 1 /\ t.contents = s.contents /\ t.text = s.text
                  /\ t.failures = g + f
              BY ONLY <6>3, <6>4, s \in Sources DEF Sources
            <6> QED BY ONLY <2>5, <5>1, <6>2, <6>5
          <5>5. s.failures + f = 0 => s.failures = 0 BY ONLY <2>8, f \in Nat
          <5> QED BY ONLY <5>4, <5>5
        <4> QED BY ONLY <2>10, <4>1, <4>2
      <3>2. s.failures = 0 => ASCII85Whole(t, bEnd, kEnd, d)
        <4> SUFFICES ASSUME s.failures = 0 PROVE ASCII85Whole(t, bEnd, kEnd, d) OBVIOUS
        <4>1. PICK u : u = [s EXCEPT !.pos = s.pos + 1] OBVIOUS
        <4>2. ASCII85AtWork(s, b, k, d) /\ ~b.eod /\ LeftOf(s) > 0 BY <1>8, <1>10, <2>1, <2>10
        <4> QED BY ONLY <1>17, <1>19, <2>1, <2>2, <2>10, <3>1, <4>1, <4>2, ASCII85ReadsChar
      <3>3. ASCII85Whole(t, bEnd, kEnd, d) BY ONLY <3>1, <3>2 DEF ASCII85Whole
      <3> QED BY ONLY <1>13, <1>18, <1>21, <2>1, <2>4, <2>10, <3>1, <3>3
    <2>11. CASE t = [s EXCEPT !.pos = s.pos + 1] /\ 1 <= LeftOf(s)
      <3>1. s.pos + 1 <= Len(s.text) BY ONLY <2>5, <2>6, <2>7, <2>11, p \in Nat, L \in Nat
      <3>2. /\ t \in Sources /\ t.pos <= Len(t.text) /\ t.contents = s.contents
            /\ t.failures = s.failures /\ char \in Int
        <4>1. 1 \in Nat /\ 1 > 0 OBVIOUS
        <4> QED BY ONLY <2>2, <2>11, <3>1, <4>1, s \in Sources, Advance
      <3>3. LeftOf(s) > 0 BY ONLY <2>7, <2>11, p \in Nat, L \in Nat
      <3>4. s.failures = 0 => ASCII85AtWork(s, b, k, d) /\ ~b.eod BY ONLY <1>8, <1>10, <2>1
      <3>5. BlockGoesOn(b, k)
        BY ONLY <1>8, k \in Blocks, decoder = "ASCII85" DEF BlockGoesOn
      <3>6. CASE char = ASCII85!White /\ b2 = b /\ k2 = k /\ call' = call
        <4>1. s.failures = 0 => ASCII85Whole(t, b, k, d)
          BY ONLY <2>1, <2>2, <2>11, <3>3, <3>4, <3>6, ASCII85ReadsChar
        <4>2. ASCII85Whole(t, b, k, d) BY ONLY <3>2, <4>1 DEF ASCII85Whole
        <4> QED BY ONLY <1>8, <1>13, <1>21, <2>1, <3>2, <3>5, <3>6, <4>2, b \in Buffers
      <3>7. CASE /\ char = ASCII85!Zeros /\ chars = <<>>
                 /\ b2 = [b EXCEPT !.data = ASCII85!ZeroBytes]
                 /\ k2 = Idle /\ call' \in {Idle, call}
        <4>1. s.failures = 0 => ASCII85Whole(t, b2, Idle, d)
          BY ONLY <1>8, <1>11, <2>1, <2>2, <2>11, <3>3, <3>4, <3>7, ASCII85ReadsChar
        <4>2. ASCII85Whole(t, b2, Idle, d) BY ONLY <3>2, <4>1 DEF ASCII85Whole
        <4>3. PICK zeros : zeros = ASCII85!ZeroBytes OBVIOUS
        <4>4. zeros \in Bytes /\ Len(zeros) = ASCII85!BytesPerBlock
          <5>1. [c \in Seq(Int) |-> <<>>] \in Rests BY BytesAre DEF Rests, Bytes
          <5>2. zeros \in Bytes BY ONLY <3>2, <4>3, <5>1, chars \in Seq(Int), ASCII85NextIs
          <5>3. Len([i \in 1 .. ASCII85!BytesPerBlock |-> 0]) = ASCII85!BytesPerBlock
            BY ONLY <1>13
          <5> QED BY ONLY <4>3, <5>2, <5>3 DEF ASCII85!ZeroBytes
        <4>5. b2 \in Buffers /\ b2.data = zeros /\ b2.index = 0 /\ b2.eod = b.eod
          BY ONLY <1>8, <3>7, <4>3, <4>4, b \in Buffers DEF Buffers
        <4> QED BY ONLY <1>13, <1>21, <2>1, <3>2, <3>7, <4>2, <4>4, <4>5
      <3>8. CASE /\ char \notin {ASCII85!White, ASCII85!Tilde}
                 /\ ~(char = ASCII85!Zeros /\ chars = <<>>)
                 /\ b2 = b /\ k2 = [k EXCEPT !.chars = Append(chars, char)] /\ call' = call
        <4>1. s.failures = 0 => ASCII85Whole(t, b, k2, d)
          BY ONLY <1>11, <2>1, <2>2, <2>11, <3>3, <3>4, <3>8, ASCII85ReadsChar
        <4>2. ASCII85Whole(t, b, k2, d) BY ONLY <3>2, <4>1 DEF ASCII85Whole
        <4>3. PICK group : group = Append(chars, char) OBVIOUS
        <4>4. group \in Seq(Int) /\ Len(group) = Len(chars) + 1
          BY ONLY <3>2, <4>3, chars \in Seq(Int)
        <4>5. k2 \in Blocks /\ k2.chars = group /\ ~k2.ended
          BY ONLY <2>1, <3>8, <4>3, <4>4, k \in Blocks DEF Blocks
        <4>6. Len(group) <= BlockSize
          <5>1. PICK q \in Nat : q = Len(chars) BY ONLY chars \in Seq(Int), LenProperties
          <5> QED BY ONLY <1>11, <1>13, <2>1, <4>4, <5>1, q \in Nat
        <4>7. BlockGoesOn(b, k2)
          BY ONLY <1>8, <2>1, <4>5, <4>6, decoder = "ASCII85" DEF BlockGoesOn
        <4> QED BY ONLY <1>8, <1>13, <1>21, <2>1, <3>2, <3>8, <4>2, <4>7, b \in Buffers
      <3>9. CASE ~(\/ char = ASCII85!White /\ b2 = b /\ k2 = k /\ call' = call
                   \/ /\ char = ASCII85!Zeros /\ chars = <<>>
                      /\ b2 = [b EXCEPT !.data = ASCII85!ZeroBytes]
                      /\ k2 = Idle /\ call' \in {Idle, call}
                   \/ /\ char \notin {ASCII85!White, ASCII85!Tilde}
                      /\ ~(char = ASCII85!Zeros /\ chars = <<>>)
                      /\ b2 = b /\ k2 = [k EXCEPT !.chars = Append(chars, char)] /\ call' = call)
        BY ONLY <2>3, <2>9, <2>10, <3>9
      <3> QED BY ONLY <3>6, <3>7, <3>8, <3>9
    <2> QED BY ONLY <2>3, <2>9, <2>10, <2>11
  <1>23. CASE ASCII85!DecodeBlock
    <2>1. PICK bytes : bytes = ASCII85!Bytes(chars) OBVIOUS
    <2>2. /\ k.ended \/ Len(k.chars) = BlockSize
          /\ t = s /\ attached' = attached /\ delivered' = d
          /\ b2 = [b EXCEPT !.data = bytes] /\ k2 = Idle /\ call' \in {Idle, call}
      BY ONLY <1>3, <1>4, <1>6, <1>7, <1>11, <1>14, <1>15, <1>16, <1>23, <2>1
         DEF ASCII85!DecodeBlock, ASCII85!Returns
    <2>3. bytes \in Bytes /\ Len(bytes) <= ASCII85!BytesPerBlock /\ Len(bytes) \in Nat
      BY ONLY <1>8, <1>11, <2>1, chars \in Seq(Int), BytesAre, BytesConcat
    <2>4. b2 \in Buffers /\ b2.data = bytes /\ b2.index = 0 /\ b2.eod = b.eod
      BY ONLY <1>8, <2>2, <2>3, b \in Buffers DEF Buffers
    <2>5. s.failures = 0 => ASCII85Whole(s, b2, Idle, d)
      BY ONLY <1>8, <1>10, <1>11, <2>1, <2>2, ASCII85PutsBytes
    <2>6. ASCII85Whole(s, b2, Idle, d) BY ONLY <2>5 DEF ASCII85Whole
    <2>7. Len(bytes) <= BufferSize BY ONLY <1>13, <2>3
    <2> QED BY ONLY <1>3, <1>21, <2>2, <2>4, <2>6, <2>7, s \in Sources
  <1> QED BY <1>22, <1>23

-----------------------------------------------------------------------------
(* The run-length decoder                                                  *)

\* A decoder at work on runs.
RunsAtWork(s, b, c, d) ==
    /\ s \in Sources /\ s.text \in RunTexts /\ s.pos <= Len(s.text)
    /\ b \in Buffers /\ b.index = 0 /\ ~b.eod /\ d \in Bytes
    /\ c \in Runs
    /\ RunsWhole(s, b, c, d)

\* The next bytes of the contents are put into the buffer.
LEMMA RunsGoOn ==
    ASSUME NEW s, NEW b, NEW c, NEW d, RunsAtWork(s, b, c, d),
           NEW t, t.contents = s.contents,
           NEW more \in Bytes, NEW b2 \in Buffers, b2.data = b.data \o more, b2.index = 0,
           NEW c2, NEW ahead \in Bytes,
           RunsAhead(s, b, c) = more \o ahead, RunsAhead(t, b2, c2) = ahead
    PROVE  RunsWhole(t, b2, c2, d)
  <1> USE DEF RunsAtWork
  <1>1. PICK data \in Bytes : data = b.data BY DEF Buffers
  <1>2. Got(b, d) = d \o data BY <1>1, GotAtWork
  <1>3. Got(b2, d) = d \o (data \o more) BY <1>1, GotAtWork
  <1>4. d \o (data \o more) = (d \o data) \o more
    <2>1. d \in Bytes /\ data \in Bytes /\ more \in Bytes OBVIOUS
    <2> QED BY ONLY <2>1, GoesOn
  <1>5. d \o data \in Bytes
    <2>1. d \in Bytes OBVIOUS
    <2> QED BY ONLY <2>1, data \in Bytes, BytesConcat
  <1>6. ((d \o data) \o more) \o ahead = (d \o data) \o (more \o ahead)
    BY ONLY <1>5, more \in Bytes, ahead \in Bytes, GoesOn
  <1>7. Got(b, d) \o (more \o ahead) = s.contents
    BY ONLY RunsAtWork(s, b, c, d), RunsAhead(s, b, c) = more \o ahead DEF RunsAtWork, RunsWhole
  <1>8. Got(b2, d) \o ahead = t.contents BY ONLY <1>2, <1>3, <1>4, <1>6, <1>7, t.contents = s.contents
  <1> QED BY ONLY <1>8, ahead \in Bytes, RunsAhead(t, b2, c2) = ahead DEF RunsWhole

\* The data ends, or the source fails.
LEMMA RunsStop ==
    ASSUME NEW s, NEW b, NEW c, NEW d, RunsAtWork(s, b, c, d),
           NEW t, t.contents = s.contents, NEW c2,
           t.failures = 0 => RunsAhead(s, b, c) = <<>>
    PROVE  RunsWhole(t, [b EXCEPT !.eod = TRUE], c2, d)
  <1> USE DEF RunsAtWork
  <1>1. PICK b2 : b2 = [b EXCEPT !.eod = TRUE] OBVIOUS
  <1>2. b2.eod = TRUE /\ b2.data = b.data /\ b2.index = b.index
    BY ONLY <1>1, RunsAtWork(s, b, c, d) DEF Buffers, RunsAtWork
  <1>3. Got(b2, d) = Got(b, d) BY ONLY <1>2 DEF Got
  <1>4. RunsAhead(t, b2, c2) = <<>> BY ONLY <1>2 DEF RunsAhead
  <1>5. Got(b, d) \o RunsAhead(s, b, c) = s.contents /\ \E x \in Bytes : Got(b, d) \o x = s.contents
    BY ONLY RunsAtWork(s, b, c, d) DEF RunsAtWork, RunsWhole
  <1> QED BY ONLY <1>1, <1>2, <1>3, <1>4, <1>5, t.contents = s.contents,
                  t.failures = 0 => RunsAhead(s, b, c) = <<>> DEF RunsWhole

\* What the characters that are left encode, behind a run too.
LEMMA FromIs ==
    ASSUME NEW text \in RunTexts, NEW n \in 0 .. Len(text)
    PROVE  RunsRest(text)[n] \in Bytes /\ text \in Seq(Int) /\ text \in Bytes
  <1>1. RunsRest(text) \in [0 .. Len(text) -> Bytes] BY RunsRestIs
  <1>2. RunsRest(text)[n] \in Bytes BY ONLY <1>1, n \in 0 .. Len(text)
  <1>3. text \in Seq(Int)
    <2>1. EodMarker \in Nat BY DecodersAssumption
    <2> QED BY <2>1 DEF RunTexts
  <1>4. text \in Bytes BY ONLY <1>3 DEF Bytes, Symbols
  <1> QED BY <1>2, <1>3, <1>4

\* The indicator of the next run is read.
LEMMA RunBegins ==
    ASSUME NEW s, NEW b, NEW c, NEW d, RunsAtWork(s, b, c, d),
           c.type = "none" \/ c.remaining = 0, LeftOf(s) > 0,
           NEW char, char = s.text[s.pos + 1]
    PROVE  /\ char \in 0 .. 2 * EodMarker - 1
           /\ char <= RunLength!LiteralMax =>
                 RunsWhole([s EXCEPT !.pos = s.pos + 1], b,
                           [c EXCEPT !.type = "literal",
                                     !.remaining = RunLength!LiteralLength(char)], d)
           /\ char > EodMarker /\ LeftOf(s) >= 2 =>
                 RunsWhole([s EXCEPT !.pos = s.pos + 2], b,
                           [type |-> "copy", remaining |-> RunLength!CopyLength(char),
                            byte |-> s.text[s.pos + 2]], d)
           /\ char > EodMarker /\ LeftOf(s) = 1 => RunsAhead(s, b, c) = <<>>
           /\ char = EodMarker => RunsAhead(s, b, c) = <<>>
  <1> USE DEF RunsAtWork
  <1>1. PICK text \in RunTexts : text = s.text OBVIOUS
  <1>2. PICK p \in Nat : p = s.pos BY DEF Sources
  <1>3. PICK L \in Nat : L = Len(text) BY DEF RunTexts
  <1>4. PICK n : n = L - p OBVIOUS
  <1>5. n = LeftOf(s) /\ n \in 1 .. L
    <2>1. n = LeftOf(s) BY ONLY <1>1, <1>2, <1>3, <1>4 DEF LeftOf
    <2> QED BY ONLY <1>4, <2>1, LeftOf(s) > 0, p \in Nat, L \in Nat
  <1>6. EodMarker \in Nat /\ EodMarker > 0 BY DecodersAssumption
  <1>7. char = text[p + 1] /\ p + 1 \in 1 .. L BY <1>1, <1>2, <1>4, <1>5
  <1>8. char \in 0 .. 2 * EodMarker - 1 BY ONLY <1>3, <1>6, <1>7, text \in RunTexts DEF RunTexts
  <1>9. CharAt(text, n) = char
    <2>1. L - n + 1 = p + 1 BY ONLY <1>4, p \in Nat, L \in Nat
    <2> QED BY ONLY <1>3, <1>7, <2>1 DEF CharAt
  <1>10. PICK from : from = RunsRest(text) OBVIOUS
  <1>11. RunsAhead(s, b, c) = from[n]
    BY ONLY <1>1, <1>5, <1>10, RunsAtWork(s, b, c, d), c.type = "none" \/ c.remaining = 0
       DEF RunsAhead, RunsAtWork
  <1>12. from[n] = WithRun(text, n, from[LeftBehind(text, n)])
    BY ONLY <1>3, <1>5, <1>10, text \in RunTexts, RunsRestIs
  <1>13. PICK h : h = LeftBehind(text, n) OBVIOUS
  <1>14. h \in 0 .. n - 1
    <2>1. n \in 1 .. Len(text) BY <1>3, <1>5
    <2>2. <<>> \in Bytes BY BytesAre DEF Bytes
    <2> QED BY ONLY <1>13, <2>1, <2>2, text \in RunTexts, RunIs
  <1>15. \A m \in 0 .. L : from[m] \in Bytes
    BY ONLY <1>3, <1>10, text \in RunTexts, FromIs
  <1>16. b.data \in Bytes /\ b.data \o <<>> = b.data /\ <<>> \in Bytes
    <2>1. b.data \in Bytes BY DEF Buffers
    <2> QED BY ONLY <2>1, BytesConcat
  <1>17. ASSUME NEW t, t.contents = s.contents, NEW c2, RunsAhead(t, b, c2) = from[n]
         PROVE  RunsWhole(t, b, c2, d)
    <2>1. from[n] \in Bytes BY ONLY <1>5, <1>15, L \in Nat
    <2>2. <<>> \o from[n] = from[n] BY ONLY <2>1, BytesConcat
    <2>3. b \in Buffers /\ b.index = 0 OBVIOUS
    <2> QED BY ONLY <1>11, <1>16, <1>17, <2>1, <2>2, <2>3, RunsAtWork(s, b, c, d), RunsGoOn
  <1>18. ASSUME char <= RunLength!LiteralMax
         PROVE  RunsWhole([s EXCEPT !.pos = s.pos + 1], b,
                          [c EXCEPT !.type = "literal",
                                    !.remaining = RunLength!LiteralLength(char)], d)
    <2>1. PICK t : t = [s EXCEPT !.pos = s.pos + 1] OBVIOUS
    <2>2. PICK c2 : c2 = [c EXCEPT !.type = "literal", !.remaining = RunLength!LiteralLength(char)]
      OBVIOUS
    <2>3. t.text = text /\ t.pos = p + 1 /\ t.contents = s.contents /\ LeftOf(t) = n - 1
      <3>1. s.pos + 1 <= Len(s.text) BY <1>1, <1>2, <1>3, <1>7
      <3>2. s \in Sources /\ 1 \in Nat OBVIOUS
      <3>3. /\ t.text = s.text /\ t.pos = s.pos + 1 /\ t.contents = s.contents
            /\ LeftOf(t) = LeftOf(s) - 1
        BY ONLY <2>1, <3>1, <3>2, Advance
      <3> QED BY ONLY <1>1, <1>2, <1>5, <3>3
    <2>4. c2.type = "literal" /\ c2.remaining = char + 1
      BY ONLY <2>2, RunsAtWork(s, b, c, d) DEF RunsAtWork, Runs, RunLength!LiteralLength
    <2>5. char < EodMarker /\ char # EodMarker /\ char + 1 # 0
      BY ONLY <1>6, <1>8, <1>18 DEF RunLength!LiteralMax
    <2>6. PICK m : m = IF char + 1 < n - 1 THEN char + 1 ELSE n - 1 OBVIOUS
    <2>7. h = n - 1 - m
      <3>1. h = n - 1 - (IF char + 1 < n THEN char + 1 ELSE n - 1)
        BY ONLY <1>9, <1>13, <2>5 DEF LeftBehind, RunLength!LiteralLength
      <3> QED BY ONLY <1>5, <1>8, <2>6, <3>1, L \in Nat, <1>6
    <2>8. L - n + 2 = t.pos + 1 /\ L - h = t.pos + m /\ LeftOf(t) - m = h
      <3>1. m \in Int BY ONLY <1>5, <1>6, <1>8, <2>6, L \in Nat
      <3>2. L - n + 2 = (p + 1) + 1 /\ L - h = (p + 1) + m /\ (n - 1) - m = h
        BY ONLY <1>4, <2>7, <3>1, p \in Nat, L \in Nat
      <3> QED BY ONLY <2>3, <3>2
    <2>9. from[n] = SubSeq(text, t.pos + 1, t.pos + m) \o from[h]
      BY ONLY <1>3, <1>9, <1>12, <1>13, <2>5, <2>8 DEF WithRun
    <2>10. LiteralLeft(t, c2) = m BY ONLY <2>3, <2>4, <2>6 DEF LiteralLeft
    <2>11. RunsAhead(t, b, c2) = from[n]
      BY ONLY <1>10, <2>3, <2>4, <2>5, <2>8, <2>9, <2>10, RunsAtWork(s, b, c, d)
         DEF RunsAhead, RunsAtWork
    <2> QED BY ONLY <1>17, <2>1, <2>2, <2>3, <2>11
  <1>19. ASSUME char > EodMarker, n >= 2
         PROVE  RunsWhole([s EXCEPT !.pos = s.pos + 2], b,
                          [type |-> "copy", remaining |-> RunLength!CopyLength(char),
                           byte |-> s.text[s.pos + 2]], d)
    <2>1. PICK t : t = [s EXCEPT !.pos = s.pos + 2] OBVIOUS
    <2>2. PICK c2 : c2 = [type |-> "copy", remaining |-> RunLength!CopyLength(char),
                          byte |-> s.text[s.pos + 2]] OBVIOUS
    <2>3. t.text = text /\ t.pos = p + 2 /\ t.contents = s.contents /\ LeftOf(t) = n - 2
      <3>1. s.pos + 2 <= Len(s.text)
        <4>1. p + 2 <= L BY ONLY <1>4, <1>19, p \in Nat, L \in Nat
        <4> QED BY ONLY <1>1, <1>2, <1>3, <4>1
      <3>2. s \in Sources /\ 2 \in Nat OBVIOUS
      <3>3. /\ t.text = s.text /\ t.pos = s.pos + 2 /\ t.contents = s.contents
            /\ LeftOf(t) = LeftOf(s) - 2
        BY ONLY <2>1, <3>1, <3>2, Advance
      <3> QED BY ONLY <1>1, <1>2, <1>5, <3>3
    <2>4. char # EodMarker /\ ~(char < EodMarker) /\ n # 1 /\ RunLength!CopyLength(char) # 0
      BY ONLY <1>5, <1>6, <1>8, <1>19, L \in Nat DEF RunLength!CopyLength, RunLength!CopyBase
    <2>5. h = n - 2 BY ONLY <1>9, <1>13, <2>4 DEF LeftBehind
    <2>6. CharAt(text, n - 1) = s.text[s.pos + 2]
      <3>1. L - (n - 1) + 1 = p + 2 BY ONLY <1>4, p \in Nat, L \in Nat
      <3> QED BY ONLY <1>1, <1>2, <1>3, <3>1 DEF CharAt
    <2>7. from[n] = [i \in 1 .. RunLength!CopyLength(char) |-> s.text[s.pos + 2]] \o from[n - 2]
      BY ONLY <1>9, <1>12, <1>13, <2>4, <2>5, <2>6 DEF WithRun
    <2>8. /\ c2.type = "copy" /\ c2.remaining = RunLength!CopyLength(char)
          /\ c2.byte = s.text[s.pos + 2]
      BY ONLY <2>2
    <2>9. RunsAhead(t, b, c2) = from[n]
      BY ONLY <1>10, <2>3, <2>4, <2>7, <2>8, RunsAtWork(s, b, c, d) DEF RunsAhead, RunsAtWork
    <2> QED BY ONLY <1>17, <2>1, <2>2, <2>3, <2>9
  <1>20. ASSUME char > EodMarker, n = 1 PROVE RunsAhead(s, b, c) = <<>>
    <2>1. char # EodMarker /\ ~(char < EodMarker) BY ONLY <1>6, <1>8, <1>20
    <2> QED BY ONLY <1>9, <1>11, <1>12, <1>20, <2>1 DEF WithRun
  <1>21. ASSUME char = EodMarker PROVE RunsAhead(s, b, c) = <<>>
    BY ONLY <1>9, <1>11, <1>12, <1>21 DEF WithRun
  <1> QED BY ONLY <1>5, <1>8, <1>18, <1>19, <1>20, <1>21

\* The next m bytes of a run, and what is left of it.
NextOfRun(s, b, c, m, t, more, b2, c2) ==
    /\ c.type # "none" /\ c.remaining # 0 /\ m \in Nat /\ m <= c.remaining
    /\ b2 \in Buffers /\ b2.data = b.data \o more /\ b2.index = 0 /\ b2.eod = b.eod
    /\ c2 = [c EXCEPT !.remaining = c.remaining - m]
    /\ \/ /\ c.type = "literal" /\ m <= LeftOf(s)
          /\ t = [s EXCEPT !.pos = s.pos + m] /\ more = SubSeq(s.text, s.pos + 1, s.pos + m)
       \/ c.type # "literal" /\ t = s /\ more = [i \in 1 .. m |-> c.byte]

\* Bytes of the run are put into the buffer.
LEMMA RunGoesOn ==
    ASSUME NEW s, NEW b, NEW c, NEW d, RunsAtWork(s, b, c, d),
           NEW m, NEW t, NEW more, NEW b2, NEW c2, NextOfRun(s, b, c, m, t, more, b2, c2)
    PROVE  RunsWhole(t, b2, c2, d) /\ more \in Bytes /\ Len(more) = m /\ c2 \in Runs
  <1> SUFFICES
        ASSUME c.type # "none", c.remaining # 0, m \in Nat, m <= c.remaining,
               b2 \in Buffers, b2.data = b.data \o more, b2.index = 0, b2.eod = b.eod,
               c2 = [c EXCEPT !.remaining = c.remaining - m],
               \/ /\ c.type = "literal" /\ m <= LeftOf(s)
                  /\ t = [s EXCEPT !.pos = s.pos + m] /\ more = SubSeq(s.text, s.pos + 1, s.pos + m)
               \/ /\ c.type # "literal" /\ t = s
                  /\ more = [i \in 1 .. m |-> c.byte]
        PROVE  RunsWhole(t, b2, c2, d) /\ more \in Bytes /\ Len(more) = m /\ c2 \in Runs
    BY DEF NextOfRun
  <1> USE DEF RunsAtWork
  <1>1. PICK text \in RunTexts : text = s.text OBVIOUS
  <1>2. PICK p \in Nat : p = s.pos BY DEF Sources
  <1>3. PICK L \in Nat : L = Len(text)
    <2>1. Len(text) \in Nat BY ONLY text \in RunTexts, LenProperties DEF RunTexts
    <2> QED BY ONLY <2>1
  <1>4. PICK n \in Nat : n = L - p /\ n = LeftOf(s) BY <1>1, <1>2, <1>3 DEF LeftOf
  <1>5. PICK r \in Nat : r = c.remaining BY DEF Runs
  <1>6. r # 0 /\ m <= r /\ r - m \in Nat BY <1>5
  <1>7. /\ c2 \in Runs /\ c2.type = c.type /\ c2.remaining = r - m /\ c2.byte = c.byte
    <2>1. c2 = [c EXCEPT !.remaining = r - m] BY <1>5
    <2> QED BY ONLY <1>6, <2>1, RunsAtWork(s, b, c, d) DEF RunsAtWork, Runs
  <1>8. PICK from : from = RunsRest(text) OBVIOUS
  <1>9. \A i \in 0 .. L : from[i] \in Bytes
    BY ONLY <1>3, <1>8, text \in RunTexts, FromIs
  <1>10. <<>> \in Bytes BY BytesAre DEF Bytes
  <1>11. \A x \in Bytes : <<>> \o x = x /\ x \o <<>> = x BY ONLY BytesConcat
  <1>12. ~b.eod /\ ~b2.eod /\ c.type # "none" OBVIOUS
  <1>13. CASE /\ c.type = "literal" /\ m <= LeftOf(s)
              /\ t = [s EXCEPT !.pos = s.pos + m] /\ more = SubSeq(s.text, s.pos + 1, s.pos + m)
    <2>1. PICK k \in Nat : k = IF r < n THEN r ELSE n OBVIOUS
    <2>2. m <= k /\ k <= n /\ k <= r BY ONLY <1>4, <1>6, <1>13, <2>1, r \in Nat, n \in Nat, m \in Nat
    <2>3. t.text = text /\ t.pos = p + m /\ t.contents = s.contents /\ LeftOf(t) = n - m
      <3>1. s.pos + m <= Len(s.text)
        <4>1. p + m <= L BY ONLY <1>4, <1>13, p \in Nat, L \in Nat, m \in Nat
        <4> QED BY ONLY <1>1, <1>2, <1>3, <4>1
      <3>2. s \in Sources OBVIOUS
      <3>3. /\ t.text = s.text /\ t.pos = s.pos + m /\ t.contents = s.contents
            /\ LeftOf(t) = LeftOf(s) - m
        BY ONLY <1>13, <3>1, <3>2, m \in Nat, Advance
      <3> QED BY ONLY <1>1, <1>2, <1>4, <3>3
    <2>4. PICK rest : rest = SubSeq(text, p + m + 1, p + k) OBVIOUS
    <2>5. more \in Bytes /\ Len(more) = m /\ rest \in Bytes /\ more \o rest = SubSeq(text, p + 1, p + k)
      <3>1. PICK e \in Nat : e = p + k OBVIOUS
      <3>2. p + m <= e /\ e <= Len(text)
        BY ONLY <1>3, <1>4, <2>2, <3>1, p \in Nat, L \in Nat, m \in Nat, k \in Nat, n \in Nat
      <3>3. text \in Bytes
        <4>1. 0 \in 0 .. Len(text) BY <1>3
        <4> QED BY ONLY <4>1, text \in RunTexts, FromIs
      <3>4. more = SubSeq(text, p + 1, p + m) /\ rest = SubSeq(text, p + m + 1, e)
        BY ONLY <1>1, <1>2, <1>13, <2>4, <3>1
      <3>5. PICK first : first = p + 1 OBVIOUS
      <3>6. PICK last : last = p + m OBVIOUS
      <3>7. PICK behind : behind = p + m + 1 OBVIOUS
      <3>8. more = SubSeq(text, first, last) /\ rest = SubSeq(text, behind, e)
        BY ONLY <3>4, <3>5, <3>6, <3>7
      <3>9. more \in Bytes /\ Len(more) = m /\ rest \in Bytes /\ more \o rest = SubSeq(text, first, e)
        <4>1. AreRead(text, p, m, e, first, last, behind)
          BY ONLY <3>2, <3>3, <3>5, <3>6, <3>7, p \in Nat, m \in Nat, e \in Nat DEF AreRead
        <4>2. IsRead(text, m, e, first, last, behind) BY ONLY <4>1, ReadAndUnread
        <4> QED BY ONLY <3>8, <4>2 DEF IsRead
      <3> QED BY ONLY <3>1, <3>5, <3>9
    <2>6. PICK next \in Bytes : next = from[n - k]
      <3>1. n - k \in 0 .. L BY ONLY <1>4, <2>2, p \in Nat, L \in Nat, n \in Nat, k \in Nat
      <3> QED BY ONLY <1>9, <3>1
    <2>7. RunsAhead(s, b, c) = SubSeq(text, p + 1, p + k) \o next
      <3>1. LiteralLeft(s, c) = k BY ONLY <1>4, <1>5, <2>1 DEF LiteralLeft
      <3> QED BY ONLY <1>1, <1>2, <1>4, <1>5, <1>6, <1>8, <1>12, <1>13, <2>6, <3>1 DEF RunsAhead
    <2>8. PICK ahead : ahead = rest \o next OBVIOUS
    <2>9. ahead \in Bytes /\ RunsAhead(s, b, c) = more \o ahead
      <3>1. more \in Bytes /\ rest \in Bytes /\ next \in Bytes BY ONLY <2>5, next \in Bytes
      <3>2. (more \o rest) \o next = more \o (rest \o next) /\ rest \o next \in Bytes
        BY ONLY <3>1, GoesOn
      <3> QED BY ONLY <2>5, <2>7, <2>8, <3>2
    <2>10. RunsAhead(t, b2, c2) = ahead
      <3>1. CASE r - m = 0
        <4>1. k = m BY ONLY <2>2, <3>1, r \in Nat, m \in Nat, k \in Nat
        <4>2. p + k < p + m + 1 /\ p + m + 1 \in Int /\ p + k \in Int
          BY ONLY <4>1, p \in Nat, m \in Nat
        <4>3. rest = <<>> BY ONLY <2>4, <4>2, SubSeqEmpty
        <4>4. ahead = next BY ONLY <1>11, <2>8, <4>3, next \in Bytes
        <4> QED BY ONLY <1>7, <1>8, <1>12, <2>3, <2>6, <3>1, <4>1, <4>4 DEF RunsAhead
      <3>2. CASE r - m # 0
        <4>1. LiteralLeft(t, c2) = k - m
          <5>1. (IF r - m < n - m THEN r - m ELSE n - m) = k - m
            BY ONLY <2>1, r \in Nat, n \in Nat, m \in Nat
          <5> QED BY ONLY <1>7, <2>3, <5>1 DEF LiteralLeft
        <4>2. (p + m) + (k - m) = p + k /\ (n - m) - (k - m) = n - k
          BY ONLY p \in Nat, m \in Nat, k \in Nat, n \in Nat
        <4> QED BY ONLY <1>7, <1>8, <1>12, <1>13, <2>3, <2>4, <2>6, <2>8, <3>2, <4>1, <4>2 DEF RunsAhead
      <3> QED BY <3>1, <3>2
    <2>11. RunsWhole(t, b2, c2, d)
      BY ONLY <2>3, <2>5, <2>9, <2>10, RunsAtWork(s, b, c, d), b2 \in Buffers,
              b2.data = b.data \o more, b2.index = 0, RunsGoOn
    <2> QED BY <1>7, <2>5, <2>11
  <1>14. CASE /\ c.type # "literal" /\ t = s
              /\ more = [i \in 1 .. m |-> c.byte]
    <2>1. PICK v \in Int : v = c.byte BY DEF Runs
    <2>2. PICK rest : rest = [i \in 1 .. r - m |-> v] OBVIOUS
    <2>3. PICK all : all = [i \in 1 .. r |-> v] OBVIOUS
    <2>4. more \in Bytes /\ Len(more) = m /\ \A i \in 1 .. m : more[i] = v
      BY ONLY <1>14, <2>1, m \in Nat, v \in Int DEF Bytes, Symbols
    <2>5. rest \in Bytes /\ Len(rest) = r - m /\ \A i \in 1 .. r - m : rest[i] = v
      BY ONLY <1>6, <2>2, v \in Int DEF Bytes, Symbols
    <2>6. all \in Bytes /\ Len(all) = r /\ \A i \in 1 .. r : all[i] = v
      BY ONLY <2>3, r \in Nat, v \in Int DEF Bytes, Symbols
    <2>7. all = more \o rest
      <3>1. PICK w : w = more \o rest OBVIOUS
      <3>2. /\ w \in Seq(Symbols) /\ Len(w) = Len(more) + Len(rest)
            /\ \A i \in 1 .. Len(more) + Len(rest) :
                  w[i] = IF i <= Len(more) THEN more[i] ELSE rest[i - Len(more)]
        BY ONLY <2>4, <2>5, <3>1, ConcatProperties DEF Bytes
      <3>3. Len(more) + Len(rest) = r BY ONLY <2>4, <2>5, r \in Nat, m \in Nat
      <3>4. \A i \in 1 .. r : w[i] = v
        <4> TAKE i \in 1 .. r
        <4>1. CASE i <= m
          <5>1. i \in 1 .. m BY <4>1
          <5> QED BY ONLY <2>4, <3>2, <3>3, <4>1, <5>1, i \in 1 .. r
        <4>2. CASE ~(i <= m)
          <5>1. i - m \in 1 .. r - m BY <4>2
          <5> QED BY ONLY <2>4, <2>5, <3>2, <3>3, <4>2, <5>1, i \in 1 .. r
        <4> QED BY <4>1, <4>2
      <3>5. all \in Seq(Symbols) /\ Len(w) = Len(all) /\ \A i \in 1 .. Len(all) : all[i] = w[i]
        BY ONLY <2>6, <3>2, <3>3, <3>4 DEF Bytes
      <3> QED BY ONLY <3>1, <3>2, <3>5, SeqEqual
    <2>8. PICK next \in Bytes : next = from[n]
      <3>1. n \in 0 .. L BY ONLY <1>4, p \in Nat, L \in Nat, n \in Nat
      <3> QED BY ONLY <1>9, <3>1
    <2>9. RunsAhead(s, b, c) = all \o next
      BY ONLY <1>1, <1>4, <1>5, <1>6, <1>8, <1>12, <1>14, <2>1, <2>3, <2>8 DEF RunsAhead
    <2>10. PICK ahead : ahead = rest \o next OBVIOUS
    <2>11. ahead \in Bytes /\ RunsAhead(s, b, c) = more \o ahead
      <3>1. more \in Bytes /\ rest \in Bytes /\ next \in Bytes BY ONLY <2>4, <2>5, next \in Bytes
      <3>2. (more \o rest) \o next = more \o (rest \o next) /\ rest \o next \in Bytes
        BY ONLY <3>1, GoesOn
      <3> QED BY ONLY <2>7, <2>9, <2>10, <3>2
    <2>12. RunsAhead(t, b2, c2) = ahead
      <3>1. CASE r - m = 0
        <4>1. rest = <<>> BY ONLY <2>2, <3>1
        <4>2. ahead = next BY ONLY <1>11, <2>10, <4>1, next \in Bytes
        <4> QED BY ONLY <1>1, <1>4, <1>7, <1>8, <1>12, <1>14, <2>8, <3>1, <4>2 DEF RunsAhead
      <3>2. CASE r - m # 0
        BY ONLY <1>1, <1>4, <1>7, <1>8, <1>12, <1>14, <2>1, <2>2, <2>8, <2>10, <3>2 DEF RunsAhead
      <3> QED BY <3>1, <3>2
    <2>13. RunsWhole(t, b2, c2, d)
      <3>1. more \in Bytes /\ t.contents = s.contents BY ONLY <1>14, <2>4
      <3> QED BY ONLY <2>11, <2>12, <3>1, RunsAtWork(s, b, c, d), b2 \in Buffers,
                      b2.data = b.data \o more, b2.index = 0, RunsGoOn
    <2> QED BY <1>7, <2>4, <2>13
  <1> QED BY <1>13, <1>14

\* A step of the run-length decoder.
LEMMA RunsKeeps ==
    ASSUME FiltersInv, decoder = "RunLength", UNCHANGED decoder, RunLength!DecodeRuns
    PROVE  FiltersInv' /\ Unseen
  <1>1. Types /\ Working /\ AtEndOfData /\ Whole BY DEF FiltersInv
  <1>2. PICK s \in Sources : s = source /\ s.pos <= Len(s.text) /\ s.text \in RunTexts
    BY <1>1 DEF Types
  <1>3. PICK b \in Buffers : b = buffer BY <1>1 DEF Types
  <1>4. PICK c \in Runs : c = context BY <1>1 DEF Types
  <1>5. PICK d \in Bytes : d = delivered BY <1>1 DEF Types
  <1>6. block = RunLength!Working /\ block # Idle
    <2>1. block = RunLength!Working
      BY DEF RunLength!DecodeRuns, RunLength!StartRun, RunLength!CopyLiteral, RunLength!CopyRepeated,
             RunLength!BufferIsFull, RunLength!Decodes
    <2> QED BY ONLY <2>1, StartIs
  <1>7. call # Idle /\ b.index = 0 /\ ~b.eod
    BY ONLY <1>1, <1>3, <1>6, decoder = "RunLength" DEF Working, AtEndOfData
  <1>8. RunsWhole(s, b, c, d)
    BY ONLY <1>1, <1>2, <1>3, <1>4, <1>5, decoder = "RunLength" DEF Whole
  <1>9. RunsAtWork(s, b, c, d)
    BY ONLY <1>2, <1>7, <1>8, s \in Sources, b \in Buffers, c \in Runs, d \in Bytes DEF RunsAtWork
  <1>10. PICK data \in Bytes : data = b.data BY DEF Buffers
  <1>11. PICK N \in Nat : N = Len(data) BY BytesConcat
  <1>12. PICK size \in Nat : size = BufferSize BY FilterAssumption
  <1>13. N <= size BY ONLY <1>1, <1>3, <1>10, <1>11, <1>12 DEF Types
  <1>14. PICK p \in Nat : p = s.pos BY DEF Sources
  <1>15. PICK L \in Nat : L = Len(s.text)
    <2>1. Len(s.text) \in Nat BY ONLY <1>2, LenProperties DEF RunTexts
    <2> QED BY ONLY <2>1
  <1>16. LeftOf(s) = L - p /\ p <= L BY ONLY <1>2, <1>14, <1>15 DEF LeftOf
  <1>17. PICK t : t = source' OBVIOUS
  <1>18. PICK b2 : b2 = buffer' OBVIOUS
  <1>19. PICK c2 : c2 = context' OBVIOUS
  <1>20. PICK bEnd : bEnd = [b EXCEPT !.eod = TRUE] OBVIOUS
  <1>21. bEnd \in Buffers /\ bEnd.data = data /\ bEnd.index = 0
    BY ONLY <1>7, <1>10, <1>20, b \in Buffers DEF Buffers
  <1>22. ASSUME t \in Sources, t.pos <= Len(t.text), t.text = s.text, t.contents = s.contents,
                t.failures = 0 => s.failures = 0, delivered' = d, attached' = attached,
                b2 \in Buffers, b2.index = 0, Len(b2.data) <= BufferSize, c2 \in Runs,
                \/ block' = Idle /\ call' \in {Idle, call}
                \/ b2.eod = b.eod /\ block' = block /\ call' = call,
                RunsWhole(t, b2, c2, d)
         PROVE  FiltersInv' /\ Unseen
    <2>1. decoder' = "RunLength" /\ ~HasBlocks' BY DEF HasBlocks
    <2>2. 0 <= Len(b2.data)
      <3>1. b2.data \in Bytes BY ONLY <1>22 DEF Buffers
      <3>2. Len(b2.data) \in Nat BY ONLY <3>1, BytesConcat
      <3> QED BY ONLY <3>2
    <2>3. /\ call' = Idle \/ (call' \in [count : Nat, got : Nat] /\ call'.got < call'.count)
          /\ block' \in {Idle, RunLength!Working}
      BY ONLY <1>1, <1>6, <1>22 DEF Types
    <2>4. Types'
      BY ONLY <1>1, <1>2, <1>5, <1>17, <1>18, <1>19, <1>22, <2>1, <2>2, <2>3 DEF Types
    <2>5. Working' /\ AtEndOfData'
      BY ONLY <1>7, <1>18, <1>22, <2>1 DEF Working, AtEndOfData
    <2>6. Whole' BY ONLY <1>17, <1>18, <1>19, <1>22, <2>1 DEF Whole
    <2> QED BY ONLY <1>2, <1>3, <1>5, <1>7, <1>17, <1>22, <2>4, <2>5, <2>6 DEF FiltersInv, Unseen
  <1>23. PICK char : char = s.text[s.pos + 1] OBVIOUS
  <1>24. ASSUME NEW n \in Nat, n <= LeftOf(s), t = [s EXCEPT !.pos = s.pos + n]
         PROVE  /\ t \in Sources /\ t.pos <= Len(t.text) /\ t.text = s.text
                /\ t.contents = s.contents /\ t.failures = s.failures
    <2>1. s.pos + n <= Len(s.text)
      BY ONLY <1>14, <1>15, <1>16, <1>24, p \in Nat, L \in Nat, n \in Nat
    <2> QED BY ONLY <1>24, <2>1, s \in Sources, n \in Nat, Advance
  <1>25. ASSUME RunLength!GivesNone
         PROVE  /\ t \in Sources /\ t.pos = s.pos /\ t.text = s.text /\ t.contents = s.contents
                /\ t.failures = 0 => s.failures = 0 /\ LeftOf(s) = 0
    <2>1. \/ LeftOf(s) = 0 /\ t = s
          \/ t = [s EXCEPT !.failures = s.failures + 1]
      BY ONLY <1>2, <1>17, <1>25 DEF RunLength!GivesNone, RunLength!Left, LeftOf
    <2>2. PICK f \in Nat : f = s.failures BY DEF Sources
    <2>3. f + 1 \in Nat /\ f + 1 # 0 OBVIOUS
    <2>4. CASE t = [s EXCEPT !.failures = s.failures + 1]
      <3>1. /\ t \in Sources /\ t.pos = s.pos /\ t.text = s.text /\ t.contents = s.contents
            /\ t.failures = f + 1
        BY ONLY <2>2, <2>3, <2>4, s \in Sources DEF Sources
      <3> QED BY ONLY <2>3, <3>1
    <2> QED BY ONLY <2>1, <2>4, s \in Sources
  <1>26. CASE RunLength!StartRun
    <2>1. /\ c.type = "none" \/ c.remaining = 0
          /\ attached' = attached /\ delivered' = d
      BY ONLY <1>4, <1>5, <1>26 DEF RunLength!StartRun, RunLength!Decodes, RunLength!IsBetweenRuns
    <2>2. LeftOf(s) > 0 =>
             /\ char \in 0 .. 2 * EodMarker - 1
             /\ char <= RunLength!LiteralMax =>
                   RunsWhole([s EXCEPT !.pos = s.pos + 1], b,
                             [c EXCEPT !.type = "literal",
                                       !.remaining = RunLength!LiteralLength(char)], d)
             /\ char > EodMarker /\ LeftOf(s) >= 2 =>
                   RunsWhole([s EXCEPT !.pos = s.pos + 2], b,
                             [type |-> "copy", remaining |-> RunLength!CopyLength(char),
                              byte |-> s.text[s.pos + 2]], d)
             /\ char > EodMarker /\ LeftOf(s) = 1 => RunsAhead(s, b, c) = <<>>
             /\ char = EodMarker => RunsAhead(s, b, c) = <<>>
      BY ONLY <1>9, <1>23, <2>1, RunBegins
    <2>3. EodMarker \in Nat BY DecodersAssumption
    <2>4. CASE RunLength!StartsLiteral
      <3>1. /\ 1 <= LeftOf(s) /\ t = [s EXCEPT !.pos = s.pos + 1] /\ char <= RunLength!LiteralMax
            /\ c2 = [c EXCEPT !.type = "literal", !.remaining = RunLength!LiteralLength(char)]
            /\ b2 = b /\ call' = call /\ block' = block
        BY ONLY <1>2, <1>3, <1>4, <1>17, <1>18, <1>19, <1>23, <2>4
           DEF RunLength!StartsLiteral, RunLength!Gives, RunLength!Left, RunLength!NextChar, LeftOf
      <3>2. /\ t \in Sources /\ t.pos <= Len(t.text) /\ t.text = s.text
            /\ t.contents = s.contents /\ t.failures = s.failures
        <4>1. 1 \in Nat OBVIOUS
        <4> QED BY ONLY <1>24, <3>1, <4>1
      <3>3. LeftOf(s) > 0 BY ONLY <1>16, <3>1, p \in Nat, L \in Nat
      <3>4. RunsWhole(t, b, c2, d) BY ONLY <2>2, <3>1, <3>3
      <3>5. c2 \in Runs
        <4>1. PICK r \in Nat : r = RunLength!LiteralLength(char)
          BY ONLY <2>2, <2>3, <3>3 DEF RunLength!LiteralLength
        <4> QED BY ONLY <3>1, <4>1, c \in Runs DEF Runs
      <3> QED BY ONLY <1>7, <1>10, <1>11, <1>12, <1>13, <1>22, <2>1, <3>1, <3>2, <3>4, <3>5,
                      b \in Buffers
    <2>5. CASE RunLength!StartsCopy
      <3>1. /\ LeftOf(s) > 0 /\ char > EodMarker
            /\ \/ /\ 2 <= LeftOf(s) /\ t = [s EXCEPT !.pos = s.pos + 2]
                  /\ c2 = [type |-> "copy", remaining |-> RunLength!CopyLength(char),
                           byte |-> s.text[s.pos + 2]]
                  /\ b2 = b /\ call' = call /\ block' = block
               \/ /\ t = [s EXCEPT !.pos = s.pos + 1,
                                   !.failures = s.failures + IF LeftOf(s) = 1 THEN 0 ELSE 1]
                  /\ c2 = [c EXCEPT !.type = "copy", !.remaining = RunLength!CopyLength(char)]
                  /\ b2 = bEnd /\ block' = Idle /\ call' \in {Idle, call}
        BY ONLY <1>2, <1>3, <1>4, <1>17, <1>18, <1>19, <1>20, <1>23, <2>5
           DEF RunLength!StartsCopy, RunLength!Gives, RunLength!Left, RunLength!NextChar, LeftOf,
               RunLength!Returns
      <3>2. PICK r \in Nat : r = RunLength!CopyLength(char)
        BY ONLY <2>2, <2>3, <3>1 DEF RunLength!CopyLength, RunLength!CopyBase
      <3>3. CASE /\ 2 <= LeftOf(s) /\ t = [s EXCEPT !.pos = s.pos + 2]
                 /\ c2 = [type |-> "copy", remaining |-> RunLength!CopyLength(char),
                          byte |-> s.text[s.pos + 2]]
                 /\ b2 = b /\ call' = call /\ block' = block
        <4>1. /\ t \in Sources /\ t.pos <= Len(t.text) /\ t.text = s.text
              /\ t.contents = s.contents /\ t.failures = s.failures
          <5>1. 2 \in Nat OBVIOUS
          <5> QED BY ONLY <1>24, <3>3, <5>1
        <4>2. LeftOf(s) >= 2 BY ONLY <1>16, <3>3, p \in Nat, L \in Nat
        <4>3. RunsWhole(t, b, c2, d) BY ONLY <2>2, <3>1, <3>3, <4>2
        <4>4. c2 \in Runs
          <5>1. s.text[s.pos + 2] \in Int
            <6>1. p + 2 \in 1 .. L BY ONLY <1>16, <4>2, p \in Nat, L \in Nat
            <6>2. s.text \in Seq(Int) BY DEF Sources
            <6> QED BY ONLY <1>14, <1>15, <6>1, <6>2
          <5> QED BY ONLY <3>2, <3>3, <5>1 DEF Runs
        <4> QED BY ONLY <1>7, <1>10, <1>11, <1>12, <1>13, <1>22, <2>1, <3>3, <4>1, <4>3, <4>4,
                        b \in Buffers
      <3>4. CASE /\ t = [s EXCEPT !.pos = s.pos + 1,
                                  !.failures = s.failures + IF LeftOf(s) = 1 THEN 0 ELSE 1]
                 /\ c2 = [c EXCEPT !.type = "copy", !.remaining = RunLength!CopyLength(char)]
                 /\ b2 = bEnd /\ block' = Idle /\ call' \in {Idle, call}
        <4>1. PICK f \in Nat : f = s.failures BY DEF Sources
        <4>2. PICK g \in Nat : g = f + IF LeftOf(s) = 1 THEN 0 ELSE 1 OBVIOUS
        <4>3. p + 1 \in Nat /\ p + 1 <= L BY ONLY <1>16, <3>1, p \in Nat, L \in Nat
        <4>4. t = [s EXCEPT !.pos = p + 1, !.failures = g] BY ONLY <1>14, <3>4, <4>1, <4>2
        <4>5. /\ t \in Sources /\ t.pos = p + 1 /\ t.text = s.text /\ t.contents = s.contents
              /\ t.failures = g
          BY ONLY <4>3, <4>4, s \in Sources, g \in Nat DEF Sources
        <4>6. g = 0 => f = 0 /\ LeftOf(s) = 1 BY ONLY <4>2, f \in Nat
        <4>7. t.failures = 0 => RunsAhead(s, b, c) = <<>> BY ONLY <2>2, <3>1, <4>5, <4>6
        <4>8. RunsWhole(t, bEnd, c2, d) BY ONLY <1>9, <1>20, <4>5, <4>7, RunsStop
        <4>9. c2 \in Runs BY ONLY <3>2, <3>4, c \in Runs DEF Runs
        <4> QED BY ONLY <1>11, <1>12, <1>13, <1>15, <1>21, <1>22, <2>1, <3>4, <4>1, <4>3, <4>5,
                        <4>6, <4>8, <4>9
      <3> QED BY ONLY <3>1, <3>3, <3>4
    <2>6. CASE RunLength!EndsData
      <3>1. block' = Idle /\ call' \in {Idle, call} BY ONLY <2>6 DEF RunLength!EndsData, RunLength!Returns
      <3>2. /\ b2 = bEnd
            /\ \/ RunLength!GivesNone /\ c2 = c
               \/ /\ 1 <= LeftOf(s) /\ t = [s EXCEPT !.pos = s.pos + 1] /\ char = EodMarker
                  /\ c2 = [c EXCEPT !.type = "none"]
        BY ONLY <1>2, <1>3, <1>4, <1>17, <1>18, <1>19, <1>20, <1>23, <2>6
           DEF RunLength!EndsData, RunLength!Gives, RunLength!Left, RunLength!NextChar, LeftOf,
               RunLength!Ended
      <3>3. c2 \in Runs BY ONLY <3>2, c \in Runs DEF Runs
      <3>4. CASE RunLength!GivesNone /\ c2 = c
        <4>1. LeftOf(s) = 0 => RunsAhead(s, b, c) = <<>>
          <5>1. RunsRest(s.text)[0] = <<>> BY ONLY <1>2, RunsRestIs
          <5> QED BY ONLY <1>7, <2>1, <5>1 DEF RunsAhead
        <4>2. RunsWhole(t, bEnd, c2, d) BY ONLY <1>9, <1>20, <1>25, <3>4, <4>1, RunsStop
        <4> QED BY ONLY <1>2, <1>11, <1>12, <1>13, <1>21, <1>22, <1>25, <2>1, <3>1, <3>2, <3>3,
                        <3>4, <4>2
      <3>5. CASE /\ 1 <= LeftOf(s) /\ t = [s EXCEPT !.pos = s.pos + 1] /\ char = EodMarker
                 /\ c2 = [c EXCEPT !.type = "none"]
        <4>1. /\ t \in Sources /\ t.pos <= Len(t.text) /\ t.text = s.text
              /\ t.contents = s.contents /\ t.failures = s.failures
          <5>1. 1 \in Nat OBVIOUS
          <5> QED BY ONLY <1>24, <3>5, <5>1
        <4>2. RunsAhead(s, b, c) = <<>>
          <5>1. LeftOf(s) > 0 BY ONLY <1>16, <3>5, p \in Nat, L \in Nat
          <5> QED BY ONLY <2>2, <3>5, <5>1
        <4>3. RunsWhole(t, bEnd, c2, d) BY ONLY <1>9, <1>20, <4>1, <4>2, RunsStop
        <4> QED BY ONLY <1>11, <1>12, <1>13, <1>21, <1>22, <2>1, <3>1, <3>2, <3>3, <4>1, <4>3
      <3> QED BY ONLY <3>2, <3>4, <3>5
    <2> QED BY ONLY <1>26, <2>4, <2>5, <2>6 DEF RunLength!StartRun
  <1>27. ASSUME NEW m \in Nat, m <= c.remaining, N + m <= size, c.type # "none", c.remaining # 0,
                NEW more, b2 = [b EXCEPT !.data = data \o more],
                c2 = [c EXCEPT !.remaining = c.remaining - m],
                \/ /\ c.type = "literal" /\ m <= LeftOf(s)
                   /\ t = [s EXCEPT !.pos = s.pos + m] /\ more = SubSeq(s.text, s.pos + 1, s.pos + m)
                \/ c.type # "literal" /\ t = s /\ more = [i \in 1 .. m |-> c.byte],
                delivered' = d, attached' = attached, block' = block, call' = call
         PROVE  FiltersInv' /\ Unseen
    <2>1. more \in Bytes /\ Len(more) = m
      <3>1. CASE m <= LeftOf(s) /\ more = SubSeq(s.text, s.pos + 1, s.pos + m)
        <4>1. s.text \in Seq(Int) BY DEF Sources
        <4>2. p + m <= Len(s.text) BY ONLY <1>15, <1>16, <3>1, p \in Nat, L \in Nat, m \in Nat
        <4> QED BY ONLY <1>14, <3>1, <4>1, <4>2, p \in Nat, m \in Nat, PartIs
      <3>2. CASE more = [i \in 1 .. m |-> c.byte]
        <4>1. c.byte \in Int BY DEF Runs
        <4> QED BY ONLY <3>2, <4>1, m \in Nat DEF Bytes, Symbols
      <3> QED BY ONLY <1>27, <3>1, <3>2
    <2>2. data \o more \in Bytes /\ Len(data \o more) = N + m
      BY ONLY <1>11, <2>1, data \in Bytes, BytesConcat
    <2>3. b2 \in Buffers /\ b2.data = data \o more /\ b2.index = 0 /\ b2.eod = b.eod
      BY ONLY <1>7, <1>27, <2>2, b \in Buffers DEF Buffers
    <2>4. RunsWhole(t, b2, c2, d) /\ c2 \in Runs
      <3>1. NextOfRun(s, b, c, m, t, more, b2, c2)
        BY ONLY <1>7, <1>10, <1>27, <2>3, m \in Nat DEF NextOfRun
      <3> QED BY ONLY <1>9, <3>1, RunGoesOn
    <2>5. /\ t \in Sources /\ t.pos <= Len(t.text) /\ t.text = s.text
          /\ t.contents = s.contents /\ t.failures = s.failures
      BY ONLY <1>2, <1>24, <1>27, s \in Sources, m \in Nat
    <2>6. Len(b2.data) <= BufferSize BY ONLY <1>12, <1>27, <2>2, <2>3
    <2> QED BY ONLY <1>22, <1>27, <2>3, <2>4, <2>5, <2>6
  <1>28. PICK fits : fits = RunLength!Fits OBVIOUS
  <1>29. ASSUME RunLength!Decodes, ~RunLength!IsBetweenRuns
         PROVE  /\ fits \in Nat /\ fits <= c.remaining /\ N + fits <= size
                /\ c.type # "none" /\ c.remaining # 0
                /\ attached' = attached /\ delivered' = d
    <2>1. PICK r \in Nat : r = c.remaining BY DEF Runs
    <2>2. /\ c.type # "none" /\ c.remaining # 0 /\ attached' = attached /\ delivered' = d
      BY ONLY <1>4, <1>5, <1>29 DEF RunLength!Decodes, RunLength!IsBetweenRuns
    <2>3. fits = IF r < size - N THEN r ELSE size - N
      BY ONLY <1>3, <1>4, <1>10, <1>11, <1>12, <1>28, <2>1 DEF RunLength!Fits, RunLength!Room
    <2>4. fits \in Nat /\ fits <= r /\ N + fits <= size
      BY ONLY <1>13, <2>3, r \in Nat, N \in Nat, size \in Nat
    <2> QED BY ONLY <2>1, <2>2, <2>4
  <1>30. CASE RunLength!CopyLiteral
    <2>1. RunLength!Decodes /\ ~RunLength!IsBetweenRuns /\ c.type = "literal"
      BY ONLY <1>4, <1>30 DEF RunLength!CopyLiteral
    <2>2. \/ /\ \E n \in 1 .. fits : RunLength!Gives(n)
             /\ RunLength!Puts(SubSeq(source.text, source.pos + 1, source'.pos))
          \/ /\ RunLength!GivesNone /\ RunLength!Returns(buffer.data)
             /\ context' = RunLength!Interrupted /\ UNCHANGED buffer
      BY ONLY <1>28, <1>30 DEF RunLength!CopyLiteral
    <2>3. CASE /\ \E n \in 1 .. fits : RunLength!Gives(n)
               /\ RunLength!Puts(SubSeq(source.text, source.pos + 1, source'.pos))
      <3>1. PICK m \in 1 .. fits : RunLength!Gives(m) BY <2>3
      <3>2. /\ fits \in Nat /\ fits <= c.remaining /\ N + fits <= size
            /\ c.type # "none" /\ c.remaining # 0 /\ attached' = attached /\ delivered' = d
        BY ONLY <1>29, <2>1
      <3>3. m \in Nat /\ m <= c.remaining /\ N + m <= size
        <4>1. PICK r \in Nat : r = c.remaining BY DEF Runs
        <4> QED BY ONLY <3>2, <4>1, m \in 1 .. fits, N \in Nat, size \in Nat
      <3>4. m <= LeftOf(s) /\ t = [s EXCEPT !.pos = s.pos + m]
        BY ONLY <1>2, <1>17, <3>1 DEF RunLength!Gives, RunLength!Left, LeftOf
      <3>5. t.pos = s.pos + m BY ONLY <1>14, <3>3, <3>4, s \in Sources, p \in Nat DEF Sources
      <3>6. PICK more : more = SubSeq(s.text, s.pos + 1, s.pos + m) OBVIOUS
      <3>7. Len(more) = m
        <4>1. s.text \in Seq(Int) BY DEF Sources
        <4>2. p + m <= Len(s.text)
          BY ONLY <1>15, <1>16, <3>3, <3>4, p \in Nat, L \in Nat
        <4> QED BY ONLY <1>14, <3>3, <3>6, <4>1, <4>2, p \in Nat, PartIs
      <3>8. /\ b2 = [b EXCEPT !.data = data \o more] /\ c2 = [c EXCEPT !.remaining = c.remaining - m]
            /\ call' = call /\ block' = block
        BY ONLY <1>2, <1>3, <1>4, <1>10, <1>17, <1>18, <1>19, <2>3, <3>5, <3>6, <3>7
           DEF RunLength!Puts, RunLength!Consumed
      <3> QED BY ONLY <1>27, <2>1, <3>2, <3>3, <3>4, <3>6, <3>8
    <2>4. CASE /\ RunLength!GivesNone /\ RunLength!Returns(buffer.data)
               /\ context' = RunLength!Interrupted /\ UNCHANGED buffer
      <3>1. b2 = b /\ c2 = c /\ block' = Idle /\ call' \in {Idle, call}
        BY ONLY <1>3, <1>4, <1>18, <1>19, <2>4 DEF RunLength!Returns, RunLength!Interrupted
      <3>2. /\ t \in Sources /\ t.pos = s.pos /\ t.text = s.text /\ t.contents = s.contents
            /\ t.failures = 0 => s.failures = 0
        BY ONLY <1>25, <2>4
      <3>3. RunsAhead(t, b, c) = RunsAhead(s, b, c) BY ONLY <3>2 DEF RunsAhead, LiteralLeft, LeftOf
      <3>4. RunsWhole(t, b, c, d) BY ONLY <1>7, <1>8, <3>2, <3>3 DEF RunsWhole
      <3>5. Len(b.data) <= BufferSize BY ONLY <1>10, <1>11, <1>12, <1>13
      <3> QED BY ONLY <1>2, <1>7, <1>22, <1>29, <2>1, <3>1, <3>2, <3>4, <3>5, b \in Buffers, c \in Runs
    <2> QED BY ONLY <2>2, <2>3, <2>4
  <1>31. CASE RunLength!CopyRepeated
    <2>1. RunLength!Decodes /\ ~RunLength!IsBetweenRuns /\ c.type = "copy"
      BY ONLY <1>4, <1>31 DEF RunLength!CopyRepeated
    <2>2. /\ fits \in Nat /\ fits <= c.remaining /\ N + fits <= size
          /\ c.type # "none" /\ c.remaining # 0 /\ attached' = attached /\ delivered' = d
      BY ONLY <1>29, <2>1
    <2>3. PICK more : more = [i \in 1 .. fits |-> c.byte] OBVIOUS
    <2>4. Len(more) = fits BY ONLY <2>2, <2>3
    <2>5. /\ b2 = [b EXCEPT !.data = data \o more] /\ c2 = [c EXCEPT !.remaining = c.remaining - fits]
          /\ t = s /\ call' = call /\ block' = block
      BY ONLY <1>2, <1>3, <1>4, <1>10, <1>17, <1>18, <1>19, <1>28, <1>31, <2>3, <2>4
         DEF RunLength!CopyRepeated, RunLength!Puts, RunLength!Consumed
    <2>6. c.type # "literal" BY ONLY <2>1
    <2> QED BY ONLY <1>27, <2>2, <2>3, <2>5, <2>6
  <1>32. CASE RunLength!BufferIsFull
    <2>1. /\ t = s /\ b2 = b /\ c2 = c /\ block' = Idle /\ call' \in {Idle, call}
          /\ attached' = attached /\ delivered' = d
      BY ONLY <1>2, <1>3, <1>4, <1>5, <1>17, <1>18, <1>19, <1>32
         DEF RunLength!BufferIsFull, RunLength!Returns
    <2>2. Len(b.data) <= BufferSize BY ONLY <1>10, <1>11, <1>12, <1>13
    <2> QED BY ONLY <1>2, <1>7, <1>8, <1>22, <2>1, <2>2, s \in Sources, b \in Buffers, c \in Runs
  <1> QED BY ONLY <1>26, <1>30, <1>31, <1>32, RunLength!DecodeRuns DEF RunLength!DecodeRuns

-----------------------------------------------------------------------------
(* The theorems                                                            *)

\* A filter begins with all of its text ahead.
LEMMA Begins ==
    ASSUME DecoderInit
    PROVE  FiltersInv /\ Promise!Init
  <1>1. PICK x \in Cases : Created(x) /\ decoder = x.decoder BY DEF DecoderInit
  <1>2. PICK text : text = x.text OBVIOUS
  <1>3. PICK contents : contents = x.contents OBVIOUS
  <1>4. PICK s : s = source OBVIOUS
  <1>5. PICK b : b = buffer OBVIOUS
  <1>6. /\ s = [text |-> text, contents |-> contents, pos |-> 0, failures |-> 0]
        /\ b = [data |-> <<>>, index |-> 0, eod |-> FALSE]
        /\ attached = FALSE /\ call = Idle /\ block = Idle /\ delivered = <<>>
        /\ context = RunLength!NoRun
    BY ONLY <1>1, <1>2, <1>3, <1>4, <1>5, DecoderInit DEF Created, DecoderInit
  <1>7. \/ /\ decoder = "ASCIIHex" /\ text \in Seq(Int) /\ HexEnds(text)
           /\ contents = HexContents(text)
        \/ decoder = "ASCII85" /\ text \in Seq(Int) /\ contents = ASCII85Contents(text)
        \/ decoder = "RunLength" /\ text \in RunTexts /\ contents = RunContents(text)
    BY ONLY <1>1, <1>2, <1>3, CasesAssumption DEF RunTexts
  <1>8. text \in Seq(Int)
    <2>1. CASE text \in RunTexts
      <3>1. Len(text) \in Nat BY ONLY <2>1, LenProperties DEF RunTexts
      <3>2. 0 \in 0 .. Len(text) BY ONLY <3>1
      <3> QED BY ONLY <2>1, <3>2, FromIs
    <2> QED BY <1>7, <2>1
  <1>9. PICK L \in Nat : L = Len(text) BY ONLY <1>8, LenProperties
  <1>10. LeftOf(s) = L /\ L \in 0 .. L /\ s.text = text /\ s.contents = contents /\ s.pos = 0
    <2>1. s.text = text /\ s.contents = contents /\ s.pos = 0 BY ONLY <1>6
    <2> QED BY ONLY <1>9, <2>1, L \in Nat DEF LeftOf
  <1>11. <<>> \in Seq(Int) /\ <<>> \in Bytes /\ Len(<<>>) = 0 BY BytesAre DEF Bytes
  <1>12. contents \in Bytes
    <2>1. CASE decoder = "ASCIIHex"
      <3>1. PICK rest \in [0 .. L -> Rests] : rest = HexRest(text) BY ONLY <1>8, <1>9, HexRestIs
      <3>2. rest[L] \in Rests BY ONLY <1>10
      <3>3. contents = rest[L][<<>>] BY ONLY <1>7, <1>9, <2>1, <3>1 DEF HexContents
      <3> QED BY ONLY <1>11, <3>2, <3>3 DEF Rests
    <2>2. CASE decoder = "ASCII85"
      <3>1. PICK rest \in [0 .. L -> Rests] : rest = ASCII85Rest(text)
        BY ONLY <1>8, <1>9, ASCII85RestIs
      <3>2. rest[L] \in Rests BY ONLY <1>10
      <3>3. contents = rest[L][<<>>] BY ONLY <1>7, <1>9, <2>2, <3>1 DEF ASCII85Contents
      <3> QED BY ONLY <1>11, <3>2, <3>3 DEF Rests
    <2>3. CASE decoder = "RunLength"
      <3>1. text \in RunTexts /\ contents = RunsRest(text)[L] BY ONLY <1>7, <1>9, <2>3 DEF RunContents
      <3> QED BY ONLY <1>9, <1>10, <3>1, FromIs
    <2> QED BY ONLY <1>7, <2>1, <2>2, <2>3
  <1>13. s \in Sources /\ b \in Buffers
    BY ONLY <1>6, <1>8, <1>11, <1>12 DEF Sources, Buffers
  <1>14. context \in Runs BY ONLY <1>6 DEF RunLength!NoRun, Runs
  <1>15. Types
    <2>1. s.pos <= Len(s.text) BY ONLY <1>9, <1>10, L \in Nat
    <2>2. b.index <= Len(b.data) /\ Len(b.data) <= BufferSize
      <3>1. b.data = <<>> /\ b.index = 0 BY ONLY <1>6
      <3>2. 0 <= BufferSize BY FilterAssumption
      <3> QED BY ONLY <1>11, <3>1, <3>2
    <2>3. decoder = "RunLength" => text \in RunTexts BY ONLY <1>7
    <2> QED BY ONLY <1>4, <1>5, <1>6, <1>7, <1>10, <1>11, <1>13, <1>14, <2>1, <2>2, <2>3 DEF Types
  <1>16. Working /\ AtEndOfData BY ONLY <1>6 DEF Working, AtEndOfData
  <1>17. Got(b, delivered) = <<>> /\ ~b.eod
    <2>1. b.index = 0 /\ b.data = <<>> /\ ~b.eod BY ONLY <1>6
    <2>2. Got(b, delivered) = delivered \o b.data BY ONLY <1>13, <2>1, GotAtWork
    <2> QED BY ONLY <1>6, <1>11, <2>1, <2>2, BytesConcat
  <1>18. <<>> \o contents = contents BY ONLY <1>12, BytesConcat
  <1>19. decoder = "ASCIIHex" => HexWhole(s, b, Idle, delivered)
    <2> SUFFICES ASSUME decoder = "ASCIIHex" PROVE HexWhole(s, b, Idle, delivered) OBVIOUS
    <2>1. HexAhead(s, b, Idle) = contents
      BY ONLY <1>7, <1>9, <1>10, <1>17, decoder = "ASCIIHex" DEF HexAhead, BlocksAhead, HexContents
    <2>2. Paired(s, b, Idle)
      <3>1. Digits(text, 0) = {} BY DEF Digits
      <3>2. Cardinality(Digits(text, 0)) = 0 BY ONLY <3>1, FS_EmptySet
      <3>3. 0 % 2 = 0 OBVIOUS
      <3>4. \A i \in 1 .. 0 : text[i] # ASCIIHex!EndMarker OBVIOUS
      <3> QED BY ONLY <1>10, <1>17, <3>2, <3>3, <3>4 DEF Paired
    <2>3. HexEnds(text) BY ONLY <1>7, decoder = "ASCIIHex"
    <2> QED BY ONLY <1>10, <1>17, <1>18, <2>1, <2>2, <2>3 DEF HexWhole
  <1>20. decoder = "ASCII85" => ASCII85Whole(s, b, Idle, delivered)
    <2> SUFFICES ASSUME decoder = "ASCII85" PROVE ASCII85Whole(s, b, Idle, delivered) OBVIOUS
    <2>1. ASCII85Ahead(s, b, Idle) = contents
      BY ONLY <1>7, <1>9, <1>10, <1>17, decoder = "ASCII85"
         DEF ASCII85Ahead, BlocksAhead, ASCII85Contents
    <2> QED BY ONLY <1>10, <1>17, <1>18, <2>1 DEF ASCII85Whole
  <1>21. decoder = "RunLength" => RunsWhole(s, b, context, delivered)
    <2> SUFFICES ASSUME decoder = "RunLength" PROVE RunsWhole(s, b, context, delivered) OBVIOUS
    <2>1. context.type = "none" BY ONLY <1>6 DEF RunLength!NoRun
    <2>2. RunsAhead(s, b, context) = contents
      BY ONLY <1>7, <1>9, <1>10, <1>17, <2>1, decoder = "RunLength" DEF RunsAhead, RunContents
    <2> QED BY ONLY <1>10, <1>12, <1>17, <1>18, <2>2 DEF RunsWhole
  <1>22. Whole BY ONLY <1>4, <1>5, <1>6, <1>19, <1>20, <1>21 DEF Whole
  <1>23. Promise!Init
    <2>1. ~(source.failures > 0) BY ONLY <1>4, <1>6
    <2>2. ~IsAtEnd BY ONLY <1>5, <1>17 DEF IsAtEnd, Eof
    <2> QED BY ONLY <1>6, <2>1, <2>2 DEF Promise!Init
  <1> QED BY ONLY <1>15, <1>16, <1>22, <1>23 DEF FiltersInv

\* What a client may see of a step.
Seen ==
    /\ source'.contents = source.contents /\ (source'.failures = 0 => source.failures = 0)
    /\ IsPrefix(delivered, delivered')
    /\ IsAtEnd => IsAtEnd' /\ delivered' = delivered
    /\ buffer.eod /\ decoder # "ASCIIHex" => source'.pos = source.pos

\* A step of a filter keeps the invariant, whatever the decoder.
LEMMA StepKeeps ==
    ASSUME FiltersInv, [DecoderNext]_vars
    PROVE  FiltersInv' /\ Seen
  <1>1. Types /\ AtEndOfData BY DEF FiltersInv
  <1>2. delivered \in Bytes BY ONLY <1>1 DEF Types
  <1>3. IsPrefix(delivered, delivered)
    BY ONLY <1>2, StartOf
  <1>4. ASSUME Unseen, block # Idle, buffer.eod /\ decoder # "ASCIIHex" => source'.pos = source.pos
        PROVE  Seen
    <2>1. ~IsAtEnd BY ONLY <1>4 DEF IsAtEnd
    <2> QED BY ONLY <1>3, <1>4, <2>1 DEF Seen, Unseen
  <1>5. CASE UNCHANGED vars
    <2>1. UNCHANGED <<source, attached, buffer, call, block, delivered, decoder, context>>
      BY ONLY <1>5 DEF vars, filterVars
    <2>2. FiltersInv'
      BY ONLY <2>1, FiltersInv DEF FiltersInv, Types, Working, AtEndOfData, Whole, HasBlocks
    <2>3. IsAtEnd' <=> IsAtEnd BY ONLY <2>1 DEF IsAtEnd, Eof, IsEmpty
    <2>4. UNCHANGED <<source, delivered>> BY ONLY <2>1
    <2> QED BY ONLY <1>3, <2>2, <2>3, <2>4 DEF Seen
  <1>6. CASE Kept /\ (Client \/ AtEnd)
    <2>1. /\ UNCHANGED <<source, buffer, block, delivered>>
          /\ block = Idle \/ UNCHANGED <<attached, call>>
      <3>0. block # Idle => call # Idle BY ONLY FiltersInv DEF FiltersInv, Working
      <3>1. CASE Attach \/ Detach
        <4>1. call = Idle /\ UNCHANGED <<source, buffer, block, delivered>>
          BY ONLY <3>1, Zenon DEF Attach, Detach
        <4> QED BY ONLY <3>0, <4>1
      <3>3. CASE Read BY ONLY <1>6, <3>0, <3>3 DEF Read, Kept
      <3>4. CASE AtEnd BY ONLY <1>6, <3>4 DEF AtEnd, Kept
      <3> QED BY ONLY <1>6, <3>1, <3>3, <3>4 DEF Client
    <2>2. attached' \in BOOLEAN
      BY ONLY <1>1, <1>6 DEF Types, Client, Attach, Detach, Read, AtEnd
    <2>3. call' = Idle \/ (call' \in [count : Nat, got : Nat] /\ call'.got < call'.count)
      <3>1. CASE Read
        <4>1. PICK count \in 1 .. CountMax : call' = [count |-> count, got |-> 0]
          BY ONLY <3>1 DEF Read
        <4>2. CountMax \in Nat BY FilterAssumption
        <4>3. count \in Nat /\ 0 < count BY ONLY <4>2
        <4> QED BY ONLY <4>1, <4>3
      <3>2. CASE Attach \/ Detach \/ AtEnd
        BY ONLY <1>1, <3>2 DEF Types, Attach, Detach, AtEnd
      <3> QED BY ONLY <1>6, <3>1, <3>2 DEF Client
    <2>4. FiltersInv' BY ONLY <1>6, <2>1, <2>2, <2>3, FiltersInv, ClientKeeps
    <2>5. IsAtEnd' <=> IsAtEnd BY ONLY <2>1 DEF IsAtEnd, Eof, IsEmpty
    <2> QED BY ONLY <1>3, <2>1, <2>4, <2>5 DEF Seen
  <1>7. CASE Kept /\ NoSource
    <2>1. FiltersInv' BY ONLY <1>7, FiltersInv, NoSourceKeeps
    <2>2. UNCHANGED <<source, buffer, delivered>> /\ block # Idle BY ONLY <1>7 DEF NoSource
    <2> QED BY ONLY <1>4, <2>1, <2>2 DEF Unseen
  <1>8. CASE Kept /\ Copy
    <2>1. FiltersInv' /\ IsPrefix(delivered, delivered') BY ONLY <1>8, FiltersInv, CopyKeeps
    <2>2. UNCHANGED source /\ ~IsAtEnd BY ONLY <1>8 DEF Copy, Kept, IsAtEnd, Eof
    <2> QED BY ONLY <2>1, <2>2 DEF Seen
  <1>9. ASSUME NEW start, Kept, Decode(start),
               \/ HasBlocks /\ start = ASCIIHex!Start
               \/ decoder = "RunLength" /\ start = RunLength!Working
        PROVE  FiltersInv' /\ Seen
    <2>1. FiltersInv' BY ONLY <1>9, FiltersInv, DecodeKeeps
    <2>2. UNCHANGED <<source, delivered>> /\ ~IsAtEnd
      BY ONLY <1>9 DEF Decode, MayDecode, IsAtEnd, Eof
    <2> QED BY ONLY <1>3, <2>1, <2>2 DEF Seen
  <1>10. CASE /\ decoder = "ASCIIHex" /\ UNCHANGED <<decoder, context>>
              /\ ASCIIHex!ReadChar \/ ASCIIHex!DecodeBlock
    <2>1. FiltersInv' /\ Unseen BY ONLY <1>10, FiltersInv, HexKeeps
    <2>2. block # Idle
      BY ONLY <1>10 DEF ASCIIHex!ReadChar, ASCIIHex!DecodeBlock, ASCIIHex!BlockIsRead
    <2> QED BY ONLY <1>4, <1>10, <2>1, <2>2
  <1>11. CASE /\ decoder = "ASCII85" /\ UNCHANGED <<decoder, context>>
              /\ ASCII85!ReadChar \/ ASCII85!DecodeBlock
    <2>1. FiltersInv' /\ Unseen BY ONLY <1>11, FiltersInv, ASCII85Keeps
    <2>2. block # Idle BY ONLY <1>11 DEF ASCII85!ReadChar, ASCII85!DecodeBlock
    <2>3. buffer.eod => block.ended BY ONLY <1>1, <1>11, <2>2 DEF AtEndOfData
    <2>4. block.ended => source' = source
      BY ONLY <1>11 DEF ASCII85!ReadChar, ASCII85!DecodeBlock
    <2> QED BY ONLY <1>4, <2>1, <2>2, <2>3, <2>4
  <1>12. CASE decoder = "RunLength" /\ UNCHANGED decoder /\ RunLength!DecodeRuns
    <2>1. FiltersInv' /\ Unseen BY ONLY <1>12, FiltersInv, RunsKeeps
    <2>2. block # Idle
      <3>1. block = RunLength!Working
        BY ONLY <1>12
           DEF RunLength!DecodeRuns, RunLength!StartRun, RunLength!CopyLiteral,
               RunLength!CopyRepeated, RunLength!BufferIsFull, RunLength!Decodes
      <3> QED BY ONLY <3>1, StartIs
    <2>3. ~buffer.eod BY ONLY <1>1, <1>12, <2>2 DEF AtEndOfData
    <2> QED BY ONLY <1>4, <2>1, <2>2, <2>3
  <1>13. \/ UNCHANGED vars
         \/ Kept /\ (Client \/ ReadGoesOn)
         \/ Kept /\ HasBlocks /\ Decode(ASCIIHex!Start)
         \/ Kept /\ decoder = "RunLength" /\ Decode(RunLength!Working)
         \/ /\ decoder = "ASCIIHex" /\ UNCHANGED <<decoder, context>>
            /\ ASCIIHex!ReadChar \/ ASCIIHex!DecodeBlock
         \/ /\ decoder = "ASCII85" /\ UNCHANGED <<decoder, context>>
            /\ ASCII85!ReadChar \/ ASCII85!DecodeBlock
         \/ decoder = "RunLength" /\ UNCHANGED decoder /\ RunLength!DecodeRuns
    BY ONLY [DecoderNext]_vars, StepIs
  <1>14. CASE Kept /\ HasBlocks /\ Decode(ASCIIHex!Start)
    <2>1. PICK start : start = ASCIIHex!Start OBVIOUS
    <2> QED BY ONLY <1>9, <1>14, <2>1
  <1>15. CASE Kept /\ decoder = "RunLength" /\ Decode(RunLength!Working)
    <2>1. PICK start : start = RunLength!Working OBVIOUS
    <2> QED BY ONLY <1>9, <1>15, <2>1
  <1> QED BY ONLY <1>5, <1>6, <1>7, <1>8, <1>10, <1>11, <1>12, <1>13, <1>14, <1>15 DEF ReadGoesOn

\* Three parts are the whole.
AreJoined(a, b, c, whole) == (a \o b) \o c = whole

\* The first part is a prefix of the whole, and is the whole if the others are empty.
LEMMA JoinedStart ==
    ASSUME NEW a \in Bytes, NEW b \in Bytes, NEW c \in Bytes, NEW whole,
           AreJoined(a, b, c, whole)
    PROVE  IsPrefix(a, whole) /\ (b = <<>> /\ c = <<>> => a = whole)
  <1>1. (a \o b) \o c = a \o (b \o c) /\ b \o c \in Bytes
    BY ConcatProperties, ConcatAssociative DEF Bytes
  <1>2. IsPrefix(a, a \o (b \o c)) BY ONLY <1>1, a \in Bytes, StartOf
  <1>3. a \o <<>> = a /\ <<>> \o <<>> = <<>> BY ConcatEmptySeq, EmptySeq DEF Bytes
  <1>4. whole = a \o (b \o c) BY ONLY <1>1, AreJoined(a, b, c, whole) DEF AreJoined
  <1> QED BY ONLY <1>2, <1>3, <1>4

\* What the invariant says to a client.
IsDelivered ==
    /\ source.failures \in Nat
    /\ source.failures = 0 \/ decoder = "RunLength" => IsPrefix(delivered, source.contents)
    /\ source.failures = 0 /\ IsAtEnd => delivered = source.contents

\* What is delivered is what the source encodes.
LEMMA WholeIsDelivered ==
    ASSUME FiltersInv
    PROVE  IsDelivered
  <1>1. Types /\ Whole BY DEF FiltersInv
  <1>2. PICK s \in Sources : s = source BY <1>1 DEF Types
  <1>3. PICK b \in Buffers : b = buffer BY <1>1 DEF Types
  <1>4. PICK d \in Bytes : d = delivered BY <1>1 DEF Types
  <1>5. PICK data \in Bytes : data = b.data BY DEF Buffers
  <1>6. PICK i \in Nat : i = b.index BY DEF Buffers
  <1>7. PICK unread : unread = SubSeq(data, i + 1, Len(data)) OBVIOUS
  <1>8. /\ unread \in Bytes /\ Got(b, d) = d \o unread
        /\ IsAtEnd => b.eod /\ block = Idle /\ unread = <<>>
    <2>1. i <= Len(data) BY ONLY <1>1, <1>3, <1>5, <1>6 DEF Types
    <2>2. unread \in Bytes BY ONLY <1>7, <2>1, data \in Bytes, i \in Nat, UnreadIs
    <2>3. Got(b, d) = d \o unread BY ONLY <1>5, <1>6, <1>7 DEF Got
    <2>4. IsAtEnd => b.eod /\ block = Idle /\ i >= Len(data)
      BY ONLY <1>3, <1>5, <1>6 DEF IsAtEnd, Eof, IsEmpty
    <2>5. i >= Len(data) => unread = <<>> BY ONLY <1>7, data \in Bytes, i \in Nat, UnreadIs
    <2>6. IsAtEnd => unread = <<>> BY ONLY <2>4, <2>5
    <2> QED BY ONLY <2>2, <2>3, <2>4, <2>6
  <1>9. ASSUME NEW ahead \in Bytes, Got(b, d) \o ahead = s.contents
        PROVE  IsPrefix(d, s.contents) /\ (IsAtEnd /\ ahead = <<>> => d = s.contents)
    <2>1. unread \in Bytes BY ONLY <1>8
    <2>2. AreJoined(d, unread, ahead, s.contents) BY ONLY <1>8, <1>9 DEF AreJoined
    <2>3. IsPrefix(d, s.contents) /\ (unread = <<>> /\ ahead = <<>> => d = s.contents)
      BY ONLY <2>1, <2>2, d \in Bytes, ahead \in Bytes, JoinedStart
    <2> QED BY ONLY <1>8, <2>3
  <1>10. ASSUME decoder = "RunLength"
         PROVE  IsPrefix(d, s.contents) /\ (s.failures = 0 /\ IsAtEnd => d = s.contents)
    <2>1. PICK c : c = context OBVIOUS
    <2>2. RunsWhole(s, b, c, d) BY ONLY <1>1, <1>2, <1>3, <1>4, <1>10, <2>1 DEF Whole
    <2>3. IsPrefix(d, s.contents) BY ONLY <1>9, <2>2 DEF RunsWhole
    <2>4. ASSUME s.failures = 0, IsAtEnd PROVE d = s.contents
      <3>1. RunsAhead(s, b, c) = <<>> BY ONLY <1>8, <2>4 DEF RunsAhead
      <3>2. PICK none \in Bytes : none = <<>>
        <4>1. <<>> \in Bytes BY BytesAre DEF Bytes
        <4> QED BY ONLY <4>1
      <3>3. Got(b, d) \o none = s.contents BY ONLY <2>2, <2>4, <3>1, <3>2 DEF RunsWhole
      <3> QED BY ONLY <1>9, <2>4, <3>2, <3>3
    <2> QED BY ONLY <2>3, <2>4
  <1>11. ASSUME decoder # "RunLength", s.failures = 0
         PROVE  IsPrefix(d, s.contents) /\ (IsAtEnd => d = s.contents)
    <2>1. PICK k : k = block OBVIOUS
    <2>2. block = Idle \/ block \in Blocks BY ONLY <1>1, <1>11 DEF Types, HasBlocks
    <2>3. PICK L \in Nat : L = Len(s.text)
      <3>1. s.text \in Seq(Int) BY DEF Sources
      <3> QED BY ONLY <3>1, LenProperties
    <2>4. LeftOf(s) \in 0 .. Len(s.text)
      <3>1. PICK p \in Nat : p = s.pos BY DEF Sources
      <3>2. p <= L BY ONLY <1>1, <1>2, <2>3, <3>1 DEF Types
      <3> QED BY ONLY <2>3, <3>1, <3>2, p \in Nat, L \in Nat DEF LeftOf
    <2>5. s.text \in Seq(Int) BY DEF Sources
    <2>6. <<>> \in Seq(Int) /\ <<>> \in Bytes BY BytesAre DEF Bytes
    <2>7. ASSUME NEW size, NEW bytes \in Bytes, NEW rest \in [0 .. Len(s.text) -> Rests],
                 NEW ahead, ahead = BlocksAhead(s, b, k, size, bytes, rest)
          PROVE  ahead \in Bytes /\ (IsAtEnd => ahead = <<>>)
      <3>1. PICK r : r = rest[LeftOf(s)] OBVIOUS
      <3>2. r \in Rests BY ONLY <2>4, <2>7, <3>1
      <3>3. r[<<>>] \in Bytes BY ONLY <2>6, <3>2 DEF Rests
      <3>4. bytes \o r[<<>>] \in Bytes BY ONLY <2>7, <3>3, BytesConcat
      <3>5. k # Idle => r[k.chars] \in Bytes
        <4>1. k # Idle => k.chars \in Seq(Int) BY ONLY <2>1, <2>2 DEF Blocks
        <4> QED BY ONLY <3>2, <4>1 DEF Rests
      <3> QED BY ONLY <1>8, <2>1, <2>6, <2>7, <3>1, <3>3, <3>4, <3>5 DEF BlocksAhead
    <2>8. k # Idle => HexBytes(k.chars) \in Bytes /\ ASCII85!Bytes(k.chars) \in Bytes
      <3>1. k # Idle => k.chars \in Seq(Int) BY ONLY <2>1, <2>2 DEF Blocks
      <3> QED BY ONLY <3>1, BytesAre
    <2>9. k = Idle => \A bytes, size, rest : BlocksAhead(s, b, k, size, bytes, rest)
                                                = BlocksAhead(s, b, k, size, <<>>, rest)
      BY ONLY DEF BlocksAhead
    <2>10. CASE decoder = "ASCIIHex"
      <3>1. PICK ahead : ahead = HexAhead(s, b, k) OBVIOUS
      <3>2. PICK bytes \in Bytes : ahead = BlocksAhead(s, b, k, ASCIIHex!PairSize, bytes, HexRest(s.text))
        BY ONLY <2>6, <2>8, <2>9, <3>1 DEF HexAhead
      <3>3. PICK rest \in [0 .. Len(s.text) -> Rests] : rest = HexRest(s.text)
        BY ONLY <2>5, HexRestIs
      <3>4. ahead \in Bytes /\ (IsAtEnd => ahead = <<>>) BY ONLY <2>7, <3>2, <3>3, bytes \in Bytes
      <3>5. Got(b, d) \o ahead = s.contents
        BY ONLY <1>1, <1>2, <1>3, <1>4, <1>11, <2>1, <2>10, <3>1 DEF Whole, HexWhole
      <3> QED BY ONLY <1>9, <3>4, <3>5
    <2>11. CASE decoder = "ASCII85"
      <3>1. PICK ahead : ahead = ASCII85Ahead(s, b, k) OBVIOUS
      <3>2. PICK bytes \in Bytes : ahead = BlocksAhead(s, b, k, BlockSize, bytes, ASCII85Rest(s.text))
        BY ONLY <2>6, <2>8, <2>9, <3>1 DEF ASCII85Ahead
      <3>3. PICK rest \in [0 .. Len(s.text) -> Rests] : rest = ASCII85Rest(s.text)
        BY ONLY <2>5, ASCII85RestIs
      <3>4. ahead \in Bytes /\ (IsAtEnd => ahead = <<>>) BY ONLY <2>7, <3>2, <3>3, bytes \in Bytes
      <3>5. Got(b, d) \o ahead = s.contents
        BY ONLY <1>1, <1>2, <1>3, <1>4, <1>11, <2>1, <2>11, <3>1 DEF Whole, ASCII85Whole
      <3> QED BY ONLY <1>9, <3>4, <3>5
    <2> QED BY ONLY <1>1, <1>11, <2>10, <2>11 DEF Types
  <1>12. s.failures \in Nat BY DEF Sources
  <1>13. CASE decoder = "RunLength" BY ONLY <1>2, <1>4, <1>10, <1>12, <1>13 DEF IsDelivered
  <1>14. CASE decoder # "RunLength" BY ONLY <1>2, <1>4, <1>11, <1>12, <1>14 DEF IsDelivered
  <1> QED BY ONLY <1>13, <1>14

\* The invariant holds always.
LEMMA FiltersInvAlways == FiltersSpec => []FiltersInv
  <1>1. DecoderInit => FiltersInv BY Begins
  <1>2. FiltersInv /\ [DecoderNext]_vars => FiltersInv' BY StepKeeps
  <1> QED BY <1>1, <1>2, PTL DEF FiltersSpec

\* Whatever the text, the buffer, the calls and the failures, the buffer is
\* never filled beyond its size, and a run-length filter delivers the start of
\* the contents, also when it goes on behind a failure of its source.
THEOREM DeliversPrefixAlways == FiltersSpec => []DeliversPrefix
  <1>1. FiltersInv => DeliversPrefix
    <2> SUFFICES ASSUME FiltersInv PROVE DeliversPrefix OBVIOUS
    <2>1. Types /\ Working BY DEF FiltersInv
    <2>2. TypeOK BY ONLY <2>1 DEF Types, Working, TypeOK
    <2>3. decoder = "RunLength" => IsPrefix(delivered, source.contents)
      BY ONLY FiltersInv, WholeIsDelivered DEF IsDelivered
    <2> QED BY ONLY <2>2, <2>3 DEF DeliversPrefix
  <1> QED BY <1>1, FiltersInvAlways, PTL

\* Behind the end-of-data marker the decoders of ASCII85 and of runs read
\* nothing more from the source.
THEOREM NothingReadBehindMarkerAlways == FiltersSpec => NothingReadBehindMarker
  <1>1. FiltersInv /\ [DecoderNext]_vars =>
           [buffer.eod /\ decoder # "ASCIIHex" => source'.pos = source.pos]_vars
    BY StepKeeps DEF Seen
  <1> QED BY <1>1, FiltersInvAlways, PTL DEF FiltersSpec, NothingReadBehindMarker

\* A filter delivers what its source encodes, in its order and once, and is at
\* its end when all of it is delivered: the steps of cos_filter_read_ and of
\* each decoder implement those of CosDecoding.
THEOREM DeliversContentsAlways == FiltersSpec => DeliversContents
  <1>1. DecoderInit => Promise!Init BY Begins
  <1>2. FiltersInv => IsDelivered BY WholeIsDelivered
  <1>3. FiltersInv /\ IsDelivered /\ IsDelivered' /\ [DecoderNext]_vars
           => [Promise!Next]_(Promise!vars)
    <2> SUFFICES ASSUME FiltersInv, IsDelivered, IsDelivered', [DecoderNext]_vars
                 PROVE  Promise!Next
      OBVIOUS
    <2>1. Seen BY ONLY FiltersInv, [DecoderNext]_vars, StepKeeps
    <2>2. PICK f \in Nat : f = source.failures BY ONLY IsDelivered DEF IsDelivered
    <2>3. PICK g \in Nat : g = source'.failures BY ONLY IsDelivered' DEF IsDelivered
    <2>4. f > 0 => g > 0 BY ONLY <2>1, <2>2, <2>3 DEF Seen
    <2>5. g > 0 \/ g = 0 BY ONLY g \in Nat
    <2>6. g = 0 => IsPrefix(delivered', source.contents) /\ (IsAtEnd' => delivered' = source.contents)
      BY ONLY <2>1, <2>3, IsDelivered' DEF IsDelivered, Seen
    <2>7. IsPrefix(delivered, delivered') => Promise!IsPrefix(delivered, delivered')
      BY ONLY DEF IsPrefix, Promise!IsPrefix
    <2>8. IsPrefix(delivered', source.contents) => Promise!IsPrefix(delivered', source.contents)
      BY ONLY DEF IsPrefix, Promise!IsPrefix
    <2>9. Promise!Promised \/ g > 0 BY ONLY <2>5, <2>6, <2>8 DEF Promise!Promised
    <2> QED BY ONLY <2>1, <2>2, <2>3, <2>4, <2>7, <2>9 DEF Seen, Promise!Next
  <1> QED BY <1>1, <1>2, <1>3, FiltersInvAlways, PTL DEF FiltersSpec, DeliversContents, Promise!Spec
=============================================================================
