--------------------------- MODULE CosBytes_proofs ---------------------------
(***************************************************************************)
(* Proofs about what holds bytes: the stream reader, for streams of every  *)
(* kind and size and buffers of every capacity, then data objects, then    *)
(* strings, for any number of them and whatever is appended to them, and   *)
(* then all three together.                                                *)
(***************************************************************************)
EXTENDS CosBytes, CosCounting, SequenceTheorems, TLAPS

StreamOK(s) ==
    /\ s = [kind |-> s.kind, data |-> s.data, pos |-> s.pos, ended |-> s.ended, eof |-> s.eof]
    /\ s.kind \in Kinds
    /\ \E size \in Sizes : s.data \in [1 .. size -> 0 .. size \cup {Written}]
    /\ s.pos \in 0 .. Size(s) + Reach
    /\ InMemory(s) => s.pos <= Size(s)

ReaderOK(r) ==
    /\ r = [buffer |-> r.buffer, pos |-> r.pos, isEof |-> r.isEof, eofPos |-> r.eofPos]
    /\ r.buffer \in Seq(Int) /\ Len(r.buffer) <= Capacity
    /\ r.pos \in 0 .. Len(r.buffer)
    /\ r.eofPos \in 0 .. Len(r.buffer)
    /\ r.isEof \in BOOLEAN /\ (~r.isEof => r.eofPos = 0)

\* The offset of the byte that is read next.
Place(s, r) == s.pos - (Len(r.buffer) - r.pos)

\* The bytes of the buffer are those before the position of the stream, and
\* the end of a stream in memory is only met at its end.
Placed(s, r) ==
    /\ Len(r.buffer) <= s.pos /\ (Len(r.buffer) = 0 \/ s.pos <= Size(s))
    /\ \A k \in 1 .. Len(r.buffer) : r.buffer[k] = s.data[s.pos - Len(r.buffer) + k]
    /\ InMemory(s) /\ r.isEof => s.pos = Size(s)

ReaderInv ==
    /\ StreamOK(stream) /\ ReaderOK(reader) /\ sought \in BOOLEAN
    /\ ~sought => Placed(stream, reader)
    /\ LastReadCanBeUnread
    /\ ~sought /\ out.result = EOF => reader.pos = Len(reader.buffer) /\
                                      (InMemory(stream) => stream.pos = Size(stream))

-----------------------------------------------------------------------------
(* Streams *)

\* The bytes of a stream, and none of them is the mark of an end.
LEMMA DataIs ==
    ASSUME NEW s, StreamOK(s)
    PROVE  /\ s.data \in Seq(Int) /\ Size(s) \in Nat /\ s.pos \in Nat
           /\ \A i \in 1 .. Size(s) : s.data[i] \in Int /\ s.data[i] # EOF
  <1>1. PICK size \in Sizes : s.data \in [1 .. size -> 0 .. size \cup {Written}] BY DEF StreamOK
  <1>2. PICK d : d = s.data OBVIOUS
  <1>3. size \in Nat BY SizesAssumption
  <1>4. \A b \in 0 .. size \cup {Written} : b \in Int /\ b # EOF BY ONLY <1>3 DEF Written, EOF
  <1>5. \A i \in 1 .. size : d[i] \in Int /\ d[i] # EOF BY ONLY <1>1, <1>2, <1>4
  <1>6. d \in [1 .. size -> Int] BY ONLY <1>1, <1>2, <1>4
  <1>7. d \in Seq(Int) /\ Len(d) = size BY ONLY <1>3, <1>6
  <1>8. s.pos \in 0 .. size + Reach BY <1>2, <1>7 DEF StreamOK, Size
  <1>9. s.pos \in Nat BY ONLY <1>3, <1>8, ReachAssumption
  <1> QED BY ONLY <1>2, <1>3, <1>5, <1>7, <1>9 DEF Size

\* What is left behind the position.
LEMMA RemainingIs ==
    ASSUME NEW s, StreamOK(s), NEW count \in Nat
    PROVE  /\ Smaller(count, Remaining(s)) \in 0 .. count
           /\ \A n \in 0 .. Smaller(count, Remaining(s)) : n = 0 \/ s.pos + n <= Size(s)
           /\ InMemory(s) /\ Smaller(count, Remaining(s)) < count =>
                  s.pos + Smaller(count, Remaining(s)) = Size(s)
  <1>1. PICK p, z : p = s.pos /\ z = Size(s) OBVIOUS
  <1>2. p \in Nat /\ z \in Nat BY <1>1, DataIs
  <1>3. InMemory(s) => p <= z BY <1>1 DEF StreamOK
  <1>4. PICK r : r = Remaining(s) OBVIOUS
  <1>5. r = IF p >= z THEN 0 ELSE z - p BY ONLY <1>1, <1>4 DEF Remaining
  <1>6. PICK m : m = Smaller(count, Remaining(s)) OBVIOUS
  <1>7. m = IF count < r THEN count ELSE r BY ONLY <1>4, <1>6 DEF Smaller
  <1>8. m \in 0 .. count BY ONLY <1>2, <1>5, <1>7, count \in Nat
  <1>9. \A n \in 0 .. m : n = 0 \/ p + n <= z BY ONLY <1>2, <1>5, <1>7, count \in Nat
  <1>10. p <= z /\ m < count => p + m = z BY ONLY <1>2, <1>5, <1>7, count \in Nat
  <1> QED BY ONLY <1>1, <1>3, <1>6, <1>8, <1>9, <1>10

\* The bytes behind the position.
LEMMA OutcomeIs ==
    ASSUME NEW s, StreamOK(s), NEW n \in Nat, n = 0 \/ s.pos + n <= Size(s), NEW ended
    PROVE  LET o == Outcome(s, n, ended)
           IN  /\ StreamOK(o.stream)
               /\ o.stream.data = s.data /\ o.stream.kind = s.kind /\ o.stream.pos = s.pos + n
               /\ o.bytes \in Seq(Int) /\ Len(o.bytes) = n
               /\ \A k \in 1 .. n : o.bytes[k] = s.data[s.pos + k]
  <1>1. PICK d, p, t, b :
            /\ d = s.data /\ p = s.pos /\ t = [s EXCEPT !.pos = @ + n, !.ended = ended]
            /\ b = SubSeq(d, p + 1, p + n)
    OBVIOUS
  <1>2. Outcome(s, n, ended) = [bytes |-> b, stream |-> t] BY ONLY <1>1 DEF Outcome, Bytes
  <1>3. PICK kind, e, f : s = [kind |-> kind, data |-> d, pos |-> p, ended |-> e, eof |-> f]
    BY <1>1 DEF StreamOK
  <1>4. t = [kind |-> kind, data |-> d, pos |-> p + n, ended |-> ended, eof |-> f]
    <2>1. PICK q : q = p + n OBVIOUS
    <2>2. t = [s EXCEPT !.pos = q, !.ended = ended] BY ONLY <1>1, <2>1
    <2>3. t = [kind |-> kind, data |-> d, pos |-> q, ended |-> ended, eof |-> f] BY ONLY <1>3, <2>2
    <2> QED BY ONLY <2>1, <2>3
  <1>5. /\ d \in Seq(Int) /\ p \in Nat /\ Len(d) \in Nat
        /\ \A i \in 1 .. Len(d) : d[i] \in Int
        /\ n = 0 \/ p + n <= Len(d)
    BY <1>1, DataIs DEF Size
  <1>6. p \in 0 .. Len(d) + Reach BY <1>1 DEF StreamOK, Size
  <1>7. p + n \in 0 .. Len(d) + Reach BY ONLY <1>5, <1>6, ReachAssumption, n \in Nat
  <1>8. InMemory(s) => p <= Len(d) BY <1>1 DEF StreamOK, Size
  <1>9. StreamOK(t)
    <2>1. kind \in Kinds /\ \E size \in Sizes : d \in [1 .. size -> 0 .. size \cup {Written}]
      BY <1>1, <1>3 DEF StreamOK
    <2>2. InMemory(t) <=> InMemory(s) BY ONLY <1>3, <1>4 DEF InMemory
    <2>3. InMemory(t) => p + n <= Len(d) BY ONLY <1>5, <1>8, <2>2, n \in Nat
    <2> QED BY ONLY <1>4, <1>7, <2>1, <2>3 DEF StreamOK, Size
  <1>10. b \in Seq(Int) /\ Len(b) = n /\ \A k \in 1 .. n : b[k] = d[p + k]
    <2>1. \A i \in (p + 1) .. (p + n) : d[i] \in Int BY ONLY <1>5, n \in Nat
    <2>2. p + 1 \in Int /\ p + n \in Int BY ONLY <1>5, n \in Nat
    <2>7. PICK x, y : x = p + 1 /\ y = p + n OBVIOUS
    <2>8. x \in Int /\ y \in Int /\ b = SubSeq(d, x, y) /\ \A i \in x .. y : d[i] \in Int
      BY ONLY <1>1, <2>1, <2>2, <2>7
    <2>9. /\ b \in Seq(Int) /\ Len(b) = (IF x <= y THEN y - x + 1 ELSE 0)
          /\ \A i \in 1 .. y - x + 1 : b[i] = d[x + i - 1]
      BY ONLY <2>8, SubSeqProperties
    <2>3. y - x + 1 = n /\ (x <= y <=> n # 0) BY ONLY <1>5, <2>7, n \in Nat
    <2>4. Len(b) = n BY ONLY <2>3, <2>9
    <2>5. \A k \in 1 .. n : x + k - 1 = p + k BY ONLY <1>5, <2>7, n \in Nat
    <2> QED BY ONLY <2>3, <2>4, <2>5, <2>9
  <1>11. PICK o : o = Outcome(s, n, ended) OBVIOUS
  <1>12. o.bytes = b /\ o.stream = t BY ONLY <1>2, <1>11
  <1>13. t.data = d /\ t.pos = p + n /\ t.kind = s.kind BY ONLY <1>3, <1>4
  <1>14. /\ StreamOK(o.stream)
         /\ o.stream.data = s.data /\ o.stream.kind = s.kind /\ o.stream.pos = s.pos + n
         /\ o.bytes \in Seq(Int) /\ Len(o.bytes) = n
         /\ \A k \in 1 .. n : o.bytes[k] = s.data[s.pos + k]
    BY ONLY <1>1, <1>9, <1>10, <1>12, <1>13
  <1> QED BY ONLY <1>11, <1>14

\* A read gives some of the bytes behind the position and moves it past
\* them; in memory it gives all there are.
LEMMA ReadsAre ==
    ASSUME NEW s, StreamOK(s), NEW count \in Nat, NEW o \in Reads(s, count)
    PROVE  /\ StreamOK(o.stream) /\ o.stream.data = s.data /\ o.stream.kind = s.kind
           /\ o.bytes \in Seq(Int) /\ Len(o.bytes) \in 0 .. count
           /\ o.stream.pos = s.pos + Len(o.bytes)
           /\ \A k \in 1 .. Len(o.bytes) : o.bytes[k] = s.data[s.pos + k]
           /\ Len(o.bytes) = 0 \/ o.stream.pos <= Size(s)
           /\ InMemory(s) /\ Len(o.bytes) < count => o.stream.pos = Size(s)
  <1>1. PICK m : m = Smaller(count, Remaining(s)) OBVIOUS
  <1>2. /\ m \in 0 .. count /\ \A n \in 0 .. m : n = 0 \/ s.pos + n <= Size(s)
        /\ InMemory(s) /\ m < count => s.pos + m = Size(s)
    BY ONLY <1>1, RemainingIs, StreamOK(s), count \in Nat
  <1>3. PICK n, ended : o = Outcome(s, n, ended) /\ n \in 0 .. m /\ (InMemory(s) => n = m)
    <2>1. CASE InMemory(s) 
      <3>1. o = Outcome(s, m, FALSE) BY <1>1, <2>1 DEF Reads, MemoryRead
      <3>2. m \in 0 .. m BY ONLY <1>2, count \in Nat
      <3> QED BY ONLY <3>1, <3>2
    <2>2. CASE ~InMemory(s)
      <3>1. \/ o \in {Outcome(s, n, s.ended) : n \in 0 .. m}
            \/ o = Outcome(s, m, s.ended \/ m < count)
        BY <1>1, <2>2 DEF Reads, FileReads
      <3>2. m \in 0 .. m BY ONLY <1>2, count \in Nat
      <3> QED BY ONLY <2>2, <3>1, <3>2
    <2> QED BY ONLY <2>1, <2>2
  <1>4. n \in Nat /\ n \in 0 .. count /\ (n = 0 \/ s.pos + n <= Size(s))
    BY ONLY <1>2, <1>3, count \in Nat
  <1>5. /\ StreamOK(o.stream)
        /\ o.stream.data = s.data /\ o.stream.kind = s.kind /\ o.stream.pos = s.pos + n
        /\ o.bytes \in Seq(Int) /\ Len(o.bytes) = n
        /\ \A k \in 1 .. n : o.bytes[k] = s.data[s.pos + k]
    BY ONLY <1>3, <1>4, OutcomeIs, StreamOK(s)
  <1> QED BY ONLY <1>2, <1>3, <1>4, <1>5

-----------------------------------------------------------------------------
(* The reader *)

\* What a reader gives from a stream that it was not taken away from is the
\* byte at its place, if there is one in the buffer.
LEMMA ByteIs ==
    ASSUME NEW s, NEW r, StreamOK(s), ReaderOK(r), Placed(s, r)
    PROVE  /\ Place(s, r) \in Nat
           /\ r.pos < Len(r.buffer) =>
                  /\ ByteOf(r) = s.data[Place(s, r) + 1] /\ ByteOf(r) # EOF
                  /\ Place(s, r) < Size(s)
           /\ r.pos >= Len(r.buffer) => ByteOf(r) = EOF
  <1>1. PICK b, n, p, q, d : b = r.buffer /\ n = Len(b) /\ p = r.pos /\ q = s.pos /\ d = s.data OBVIOUS
  <1>2. n \in Nat /\ p \in 0 .. n /\ n <= q BY <1>1 DEF ReaderOK, Placed
  <1>3. \A k \in 1 .. n : b[k] = d[q - n + k] BY <1>1 DEF Placed
  <1>4. q \in Nat /\ Len(d) \in Nat /\ \A i \in 1 .. Len(d) : d[i] # EOF BY <1>1, DataIs DEF Size
  <1>5. PICK at : at = q - (n - p) OBVIOUS
  <1>6. at \in Nat BY ONLY <1>2, <1>4, <1>5
  <1>7. ASSUME p < n PROVE ByteOf(r) = d[at + 1] /\ at < Len(d) /\ ByteOf(r) # EOF
    <2>1. p + 1 \in 1 .. n /\ q - n + (p + 1) = at + 1 BY ONLY <1>2, <1>4, <1>5, <1>7
    <2>2. ByteOf(r) = b[p + 1] BY <1>1, <1>7 DEF ByteOf
    <2>3. at < Len(d)
      <3>1. n # 0 BY ONLY <1>2, <1>7
      <3>2. n = 0 \/ q <= Len(d) BY <1>1 DEF Placed, Size
      <3> QED BY ONLY <1>2, <1>4, <1>5, <1>7, <3>1, <3>2
    <2>4. at + 1 \in 1 .. Len(d) BY ONLY <1>4, <1>6, <2>3
    <2> QED BY ONLY <1>3, <1>4, <2>1, <2>2, <2>3, <2>4
  <1>8. ASSUME p >= n PROVE ByteOf(r) = EOF
    <2>1. ~(p < n) BY ONLY <1>2, <1>8
    <2> QED BY <1>1, <2>1 DEF ByteOf
  <1>9. at = Place(s, r) BY ONLY <1>1, <1>5 DEF Place
  <1> QED BY ONLY <1>1, <1>6, <1>7, <1>8, <1>9 DEF Size

\* The flag of a stream is nothing to its reader.
LEMMA FlaggedIs ==
    ASSUME NEW s, StreamOK(s)
    PROVE  /\ StreamOK(Flagged(s))
           /\ Flagged(s).data = s.data /\ Flagged(s).pos = s.pos /\ Flagged(s).kind = s.kind
  <1>1. PICK kind, d, p, e, f : s = [kind |-> kind, data |-> d, pos |-> p, ended |-> e, eof |-> f]
    BY DEF StreamOK
  <1>2. PICK g, t : g = AtEnd(s) /\ t = Flagged(s) OBVIOUS
  <1>3. t = [kind |-> kind, data |-> d, pos |-> p, ended |-> e, eof |-> g]
    <2>1. t = [s EXCEPT !.eof = g] BY ONLY <1>2 DEF Flagged
    <2> QED BY ONLY <1>1, <2>1
  <1>4. StreamOK(t)
    <2>1. InMemory(t) <=> InMemory(s) BY ONLY <1>1, <1>3 DEF InMemory
    <2>2. t.kind = s.kind /\ t.data = s.data /\ t.pos = s.pos BY ONLY <1>1, <1>3
    <2>3. t = [kind |-> t.kind, data |-> t.data, pos |-> t.pos, ended |-> t.ended, eof |-> t.eof]
      BY ONLY <1>3
    <2> QED BY ONLY StreamOK(s), <2>1, <2>2, <2>3 DEF StreamOK, Size
  <1> QED BY ONLY <1>1, <1>2, <1>3, <1>4

\* What can be found under the reader's place is the same stream, further
\* on, and the byte at the same place.
LEMMA CurrentIs ==
    ASSUME ReaderInv, NEW c \in Currents
    PROVE  /\ StreamOK(c.stream) /\ ReaderOK(c.reader)
           /\ c.stream.data = stream.data /\ c.stream.kind = stream.kind
           /\ ~sought => /\ Placed(c.stream, c.reader)
                         /\ Place(c.stream, c.reader) = Place(stream, reader)
                         /\ InMemory(stream) /\ c.reader.pos >= Len(c.reader.buffer)
                                => c.stream.pos = Size(stream)
  <1>1. StreamOK(stream) /\ ReaderOK(reader) /\ (~sought => Placed(stream, reader)) BY DEF ReaderInv
  <1>2. CASE c = [stream |-> stream, reader |-> reader] /\ (Buffered \/ reader.isEof)
    <2>1. c.stream = stream /\ c.reader = reader BY <1>2
    <2>2. reader.pos \in 0 .. Len(reader.buffer) /\ Len(reader.buffer) \in Nat BY <1>1 DEF ReaderOK
    <2>3. reader.pos >= Len(reader.buffer) => reader.isEof BY <1>2, <2>2 DEF Buffered
    <2>4. ~sought /\ InMemory(stream) /\ reader.isEof => stream.pos = Size(stream)
      BY <1>1 DEF Placed
    <2> QED BY ONLY <1>1, <2>1, <2>3, <2>4
  <1>3. CASE /\ \E r \in Reads(stream, Capacity) : c = Refilled(r)
             /\ ~Buffered /\ ~(reader.isEof /\ reader.pos >= reader.eofPos)
    <2>1. PICK r \in Reads(stream, Capacity) : c = Refilled(r) BY <1>3
    <2>2. PICK b, n, s, p : b = r.bytes /\ n = Len(b) /\ s = r.stream /\ p = stream.pos OBVIOUS
    <2>3. /\ StreamOK(s) /\ s.data = stream.data /\ s.kind = stream.kind
          /\ b \in Seq(Int) /\ n \in 0 .. Capacity
          /\ s.pos = p + n /\ \A k \in 1 .. n : b[k] = stream.data[p + k]
          /\ n = 0 \/ s.pos <= Size(stream)
          /\ InMemory(stream) /\ n < Capacity => s.pos = Size(stream)
      BY ONLY <1>1, <2>2, ReadsAre, CapacityAssumption
    <2>4. PICK atEnd, t, z :
              /\ atEnd = (n < Capacity /\ AtEnd(s))
              /\ t = (IF n < Capacity THEN Flagged(s) ELSE s)
              /\ z = IF n < Capacity /\ AtEnd(s) THEN n ELSE reader.eofPos
      OBVIOUS
    <2>19. atEnd \in BOOLEAN /\ (atEnd => n < Capacity) /\ (~atEnd => z = reader.eofPos)
           /\ (z = n \/ z = reader.eofPos)
      BY ONLY <2>4
    <2>5. c = [stream |-> t, reader |-> [buffer |-> b, pos |-> 0, isEof |-> reader.isEof \/ atEnd,
                                         eofPos |-> z]]
      BY ONLY <2>1, <2>2, <2>4 DEF Refilled
    <2>6. reader.pos = Len(reader.buffer) /\ ~reader.isEof /\ reader.eofPos = 0
      <3>1. /\ reader.pos \in 0 .. Len(reader.buffer) /\ Len(reader.buffer) \in Nat
            /\ reader.eofPos \in 0 .. Len(reader.buffer) /\ (~reader.isEof => reader.eofPos = 0)
        BY <1>1 DEF ReaderOK
      <3> QED BY ONLY <1>3, <3>1 DEF Buffered
    <2> DEFINE q == [buffer |-> b, pos |-> 0, isEof |-> atEnd, eofPos |-> z]
    <2>7. c.stream = t /\ c.reader = q
      <3>1. (reader.isEof \/ atEnd) = atEnd BY <2>4, <2>6
      <3> QED BY <2>5, <3>1
    <2>8. StreamOK(t) /\ t.data = stream.data /\ t.kind = stream.kind /\ t.pos = p + n
      BY ONLY <2>3, <2>4, FlaggedIs
    <2>9. z \in 0 .. n /\ atEnd \in BOOLEAN /\ (~atEnd => z = 0) BY ONLY <2>3, <2>6, <2>19, CapacityAssumption
    <2>10. n <= Capacity /\ 0 \in 0 .. n BY ONLY <2>3, CapacityAssumption
    <2>11. ReaderOK(q)
      <3>1. q.buffer = b /\ q.pos = 0 /\ q.isEof = atEnd /\ q.eofPos = z OBVIOUS
      <3>2. q = [buffer |-> b, pos |-> 0, isEof |-> atEnd, eofPos |-> z] OBVIOUS
      <3> HIDE DEF q
      <3> QED BY ONLY <2>2, <2>3, <2>9, <2>10, <3>1, <3>2 DEF ReaderOK
    <2>12. p \in Nat /\ Size(stream) \in Nat BY <1>1, <2>2, DataIs
    <2>13. InMemory(t) => InMemory(stream) BY ONLY <2>8 DEF InMemory
    <2>14. InMemory(stream) /\ n < Capacity => t.pos = Size(stream) BY ONLY <2>3, <2>8
    <2>15. n = 0 \/ t.pos <= Size(stream) BY ONLY <2>3, <2>8
    <2>16. Placed(t, q)
      <3>1. n <= p + n /\ \A k \in 1 .. n : p + n - n + k = p + k BY ONLY <2>3, <2>12, CapacityAssumption
      <3>2. Size(t) = Size(stream) BY ONLY <2>8 DEF Size
      <3>3. atEnd => n < Capacity BY ONLY <2>19
      <3>4. InMemory(t) /\ atEnd => t.pos = Size(t) BY ONLY <2>13, <2>14, <3>2, <3>3
      <3>5. \A k \in 1 .. n : b[k] = t.data[t.pos - n + k]
        <4>1. \A k \in 1 .. n : b[k] = t.data[p + k] BY ONLY <2>3, <2>8
        <4>2. PICK x : x = t.pos OBVIOUS
        <4>3. \A k \in 1 .. n : x - n + k = p + k
          BY ONLY <2>3, <2>8, <2>12, <4>2, CapacityAssumption
        <4> QED BY ONLY <4>1, <4>2, <4>3
      <3>6. q.buffer = b /\ q.isEof = atEnd OBVIOUS
      <3> HIDE DEF q
      <3> QED BY ONLY <2>2, <2>8, <2>15, <3>1, <3>2, <3>4, <3>5, <3>6 DEF Placed
    <2>17. Place(t, q) = Place(stream, reader)
      <3>1. q.pos = 0 /\ q.buffer = b OBVIOUS
      <3>2. Len(reader.buffer) \in Nat BY <1>1 DEF ReaderOK
      <3> HIDE DEF q
      <3>3. Place(t, q) = p BY ONLY <2>2, <2>3, <2>8, <2>12, <3>1, CapacityAssumption DEF Place
      <3>4. Place(stream, reader) = p BY ONLY <2>2, <2>6, <2>12, <3>2 DEF Place
      <3> QED BY ONLY <3>3, <3>4
    <2>18. InMemory(stream) /\ q.pos >= Len(q.buffer) => t.pos = Size(stream)
      <3>1. q.pos = 0 /\ q.buffer = b OBVIOUS
      <3> HIDE DEF q
      <3>2. q.pos >= Len(q.buffer) => n < Capacity BY ONLY <2>2, <2>3, <3>1, CapacityAssumption
      <3> QED BY ONLY <2>14, <3>2
    <2> HIDE DEF q
    <2> QED BY ONLY <2>7, <2>8, <2>11, <2>16, <2>17, <2>18
  <1> QED BY <1>2, <1>3 DEF Currents

\* Another position of the reader.
LEMMA PosIs ==
    ASSUME NEW r, ReaderOK(r), NEW p \in 0 .. Len(r.buffer)
    PROVE  LET q == [r EXCEPT !.pos = p]
           IN  ReaderOK(q) /\ q.buffer = r.buffer /\ q.pos = p /\ q.isEof = r.isEof
  <1>1. PICK b, x, e, f : r = [buffer |-> b, pos |-> x, isEof |-> e, eofPos |-> f] BY DEF ReaderOK
  <1>2. PICK q : q = [r EXCEPT !.pos = p] OBVIOUS
  <1>3. q = [buffer |-> b, pos |-> p, isEof |-> e, eofPos |-> f] BY ONLY <1>1, <1>2
  <1>4. /\ q.buffer = r.buffer /\ q.pos = p /\ q.isEof = r.isEof /\ q.eofPos = r.eofPos
        /\ q = [buffer |-> q.buffer, pos |-> q.pos, isEof |-> q.isEof, eofPos |-> q.eofPos]
    BY ONLY <1>1, <1>3
  <1>5. ReaderOK(q) BY ONLY <1>4, ReaderOK(r), p \in 0 .. Len(r.buffer) DEF ReaderOK
  <1> QED BY ONLY <1>2, <1>4, <1>5

\* cos_stream_reader_getc and cos_stream_reader_peek: the byte at the place
\* of the reader, or none.
LEMMA ReadStep ==
    ASSUME ReaderInv, NEW c \in Currents, NEW call, NEW after, Read(call, c, after),
           \/ call = "getc" /\ after = Advanced(c.reader)
           \/ call = "peek" /\ after = c.reader
    PROVE  /\ ReaderInv' /\ sought' = sought /\ stream'.data = stream.data
           /\ ~sought =>
                \/ /\ Place(stream', reader') = Place(stream, reader) /\ out'.result = EOF
                \/ /\ Place(stream, reader) < Size(stream)
                   /\ out'.result = stream.data[Place(stream, reader) + 1]
                   /\ Place(stream', reader') = IF call = "getc" THEN Place(stream, reader) + 1
                                                ELSE Place(stream, reader)
  <1>1. PICK s, r, b, at : s = c.stream /\ r = c.reader /\ b = ByteOf(r) /\ at = Place(stream, reader)
    OBVIOUS
  <1>2. /\ StreamOK(s) /\ ReaderOK(r) /\ s.data = stream.data /\ s.kind = stream.kind
        /\ ~sought => /\ Placed(s, r) /\ Place(s, r) = at
                      /\ InMemory(stream) /\ r.pos >= Len(r.buffer) => s.pos = Size(stream)
    BY ONLY <1>1, ReaderInv, c \in Currents, CurrentIs
  <1>3. /\ stream' = s /\ reader' = after /\ out' = [call |-> call, result |-> b]
        /\ sought' = sought /\ sought \in BOOLEAN
    BY <1>1 DEF Read, ReaderInv
  <1>4. PICK n, p : n = Len(r.buffer) /\ p = r.pos OBVIOUS
  <1>5. n \in Nat /\ p \in 0 .. n BY <1>2, <1>4 DEF ReaderOK
  <1>6. b # EOF => p < n BY ONLY <1>1, <1>4 DEF ByteOf
  <1>7. ~sought => /\ at \in Nat /\ (b = EOF <=> p >= n)
                   /\ p < n => b = stream.data[at + 1] /\ at < Size(stream)
    <2>1. Size(s) = Size(stream) BY ONLY <1>2 DEF Size
    <2> QED BY ONLY <1>1, <1>2, <1>4, <1>5, <2>1, ByteIs
  <1>8. InMemory(s) <=> InMemory(stream) BY ONLY <1>2 DEF InMemory
  <1>9. Size(s) = Size(stream) /\ s.pos \in Nat BY <1>2, DataIs DEF Size
  <1>10. PICK q : q = IF call = "getc" /\ b # EOF THEN p + 1 ELSE p OBVIOUS
  <1>11. /\ ReaderOK(after) /\ after.buffer = r.buffer /\ after.isEof = r.isEof /\ after.pos = q
    <2>1. CASE call = "getc" /\ b # EOF
      <3>1. after = [r EXCEPT !.pos = p + 1] BY <1>1, <1>4, <2>1 DEF Advanced
      <3>2. p + 1 \in 0 .. n BY ONLY <1>5, <1>6, <2>1
      <3>3. q = p + 1 BY ONLY <1>10, <2>1
      <3> QED BY ONLY <1>2, <1>4, <3>1, <3>2, <3>3, PosIs
    <2>2. CASE ~(call = "getc" /\ b # EOF)
      <3>1. after = r BY <1>1, <2>2 DEF Advanced
      <3>2. q = p BY ONLY <1>10, <2>2
      <3> QED BY ONLY <1>2, <1>4, <3>1, <3>2
    <2> QED BY ONLY <2>1, <2>2
  <1>12. ~sought => Placed(s, after) BY ONLY <1>2, <1>11 DEF Placed
  <1>13. ~sought /\ b = EOF => q = n /\ (InMemory(s) => s.pos = Size(s))
    BY ONLY <1>2, <1>4, <1>5, <1>7, <1>8, <1>9, <1>10
  <1>14. call = "getc" /\ b # EOF => q > 0 BY ONLY <1>5, <1>10
  <1>15. ReaderInv'
    <2>1. out'.call = call /\ out'.result = b BY ONLY <1>3
    <2>2. LastReadCanBeUnread' BY ONLY <1>3, <1>11, <1>14, <2>1 DEF LastReadCanBeUnread, EOF
    <2>3. reader'.pos = q /\ Len(reader'.buffer) = n BY ONLY <1>3, <1>4, <1>11
    <2>4. ~sought' /\ out'.result = EOF => reader'.pos = Len(reader'.buffer) /\
                                          (InMemory(stream') => stream'.pos = Size(stream'))
      BY ONLY <1>3, <1>13, <2>1, <2>3
    <2> QED BY ONLY <1>2, <1>3, <1>11, <1>12, <2>2, <2>4 DEF ReaderInv, EOF
  <1>16. ASSUME ~sought
         PROVE  Place(stream', reader') = at + (q - p)
    <2>1. Place(s, r) = at BY ONLY <1>2, <1>16
    <2>2. PICK x : x = s.pos OBVIOUS
    <2>3. x - (n - p) = at /\ Place(s, after) = x - (n - q)
      BY ONLY <1>4, <1>11, <2>1, <2>2 DEF Place
    <2>4. x \in Nat /\ q \in Nat BY ONLY <1>5, <1>9, <1>10, <2>2
    <2>5. x - (n - q) = at + (q - p) BY ONLY <1>5, <2>3, <2>4
    <2> QED BY ONLY <1>3, <2>3, <2>5
  <1>17. ASSUME ~sought
         PROVE  \/ Place(stream', reader') = at /\ b = EOF
                \/ /\ at < Size(stream) /\ b = stream.data[at + 1]
                   /\ Place(stream', reader') = IF call = "getc" THEN at + 1 ELSE at
    <2>1. CASE b = EOF
      <3>1. q = p BY ONLY <1>10, <2>1
      <3> QED BY ONLY <1>5, <1>7, <1>16, <1>17, <2>1, <3>1
    <2>2. CASE b # EOF
      <3>1. q = IF call = "getc" THEN p + 1 ELSE p BY ONLY <1>10, <2>2
      <3>2. at \in Nat /\ b = stream.data[at + 1] /\ at < Size(stream) BY ONLY <1>6, <1>7, <1>17, <2>2
      <3>3. at + (q - p) = IF call = "getc" THEN at + 1 ELSE at BY ONLY <1>5, <3>1, <3>2
      <3> QED BY ONLY <1>16, <1>17, <3>2, <3>3
    <2> QED BY ONLY <2>1, <2>2
  <1>18. out'.result = b /\ stream'.data = stream.data BY ONLY <1>2, <1>3
  <1> QED BY ONLY <1>1, <1>3, <1>15, <1>17, <1>18

\* A call that reads nothing.
LEMMA CallStep ==
    ASSUME StreamOK(stream'), ReaderOK(reader'), sought' \in BOOLEAN,
           sought' \/ Placed(stream', reader'), out'.result = NoRead, out'.call # "getc"
    PROVE  ReaderInv'
  BY DEF ReaderInv, LastReadCanBeUnread, EOF, NoRead

\* cos_stream_reader_ungetc
LEMMA UngetcStep ==
    ASSUME ReaderInv, Ungetc
    PROVE  /\ ReaderInv' /\ sought' = sought /\ stream' = stream /\ out'.result = NoRead
           /\ ~sought => \/ Place(stream', reader') = Place(stream, reader)
                         \/ /\ Place(stream, reader) > 0 /\ Place(stream, reader) \in Nat
                            /\ Place(stream', reader') = Place(stream, reader) - 1
  <1>1. /\ stream' = stream /\ sought' = sought /\ out'.result = NoRead /\ out'.call # "getc"
        /\ reader' = IF reader.pos > 0 THEN [reader EXCEPT !.pos = @ - 1] ELSE reader
    BY DEF Ungetc
  <1>2. /\ StreamOK(stream) /\ ReaderOK(reader) /\ sought \in BOOLEAN
        /\ ~sought => Placed(stream, reader)
    BY DEF ReaderInv
  <1>3. PICK n, p : n = Len(reader.buffer) /\ p = reader.pos OBVIOUS
  <1>4. n \in Nat /\ p \in 0 .. n BY <1>2, <1>3 DEF ReaderOK
  <1>5. PICK q : q = IF p > 0 THEN p - 1 ELSE p OBVIOUS
  <1>6. /\ ReaderOK(reader') /\ reader'.buffer = reader.buffer /\ reader'.isEof = reader.isEof
        /\ reader'.pos = q
    <2>1. CASE p > 0
      <3>1. q = p - 1 /\ q \in 0 .. n BY ONLY <1>4, <1>5, <2>1
      <3>2. reader' = [reader EXCEPT !.pos = q] BY ONLY <1>1, <1>3, <2>1, <3>1
      <3> QED BY ONLY <1>2, <1>3, <3>1, <3>2, PosIs
    <2>2. CASE ~(p > 0) BY ONLY <1>1, <1>2, <1>3, <1>5, <2>2
    <2> QED BY ONLY <2>1, <2>2
  <1>7. ~sought => Placed(stream', reader') BY ONLY <1>1, <1>2, <1>6 DEF Placed
  <1>8. ReaderInv' BY ONLY <1>1, <1>2, <1>6, <1>7, CallStep
  <1>9. ASSUME ~sought
        PROVE  \/ Place(stream', reader') = Place(stream, reader)
               \/ /\ Place(stream, reader) > 0 /\ Place(stream, reader) \in Nat
                  /\ Place(stream', reader') = Place(stream, reader) - 1
    <2>1. PICK x : x = stream.pos OBVIOUS
    <2>2. n <= x BY <1>2, <1>3, <1>9, <2>1 DEF Placed
    <2>3. x \in Nat BY <1>2, <2>1, DataIs
    <2>4. Place(stream, reader) = x - (n - p) /\ Place(stream', reader') = x - (n - q)
      BY ONLY <1>1, <1>3, <1>6, <2>1 DEF Place
    <2> QED BY ONLY <1>4, <1>5, <2>2, <2>3, <2>4
  <1> QED BY ONLY <1>1, <1>8, <1>9

\* cos_stream_reader_reset
LEMMA ResetStep ==
    ASSUME ReaderInv, Reset
    PROVE  /\ ReaderInv' /\ ~sought' /\ stream' = stream /\ out'.result = NoRead
           /\ Place(stream', reader') \in 0 .. Size(stream) + Reach
  <1>1. /\ stream' = stream /\ sought' = FALSE /\ out'.result = NoRead /\ out'.call # "getc"
        /\ reader' = Emptied
    BY DEF Reset, ResetReader, Call
  <1>2. StreamOK(stream) BY DEF ReaderInv
  <1>3. <<>> \in Seq(Int) /\ Len(<<>>) = 0 OBVIOUS
  <1>4. PICK b : b = <<>> OBVIOUS
  <1>5. /\ Emptied = [buffer |-> b, pos |-> 0, isEof |-> FALSE, eofPos |-> 0]
        /\ Emptied.buffer = b /\ Emptied.pos = 0 /\ Emptied.isEof = FALSE /\ Emptied.eofPos = 0
    BY ONLY <1>4 DEF Emptied
  <1>6. ReaderOK(Emptied) BY ONLY <1>3, <1>4, <1>5, CapacityAssumption DEF ReaderOK
  <1>7. stream.pos \in Nat /\ stream.pos \in 0 .. Size(stream) + Reach BY <1>2, DataIs DEF StreamOK
  <1>8. Placed(stream, Emptied) BY ONLY <1>3, <1>4, <1>5, <1>7 DEF Placed
  <1>9. Place(stream, Emptied) = stream.pos BY ONLY <1>3, <1>4, <1>5, <1>7 DEF Place
  <1>10. ReaderInv' BY ONLY <1>1, <1>2, <1>6, <1>8, CallStep
  <1> QED BY ONLY <1>1, <1>7, <1>9, <1>10

\* cos_stream_seek: the stream is somewhere in it, and the reader's buffer is
\* of another place.
LEMMA SeekStep ==
    ASSUME ReaderInv, Seek
    PROVE  /\ ReaderInv' /\ stream'.data = stream.data /\ out'.result = NoRead
           /\ sought' \/ (~sought /\ stream' = stream /\ reader' = reader)
  <1>1. PICK whence \in {"Set", "Current", "End"},
             offset \in -stream.pos - 1 .. Size(stream) + Reach :
          /\ CanSeekTo(stream, offset, whence) =>
                 Origin(stream, whence) + offset <= Size(stream) + Reach
          /\ IF CanSeekTo(stream, offset, whence)
             THEN /\ stream' = Sought(stream, offset, whence)
                  /\ sought' = TRUE
                  /\ Call("seek")
             ELSE Call("no seek") /\ UNCHANGED <<stream, sought>>
          /\ UNCHANGED reader
    BY DEF Seek
  <1>2. /\ StreamOK(stream) /\ ReaderOK(reader) /\ sought \in BOOLEAN
        /\ ~sought => Placed(stream, reader)
    BY DEF ReaderInv
  <1>3. out'.result = NoRead /\ out'.call # "getc"
    <2>1. CASE Call("seek")
      <3>1. out' = [call |-> "seek", result |-> NoRead] BY ONLY <2>1 DEF Call
      <3> QED BY ONLY <3>1
    <2>2. CASE Call("no seek")
      <3>1. out' = [call |-> "no seek", result |-> NoRead] BY ONLY <2>2 DEF Call
      <3> QED BY ONLY <3>1
    <2> QED BY ONLY <1>1, <2>1, <2>2
  <1>4. CASE ~CanSeekTo(stream, offset, whence)
    <2>1. stream' = stream /\ sought' = sought /\ reader' = reader BY <1>1, <1>4
    <2>2. ReaderInv' BY ONLY <1>2, <1>3, <2>1, CallStep
    <2> QED BY ONLY <1>2, <1>3, <2>1, <2>2
  <1>5. CASE CanSeekTo(stream, offset, whence)
    <2>1. stream' = Sought(stream, offset, whence) /\ sought' = TRUE /\ reader' = reader
      BY <1>1, <1>5
    <2>2. PICK to : to = Origin(stream, whence) + offset OBVIOUS
    <2>3. stream.pos \in Nat /\ Size(stream) \in Nat BY <1>2, DataIs
    <2>4. Origin(stream, whence) \in Int
      <3>1. Origin(stream, "Set") = 0 /\ Origin(stream, "Current") = stream.pos
            /\ Origin(stream, "End") = Size(stream)
        BY ONLY DEF Origin
      <3>2. Origin(stream, whence) \in {0, stream.pos, Size(stream)}
        BY ONLY <3>1, whence \in {"Set", "Current", "End"}
      <3> QED BY ONLY <2>3, <3>2
    <2>5. to \in Int /\ to <= Size(stream) + Reach
      BY ONLY <1>1, <1>5, <2>2, <2>3, <2>4, ReachAssumption
    <2>6. to >= 0 /\ (InMemory(stream) => to <= Size(stream))
      <3>1. CASE InMemory(stream)
        <4>1. to \in 0 .. Size(stream) BY ONLY <1>5, <2>2, <3>1 DEF CanSeekTo, InMemoryRange
        <4> QED BY ONLY <2>3, <4>1
      <3>2. CASE ~InMemory(stream)
        <4>1. to >= 0 BY ONLY <1>5, <2>2, <3>2 DEF CanSeekTo, InFileRange
        <4> QED BY ONLY <3>2, <4>1
      <3> QED BY ONLY <3>1, <3>2
    <2>7. PICK kind, d, p, e, f :
              stream = [kind |-> kind, data |-> d, pos |-> p, ended |-> e, eof |-> f]
      BY <1>2 DEF StreamOK
    <2>8. stream' = [stream EXCEPT !.pos = to, !.ended = FALSE] BY ONLY <2>1, <2>2 DEF Sought
    <2>9. stream' = [kind |-> kind, data |-> d, pos |-> to, ended |-> FALSE, eof |-> f]
      BY ONLY <2>7, <2>8
    <2>10. PICK t : t = stream' OBVIOUS
    <2>11. /\ t = [kind |-> t.kind, data |-> t.data, pos |-> t.pos, ended |-> t.ended, eof |-> t.eof]
           /\ t.kind = stream.kind /\ t.data = stream.data /\ t.pos = to
      BY ONLY <2>7, <2>9, <2>10
    <2>12. (InMemory(t) <=> InMemory(stream)) /\ Size(t) = Size(stream)
      BY ONLY <2>11 DEF InMemory, Size
    <2>13. to \in 0 .. Size(t) + Reach BY ONLY <2>3, <2>5, <2>6, <2>12, ReachAssumption
    <2>14. StreamOK(t)
      <3>1. t.kind \in Kinds /\ \E size \in Sizes : t.data \in [1 .. size -> 0 .. size \cup {Written}]
        BY ONLY <1>2, <2>11 DEF StreamOK
      <3> QED BY ONLY <2>6, <2>11, <2>12, <2>13, <3>1 DEF StreamOK
    <2>15. ReaderInv' BY ONLY <1>2, <1>3, <2>1, <2>10, <2>14, CallStep
    <2> QED BY ONLY <1>3, <2>1, <2>10, <2>11, <2>15
  <1> QED BY ONLY <1>4, <1>5

\* cos_stream_is_at_end
LEMMA IsAtEndStep ==
    ASSUME ReaderInv, IsAtEnd
    PROVE  /\ ReaderInv' /\ sought' = sought /\ stream'.data = stream.data /\ out'.result = NoRead
           /\ Place(stream', reader') = Place(stream, reader)
  <1>1. PICK t : t = Flagged(stream) OBVIOUS
  <1>2. /\ stream' = t /\ reader' = reader /\ sought' = sought /\ out'.result = NoRead
        /\ out'.call # "getc"
    BY <1>1 DEF IsAtEnd, Call
  <1>3. /\ StreamOK(stream) /\ ReaderOK(reader) /\ sought \in BOOLEAN
        /\ ~sought => Placed(stream, reader)
    BY DEF ReaderInv
  <1>4. StreamOK(t) /\ t.data = stream.data /\ t.pos = stream.pos /\ t.kind = stream.kind
    BY ONLY <1>1, <1>3, FlaggedIs
  <1>5. ~sought => Placed(t, reader) BY ONLY <1>3, <1>4 DEF Placed, Size, InMemory
  <1>6. Place(t, reader) = Place(stream, reader) BY ONLY <1>4 DEF Place
  <1>7. ReaderInv' BY ONLY <1>2, <1>3, <1>4, <1>5, CallStep
  <1> QED BY ONLY <1>2, <1>4, <1>6, <1>7

\* cos_stream_write changes no byte that was read.
LEMMA WriteStep ==
    ASSUME ReaderInv, Write
    PROVE  /\ ReaderInv' /\ sought' = sought /\ out'.result = NoRead
           /\ Place(stream', reader') = Place(stream, reader)
  <1>1. PICK count \in 0 .. Capacity : stream' = Wrote(stream, count) /\ Call("write")
                                       /\ UNCHANGED <<reader, sought>>
    BY DEF Write
  <1>2. /\ reader' = reader /\ sought' = sought /\ out'.result = NoRead /\ out'.call # "getc"
    BY <1>1 DEF Call
  <1>3. /\ StreamOK(stream) /\ ReaderOK(reader) /\ sought \in BOOLEAN
        /\ ~sought => Placed(stream, reader)
    BY DEF ReaderInv
  <1>4. StreamOK(stream') /\ stream'.pos = stream.pos /\ (~sought => Placed(stream', reader))
    <2>1. CASE stream' = stream BY ONLY <1>3, <2>1
    <2>2. CASE stream' = MemoryWrote(stream, count)
      <3>1. PICK d, p, n, z : /\ d = stream.data /\ p = stream.pos /\ z = Len(d)
                              /\ n = Smaller(count, Remaining(stream))
        OBVIOUS
      <3>2. PICK c : c = [i \in 1 .. z |-> IF i \in p + 1 .. p + n THEN Written ELSE d[i]] OBVIOUS
      <3>3. stream' = [stream EXCEPT !.data = c] BY ONLY <2>2, <3>1, <3>2 DEF MemoryWrote, Size
      <3>4. PICK kind, e, f : stream = [kind |-> kind, data |-> d, pos |-> p, ended |-> e, eof |-> f]
        BY <1>3, <3>1 DEF StreamOK
      <3>5. stream' = [kind |-> kind, data |-> c, pos |-> p, ended |-> e, eof |-> f]
        BY ONLY <3>3, <3>4
      <3>6. PICK t : t = stream' OBVIOUS
      <3>7. /\ t = [kind |-> t.kind, data |-> t.data, pos |-> t.pos, ended |-> t.ended, eof |-> t.eof]
            /\ t.kind = stream.kind /\ t.data = c /\ t.pos = p
        BY ONLY <3>4, <3>5, <3>6
      <3>8. PICK size \in Sizes : d \in [1 .. size -> 0 .. size \cup {Written}]
        BY <1>3, <3>1 DEF StreamOK
      <3>9. size \in Nat /\ z = size BY ONLY <3>1, <3>8, SizesAssumption
      <3>10. c \in [1 .. size -> 0 .. size \cup {Written}] BY ONLY <3>2, <3>8, <3>9
      <3>11. Len(c) = z BY ONLY <3>9, <3>10
      <3>12. (InMemory(t) <=> InMemory(stream)) /\ Size(t) = z /\ Size(stream) = z
        BY ONLY <3>1, <3>7, <3>11 DEF InMemory, Size
      <3>13. StreamOK(t)
        <4>1. /\ stream.kind \in Kinds /\ p \in 0 .. z + Reach /\ (InMemory(stream) => p <= z)
          BY ONLY <1>3, <3>1, <3>12 DEF StreamOK
        <4> QED BY ONLY <3>7, <3>8, <3>10, <3>12, <4>1 DEF StreamOK
      <3>14. ASSUME ~sought PROVE Placed(t, reader)
        <4>1. PICK b, m : b = reader.buffer /\ m = Len(b) OBVIOUS
        <4>2. m <= p /\ (m = 0 \/ p <= z) /\ (\A k \in 1 .. m : b[k] = d[p - m + k])
              /\ (InMemory(stream) /\ reader.isEof => p = z)
          BY ONLY <1>3, <3>1, <3>12, <3>14, <4>1 DEF Placed
        <4>3. m \in Nat /\ p \in Nat BY <1>3, <3>1, <4>1, DataIs DEF ReaderOK
        <4>4. \A k \in 1 .. m : p - m + k \in 1 .. z /\ p - m + k \notin p + 1 .. p + n
          BY ONLY <3>9, <4>2, <4>3
        <4>5. \A k \in 1 .. m : b[k] = c[p - m + k] BY ONLY <3>2, <4>2, <4>4
        <4> QED BY ONLY <3>7, <3>12, <4>1, <4>2, <4>5 DEF Placed
      <3> QED BY ONLY <3>1, <3>6, <3>7, <3>13, <3>14
    <2> QED BY <1>1, <2>1, <2>2 DEF Wrote, FileWrote
  <1>5. Place(stream', reader') = Place(stream, reader) BY ONLY <1>2, <1>4 DEF Place
  <1>6. ReaderInv' BY ONLY <1>2, <1>3, <1>4, CallStep
  <1> QED BY ONLY <1>2, <1>5, <1>6

LEMMA ReaderNext ==
    ASSUME ReaderInv, [Next]_vars
    PROVE  ReaderInv' /\ [Cursor!Next]_(Cursor!vars)
  <1>1. PICK d, at : d = stream.data /\ at = Place(stream, reader) OBVIOUS
  <1>2. /\ StreamOK(stream) /\ ReaderOK(reader) /\ sought \in BOOLEAN
        /\ ~sought => Placed(stream, reader)
    BY DEF ReaderInv
  <1>3. ~sought => at \in Nat BY ONLY <1>1, <1>2, ByteIs
  <1>4. at = stream.pos - Unread /\ Place(stream', reader') = stream'.pos - Unread'
    BY <1>1 DEF Place, Unread
  <1>5. ASSUME NEW c \in Currents, NEW call, NEW after, Read(call, c, after),
               \/ call = "getc" /\ after = Advanced(c.reader)
               \/ call = "peek" /\ after = c.reader
        PROVE  ReaderInv' /\ Cursor!Next
    <2>1. /\ ReaderInv' /\ sought' = sought /\ stream'.data = d
          /\ ~sought =>
               \/ Place(stream', reader') = at /\ out'.result = EOF
               \/ /\ at < Len(d) /\ out'.result = d[at + 1]
                  /\ Place(stream', reader') = IF call = "getc" THEN at + 1 ELSE at
      BY ONLY <1>1, <1>5, ReaderInv, ReadStep DEF Size
    <2>2. CASE sought
      <3>1. Cursor!Astray BY <1>1, <2>1, <2>2 DEF Cursor!Astray
      <3> QED BY <2>1, <3>1 DEF Cursor!Next
    <2>3. CASE ~sought
      <3>1. at # -1 BY ONLY <1>3, <2>3
      <3>2. CASE Place(stream', reader') = at /\ out'.result = EOF
        <4>1. Cursor!Fails BY <1>1, <1>4, <2>1, <2>3, <3>2 DEF Cursor!Fails
        <4>2. Cursor!Getc BY <1>4, <2>3, <3>1, <4>1 DEF Cursor!Getc
        <4> QED BY <2>1, <4>2 DEF Cursor!Next
      <3>3. CASE /\ at < Len(d) /\ out'.result = d[at + 1]
                 /\ Place(stream', reader') = IF call = "getc" THEN at + 1 ELSE at
        <4>1. CASE call = "getc"
          <5>1. Cursor!Getc
            BY <1>1, <1>4, <2>1, <2>3, <3>1, <3>3, <4>1 DEF Cursor!Getc, Cursor!Here
          <5> QED BY <2>1, <5>1 DEF Cursor!Next
        <4>2. CASE call # "getc"
          <5>1. Cursor!Peek
            BY <1>1, <1>4, <2>1, <2>3, <3>1, <3>3, <4>2 DEF Cursor!Peek, Cursor!Here
          <5> QED BY <2>1, <5>1 DEF Cursor!Next
        <4> QED BY ONLY <4>1, <4>2
      <3> QED BY ONLY <2>1, <2>3, <3>2, <3>3
    <2> QED BY ONLY <2>2, <2>3
  <1>6. CASE Getc BY <1>5, <1>6 DEF Getc
  <1>7. CASE Peek BY <1>5, <1>7 DEF Peek
  <1>8. CASE Ungetc
    <2>1. /\ ReaderInv' /\ sought' = sought /\ stream' = stream /\ out'.result = NoRead
          /\ ~sought => \/ Place(stream', reader') = at
                        \/ at > 0 /\ at \in Nat /\ Place(stream', reader') = at - 1
      BY ONLY <1>1, <1>8, ReaderInv, UngetcStep
    <2>2. Cursor!Other \/ Cursor!Ungetc BY <1>4, <2>1 DEF Cursor!Other, Cursor!Ungetc
    <2> QED BY <2>1, <2>2 DEF Cursor!Next
  <1>9. CASE Reset
    <2>1. /\ ReaderInv' /\ ~sought' /\ stream' = stream /\ out'.result = NoRead
          /\ Place(stream', reader') \in 0 .. Len(d) + Reach
      BY ONLY <1>1, <1>9, ReaderInv, ResetStep DEF Size
    <2>2. Cursor!Reset BY <1>1, <1>4, <2>1 DEF Cursor!Reset
    <2> QED BY <2>1, <2>2 DEF Cursor!Next
  <1>10. CASE Seek
    <2>1. /\ ReaderInv' /\ stream'.data = stream.data /\ out'.result = NoRead
          /\ sought' \/ (~sought /\ stream' = stream /\ reader' = reader)
      BY ONLY <1>10, ReaderInv, SeekStep
    <2>2. CASE sought'
      <3>1. Cursor!Seek BY <2>1, <2>2 DEF Cursor!Seek
      <3> QED BY <2>1, <3>1 DEF Cursor!Next
    <2>3. CASE ~sought'
      <3>1. Cursor!Other BY <1>4, <2>1, <2>3 DEF Cursor!Other, Unread
      <3> QED BY <2>1, <3>1 DEF Cursor!Next
    <2> QED BY ONLY <2>2, <2>3
  <1>11. CASE IsAtEnd
    <2>1. /\ ReaderInv' /\ sought' = sought /\ stream'.data = stream.data /\ out'.result = NoRead
          /\ Place(stream', reader') = at
      BY ONLY <1>1, <1>11, ReaderInv, IsAtEndStep
    <2>2. Cursor!Other BY <1>4, <2>1 DEF Cursor!Other
    <2> QED BY <2>1, <2>2 DEF Cursor!Next
  <1>12. CASE Write
    <2>1. ReaderInv' /\ sought' = sought /\ out'.result = NoRead /\ Place(stream', reader') = at
      BY ONLY <1>1, <1>12, ReaderInv, WriteStep
    <2>2. \E size \in Sizes : stream'.data \in [1 .. size -> 0 .. size \cup {Written}]
      BY <2>1 DEF ReaderInv, StreamOK
    <2>3. Cursor!Write BY <1>4, <2>1, <2>2 DEF Cursor!Write
    <2> QED BY <2>1, <2>3 DEF Cursor!Next
  <1>13. CASE UNCHANGED vars
    <2>1. UNCHANGED <<stream, reader, sought, out>> BY <1>13 DEF vars
    <2>2. ReaderInv' BY <2>1 DEF ReaderInv, LastReadCanBeUnread
    <2>3. UNCHANGED Cursor!vars BY <2>1 DEF Cursor!vars, Unread
    <2> QED BY <2>2, <2>3
  <1> QED BY <1>6, <1>7, <1>8, <1>9, <1>10, <1>11, <1>12, <1>13 DEF Next

\* A reader is made for a stream that is at its start.
LEMMA ReaderInit == Init => ReaderInv /\ Cursor!Init
  <1> SUFFICES ASSUME Init PROVE ReaderInv /\ Cursor!Init OBVIOUS
  <1>1. PICK kind \in Kinds, size \in Sizes : stream = Opened(kind, size) BY DEF Init
  <1>2. reader = Emptied /\ sought = FALSE /\ out = [call |-> "create", result |-> NoRead] BY DEF Init
  <1>3. size \in Nat BY SizesAssumption
  <1>4. PICK d : d = [i \in 1 .. size |-> i - 1] OBVIOUS
  <1>5. d \in [1 .. size -> 0 .. size \cup {Written}] BY ONLY <1>3, <1>4
  <1>6. Len(d) = size BY ONLY <1>3, <1>5
  <1>7. stream = [kind |-> kind, data |-> d, pos |-> 0, ended |-> FALSE, eof |-> FALSE]
    BY ONLY <1>1, <1>4 DEF Opened
  <1>8. PICK s : s = stream OBVIOUS
  <1>9. /\ s = [kind |-> s.kind, data |-> s.data, pos |-> s.pos, ended |-> s.ended, eof |-> s.eof]
        /\ s.kind = kind /\ s.data = d /\ s.pos = 0
    BY ONLY <1>7, <1>8
  <1>10. 0 \in 0 .. size + Reach /\ 0 <= size BY ONLY <1>3, ReachAssumption
  <1>11. StreamOK(s) BY ONLY <1>5, <1>6, <1>9, <1>10, kind \in Kinds, size \in Sizes DEF StreamOK, Size
  <1>12. <<>> \in Seq(Int) /\ Len(<<>>) = 0 OBVIOUS
  <1>13. PICK b : b = <<>> OBVIOUS
  <1>14. PICK r : r = reader OBVIOUS
  <1>15. r = [buffer |-> b, pos |-> 0, isEof |-> FALSE, eofPos |-> 0]
    BY ONLY <1>2, <1>13, <1>14 DEF Emptied
  <1>16. ReaderOK(r) BY ONLY <1>12, <1>13, <1>15, CapacityAssumption DEF ReaderOK
  <1>17. Placed(s, r) BY ONLY <1>9, <1>12, <1>13, <1>15 DEF Placed
  <1>18. ReaderInv
    <2>1. out.call = "create" /\ out.result = NoRead BY ONLY <1>2
    <2>2. LastReadCanBeUnread BY ONLY <2>1 DEF LastReadCanBeUnread
    <2>3. out.result # EOF BY ONLY <2>1 DEF EOF, NoRead
    <2>4. sought \in BOOLEAN BY ONLY <1>2
    <2> QED BY ONLY <1>8, <1>11, <1>14, <1>16, <1>17, <2>2, <2>3, <2>4 DEF ReaderInv
  <1>19. stream.pos - Unread = 0 BY ONLY <1>8, <1>9, <1>12, <1>13, <1>14, <1>15 DEF Unread
  <1>20. stream.data = d BY ONLY <1>8, <1>9
  <1>21. d \in UNION {[1 .. z -> 0 .. z \cup {Written}] : z \in Sizes} BY ONLY <1>5, size \in Sizes
  <1>22. Cursor!Init BY <1>2, <1>19, <1>20, <1>21 DEF Cursor!Init
  <1> QED BY ONLY <1>18, <1>22

\* The reader is a cursor in the data of its stream: whatever is read, put
\* back, looked at and written, and however many bytes each read of the
\* stream gives, no byte is left out or read twice (CosStreamReader.c).
THEOREM ReaderIsCursor == Spec => CursorSpec
  <1> QED BY ReaderInit, ReaderNext, PTL DEF Spec, CursorSpec, Cursor!Spec

\* The buffer holds the bytes before the position of the stream, written
\* over or not, the byte that was read last can be put back, and a reader
\* gives EOF for a stream in memory only at the end of the stream.
THEOREM ReadsAreInPlace ==
    Spec => [](TypeOK /\ BytesInPlace /\ LastReadCanBeUnread /\ EofOfMemoryIsItsEnd)
  <1>1. ReaderInv => TypeOK
    BY DEF ReaderInv, TypeOK, StreamOK, ReaderOK
  <1>2. ReaderInv => BytesInPlace
    BY DEF ReaderInv, BytesInPlace, Placed
  <1>3. ReaderInv => EofOfMemoryIsItsEnd
    <2>1. SUFFICES ASSUME ReaderInv, ~sought, out.result = EOF, InMemory(stream)
                   PROVE  GetPosition = Size(stream)
      BY DEF EofOfMemoryIsItsEnd
    <2>2. /\ StreamOK(stream) /\ ReaderOK(reader)
          /\ reader.pos = Len(reader.buffer) /\ stream.pos = Size(stream)
      BY <2>1 DEF ReaderInv
    <2>3. Can(stream, "tell") BY <2>1 DEF Can, Functions, InMemory, MemoryFunctions, ReadonlyFunctions
    <2>4. stream.pos \in Nat /\ Len(reader.buffer) \in Nat BY <2>2, DataIs DEF ReaderOK
    <2>5. GetPosition = stream.pos - (Len(reader.buffer) - reader.pos)
      BY ONLY <2>3 DEF GetPosition, Tell, MemoryTell, Unread
    <2> QED BY ONLY <2>2, <2>4, <2>5
  <1>4. ReaderInv => LastReadCanBeUnread BY DEF ReaderInv
  <1> QED BY <1>1, <1>2, <1>3, <1>4, ReaderInit, ReaderNext, PTL DEF Spec

-----------------------------------------------------------------------------
(* Data objects *)

\* An object has memory for its capacity, and what it holds was written.
ObjectOK(d) ==
    /\ d = [buffer |-> d.buffer, capacity |-> d.capacity, size |-> d.size, bytes |-> d.bytes]
    /\ d.buffer \in Buffers /\ d.capacity \in Nat /\ d.size \in 0 .. d.capacity
    /\ d.bytes \in Seq(Int \cup {Junk}) /\ Len(d.bytes) = d.capacity
    /\ \A i \in 1 .. d.size : d.bytes[i] \in Int

\* No two objects share memory.
Heap(h) ==
    /\ h = [x \in Names |-> h[x]]
    /\ \A x \in Names : h[x] = NoData \/ ObjectOK(h[x])
    /\ \A x, y \in Names :
           x # y /\ h[x] # NoData /\ h[y] # NoData => h[x].buffer # h[y].buffer

\* A reference is to bytes of the object it was taken of, and they are the
\* same as then.
Refers(h, r, t) ==
    /\ t.of \in Names /\ h[t.of] # NoData
    /\ r.buffer = h[t.of].buffer /\ r.offset \in Nat /\ r.size \in Nat
    /\ r.offset + r.size <= h[t.of].size
    /\ t.bytes = [i \in 1 .. r.size |-> h[t.of].bytes[r.offset + i]]

DataInv ==
    /\ Heap(data)
    /\ \/ ref = NoRef /\ taken = Data!NotTaken
       \/ ref # NoRef /\ Refers(data, ref, taken)

\* Objects and references are there.
LEMMA ObjectIs == ASSUME NEW d, ObjectOK(d) PROVE d # NoData
  <1>1. d.size \in Nat BY DEF ObjectOK
  <1>2. d \in [buffer : Buffers, capacity : Nat, size : Nat, bytes : Seq(Int \cup {Junk})]
    BY <1>1 DEF ObjectOK
  <1> QED BY ONLY <1>2, DataAssumption

\* What is read through a reference.
LEMMA ReadsObject ==
    ASSUME NEW h, Heap(h), NEW x \in Names, h[x] # NoData, NEW r,
           r.buffer = h[x].buffer, r.offset \in Nat, r.size \in Nat,
           r.offset + r.size <= h[x].capacity
    PROVE  Data!Read(h, r) = [i \in 1 .. r.size |-> h[x].bytes[r.offset + i]]
  <1> DEFINE owners(i) == {y \in Names : h[y] # NoData /\ h[y].buffer = r.buffer /\ i <= h[y].capacity}
             byte(i) == IF owners(i) = {} THEN Junk ELSE h[CHOOSE y \in owners(i) : TRUE].bytes[i]
  <1>1. Data!Read(h, r) = [i \in 1 .. r.size |-> byte(r.offset + i)] BY DEF Data!Read
  <1>2. h[x].capacity \in Nat BY DEF Heap, ObjectOK
  <1>3. PICK o, n, c : o = r.offset /\ n = r.size /\ c = h[x].capacity OBVIOUS
  <1>4. \A i \in 1 .. n : o + i <= c
    BY ONLY <1>2, <1>3, r.offset \in Nat, r.size \in Nat, r.offset + r.size <= h[x].capacity
  <1>5. \A i \in 1 .. n : owners(o + i) = {x}
    <2>1. \A y \in Names : h[y] # NoData /\ h[y].buffer = r.buffer => y = x BY DEF Heap
    <2> QED BY <1>3, <1>4, <2>1
  <1> HIDE DEF owners
  <1>6. \A i \in 1 .. n : byte(o + i) = h[x].bytes[o + i]
    <2>1. (CHOOSE y \in {x} : TRUE) = x OBVIOUS
    <2> QED BY ONLY <1>5, <2>1
  <1> HIDE DEF byte
  <1> QED BY ONLY <1>1, <1>3, <1>6

\* One object changes, or is gone.
Allowed(h, x, d) ==
    d # NoData => ObjectOK(d) /\ \A y \in Names \ {x} : h[y] = NoData \/ h[y].buffer # d.buffer

LEMMA HeapStays ==
    ASSUME NEW h, Heap(h), NEW x \in Names, NEW d, Allowed(h, x, d),
           NEW g, g = [y \in Names |-> g[y]], g[x] = d,
           \A y \in Names \ {x} : g[y] = h[y]
    PROVE  Heap(g)
  <1>3. g[x] = d /\ \A y \in Names \ {x} : g[y] = h[y] OBVIOUS
  <1>4. g = [y \in Names |-> g[y]] OBVIOUS
  <1>5. \A y \in Names : g[y] = NoData \/ ObjectOK(g[y])
    BY ONLY <1>3, Heap(h), Allowed(h, x, d) DEF Heap, Allowed
  <1>6. ASSUME NEW y \in Names, NEW z \in Names, y # z, g[y] # NoData, g[z] # NoData
        PROVE  g[y].buffer # g[z].buffer
    <2>1. CASE y # x /\ z # x BY ONLY <1>3, <1>6, <2>1, Heap(h) DEF Heap
    <2>2. CASE y = x \/ z = x
      BY ONLY <1>3, <1>6, <2>2, Allowed(h, x, d) DEF Allowed
    <2> QED BY ONLY <2>1, <2>2
  <1> QED BY ONLY <1>4, <1>5, <1>6 DEF Heap

\* A call that changes an object, or makes or frees one.
LEMMA ModifyInv ==
    ASSUME DataInv, NEW x \in Names, NEW d, Data!Modify(x, d), Allowed(data, x, d)
    PROVE  DataInv'
  <1>1. /\ data' = [data EXCEPT ![x] = d]
        /\ taken.of = x => ref' = NoRef /\ taken' = Data!NotTaken
        /\ taken.of # x => ref' = ref /\ taken' = taken
    BY DEF Data!Modify
  <1>2. Heap(data) BY DEF DataInv
  <1>3. PICK g : g = data' OBVIOUS
  <1>4. g = [data EXCEPT ![x] = d] BY ONLY <1>1, <1>3
  <1>5. Heap(g) /\ \A y \in Names \ {x} : g[y] = data[y]
    <2>1. PICK h : h = data OBVIOUS
    <2>2. Heap(h) /\ Allowed(h, x, d) /\ g = [h EXCEPT ![x] = d]
      BY ONLY <1>2, <1>4, <2>1, Allowed(data, x, d)
    <2>3. h = [y \in Names |-> h[y]] BY ONLY <2>2 DEF Heap
    <2>4. g = [y \in Names |-> IF y = x THEN d ELSE h[y]] BY ONLY <2>2, <2>3
    <2>5. /\ g = [y \in Names |-> g[y]]
          /\ g[x] = d /\ \A y \in Names \ {x} : g[y] = h[y]
      BY ONLY <2>4, x \in Names
    <2>6. Heap(g) BY ONLY <2>2, <2>5, HeapStays, x \in Names
    <2> QED BY ONLY <2>1, <2>5, <2>6
  <1>6. CASE taken.of = x BY <1>1, <1>3, <1>5, <1>6 DEF DataInv
  <1>7. CASE taken.of # x
    <2>1. ref' = ref /\ taken' = taken BY ONLY <1>1, <1>7
    <2>2. \/ ref = NoRef /\ taken = Data!NotTaken
          \/ ref # NoRef /\ Refers(data, ref, taken)
      BY DEF DataInv
    <2>3. Refers(data, ref, taken) => Refers(g, ref, taken) BY ONLY <1>5, <1>7 DEF Refers
    <2>4. taken' = Data!NotTaken' <=> taken = Data!NotTaken BY ONLY <2>1 DEF Data!NotTaken
    <2>5. DataInv' BY <1>3, <1>5, <2>1, <2>2, <2>3, <2>4 DEF DataInv
    <2> QED BY ONLY <2>5
  <1> QED BY ONLY <1>6, <1>7

\* What an object holds.
LEMMA ContentsAre ==
    ASSUME NEW d, ObjectOK(d)
    PROVE  /\ Data!Contents(d) \in Seq(Int) /\ Len(Data!Contents(d)) = d.size
           /\ \A i \in 1 .. d.size : Data!Contents(d)[i] = d.bytes[i]
  <1>1. PICK b, z, n : b = d.bytes /\ z = d.size /\ n = d.capacity OBVIOUS
  <1>2. /\ n \in Nat /\ z \in 0 .. n /\ b \in Seq(Int \cup {Junk}) /\ Len(b) = n
        /\ \A i \in 1 .. z : b[i] \in Int
    BY ONLY <1>1, ObjectOK(d) DEF ObjectOK
  <1>3. PICK c : c = SubSeq(b, 1, z) OBVIOUS
  <1>4. c = [i \in 1 .. z |-> b[i]] BY ONLY <1>2, <1>3
  <1>5. c \in [1 .. z -> Int] BY ONLY <1>2, <1>4
  <1>6. c \in Seq(Int) /\ Len(c) = z BY ONLY <1>2, <1>5
  <1>7. Data!Contents(d) = c BY ONLY <1>1, <1>3 DEF Data!Contents
  <1> QED BY ONLY <1>1, <1>4, <1>6, <1>7

\* An object of an allocation, with bytes in it.
LEMMA MadeIs ==
    ASSUME NEW b \in Buffers, NEW n \in Nat, NEW s \in Seq(Int), Len(s) <= n,
           NEW d, d = [buffer |-> b, capacity |-> n, size |-> Len(s),
                       bytes |-> s \o Data!Malloc(n - Len(s))]
    PROVE  ObjectOK(d) /\ d.buffer = b /\ Data!Contents(d) = s
  <1>1. PICK z, m : z = Len(s) /\ m = n - z OBVIOUS
  <1>2. z \in Nat /\ m \in Nat /\ z <= n BY ONLY <1>1, n \in Nat, s \in Seq(Int), Len(s) <= n
  <1>3. PICK junk : junk = Data!Malloc(m) OBVIOUS
  <1>4. junk = [i \in 1 .. m |-> Junk] BY ONLY <1>3 DEF Data!Malloc
  <1>5. junk \in [1 .. m -> {Junk}] BY ONLY <1>4
  <1>6. junk \in Seq(Int \cup {Junk}) /\ Len(junk) = m BY ONLY <1>2, <1>5
  <1>7. PICK all : all = s \o junk OBVIOUS
  <1>8. s \in Seq(Int \cup {Junk})
    <2>1. s \in [1 .. z -> Int] BY ONLY <1>1, s \in Seq(Int)
    <2>2. s \in [1 .. z -> Int \cup {Junk}] BY ONLY <2>1
    <2> QED BY ONLY <1>2, <2>2
  <1>9. /\ all \in Seq(Int \cup {Junk}) /\ Len(all) = n
        /\ \A i \in 1 .. z : all[i] = s[i]
    BY ONLY <1>1, <1>2, <1>6, <1>7, <1>8, n \in Nat
  <1>10. d = [buffer |-> b, capacity |-> n, size |-> z, bytes |-> all]
    BY ONLY <1>1, <1>3, <1>7, d = [buffer |-> b, capacity |-> n, size |-> Len(s),
                                   bytes |-> s \o Data!Malloc(n - Len(s))]
  <1>11. /\ d = [buffer |-> d.buffer, capacity |-> d.capacity, size |-> d.size, bytes |-> d.bytes]
         /\ d.buffer = b /\ d.capacity = n /\ d.size = z /\ d.bytes = all
    BY ONLY <1>10
  <1>12. \A i \in 1 .. z : s[i] \in Int BY ONLY <1>1, <1>2, s \in Seq(Int)
  <1>13. ObjectOK(d)
    BY ONLY <1>2, <1>9, <1>11, <1>12, n \in Nat, b \in Buffers DEF ObjectOK
  <1>14. PICK c : c = Data!Contents(d) OBVIOUS
  <1>15. c \in Seq(Int) /\ Len(c) = z /\ \A i \in 1 .. z : c[i] = s[i]
    BY ONLY <1>9, <1>11, <1>13, <1>14, ContentsAre
  <1>16. c = s BY ONLY <1>1, <1>15, s \in Seq(Int), SeqEqual
  <1> QED BY ONLY <1>11, <1>13, <1>14, <1>16

\* An object that was reallocated holds what it held.
LEMMA ReallocedIs ==
    ASSUME NEW d, ObjectOK(d), NEW required \in Nat, required >= d.capacity, NEW b \in Buffers,
           NEW e, e = Data!Realloced(d, required, b)
    PROVE  /\ ObjectOK(e) /\ e.buffer = b /\ e.capacity = required /\ e.size = d.size
           /\ Data!Contents(e) = Data!Contents(d)
  <1>1. PICK s, z, n : s = d.bytes /\ z = d.size /\ n = d.capacity OBVIOUS
  <1>2. /\ n \in Nat /\ z \in 0 .. n /\ s \in Seq(Int \cup {Junk}) /\ Len(s) = n
        /\ \A i \in 1 .. z : s[i] \in Int
    BY ONLY <1>1, ObjectOK(d) DEF ObjectOK
  <1>3. PICK t : t = [i \in 1 .. required |-> IF i <= n THEN s[i] ELSE Junk] OBVIOUS
  <1>4. t \in [1 .. required -> Int \cup {Junk}]
    <2>1. \A i \in 1 .. n : s[i] \in Int \cup {Junk} BY ONLY <1>2
    <2>2. \A i \in 1 .. required : i <= n => i \in 1 .. n BY ONLY <1>2
    <2> QED BY ONLY <1>3, <2>1, <2>2
  <1>5. t \in Seq(Int \cup {Junk}) /\ Len(t) = required BY ONLY <1>4, required \in Nat
  <1>6. PICK was : d = [buffer |-> was, capacity |-> n, size |-> z, bytes |-> s]
    BY ONLY <1>1, ObjectOK(d) DEF ObjectOK
  <1>7. e = [d EXCEPT !.buffer = b, !.capacity = required, !.bytes = t]
    BY ONLY <1>1, <1>3, e = Data!Realloced(d, required, b) DEF Data!Realloced
  <1>8. e = [buffer |-> b, capacity |-> required, size |-> z, bytes |-> t] BY ONLY <1>6, <1>7
  <1>9. /\ e = [buffer |-> e.buffer, capacity |-> e.capacity, size |-> e.size, bytes |-> e.bytes]
        /\ e.buffer = b /\ e.capacity = required /\ e.size = z /\ e.bytes = t
    BY ONLY <1>8
  <1>10. required >= n BY ONLY <1>1, required >= d.capacity
  <1>11. z \in 0 .. required BY ONLY <1>2, <1>10, required \in Nat
  <1>12. \A i \in 1 .. z : t[i] = s[i] BY ONLY <1>2, <1>3, <1>10, required \in Nat
  <1>13. ObjectOK(e)
    BY ONLY <1>2, <1>5, <1>9, <1>11, <1>12, required \in Nat, b \in Buffers DEF ObjectOK
  <1>14. PICK c, f : c = Data!Contents(d) /\ f = Data!Contents(e) OBVIOUS
  <1>15. /\ c \in Seq(Int) /\ Len(c) = z /\ \A i \in 1 .. z : c[i] = s[i]
         /\ f \in Seq(Int) /\ Len(f) = z /\ \A i \in 1 .. z : f[i] = t[i]
    BY ONLY <1>1, <1>9, <1>13, <1>14, ContentsAre, ObjectOK(d)
  <1>16. f = c BY ONLY <1>12, <1>15, SeqEqual
  <1> QED BY ONLY <1>1, <1>9, <1>13, <1>14, <1>16

\* Bytes are put behind those an object holds.
LEMMA PutIs ==
    ASSUME NEW d, ObjectOK(d), NEW s \in Seq(Int), d.size + Len(s) <= d.capacity,
           NEW e, e = Data!Put(d, s)
    PROVE  ObjectOK(e) /\ e.buffer = d.buffer /\ Data!Contents(e) = Data!Contents(d) \o s
  <1>1. PICK b, z, n, m, c : /\ b = d.bytes /\ z = d.size /\ n = d.capacity /\ m = Len(s)
                             /\ c = Data!Contents(d)
    OBVIOUS
  <1>2. /\ n \in Nat /\ z \in 0 .. n /\ b \in Seq(Int \cup {Junk}) /\ Len(b) = n
    BY ONLY <1>1, ObjectOK(d) DEF ObjectOK
  <1>3. c \in Seq(Int) /\ Len(c) = z BY ONLY <1>1, ContentsAre, ObjectOK(d)
  <1>4. m \in Nat /\ z + m <= n BY ONLY <1>1, s \in Seq(Int), d.size + Len(s) <= d.capacity
  <1>5. PICK rest : rest = SubSeq(b, z + m + 1, n) OBVIOUS
  <1>6. rest \in Seq(Int \cup {Junk}) /\ Len(rest) = n - (z + m)
    <2>1. PICK from : from = z + m + 1 OBVIOUS
    <2>2. from \in Int /\ n \in Int /\ \A i \in from .. n : i \in 1 .. n BY ONLY <1>2, <1>4, <2>1
    <2>3. \A i \in from .. n : b[i] \in Int \cup {Junk} BY ONLY <1>2, <2>2
    <2>4. rest \in Seq(Int \cup {Junk}) /\ Len(rest) = IF from <= n THEN n - from + 1 ELSE 0
      BY ONLY <1>5, <2>1, <2>2, <2>3, SubSeqProperties
    <2> QED BY ONLY <1>2, <1>4, <2>1, <2>4
  <1>7. PICK front : front = c \o s OBVIOUS
  <1>8. front \in Seq(Int) /\ Len(front) = z + m
    BY ONLY <1>1, <1>3, <1>7, s \in Seq(Int), ConcatProperties
  <1>9. PICK k : k = z + m OBVIOUS
  <1>10. k \in 0 .. n /\ Len(front) = k BY ONLY <1>2, <1>4, <1>8, <1>9
  <1>11. front \in Seq(Int \cup {Junk})
    <2>1. front \in [1 .. k -> Int] BY ONLY <1>8, <1>10
    <2>2. front \in [1 .. k -> Int \cup {Junk}] BY ONLY <2>1
    <2> QED BY ONLY <1>2, <1>10, <2>2
  <1>12. PICK all : all = front \o rest OBVIOUS
  <1>13. /\ all \in Seq(Int \cup {Junk}) /\ Len(all) = n
         /\ \A i \in 1 .. k : all[i] = front[i]
    <2>1. PICK l : l = Len(rest) OBVIOUS
    <2>2. l \in Nat /\ k \in Nat /\ k + l = n BY ONLY <1>2, <1>4, <1>6, <1>9, <2>1
    <2>3. /\ all \in Seq(Int \cup {Junk}) /\ Len(all) = k + l
          /\ \A i \in 1 .. k + l : all[i] = IF i <= k THEN front[i] ELSE rest[i - k]
      BY ONLY <1>6, <1>10, <1>11, <1>12, <2>1, ConcatProperties
    <2> QED BY ONLY <2>2, <2>3
  <1>14. PICK u : d = [buffer |-> u, capacity |-> n, size |-> z, bytes |-> b]
    BY ONLY <1>1, ObjectOK(d) DEF ObjectOK
  <1>15. e = [d EXCEPT !.size = k, !.bytes = all]
    BY ONLY <1>1, <1>5, <1>7, <1>9, <1>12, e = Data!Put(d, s) DEF Data!Put
  <1>16. e = [buffer |-> u, capacity |-> n, size |-> k, bytes |-> all] BY ONLY <1>14, <1>15
  <1>17. /\ e = [buffer |-> e.buffer, capacity |-> e.capacity, size |-> e.size, bytes |-> e.bytes]
         /\ e.buffer = d.buffer /\ e.capacity = n /\ e.size = k /\ e.bytes = all
    BY ONLY <1>14, <1>16
  <1>18. \A i \in 1 .. k : front[i] \in Int BY ONLY <1>8, <1>10
  <1>19. ObjectOK(e)
    <2>1. d.buffer \in Buffers BY ONLY ObjectOK(d) DEF ObjectOK
    <2> QED BY ONLY <1>2, <1>10, <1>13, <1>17, <1>18, <2>1 DEF ObjectOK
  <1>20. PICK f : f = Data!Contents(e) OBVIOUS
  <1>21. f \in Seq(Int) /\ Len(f) = k /\ \A i \in 1 .. k : f[i] = front[i]
    BY ONLY <1>13, <1>17, <1>19, <1>20, ContentsAre
  <1>22. f = front BY ONLY <1>8, <1>10, <1>21, SeqEqual
  <1> QED BY ONLY <1>1, <1>7, <1>17, <1>19, <1>20, <1>22

\* What every object holds.
Said(d) == IF d = NoData THEN NoData ELSE Data!Contents(d)

Held(h) == [x \in Names |-> Said(h[x])]

LEMMA SaidIs ==
    ASSUME NEW d, ObjectOK(d)
    PROVE  d # NoData /\ Said(d) = Data!Contents(d) /\ Said(d) # NoData
  <1>1. d # NoData BY ONLY ObjectIs, ObjectOK(d)
  <1>2. Data!Contents(d) \in Seq(Int) BY ONLY ContentsAre, ObjectOK(d)
  <1> QED BY ONLY <1>1, <1>2, DataAssumption DEF Said

\* An object becomes another, or the first, or is gone.
LEMMA ModifyStep ==
    ASSUME DataInv, NEW x \in Names, NEW d, Data!Modify(x, d), Allowed(data, x, d)
    PROVE  /\ DataInv'
           /\ Held(data') = [Held(data) EXCEPT ![x] = Said(d)]
           /\ Held(data)[x] = Said(data[x])
           /\ Held(data)[x] = NoData <=> data[x] = NoData
  <1>1. DataInv' BY ONLY ModifyInv, DataInv, x \in Names, Data!Modify(x, d), Allowed(data, x, d)
  <1>2. Heap(data) BY DEF DataInv
  <1>3. data' = [data EXCEPT ![x] = d] BY DEF Data!Modify
  <1>4. PICK h, g : h = data /\ g = data' OBVIOUS
  <1>5. Held(g) = [Held(h) EXCEPT ![x] = Said(d)]
    <2>1. h = [y \in Names |-> h[y]] BY ONLY <1>2, <1>4 DEF Heap
    <2>2. g = [h EXCEPT ![x] = d] BY ONLY <1>3, <1>4
    <2>3. g = [y \in Names |-> IF y = x THEN d ELSE h[y]] BY ONLY <2>1, <2>2
    <2>4. \A y \in Names : Said(g[y]) = IF y = x THEN Said(d) ELSE Said(h[y]) BY ONLY <2>3
    <2> QED BY ONLY <2>4 DEF Held
  <1>6. Held(h)[x] = Said(h[x]) BY ONLY x \in Names DEF Held
  <1>7. h[x] = NoData \/ ObjectOK(h[x]) BY ONLY <1>2, <1>4, x \in Names DEF Heap
  <1>8. Said(h[x]) = NoData <=> h[x] = NoData
    <2>1. CASE h[x] = NoData BY ONLY <2>1 DEF Said
    <2>2. CASE ObjectOK(h[x]) BY ONLY <2>2, SaidIs
    <2> QED BY ONLY <1>7, <2>1, <2>2
  <1> QED BY ONLY <1>1, <1>4, <1>5, <1>6, <1>8

\* cos_data_alloc with bytes that are copied into the object.
LEMMA NewStep ==
    ASSUME DataInv, NEW x \in Names, NEW n \in Nat, NEW s \in Seq(Int), Len(s) <= n,
           Data!New(x, n, s)
    PROVE  DataInv' /\ (Held(data') = Held(data) \/ Data!ContentsOf!Create(x, s))
  <1>1. CASE UNCHANGED Data!vars
    <2>1. data' = data /\ ref' = ref /\ taken' = taken BY <1>1 DEF Data!vars
    <2>2. DataInv' BY <2>1 DEF DataInv, Data!NotTaken
    <2> QED BY <2>1, <2>2
  <1>2. CASE ~UNCHANGED Data!vars
    <2>1. data[x] = NoData BY <1>2 DEF Data!New
    <2>2. PICK b \in Buffers \ Data!Used :
            data' = [data EXCEPT ![x] = [buffer |-> b, capacity |-> n, size |-> Len(s),
                                         bytes |-> s \o Data!Malloc(n - Len(s))]]
      BY <1>2 DEF Data!New
    <2>3. ref' = ref /\ taken' = taken BY <1>2 DEF Data!New
    <2>4. PICK d : d = [buffer |-> b, capacity |-> n, size |-> Len(s),
                        bytes |-> s \o Data!Malloc(n - Len(s))]
      OBVIOUS
    <2>5. ObjectOK(d) /\ d.buffer = b /\ Data!Contents(d) = s
      BY ONLY <2>4, MadeIs, b \in Buffers, n \in Nat, s \in Seq(Int), Len(s) <= n
    <2>6. \A y \in Names : data[y] # NoData => data[y].buffer # b BY DEF Data!Used, Data!Live
    <2>7. Allowed(data, x, d) BY ONLY <2>5, <2>6 DEF Allowed
    <2>8. taken.of # x
      <3>1. Data!NotTaken.of # x BY DataAssumption DEF Data!NotTaken
      <3> QED BY <2>1, <3>1 DEF DataInv, Refers
    <2>9. Data!Modify(x, d) BY <2>2, <2>3, <2>4, <2>8 DEF Data!Modify
    <2>10. /\ DataInv' /\ Held(data') = [Held(data) EXCEPT ![x] = Said(d)]
           /\ Held(data)[x] = NoData <=> data[x] = NoData
      BY ONLY <2>7, <2>9, ModifyStep, DataInv, x \in Names
    <2>11. Said(d) = s BY ONLY <2>5, SaidIs
    <2>12. Data!ContentsOf!Create(x, s)
      BY ONLY <2>1, <2>10, <2>11
      DEF Data!ContentsOf!Create, Data!ContentsOf!Exists, Held, Said, Data!Contents
    <2> QED BY ONLY <2>10, <2>12
  <1> QED BY ONLY <1>1, <1>2

\* cos_data_resize_: the object holds what it held, in memory of its own.
LEMMA ResizedIs ==
    ASSUME DataInv, NEW x \in Names, data[x] # NoData, NEW required \in Nat,
           NEW d \in Data!Resized(x, required)
    PROVE  /\ ObjectOK(d) /\ d.capacity >= required /\ d.size = data[x].size
           /\ Data!Contents(d) = Data!Contents(data[x])
           /\ \A y \in Names \ {x} : data[y] = NoData \/ data[y].buffer # d.buffer
  <1>1. Heap(data) BY DEF DataInv
  <1>2. PICK was : was = data[x] OBVIOUS
  <1>3. ObjectOK(was) BY ONLY <1>1, <1>2, x \in Names, data[x] # NoData DEF Heap
  <1>4. \A y \in Names \ {x} : data[y] = NoData \/ data[y].buffer # was.buffer
    BY ONLY <1>1, <1>2, x \in Names, data[x] # NoData DEF Heap
  <1>5. CASE d = was /\ (was.capacity >= required) BY ONLY <1>2, <1>3, <1>4, <1>5
  <1>6. CASE ~(was.capacity >= required)
    <2>1. PICK b \in {was.buffer} \cup (Buffers \ Data!Used) : d = Data!Realloced(was, required, b)
      BY <1>2, <1>6 DEF Data!Resized, Data!IsLargeEnough
    <2>2. was.capacity \in Nat /\ was.buffer \in Buffers BY ONLY <1>3 DEF ObjectOK
    <2>3. required >= was.capacity BY ONLY <1>6, <2>2, required \in Nat
    <2>4. b \in Buffers BY ONLY <2>1, <2>2
    <2>5. /\ ObjectOK(d) /\ d.buffer = b /\ d.capacity = required /\ d.size = was.size
          /\ Data!Contents(d) = Data!Contents(was)
      BY ONLY <1>3, <2>1, <2>3, <2>4, ReallocedIs, required \in Nat
    <2>6. required >= required BY ONLY required \in Nat
    <2>7. \A y \in Names \ {x} : data[y] = NoData \/ data[y].buffer # b
      <3>1. CASE b = was.buffer BY ONLY <1>4, <3>1
      <3>2. CASE b \notin Data!Used BY ONLY <3>2 DEF Data!Used, Data!Live
      <3> QED BY ONLY <2>1, <3>1, <3>2
    <2> QED BY ONLY <1>2, <2>5, <2>6, <2>7
  <1>7. (d = was /\ was.capacity >= required) \/ ~(was.capacity >= required)
    BY <1>2 DEF Data!Resized, Data!IsLargeEnough
  <1> QED BY ONLY <1>5, <1>6, <1>7

\* The pieces that contents grow by.
Appended == UNION {{p} \cup {<<p[i]>> : i \in DOMAIN p} : p \in Pieces}

\* cos_data_append, and cos_data_push_back of one byte.
LEMMA AppendStep ==
    ASSUME DataInv, NEW x \in Names, data[x] # NoData, NEW s \in Seq(Int), s \in Appended,
           NEW d \in Data!Resized(x, data[x].size + Len(s)), Data!Modify(x, Data!Put(d, s))
    PROVE  DataInv' /\ Data!ContentsOf!Next
  <1>1. PICK z, m, required : z = data[x].size /\ m = Len(s) /\ required = z + m OBVIOUS
  <1>2. ObjectOK(data[x]) BY DEF DataInv, Heap
  <1>3. z \in Nat /\ m \in Nat /\ required \in Nat
    <2>1. z \in Nat BY ONLY <1>1, <1>2 DEF ObjectOK
    <2> QED BY ONLY <1>1, <2>1, s \in Seq(Int)
  <1>4. d \in Data!Resized(x, required) BY ONLY <1>1, d \in Data!Resized(x, data[x].size + Len(s))
  <1>5. /\ ObjectOK(d) /\ d.capacity >= required /\ d.size = data[x].size
        /\ Data!Contents(d) = Data!Contents(data[x])
        /\ \A y \in Names \ {x} : data[y] = NoData \/ data[y].buffer # d.buffer
    BY ONLY <1>3, <1>4, ResizedIs, DataInv, x \in Names, data[x] # NoData
  <1>6. d.size + Len(s) <= d.capacity
    <2>1. d.capacity \in Nat BY ONLY <1>5 DEF ObjectOK
    <2> QED BY ONLY <1>1, <1>3, <1>5, <2>1
  <1>7. PICK e : e = Data!Put(d, s) OBVIOUS
  <1>8. ObjectOK(e) /\ e.buffer = d.buffer /\ Data!Contents(e) = Data!Contents(d) \o s
    BY ONLY <1>5, <1>6, <1>7, PutIs, s \in Seq(Int)
  <1>9. Allowed(data, x, e) BY ONLY <1>5, <1>8 DEF Allowed
  <1>10. Data!Modify(x, e) BY ONLY <1>7, Data!Modify(x, Data!Put(d, s))
  <1>11. /\ DataInv' /\ Held(data') = [Held(data) EXCEPT ![x] = Said(e)]
         /\ Held(data)[x] = Said(data[x]) /\ (Held(data)[x] = NoData <=> data[x] = NoData)
    BY ONLY <1>9, <1>10, ModifyStep, DataInv, x \in Names
  <1>12. Said(e) = Said(data[x]) \o s BY ONLY <1>2, <1>5, <1>8, SaidIs
  <1>13. Data!ContentsOf!Extend(x, s)
    BY ONLY <1>11, <1>12, data[x] # NoData
    DEF Data!ContentsOf!Extend, Data!ContentsOf!Exists, Held, Said, Data!Contents
  <1> QED BY ONLY <1>11, <1>13, x \in Names, s \in Appended DEF Data!ContentsOf!Next, Appended

\* What a reference that is taken now says.
LEMMA TakeStep ==
    ASSUME DataInv, NEW x \in Names, data[x] # NoData, NEW o \in Nat, NEW n \in Nat,
           o + n <= data[x].size, Data!Take(x, o, n)
    PROVE  DataInv' /\ Held(data') = Held(data)
  <1>1. /\ ref' = [buffer |-> data[x].buffer, offset |-> o, size |-> n]
        /\ taken' = [of |-> x, bytes |-> Data!Read(data, ref')] /\ data' = data
    BY DEF Data!Take
  <1>2. Heap(data) BY DEF DataInv
  <1>3. PICK h, r, t, b : h = data /\ r = ref' /\ t = taken' /\ b = Data!Read(data, ref') OBVIOUS
  <1>4. r = [buffer |-> h[x].buffer, offset |-> o, size |-> n] /\ t = [of |-> x, bytes |-> b]
    BY ONLY <1>1, <1>3
  <1>5. r.buffer = h[x].buffer /\ r.offset = o /\ r.size = n BY ONLY <1>4
  <1>6. ObjectOK(h[x]) BY ONLY <1>2, <1>3, data[x] # NoData, x \in Names DEF Heap
  <1>7. PICK z, c : z = h[x].size /\ c = h[x].capacity OBVIOUS
  <1>8. z \in Nat /\ c \in Nat /\ z <= c BY ONLY <1>6, <1>7 DEF ObjectOK
  <1>9. o + n <= z BY ONLY <1>3, <1>7, o + n <= data[x].size
  <1>10. r.offset + r.size <= h[x].capacity
    BY ONLY <1>5, <1>7, <1>8, <1>9, o \in Nat, n \in Nat
  <1>11. Data!Read(h, r) = [i \in 1 .. r.size |-> h[x].bytes[r.offset + i]]
    BY ONLY <1>2, <1>3, <1>5, <1>10, ReadsObject, x \in Names, data[x] # NoData,
            o \in Nat, n \in Nat
  <1>12. b = Data!Read(h, r) BY ONLY <1>3
  <1>13. Refers(h, r, t)
    BY ONLY <1>3, <1>4, <1>5, <1>7, <1>9, <1>11, <1>12, x \in Names, data[x] # NoData,
            o \in Nat, n \in Nat DEF Refers
  <1>14. r # NoRef
    <2>1. h[x].buffer \in Buffers BY ONLY <1>6 DEF ObjectOK
    <2>2. r \in [buffer : Buffers, offset : Nat, size : Nat]
      BY ONLY <1>4, <2>1, o \in Nat, n \in Nat
    <2> QED BY ONLY <2>2, DataAssumption
  <1>15. DataInv' BY ONLY <1>1, <1>2, <1>3, <1>13, <1>14 DEF DataInv
  <1> QED BY ONLY <1>1, <1>15

\* An object that is there.
LEMMA LiveIs ==
    ASSUME DataInv, NEW x \in Names, data[x] # NoData
    PROVE  /\ ObjectOK(data[x]) /\ Said(data[x]) = Data!Contents(data[x])
           /\ Held(data)[x] = Data!Contents(data[x]) /\ Held(data)[x] # NoData
           /\ Data!Contents(data[x]) \in Seq(Int)
           /\ Len(Data!Contents(data[x])) = data[x].size /\ data[x].size \in Nat
  <1>1. PICK d : d = data[x] OBVIOUS
  <1>2. ObjectOK(d) BY <1>1 DEF DataInv, Heap
  <1>3. d.size \in Nat BY ONLY <1>2 DEF ObjectOK
  <1>4. Data!Contents(d) \in Seq(Int) /\ Len(Data!Contents(d)) = d.size
    BY ONLY <1>2, ContentsAre
  <1>5. Said(d) = Data!Contents(d) /\ Said(d) # NoData BY ONLY <1>2, SaidIs
  <1>6. Held(data)[x] = Said(data[x]) BY ONLY x \in Names DEF Held
  <1> QED BY ONLY <1>1, <1>2, <1>3, <1>4, <1>5, <1>6

LEMMA DataNext ==
    ASSUME DataInv, [Data!Next]_(Data!vars)
    PROVE  DataInv' /\ (Data!ContentsOf!Next \/ Held(data') = Held(data))
  <1>1. ASSUME UNCHANGED Data!vars
        PROVE  DataInv' /\ Held(data') = Held(data)
    <2>1. data' = data /\ ref' = ref /\ taken' = taken BY <1>1 DEF Data!vars
    <2> QED BY <2>1 DEF DataInv, Data!NotTaken
  <1>2. ASSUME NEW x \in Names, NEW d, data[x] # NoData, Data!Modify(x, d), Allowed(data, x, d)
        PROVE  /\ DataInv' /\ Held(data') = [Held(data) EXCEPT ![x] = Said(d)]
               /\ Held(data)[x] # NoData
    BY ONLY <1>2, ModifyStep, DataInv
  <1>3. ASSUME NEW x \in Names, Data!Alloc(x)
        PROVE  DataInv' /\ (Data!ContentsOf!Next \/ Held(data') = Held(data))
    <2>1. PICK hint \in 0 .. DataMax : Data!New(x, hint, <<>>) BY <1>3 DEF Data!Alloc
    <2>2. PICK s : s = <<>> OBVIOUS
    <2>3. hint \in Nat /\ s \in Seq(Int) /\ Len(s) <= hint BY ONLY <2>2, DataAssumption
    <2>4. DataInv' /\ (Held(data') = Held(data) \/ Data!ContentsOf!Create(x, s))
      BY ONLY <2>1, <2>2, <2>3, NewStep, DataInv
    <2> QED BY ONLY <2>2, <2>4 DEF Data!ContentsOf!Next
  <1>4. ASSUME NEW x \in Names, NEW y \in Names, Data!Copy(x, y)
        PROVE  DataInv' /\ (Data!ContentsOf!Next \/ Held(data') = Held(data))
    <2>1. data[x] # NoData /\ Data!New(y, data[x].size, Data!Contents(data[x]))
      BY <1>4 DEF Data!Copy, Data!Live
    <2>2. PICK z, s : z = data[x].size /\ s = Data!Contents(data[x]) OBVIOUS
    <2>3. z \in Nat /\ s \in Seq(Int) /\ Len(s) <= z /\ Held(data)[x] = s /\ s # NoData
      BY ONLY <2>1, <2>2, LiveIs, DataInv
    <2>4. DataInv' /\ (Held(data') = Held(data) \/ Data!ContentsOf!Create(y, s))
      BY ONLY <2>1, <2>2, <2>3, NewStep, DataInv
    <2>5. Data!ContentsOf!Create(y, s) => Data!ContentsOf!Copy(x, y)
      BY ONLY <2>3 DEF Data!ContentsOf!Copy, Data!ContentsOf!Create, Data!ContentsOf!Exists,
                       Held, Said, Data!Contents
    <2> QED BY ONLY <2>4, <2>5 DEF Data!ContentsOf!Next
  <1>5. ASSUME NEW x \in Names, Data!Free(x)
        PROVE  DataInv' /\ Data!ContentsOf!Next
    <2>1. data[x] # NoData /\ Data!Modify(x, NoData) BY <1>5 DEF Data!Free, Data!Live
    <2>2. Allowed(data, x, NoData) BY DEF Allowed
    <2>3. /\ DataInv' /\ Held(data') = [Held(data) EXCEPT ![x] = Said(NoData)]
          /\ Held(data)[x] # NoData
      BY ONLY <1>2, <2>1, <2>2
    <2>4. Said(NoData) = NoData BY ONLY DEF Said
    <2>5. Data!ContentsOf!Destroy(x)
      BY ONLY <2>3, <2>4
      DEF Data!ContentsOf!Destroy, Data!ContentsOf!Exists, Held, Said, Data!Contents
    <2> QED BY ONLY <2>3, <2>5 DEF Data!ContentsOf!Next
  <1>6. ASSUME NEW x \in Names, Data!Reset(x)
        PROVE  DataInv' /\ Data!ContentsOf!Next
    <2>1. data[x] # NoData /\ Data!Modify(x, [data[x] EXCEPT !.size = 0])
      BY <1>6 DEF Data!Reset, Data!Live
    <2>2. PICK was, d : was = data[x] /\ d = [was EXCEPT !.size = 0] OBVIOUS
    <2>3. ObjectOK(was) /\ \A y \in Names \ {x} : data[y] = NoData \/ data[y].buffer # was.buffer
      BY <2>1, <2>2 DEF DataInv, Heap
    <2>4. PICK b, n, z, s : was = [buffer |-> b, capacity |-> n, size |-> z, bytes |-> s]
      BY ONLY <2>3 DEF ObjectOK
    <2>5. was.buffer = b /\ was.capacity = n /\ was.bytes = s BY ONLY <2>4
    <2>6. d = [buffer |-> b, capacity |-> n, size |-> 0, bytes |-> s] BY ONLY <2>2, <2>4
    <2>7. /\ d = [buffer |-> d.buffer, capacity |-> d.capacity, size |-> d.size, bytes |-> d.bytes]
          /\ d.buffer = b /\ d.capacity = n /\ d.size = 0 /\ d.bytes = s
      BY ONLY <2>6
    <2>8. ObjectOK(d) BY ONLY <2>3, <2>5, <2>7 DEF ObjectOK
    <2>9. Allowed(data, x, d) BY ONLY <2>3, <2>5, <2>7, <2>8 DEF Allowed
    <2>10. Data!Modify(x, d) BY ONLY <2>1, <2>2
    <2>11. /\ DataInv' /\ Held(data') = [Held(data) EXCEPT ![x] = Said(d)]
           /\ Held(data)[x] # NoData
      BY ONLY <1>2, <2>1, <2>9, <2>10
    <2>12. PICK c : c = Data!Contents(d) OBVIOUS
    <2>13. c \in Seq(Int) /\ Len(c) = 0 BY ONLY <2>7, <2>8, <2>12, ContentsAre
    <2>14. c = <<>> BY ONLY <2>13
    <2>15. Said(d) = <<>> BY ONLY <2>8, <2>12, <2>14, SaidIs
    <2>16. Data!ContentsOf!Clear(x)
      BY ONLY <2>11, <2>15
      DEF Data!ContentsOf!Clear, Data!ContentsOf!Exists, Held, Said, Data!Contents
    <2> QED BY ONLY <2>11, <2>16 DEF Data!ContentsOf!Next
  <1>7. ASSUME NEW x \in Names, Data!Reserve(x)
        PROVE  DataInv' /\ Held(data') = Held(data)
    <2>1. CASE UNCHANGED Data!vars BY ONLY <1>1, <2>1
    <2>2. CASE ~UNCHANGED Data!vars
      <3>1. data[x] # NoData BY <1>7 DEF Data!Reserve, Data!Live
      <3>2. PICK required \in 0 .. DataMax :
              \E d \in Data!Resized(x, required) : Data!Modify(x, d)
        BY <1>7, <2>2 DEF Data!Reserve
      <3>3. PICK d \in Data!Resized(x, required) : Data!Modify(x, d) BY <3>2
      <3>4. required \in Nat BY ONLY DataAssumption
      <3>5. /\ ObjectOK(d) /\ Data!Contents(d) = Data!Contents(data[x])
            /\ \A y \in Names \ {x} : data[y] = NoData \/ data[y].buffer # d.buffer
        BY ONLY <3>1, <3>4, ResizedIs, DataInv
      <3>6. Allowed(data, x, d) BY ONLY <3>5 DEF Allowed
      <3>7. DataInv' /\ Held(data') = [Held(data) EXCEPT ![x] = Said(d)]
        BY ONLY <1>2, <3>1, <3>3, <3>6
      <3>8. Said(d) = Held(data)[x] BY ONLY <3>1, <3>5, LiveIs, SaidIs, DataInv
      <3>9. [Held(data) EXCEPT ![x] = Held(data)[x]] = Held(data) BY ONLY DEF Held
      <3> QED BY ONLY <3>7, <3>8, <3>9
    <2> QED BY ONLY <2>1, <2>2
  <1>8. ASSUME NEW x \in Names, Data!AppendBytes(x)
        PROVE  DataInv' /\ (Data!ContentsOf!Next \/ Held(data') = Held(data))
    <2>1. CASE UNCHANGED Data!vars BY ONLY <1>1, <2>1
    <2>2. CASE ~UNCHANGED Data!vars
      <3>1. data[x] # NoData BY <1>8 DEF Data!AppendBytes, Data!Live
      <3>2. PICK s \in Pieces : \E d \in Data!Resized(x, data[x].size + Len(s)) :
                                  Data!Modify(x, Data!Put(d, s))
        BY <1>8, <2>2 DEF Data!AppendBytes
      <3>3. s \in Seq(Int) /\ s \in Appended BY DataAssumption DEF Appended
      <3> QED BY ONLY <3>1, <3>2, <3>3, AppendStep, DataInv
    <2> QED BY ONLY <2>1, <2>2
  <1>9. ASSUME NEW x \in Names, Data!PushBack(x)
        PROVE  DataInv' /\ (Data!ContentsOf!Next \/ Held(data') = Held(data))
    <2>1. CASE UNCHANGED Data!vars BY ONLY <1>1, <2>1
    <2>2. CASE ~UNCHANGED Data!vars
      <3>1. data[x] # NoData BY <1>9 DEF Data!PushBack, Data!Live
      <3>2. PICK byte \in UNION {{p[i] : i \in DOMAIN p} : p \in Pieces} :
              \E d \in Data!Resized(x, data[x].size + 1) : Data!Modify(x, Data!Put(d, <<byte>>))
        BY <1>9, <2>2 DEF Data!PushBack
      <3>3. PICK p \in Pieces : \E i \in DOMAIN p : byte = p[i] BY ONLY <3>2
      <3>4. p \in Seq(Int) BY ONLY DataAssumption
      <3>5. byte \in Int BY ONLY <3>3, <3>4
      <3>6. PICK s : s = <<byte>> OBVIOUS
      <3>7. s \in Seq(Int) /\ Len(s) = 1 BY ONLY <3>5, <3>6
      <3>8. s \in Appended BY ONLY <3>3, <3>6 DEF Appended
      <3>9. \E d \in Data!Resized(x, data[x].size + Len(s)) : Data!Modify(x, Data!Put(d, s))
        BY ONLY <3>2, <3>6, <3>7
      <3> QED BY ONLY <3>1, <3>7, <3>8, <3>9, AppendStep, DataInv
    <2> QED BY ONLY <2>1, <2>2
  <1>10. ASSUME NEW x \in Names, Data!GetRef(x)
         PROVE  DataInv' /\ Held(data') = Held(data)
    <2>1. data[x] # NoData /\ Data!Take(x, 0, data[x].size) BY <1>10 DEF Data!GetRef, Data!Live
    <2>2. PICK z : z = data[x].size OBVIOUS
    <2>3. z \in Nat BY ONLY <2>1, <2>2, LiveIs, DataInv
    <2>4. 0 \in Nat /\ 0 + z <= z BY ONLY <2>3
    <2> QED BY ONLY <2>1, <2>2, <2>3, <2>4, TakeStep, DataInv
  <1>11. ASSUME NEW x \in Names, Data!GetRange(x)
         PROVE  DataInv' /\ Held(data') = Held(data)
    <2>1. data[x] # NoData BY <1>11 DEF Data!GetRange, Data!Live
    <2>2. PICK o \in 0 .. DataMax, n \in 1 .. DataMax :
            IF o >= data[x].size THEN ref' = NoRef /\ taken' = Data!NotTaken /\ UNCHANGED data
            ELSE Data!Take(x, o, Data!RangeLength(data[x].size, o, n))
      BY <1>11 DEF Data!GetRange
    <2>3. PICK z : z = data[x].size OBVIOUS
    <2>4. z \in Nat /\ o \in Nat /\ n \in Nat BY ONLY <2>1, <2>3, LiveIs, DataInv, DataAssumption
    <2>5. CASE o >= z
      <3>1. ref' = NoRef /\ taken' = Data!NotTaken /\ data' = data BY ONLY <2>2, <2>3, <2>5
      <3>2. DataInv' BY <3>1 DEF DataInv, Data!NotTaken
      <3> QED BY ONLY <3>1, <3>2
    <2>6. CASE ~(o >= z)
      <3>1. PICK l : l = Data!RangeLength(z, o, n) OBVIOUS
      <3>2. l \in Nat /\ o + l <= z BY ONLY <2>4, <2>6, <3>1 DEF Data!RangeLength
      <3>3. Data!Take(x, o, l) BY ONLY <2>2, <2>3, <2>6, <3>1
      <3> QED BY ONLY <2>1, <2>3, <2>4, <3>2, <3>3, TakeStep, DataInv
    <2> QED BY ONLY <2>5, <2>6
  <1>12. CASE UNCHANGED Data!vars BY ONLY <1>1, <1>12
  <1>13. CASE Data!Next
    BY ONLY <1>3, <1>4, <1>5, <1>6, <1>7, <1>8, <1>9, <1>10, <1>11, <1>13 DEF Data!Next
  <1> QED BY ONLY <1>12, <1>13, [Data!Next]_(Data!vars)

LEMMA DataInit == Data!Init => DataInv /\ Data!ContentsOf!Init
  <1> SUFFICES ASSUME Data!Init PROVE DataInv /\ Data!ContentsOf!Init OBVIOUS
  <1>1. data = [x \in Names |-> NoData] /\ ref = NoRef /\ taken = Data!NotTaken BY DEF Data!Init
  <1>2. Heap(data) BY <1>1 DEF Heap
  <1>3. DataInv BY <1>1, <1>2 DEF DataInv
  <1>4. Data!ContentsOf!Init BY <1>1 DEF Data!ContentsOf!Init
  <1> QED BY ONLY <1>3, <1>4

LEMMA DataInvImplies == DataInv => Data!TypeOK /\ Data!RefsStayValid
  <1> SUFFICES ASSUME DataInv PROVE Data!TypeOK /\ Data!RefsStayValid OBVIOUS
  <1>1. Data!TypeOK BY DEF DataInv, Heap, ObjectOK, Data!TypeOK, Data!Live
  <1>2. ASSUME ref # NoRef PROVE Data!RefsStayValid
    <2>1. PICK h, r, t : h = data /\ r = ref /\ t = taken OBVIOUS
    <2>2. Heap(h) /\ Refers(h, r, t) BY <1>2, <2>1 DEF DataInv
    <2>3. PICK x : x = t.of OBVIOUS
    <2>4. /\ x \in Names /\ h[x] # NoData /\ r.buffer = h[x].buffer
          /\ r.offset \in Nat /\ r.size \in Nat /\ r.offset + r.size <= h[x].size
          /\ t.bytes = [i \in 1 .. r.size |-> h[x].bytes[r.offset + i]]
      BY ONLY <2>2, <2>3 DEF Refers
    <2>5. ObjectOK(h[x]) BY ONLY <2>2, <2>4 DEF Heap
    <2>6. PICK z, c, o, n, s : /\ z = h[x].size /\ c = h[x].capacity /\ o = r.offset /\ n = r.size
                               /\ s = h[x].bytes
      OBVIOUS
    <2>7. z \in Nat /\ c \in Nat /\ z <= c /\ \A i \in 1 .. z : s[i] \in Int
      BY ONLY <2>5, <2>6 DEF ObjectOK
    <2>8. o \in Nat /\ n \in Nat /\ o + n <= z BY ONLY <2>4, <2>6
    <2>9. r.offset + r.size <= h[x].capacity BY ONLY <2>6, <2>7, <2>8
    <2>10. Data!Read(h, r) = t.bytes BY ONLY <2>2, <2>4, <2>9, ReadsObject
    <2>11. \A i \in 1 .. n : o + i \in 1 .. z BY ONLY <2>7, <2>8
    <2>12. \A i \in 1 .. r.size : t.bytes[i] # Junk
      BY ONLY <2>4, <2>6, <2>7, <2>11, DataAssumption
    <2>13. r.buffer \in Data!Used BY ONLY <2>1, <2>4 DEF Data!Used, Data!Live
    <2> QED BY ONLY <2>1, <2>10, <2>12, <2>13 DEF Data!RefsStayValid
  <1>3. ref = NoRef => Data!RefsStayValid BY DEF Data!RefsStayValid
  <1> QED BY ONLY <1>1, <1>2, <1>3

\* A data object is a sequence that pieces are appended to: whichever call made
\* its memory larger or moved it, and whichever allocation failed (CosData.c).
THEOREM DataHoldsWhatWasAppended == Data!Spec => Data!HoldsWhatWasAppended
  <1>1. DataInv /\ [Data!Next]_(Data!vars) => DataInv' /\ [Data!ContentsOf!Next]_(Held(data))
    BY DataNext
  <1>2. Data!Spec => Data!ContentsOf!Init /\ [][Data!ContentsOf!Next]_(Held(data))
    BY <1>1, DataInit, PTL DEF Data!Spec
  <1>4. Data!HoldsWhatWasAppended <=> Data!ContentsOf!Spec BY DEF Data!HoldsWhatWasAppended
  <1>5. Data!ContentsOf!Spec <=> Data!ContentsOf!Init /\ [][Data!ContentsOf!Next]_(Held(data))
    BY DEF Data!ContentsOf!Spec, Held, Said
  <1> QED BY <1>2, <1>4, <1>5

\* A reference into a data object reads what it read, until that object is
\* modified or freed, and no two objects share memory (CosData.c).
THEOREM ReferencesStayValid == Data!Spec => [](Data!TypeOK /\ Data!RefsStayValid)
  <1>1. DataInv /\ [Data!Next]_(Data!vars) => DataInv' BY DataNext
  <1> QED BY <1>1, DataInit, DataInvImplies, PTL DEF Data!Spec

-----------------------------------------------------------------------------
(* Strings *)

\* A string has memory for its capacity, and its text, in which no character
\* is nul, has its terminator in it.
StringOK(s) ==
    /\ s = [data |-> s.data, length |-> s.length, capacity |-> s.capacity]
    /\ s.length \in Nat /\ s.capacity \in Nat /\ s.length < s.capacity
    /\ s.data \in Seq(Nat) /\ Len(s.data) = s.capacity
    /\ s.data[s.length + 1] = 0
    /\ \A i \in 1 .. s.length : s.data[i] # 0

StringInv ==
    /\ string = [x \in Names |-> string[x]]
    /\ \A x \in Names : string[x] = NoString \/ StringOK(string[x])
    /\ result \in BOOLEAN

\* The smallest number of a set.
LEMMA MinIs ==
    ASSUME NEW S, S \subseteq Nat, NEW m \in S, \A k \in S : m <= k
    PROVE  String!Min(S) = m
  <1>1. \A k \in S : (\A j \in S : k <= j) => k = m OBVIOUS
  <1>2. String!Min(S) = CHOOSE k \in S : \A j \in S : k <= j BY DEF String!Min
  <1> QED BY ONLY <1>1, <1>2, m \in S, \A k \in S : m <= k

\* strlen finds the first nul.
LEMMA StrlenIs ==
    ASSUME NEW str \in Seq(Nat), NEW n \in 0 .. Len(str), \A i \in 1 .. n : str[i] # 0,
           n < Len(str) => str[n + 1] = 0
    PROVE  String!Strlen(str) = n
  <1>1. PICK z : z = Len(str) OBVIOUS
  <1>2. z \in Nat /\ n \in 0 .. z BY ONLY <1>1, str \in Seq(Nat), n \in 0 .. Len(str)
  <1>3. PICK S : S = {i \in 1 .. z : str[i] = 0} \cup {z + 1} OBVIOUS
  <1>4. S \subseteq Nat BY ONLY <1>2, <1>3
  <1>5. n + 1 \in S
    <2>1. CASE n < z BY ONLY <1>1, <1>2, <1>3, <2>1, n < Len(str) => str[n + 1] = 0
    <2>2. CASE n = z BY ONLY <1>3, <2>2
    <2> QED BY ONLY <1>2, <2>1, <2>2
  <1>6. \A k \in S : n + 1 <= k
    BY ONLY <1>2, <1>3, \A i \in 1 .. n : str[i] # 0
  <1>7. PICK m : m = n + 1 OBVIOUS
  <1>8. String!Min(S) = m BY ONLY <1>4, <1>5, <1>6, <1>7, MinIs
  <1>9. String!Strlen(str) = String!Min(S) - 1 BY ONLY <1>1, <1>3 DEF String!Strlen, String!Nul
  <1> QED BY ONLY <1>2, <1>7, <1>8, <1>9

\* cos_strndup of no more than there is.
LEMMA StrndupIs ==
    ASSUME NEW str \in Seq(Nat), NEW n \in Nat, NEW m \in Nat, n <= m, String!Strlen(str) = m
    PROVE  String!Strndup(str, n) = SubSeq(str, 1, n)
  <1>1. PICK S : S = {m, n} OBVIOUS
  <1>2. S \subseteq Nat /\ n \in S /\ \A k \in S : n <= k
    BY ONLY <1>1, n \in Nat, m \in Nat, n <= m
  <1>3. String!Min(S) = n BY ONLY <1>2, MinIs
  <1> QED BY ONLY <1>1, <1>3, String!Strlen(str) = m DEF String!Strndup

\* The first characters of a sequence without a nul.
LEMMA PrefixIs ==
    ASSUME NEW str \in Seq(Nat), NEW n \in 0 .. Len(str), \A i \in 1 .. n : str[i] # 0,
           NEW p, p = SubSeq(str, 1, n)
    PROVE  /\ p \in Seq(Nat \ {0}) /\ Len(p) = n
           /\ p = [i \in 1 .. n |-> str[i]]
  <1>1. n \in Nat /\ n <= Len(str) BY ONLY str \in Seq(Nat), n \in 0 .. Len(str)
  <1>2. p = [i \in 1 .. n |-> str[i]]
    BY ONLY <1>1, str \in Seq(Nat), p = SubSeq(str, 1, n)
  <1>3. \A i \in 1 .. n : str[i] \in Nat \ {0}
    BY ONLY <1>1, str \in Seq(Nat), \A i \in 1 .. n : str[i] # 0
  <1>4. p \in [1 .. n -> Nat \ {0}] BY ONLY <1>2, <1>3
  <1> QED BY ONLY <1>1, <1>2, <1>4

\* The text of a string.
LEMMA TextIs ==
    ASSUME NEW s, StringOK(s)
    PROVE  /\ String!Text(s) \in Seq(Nat \ {0}) /\ Len(String!Text(s)) = s.length
           /\ String!Text(s) = [i \in 1 .. s.length |-> s.data[i]]
           /\ String!Text(s) \in Seq(Nat)
           /\ String!Strlen(s.data) = s.length
  <1>1. PICK d, n, c : d = s.data /\ n = s.length /\ c = s.capacity OBVIOUS
  <1>2. /\ n \in Nat /\ c \in Nat /\ n < c /\ d \in Seq(Nat) /\ Len(d) = c
        /\ d[n + 1] = 0 /\ \A i \in 1 .. n : d[i] # 0
    BY ONLY <1>1, StringOK(s) DEF StringOK
  <1>3. n \in 0 .. Len(d) BY ONLY <1>2
  <1>4. PICK p : p = SubSeq(d, 1, n) OBVIOUS
  <1>5. p \in Seq(Nat \ {0}) /\ Len(p) = n /\ p = [i \in 1 .. n |-> d[i]]
    BY ONLY <1>2, <1>3, <1>4, PrefixIs
  <1>6. p \in Seq(Nat)
    <2>1. p \in [1 .. n -> Nat] BY ONLY <1>2, <1>5
    <2> QED BY ONLY <1>2, <2>1
  <1>7. String!Strlen(d) = n BY ONLY <1>2, <1>3, StrlenIs
  <1>8. String!Text(s) = p BY ONLY <1>1, <1>4 DEF String!Text
  <1> QED BY ONLY <1>1, <1>5, <1>6, <1>7, <1>8

\* A string that holds nothing.
LEMMA EmptyIs ==
    ASSUME NEW c \in Nat \ {0}, NEW s, s = String!Empty(c)
    PROVE  StringOK(s) /\ String!Text(s) = <<>>
  <1>1. PICK d : d = [[i \in 1 .. c |-> 3] EXCEPT ![1] = 0] OBVIOUS
  <1>2. d = [i \in 1 .. c |-> IF i = 1 THEN 0 ELSE 3] BY ONLY <1>1
  <1>3. d \in [1 .. c -> Nat] BY ONLY <1>2
  <1>4. d \in Seq(Nat) /\ Len(d) = c BY ONLY <1>3, c \in Nat \ {0}
  <1>5. d[1] = 0 BY ONLY <1>2, c \in Nat \ {0}
  <1>6. s = [data |-> d, length |-> 0, capacity |-> c]
    BY ONLY <1>1, s = String!Empty(c) DEF String!Empty, String!Malloc, String!Unwritten, String!Nul
  <1>7. /\ s = [data |-> s.data, length |-> s.length, capacity |-> s.capacity]
        /\ s.data = d /\ s.length = 0 /\ s.capacity = c
    BY ONLY <1>6
  <1>8. 0 + 1 = 1 /\ 0 \in Nat /\ c \in Nat /\ 0 < c /\ 1 .. 0 = {} BY ONLY c \in Nat \ {0}
  <1>9. StringOK(s) BY ONLY <1>4, <1>5, <1>7, <1>8 DEF StringOK
  <1>10. PICK t : t = String!Text(s) OBVIOUS
  <1>11. t \in Seq(Nat) /\ Len(t) = 0 BY ONLY <1>7, <1>9, <1>10, TextIs
  <1>12. t = <<>> BY ONLY <1>11
  <1> QED BY ONLY <1>9, <1>10, <1>12

\* A string of characters that are given.
LEMMA WithStrnIs ==
    ASSUME NEW str \in Seq(Nat), NEW n \in Nat, NEW m \in 0 .. Len(str), n <= m,
           String!Strlen(str) = m, \A i \in 1 .. n : str[i] # 0,
           NEW s, s = String!WithStrn(str, n)
    PROVE  StringOK(s) /\ String!Text(s) = SubSeq(str, 1, n)
  <1>1. m \in Nat /\ n \in 0 .. Len(str)
    BY ONLY str \in Seq(Nat), n \in Nat, m \in 0 .. Len(str), n <= m
  <1>2. PICK copy : copy = SubSeq(str, 1, n) OBVIOUS
  <1>3. String!Strndup(str, n) = copy
    BY ONLY <1>1, <1>2, StrndupIs, str \in Seq(Nat), n \in Nat, n <= m, String!Strlen(str) = m
  <1>4. copy \in Seq(Nat \ {0}) /\ Len(copy) = n
    BY ONLY <1>1, <1>2, PrefixIs, str \in Seq(Nat), \A i \in 1 .. n : str[i] # 0
  <1>5. PICK d : d = Append(copy, 0) OBVIOUS
  <1>6. copy \in Seq(Nat)
    <2>1. copy \in [1 .. n -> Nat] BY ONLY <1>4
    <2> QED BY ONLY <2>1, n \in Nat
  <1>7. /\ d \in Seq(Nat) /\ Len(d) = n + 1 /\ d[n + 1] = 0
        /\ \A i \in 1 .. n : d[i] = copy[i]
    BY ONLY <1>4, <1>5, <1>6, n \in Nat
  <1>8. s = [data |-> d, length |-> n, capacity |-> n + 1]
    BY ONLY <1>3, <1>4, <1>5, s = String!WithStrn(str, n) DEF String!WithStrn, String!Nul
  <1>9. /\ s = [data |-> s.data, length |-> s.length, capacity |-> s.capacity]
        /\ s.data = d /\ s.length = n /\ s.capacity = n + 1
    BY ONLY <1>8
  <1>10. \A i \in 1 .. n : d[i] # 0 BY ONLY <1>4, <1>7, n \in Nat
  <1>11. n + 1 \in Nat /\ n < n + 1 BY ONLY n \in Nat
  <1>12. StringOK(s) BY ONLY <1>7, <1>9, <1>10, <1>11, n \in Nat DEF StringOK
  <1>13. PICK t : t = String!Text(s) OBVIOUS
  <1>14. t \in Seq(Nat) /\ Len(t) = n /\ t = [i \in 1 .. n |-> d[i]]
    BY ONLY <1>9, <1>12, <1>13, TextIs
  <1>15. \A i \in 1 .. n : t[i] = copy[i] BY ONLY <1>7, <1>14
  <1>16. t = copy BY ONLY <1>4, <1>6, <1>14, <1>15, SeqEqual
  <1> QED BY ONLY <1>2, <1>12, <1>13, <1>16

\* A string that was reallocated: growing never truncates.
LEMMA GrownIs ==
    ASSUME NEW s, StringOK(s), NEW required \in Nat, s.length < required,
           NEW g \in String!EnsureCapacity(s, required)
    PROVE  /\ StringOK(g) /\ g.capacity >= required
           /\ g.length = s.length /\ String!Text(g) = String!Text(s)
  <1>1. PICK d, n, z : d = s.data /\ n = s.length /\ z = s.capacity OBVIOUS
  <1>2. /\ n \in Nat /\ z \in Nat /\ n < z /\ d \in Seq(Nat) /\ Len(d) = z
        /\ \A i \in 1 .. n : d[i] # 0
    BY ONLY <1>1, StringOK(s) DEF StringOK
  <1>3. n < required BY ONLY <1>1, s.length < required
  <1>4. CASE g = s /\ s.capacity >= required BY ONLY <1>4, StringOK(s)
  <1>5. ASSUME NEW c \in 1 .. StringMax, c >= required, g = String!Resized(s, c)
        PROVE  /\ StringOK(g) /\ g.capacity >= required
               /\ g.length = s.length /\ String!Text(g) = String!Text(s)
    <2>1. c \in Nat BY ONLY StringAssumption
    <2>2. PICK S : S = {n, c - 1} OBVIOUS
    <2>3. S \subseteq Nat /\ n \in S /\ \A k \in S : n <= k
      BY ONLY <1>2, <1>3, <1>5, <2>1, <2>2, required \in Nat
    <2>4. String!Min(S) = n BY ONLY <2>3, MinIs
    <2>5. PICK kept : kept = [i \in 1 .. c |-> IF i <= z THEN d[i] ELSE 3] OBVIOUS
    <2>6. PICK e : e = [kept EXCEPT ![n + 1] = 0] OBVIOUS
    <2>7. g = [data |-> e, length |-> n, capacity |-> c]
      BY ONLY <1>1, <1>5, <2>2, <2>4, <2>5, <2>6
      DEF String!Resized, String!Unwritten, String!Nul
    <2>8. e = [i \in 1 .. c |-> IF i = n + 1 THEN 0 ELSE IF i <= z THEN d[i] ELSE 3]
      BY ONLY <2>5, <2>6
    <2>9. \A i \in 1 .. c : i <= z => d[i] \in Nat BY ONLY <1>2, <2>1
    <2>10. e \in [1 .. c -> Nat] BY ONLY <2>8, <2>9
    <2>11. e \in Seq(Nat) /\ Len(e) = c BY ONLY <2>1, <2>10
    <2>12. n + 1 \in 1 .. c /\ n < c BY ONLY <1>2, <1>3, <1>5, <2>1, required \in Nat
    <2>13. e[n + 1] = 0 BY ONLY <2>8, <2>12
    <2>14. \A i \in 1 .. n : e[i] = d[i] BY ONLY <1>2, <2>8, <2>1, <2>12
    <2>15. /\ g = [data |-> g.data, length |-> g.length, capacity |-> g.capacity]
           /\ g.data = e /\ g.length = n /\ g.capacity = c
      BY ONLY <2>7
    <2>16. StringOK(g) BY ONLY <1>2, <2>1, <2>11, <2>12, <2>13, <2>14, <2>15 DEF StringOK
    <2>17. String!Text(g) = [i \in 1 .. n |-> e[i]] /\ String!Text(s) = [i \in 1 .. n |-> d[i]]
      BY ONLY <1>1, <2>15, <2>16, TextIs, StringOK(s)
    <2>18. String!Text(g) = String!Text(s) BY ONLY <2>14, <2>17
    <2> QED BY ONLY <1>1, <1>5, <2>15, <2>16, <2>18
  <1>6. CASE ~(s.capacity >= required)
    <2>1. PICK c \in 1 .. StringMax : c >= required /\ g = String!Resized(s, c)
      BY <1>6 DEF String!EnsureCapacity, String!Doubled
    <2> QED BY ONLY <1>5, <2>1
  <1>7. (g = s /\ s.capacity >= required) \/ ~(s.capacity >= required)
    BY DEF String!EnsureCapacity
  <1> QED BY ONLY <1>4, <1>6, <1>7

\* Characters are put behind the text of a string, and a terminator.
LEMMA PutCharsIs ==
    ASSUME NEW s, StringOK(s), NEW chars \in Seq(Nat \ {0}),
           s.length + Len(chars) + 1 <= s.capacity, NEW e, e = String!Put(s, chars)
    PROVE  StringOK(e) /\ String!Text(e) = String!Text(s) \o chars
  <1>1. PICK d, n, z, m : d = s.data /\ n = s.length /\ z = s.capacity /\ m = Len(chars) OBVIOUS
  <1>2. /\ n \in Nat /\ z \in Nat /\ n < z /\ d \in Seq(Nat) /\ Len(d) = z
        /\ \A i \in 1 .. n : d[i] # 0
    BY ONLY <1>1, StringOK(s) DEF StringOK
  <1>3. m \in Nat /\ n + m + 1 <= z
    BY ONLY <1>1, s.length + Len(chars) + 1 <= s.capacity, chars \in Seq(Nat \ {0})
  <1>4. \A i \in 1 .. m : chars[i] \in Nat \ {0} BY ONLY <1>1, chars \in Seq(Nat \ {0})
  <1>5. PICK f : f = [i \in 1 .. z |-> IF i \in n + 1 .. n + m THEN chars[i - n]
                                       ELSE IF i = n + m + 1 THEN 0 ELSE d[i]]
    OBVIOUS
  <1>6. f \in [1 .. z -> Nat]
    <2>1. \A i \in 1 .. z : d[i] \in Nat BY ONLY <1>2
    <2>2. \A i \in n + 1 .. n + m : chars[i - n] \in Nat BY ONLY <1>2, <1>3, <1>4
    <2> QED BY ONLY <1>5, <2>1, <2>2
  <1>7. f \in Seq(Nat) /\ Len(f) = z BY ONLY <1>2, <1>6
  <1>8. PICK k : k = n + m OBVIOUS
  <1>9. k \in Nat /\ k < z /\ k + 1 \in 1 .. z BY ONLY <1>2, <1>3, <1>8
  <1>10. f[k + 1] = 0 BY ONLY <1>2, <1>3, <1>5, <1>8, <1>9
  <1>11. \A i \in 1 .. n : f[i] = d[i] BY ONLY <1>2, <1>3, <1>5
  <1>12. \A i \in 1 .. m : f[n + i] = chars[i]
    <2>1. \A i \in 1 .. m : n + i \in 1 .. z /\ n + i \in n + 1 .. n + m /\ (n + i) - n = i
      BY ONLY <1>2, <1>3
    <2> QED BY ONLY <1>5, <2>1
  <1>13. \A i \in 1 .. k : f[i] # 0
    <2>1. \A i \in 1 .. k : i \in 1 .. n \/ (i - n \in 1 .. m /\ n + (i - n) = i)
      BY ONLY <1>2, <1>3, <1>8
    <2>2. \A i \in 1 .. n : f[i] # 0 BY ONLY <1>2, <1>11
    <2>3. \A j \in 1 .. m : f[n + j] # 0 BY ONLY <1>4, <1>12
    <2> QED BY ONLY <2>1, <2>2, <2>3
  <1>14. s = [data |-> d, length |-> n, capacity |-> z]
    BY ONLY <1>1, StringOK(s) DEF StringOK
  <1>15. e = [s EXCEPT !.data = f, !.length = k]
    BY ONLY <1>1, <1>2, <1>5, <1>8, e = String!Put(s, chars) DEF String!Put, String!Nul
  <1>16. e = [data |-> f, length |-> k, capacity |-> z] BY ONLY <1>14, <1>15
  <1>17. /\ e = [data |-> e.data, length |-> e.length, capacity |-> e.capacity]
         /\ e.data = f /\ e.length = k /\ e.capacity = z
    BY ONLY <1>16
  <1>18. StringOK(e) BY ONLY <1>2, <1>7, <1>9, <1>10, <1>13, <1>17 DEF StringOK
  <1>19. PICK t, u : t = String!Text(e) /\ u = String!Text(s) OBVIOUS
  <1>20. /\ t \in Seq(Nat) /\ Len(t) = k /\ t = [i \in 1 .. k |-> f[i]]
         /\ u \in Seq(Nat) /\ Len(u) = n /\ u = [i \in 1 .. n |-> d[i]]
    BY ONLY <1>1, <1>17, <1>18, <1>19, TextIs, StringOK(s)
  <1>21. chars \in Seq(Nat)
    <2>1. chars \in [1 .. m -> Nat] BY ONLY <1>1, <1>4, chars \in Seq(Nat \ {0})
    <2> QED BY ONLY <1>3, <2>1
  <1>22. PICK v : v = u \o chars OBVIOUS
  <1>23. /\ v \in Seq(Nat) /\ Len(v) = k
         /\ \A i \in 1 .. k : v[i] = IF i <= n THEN u[i] ELSE chars[i - n]
    <2>1. /\ v \in Seq(Nat) /\ Len(v) = Len(u) + Len(chars)
          /\ \A i \in 1 .. Len(u) + Len(chars) :
                 v[i] = IF i <= Len(u) THEN u[i] ELSE chars[i - Len(u)]
      <3>1. u \in Seq(Nat) BY ONLY <1>20
      <3> QED BY ONLY <1>21, <1>22, <3>1, ConcatProperties
    <2>2. Len(u) = n /\ Len(chars) = m /\ k = n + m BY ONLY <1>1, <1>8, <1>20
    <2> QED BY ONLY <2>1, <2>2
  <1>24. \A i \in 1 .. k : t[i] = v[i]
    <2>1. \A i \in 1 .. k : t[i] = f[i] BY ONLY <1>20
    <2>2. \A i \in 1 .. n : u[i] = f[i] BY ONLY <1>11, <1>20
    <2>3. \A i \in 1 .. k : i <= n => i \in 1 .. n BY ONLY <1>2, <1>9
    <2>4. \A i \in 1 .. k : ~(i <= n) => i - n \in 1 .. m /\ n + (i - n) = i
      BY ONLY <1>2, <1>3, <1>8
    <2>5. \A i \in 1 .. k : ~(i <= n) => f[i] = chars[i - n] BY ONLY <1>12, <2>4
    <2> QED BY ONLY <1>23, <2>1, <2>2, <2>3, <2>5
  <1>25. t = v BY ONLY <1>20, <1>23, <1>24, SeqEqual
  <1> QED BY ONLY <1>18, <1>19, <1>22, <1>25

\* The text of every string.
TextOf(t) == IF t = NoString THEN NoString ELSE String!Text(t)

AllTexts(h) == [s \in Names |-> TextOf(h[s])]

Prefixes == UNION {{SubSeq(str, 1, n) : n \in 0 .. Len(str)} \cup {<<c>> : c \in String!Range(str)} :
                     str \in CStrings}

LEMMA TextOfIs ==
    ASSUME NEW s, StringOK(s)
    PROVE  s # NoString /\ TextOf(s) = String!Text(s) /\ TextOf(s) # NoString
  <1>1. s \in [data : Seq(Nat), length : Nat, capacity : Nat]
    BY ONLY StringOK(s) DEF StringOK
  <1>2. s # NoString BY ONLY <1>1, StringAssumption
  <1>3. String!Text(s) \in Seq(Nat) BY ONLY TextIs, StringOK(s)
  <1> QED BY ONLY <1>2, <1>3, StringAssumption DEF TextOf

\* A string becomes another, or the first, or is gone.
LEMMA StringStep ==
    ASSUME StringInv, NEW x \in Names, NEW s, s = NoString \/ StringOK(s),
           string' = [string EXCEPT ![x] = s], result' \in BOOLEAN
    PROVE  /\ StringInv'
           /\ AllTexts(string') = [AllTexts(string) EXCEPT ![x] = TextOf(s)]
           /\ AllTexts(string)[x] = TextOf(string[x])
           /\ AllTexts(string)[x] = NoString <=> string[x] = NoString
  <1>1. PICK h, g : h = string /\ g = string' OBVIOUS
  <1>2. h = [y \in Names |-> h[y]] /\ \A y \in Names : h[y] = NoString \/ StringOK(h[y])
    BY <1>1 DEF StringInv
  <1>3. g = [h EXCEPT ![x] = s] BY ONLY <1>1, string' = [string EXCEPT ![x] = s]
  <1>4. g = [y \in Names |-> IF y = x THEN s ELSE h[y]] BY ONLY <1>2, <1>3
  <1>5. g = [y \in Names |-> g[y]] BY ONLY <1>4
  <1>6. \A y \in Names : g[y] = NoString \/ StringOK(g[y])
    BY ONLY <1>2, <1>4, s = NoString \/ StringOK(s)
  <1>7. StringInv' BY ONLY <1>1, <1>5, <1>6, result' \in BOOLEAN DEF StringInv
  <1>8. \A y \in Names : TextOf(g[y]) = IF y = x THEN TextOf(s) ELSE TextOf(h[y]) BY ONLY <1>4
  <1>9. AllTexts(g) = [AllTexts(h) EXCEPT ![x] = TextOf(s)] BY ONLY <1>8 DEF AllTexts
  <1>10. AllTexts(h)[x] = TextOf(h[x]) BY ONLY x \in Names DEF AllTexts
  <1>11. TextOf(h[x]) = NoString <=> h[x] = NoString
    <2>1. CASE h[x] = NoString BY ONLY <2>1 DEF TextOf
    <2>2. CASE StringOK(h[x]) BY ONLY <2>2, TextOfIs
    <2> QED BY ONLY <1>2, <2>1, <2>2, x \in Names
  <1> QED BY ONLY <1>1, <1>7, <1>9, <1>10, <1>11

\* A call that makes a string, or fails.
LEMMA NewStringStep ==
    ASSUME StringInv, NEW x \in Names, NEW s, StringOK(s), String!New(x, s)
    PROVE  /\ StringInv'
           /\ \/ AllTexts(string') = AllTexts(string)
              \/ String!ContentsOf!Create(x, String!Text(s))
  <1>1. CASE string' = string
    <2>1. result' \in BOOLEAN BY DEF String!New
    <2>2. StringInv' BY <1>1, <2>1 DEF StringInv
    <2> QED BY <1>1, <2>2
  <1>2. CASE ~(string' = string)
    <2>1. string[x] = NoString /\ string' = [string EXCEPT ![x] = s] /\ result' = TRUE
      BY <1>2 DEF String!New
    <2>2. /\ StringInv' /\ AllTexts(string') = [AllTexts(string) EXCEPT ![x] = TextOf(s)]
          /\ AllTexts(string)[x] = NoString <=> string[x] = NoString
      BY ONLY <2>1, StringStep, StringInv, x \in Names, StringOK(s)
    <2>3. TextOf(s) = String!Text(s) BY ONLY TextOfIs, StringOK(s)
    <2>4. String!ContentsOf!Create(x, String!Text(s))
      BY ONLY <2>1, <2>2, <2>3
      DEF String!ContentsOf!Create, String!ContentsOf!Exists, AllTexts, TextOf
    <2> QED BY ONLY <2>2, <2>4
  <1> QED BY ONLY <1>1, <1>2

\* cos_string_append_strn_impl_: the first n characters of a text are appended.
LEMMA AppendImplStep ==
    ASSUME StringInv, NEW x \in Names, string[x] # NoString,
           NEW str \in Seq(Nat \ {0}), NEW n \in 0 .. Len(str), SubSeq(str, 1, n) \in Prefixes,
           String!AppendImpl(x, str, n)
    PROVE  StringInv' /\ (String!ContentsOf!Next \/ AllTexts(string') = AllTexts(string))
  <1>1. CASE string' = string
    <2>1. result' \in BOOLEAN BY DEF String!AppendImpl
    <2>2. StringInv' BY <1>1, <2>1 DEF StringInv
    <2> QED BY <1>1, <2>2
  <1>2. CASE ~(string' = string)
    <2>1. PICK s : s = string[x] OBVIOUS
    <2>2. StringOK(s) BY <2>1 DEF StringInv
    <2>3. PICK chars : chars = IF n > 1 THEN String!Strncpy(str, n) ELSE SubSeq(str, 1, 1) OBVIOUS
    <2>4. PICK g \in String!EnsureCapacity(s, String!Required(s.length, n)) :
            n > 0 /\ string' = [string EXCEPT ![x] = String!Put(g, chars)] /\ result' = TRUE
      BY <1>2, <2>1, <2>3 DEF String!AppendImpl
    <2>5. str \in Seq(Nat) /\ \A i \in 1 .. Len(str) : str[i] # 0
      <3>1. PICK z : z = Len(str) OBVIOUS
      <3>2. z \in Nat /\ str \in [1 .. z -> Nat \ {0}] BY ONLY <3>1, str \in Seq(Nat \ {0})
      <3>3. str \in [1 .. z -> Nat] BY ONLY <3>2
      <3> QED BY ONLY <3>1, <3>2, <3>3
    <2>6. n \in Nat /\ n <= Len(str) /\ Len(str) \in Nat
      BY ONLY n \in 0 .. Len(str), str \in Seq(Nat \ {0})
    <2>7. PICK p : p = SubSeq(str, 1, n) OBVIOUS
    <2>8. p \in Seq(Nat \ {0}) /\ Len(p) = n /\ p = [i \in 1 .. n |-> str[i]]
      BY ONLY <2>5, <2>6, <2>7, PrefixIs
    <2>9. chars = p
      <3>1. CASE n > 1
        <4>1. Len(str) \in 0 .. Len(str) BY ONLY <2>6
        <4>2. PICK z : z = Len(str) OBVIOUS
        <4>3. String!Strlen(str) = z
          BY ONLY <2>5, <2>6, <4>2, StrlenIs
        <4>4. chars = [i \in 1 .. n |-> IF i <= z THEN str[i] ELSE 0]
          BY ONLY <2>3, <3>1, <4>3 DEF String!Strncpy, String!Nul
        <4>5. \A i \in 1 .. n : i <= z BY ONLY <2>6, <4>2
        <4> QED BY ONLY <2>8, <4>4, <4>5
      <3>2. CASE ~(n > 1) BY ONLY <2>3, <2>4, <2>6, <2>7, <3>2
      <3> QED BY ONLY <3>1, <3>2
    <2>10. PICK required : required = String!Required(s.length, n) OBVIOUS
    <2>11. s.length \in Nat BY ONLY <2>2 DEF StringOK
    <2>12. required = s.length + n + 1 /\ required \in Nat /\ s.length < required
      BY ONLY <2>6, <2>10, <2>11 DEF String!Required
    <2>13. /\ StringOK(g) /\ g.capacity >= required
           /\ g.length = s.length /\ String!Text(g) = String!Text(s)
      BY ONLY <2>2, <2>4, <2>10, <2>12, GrownIs
    <2>14. g.length + Len(p) + 1 <= g.capacity
      <3>1. g.capacity \in Nat BY ONLY <2>13 DEF StringOK
      <3> QED BY ONLY <2>6, <2>8, <2>11, <2>12, <2>13, <3>1
    <2>15. PICK e : e = String!Put(g, p) OBVIOUS
    <2>16. StringOK(e) /\ String!Text(e) = String!Text(g) \o p
      BY ONLY <2>8, <2>13, <2>14, <2>15, PutCharsIs
    <2>17. string' = [string EXCEPT ![x] = e] /\ result' \in BOOLEAN BY ONLY <2>4, <2>9, <2>15
    <2>18. /\ StringInv' /\ AllTexts(string') = [AllTexts(string) EXCEPT ![x] = TextOf(e)]
           /\ AllTexts(string)[x] = TextOf(string[x])
           /\ AllTexts(string)[x] = NoString <=> string[x] = NoString
      BY ONLY <2>16, <2>17, StringStep, StringInv, x \in Names
    <2>19. TextOf(e) = TextOf(string[x]) \o p BY ONLY <2>1, <2>2, <2>13, <2>16, TextOfIs
    <2>20. String!ContentsOf!Extend(x, p)
      BY ONLY <2>18, <2>19, string[x] # NoString
      DEF String!ContentsOf!Extend, String!ContentsOf!Exists, AllTexts, TextOf
    <2> QED BY ONLY <2>7, <2>18, <2>20, x \in Names, SubSeq(str, 1, n) \in Prefixes
            DEF String!ContentsOf!Next, Prefixes
  <1> QED BY ONLY <1>1, <1>2

\* A text that is given to a call.
LEMMA SourceIs ==
    ASSUME NEW str \in CStrings
    PROVE  /\ str \in Seq(Nat \ {0}) /\ str \in Seq(Nat) /\ Len(str) \in Nat
           /\ \A i \in 1 .. Len(str) : str[i] # 0
           /\ String!Strlen(str) = Len(str)
           /\ \A n \in 0 .. Len(str) : SubSeq(str, 1, n) \in Prefixes
  <1>1. str \in Seq(Nat \ {0}) BY ONLY StringAssumption
  <1>2. PICK z : z = Len(str) OBVIOUS
  <1>3. z \in Nat /\ str \in [1 .. z -> Nat \ {0}] BY ONLY <1>1, <1>2
  <1>4. str \in [1 .. z -> Nat] BY ONLY <1>3
  <1>5. str \in Seq(Nat) BY ONLY <1>3, <1>4
  <1>6. \A i \in 1 .. z : str[i] # 0 BY ONLY <1>3
  <1>7. z \in 0 .. Len(str) /\ ~(z < Len(str)) BY ONLY <1>2, <1>3
  <1>8. String!Strlen(str) = z BY ONLY <1>5, <1>6, <1>7, StrlenIs
  <1>9. \A n \in 0 .. Len(str) : SubSeq(str, 1, n) \in Prefixes
    BY ONLY str \in CStrings DEF Prefixes
  <1> QED BY ONLY <1>1, <1>2, <1>3, <1>5, <1>6, <1>8, <1>9

LEMMA StringNext ==
    ASSUME StringInv, [String!Next]_(String!vars)
    PROVE  StringInv' /\ (String!ContentsOf!Next \/ AllTexts(string') = AllTexts(string))
  <1>1. ASSUME NEW x \in Names, String!Alloc(x)
        PROVE  StringInv' /\ (String!ContentsOf!Next \/ AllTexts(string') = AllTexts(string))
    <2>1. PICK hint \in StringHints : String!New(x, String!Empty(String!InitialCapacity(hint)))
      BY <1>1 DEF String!Alloc
    <2>2. PICK c : c = String!InitialCapacity(hint) OBVIOUS
    <2>3. c \in Nat \ {0} BY ONLY <2>2, StringAssumption DEF String!InitialCapacity
    <2>4. PICK s : s = String!Empty(c) OBVIOUS
    <2>5. StringOK(s) /\ String!Text(s) = <<>> BY ONLY <2>3, <2>4, EmptyIs
    <2>6. String!New(x, s) BY ONLY <2>1, <2>2, <2>4
    <2>7. /\ StringInv'
          /\ \/ AllTexts(string') = AllTexts(string)
             \/ String!ContentsOf!Create(x, String!Text(s))
      BY ONLY <2>5, <2>6, NewStringStep, StringInv
    <2> QED BY ONLY <2>5, <2>7 DEF String!ContentsOf!Next
  <1>2. ASSUME NEW x \in Names, NEW str \in CStrings, NEW n \in 0 .. Len(str),
               String!New(x, String!WithStrn(str, n))
        PROVE  StringInv' /\ (String!ContentsOf!Next \/ AllTexts(string') = AllTexts(string))
    <2>1. /\ str \in Seq(Nat) /\ Len(str) \in Nat /\ \A i \in 1 .. Len(str) : str[i] # 0
          /\ String!Strlen(str) = Len(str) /\ SubSeq(str, 1, n) \in Prefixes
      BY ONLY SourceIs, <1>2
    <2>2. PICK m : m = Len(str) OBVIOUS
    <2>3. n \in Nat /\ n <= m /\ m \in 0 .. Len(str) BY ONLY <1>2, <2>1, <2>2
    <2>4. \A i \in 1 .. n : str[i] # 0 BY ONLY <2>1, <2>2, <2>3
    <2>5. PICK s : s = String!WithStrn(str, n) OBVIOUS
    <2>6. String!Strlen(str) = m BY ONLY <2>1, <2>2
    <2>7. StringOK(s) /\ String!Text(s) = SubSeq(str, 1, n)
      BY ONLY <2>1, <2>3, <2>4, <2>5, <2>6, WithStrnIs
    <2>8. String!New(x, s) BY ONLY <1>2, <2>5
    <2>9. /\ StringInv'
          /\ \/ AllTexts(string') = AllTexts(string)
             \/ String!ContentsOf!Create(x, String!Text(s))
      BY ONLY <2>7, <2>8, NewStringStep, StringInv, <1>2
    <2>10. PICK p : p = SubSeq(str, 1, n) OBVIOUS
    <2>11. p \in Prefixes /\ String!Text(s) = p BY ONLY <2>1, <2>7, <2>10
    <2> QED BY ONLY <1>2, <2>9, <2>11 DEF String!ContentsOf!Next, Prefixes
  <1>3. ASSUME NEW x \in Names, String!AllocWithStr(x) \/ String!AllocWithStrn(x)
        PROVE  StringInv' /\ (String!ContentsOf!Next \/ AllTexts(string') = AllTexts(string))
    <2>1. PICK str \in CStrings : \/ String!New(x, String!WithStrn(str, String!Strlen(str)))
                                  \/ \E n \in 0 .. Len(str) : String!New(x, String!WithStrn(str, n))
      BY <1>3 DEF String!AllocWithStr, String!AllocWithStrn
    <2>2. String!Strlen(str) = Len(str) /\ Len(str) \in 0 .. Len(str) BY SourceIs
    <2> QED BY ONLY <1>2, <2>1, <2>2, <1>3
  <1>4. ASSUME NEW x \in Names, NEW y \in Names, String!Copy(x, y)
        PROVE  StringInv' /\ (String!ContentsOf!Next \/ AllTexts(string') = AllTexts(string))
    <2>1. string[x] # NoString /\ String!New(y, String!WithStrn(string[x].data, string[x].length))
      BY <1>4 DEF String!Copy
    <2>2. PICK s, d, n : s = string[x] /\ d = s.data /\ n = s.length OBVIOUS
    <2>3. StringOK(s) BY <2>1, <2>2 DEF StringInv
    <2>4. /\ d \in Seq(Nat) /\ n \in Nat /\ n \in 0 .. Len(d) /\ n <= n
          /\ \A i \in 1 .. n : d[i] # 0
      BY ONLY <2>2, <2>3 DEF StringOK
    <2>5. String!Strlen(d) = n BY ONLY <2>2, <2>3, TextIs
    <2>6. PICK t : t = String!WithStrn(d, n) OBVIOUS
    <2>7. StringOK(t) /\ String!Text(t) = SubSeq(d, 1, n)
      BY ONLY <2>4, <2>5, <2>6, WithStrnIs
    <2>8. String!Text(s) = SubSeq(d, 1, n) BY ONLY <2>2 DEF String!Text
    <2>9. String!New(y, t) BY ONLY <2>1, <2>2, <2>6
    <2>10. /\ StringInv'
           /\ \/ AllTexts(string') = AllTexts(string)
              \/ String!ContentsOf!Create(y, String!Text(t))
      BY ONLY <2>7, <2>9, NewStringStep, StringInv, <1>4
    <2>11. AllTexts(string)[x] = String!Text(t) /\ AllTexts(string)[x] # NoString
      <3>1. AllTexts(string)[x] = TextOf(s) BY ONLY <1>4, <2>2 DEF AllTexts
      <3> QED BY ONLY <2>3, <2>7, <2>8, <3>1, TextOfIs
    <2>12. String!ContentsOf!Create(y, String!Text(t)) => String!ContentsOf!Copy(x, y)
      BY ONLY <2>11 DEF String!ContentsOf!Copy, String!ContentsOf!Create,
                        String!ContentsOf!Exists, AllTexts, TextOf
    <2> QED BY ONLY <1>4, <2>10, <2>12 DEF String!ContentsOf!Next
  <1>5. ASSUME NEW x \in Names, String!Free(x)
        PROVE  StringInv' /\ String!ContentsOf!Next
    <2>1. string[x] # NoString /\ string' = [string EXCEPT ![x] = NoString] /\ result' \in BOOLEAN
      BY <1>5 DEF String!Free, StringInv
    <2>2. /\ StringInv' /\ AllTexts(string') = [AllTexts(string) EXCEPT ![x] = TextOf(NoString)]
          /\ AllTexts(string)[x] = NoString <=> string[x] = NoString
      BY ONLY <2>1, StringStep, StringInv, <1>5
    <2>3. TextOf(NoString) = NoString BY ONLY DEF TextOf
    <2>4. String!ContentsOf!Destroy(x)
      BY ONLY <2>1, <2>2, <2>3
      DEF String!ContentsOf!Destroy, String!ContentsOf!Exists, AllTexts, TextOf
    <2> QED BY ONLY <1>5, <2>2, <2>4 DEF String!ContentsOf!Next
  <1>6. ASSUME NEW x \in Names, string[x] # NoString, NEW str \in CStrings, NEW n \in 0 .. Len(str),
               String!AppendImpl(x, str, n)
        PROVE  StringInv' /\ (String!ContentsOf!Next \/ AllTexts(string') = AllTexts(string))
    <2>1. str \in Seq(Nat \ {0}) /\ SubSeq(str, 1, n) \in Prefixes BY ONLY SourceIs, <1>6
    <2> QED BY ONLY <1>6, <2>1, AppendImplStep, StringInv
  <1>7. ASSUME NEW x \in Names, String!AppendStr(x) \/ String!AppendStrn(x)
        PROVE  StringInv' /\ (String!ContentsOf!Next \/ AllTexts(string') = AllTexts(string))
    <2>1. PICK str \in CStrings :
            /\ string[x] # NoString
            /\ \/ String!AppendImpl(x, str, String!Strlen(str))
               \/ \E n \in 0 .. Len(str) : String!AppendImpl(x, str, n)
      BY <1>7 DEF String!AppendStr, String!AppendStrn
    <2>2. String!Strlen(str) = Len(str) /\ Len(str) \in 0 .. Len(str) BY SourceIs
    <2> QED BY ONLY <1>6, <1>7, <2>1, <2>2
  <1>8. ASSUME NEW x \in Names,
               NEW c \in {0} \cup UNION {String!Range(str) : str \in CStrings}, String!PushBack(x, c)
        PROVE  StringInv' /\ (String!ContentsOf!Next \/ AllTexts(string') = AllTexts(string))
    <2>1. CASE c = 0
      <3>1. string' = string /\ result' = TRUE BY <1>8, <2>1 DEF String!PushBack, String!Nul
      <3>2. StringInv' BY <3>1 DEF StringInv
      <3> QED BY <3>1, <3>2
    <2>2. CASE c # 0
      <3>1. string[x] # NoString /\ String!AppendImpl(x, <<c>>, 1)
        BY <1>8, <2>2 DEF String!PushBack, String!Nul
      <3>2. PICK str \in CStrings : c \in String!Range(str) BY <1>8, <2>2
      <3>3. str \in Seq(Nat \ {0}) BY ONLY SourceIs, <3>2
      <3>4. c \in Nat \ {0} BY ONLY <3>2, <3>3 DEF String!Range
      <3>5. PICK s : s = <<c>> OBVIOUS
      <3>6. s \in Seq(Nat \ {0}) /\ Len(s) = 1 /\ 1 \in 0 .. Len(s) /\ s[1] = c BY ONLY <3>4, <3>5
      <3>7. SubSeq(s, 1, 1) = <<c>>
        <4>1. PICK t : t = SubSeq(s, 1, 1) OBVIOUS
        <4>2. t \in Seq(Nat \ {0}) /\ Len(t) = 1 /\ t[1] = s[1] BY ONLY <3>6, <4>1
        <4>3. t = s BY ONLY <3>6, <4>2, SeqEqual
        <4> QED BY ONLY <3>5, <4>1, <4>3
      <3>8. SubSeq(s, 1, 1) \in Prefixes BY ONLY <3>2, <3>7 DEF Prefixes
      <3>9. String!AppendImpl(x, s, 1) BY ONLY <3>1, <3>5
      <3> QED BY ONLY <1>8, <3>1, <3>6, <3>8, <3>9, AppendImplStep, StringInv
    <2> QED BY ONLY <2>1, <2>2
  <1>9. CASE UNCHANGED String!vars
    <2>1. string' = string /\ result' = result BY <1>9 DEF String!vars
    <2>2. StringInv' BY <2>1 DEF StringInv
    <2> QED BY <2>1, <2>2
  <1>10. CASE String!Next
    BY ONLY <1>1, <1>3, <1>4, <1>5, <1>7, <1>8, <1>10 DEF String!Next, String!Nul
  <1> QED BY ONLY <1>9, <1>10, [String!Next]_(String!vars)

LEMMA StringInit == String!Init => StringInv /\ String!ContentsOf!Init
  <1> SUFFICES ASSUME String!Init PROVE StringInv /\ String!ContentsOf!Init OBVIOUS
  <1>1. string = [x \in Names |-> NoString] /\ result = TRUE BY DEF String!Init
  <1>2. StringInv BY <1>1 DEF StringInv
  <1>3. String!ContentsOf!Init BY <1>1 DEF String!ContentsOf!Init
  <1> QED BY ONLY <1>2, <1>3

\* strncmp finds the first character that differs, from either side.
LEMMA StrncmpIs ==
    ASSUME NEW a \in Seq(Nat), NEW b \in Seq(Nat), NEW n \in Nat, n <= Len(a), n <= Len(b),
           \A i \in 1 .. n : a[i] # 0 /\ b[i] # 0
    PROVE  /\ String!Strncmp(a, b, n) \in Int
           /\ String!Strncmp(a, b, n) = 0 <=> \A i \in 1 .. n : a[i] = b[i]
           /\ String!Strncmp(a, b, n) > 0 <=> String!Strncmp(b, a, n) < 0
  <1>1. PICK S : S = {i \in 1 .. n : a[i] # b[i]} OBVIOUS
  <1>2. /\ S = {i \in 1 .. n : a[i] # b[i] /\ \A j \in 1 .. i - 1 : a[j] # 0}
        /\ S = {i \in 1 .. n : b[i] # a[i] /\ \A j \in 1 .. i - 1 : b[j] # 0}
    <2>1. \A i \in 1 .. n : \A j \in 1 .. i - 1 : j \in 1 .. n BY ONLY n \in Nat
    <2> QED BY ONLY <1>1, <2>1, \A i \in 1 .. n : a[i] # 0 /\ b[i] # 0
  <1>3. /\ String!Strncmp(a, b, n) = IF S = {} THEN 0 ELSE a[String!Min(S)] - b[String!Min(S)]
        /\ String!Strncmp(b, a, n) = IF S = {} THEN 0 ELSE b[String!Min(S)] - a[String!Min(S)]
    BY ONLY <1>2 DEF String!Strncmp, String!Nul
  <1>4. CASE S = {}
    <2>1. String!Strncmp(a, b, n) = 0 /\ String!Strncmp(b, a, n) = 0 BY ONLY <1>3, <1>4
    <2>2. \A i \in 1 .. n : a[i] = b[i] BY ONLY <1>1, <1>4
    <2> QED BY ONLY <2>1, <2>2
  <1>5. CASE S # {}
    <2>1. S \subseteq Nat BY ONLY <1>1, n \in Nat
    <2>2. PICK m \in S : \A k \in S : m <= k BY ONLY <1>5, <2>1, Least
    <2>3. String!Min(S) = m BY ONLY <2>1, <2>2, MinIs
    <2>4. PICK x, y : x = a[m] /\ y = b[m] OBVIOUS
    <2>5. m \in 1 .. n /\ x # y BY ONLY <1>1, <2>2, <2>4
    <2>6. x \in Nat /\ y \in Nat
      BY ONLY <2>4, <2>5, n \in Nat, n <= Len(a), n <= Len(b), a \in Seq(Nat), b \in Seq(Nat)
    <2>7. String!Strncmp(a, b, n) = x - y /\ String!Strncmp(b, a, n) = y - x
      BY ONLY <1>3, <1>5, <2>3, <2>4
    <2>8. ~ \A i \in 1 .. n : a[i] = b[i] BY ONLY <2>4, <2>5
    <2> QED BY ONLY <2>5, <2>6, <2>7, <2>8
  <1> QED BY ONLY <1>4, <1>5

\* Comparing two strings is an order, in which the same texts are equal.
LEMMA CmpIs ==
    ASSUME NEW s, StringOK(s), NEW t, StringOK(t)
    PROVE  /\ String!Cmp(s, t) = 0 <=> String!Text(s) = String!Text(t)
           /\ String!Cmp(s, t) > 0 <=> String!Cmp(t, s) < 0
  <1>1. PICK a, n, b, m : a = s.data /\ n = s.length /\ b = t.data /\ m = t.length OBVIOUS
  <1>2. /\ n \in Nat /\ a \in Seq(Nat) /\ n <= Len(a) /\ \A i \in 1 .. n : a[i] # 0
        /\ m \in Nat /\ b \in Seq(Nat) /\ m <= Len(b) /\ \A i \in 1 .. m : b[i] # 0
    BY ONLY <1>1, StringOK(s), StringOK(t) DEF StringOK
  <1>3. PICK u, v : u = String!Text(s) /\ v = String!Text(t) OBVIOUS
  <1>4. /\ u \in Seq(Nat) /\ Len(u) = n /\ u = [i \in 1 .. n |-> a[i]]
        /\ v \in Seq(Nat) /\ Len(v) = m /\ v = [i \in 1 .. m |-> b[i]]
    BY ONLY <1>1, <1>3, TextIs, StringOK(s), StringOK(t)
  <1>5. PICK e, f : e = String!Cmp(s, t) /\ f = String!Cmp(t, s) OBVIOUS
  <1>6. /\ e = IF n < m THEN -1 ELSE IF n > m THEN 1 ELSE String!Strncmp(a, b, n)
        /\ f = IF m < n THEN -1 ELSE IF m > n THEN 1 ELSE String!Strncmp(b, a, m)
    BY ONLY <1>1, <1>5 DEF String!Cmp
  <1>7. CASE n < m
    <2>1. e = -1 /\ f = 1 /\ n # m BY ONLY <1>2, <1>6, <1>7
    <2>2. u # v BY ONLY <1>4, <2>1
    <2> QED BY ONLY <1>3, <1>5, <2>1, <2>2
  <1>8. CASE m < n
    <2>1. e = 1 /\ f = -1 /\ n # m BY ONLY <1>2, <1>6, <1>8
    <2>2. u # v BY ONLY <1>4, <2>1
    <2> QED BY ONLY <1>3, <1>5, <2>1, <2>2
  <1>9. CASE n = m
    <2>1. e = String!Strncmp(a, b, n) /\ f = String!Strncmp(b, a, n) BY ONLY <1>2, <1>6, <1>9
    <2>2. n <= Len(b) /\ \A i \in 1 .. n : a[i] # 0 /\ b[i] # 0 BY ONLY <1>2, <1>9
    <2>3. (e = 0 <=> \A i \in 1 .. n : a[i] = b[i]) /\ (e > 0 <=> f < 0)
      BY ONLY <1>2, <2>1, <2>2, StrncmpIs
    <2>4. u = v <=> \A i \in 1 .. n : a[i] = b[i]
      <3>1. ASSUME u = v PROVE \A i \in 1 .. n : a[i] = b[i]
        BY ONLY <1>4, <1>9, <3>1
      <3>2. ASSUME \A i \in 1 .. n : a[i] = b[i] PROVE u = v
        BY ONLY <1>4, <1>9, <3>2
      <3> QED BY ONLY <3>1, <3>2
    <2> QED BY ONLY <1>3, <1>5, <2>3, <2>4
  <1> QED BY ONLY <1>2, <1>7, <1>8, <1>9

LEMMA StringInvImplies ==
    StringInv => /\ String!TypeOK /\ String!TerminatedInCapacity
                 /\ String!CmpIsOrder /\ String!EqualHashAlike
  <1> SUFFICES ASSUME StringInv
               PROVE  /\ String!TypeOK /\ String!TerminatedInCapacity
                      /\ String!CmpIsOrder /\ String!EqualHashAlike
    OBVIOUS
  <1>1. \A s \in String!Live : StringOK(s) BY DEF String!Live, StringInv
  <1>2. String!TypeOK BY <1>1 DEF String!TypeOK, StringInv, StringOK
  <1>3. String!TerminatedInCapacity
    BY <1>1 DEF String!TerminatedInCapacity, StringOK, String!Nul
  <1>4. String!CmpIsOrder BY ONLY <1>1, CmpIs DEF String!CmpIsOrder
  <1>5. String!EqualHashAlike
    <2>1. ASSUME NEW s \in String!Live, NEW t \in String!Live, String!Cmp(s, t) = 0
          PROVE  String!GetHash(s) = String!GetHash(t)
      <3>1. String!Text(s) = String!Text(t) BY ONLY <1>1, <2>1, CmpIs
      <3> QED BY ONLY <3>1 DEF String!GetHash
    <2> QED BY ONLY <2>1 DEF String!EqualHashAlike
  <1> QED BY ONLY <1>2, <1>3, <1>4, <1>5

\* A string is the sequence of the characters that were appended to it, whenever
\* it was grown and whichever growth failed (CosString.c).
THEOREM StringHoldsWhatWasAppended == String!Spec => String!HoldsWhatWasAppended
  <1>1. StringInv /\ [String!Next]_(String!vars)
          => StringInv' /\ [String!ContentsOf!Next]_(AllTexts(string))
    BY StringNext
  <1>2. String!Spec => String!ContentsOf!Init /\ [][String!ContentsOf!Next]_(AllTexts(string))
    BY <1>1, StringInit, PTL DEF String!Spec
  <1>3. String!HoldsWhatWasAppended <=> String!ContentsOf!Spec BY DEF String!HoldsWhatWasAppended
  <1>4. String!ContentsOf!Spec <=>
          String!ContentsOf!Init /\ [][String!ContentsOf!Next]_(AllTexts(string))
    BY DEF String!ContentsOf!Spec, AllTexts, TextOf
  <1> QED BY <1>2, <1>3, <1>4

\* A string has room for its terminator, which is there, comparing strings is an
\* order in which only equal texts are equal, and those hash alike (CosString.c).
THEOREM StringsAreSound ==
    String!Spec => [](/\ String!TypeOK /\ String!TerminatedInCapacity
                      /\ String!CmpIsOrder /\ String!EqualHashAlike)
  <1>1. StringInv /\ [String!Next]_(String!vars) => StringInv' BY StringNext
  <1> QED BY <1>1, StringInit, StringInvImplies, PTL DEF String!Spec

-----------------------------------------------------------------------------
(* All three *)

\* Each part of a behaviour is a behaviour of its part.
LEMMA Parts == BytesSpec => Spec /\ String!Spec /\ Data!Spec
  <1>1. BytesInit => Init /\ String!Init /\ Data!Init BY DEF BytesInit
  <1>2. [BytesNext]_<<used, stringVars, dataVars, vars>>
          => [Next]_vars /\ [String!Next]_(String!vars) /\ [Data!Next]_(Data!vars)
    BY DEF BytesNext, UseString, UseData, UseReader, stringVars, dataVars, String!vars, Data!vars
  <1> QED BY <1>1, <1>2, PTL DEF BytesSpec, Spec, String!Spec, Data!Spec

\* What strings and data objects hold (CosString.c, CosData.c).
THEOREM WhatWasAppendedIsHeld == BytesSpec => HoldWhatWasAppended
  BY Parts, StringHoldsWhatWasAppended, DataHoldsWhatWasAppended DEF HoldWhatWasAppended

\* Strings are terminated, ordered and hashed (CosString.c).
THEOREM StringsAlwaysSound == BytesSpec => []StringsSound
  BY Parts, StringsAreSound, PTL DEF StringsSound

\* What was read stays valid (CosData.c, CosStreamReader.c).
THEOREM ReadsAlwaysValid == BytesSpec => []ReadsStayValid
  BY Parts, ReferencesStayValid, ReadsAreInPlace, PTL DEF ReadsStayValid

\* The reader is a cursor (CosStreamReader.c).
THEOREM BytesReadByCursor == BytesSpec => CursorSpec
  BY Parts, ReaderIsCursor
=============================================================================
