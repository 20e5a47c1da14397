------------------------- MODULE CosASCII85Filter --------------------------
(***************************************************************************)
(* The ASCII85 decoder: five digits of radix 85 are four bytes, "z" is     *)
(* four bytes that are zero, a last block of n digits is n - 1 bytes, and  *)
(* "~>" ends the data.                                                     *)
(***************************************************************************)
EXTENDS CosFilter, SequencesExt

CONSTANTS Radix,      \* 85
          ByteBase,   \* 256
          BlockSize   \* 5, of which all but one are bytes

BytesPerBlock == BlockSize - 1

\* The characters: 0 to Radix - 1 are the digits.
White == -1
Tilde == -2
Other == -3
Zeros == -4

Start == [chars |-> <<>>, ended |-> FALSE]

ZeroBytes == [i \in 1 .. BytesPerBlock |-> 0]

\* Mutant: the character for a block of zeros is also taken within a block.
ZerosAnywhere == NextChar = Zeros

IsZeros == NextChar = Zeros /\ block.chars = <<>>

\* Mutant: the block goes on behind the end of the data.
ClosedNever(locals) == locals

Closed(locals) == [locals EXCEPT !.ended = TRUE]

\* The character behind a tilde is read, and should be ">".
ReadEndMarker ==
  /\ \/ Gives(2)
     \/ /\ Left = 1 \/ source.failures < FailuresMax
        /\ source' = [source EXCEPT !.pos = source.pos + 1,
                                    !.failures = source.failures + IF Left = 1 THEN 0 ELSE 1]
  /\ buffer' = [buffer EXCEPT !.eod = TRUE]
  /\ block' = Closed(block)
  /\ UNCHANGED call

ReadChar ==
  /\ block # Idle /\ attached /\ ~block.ended /\ Len(block.chars) < BlockSize
  /\ \/ /\ GivesNone
        /\ buffer' = Ended
        /\ block' = Closed(block)
        /\ UNCHANGED call
     \/ Left > 0 /\ NextChar = Tilde /\ ReadEndMarker
     \/ /\ Gives(1)
        /\ \/ NextChar = White /\ UNCHANGED <<buffer, call, block>>
           \/ /\ IsZeros
              /\ buffer' = [buffer EXCEPT !.data = ZeroBytes]
              /\ Returns(ZeroBytes)
           \/ /\ NextChar \notin {White, Tilde} /\ ~IsZeros
              /\ block' = [block EXCEPT !.chars = Append(block.chars, NextChar)]
              /\ UNCHANGED <<buffer, call>>
  /\ UNCHANGED <<attached, delivered>>

Padded(chars) == [i \in 1 .. BlockSize |-> IF i <= Len(chars) THEN chars[i] ELSE Radix - 1]

\* The number of a block, in an unsigned integer as wide as its bytes.
Value(chars) ==
  FoldLeft(LAMBDA value, digit : (value * Radix + digit) % ByteBase ^ BytesPerBlock, 0, Padded(chars))

IsValid(chars) == \A i \in 1 .. Len(chars) : chars[i] \in 0 .. Radix - 1

\* cos_decode_ascii85_block_: the first bytes of the number. An invalid block
\* has none.
Bytes(chars) ==
  IF chars = <<>> \/ ~IsValid(chars) THEN <<>>
  ELSE [i \in 1 .. Len(chars) - 1 |->
          (Value(chars) \div ByteBase ^ (BytesPerBlock - i)) % ByteBase]

DecodeBlock ==
  /\ block # Idle /\ attached /\ (block.ended \/ Len(block.chars) = BlockSize)
  /\ buffer' = [buffer EXCEPT !.data = Bytes(block.chars)]
  /\ Returns(buffer'.data)
  /\ UNCHANGED <<source, attached, delivered>>

Works == Decode(Start) \/ ReadChar \/ DecodeBlock \/ ReadGoesOn
=============================================================================
