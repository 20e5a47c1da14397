------------------------- MODULE CosASCIIHexFilter -------------------------
(***************************************************************************)
(* The ASCIIHex decoder: two digits are a byte, white space is skipped and *)
(* ">" ends the data.                                                      *)
(***************************************************************************)
EXTENDS CosFilter

\* The characters: 0 to 15 are the digits.
White == -1
EndMarker == -2
Other == -3

PairSize == 2

\* The buffer is filled block by block.
Start == [chars |-> <<>>, ended |-> FALSE]

ReadChar ==
  /\ block # Idle /\ attached /\ ~block.ended /\ Len(block.chars) < PairSize
  /\ \/ /\ GivesNone
        /\ buffer' = Ended
        /\ block' = [block EXCEPT !.ended = TRUE]
     \/ /\ Gives(1)
        /\ \/ NextChar = White /\ UNCHANGED <<buffer, block>>
           \/ /\ NextChar = EndMarker
              /\ buffer' = [buffer EXCEPT !.eod = TRUE]
              /\ block' = [block EXCEPT !.ended = TRUE]
           \/ /\ NextChar \notin {White, EndMarker}
              /\ block' = [block EXCEPT !.chars = Append(block.chars, NextChar)]
              /\ UNCHANGED buffer
  /\ UNCHANGED <<attached, call, delivered>>

BlockIsRead == block # Idle /\ attached /\ (block.ended \/ Len(block.chars) = PairSize)

Padded(chars) == IF Len(chars) = 1 THEN Append(chars, 0) ELSE chars

\* cos_ascii_hex_decode_
IsValid(chars) == \A i \in 1 .. 2 : chars[i] \in 0 .. 15
Byte(chars)    == 16 * chars[1] + chars[2]

IsFull(data) == Len(data) >= BufferSize

\* A block is put into the buffer and the next one is begun, also when the
\* end of the data has been seen; but an empty block or an invalid one is the
\* last one of this call.
DecodeBlock ==
  /\ BlockIsRead
  /\ IF block.chars = <<>> \/ ~IsValid(Padded(block.chars))
     THEN Returns(buffer.data) /\ UNCHANGED buffer
     ELSE /\ buffer' = [buffer EXCEPT !.data = Append(buffer.data, Byte(Padded(block.chars)))]
          /\ IF IsFull(buffer'.data) THEN Returns(buffer'.data)
             ELSE block' = Start /\ UNCHANGED call
  /\ UNCHANGED <<source, attached, delivered>>

Works == Decode(Start) \/ ReadChar \/ DecodeBlock \/ ReadGoesOn
=============================================================================
