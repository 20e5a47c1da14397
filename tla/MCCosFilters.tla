---------------------------- MODULE MCCosFilters ----------------------------
(***************************************************************************)
(* Texts for the decoders and what they encode: hexadecimal digits; a      *)
(* small ASCII85, with blocks of three digits of radix 3 for two bytes of  *)
(* five values, and as in the real one fewer numbers than a block of       *)
(* digits has (25 of 27), made by an encoder; and all texts of bytes below *)
(* four, of which two is the end-of-data marker of the run-length encoding.*)
(***************************************************************************)
EXTENDS CosFilters, FiniteSetsExt

Case(d, text, contents) == [decoder |-> d, text |-> text, contents |-> contents]

Texts(chars, lengths) == UNION {[1 .. n -> chars] : n \in lengths}

-----------------------------------------------------------------------------
(* Hexadecimal digits: of the blocks before the end marker, those of       *)
(* digits only are encoded.                                                *)

Before(text) ==
  LET marks == {i \in DOMAIN text : text[i] = ASCIIHex!EndMarker}
  IN  IF marks = {} THEN text ELSE SubSeq(text, 1, Min(marks) - 1)

HexDigits(text) == SelectSeq(Before(text), LAMBDA c : c # ASCIIHex!White)

Pairs(text) ==
  LET digits == HexDigits(text) \o <<0>>
      pairs  == [i \in 1 .. Len(digits) \div 2 |-> <<digits[2 * i - 1], digits[2 * i]>>]
      valid  == SelectSeq(pairs, LAMBDA p : ASCIIHex!Other \notin {p[1], p[2]})
  IN  [i \in DOMAIN valid |-> 16 * valid[i][1] + valid[i][2]]

HexTexts ==
  {t \in Texts({1, ASCIIHex!White, ASCIIHex!EndMarker, ASCIIHex!Other}, 0 .. 4) \cup Texts({1, 2}, {6}) :
     HexEnds(t)}

HexCases == {Case("ASCIIHex", t, Pairs(t)) : t \in HexTexts}

-----------------------------------------------------------------------------
(* The ASCII85 that fits the constants.                                    *)

(* A block that is not full is padded with zeros, and loses as many digits. *)
EncodedBlock(bytes) ==
  LET padded == bytes \o <<0>>
      value  == padded[1] * ByteBase + padded[2]
  IN  [i \in 1 .. Len(bytes) + 1 |-> (value \div Radix ^ (BlockSize - i)) % Radix]

BlockTexts(bytes) ==
  {EncodedBlock(bytes)} \cup IF bytes = ASCII85!ZeroBytes THEN {<<ASCII85!Zeros>>} ELSE {}

Encodings(contents) ==
  IF contents = <<>> THEN {<<>>}
  ELSE IF Len(contents) <= ASCII85!BytesPerBlock THEN BlockTexts(contents)
  ELSE {b \o c : b \in BlockTexts(SubSeq(contents, 1, 2)), c \in BlockTexts(SubSeq(contents, 3, Len(contents)))}

(* White space may be anywhere, and anything behind the end marker; a      *)
(* block that is invalid is passed over.                                   *)
Spaced(text) == {text} \cup {InsertAt(text, i, ASCII85!White) : i \in 1 .. Len(text) + 1}

Starts == {<<>>, <<0, ASCII85!Other, 1>>, <<1, ASCII85!Zeros, 1>>}
Ends   == {<<>>, <<ASCII85!Tilde>>, <<ASCII85!Tilde, 1, 2, ASCII85!Zeros>>}

ASCII85Cases ==
  UNION {{Case("ASCII85", s \o t \o e, c) :
             s \in Starts, e \in Ends, t \in UNION {Spaced(u) : u \in Encodings(c)}} :
            c \in Texts({0, 1, 4}, 0 .. 2) \cup Texts({0, 4}, {3})}

-----------------------------------------------------------------------------
(* Runs; the last may be cut off.                                          *)

RunTexts == Texts(0 .. 2 * EodMarker - 1, 0 .. 4) \cup {<<1, 0, 1, 3, 0>>, <<3, 1, 1, 0, 3>>}

RunCases == {Case("RunLength", t, RunContents(t)) : t \in RunTexts}

AllCases == HexCases \cup ASCII85Cases \cup RunCases
=============================================================================
