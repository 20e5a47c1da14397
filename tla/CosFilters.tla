----------------------------- MODULE CosFilters -----------------------------
(***************************************************************************)
(* A filter with one of the three decoders, which its case chooses, and    *)
(* what the texts encode when they are read as a whole.                    *)
(***************************************************************************)
EXTENDS CosFilter, FiniteSets, SequencesExt

CONSTANTS Cases,                       \* texts, their decoders, and what they encode
          Radix, ByteBase, BlockSize,  \* see CosASCII85Filter
          EodMarker                    \* see CosRunLengthFilter

VARIABLES decoder, context

vars == <<filterVars, decoder, context>>

ASCIIHex  == INSTANCE CosASCIIHexFilter
ASCII85   == INSTANCE CosASCII85Filter
RunLength == INSTANCE CosRunLengthFilter

ASSUME DecodersAssumption ==
  /\ {Radix, ByteBase, BlockSize} \subseteq Nat \ {0, 1} /\ EodMarker \in Nat \ {0}
  /\ ASCII85!BytesPerBlock <= BufferSize

ASSUME IdleAssumption ==
  /\ Idle \notin [count : Nat, got : Nat]
  /\ Idle \notin [chars : Seq(Int), ended : BOOLEAN] \cup {RunLength!Working}

-----------------------------------------------------------------------------
(* The contents of a text: rest[n] is what its last n characters encode,   *)
(* behind the characters of a block that is begun, if there are blocks.    *)

CharAt(text, left) == text[Len(text) - left + 1]

HexBytes(chars) ==
  LET digits == ASCIIHex!Padded(chars)
  IN  IF chars = <<>> \/ ~ASCIIHex!IsValid(digits) THEN <<>> ELSE <<ASCIIHex!Byte(digits)>>

HexNext(char, rest, chars) ==
  LET group == Append(chars, char)
  IN  IF char = ASCIIHex!EndMarker THEN HexBytes(chars)
      ELSE IF char = ASCIIHex!White THEN rest[chars]
      ELSE IF Len(group) = ASCIIHex!PairSize THEN HexBytes(group) \o rest[<<>>]
      ELSE rest[group]

HexRest(text) ==
  LET rest[n \in 0 .. Len(text)] == [chars \in Seq(Int) |->
        IF n = 0 THEN HexBytes(chars) ELSE HexNext(CharAt(text, n), rest[n - 1], chars)]
  IN  rest

HexContents(text) == HexRest(text)[Len(text)][<<>>]

(* An end marker behind an odd digit is the last character, since the code *)
(* goes on behind it.                                                      *)
HexEnds(text) ==
  \A i \in DOMAIN text :
     text[i] = ASCIIHex!EndMarker /\ (\A j \in 1 .. i - 1 : text[j] # ASCIIHex!EndMarker) =>
        i = Len(text) \/ Cardinality({j \in 1 .. i - 1 : text[j] # ASCIIHex!White}) % 2 = 0

ASCII85Next(char, rest, chars) ==
  LET group == Append(chars, char)
  IN  IF char = ASCII85!Tilde THEN ASCII85!Bytes(chars)
      ELSE IF char = ASCII85!White THEN rest[chars]
      ELSE IF char = ASCII85!Zeros /\ chars = <<>> THEN ASCII85!ZeroBytes \o rest[<<>>]
      ELSE IF Len(group) = BlockSize THEN ASCII85!Bytes(group) \o rest[<<>>]
      ELSE rest[group]

ASCII85Rest(text) ==
  LET rest[n \in 0 .. Len(text)] == [chars \in Seq(Int) |->
        IF n = 0 THEN ASCII85!Bytes(chars) ELSE ASCII85Next(CharAt(text, n), rest[n - 1], chars)]
  IN  rest

ASCII85Contents(text) == ASCII85Rest(text)[Len(text)][<<>>]

(* Runs, of which the last may be cut off.                                 *)
RunsNext(text, n, rest) ==
  LET char   == CharAt(text, n)
      behind == Len(text) - n + 1
      length == RunLength!LiteralLength(char)
      there  == IF length < n THEN length ELSE n - 1
  IN  IF char = EodMarker THEN <<>>
      ELSE IF char < EodMarker THEN SubSeq(text, behind + 1, behind + there) \o rest[n - 1 - there]
      ELSE IF n = 1 THEN <<>>
      ELSE [i \in 1 .. RunLength!CopyLength(char) |-> CharAt(text, n - 1)] \o rest[n - 2]

RunsRest(text) ==
  LET rest[n \in 0 .. Len(text)] == IF n = 0 THEN <<>> ELSE RunsNext(text, n, rest)
  IN  rest

RunContents(text) == RunsRest(text)[Len(text)]

ASSUME CasesAssumption ==
  \A c \in Cases :
     \/ /\ c.decoder = "ASCIIHex" /\ c.text \in Seq(Int) /\ HexEnds(c.text)
        /\ c.contents = HexContents(c.text)
     \/ /\ c.decoder = "ASCII85" /\ c.text \in Seq(Int)
        /\ c.contents = ASCII85Contents(c.text)
     \/ /\ c.decoder = "RunLength" /\ c.text \in Seq(0 .. 2 * EodMarker - 1)
        /\ c.contents = RunContents(c.text)

-----------------------------------------------------------------------------

DecoderInit ==
  /\ \E c \in Cases : Created(c) /\ decoder = c.decoder
  /\ context = RunLength!NoRun

Uses(d) == decoder = d /\ UNCHANGED decoder

DecoderWorks ==
  \/ Uses("ASCIIHex") /\ ASCIIHex!Works /\ UNCHANGED context
  \/ Uses("ASCII85") /\ ASCII85!Works /\ UNCHANGED context
  \/ Uses("RunLength") /\ RunLength!Works

ClientStep(A) == A /\ UNCHANGED <<decoder, context>>

DecoderNext == DecoderWorks \/ ClientStep(Client)

(* A call goes on by itself, and the client goes on to read, with a source. *)
FiltersSpec ==
  /\ DecoderInit /\ [][DecoderNext]_vars
  /\ WF_vars(DecoderWorks)
  /\ SF_vars(ClientStep(Attach)) /\ SF_vars(attached /\ ClientStep(Read))

-----------------------------------------------------------------------------

(* What a client sees, to whom a decoder at work is not there.             *)
IsAtEnd == Eof /\ block = Idle

Promise == INSTANCE CosDecoding WITH
  contents <- source.contents, ended <- IsAtEnd, failed <- source.failures > 0

(* The filter delivers what its source encodes, as CosDecoding says it.    *)
DeliversContents == Promise!Spec

(* A run-length filter whose source failed goes on where it was: it still  *)
(* delivers the start of the contents.                                     *)
DeliversPrefix ==
  TypeOK /\ (decoder = "RunLength" => IsPrefix(delivered, source.contents))

(* "The end-of-data marker has been set; no more data will be read."       *)
(* (CosFilter.c:126), not from the source either. The ASCIIHex decoder     *)
(* does, when it has one digit of a pair.                                  *)
NothingReadBehindMarker ==
  [][buffer.eod /\ decoder # "ASCIIHex" => source'.pos = source.pos]_vars

(* A client that reads on comes to the end, but for a literal run that is  *)
(* cut off.                                                                *)
EveryEndIsReached == <>(IsAtEnd \/ RunLength!IsCutInLiteral)

(* Without their exceptions the two above do not hold, though the comment  *)
(* quoted there and CosStream.h:112, of eof_func, say no more than these:  *)
(* "@return @c true if the stream is at the end, @c false otherwise."      *)
NothingReadBehindEnd == [][buffer.eod => source'.pos = source.pos]_vars

EndIsReached == <>IsAtEnd
=============================================================================
