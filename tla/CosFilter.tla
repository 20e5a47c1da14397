----------------------------- MODULE CosFilter -----------------------------
(***************************************************************************)
(* CosFilter: a stream whose bytes are decoded from a source, into a       *)
(* buffer from which cos_filter_read_ takes them.  The decoders are        *)
(* CosASCIIHexFilter, CosASCII85Filter and CosRunLengthFilter, which       *)
(* extend this module, and CosFilters is a filter with any of them.  Every *)
(* read of the source is a step, and may fail.                             *)
(***************************************************************************)
EXTENDS Integers, Sequences

CONSTANTS BufferSize,  \* COS_FILTER_BUFFER_SIZE
          CountMax,    \* the most bytes that a call asks for
          FailuresMax, \* a bound on the reads of a source that fail before its end
          Idle         \* no call, and no decoder at work

ASSUME FilterAssumption ==
  /\ BufferSize \in Nat \ {0} /\ CountMax \in Nat \ {0} /\ FailuresMax \in Nat

VARIABLES source,     \* its text, what it encodes, the characters read and the failures
          attached,   \* the source is attached to the filter
          buffer,     \* the bytes decoded, the index of the next one, and the end of data
          call,       \* the bytes a call asks for and those it has read, or Idle
          block,      \* the local variables of a decoder at work, or Idle
          delivered   \* all the bytes that calls have returned

filterVars == <<source, attached, buffer, call, block, delivered>>

\* A filter of a text, of which it is known what it encodes.
Created(c) ==
  /\ source = [text |-> c.text, contents |-> c.contents, pos |-> 0, failures |-> 0]
  /\ attached = FALSE
  /\ buffer = [data |-> <<>>, index |-> 0, eod |-> FALSE]
  /\ call = Idle /\ block = Idle /\ delivered = <<>>

(***************************************************************************)
(* cos_stream_read on the source.                                          *)
(***************************************************************************)
Left == Len(source.text) - source.pos

\* The source gives its next n characters.
Gives(n) == n <= Left /\ source' = [source EXCEPT !.pos = source.pos + n]

NextChar == source.text[source.pos + 1]

\* It gives none: at its end, or because it fails.
GivesNone ==
  \/ Left = 0 /\ UNCHANGED source
  \/ /\ Left > 0 /\ source.failures < FailuresMax
     /\ source' = [source EXCEPT !.failures = source.failures + 1]

\* Mutant: the end of the source is not noted.
EndedUnnoted == buffer

\* The buffer when a decoder comes to the end of the source.
Ended == [buffer EXCEPT !.eod = TRUE]

(***************************************************************************)
(* The client.                                                             *)
(***************************************************************************)
Attach == /\ call = Idle /\ ~attached /\ attached' = TRUE
          /\ UNCHANGED <<source, buffer, call, block, delivered>>

Detach == /\ call = Idle /\ attached /\ attached' = FALSE
          /\ UNCHANGED <<source, buffer, call, block, delivered>>

Read == /\ call = Idle
        /\ \E count \in 1 .. CountMax : call' = [count |-> count, got |-> 0]
        /\ UNCHANGED <<source, attached, buffer, block, delivered>>

(***************************************************************************)
(* cos_filter_read_, around its decoder.                                   *)
(***************************************************************************)
IsEmpty == buffer.index >= Len(buffer.data)

\* cos_filter_eof_
Eof == buffer.eod /\ IsEmpty

AtEnd == /\ call # Idle /\ block = Idle /\ IsEmpty /\ buffer.eod
         /\ call' = Idle
         /\ UNCHANGED <<source, attached, buffer, block, delivered>>

Cleared == [buffer EXCEPT !.data = <<>>, !.index = 0]

MayDecode == ~buffer.eod

\* The decoder is called, with its local variables as they are at its start.
Decode(locals) ==
  /\ call # Idle /\ block = Idle /\ IsEmpty /\ MayDecode
  /\ buffer' = Cleared
  /\ block' = locals
  /\ UNCHANGED <<source, attached, call, delivered>>

\* The decoder returns, and the call with it if the buffer is empty.
Returns(bytes) ==
  /\ block' = Idle
  /\ call' = IF bytes = <<>> THEN Idle ELSE call

\* Without a source there is nothing to decode.
NoSource == /\ block # Idle /\ ~attached
            /\ Returns(<<>>)
            /\ UNCHANGED <<source, attached, buffer, delivered>>

Copied(n) == SubSeq(buffer.data, buffer.index + 1, buffer.index + n)

Copy ==
  /\ call # Idle /\ block = Idle /\ ~IsEmpty
  /\ LET available == Len(buffer.data) - buffer.index
         wanted    == call.count - call.got
         n         == IF available < wanted THEN available ELSE wanted
     IN  /\ delivered' = delivered \o Copied(n)
         /\ buffer' = [buffer EXCEPT !.index = buffer.index + n]
         /\ call' = IF n = wanted THEN Idle ELSE [call EXCEPT !.got = call.got + n]
  /\ UNCHANGED <<source, attached, block>>

ReadGoesOn == AtEnd \/ NoSource \/ Copy
Client     == Attach \/ Detach \/ Read

(***************************************************************************)
(* Properties.                                                             *)
(***************************************************************************)
\* The buffer is never filled beyond its size, and the index stays within it;
\* a decoder only works on an empty buffer, in a call.
TypeOK == /\ Len(buffer.data) <= BufferSize
          /\ buffer.index <= Len(buffer.data)
          /\ block # Idle => call # Idle /\ buffer.index = 0
          /\ call # Idle => call.got < call.count
=============================================================================
