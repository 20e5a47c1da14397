------------------------ MODULE CosRunLengthFilter -------------------------
(***************************************************************************)
(* The RunLength decoder: an indicator below the end-of-data marker is     *)
(* followed by that many bytes and one more, and one above it by a byte    *)
(* that is repeated.  A run that does not fit into the buffer is kept in   *)
(* the context of the filter and goes on at the next call.                 *)
(***************************************************************************)
EXTENDS CosFilter

CONSTANT EodMarker  \* COS_RUN_LENGTH_EOD, 128, half of the values of a byte

VARIABLE context    \* the type of the current run, what remains of it, and its byte

LiteralMax == EodMarker - 1
CopyBase   == 2 * EodMarker + 1

Working == "working"

NoRun == [type |-> "none", remaining |-> 0, byte |-> 0]

IsBetweenRuns == context.type = "none" \/ context.remaining = 0

Decodes == /\ block = Working /\ attached /\ Len(buffer.data) < BufferSize
           /\ UNCHANGED <<attached, delivered>>

(***************************************************************************)
(* The indicator of the next run.                                          *)
(***************************************************************************)
LiteralLength(indicator) == indicator + 1

CopyLength(indicator) == CopyBase - indicator

StartsLiteral ==
  /\ Gives(1) /\ NextChar <= LiteralMax
  /\ context' = [context EXCEPT !.type = "literal", !.remaining = LiteralLength(NextChar)]
  /\ UNCHANGED <<buffer, call, block>>

\* The byte behind the indicator may be missing, which ends the data.
StartsCopy ==
  /\ Left > 0 /\ NextChar > EodMarker
  /\ \/ /\ Gives(2)
        /\ context' = [type |-> "copy", remaining |-> CopyLength(NextChar),
                       byte |-> source.text[source.pos + 2]]
        /\ UNCHANGED <<buffer, call, block>>
     \/ /\ Left = 1 \/ source.failures < FailuresMax
        /\ source' = [source EXCEPT !.pos = source.pos + 1,
                                    !.failures = source.failures + IF Left = 1 THEN 0 ELSE 1]
        /\ context' = [context EXCEPT !.type = "copy", !.remaining = CopyLength(NextChar)]
        /\ buffer' = [buffer EXCEPT !.eod = TRUE]
        /\ Returns(buffer.data)

EndsData ==
  /\ Returns(buffer.data)
  /\ \/ GivesNone /\ buffer' = Ended /\ UNCHANGED context
     \/ /\ Gives(1) /\ NextChar = EodMarker
        /\ buffer' = [buffer EXCEPT !.eod = TRUE]
        /\ context' = [context EXCEPT !.type = "none"]

StartRun == Decodes /\ IsBetweenRuns /\ (StartsLiteral \/ StartsCopy \/ EndsData)

(***************************************************************************)
(* The bytes of the run, as many as fit into the buffer.                   *)
(***************************************************************************)
Room    == BufferSize - Len(buffer.data)

Fits == IF context.remaining < Room THEN context.remaining ELSE Room

Consumed(n) == [context EXCEPT !.remaining = context.remaining - n]

Puts(bytes) ==
  /\ buffer' = [buffer EXCEPT !.data = buffer.data \o bytes]
  /\ context' = Consumed(Len(bytes))
  /\ UNCHANGED <<call, block>>

\* Mutant: the rest of the run is forgotten.
InterruptedForgotten == [context EXCEPT !.remaining = 0]

\* The run when the source gives none of its bytes.
Interrupted == context

\* A source may give fewer bytes than it is asked for. If it gives none the
\* decoder returns, and does not take this for the end.
CopyLiteral ==
  /\ Decodes /\ ~IsBetweenRuns /\ context.type = "literal"
  /\ \/ /\ \E n \in 1 .. Fits : Gives(n)
        /\ Puts(SubSeq(source.text, source.pos + 1, source'.pos))
     \/ GivesNone /\ Returns(buffer.data) /\ context' = Interrupted /\ UNCHANGED buffer

CopyRepeated ==
  /\ Decodes /\ ~IsBetweenRuns /\ context.type = "copy"
  /\ Puts([i \in 1 .. Fits |-> context.byte])
  /\ UNCHANGED source

BufferIsFull ==
  /\ block = Working /\ Len(buffer.data) >= BufferSize
  /\ Returns(buffer.data)
  /\ UNCHANGED <<source, attached, buffer, delivered, context>>

DecodeRuns == StartRun \/ CopyLiteral \/ CopyRepeated \/ BufferIsFull

Works == DecodeRuns \/ ((Decode(Working) \/ ReadGoesOn) /\ UNCHANGED context)

(***************************************************************************)
(* Properties.                                                             *)
(***************************************************************************)
\* The text ends within a literal run.
IsCutInLiteral == context.type = "literal" /\ context.remaining > Left
=============================================================================
