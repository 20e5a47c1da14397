--------------------------- MODULE CosStreamReader ---------------------------
(***************************************************************************)
(* CosStreamReader: single bytes of a stream, read through a buffer, and   *)
(* the client that also seeks and writes in the stream below it.           *)
(***************************************************************************)
EXTENDS CosStream

CONSTANTS Kinds,      \* the kinds of stream to read from
          Sizes,      \* how many bytes a stream may have
          Capacity,   \* COS_STREAM_READER_BUFFER_SIZE
          Reach       \* how far behind its end a file is sought

ASSUME KindsAssumption == Kinds \subseteq DOMAIN Functions
ASSUME SizesAssumption == Sizes \subseteq Nat
ASSUME CapacityAssumption == Capacity \in Nat \ {0}
ASSUME ReachAssumption == Reach \in Nat

EOF == -2
NoRead == -3

VARIABLES stream,     \* input_stream
          reader,     \* buffer up to buffer_end, buffer_position, is_eof, eof_position
          sought,     \* the stream was sought and the reader not reset since
          out         \* the last call and its result

vars == <<stream, reader, sought, out>>

Emptied == [buffer |-> <<>>, pos |-> 0, isEof |-> FALSE, eofPos |-> 0]

Init ==
    /\ \E kind \in Kinds, size \in Sizes : stream = Opened(kind, size)
    /\ reader = Emptied
    /\ sought = FALSE
    /\ out = [call |-> "create", result |-> NoRead]

Buffered == reader.pos < Len(reader.buffer)

Unread == Len(reader.buffer) - reader.pos

(* The stream and the reader after a read of the stream.                   *)
Refilled(r) ==
    LET short == Len(r.bytes) < Capacity
        atEnd == short /\ AtEnd(r.stream)
    IN  [stream |-> IF short THEN Flagged(r.stream) ELSE r.stream,
         reader |-> [buffer |-> r.bytes,
                     pos    |-> 0,
                     isEof  |-> reader.isEof \/ atEnd,
                     eofPos |-> IF atEnd THEN Len(r.bytes) ELSE reader.eofPos]]

(* What can be found under the reader's position.                          *)
Currents ==
    IF Buffered \/ (reader.isEof /\ reader.pos >= reader.eofPos)
    THEN {[stream |-> stream, reader |-> reader]}
    ELSE {Refilled(r) : r \in Reads(stream, Capacity)}

ByteOf(r) == IF r.pos < Len(r.buffer) THEN r.buffer[r.pos + 1] ELSE EOF

Advanced(r) == IF ByteOf(r) = EOF THEN r ELSE [r EXCEPT !.pos = @ + 1]

Read(call, current, after) ==
    /\ stream' = current.stream
    /\ reader' = after
    /\ out' = [call |-> call, result |-> ByteOf(current.reader)]
    /\ UNCHANGED sought

Getc == \E c \in Currents : Read("getc", c, Advanced(c.reader))

Peek == \E c \in Currents : Read("peek", c, c.reader)

(* Nothing is behind a buffer that was just filled.                        *)
Ungetc ==
    /\ reader' = IF reader.pos > 0 THEN [reader EXCEPT !.pos = @ - 1] ELSE reader
    /\ out' = [call |-> IF reader.pos > 0 THEN "ungetc" ELSE "no ungetc", result |-> NoRead]
    /\ UNCHANGED <<stream, sought>>

GetPosition == IF Can(stream, "tell") THEN Tell(stream) - Unread ELSE -1

Call(name) == out' = [call |-> name, result |-> NoRead]

(* Mutant: the bytes in the buffer outlive a reset. *)
ResetReaderKeeping == [reader EXCEPT !.isEof = FALSE, !.eofPos = 0]

ResetReader == Emptied

Reset == reader' = ResetReader /\ sought' = FALSE /\ Call("reset") /\ UNCHANGED stream

(* The calls of a client to the stream.                                    *)
Seek ==
    \E whence \in {"Set", "Current", "End"},
       offset \in -stream.pos - 1 .. Size(stream) + Reach :
        /\ CanSeekTo(stream, offset, whence) =>
               Origin(stream, whence) + offset <= Size(stream) + Reach
        /\ IF CanSeekTo(stream, offset, whence)
           THEN /\ stream' = Sought(stream, offset, whence)
                /\ sought' = TRUE
                /\ Call("seek")
           ELSE Call("no seek") /\ UNCHANGED <<stream, sought>>
        /\ UNCHANGED reader

IsAtEnd ==
    /\ stream' = Flagged(stream)
    /\ Call(IF AtEnd(stream) THEN "at end" ELSE "not at end")
    /\ UNCHANGED <<reader, sought>>

Write ==
    \E count \in 0 .. Capacity :
        /\ stream' = Wrote(stream, count)
        /\ Call("write")
        /\ UNCHANGED <<reader, sought>>

Next == Getc \/ Peek \/ Ungetc \/ Reset \/ Seek \/ IsAtEnd \/ Write

Spec == Init /\ [][Next]_vars

-----------------------------------------------------------------------------

(* The reader's buffer is within its capacity, its position within it.     *)
TypeOK ==
    /\ stream.kind \in Kinds
    /\ stream.pos \in 0 .. Size(stream) + Reach
    /\ Len(reader.buffer) <= Capacity
    /\ reader.pos \in 0 .. Len(reader.buffer)
    /\ reader.eofPos \in 0 .. Len(reader.buffer)
    /\ sought \in BOOLEAN

(* What cos_stream_reader_get_position relies on: the buffer holds the     *)
(* bytes right before the position of the stream, written over or not.     *)
BytesInPlace ==
    ~sought => /\ Len(reader.buffer) <= stream.pos
               /\ \A k \in 1 .. Len(reader.buffer) :
                      reader.buffer[k] = stream.data[stream.pos - Len(reader.buffer) + k]

(* What the tokenizer relies on when it gives back the byte after a token: *)
(* a byte can be put back by the call after the one that read it.          *)
LastReadCanBeUnread == out.call = "getc" /\ out.result # EOF => reader.pos > 0

(* A stream in memory is at its end, and not before, when the reader says  *)
(* so: its reads cannot fail.                                              *)
EofOfMemoryIsItsEnd ==
    ~sought /\ out.result = EOF /\ InMemory(stream) => GetPosition = Size(stream)

(* The header says of cos_stream_reader_getc that it returns EOF if the    *)
(* end of the stream has been reached.                                     *)
EofIsTheEnd == ~sought /\ out.result = EOF => GetPosition >= Size(stream)

(* The header says of the function behind cos_stream_is_at_end that it     *)
(* returns whether the stream is at the end.                               *)
AtEndIsTheEnd == out.call = "at end" => stream.pos >= Size(stream)

(* The header says of cos_stream_reader_ungetc that it moves the position  *)
(* back by one character; it should, when there is a character before it   *)
(* that was read and not put back.                                         *)
UngetcMovesBack ==
    [][Ungetc /\ out.call = "peek" /\ ~sought /\ GetPosition > 0 => GetPosition' = GetPosition - 1]_vars

Cursor == INSTANCE CosByteCursor WITH
    Datas <- UNION {[1 .. size -> 0 .. size \cup {Written}] : size \in Sizes},
    EndOfFile <- EOF,
    NoCall <- NoRead,
    Away <- -1,
    data <- stream.data,
    at <- IF sought THEN -1 ELSE stream.pos - Unread,
    read <- out.result

(* The reader is a cursor in the data: no byte is left out or read twice,  *)
(* whatever is read, put back, looked at and written in between.           *)
CursorSpec == Cursor!Spec
=============================================================================
