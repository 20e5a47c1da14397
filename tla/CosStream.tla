------------------------------ MODULE CosStream ------------------------------
(***************************************************************************)
(* The streams of libcos: a record of functions over a block of memory, a  *)
(* file, or whatever a client gives.                                       *)
(*                                                                         *)
(* A byte of the data is its offset, or Written where a call of            *)
(* cos_stream_write has replaced it.  A file is open for reading.          *)
(***************************************************************************)
EXTENDS Integers, Sequences

Written == -1

MemoryFunctions == {"read", "write", "seek", "tell", "eof"}

ReadonlyFunctions == MemoryFunctions \ {"write"}

FileFunctions == {"read", "write", "seek", "tell", "eof"}

(* The functions a stream has.  A pipe is a stream of a client that can    *)
(* only be read.                                                           *)
Functions == [memory |-> MemoryFunctions, readonly |-> ReadonlyFunctions,
              file |-> FileFunctions, pipe |-> {"read", "eof"}]

Can(s, function) == function \in Functions[s.kind]

InMemory(s) == s.kind \in {"memory", "readonly"}

Size(s) == Len(s.data)

(* A stream at its start: ended is the end-of-file indicator of a file,    *)
(* eof the flag of the stream.                                             *)
Opened(kind, size) ==
    [kind |-> kind, data |-> [i \in 1 .. size |-> i - 1], pos |-> 0,
     ended |-> FALSE, eof |-> FALSE]

Smaller(a, b) == IF a < b THEN a ELSE b

Remaining(s) == IF s.pos >= Size(s) THEN 0 ELSE Size(s) - s.pos

Bytes(s, n) == SubSeq(s.data, s.pos + 1, s.pos + n)

Outcome(s, n, ended) ==
    [bytes |-> Bytes(s, n), stream |-> [s EXCEPT !.pos = @ + n, !.ended = ended]]

MemoryRead(s, count) == Outcome(s, Smaller(count, Remaining(s)), FALSE)

(* A file may fail anywhere; a short read that does not fail has met the   *)
(* end.                                                                    *)
FileReads(s, count) ==
    LET most == Smaller(count, Remaining(s))
    IN  {Outcome(s, n, s.ended) : n \in 0 .. most}
            \cup {Outcome(s, most, s.ended \/ most < count)}

(* The outcomes of a read of up to count bytes.                            *)
Reads(s, count) == IF InMemory(s) THEN {MemoryRead(s, count)} ELSE FileReads(s, count)

(* Bytes are written over those behind the position, which stays.          *)
MemoryWrote(s, count) ==
    LET n == Smaller(count, Remaining(s))
    IN  [s EXCEPT !.data = [i \in 1 .. Size(s) |->
                            IF i \in s.pos + 1 .. s.pos + n THEN Written ELSE @[i]]]

(* A write to a file that is open for reading fails.                       *)
FileWrote(s) == s

Wrote(s, count) ==
    IF Can(s, "write") /\ InMemory(s) THEN MemoryWrote(s, count) ELSE FileWrote(s)

Origin(s, whence) ==
    CASE whence = "Set"     -> 0
      [] whence = "Current" -> s.pos
      [] whence = "End"     -> Size(s)

(* A block of memory has no places outside of it, and a step forward from  *)
(* the current position does not even reach its end.                       *)
InMemoryRange(s, offset, whence) ==
    LET to == Origin(s, whence) + offset
    IN  /\ to \in 0 .. Size(s)
        /\ whence = "Current" /\ offset > 0 => to < Size(s)

InFileRange(s, offset, whence) == Origin(s, whence) + offset >= 0

CanSeekTo(s, offset, whence) ==
    /\ Can(s, "seek")
    /\ IF InMemory(s) THEN InMemoryRange(s, offset, whence)
                      ELSE InFileRange(s, offset, whence)

(* A seek of a file clears its indicator, and no seek the flag.            *)
Sought(s, offset, whence) ==
    [s EXCEPT !.pos = Origin(s, whence) + offset, !.ended = FALSE]

MemoryTell(s) == s.pos

Tell(s) == IF Can(s, "tell") THEN MemoryTell(s) ELSE -1

MemoryEnded(s) == s.pos >= Size(s)

FileEnded(s) == s.ended

AtEnd(s) == s.eof \/ (IF InMemory(s) THEN MemoryEnded(s) ELSE FileEnded(s))

(* The stream after cos_stream_is_at_end. *)
Flagged(s) == [s EXCEPT !.eof = AtEnd(s)]
=============================================================================
