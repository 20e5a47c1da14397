---------------------------- MODULE CosByteCursor ----------------------------
(***************************************************************************)
(* What a stream reader promises: a cursor in the data of a stream, from   *)
(* which bytes are read one by one and put back.  A seek of the stream     *)
(* takes the cursor away until the reader is reset.                        *)
(***************************************************************************)
EXTENDS Integers, Sequences

CONSTANTS Datas,     \* what the data of a stream may be
          EndOfFile, \* the result of a read that fails or is behind the data
          NoCall,    \* there was no read since the last other call
          Away,      \* the cursor is nowhere
          Reach      \* how far behind the data a seek may go

VARIABLES data,      \* the bytes
          at,        \* the offset under the cursor
          read       \* the result of the last read

vars == <<data, at, read>>

Init == data \in Datas /\ at = 0 /\ read = NoCall

Here == IF at < Len(data) THEN data[at + 1] ELSE EndOfFile

Fails == read' = EndOfFile /\ UNCHANGED <<data, at>>

Getc == /\ at # Away
        /\ \/ read' = Here /\ at' = (IF at < Len(data) THEN at + 1 ELSE at)
                           /\ UNCHANGED data
           \/ Fails

Peek == /\ at # Away
        /\ \/ read' = Here /\ UNCHANGED <<data, at>>
           \/ Fails

Ungetc == /\ at # Away /\ at > 0
          /\ at' = at - 1 /\ read' = NoCall /\ UNCHANGED data

\* Without a cursor, any byte or none is read, wherever it comes from.
Astray == at = Away /\ at' = Away /\ UNCHANGED data

Seek == at' = Away /\ read' = NoCall /\ UNCHANGED data

\* The cursor is placed, and may move over bytes nobody read.
Reset == at' \in 0 .. Len(data) + Reach /\ read' = NoCall /\ UNCHANGED data

Write == data' \in Datas /\ read' = NoCall /\ UNCHANGED at

Other == read' = NoCall /\ UNCHANGED <<data, at>>

Next == Getc \/ Peek \/ Ungetc \/ Astray \/ Seek \/ Reset \/ Write \/ Other

Spec == Init /\ [][Next]_vars
=============================================================================
