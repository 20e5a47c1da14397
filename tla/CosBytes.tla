------------------------------ MODULE CosBytes ------------------------------
(***************************************************************************)
(* What holds bytes: strings, data objects, and the reader of a stream, of *)
(* which each behaviour uses one: they share no state.                     *)
(***************************************************************************)
EXTENDS CosStreamReader

CONSTANTS Names,                                    \* of strings and of data objects
          CStrings, StringHints, DefaultCapacity,   \* of strings, see CosString
          StringMax, HashSeed, HashFactor, HashSpace, ExclusiveOr(_, _), NoString,
          Pieces, DataMax, Buffers, Junk, NoData, NoRef   \* of data, see CosData

VARIABLES used, string, result, data, ref, taken

stringVars == <<string, result>>
dataVars   == <<data, ref, taken>>

String == INSTANCE CosString WITH
  Sources <- CStrings, Hints <- StringHints, CapacityMax <- StringMax

Data == INSTANCE CosData WITH CapacityMax <- DataMax

\* Characters are not nul, bytes are not junk, and NULL is none of the objects.
ASSUME StringAssumption ==
  /\ CStrings \subseteq Seq(Nat \ {0})
  /\ StringHints \subseteq Nat /\ DefaultCapacity \in Nat \ {0} /\ StringMax \in Nat
  /\ NoString \notin Seq(Nat) \cup [data : Seq(Nat), length : Nat, capacity : Nat]

ASSUME DataAssumption ==
  /\ Pieces \subseteq Seq(Int) /\ Junk \notin Int /\ DataMax \in Nat
  /\ NoData \notin Names \cup Seq(Int)
  /\ NoData \notin [buffer : Buffers, capacity : Nat, size : Nat, bytes : Seq(Int \cup {Junk})]
  /\ NoRef \notin [buffer : Buffers, offset : Nat, size : Nat]

-----------------------------------------------------------------------------
BytesInit ==
    /\ used \in {"string", "data", "reader"}
    /\ String!Init /\ Data!Init /\ Init
    /\ used # "reader" => stream = Opened("memory", 0)

UseString == used = "string" /\ String!Next /\ UNCHANGED <<used, dataVars, vars>>
UseData   == used = "data" /\ Data!Next /\ UNCHANGED <<used, stringVars, vars>>
UseReader == used = "reader" /\ Next /\ UNCHANGED <<used, stringVars, dataVars>>

BytesNext == UseString \/ UseData \/ UseReader

BytesSpec == BytesInit /\ [][BytesNext]_<<used, stringVars, dataVars, vars>>

-----------------------------------------------------------------------------
(* Strings and data objects hold what was appended to them, in which       *)
(* pieces and from whom, whenever they grow and whichever growth fails.    *)
HoldWhatWasAppended == String!HoldsWhatWasAppended /\ Data!HoldsWhatWasAppended

(* A string has room for its terminator, which is there; comparing strings *)
(* is an order, in which those that are equal hash alike.                  *)
StringsSound ==
    /\ String!TypeOK /\ String!TerminatedInCapacity
    /\ String!CmpIsOrder /\ String!EqualHashAlike

(* What was read once stays valid: a reference into a data object reads    *)
(* what it read until that object is modified or freed; the reader has     *)
(* bytes of its stream in their places, can put the last one back, and     *)
(* tells the end of a stream in memory from a failure.                     *)
ReadsStayValid ==
    /\ Data!TypeOK /\ Data!RefsStayValid
    /\ TypeOK /\ BytesInPlace /\ LastReadCanBeUnread /\ EofOfMemoryIsItsEnd
=============================================================================
