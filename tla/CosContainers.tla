---------------------------- MODULE CosContainers ----------------------------
(***************************************************************************)
(* An array, a dictionary and a ring buffer, of which each behaviour uses  *)
(* one: they share no state.                                               *)
(***************************************************************************)
EXTENDS CosArray

CONSTANTS Keys,         \* of the dictionary, see CosDict
          NameOf,
          NameHash,
          Values,
          TableHints,
          EntriesMax,
          ReplacedMax,
          Absent,
          Zero,         \* of the ring buffer, see CosRingBuffer
          NoItem,
          CapacityHints,
          MaxCount

VARIABLES used, dict, dictRefs, replaced, iterator, room, size, head, tail, slots, popped, hung

dictVars == <<dict, dictRefs, replaced, iterator>>

ringVars == <<room, size, head, tail, slots, popped, hung>>

Dict == INSTANCE CosDict WITH
  refs <- dictRefs, Hints <- TableHints, CapacityMax <- EntriesMax

Ring == INSTANCE CosRingBuffer WITH
  capacity <- room, count <- size, data <- slots, out <- popped

\* The keys are numbers, those of name objects have names, and names have hashes;
\* no value is a key.
ASSUME KeysAssumption ==
  /\ Keys \subseteq Nat
  /\ \A k \in Keys : NameHash[NameOf[k]] \in Nat
  /\ Values \cap (Keys \cup {0, Absent}) = {}

ASSUME TableAssumption ==
  /\ TableHints \subseteq Nat
  /\ {EntriesMax, ReplacedMax} \subseteq Nat

\* Absent is neither a dictionary nor a map.
ASSUME AbsentAssumption ==
  /\ \A c \in 0 .. EntriesMax : Absent \notin Dict!Tables(c)
  /\ Absent \notin [Dict!Names -> Values \cup {Absent}]

ASSUME RingAssumption ==
  /\ CapacityHints \subseteq Nat
  /\ MaxCount \in Nat
  /\ NoItem \notin Items

-----------------------------------------------------------------------------
\* A ring buffer that is not used has one of the capacities.
ContainersInit ==
  /\ used \in {"array", "dict", "ring"}
  /\ Init /\ Dict!Init /\ Ring!Init
  /\ used # "ring" => room = CHOOSE hint \in CapacityHints : TRUE

UseArray == used = "array" /\ Next /\ UNCHANGED <<used, dictVars, ringVars>>
UseDict  == used = "dict" /\ Dict!Next /\ UNCHANGED <<used, vars, ringVars>>
UseRing  == used = "ring" /\ Ring!Next /\ UNCHANGED <<used, vars, dictVars>>

ContainersNext == UseArray \/ UseDict \/ UseRing

ContainersVars == <<used, vars, dictVars, ringVars>>

ContainersSpec == ContainersInit /\ [][ContainersNext]_ContainersVars

(* Arrays and dictionaries have, of each item, key and value, as many      *)
(* references as it is in them, whatever moves, grows or is replaced.      *)
CountsExact == TypeOK /\ RefsExact /\ Dict!RefsExact

(* The entries are those that are counted, a search always ends, since one *)
(* of them stays empty, and an iterator returns every key once.            *)
DictSound == Dict!TypeOK /\ Dict!SearchesEnd /\ Dict!IteratesOverAll

(* What is found by probing is a map, across collisions and growth.        *)
IsMap == Dict!IsMap

(* The slot after the last item, which a ring buffer keeps, is where its   *)
(* head and its count say it is: its resize trusts the one and its pushes  *)
(* the other.                                                              *)
TailAgrees == Ring!TypeOK /\ Ring!TailAgrees

(* A ring buffer is a double-ended queue, across its laps and its growth.  *)
IsDeque == Ring!DequeSpec
=============================================================================
