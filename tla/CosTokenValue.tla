--------------------------- MODULE CosTokenValue ---------------------------
(***************************************************************************)
(* Who owns the strings and the data that the tokenizer allocates: the     *)
(* tokens of a parser's window, from which a name is moved into a node     *)
(* while the others are released when the window advances, is flushed or   *)
(* is destroyed with its parser, and the nodes, whose values the program   *)
(* may also make and replace. Every allocation may fail.                   *)
(***************************************************************************)
EXTENDS Integers, Sequences, SequencesExt, FiniteSets

CONSTANTS Memory,         \* the places a string or a data object may be allocated at
          Nodes,          \* the name and string nodes
          WindowSize,     \* COS_BASE_PARSER_TOKEN_BUFFER_SIZE
          Nothing

VARIABLES kind,     \* what is allocated at each place: a string, data, or nothing
          window,   \* the values of the tokens that are buffered
          node,     \* the place of the value of each node, or Nothing
          lost,     \* the names that were moved to a node that could not be allocated
          misuse    \* something was freed twice, or as what it is not

vars == <<kind, window, node, lost, misuse>>

NumberTypes == {"IntegerNumber", "LongIntegerNumber", "RealNumber"}
Kinds       == {"String", "Data"}
None        == [type |-> "None", at |-> Nothing]

Init == /\ kind = [m \in Memory |-> Nothing]
        /\ window = <<>>
        /\ node = [n \in Nodes |-> Nothing]
        /\ lost = {}
        /\ misuse = FALSE

Unused == {m \in Memory : kind[m] = Nothing}

\* Where memory is allocated, if there is any: which place of those that are
\* unused does not matter to who owns it.
Malloc == IF Unused = {} THEN {} ELSE {CHOOSE m \in Unused : TRUE}

(***************************************************************************)
(* The functions on a token's value. What a reset frees is returned apart. *)
(***************************************************************************)
\* Mutant: a value that was taken is still there.
TakenKept(value, type) == value

\* cos_token_value_take_string and _take_data, when the type is the value's.
Taken(value, type) == IF value.type = type THEN None ELSE value

\* cos_token_value_get_...: the value, if it is of the type.
Get(value, type) == IF value.type = type THEN value.at ELSE Nothing

\* cos_token_value_reset: what it frees.
ToFree(value) == IF value.type \in Kinds THEN {value} ELSE {}

ToFreeAll(values) == UNION {ToFree(v) : v \in values}

\* cos_token_value_set_...: the tokenizer sets the value of a token once, while
\* it is none, so that the reset before it frees nothing.
Set(type, at) == [type |-> type, at |-> at]

(***************************************************************************)
(* Freeing, in a heap that notices what must not be freed.                 *)
(***************************************************************************)
Free(values) ==
  /\ kind' = [m \in Memory |-> IF \E v \in values : v.at = m THEN Nothing ELSE kind[m]]
  /\ misuse' = (misuse \/ \E v \in values : kind[v.at] # v.type)

(***************************************************************************)
(* The tokenizer and the window.                                           *)
(***************************************************************************)
\* A token is read into the next place of the window: without a value, when it
\* is a delimiter, a word or nothing that could be read or allocated.
ReadNextToken ==
  /\ Len(window) < WindowSize
  /\ \/ \E type \in NumberTypes \union {"None"} :
          window' = Append(window, Set(type, Nothing)) /\ UNCHANGED kind
     \/ \E type \in Kinds, m \in Malloc :
          /\ kind' = [kind EXCEPT ![m] = type]
          /\ window' = Append(window, Set(type, m))
  /\ UNCHANGED <<node, lost, misuse>>

\* The stream has no position, so that no token is read.
ReadFails == Len(window) < WindowSize /\ UNCHANGED vars

Advance ==
  /\ window # <<>>
  /\ Free(ToFree(window[1]))
  /\ window' = Tail(window)
  /\ UNCHANGED <<node, lost>>

FlushTokens ==
  /\ window # <<>>
  /\ Free(ToFreeAll(Range(window)))
  /\ window' = <<>>
  /\ UNCHANGED <<node, lost>>

\* The parser is destroyed, and another one is made.
DestroyParser ==
  /\ window # <<>>
  /\ Free(ToFreeAll(Range(window)))
  /\ window' = <<>>
  /\ UNCHANGED <<node, lost>>

\* cos_parse_name_: the string is moved out of the token, the token is released
\* by advancing, and the node is allocated last.
ParseName ==
  /\ window # <<>> /\ Get(window[1], "String") # Nothing
  /\ Free(ToFree(Taken(window[1], "String")))
  /\ window' = Tail(window)
  /\ \/ \E n \in Nodes : /\ node[n] = Nothing
                         /\ node' = [node EXCEPT ![n] = Get(window[1], "String")]
                         /\ UNCHANGED lost
     \/ lost' = lost \union {Get(window[1], "String")} /\ UNCHANGED node

(***************************************************************************)
(* The nodes.                                                              *)
(***************************************************************************)
Valued(n) == Set(kind[node[n]], node[n])

FreeNode(n) ==
  /\ node[n] # Nothing
  /\ Free({Valued(n)})
  /\ node' = [node EXCEPT ![n] = Nothing]
  /\ UNCHANGED <<window, lost>>

\* cos_name_obj_node_set_value and cos_string_obj_node_set_value, with a value
\* that the caller allocated, or the node's own.
SetValue(n) ==
  /\ node[n] # Nothing
  /\ \E m \in Malloc \union {node[n]} :
       IF m = node[n] THEN UNCHANGED <<kind, misuse, node>>
       ELSE /\ kind' = [kind EXCEPT ![node[n]] = Nothing, ![m] = kind[node[n]]]
            /\ node' = [node EXCEPT ![n] = m]
            /\ UNCHANGED misuse
  /\ UNCHANGED <<window, lost>>

\* A node that the program makes of a string or of data.
NewNode(n) ==
  /\ node[n] = Nothing
  /\ \E type \in Kinds, m \in Malloc :
       /\ kind' = [kind EXCEPT ![m] = type]
       /\ node' = [node EXCEPT ![n] = m]
  /\ UNCHANGED <<window, lost, misuse>>

Next == \/ ReadNextToken \/ ReadFails \/ Advance \/ FlushTokens \/ DestroyParser
        \/ ParseName
        \/ \E n \in Nodes : FreeNode(n) \/ SetValue(n) \/ NewNode(n)

Spec == Init /\ [][Next]_vars

(***************************************************************************)
(* Properties.                                                             *)
(***************************************************************************)
Owners(m) == {<<"token", i>> : i \in {i \in DOMAIN window : window[i].at = m}}
               \union {<<"node", n>> : n \in {n \in Nodes : node[n] = m}}

\* What is allocated, unless it is a name that was lost for want of a node, has a
\* single owner, which knows what it is, and what is
\* owned is allocated: nothing is freed twice, used after it was freed or lost,
\* whichever tokens are taken, advanced over, flushed or destroyed.
OneOwner ==
  /\ ~misuse
  /\ \A m \in Memory : Cardinality(Owners(m)) = IF kind[m] = Nothing \/ m \in lost THEN 0 ELSE 1
  /\ \A i \in DOMAIN window : window[i].type \in Kinds => kind[window[i].at] = window[i].type

\* The values of tokens are of their types, and the window is not overfull.
TypeOK ==
  /\ Len(window) <= WindowSize
  /\ \A v \in Range(window) : v.at \in (IF v.type \in Kinds THEN Memory ELSE {Nothing})

\* "The returned string must be freed with @c cos_string_free()." (CosString.h:24):
\* what is allocated can be reached by somebody who can free it.
NothingLost == \A m \in Memory : kind[m] # Nothing => Owners(m) # {}
=============================================================================
