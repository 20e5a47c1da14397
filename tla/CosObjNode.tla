----------------------------- MODULE CosObjNode -----------------------------
(***************************************************************************)
(* src/objects: the reference-counted object nodes.  A client builds       *)
(* nodes, hands them to containers, which take over its reference without  *)
(* retaining, retains what it reaches and releases what it holds.          *)
(*                                                                         *)
(* A release that finds the last reference deallocates the node, which     *)
(* releases its parts, and so on: `stack` is the C call stack of that      *)
(* recursion, and no call of the client starts until it is empty.          *)
(* The key of a dictionary entry lives and dies with the entry and is left *)
(* out; the null object is a singleton that is never counted.              *)
(***************************************************************************)
EXTENDS Integers, Sequences, FiniteSets, Functions

CONSTANTS
    NodeIds,            \* addresses; bounds the nodes that exist at a time
    Null,               \* the null object singleton
    Freed,              \* what an address without a node holds
    MaxParts,           \* bound: parts of a container
    MaxHeld,            \* bound: references the client has at a time
    ClientKeepsDict     \* TRUE: the client may hold a stream's dictionary

ASSUME NodeIdsAssumption == Null \notin NodeIds /\ IsFiniteSet(NodeIds)
ASSUME ClientKeepsDictAssumption == ClientKeepsDict \in BOOLEAN

Kinds == {"Leaf", "Array", "Dict", "Stream", "Indirect", "Reference"}
NodeRecords == [kind : Kinds, refs : Nat \ {0}, parts : Seq(NodeIds \cup {Null})]

ASSUME FreedAssumption == Freed \notin NodeRecords

VARIABLES
    node,       \* per address: Freed, or [kind, refs, parts]
    held,       \* per address: the references the client owns
    stack,      \* pending calls of the release in progress, innermost first
    touched     \* TRUE: a call has used an address whose node is freed

vars == <<node, held, stack, touched>>

Live == {n \in NodeIds : node[n] /= Freed}
PartsOf(n) == {node[n].parts[i] : i \in DOMAIN node[n].parts}

Init ==
    /\ node = [n \in NodeIds |-> Freed]
    /\ held = [n \in NodeIds |-> 0]
    /\ stack = <<>>
    /\ touched = FALSE

Idle == stack = <<>>

HeldInAll == FoldFunction(+, 0, held)

\* The sets of addresses that no part of a node in them leads out of.
Closed == {S \in SUBSET NodeIds : \A m \in S \cap Live : PartsOf(m) \subseteq S \cup {Null}}

\* The nodes the client can name: those it holds and all they lead to.
Reachable ==
    {n \in NodeIds : \A S \in Closed : (\A m \in NodeIds : held[m] > 0 => m \in S) => n \in S}

StreamOwned(n) == \E s \in Live : node[s].kind = "Stream" /\ n \in PartsOf(s)

-----------------------------------------------------------------------------
(* Allocation: malloc gives some free address. *)

Fresh == CHOOSE n \in NodeIds : n \notin Live

Allocate(kind, parts, given) ==
    /\ Idle /\ Live /= NodeIds
    /\ HeldInAll - Cardinality(given) < MaxHeld
    /\ node' = [node EXCEPT ![Fresh] = [kind |-> kind, refs |-> 1, parts |-> parts]]
    /\ held' = [n \in NodeIds |->
                    IF n = Fresh THEN 1
                    ELSE IF n \in given THEN held[n] - 1 ELSE held[n]]
    /\ UNCHANGED <<stack, touched>>

\* cos_int_obj_node_alloc and the like; empty arrays and dictionaries;
\* references not resolved yet.
Create(kind) ==
    /\ kind \in {"Leaf", "Array", "Dict", "Reference"}
    /\ Allocate(kind, <<>>, {})

\* cos_indirect_obj_node_alloc keeps the caller's reference to the value.
CreateIndirect(value) ==
    /\ value \in Live /\ held[value] > 0
    /\ node[value].kind \notin {"Indirect", "Reference"}
    /\ Allocate("Indirect", <<value>>, {value})

\* cos_stream_obj_node_create keeps the caller's reference to the dictionary.
CreateStream(dict) ==
    /\ dict \in Live /\ held[dict] > 0 /\ node[dict].kind = "Dict"
    /\ node[dict].refs = 1 \/ ClientKeepsDict
    /\ Allocate("Stream", <<dict>>, {dict})

\* An ownership cycle would be a misuse: only references close cycles.
LeadsTo(n, c) == \A S \in Closed : n \in S => c \in S

\* cos_array_obj_node_append, cos_dict_obj_node_set with a new key: no retain.
Add(c, part) ==
    /\ Idle
    /\ c \in Live /\ held[c] > 0 /\ node[c].kind \in {"Array", "Dict"}
    /\ Len(node[c].parts) < MaxParts
    /\ \/ part = Null /\ UNCHANGED held
       \/ /\ part \in Live /\ held[part] > 0 /\ ~LeadsTo(part, c)
          /\ held' = [held EXCEPT ![part] = @ - 1]
    /\ node' = [node EXCEPT ![c].parts = Append(@, part)]
    /\ UNCHANGED <<stack, touched>>

\* Mutant: the item is not released.
RemoveAtForgets(c, i) ==
    /\ Idle
    /\ c \in Live /\ held[c] > 0 /\ node[c].kind = "Array"
    /\ i \in DOMAIN node[c].parts
    /\ node' = [node EXCEPT ![c].parts =
                    SubSeq(@, 1, i - 1) \o SubSeq(@, i + 1, Len(@))]
    /\ UNCHANGED <<held, stack, touched>>

\* cos_array_obj_node_remove_at releases the item and closes the gap.
RemoveAt(c, i) ==
    /\ Idle
    /\ c \in Live /\ held[c] > 0 /\ node[c].kind = "Array"
    /\ i \in DOMAIN node[c].parts
    /\ stack' = <<[call |-> "release", n |-> node[c].parts[i]]>>
    /\ node' = [node EXCEPT ![c].parts =
                    SubSeq(@, 1, i - 1) \o SubSeq(@, i + 1, Len(@))]
    /\ UNCHANGED <<held, touched>>

\* Mutant: the document does not retain the object it returns.
ResolveBorrowed(r, value) ==
    /\ Idle
    /\ r \in Reachable \cap Live /\ node[r].kind = "Reference" /\ node[r].parts = <<>>
    /\ value = Null \/ (value \in Live /\ node[value].kind = "Indirect")
    /\ node' = [node EXCEPT ![r].parts = <<value>>]
    /\ UNCHANGED <<held, stack, touched>>

\* The value a reference keeps once it is resolved: an indirect object the
\* document retained for it, or the null object.
Resolve(r, value) ==
    /\ Idle
    /\ r \in Reachable \cap Live /\ node[r].kind = "Reference" /\ node[r].parts = <<>>
    /\ \/ value = Null /\ node' = [node EXCEPT ![r].parts = <<Null>>]
       \/ /\ value \in Live /\ node[value].kind = "Indirect"
          /\ node' = [node EXCEPT ![r].parts = <<value>>, ![value].refs = @ + 1]
    /\ UNCHANGED <<held, stack, touched>>

-----------------------------------------------------------------------------
(* cos_obj_node_retain, cos_obj_node_release, cos_obj_dealloc_ *)

Retain(n) ==
    /\ Idle
    /\ n \in Reachable /\ HeldInAll < MaxHeld
    /\ StreamOwned(n) => ClientKeepsDict
    /\ IF n \in Live
         THEN node' = [node EXCEPT ![n].refs = @ + 1] /\ UNCHANGED touched
         ELSE touched' = TRUE /\ UNCHANGED node
    /\ held' = [held EXCEPT ![n] = @ + 1]
    /\ UNCHANGED stack

Release(n) ==
    /\ Idle /\ held[n] > 0
    /\ held' = [held EXCEPT ![n] = @ - 1]
    /\ stack' = <<[call |-> "release", n |-> n]>>
    /\ UNCHANGED <<node, touched>>

\* Mutants: the parts are forgotten; the node is released instead of freed.
DeallocCallsShallow(n) == <<[call |-> "free", n |-> n]>>
DeallocCallsNoFree(n) == <<[call |-> "release", n |-> n]>>

\* The calls cos_obj_dealloc_ makes: a stream destroys its dictionary, any
\* other node releases its parts; free comes last.
DeallocCalls(n) ==
    LET callOn == IF node[n].kind = "Stream" THEN "destroy" ELSE "release"
    IN  [i \in DOMAIN node[n].parts |-> [call |-> callOn, n |-> node[n].parts[i]]]
        \o <<[call |-> "free", n |-> n]>>

ReleaseStep ==
    /\ stack /= <<>>
    /\ LET top == Head(stack)
           n == top.n
       IN  \/ /\ n = Null
              /\ stack' = Tail(stack)
              /\ UNCHANGED <<node, touched>>
           \/ /\ n /= Null /\ n \notin Live
              /\ touched' = TRUE
              /\ stack' = Tail(stack)
              /\ UNCHANGED node
           \/ /\ n \in Live /\ top.call = "release" /\ node[n].refs > 1
              /\ node' = [node EXCEPT ![n].refs = @ - 1]
              /\ stack' = Tail(stack)
              /\ UNCHANGED touched
           \/ /\ n \in Live
              /\ top.call = "destroy" \/ (top.call = "release" /\ node[n].refs <= 1)
              /\ stack' = DeallocCalls(n) \o Tail(stack)
              /\ UNCHANGED <<node, touched>>
           \/ /\ n \in Live /\ top.call = "free"
              /\ node' = [node EXCEPT ![n] = Freed]
              /\ stack' = Tail(stack)
              /\ UNCHANGED touched
    /\ UNCHANGED held

Next ==
    \/ \E kind \in Kinds : Create(kind)
    \/ \E n \in NodeIds : CreateIndirect(n) \/ CreateStream(n) \/ Retain(n) \/ Release(n)
    \/ \E c \in NodeIds, part \in NodeIds \cup {Null} : Add(c, part)
    \/ \E c \in NodeIds, i \in 1..MaxParts : RemoveAt(c, i)
    \/ \E r \in NodeIds, value \in NodeIds \cup {Null} : Resolve(r, value)
    \/ ReleaseStep

\* A C call runs until it returns.
Spec == Init /\ [][Next]_vars /\ WF_vars(ReleaseStep)

-----------------------------------------------------------------------------
(* cos_obj_node_get_value_type and what cos_obj_node_is_integer etc. ask:  *)
(* an indirect object answers with its value's type, a reference with the  *)
(* type of the node it resolved to (CosReferenceObjNode.c:80-97).          *)

ValueType(n) ==
    IF node[n].kind \in {"Indirect", "Reference"}
      THEN LET value == node[n].parts[1]
           IN  IF value = Null THEN "Null" ELSE node[value].kind
      ELSE node[n].kind

-----------------------------------------------------------------------------
(* What is checked *)

TypeOK ==
    /\ \A n \in Live :
        /\ node[n].kind \in Kinds
        /\ node[n].refs \in Nat \ {0}
        /\ PartsOf(n) \subseteq NodeIds \cup {Null}
    /\ held \in [NodeIds -> 0..MaxHeld]
    /\ \A i \in DOMAIN stack : stack[i].call \in {"release", "destroy", "free"}
    /\ touched \in BOOLEAN

\* Nodes whose deallocation has begun: their parts are calls on the stack.
Dying == {n \in NodeIds : \E i \in DOMAIN stack : stack[i].call = "free" /\ stack[i].n = n}

\* The references to n that somebody still has to give back.
OwedTo(n) ==
    held[n]
    + Cardinality(UNION {{m} \X {i \in DOMAIN node[m].parts : node[m].parts[i] = n} :
                             m \in Live \ Dying})
    + Cardinality({i \in DOMAIN stack : stack[i].call /= "free" /\ stack[i].n = n})

\* Every count is exact at every step of every release cascade: no reference
\* is dropped twice or forgotten, whoever owns it (CosObjNode.c:31-119).
RefsExact == \A n \in Live \ Dying : node[n].refs = OwedTo(n)

\* A node somebody owns is never freed under him, also not half-way through
\* the deallocation of a graph that shares it.
NoUseAfterFree ==
    /\ ~touched
    /\ \A n \in NodeIds : held[n] > 0 => n \in Live
    /\ \A n \in Live \ Dying : PartsOf(n) \subseteq Live \cup {Null}

\* CosObjNode.h:48: a retained node is deallocated when its count reaches
\* zero, so never while the client holds a reference.
HeldNotDeallocated == \A n \in NodeIds : held[n] > 0 => n \in Live

\* Once the client has released all it held, only nodes that resolved
\* references keep in a cycle are left: each has an owner among the others.
OnlyCyclesLeak ==
    Idle /\ (\A n \in NodeIds : held[n] = 0)
        => \A n \in Live : \E m \in Live : n \in PartsOf(m)

\* CosObjNode.h:96-97: for an indirect object, which a reference is to
\* cos_obj_node_is_indirect, the value type is that of the resolved object.
ValueTypeIsResolved ==
    \A n \in Live :
        node[n].kind = "Reference" /\ node[n].parts /= <<>>
            => ValueType(n) /= "Indirect"

\* Every release returns, whatever graph it takes down.
ReleaseReturns == stack /= <<>> ~> Idle

=============================================================================
