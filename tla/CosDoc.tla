------------------------------- MODULE CosDoc -------------------------------
(***************************************************************************)
(* src/CosDoc.c with the object cache, the lookup of the xref table,       *)
(* cos_parser_load_object and the reference nodes: a client of a parsed    *)
(* document asks for objects, resolves references, retains, releases and   *)
(* finally destroys the document.                                          *)
(*                                                                         *)
(* What follows a use of freed memory is not modelled: a call that would   *)
(* use a freed node has no step.  NoDanglingPointer says there is none,    *)
(* and CallsReturn that no call is stuck there.                            *)
(*                                                                         *)
(* A node here is an indirect object with its direct value, or a bare      *)
(* dictionary; slots are the reference nodes inside it, in order.  What a  *)
(* client may do to the nodes inside is CosObjNode's subject.  `stack` is  *)
(* the C call stack: loading a stream whose Length is a reference calls    *)
(* cos_doc_get_object again, and a release may release further nodes.      *)
(***************************************************************************)
EXTENDS Integers, Sequences, FiniteSets, Functions

CONSTANTS
    Nums,           \* object numbers
    Gens,           \* generation numbers
    Offsets,        \* byte offsets an xref entry can name
    Files,          \* the files: what the xref table and the offsets hold
    NodeIds,        \* addresses; bounds the nodes that exist at a time
    Null,           \* the null object singleton
    None,           \* a NULL pointer
    Freed,          \* what an address without a node holds
    MaxHeld,        \* bound: references the client has at a time
    MaxLoads,       \* bound: loads of one object number
    CacheMayFail    \* TRUE: malloc may fail in the object cache

ASSUME NumsAssumption == Nums \subseteq Nat /\ IsFiniteSet(Nums)
ASSUME NodeIdsAssumption ==
    IsFiniteSet(NodeIds) /\ Null \notin NodeIds /\ None \notin NodeIds /\ Null /= None
ASSUME CacheMayFailAssumption == CacheMayFail \in BOOLEAN

Ids == Nums \X Gens

\* The reference nodes in a node, and a node.
Slots == [id : Ids, value : NodeIds \cup {Null, None}]
NodeRecords == [refs : Nat, slots : Seq(Slots)]

ASSUME FreedAssumption == Freed \notin NodeRecords

Entries ==
    [type : {"absent", "free", "compressed"}]
    \cup [type : {"inUse"}, gen : Gens, at : Offsets]

\* What parsing at an offset finds: nothing, an object, or a stream object
\* whose Length is direct (None) or a reference.
Objects ==
    [kind : {"none"}]
    \cup [kind : {"plain"}, refs : Seq(Ids)]
    \cup [kind : {"stream"}, length : Ids \cup {None}]

ASSUME FilesAssumption ==
    \A f \in Files :
        /\ f.xref \in [Nums -> Entries]
        /\ DOMAIN f.object = Offsets /\ \A o \in Offsets : f.object[o] \in Objects
        /\ f.root \in Ids

VARIABLES
    file,       \* the file behind the document's stream; never changes
    phase,      \* "created", "parsed" or "destroyed"
    trailer,    \* the trailer dictionary's node
    node,       \* per address: Freed, or [refs, slots]
    cache,      \* doc->obj_cache: object number to node
    held,       \* per address: the references the client owns
    stack,      \* the calls in progress, innermost first
    loads,      \* per object number: how often it was parsed (history)
    lost        \* nodes a failed load left behind (history)

vars == <<file, phase, trailer, node, cache, held, stack, loads, lost>>

Live == {n \in NodeIds : node[n] /= Freed}
Idle == stack = <<>>
HeldInAll == FoldFunction(+, 0, held)
Fresh == CHOOSE n \in NodeIds : n \notin Live

\* A node as it is parsed: no reference in it is resolved.
Node(refs, ids) ==
    [refs |-> refs, slots |-> [i \in DOMAIN ids |-> [id |-> ids[i], value |-> None]]]

ValuesOf(n) == {node[n].slots[i].value : i \in DOMAIN node[n].slots} \ {None, Null}

Init ==
    /\ file \in Files
    /\ phase = "created"
    /\ trailer = None
    /\ node = [n \in NodeIds |-> Freed]
    /\ cache = [k \in Nums |-> None]
    /\ held = [n \in NodeIds |-> 0]
    /\ stack = <<>>
    /\ loads = [k \in Nums |-> 0]
    /\ lost = {}

\* Bounds the addresses so that a call in progress never lacks one.
Room == Cardinality(NodeIds \ Live) > Cardinality(Nums)

\* cos_parser_parse succeeded: it set the xref table and the trailer, whose
\* Root is a reference (CosParser says how).
Parsed ==
    /\ phase = "created" /\ Idle /\ Room
    /\ phase' = "parsed"
    /\ trailer' = Fresh
    /\ node' = [node EXCEPT ![Fresh] = Node(1, <<file.root>>)]
    /\ UNCHANGED <<file, cache, held, stack, loads, lost>>

-----------------------------------------------------------------------------
(* What the client calls *)

\* The nodes it can name: those it holds, the trailer (through the root) and
\* what resolved references lead to.
Reachable ==
    LET grow[k \in 0..Cardinality(NodeIds)] ==
            IF k = 0 THEN {n \in NodeIds : held[n] > 0 \/ n = trailer}
            ELSE grow[k - 1] \cup UNION {ValuesOf(n) : n \in grow[k - 1] \cap Live}
    IN  grow[Cardinality(NodeIds)]

GetObject(id) ==
    /\ Idle /\ phase /= "destroyed" /\ Room /\ HeldInAll < MaxHeld
    /\ loads[id[1]] < MaxLoads
    /\ stack' = <<[call |-> "get", id |-> id, slot |-> None]>>
    /\ UNCHANGED <<file, phase, trailer, node, cache, held, loads, lost>>

\* Mutant: a reference asks the document on every use.
ResolveAlways(n, i) ==
    /\ Idle /\ phase = "parsed" /\ Room
    /\ n \in Reachable \cap Live /\ i \in DOMAIN node[n].slots
    /\ loads[node[n].slots[i].id[1]] < MaxLoads
    /\ stack' = <<[call |-> "get", id |-> node[n].slots[i].id, slot |-> <<n, i>>]>>
    /\ UNCHANGED <<file, phase, trailer, node, cache, held, loads, lost>>

\* cos_reference_obj_node_get_value, get_type: resolved on first use.
Resolve(n, i) ==
    /\ Idle /\ phase = "parsed" /\ Room
    /\ n \in Reachable \cap Live /\ i \in DOMAIN node[n].slots
    /\ node[n].slots[i].value = None
    /\ loads[node[n].slots[i].id[1]] < MaxLoads
    /\ stack' = <<[call |-> "get", id |-> node[n].slots[i].id, slot |-> <<n, i>>]>>
    /\ UNCHANGED <<file, phase, trailer, node, cache, held, loads, lost>>

Retain(n) ==
    /\ Idle /\ HeldInAll < MaxHeld
    /\ n \in Reachable \cap Live /\ n /= trailer
    /\ node' = [node EXCEPT ![n].refs = @ + 1]
    /\ held' = [held EXCEPT ![n] = @ + 1]
    /\ UNCHANGED <<file, phase, trailer, cache, stack, loads, lost>>

Release(n) ==
    /\ Idle /\ held[n] > 0
    /\ held' = [held EXCEPT ![n] = @ - 1]
    /\ stack' = <<[call |-> "release", n |-> n]>>
    /\ UNCHANGED <<file, phase, trailer, node, cache, loads, lost>>

\* cos_doc_destroy: the trailer dictionary is destroyed whatever its count,
\* then the cache releases its objects.
DestroyDoc ==
    /\ Idle /\ phase /= "destroyed"
    /\ phase' = "destroyed"
    /\ stack' = <<[call |-> "destroy", n |-> trailer], [call |-> "cache"]>>
    /\ trailer' = None
    /\ UNCHANGED <<file, node, cache, held, loads, lost>>

-----------------------------------------------------------------------------
(* cos_doc_get_object, one call *)

\* The xref entry of id, if it lets the object be read.
InUse(id) ==
    /\ phase = "parsed"
    /\ file.xref[id[1]].type = "inUse"
    /\ file.xref[id[1]].gen = id[2]

\* What the parser finds for id.
Object(id) == file.object[file.xref[id[1]].at]

\* The call on top returns value: to the client, who then owns a reference,
\* or to a reference node, which keeps it, or the null object for NULL.
Return(value, nodes, calls) ==
    LET to == Head(stack).slot
    IN  /\ stack' = calls
        /\ IF to = None
             THEN /\ node' = nodes
                  /\ held' = IF value = None THEN held
                             ELSE [held EXCEPT ![value] = @ + 1]
             ELSE /\ node' = [nodes EXCEPT ![to[1]].slots[to[2]].value =
                                  IF value = None THEN Null ELSE value]
                  /\ UNCHANGED held

GetRefused ==
    /\ LET id == Head(stack).id
       IN  InUse(id) => cache[id[1]] = None /\ Object(id).kind = "none"
    /\ Return(None, node, Tail(stack))
    /\ UNCHANGED <<cache, loads, lost>>

\* Mutant: a cached object is returned without a retain.
GetCachedBorrowed ==
    LET id == Head(stack).id
        n == cache[id[1]]
    IN  /\ InUse(id) /\ n \in Live
        /\ Return(n, node, Tail(stack))
        /\ UNCHANGED <<cache, loads, lost>>

GetCached ==
    LET id == Head(stack).id
        n == cache[id[1]]
    IN  /\ InUse(id) /\ n \in Live
        /\ Return(n, [node EXCEPT ![n].refs = @ + 1], Tail(stack))
        /\ UNCHANGED <<cache, loads, lost>>

\* Mutant: a loaded object is never inserted.
InsertionsForgotten(k) == {FALSE}

\* Whether the cache may take object k in, and may not: object number 0 never,
\* its key being a NULL pointer (CosObjCache.c:123, CosDict.c:161-166).
Insertions(k) ==
    {cached \in BOOLEAN : (cached => k /= 0) /\ (~cached => k = 0 \/ CacheMayFail)}

\* Mutants: no retain for the caller; a retain without an insertion.
LoadedRefsOwned(cached) == 1
LoadedRefsShared(cached) == 2

\* The cache takes the parser's reference, the caller gets one of his own.
LoadedRefs(cached) == IF cached THEN 2 ELSE 1

GetLoaded ==
    LET id == Head(stack).id
        object == Object(id)
    IN  /\ InUse(id) /\ cache[id[1]] = None /\ Live /= NodeIds
        /\ object.kind = "plain"
        /\ \E cached \in Insertions(id[1]) :
               /\ cache' = IF cached THEN [cache EXCEPT ![id[1]] = Fresh] ELSE cache
               /\ Return(Fresh,
                         [node EXCEPT ![Fresh] =
                             Node(LoadedRefs(cached), object.refs)],
                         Tail(stack))
        /\ loads' = [loads EXCEPT ![id[1]] = @ + 1]
        /\ UNCHANGED lost

\* A stream: its dictionary is parsed, a Length that is a reference is
\* resolved, and the seek past the data fails because the parser of a
\* document has no input stream of its own.  Nobody releases the dictionary.
GetStream ==
    LET id == Head(stack).id
        object == Object(id)
    IN  /\ InUse(id) /\ cache[id[1]] = None /\ Live /= NodeIds
        /\ object.kind = "stream"
        /\ loads' = [loads EXCEPT ![id[1]] = @ + 1]
        /\ lost' = lost \cup {Fresh}
        /\ IF object.length = None
             THEN Return(None, [node EXCEPT ![Fresh] = Node(1, <<>>)], Tail(stack))
             ELSE /\ node' = [node EXCEPT ![Fresh] = Node(1, <<object.length>>)]
                  /\ stack' = <<[call |-> "get", id |-> object.length, slot |-> <<Fresh, 1>>],
                                [call |-> "seek", slot |-> Head(stack).slot]>>
                              \o Tail(stack)
                  /\ UNCHANGED held
        /\ UNCHANGED cache

\* cos_handle_stream_ after the Length is known.
SeekFails ==
    /\ Return(None, node, Tail(stack))
    /\ UNCHANGED <<cache, loads, lost>>

-----------------------------------------------------------------------------
(* cos_obj_node_release, and cos_dict_obj_node_destroy for the trailer *)

\* Mutants: the parts are forgotten; the node is released instead of freed.
DeallocCallsShallow(n) == <<[call |-> "free", n |-> n]>>
DeallocCallsNoFree(n) == <<[call |-> "release", n |-> n]>>

DeallocCalls(n) ==
    [i \in DOMAIN node[n].slots |-> [call |-> "release", n |-> node[n].slots[i].value]]
    \o <<[call |-> "free", n |-> n]>>

ReleaseStep ==
    LET top == Head(stack)
        n == top.n
    IN  /\ \/ /\ n \notin NodeIds      \* a NULL pointer or the null object
              /\ stack' = Tail(stack)
              /\ UNCHANGED node
           \/ /\ n \in Live /\ top.call = "release" /\ node[n].refs > 1
              /\ node' = [node EXCEPT ![n].refs = @ - 1]
              /\ stack' = Tail(stack)
           \/ /\ n \in Live
              /\ top.call = "destroy" \/ (top.call = "release" /\ node[n].refs <= 1)
              /\ stack' = DeallocCalls(n) \o Tail(stack)
              /\ UNCHANGED node
           \/ /\ n \in Live /\ top.call = "free"
              /\ node' = [node EXCEPT ![n] = Freed]
              /\ stack' = Tail(stack)
        /\ UNCHANGED <<cache, held, loads, lost>>

\* cos_obj_cache_destroy: one entry after the other, in the order of their
\* hash slots.
CacheStep ==
    /\ \/ /\ \A k \in Nums : cache[k] = None
          /\ stack' = Tail(stack)
          /\ UNCHANGED cache
       \/ \E k \in Nums :
             /\ cache[k] /= None
             /\ stack' = <<[call |-> "release", n |-> cache[k]]>> \o stack
             /\ cache' = [cache EXCEPT ![k] = None]
    /\ UNCHANGED <<node, held, loads, lost>>

Step ==
    /\ stack /= <<>>
    /\ \/ Head(stack).call = "get" /\ (GetRefused \/ GetCached \/ GetLoaded \/ GetStream)
       \/ Head(stack).call = "seek" /\ SeekFails
       \/ Head(stack).call \in {"release", "destroy", "free"} /\ ReleaseStep
       \/ Head(stack).call = "cache" /\ CacheStep
    /\ UNCHANGED <<file, phase, trailer>>

Next ==
    \/ Parsed
    \/ \E id \in Ids : GetObject(id)
    \/ \E n \in NodeIds : Retain(n) \/ Release(n)
    \/ \E n \in Live : \E i \in DOMAIN node[n].slots : Resolve(n, i)
    \/ DestroyDoc
    \/ Step

\* A C call runs until it returns.
Spec == Init /\ [][Next]_vars /\ WF_vars(Step)

-----------------------------------------------------------------------------
(* What is checked *)

Calls ==
    [call : {"get"}, id : Ids, slot : (NodeIds \X Nat) \cup {None}]
    \cup [call : {"seek"}, slot : (NodeIds \X Nat) \cup {None}]
    \cup [call : {"release", "destroy", "free"}, n : NodeIds \cup {Null, None}]
    \cup [call : {"cache"}]

TypeOK ==
    /\ file \in Files
    /\ phase \in {"created", "parsed", "destroyed"}
    /\ trailer \in NodeIds \cup {None}
    /\ node \in [NodeIds -> {Freed} \cup NodeRecords]
    /\ cache \in [Nums -> NodeIds \cup {None}]
    /\ held \in [NodeIds -> Nat]
    /\ stack \in Seq(Calls)
    /\ loads \in [Nums -> Nat]
    /\ lost \subseteq NodeIds

\* While the document lives, all references to an object that resolved to a
\* node resolved to the one the cache holds, whatever was released in
\* between: the graph the client walks has one node per object.  Object 0 is
\* never cached, so nothing is said of it (CosDoc.c:162-193).
OneNodePerObject ==
    ~CacheMayFail /\ phase = "parsed" =>
        \A n \in Live : \A i \in DOMAIN node[n].slots :
            LET s == node[n].slots[i]
            IN  s.value \in NodeIds /\ s.id[1] /= 0 => cache[s.id[1]] = s.value

\* An object other than 0 that could be loaded is parsed at most once in the
\* life of a document, whatever the order of loads, releases and nested loads.
LoadedOnce ==
    ~CacheMayFail =>
        \A k \in Nums \ {0} :
            file.xref[k].type = "inUse" /\ file.object[file.xref[k].at].kind = "plain"
                => loads[k] <= 1

\* Nodes whose deallocation has begun.
Dying == {n \in NodeIds : \E i \in DOMAIN stack : stack[i].call = "free" /\ stack[i].n = n}

\* The references to n that somebody still has to give back.
OwedTo(n) ==
    held[n]
    + Cardinality({k \in Nums : cache[k] = n})
    + Cardinality(UNION {{<<m, s>> : s \in {i \in DOMAIN node[m].slots :
                                              node[m].slots[i].value = n}} : m \in Live \ Dying})
    + Cardinality({i \in DOMAIN stack : stack[i].call \in {"release", "destroy"} /\ stack[i].n = n})
    + (IF n = trailer THEN 1 ELSE 0)
    + (IF n \in lost THEN 1 ELSE 0)

\* Reference counts are exact at every step of every call, nested loads and
\* the teardown of the document included.
RefsExact == \A n \in Live \ Dying : node[n].refs = OwedTo(n)

\* Whatever is held, cached, referenced or about to be released exists; also
\* what the client still holds when the document is gone.
NoDanglingPointer ==
    /\ \A n \in NodeIds : held[n] > 0 => n \in Live
    /\ \A k \in Nums : cache[k] /= None => cache[k] \in Live
    /\ \A n \in Live \ Dying : ValuesOf(n) \subseteq Live
    /\ \A i \in DOMAIN stack :
           stack[i].call \in {"release", "destroy", "free"} =>
               stack[i].n \in Live \cup {None, Null}

\* When the document is destroyed and the client has released everything,
\* what is left is what failed stream loads lost and what resolved
\* references keep: each node has an owner among the nodes that are left.
OnlyCyclesAndLostLeak ==
    phase = "destroyed" /\ Idle /\ (\A n \in NodeIds : held[n] = 0) =>
        \A n \in Live \ lost : \E m \in Live : n \in ValuesOf(m)

\* A resolved reference keeps its value: also the null object a failed
\* lookup left in it (CosReferenceObjNode.c:108-124).
ResolutionSticks ==
    [][\A n \in NodeIds :
         n \in Live /\ n \in Live' =>
           \A i \in DOMAIN node[n].slots :
             node[n].slots[i].value /= None =>
                 node'[n].slots[i].value = node[n].slots[i].value]_vars

\* Every call returns.
CallsReturn == stack /= <<>> ~> Idle

\* CosObjParser.c:322: cos_handle_stream_ takes ownership of the dictionary,
\* so a load that fails releases it.
NothingLost == lost = {}

\* CosParser.h:66-77: cos_parser_load_object parses the object at the offset;
\* a well-formed stream object is one.
StreamsLoad ==
    \A k \in Nums \ {0} :
        loads[k] > 0 /\ Object(<<k, 0>>).kind = "stream" /\ Idle /\ phase = "parsed"
            => cache[k] /= None

=============================================================================
