---------------------------- MODULE CosDoc_proofs ----------------------------
(***************************************************************************)
(* Proofs about CosDoc, for every set of files, numbers and addresses.     *)
(***************************************************************************)
EXTENDS CosDoc, CosCounting, FiniteSetTheorems, SequenceTheorems, TLAPS

\* The stack is made of loads or of releases: no load starts inside a
\* release, nor a release inside a load.
Loading(call) == call.call \in {"get", "seek"}

OneKind ==
    \/ \A i \in DOMAIN stack : Loading(stack[i])
    \/ \A i \in DOMAIN stack : ~Loading(stack[i])

\* A load made for a reference node returns to one that exists, has the id
\* that was asked for and is not resolved yet.
Targets ==
    \A i \in DOMAIN stack :
        Loading(stack[i]) /\ stack[i].slot # None =>
            LET n == stack[i].slot[1]
                s == stack[i].slot[2]
            IN  /\ n \in Live /\ s \in DOMAIN node[n].slots
                /\ node[n].slots[s].value = None
                /\ stack[i].call = "get" => node[n].slots[s].id = stack[i].id

\* No two loads return to the same reference node.
Apart ==
    \A i, j \in DOMAIN stack :
        Loading(stack[i]) /\ Loading(stack[j]) /\ i # j /\ stack[i].slot # None
            => stack[i].slot # stack[j].slot

Agree ==
    ~CacheMayFail /\ phase # "destroyed" =>
        \A n \in Live : \A i \in DOMAIN node[n].slots :
            LET s == node[n].slots[i]
            IN  s.value \in NodeIds /\ s.id[1] # 0 => cache[s.id[1]] = s.value

\* The cache is emptied only when the document is destroyed.
TearDown == \A i \in DOMAIN stack : stack[i].call = "cache" => phase = "destroyed"

\* An object that can be loaded and is not in the cache was not loaded yet.
Plain(k) == file.xref[k].type = "inUse" /\ file.object[file.xref[k].at].kind = "plain"

Loads ==
    ~CacheMayFail =>
        \A k \in Nums \ {0} : Plain(k) =>
            /\ loads[k] <= 1
            /\ phase # "destroyed" /\ cache[k] = None => loads[k] = 0

IInv == TypeOK /\ OneKind /\ Targets /\ Apart /\ Agree /\ TearDown /\ Loads

\* What a step may do to the reference nodes.
Sticks ==
    \A n \in Live : n \in Live' =>
        \A i \in DOMAIN node[n].slots :
            node[n].slots[i].value # None =>
                node'[n].slots[i].value = node[n].slots[i].value

\* A node as it is parsed has the type of a node, its references unresolved.
LEMMA NodeType ==
    ASSUME NEW refs \in Nat, NEW ids \in Seq(Ids)
    PROVE  /\ Node(refs, ids) \in NodeRecords
           /\ Node(refs, ids) # Freed
           /\ DOMAIN Node(refs, ids).slots = DOMAIN ids
           /\ \A i \in DOMAIN ids :
                  Node(refs, ids).slots[i].id = ids[i] /\ Node(refs, ids).slots[i].value = None
  <1>1. \A i \in DOMAIN ids : [id |-> ids[i], value |-> None] \in Slots
    BY DEF Slots
  <1> HIDE DEF Slots
  <1>2. [i \in DOMAIN ids |-> [id |-> ids[i], value |-> None]] \in Seq(Slots)
    BY <1>1
  <1> QED BY <1>2, FreedAssumption DEF Node, NodeRecords

\* Resolving a reference node changes its value and not its id.
LEMMA SetValue ==
    ASSUME NEW a \in Slots, NEW v \in NodeIds \cup {Null, None}
    PROVE  [a EXCEPT !.value = v] = [id |-> a.id, value |-> v]
  BY DEF Slots

\* The reference node s of the node r resolved to v.
Resolved(r, s, v) == [r EXCEPT !.slots[s].value = v]

\* Resolving a reference node inside a node changes that reference only.
LEMMA SetSlot ==
    ASSUME NEW r \in NodeRecords, NEW s \in DOMAIN r.slots,
           NEW v \in NodeIds \cup {Null, None}
    PROVE  LET q == Resolved(r, s, v)
           IN  /\ q \in NodeRecords /\ DOMAIN q.slots = DOMAIN r.slots
               /\ \A i \in DOMAIN r.slots : i # s => q.slots[i] = r.slots[i]
               /\ q.slots[s].id = r.slots[s].id /\ q.slots[s].value = v
  <1> DEFINE a == [r.slots[s] EXCEPT !.value = v]
             b == [r.slots EXCEPT ![s] = a]
  <1>1. r.refs \in Nat /\ r.slots \in Seq(Slots) /\ r = [refs |-> r.refs, slots |-> r.slots]
    BY DEF NodeRecords
  <1>2. r.slots[s] \in Slots BY <1>1
  <1>3. a = [id |-> r.slots[s].id, value |-> v] BY <1>2, SetValue
  <1>4. a \in Slots BY <1>2, <1>3 DEF Slots
  <1> HIDE DEF a
  <1>5. b \in Seq(Slots) /\ DOMAIN b = DOMAIN r.slots BY <1>1, <1>4
  <1>6. b[s] = a /\ \A i \in DOMAIN r.slots : i # s => b[i] = r.slots[i] BY <1>1
  <1> HIDE DEF b
  <1>7. [r EXCEPT !.slots = b] = [refs |-> r.refs, slots |-> b] BY <1>1
  <1>8. [refs |-> r.refs, slots |-> b] \in NodeRecords BY <1>1, <1>5 DEF NodeRecords
  <1>9. Resolved(r, s, v) = [refs |-> r.refs, slots |-> b]
    BY <1>7, Zenon DEF a, b, Resolved
  <1> QED BY <1>3, <1>5, <1>6, <1>8, <1>9

\* malloc gives an address that holds no node.
LEMMA FreshIsFree == ASSUME Live # NodeIds PROVE Fresh \in NodeIds \ Live
  <1>1. \E n \in NodeIds : n \notin Live BY Zenon DEF Live
  <1> DEFINE P(n) == n \notin Live
  <1>2. \E n \in NodeIds : P(n) BY <1>1
  <1> HIDE DEF P
  <1>3. (CHOOSE n \in NodeIds : P(n)) \in NodeIds /\ P(CHOOSE n \in NodeIds : P(n)) BY <1>2, Zenon
  <1> QED BY <1>3, Zenon DEF P, Fresh

\* What a live address holds is a node.
LEMMA LiveNode == ASSUME TypeOK, NEW n \in Live PROVE n \in NodeIds /\ node[n] \in NodeRecords
  BY DEF TypeOK, Live

\* What a live node has inside are reference nodes.
LEMMA SlotType ==
    ASSUME TypeOK, NEW n \in Live, NEW i \in DOMAIN node[n].slots
    PROVE  /\ node[n].slots[i] \in Slots
           /\ node[n].slots[i].id \in Ids /\ node[n].slots[i].id[1] \in Nums
  <1>1. node[n] \in NodeRecords BY LiveNode
  <1>2. node[n].slots \in Seq(Slots) BY <1>1 DEF NodeRecords
  <1> HIDE DEF Slots
  <1>3. node[n].slots[i] \in Slots BY <1>2
  <1>4. node[n].slots[i].id \in Ids BY <1>3 DEF Slots
  <1> QED BY <1>3, <1>4 DEF Ids

\* A document that was just created satisfies the invariant.
LEMMA InitInv == Init => IInv
  <1> SUFFICES ASSUME Init PROVE IInv OBVIOUS
  <1>1. Live = {} BY DEF Init, Live
  <1>2. TypeOK BY DEF Init, TypeOK
  <1> QED BY <1>1, <1>2 DEF Init, IInv, OneKind, Targets, Apart, Agree, TearDown, Loads

-----------------------------------------------------------------------------
(* A load that returns *)

\* A call returns its value to the client or to the reference node that
\* asked (CosReferenceObjNode.c:108-124), on a heap that has grown and a cache
\* that agrees.
LEMMA ReturnInv ==
    ASSUME IInv, stack # <<>>, Loading(Head(stack)), phase' = phase,
           NEW nodes \in [NodeIds -> {Freed} \cup NodeRecords],
           NEW value \in NodeIds \cup {None},
           \A n \in Live : nodes[n] # Freed /\ nodes[n].slots = node[n].slots,
           \A n \in NodeIds \ Live : nodes[n] # Freed =>
               \A i \in DOMAIN nodes[n].slots : nodes[n].slots[i].value = None,
           Head(stack).call = "seek" => value = None,
           \A k \in Nums : cache[k] # None => cache'[k] = cache[k],
           Head(stack).call = "get" /\ value # None /\ ~CacheMayFail /\ Head(stack).id[1] # 0
               => cache'[Head(stack).id[1]] = value,
           Return(value, nodes, Tail(stack))
    PROVE  /\ node' \in [NodeIds -> {Freed} \cup NodeRecords]
           /\ held' \in [NodeIds -> Nat] /\ stack' \in Seq(Calls)
           /\ OneKind' /\ Targets' /\ Apart' /\ Agree' /\ TearDown'
           /\ Sticks
  <1> DEFINE top == Head(stack)
             to == top.slot
             n0 == to[1]
             s0 == to[2]
             v == IF value = None THEN Null ELSE value
  <1>1. stack \in Seq(Calls) /\ held \in [NodeIds -> Nat] /\ TypeOK
    BY DEF IInv, TypeOK
  <1>2. stack' = Tail(stack) /\ stack' \in Seq(Calls)
    <2>1. stack' = Tail(stack) BY Zenon DEF Return
    <2> QED BY <1>1, <2>1
  <1>3. Len(stack) > 0 /\ top = stack[1] /\ 1 \in DOMAIN stack
    BY <1>1
  <1>4. \A i \in DOMAIN stack' : i + 1 \in DOMAIN stack /\ stack'[i] = stack[i + 1] /\ i + 1 # 1
    BY <1>1, <1>2, <1>3
  <1>5. OneKind' BY <1>4 DEF IInv, OneKind, Loading
  <1>6. held' \in [NodeIds -> Nat]
    <2>1. \/ held' = held
          \/ value \in NodeIds /\ held' = [held EXCEPT ![value] = @ + 1]
      BY Zenon DEF Return
    <2> QED BY <1>1, <2>1
  <1>7. Apart'
    <2> SUFFICES ASSUME NEW i \in DOMAIN stack', NEW j \in DOMAIN stack', i # j,
                        Loading(stack'[i]), Loading(stack'[j]), stack'[i].slot # None
                 PROVE  stack'[i].slot # stack'[j].slot
      BY DEF Apart, Loading
    <2>1. i + 1 # j + 1 BY <1>1, <1>2
    <2> QED BY <2>1, <1>4 DEF IInv, Apart
  <1>10. TearDown' BY <1>4 DEF IInv, TearDown
  <1>8. CASE to = None
    <2>1. node' = nodes BY <1>8 DEF Return
    <2>2. Targets'
      <3> SUFFICES ASSUME NEW i \in DOMAIN stack', Loading(stack'[i]), stack'[i].slot # None
                   PROVE  LET n == stack'[i].slot[1]
                              s == stack'[i].slot[2]
                          IN  /\ n \in Live' /\ s \in DOMAIN node'[n].slots
                              /\ node'[n].slots[s].value = None
                              /\ stack'[i].call = "get" => node'[n].slots[s].id = stack'[i].id
        BY DEF Targets, Loading
      <3> DEFINE n == stack'[i].slot[1]
                 s == stack'[i].slot[2]
      <3>1. /\ n \in Live /\ s \in DOMAIN node[n].slots
            /\ node[n].slots[s].value = None
            /\ stack'[i].call = "get" => node[n].slots[s].id = stack'[i].id
        <4>1. PICK k \in DOMAIN stack : stack'[i] = stack[k] BY <1>4
        <4>2. Loading(stack[k]) /\ stack[k].slot # None BY ONLY <4>1, Loading(stack'[i]), stack'[i].slot # None
        <4>3. Targets BY DEF IInv
        <4> QED BY ONLY <4>1, <4>2, <4>3 DEF Targets
      <3> QED BY <3>1, <2>1 DEF Live
    <2>3. Agree'
      <3> SUFFICES ASSUME ~CacheMayFail, phase # "destroyed", NEW n \in Live',
                          NEW i \in DOMAIN node'[n].slots,
                          node'[n].slots[i].value \in NodeIds, node'[n].slots[i].id[1] # 0
                   PROVE  cache'[node'[n].slots[i].id[1]] = node'[n].slots[i].value
        BY DEF Agree
      <3>1. n \in NodeIds /\ nodes[n] # Freed BY <2>1 DEF Live
      <3>2. n \in Live BY <3>1, <2>1, NodeIdsAssumption
      <3>3. nodes[n].slots = node[n].slots BY <3>2
      <3>4. cache[node[n].slots[i].id[1]] = node[n].slots[i].value
        BY <3>2, <3>3, <2>1 DEF IInv, Agree
      <3>5. node[n].slots[i].id[1] \in Nums
        BY <3>2, <3>3, <2>1, <1>1, SlotType, Zenon
      <3> QED BY <3>3, <3>4, <3>5, <2>1, NodeIdsAssumption
    <2>4. Sticks BY <2>1 DEF Sticks, Live
    <2> QED BY <1>2, <1>5, <1>6, <1>7, <1>10, <2>1, <2>2, <2>3, <2>4
  <1>9. CASE to # None
    <2>1. node' = [nodes EXCEPT ![n0].slots[s0].value = v]
      BY <1>9 DEF Return
    <2>2. /\ n0 \in Live /\ s0 \in DOMAIN node[n0].slots
          /\ node[n0].slots[s0].value = None
          /\ top.call = "get" => node[n0].slots[s0].id = top.id
      <3>1. Targets BY DEF IInv
      <3>2. 1 \in DOMAIN stack /\ top = stack[1] /\ Loading(stack[1]) BY <1>3
      <3>3. stack[1].slot # None BY <3>2, <1>9
      <3> HIDE DEF top
      <3> QED BY ONLY <3>1, <3>2, <3>3 DEF Targets, n0, s0, to
    <2>3. n0 \in NodeIds /\ node[n0] \in NodeRecords BY <2>2, <1>1, LiveNode
    <2>4. nodes[n0] # Freed /\ nodes[n0] \in NodeRecords /\ nodes[n0].slots = node[n0].slots
      BY <2>2, <2>3
    <2>5. v \in NodeIds \cup {Null, None} OBVIOUS
    <2> DEFINE q == Resolved(nodes[n0], s0, v)
    <2>6. node' = [nodes EXCEPT ![n0] = q] BY <2>1, Zenon DEF Resolved
    <2>7. /\ q \in NodeRecords /\ DOMAIN q.slots = DOMAIN node[n0].slots
          /\ \A i \in DOMAIN node[n0].slots : i # s0 => q.slots[i] = node[n0].slots[i]
          /\ q.slots[s0].id = node[n0].slots[s0].id /\ q.slots[s0].value = v
      <3> DEFINE r == nodes[n0]
      <3>1. r \in NodeRecords /\ s0 \in DOMAIN r.slots /\ r.slots = node[n0].slots
        BY <2>2, <2>4
      <3> HIDE DEF n0, s0, v, r
      <3>2. /\ Resolved(r, s0, v) \in NodeRecords
            /\ DOMAIN Resolved(r, s0, v).slots = DOMAIN r.slots
            /\ \A i \in DOMAIN r.slots : i # s0 => Resolved(r, s0, v).slots[i] = r.slots[i]
            /\ Resolved(r, s0, v).slots[s0].id = r.slots[s0].id
            /\ Resolved(r, s0, v).slots[s0].value = v
        BY <3>1, <2>5, SetSlot
      <3>3. q = Resolved(r, s0, v) BY Zenon DEF r
      <3> HIDE DEF q
      <3> QED BY <3>1, <3>2, <3>3
    <2> HIDE DEF q, v
    <2>8. /\ node' \in [NodeIds -> {Freed} \cup NodeRecords]
          /\ \A n \in NodeIds : n # n0 => node'[n] = nodes[n]
          /\ node'[n0] = q
      <3> HIDE DEF n0
      <3> QED BY <2>3, <2>6, <2>7
    <2>9. \A n \in Live : n \in Live' /\ (n # n0 => node'[n].slots = node[n].slots)
      <3> HIDE DEF n0
      <3> QED BY <2>7, <2>8, FreedAssumption DEF Live
    <2>10. Targets'
      <3> SUFFICES ASSUME NEW i \in DOMAIN stack', Loading(stack'[i]), stack'[i].slot # None
                   PROVE  LET n == stack'[i].slot[1]
                              s == stack'[i].slot[2]
                          IN  /\ n \in Live' /\ s \in DOMAIN node'[n].slots
                              /\ node'[n].slots[s].value = None
                              /\ stack'[i].call = "get" => node'[n].slots[s].id = stack'[i].id
        BY DEF Targets, Loading
      <3> DEFINE n == stack'[i].slot[1]
                 s == stack'[i].slot[2]
      <3>1. /\ n \in Live /\ s \in DOMAIN node[n].slots
            /\ node[n].slots[s].value = None
            /\ stack'[i].call = "get" => node[n].slots[s].id = stack'[i].id
        <4>1. PICK k \in DOMAIN stack : stack'[i] = stack[k] BY <1>4
        <4>2. Loading(stack[k]) /\ stack[k].slot # None BY ONLY <4>1, Loading(stack'[i]), stack'[i].slot # None
        <4>3. Targets BY DEF IInv
        <4> QED BY ONLY <4>1, <4>2, <4>3 DEF Targets
      <3>2. stack'[i].slot # to BY <1>3, <1>4, <1>9 DEF IInv, Apart
      <3>3. stack'[i] \in Calls /\ top \in Calls BY <1>1, <1>2, <1>3
      <3>4. stack'[i].slot \in NodeIds \X Nat /\ to \in NodeIds \X Nat
        BY <3>3, <1>9 DEF Calls, Loading
      <3>5. n # n0 \/ s # s0 BY <3>2, <3>4
      <3> HIDE DEF n, s
      <3>6. CASE n # n0 BY <3>1, <3>6, <2>9 DEF n, s
      <3>7. CASE n = n0 /\ s # s0
        <4>1. node'[n] = q BY ONLY <2>8, <3>7
        <4>2. s \in DOMAIN q.slots /\ q.slots[s] = node[n].slots[s] BY ONLY <2>7, <3>1, <3>7
        <4>3. n \in Live' BY ONLY <2>9, <3>1
        <4>4. /\ n \in Live' /\ s \in DOMAIN node'[n].slots
              /\ node'[n].slots[s].value = None
              /\ stack'[i].call = "get" => node'[n].slots[s].id = stack'[i].id
          BY ONLY <3>1, <4>1, <4>2, <4>3
        <4> QED BY <4>4 DEF n, s
      <3> QED BY <3>5, <3>6, <3>7
    <2>11. Agree'
      <3> SUFFICES ASSUME ~CacheMayFail, phase # "destroyed", NEW n \in Live',
                          NEW i \in DOMAIN node'[n].slots,
                          node'[n].slots[i].value \in NodeIds, node'[n].slots[i].id[1] # 0
                   PROVE  cache'[node'[n].slots[i].id[1]] = node'[n].slots[i].value
        BY DEF Agree
      <3>1. CASE n = n0 /\ i = s0
        <4>1. /\ node'[n].slots[i].id = node[n0].slots[s0].id
              /\ node'[n].slots[i].value = v
          BY <3>1, <2>7, <2>8, Zenon
        <4>2. v \in NodeIds /\ node[n0].slots[s0].id[1] # 0
          BY <4>1
        <4>3. value # None /\ v = value BY <4>2, NodeIdsAssumption DEF v
        <4>4. top.call = "get" BY <4>3 DEF Loading
        <4>5. cache'[node[n0].slots[s0].id[1]] = value
          BY <4>2, <4>3, <4>4, <2>2
        <4> QED BY <4>1, <4>3, <4>5
      <3>2. CASE ~(n = n0 /\ i = s0)
        <4>1. n \in NodeIds /\ (n # n0 => nodes[n] # Freed) BY <2>8 DEF Live
        <4>2. n \in Live
          <5>1. CASE n = n0 BY ONLY <2>2, <5>1
          <5>2. CASE n # n0
            <6>1. n \in NodeIds /\ nodes[n] # Freed BY ONLY <4>1, <5>2
            <6>2. node'[n] = nodes[n] BY ONLY <2>8, <5>2, <6>1
            <6>3. nodes[n].slots[i].value # None /\ i \in DOMAIN nodes[n].slots
              BY <6>2, NodeIdsAssumption
            <6> QED BY <6>1, <6>3
          <5> QED BY ONLY <5>1, <5>2
        <4>3. i \in DOMAIN node[n].slots /\ node'[n].slots[i] = node[n].slots[i]
          BY <4>2, <3>2, <2>7, <2>8, <2>9
        <4>4. cache[node[n].slots[i].id[1]] = node[n].slots[i].value
          BY <4>2, <4>3 DEF IInv, Agree
        <4>5. node[n].slots[i].id[1] \in Nums
          BY <4>2, <4>3, <1>1, SlotType
        <4> QED BY <4>3, <4>4, <4>5, NodeIdsAssumption
      <3> QED BY <3>1, <3>2
    <2>12. Sticks
      <3> SUFFICES ASSUME NEW n \in Live, NEW i \in DOMAIN node[n].slots,
                          node[n].slots[i].value # None
                   PROVE  node'[n].slots[i].value = node[n].slots[i].value
        BY Zenon DEF Sticks
      <3>1. n # n0 \/ i # s0 BY <2>2
      <3> QED BY <3>1, <2>7, <2>8, <2>9, ZenonT(30)
    <2> QED BY <1>2, <1>5, <1>6, <1>7, <1>10, <2>8, <2>10, <2>11, <2>12
  <1> QED BY <1>8, <1>9

-----------------------------------------------------------------------------
(* Steps that leave the reference nodes alone *)

\* A step that changes no reference node and no cache entry keeps Agree.
LEMMA QuietHeap ==
    ASSUME IInv,
           phase' # "destroyed" => phase # "destroyed" /\ cache' = cache,
           \A n \in Live' :
               \/ n \in Live /\ node'[n].slots = node[n].slots
               \/ n \notin Live /\ \A i \in DOMAIN node'[n].slots : node'[n].slots[i].value = None
    PROVE  Agree' /\ Sticks
  <1>1. Sticks BY Zenon DEF Sticks
  <1>2. Agree'
    <2> SUFFICES ASSUME ~CacheMayFail, phase' # "destroyed", NEW n \in Live',
                        NEW i \in DOMAIN node'[n].slots,
                        node'[n].slots[i].value \in NodeIds, node'[n].slots[i].id[1] # 0
                 PROVE  cache'[node'[n].slots[i].id[1]] = node'[n].slots[i].value
      BY DEF Agree
    <2>1. n \in Live /\ node'[n].slots = node[n].slots BY NodeIdsAssumption
    <2> QED BY <2>1, Zenon DEF IInv, Agree
  <1> QED BY <1>1, <1>2

\* A step that loads nothing and keeps the cache keeps Loads.
LEMMA QuietLoads ==
    ASSUME Loads, loads' = loads, file' = file,
           phase' # "destroyed" => phase # "destroyed" /\ cache' = cache
    PROVE  Loads'
  BY Zenon DEF Loads, Plain

\* One call in progress instead of none.
LEMMA OneCall ==
    ASSUME NEW c \in Calls, stack' = <<c>>, c.call # "cache",
           Loading(c) /\ c.slot # None =>
               /\ c.slot[1] \in Live' /\ c.slot[2] \in DOMAIN node'[c.slot[1]].slots
               /\ node'[c.slot[1]].slots[c.slot[2]].value = None
               /\ c.call = "get" => node'[c.slot[1]].slots[c.slot[2]].id = c.id
    PROVE  stack' \in Seq(Calls) /\ OneKind' /\ Targets' /\ Apart' /\ TearDown'
  <1> HIDE DEF Calls
  <1>1. stack' \in Seq(Calls) /\ DOMAIN stack' = {1} /\ stack'[1] = c OBVIOUS
  <1>2. OneKind' /\ Apart' /\ TearDown'
    BY <1>1, Zenon DEF OneKind, Apart, TearDown, Loading
  <1>3. Targets' BY <1>1, Zenon DEF Targets, Loading
  <1> QED BY <1>1, <1>2, <1>3

\* No call in progress.
LEMMA NoCall ==
    ASSUME stack' = <<>>
    PROVE  stack' \in Seq(Calls) /\ OneKind' /\ Targets' /\ Apart' /\ TearDown'
  <1>1. DOMAIN stack' = {} OBVIOUS
  <1> QED BY <1>1 DEF OneKind, Targets, Apart, TearDown

-----------------------------------------------------------------------------
(* What the client calls *)

\* A successful parse (CosDoc.c:236-290) keeps the invariant.
LEMMA ParsedInv == ASSUME IInv, Parsed PROVE IInv' /\ Sticks
  <1>0. TypeOK /\ file \in Files /\ Loads BY DEF IInv, TypeOK
  <1>1. Live # NodeIds
    <2> SUFFICES ASSUME Live = NodeIds PROVE FALSE OBVIOUS
    <2>1. NodeIds \ Live = {} OBVIOUS
    <2>2. Cardinality(NodeIds \ Live) = 0 BY <2>1, FS_EmptySet
    <2>3. Cardinality(Nums) \in Nat BY NumsAssumption, FS_CardinalityType
    <2> QED BY <2>2, <2>3 DEF Parsed, Room
  <1>2. Fresh \in NodeIds \ Live BY <1>1, FreshIsFree
  <1>3. file.root \in Ids BY <1>0, FilesAssumption
  <1>4. /\ Node(1, <<file.root>>) \in NodeRecords
        /\ \A i \in DOMAIN Node(1, <<file.root>>).slots :
               Node(1, <<file.root>>).slots[i].value = None
    <2> DEFINE ids == <<file.root>>
    <2>1. ids \in Seq(Ids) BY <1>3
    <2> HIDE DEF ids
    <2>2. /\ Node(1, ids) \in NodeRecords
          /\ \A i \in DOMAIN Node(1, ids).slots : Node(1, ids).slots[i].value = None
      BY <2>1, NodeType
    <2> QED BY <2>2 DEF ids
  <1> DEFINE new == Node(1, <<file.root>>)
  <1> HIDE DEF new
  <1>5. node' = [node EXCEPT ![Fresh] = new] BY Zenon DEF Parsed, new
  <1>6. new \in NodeRecords /\ \A i \in DOMAIN new.slots : new.slots[i].value = None
    BY <1>4, Zenon DEF new
  <1>7. TypeOK'
    BY <1>0, <1>2, <1>5, <1>6 DEF TypeOK, Parsed
  <1>8. /\ phase = "created" /\ phase' = "parsed" /\ cache' = cache /\ stack' = <<>>
        /\ loads' = loads /\ file' = file
    BY DEF Parsed, Idle
  <1>9. Agree' /\ Sticks
    <2> DEFINE f == Fresh
    <2> HIDE DEF f
    <2>1. f \in NodeIds \ Live /\ node' = [node EXCEPT ![f] = new] BY <1>2, <1>5, Zenon DEF f
    <2>2. DOMAIN node = NodeIds BY <1>0 DEF TypeOK
    <2>3. node'[f] = new /\ \A n \in NodeIds : n # f => node'[n] = node[n] BY <2>1, <2>2
    <2>4. \A n \in Live' :
             \/ n \in Live /\ node'[n].slots = node[n].slots
             \/ n \notin Live /\ \A i \in DOMAIN node'[n].slots : node'[n].slots[i].value = None
      BY <1>6, <2>1, <2>3 DEF Live
    <2> QED BY <1>8, <2>4, QuietHeap
  <1> QED BY <1>0, <1>7, <1>8, <1>9, NoCall, QuietLoads DEF IInv

\* A call of cos_doc_get_object by the client keeps the invariant.
LEMMA GetObjectInv ==
    ASSUME IInv, NEW id \in Ids, GetObject(id) PROVE IInv' /\ Sticks
  <1>0. TypeOK /\ Loads BY DEF IInv
  <1> DEFINE c == [call |-> "get", id |-> id, slot |-> None]
  <1>1. c \in Calls BY DEF Calls
  <1>2. stack' = <<c>> /\ c.call = "get" /\ c.slot = None BY DEF GetObject
  <1> HIDE DEF c
  <1>3. stack' \in Seq(Calls) /\ OneKind' /\ Targets' /\ Apart' /\ TearDown'
    BY <1>1, <1>2, OneCall
  <1>4. UNCHANGED <<file, phase, trailer, node, cache, held, loads, lost>> BY DEF GetObject
  <1>5. Agree' /\ Sticks BY <1>0, <1>4, QuietHeap DEF Live
  <1>6. TypeOK' BY <1>0, <1>3, <1>4 DEF TypeOK
  <1> QED BY <1>0, <1>3, <1>4, <1>5, <1>6, QuietLoads DEF IInv

\* The first use of a reference node keeps the invariant.
LEMMA ResolveInv ==
    ASSUME IInv, NEW n \in Live, NEW i \in DOMAIN node[n].slots, Resolve(n, i)
    PROVE  IInv' /\ Sticks
  <1>0. TypeOK /\ Loads BY DEF IInv
  <1> DEFINE c == [call |-> "get", id |-> node[n].slots[i].id, slot |-> <<n, i>>]
  <1>1. node[n].slots[i].id \in Ids /\ n \in NodeIds /\ i \in Nat
    <2>1. node[n].slots \in Seq(Slots) BY <1>0, LiveNode DEF NodeRecords
    <2>2. i \in Nat BY <2>1
    <2> QED BY <2>2, <1>0, SlotType, LiveNode
  <1>2. c \in Calls BY <1>1 DEF Calls
  <1>3. /\ stack' = <<c>> /\ c.call = "get" /\ c.slot = <<n, i>>
        /\ c.slot[1] = n /\ c.slot[2] = i /\ c.id = node[n].slots[i].id
    BY DEF Resolve
  <1>4. UNCHANGED <<file, phase, trailer, node, cache, held, loads, lost>>
    BY DEF Resolve
  <1>5. Live' = Live /\ node'[n].slots[i].value = None BY <1>4 DEF Live, Resolve
  <1> HIDE DEF c
  <1>6. stack' \in Seq(Calls) /\ OneKind' /\ Targets' /\ Apart' /\ TearDown'
    BY <1>2, <1>3, <1>4, <1>5, OneCall
  <1>7. Agree' /\ Sticks BY <1>0, <1>4, QuietHeap DEF Live
  <1>8. TypeOK' BY <1>0, <1>4, <1>6 DEF TypeOK
  <1> QED BY <1>0, <1>4, <1>6, <1>7, <1>8, QuietLoads DEF IInv

\* cos_obj_node_retain keeps the invariant.
LEMMA RetainInv ==
    ASSUME IInv, NEW n \in NodeIds, Retain(n) PROVE IInv' /\ Sticks
  <1>0. TypeOK /\ Loads /\ n \in Live BY DEF IInv, Retain
  <1>1. node[n] \in NodeRecords BY <1>0, LiveNode
  <1>2. /\ [node[n] EXCEPT !.refs = @ + 1] \in NodeRecords
        /\ [node[n] EXCEPT !.refs = @ + 1].slots = node[n].slots
    BY <1>1 DEF NodeRecords
  <1>3. node' = [node EXCEPT ![n] = [node[n] EXCEPT !.refs = @ + 1]]
    BY Zenon DEF Retain
  <1> DEFINE new == [node[n] EXCEPT !.refs = @ + 1]
  <1> HIDE DEF new
  <1>4. node' = [node EXCEPT ![n] = new] /\ new \in NodeRecords /\ new.slots = node[n].slots
    BY <1>2, <1>3, Zenon DEF new
  <1>5. UNCHANGED <<file, phase, trailer, cache, stack, loads, lost>> /\ stack' = <<>>
        /\ held' = [held EXCEPT ![n] = @ + 1]
    BY DEF Retain, Idle
  <1>6. TypeOK' BY <1>0, <1>4, <1>5 DEF TypeOK
  <1>7. Agree' /\ Sticks BY <1>0, <1>4, <1>5, QuietHeap DEF Live, TypeOK
  <1> QED BY <1>0, <1>5, <1>6, <1>7, NoCall, QuietLoads DEF IInv

\* A call of cos_obj_node_release by the client keeps the invariant.
LEMMA ReleaseInv ==
    ASSUME IInv, NEW n \in NodeIds, Release(n) PROVE IInv' /\ Sticks
  <1>0. TypeOK /\ Loads BY DEF IInv
  <1> DEFINE c == [call |-> "release", n |-> n]
  <1>1. c \in Calls BY DEF Calls
  <1>2. stack' = <<c>> /\ c.call = "release" BY DEF Release
  <1> HIDE DEF c
  <1>3. stack' \in Seq(Calls) /\ OneKind' /\ Targets' /\ Apart' /\ TearDown'
    BY <1>1, <1>2, OneCall DEF Loading
  <1>4. UNCHANGED <<file, phase, trailer, node, cache, loads, lost>> BY DEF Release
  <1>5. Agree' /\ Sticks BY <1>0, <1>4, QuietHeap DEF Live
  <1>6. held' \in [NodeIds -> Nat] BY <1>0 DEF TypeOK, Release
  <1>7. TypeOK' BY <1>0, <1>3, <1>4, <1>6 DEF TypeOK
  <1> QED BY <1>0, <1>3, <1>4, <1>5, <1>7, QuietLoads DEF IInv

\* The start of cos_doc_destroy keeps the invariant.
LEMMA DestroyDocInv ==
    ASSUME IInv, DestroyDoc PROVE IInv' /\ Sticks
  <1>0. TypeOK /\ Loads BY DEF IInv
  <1> DEFINE c == [call |-> "destroy", n |-> trailer]
             d == [call |-> "cache"]
  <1>1. c \in Calls /\ d \in Calls BY <1>0 DEF Calls, TypeOK
  <1>2. stack' = <<c, d>> /\ c.call = "destroy" /\ d.call = "cache" BY DEF DestroyDoc
  <1> HIDE DEF c, d, Calls
  <1>3. stack' \in Seq(Calls) /\ DOMAIN stack' = {1, 2} /\ stack'[1] = c /\ stack'[2] = d
    BY <1>1, <1>2
  <1>4. phase' = "destroyed" /\ trailer' = None /\ UNCHANGED <<file, node, cache, held, loads, lost>>
    BY DEF DestroyDoc
  <1>5. OneKind' /\ Targets' /\ Apart' /\ TearDown'
    BY ZenonT(30), <1>2, <1>3, <1>4 DEF OneKind, Targets, Apart, TearDown, Loading
  <1>6. Agree' /\ Sticks BY <1>0, <1>4, QuietHeap DEF Live
  <1>7. TypeOK' BY <1>0, <1>3, <1>4 DEF TypeOK
  <1> QED BY <1>0, <1>4, <1>5, <1>6, <1>7, QuietLoads DEF IInv

-----------------------------------------------------------------------------
(* cos_doc_get_object *)

\* What every step of a load starts from.
LEMMA GetContext ==
    ASSUME IInv, stack # <<>>, Head(stack).call = "get"
    PROVE  /\ TypeOK /\ Loads /\ Loading(Head(stack))
           /\ Head(stack).id \in Ids /\ Head(stack).id[1] \in Nums
           /\ node \in [NodeIds -> {Freed} \cup NodeRecords]
  <1>1. TypeOK /\ Loads /\ stack \in Seq(Calls) BY DEF IInv, TypeOK
  <1>2. Head(stack) \in Calls BY <1>1
  <1>3. Head(stack).id \in Ids BY <1>2 DEF Calls
  <1> QED BY <1>1, <1>3 DEF Loading, Ids, TypeOK

\* A lookup that is refused keeps the invariant.
LEMMA GetRefusedInv ==
    ASSUME IInv, stack # <<>>, Head(stack).call = "get", GetRefused,
           UNCHANGED <<file, phase, trailer>>
    PROVE  IInv' /\ Sticks
  <1>1. /\ TypeOK /\ Loads /\ Loading(Head(stack))
        /\ node \in [NodeIds -> {Freed} \cup NodeRecords]
    BY GetContext
  <1>2. Return(None, node, Tail(stack)) /\ UNCHANGED <<cache, loads, lost>> BY DEF GetRefused
  <1>3. \A n \in NodeIds \ Live : node[n] = Freed BY DEF Live
  <1>4. /\ node' \in [NodeIds -> {Freed} \cup NodeRecords]
        /\ held' \in [NodeIds -> Nat] /\ stack' \in Seq(Calls)
        /\ OneKind' /\ Targets' /\ Apart' /\ Agree' /\ TearDown' /\ Sticks
    BY <1>1, <1>2, <1>3, ReturnInv DEF Live
  <1> QED BY <1>1, <1>2, <1>4, QuietLoads DEF IInv, TypeOK

\* The failing seek of cos_handle_stream_ keeps the invariant.
LEMMA SeekFailsInv ==
    ASSUME IInv, stack # <<>>, Head(stack).call = "seek", SeekFails,
           UNCHANGED <<file, phase, trailer>>
    PROVE  IInv' /\ Sticks
  <1>1. /\ TypeOK /\ Loads /\ Loading(Head(stack))
        /\ node \in [NodeIds -> {Freed} \cup NodeRecords]
    BY DEF IInv, TypeOK, Loading
  <1>2. Return(None, node, Tail(stack)) /\ UNCHANGED <<cache, loads, lost>> BY DEF SeekFails
  <1>3. \A n \in NodeIds \ Live : node[n] = Freed BY DEF Live
  <1>4. /\ node' \in [NodeIds -> {Freed} \cup NodeRecords]
        /\ held' \in [NodeIds -> Nat] /\ stack' \in Seq(Calls)
        /\ OneKind' /\ Targets' /\ Apart' /\ Agree' /\ TearDown' /\ Sticks
    BY <1>1, <1>2, <1>3, ReturnInv DEF Live
  <1> QED BY <1>1, <1>2, <1>4, QuietLoads DEF IInv, TypeOK

\* A lookup the cache answers (CosDoc.c:168-175) keeps the invariant.
LEMMA GetCachedInv ==
    ASSUME IInv, stack # <<>>, Head(stack).call = "get", GetCached,
           UNCHANGED <<file, phase, trailer>>
    PROVE  IInv' /\ Sticks
  <1> DEFINE n == cache[Head(stack).id[1]]
             new == [node[n] EXCEPT !.refs = @ + 1]
             nodes == [node EXCEPT ![n] = new]
  <1>1. /\ TypeOK /\ Loads /\ Loading(Head(stack))
        /\ node \in [NodeIds -> {Freed} \cup NodeRecords]
    BY GetContext
  <1>2. Return(n, nodes, Tail(stack)) /\ n \in Live /\ UNCHANGED <<cache, loads, lost>>
    BY Zenon DEF GetCached
  <1>3. node[n] \in NodeRecords /\ n \in NodeIds BY <1>1, <1>2, LiveNode
  <1>4. new \in NodeRecords /\ new.slots = node[n].slots
    <2>1. PICK r : r = node[n] OBVIOUS
    <2>2. r \in NodeRecords BY ONLY <1>3, <2>1
    <2>3. r.refs \in Nat BY ONLY <2>2 DEF NodeRecords
    <2>4. [r EXCEPT !.refs = @ + 1] \in NodeRecords /\ [r EXCEPT !.refs = @ + 1].slots = r.slots
      BY ONLY <2>2, <2>3 DEF NodeRecords
    <2> QED BY <2>1, <2>4
  <1> HIDE DEF n, new
  <1>5. /\ nodes \in [NodeIds -> {Freed} \cup NodeRecords]
        /\ nodes[n] = new /\ \A m \in NodeIds : m # n => nodes[m] = node[m]
    BY <1>1, <1>3, <1>4
  <1>6. /\ \A m \in Live : nodes[m] # Freed /\ nodes[m].slots = node[m].slots
        /\ \A m \in NodeIds \ Live : nodes[m] = Freed
    BY <1>2, <1>4, <1>5, FreedAssumption DEF Live
  <1> HIDE DEF nodes
  <1>7. Head(stack).id[1] # 0 => cache'[Head(stack).id[1]] = n BY <1>2 DEF n
  <1>8. /\ node' \in [NodeIds -> {Freed} \cup NodeRecords]
        /\ held' \in [NodeIds -> Nat] /\ stack' \in Seq(Calls)
        /\ OneKind' /\ Targets' /\ Apart' /\ Agree' /\ TearDown' /\ Sticks
    BY <1>1, <1>2, <1>3, <1>5, <1>6, <1>7, ReturnInv
  <1> QED BY <1>1, <1>2, <1>8, QuietLoads DEF IInv, TypeOK

\* A load from the file (CosDoc.c:177-196) keeps the invariant.
LEMMA GetLoadedInv ==
    ASSUME IInv, stack # <<>>, Head(stack).call = "get", GetLoaded,
           UNCHANGED <<file, phase, trailer>>
    PROVE  IInv' /\ Sticks
  <1> DEFINE k == Head(stack).id[1]
             ids == Object(Head(stack).id).refs
             f == Fresh
  <1>1. /\ TypeOK /\ Loads /\ Loading(Head(stack)) /\ k \in Nums
        /\ node \in [NodeIds -> {Freed} \cup NodeRecords]
        /\ cache \in [Nums -> NodeIds \cup {None}] /\ loads \in [Nums -> Nat]
    BY GetContext DEF TypeOK
  <1>2. /\ InUse(Head(stack).id) /\ cache[k] = None /\ Live # NodeIds
        /\ Object(Head(stack).id).kind = "plain"
    BY DEF GetLoaded
  <1>21. PICK cached \in Insertions(k) :
               /\ cache' = IF cached THEN [cache EXCEPT ![k] = f] ELSE cache
               /\ Return(f, [node EXCEPT ![f] = Node(LoadedRefs(cached), ids)], Tail(stack))
    BY Zenon DEF GetLoaded
  <1>22. /\ cached \in BOOLEAN /\ cached => k # 0
         /\ ~cached => k = 0 \/ CacheMayFail
    BY DEF Insertions
  <1>3. /\ cached \in BOOLEAN /\ cached => k # 0
        /\ ~cached => k = 0 \/ CacheMayFail
        /\ cache' = IF cached THEN [cache EXCEPT ![k] = f] ELSE cache
        /\ Return(f, [node EXCEPT ![f] = Node(LoadedRefs(cached), ids)], Tail(stack))
    BY <1>21, <1>22, Zenon
  <1>4. loads' = [loads EXCEPT ![k] = @ + 1] /\ lost' = lost BY DEF GetLoaded
  <1>5. f \in NodeIds \ Live BY <1>2, FreshIsFree
  <1>6. /\ phase = "parsed" /\ file.xref[k].type = "inUse" /\ file \in Files
        /\ Object(Head(stack).id) = file.object[file.xref[k].at]
    BY <1>1, <1>2 DEF InUse, Object, TypeOK
  <1>7. ids \in Seq(Ids)
    <2>1. file.xref[k] \in Entries BY <1>1, <1>6, FilesAssumption
    <2>2. file.xref[k].at \in Offsets BY <1>6, <2>1 DEF Entries
    <2>3. Object(Head(stack).id) \in Objects BY <1>6, <2>2, FilesAssumption
    <2> QED BY <1>2, <2>3 DEF Objects
  <1> DEFINE refs == LoadedRefs(cached)
             new == Node(refs, ids)
             nodes == [node EXCEPT ![f] = new]
  <1>8. refs \in Nat BY DEF LoadedRefs
  <1> HIDE DEF ids, refs, f
  <1>9. /\ new \in NodeRecords /\ new # Freed
        /\ \A i \in DOMAIN new.slots : new.slots[i].value = None
    <2>1. /\ new \in NodeRecords /\ new # Freed /\ DOMAIN new.slots = DOMAIN ids
          /\ \A i \in DOMAIN ids : new.slots[i].value = None
      BY <1>7, <1>8, NodeType
    <2> HIDE DEF new
    <2> QED BY <2>1
  <1>10. Return(f, nodes, Tail(stack)) BY <1>3, Zenon DEF refs
  <1> HIDE DEF new
  <1>11. /\ nodes \in [NodeIds -> {Freed} \cup NodeRecords]
         /\ nodes[f] = new /\ \A m \in NodeIds : m # f => nodes[m] = node[m]
    BY <1>1, <1>5, <1>9
  <1> HIDE DEF nodes
  <1>12. /\ \A m \in Live : nodes[m] # Freed /\ nodes[m].slots = node[m].slots
         /\ \A m \in NodeIds \ Live : nodes[m] # Freed =>
                \A i \in DOMAIN nodes[m].slots : nodes[m].slots[i].value = None
    BY <1>5, <1>9, <1>11 DEF Live
  <1>13. /\ \A m \in Nums : cache[m] # None => cache'[m] = cache[m]
         /\ ~CacheMayFail /\ k # 0 => cache'[k] = f
         /\ cache' \in [Nums -> NodeIds \cup {None}]
    <2> HIDE DEF k
    <2> QED BY <1>1, <1>2, <1>3, <1>5
  <1>14. /\ node' \in [NodeIds -> {Freed} \cup NodeRecords]
         /\ held' \in [NodeIds -> Nat] /\ stack' \in Seq(Calls)
         /\ OneKind' /\ Targets' /\ Apart' /\ Agree' /\ TearDown' /\ Sticks
    BY <1>1, <1>5, <1>10, <1>11, <1>12, <1>13, ReturnInv
  <1>15. TypeOK'
    <2>1. loads' \in [Nums -> Nat] BY <1>1, <1>4
    <2> QED BY <1>1, <1>4, <1>13, <1>14, <2>1 DEF TypeOK
  <1>16. Loads'
    <2> SUFFICES ASSUME ~CacheMayFail, NEW m \in Nums \ {0}, Plain(m)
                 PROVE  /\ loads'[m] <= 1
                        /\ phase' # "destroyed" /\ cache'[m] = None => loads'[m] = 0
      BY DEF Loads, Plain
    <2>1. /\ loads[m] <= 1
          /\ phase # "destroyed" /\ cache[m] = None => loads[m] = 0
      BY <1>1 DEF Loads
    <2> HIDE DEF k
    <2>2. CASE m = k
      <3>1. loads[m] = 0 BY <1>2, <1>6, <2>1, <2>2
      <3>2. loads'[m] = 1 BY <1>1, <1>4, <2>2, <3>1
      <3>3. cache'[m] # None BY <1>5, <1>13, <2>2, NodeIdsAssumption
      <3> QED BY <3>2, <3>3
    <2>3. CASE m # k
      <3>1. loads'[m] = loads[m] BY <1>1, <1>4, <2>3
      <3>2. cache'[m] = None => cache[m] = None BY <1>13
      <3> QED BY <2>1, <3>1, <3>2
    <2> QED BY <2>2, <2>3
  <1> QED BY <1>14, <1>15, <1>16 DEF IInv

\* Where the elements of a sequence go when two are put in front of it.
LEMMA TwoOnTop ==
    ASSUME NEW S, NEW rest \in Seq(S), NEW c \in S, NEW d \in S
    PROVE  /\ <<c, d>> \o rest \in Seq(S) /\ Len(<<c, d>> \o rest) = Len(rest) + 2
           /\ (<<c, d>> \o rest)[1] = c /\ (<<c, d>> \o rest)[2] = d
           /\ \A i \in 3..Len(<<c, d>> \o rest) : (<<c, d>> \o rest)[i] = rest[i - 2]
  <1> DEFINE two == <<c, d>>
             q == two \o rest
  <1>1. two \in Seq(S) /\ Len(two) = 2 /\ two[1] = c /\ two[2] = d OBVIOUS
  <1> HIDE DEF two
  <1>2. /\ q \in Seq(S) /\ Len(q) = 2 + Len(rest) /\ Len(rest) \in Nat
        /\ \A i \in 1..(2 + Len(rest)) : q[i] = IF i <= 2 THEN two[i] ELSE rest[i - 2]
    <2>1. /\ q \in Seq(S) /\ Len(q) = Len(two) + Len(rest)
          /\ \A i \in 1..(Len(two) + Len(rest)) :
                 q[i] = IF i <= Len(two) THEN two[i] ELSE rest[i - Len(two)]
      BY <1>1, ConcatProperties, Zenon
    <2> HIDE DEF q
    <2>2. Len(rest) \in Nat OBVIOUS
    <2> QED BY <1>1, <2>1, <2>2
  <1> HIDE DEF q
  <1>3. q[1] = c /\ q[2] = d BY <1>1, <1>2
  <1>4. \A i \in 3..Len(q) : q[i] = rest[i - 2] BY <1>2
  <1>5. Len(q) = Len(rest) + 2 BY <1>2
  <1> QED BY <1>2, <1>3, <1>4, <1>5, Zenon DEF q, two

\* The calls that resolve the Length of the new dictionary f.
LengthCalls(f, id, slot) ==
    <<[call |-> "get", id |-> id, slot |-> <<f, 1>>], [call |-> "seek", slot |-> slot]>>

\* A stream with a Length that is a reference: the new dictionary waits for
\* its only reference node.
LEMMA LengthCallInv ==
    ASSUME IInv, stack # <<>>, Loading(Head(stack)), NEW f \in NodeIds \ Live, NEW id \in Ids,
           stack' = LengthCalls(f, id, Head(stack).slot) \o Tail(stack),
           \A n \in NodeIds : n # f => node'[n] = node[n],
           node'[f] # Freed, 1 \in DOMAIN node'[f].slots,
           node'[f].slots[1].id = id, node'[f].slots[1].value = None
    PROVE  stack' \in Seq(Calls) /\ OneKind' /\ Targets' /\ Apart' /\ TearDown'
  <1> DEFINE c == [call |-> "get", id |-> id, slot |-> <<f, 1>>]
             d == [call |-> "seek", slot |-> Head(stack).slot]
  <1>1. stack \in Seq(Calls) /\ Head(stack) \in Calls BY DEF IInv, TypeOK
  <1>2. Head(stack).slot \in (NodeIds \X Nat) \cup {None} BY <1>1 DEF Calls, Loading
  <1>3. /\ c \in Calls /\ c.call = "get" /\ c.slot = <<f, 1>> /\ c.id = id
        /\ c.slot[1] = f /\ c.slot[2] = 1
    BY DEF Calls
  <1>4. d \in Calls /\ d.call = "seek" /\ d.slot = Head(stack).slot BY <1>2 DEF Calls
  <1>5. stack' = <<c, d>> \o Tail(stack) BY Zenon DEF LengthCalls
  <1> HIDE DEF c, d, Calls
  <1>6. /\ stack' \in Seq(Calls) /\ stack'[1] = c /\ stack'[2] = d
        /\ \A i \in DOMAIN stack' : i # 1 /\ i # 2 =>
               i - 1 \in DOMAIN stack /\ i - 1 # 1 /\ stack'[i] = stack[i - 1]
    <2> DEFINE rest == Tail(stack)
    <2>1. /\ rest \in Seq(Calls) /\ Len(rest) = Len(stack) - 1
          /\ \A i \in 1..Len(rest) : i + 1 \in DOMAIN stack /\ rest[i] = stack[i + 1]
      BY <1>1
    <2> HIDE DEF rest
    <2>2. stack' = <<c, d>> \o rest BY <1>5 DEF rest
    <2>3. c \in Calls /\ d \in Calls BY <1>3, <1>4
    <2>4. /\ stack' \in Seq(Calls) /\ Len(stack') = Len(rest) + 2
          /\ stack'[1] = c /\ stack'[2] = d
          /\ \A i \in 3..Len(stack') : stack'[i] = rest[i - 2]
      <3> DEFINE q == <<c, d>> \o rest
      <3>1. /\ q \in Seq(Calls) /\ Len(q) = Len(rest) + 2 /\ q[1] = c /\ q[2] = d
            /\ \A i \in 3..Len(q) : q[i] = rest[i - 2]
        BY <2>1, <2>3, TwoOnTop
      <3>2. stack' = q BY <2>2
      <3> HIDE DEF q
      <3> QED BY <3>1, <3>2
    <2>6. \A i \in 3..Len(stack') : i - 1 \in DOMAIN stack /\ stack'[i] = stack[i - 1]
      <3> SUFFICES ASSUME NEW i \in 3..Len(stack')
                   PROVE  i - 1 \in DOMAIN stack /\ stack'[i] = stack[i - 1]
        OBVIOUS
      <3>1. Len(rest) \in Nat BY <2>1
      <3>2. i - 2 \in 1..Len(rest) /\ (i - 2) + 1 = i - 1 BY <2>4, <3>1
      <3>3. (i - 2) + 1 \in DOMAIN stack /\ rest[i - 2] = stack[(i - 2) + 1] BY <2>1, <3>2
      <3> QED BY <2>4, <3>2, <3>3
    <2>7. DOMAIN stack' = 1..(Len(rest) + 2) /\ Len(rest) \in Nat BY <2>1, <2>4
    <2>8. \A i \in DOMAIN stack' : i = 1 \/ i = 2 \/ (i \in 3..Len(stack') /\ i - 1 # 1)
      BY <2>4, <2>7
    <2>9. ASSUME NEW i \in DOMAIN stack', i # 1, i # 2
          PROVE  i - 1 \in DOMAIN stack /\ i - 1 # 1 /\ stack'[i] = stack[i - 1]
      <3>1. i \in 3..Len(stack') /\ i - 1 # 1 BY <2>8, <2>9
      <3> QED BY <3>1, <2>6
    <2> QED BY <2>4, <2>9
  <1>7. 1 \in DOMAIN stack /\ Head(stack) = stack[1] BY <1>1
  <1>8. \A i \in DOMAIN stack : Loading(stack[i]) BY <1>7 DEF IInv, OneKind
  <1>9. ASSUME NEW i \in DOMAIN stack' PROVE Loading(stack'[i])
    <2>1. CASE i = 1 \/ i = 2 BY <2>1, <1>3, <1>4, <1>6 DEF Loading
    <2>2. CASE i # 1 /\ i # 2 BY <2>2, <1>6, <1>8 DEF Loading
    <2> QED BY <2>1, <2>2
  <1>14. OneKind' BY <1>9 DEF OneKind, Loading
  <1>15. TearDown' BY <1>9 DEF TearDown, Loading
  <1>10. \A i \in DOMAIN stack : stack[i].slot # None => stack[i].slot[1] # f
    BY <1>8 DEF IInv, Targets
  <1>11. ASSUME NEW i \in DOMAIN stack', i # 1
         PROVE  \E j \in DOMAIN stack :
                    /\ stack'[i].slot = stack[j].slot
                    /\ j = i - 1
                    /\ stack'[i].call = "get" => stack'[i] = stack[j]
    <2>1. CASE i = 2 BY <2>1, <1>4, <1>6, <1>7
    <2>2. CASE i # 2 BY <2>2, <1>11, <1>6
    <2> QED BY <2>1, <2>2
  <1>12. Targets'
    <2> SUFFICES ASSUME NEW i \in DOMAIN stack', Loading(stack'[i]), stack'[i].slot # None
                 PROVE  LET n == stack'[i].slot[1]
                            s == stack'[i].slot[2]
                        IN  /\ n \in Live' /\ s \in DOMAIN node'[n].slots
                            /\ node'[n].slots[s].value = None
                            /\ stack'[i].call = "get" => node'[n].slots[s].id = stack'[i].id
      BY DEF Targets, Loading
    <2>1. CASE i = 1
      <3>1. stack'[i] = c /\ f \in Live' BY <2>1, <1>6 DEF Live
      <3> QED BY <3>1, <1>3
    <2>2. CASE i # 1
      <3>1. PICK j \in DOMAIN stack :
               /\ stack'[i].slot = stack[j].slot
               /\ stack'[i].call = "get" => stack'[i] = stack[j]
        BY <2>2, <1>11
      <3> DEFINE n == stack[j].slot[1]
                 s == stack[j].slot[2]
      <3>2. /\ n \in Live /\ s \in DOMAIN node[n].slots
            /\ node[n].slots[s].value = None
            /\ stack[j].call = "get" => node[n].slots[s].id = stack[j].id
        BY <3>1, <1>8 DEF IInv, Targets
      <3>3. n # f /\ n \in NodeIds BY <3>2 DEF Live
      <3>4. node'[n] = node[n] /\ n \in Live' BY <3>2, <3>3 DEF Live
      <3> QED BY <3>1, <3>2, <3>4
    <2> QED BY <2>1, <2>2
  <1>13. Apart'
    <2>0. SUFFICES ASSUME NEW i \in DOMAIN stack', NEW j \in DOMAIN stack', i # j,
                          stack'[i].slot # None
                   PROVE  stack'[i].slot # stack'[j].slot
      BY ONLY <2>0 DEF Apart
    <2>1. CASE i # 1 /\ j # 1
      <3>1. PICK k \in DOMAIN stack : k = i - 1 /\ stack'[i].slot = stack[k].slot
        BY <2>1, <1>11
      <3>2. PICK l \in DOMAIN stack : l = j - 1 /\ stack'[j].slot = stack[l].slot
        BY <2>1, <1>11
      <3>3. i \in Nat /\ j \in Nat
        <4>1. DOMAIN stack' = 1..Len(stack') /\ Len(stack') \in Nat BY <1>6
        <4> QED BY ONLY i \in DOMAIN stack', j \in DOMAIN stack', <4>1
      <3>4. k = i - 1 /\ l = j - 1 BY <3>1, <3>2
      <3>5. k # l BY ONLY <2>0, <3>3, <3>4
      <3> QED BY <3>1, <3>2, <3>5, <2>0, <1>8 DEF IInv, Apart
    <2>2. CASE i = 1 /\ j # 1
      <3>1. PICK l \in DOMAIN stack : stack'[j].slot = stack[l].slot BY <2>2, <1>11
      <3> QED BY <2>0, <3>1, <2>2, <1>3, <1>6, <1>10
    <2>3. CASE i # 1 /\ j = 1
      <3>1. PICK k \in DOMAIN stack : stack'[i].slot = stack[k].slot BY <2>3, <1>11
      <3> QED BY <2>0, <3>1, <2>3, <1>3, <1>6, <1>10
    <2> QED BY <2>0, <2>1, <2>2, <2>3
  <1> QED BY <1>6, <1>12, <1>13, <1>14, <1>15

\* A stream object, whose Length may start a nested load, keeps the invariant.
LEMMA GetStreamInv ==
    ASSUME IInv, stack # <<>>, Head(stack).call = "get", GetStream,
           UNCHANGED <<file, phase, trailer>>
    PROVE  IInv' /\ Sticks
  <1> DEFINE k == Head(stack).id[1]
             object == Object(Head(stack).id)
             f == Fresh
  <1>1. /\ TypeOK /\ Loads /\ Loading(Head(stack)) /\ k \in Nums
        /\ node \in [NodeIds -> {Freed} \cup NodeRecords]
        /\ cache \in [Nums -> NodeIds \cup {None}] /\ loads \in [Nums -> Nat]
        /\ held \in [NodeIds -> Nat] /\ lost \subseteq NodeIds
    BY GetContext DEF TypeOK
  <1>2. /\ InUse(Head(stack).id) /\ Live # NodeIds /\ object.kind = "stream"
        /\ loads' = [loads EXCEPT ![k] = @ + 1] /\ lost' = lost \cup {f}
        /\ cache' = cache
        /\ IF object.length = None
             THEN Return(None, [node EXCEPT ![f] = Node(1, <<>>)], Tail(stack))
             ELSE /\ node' = [node EXCEPT ![f] = Node(1, <<object.length>>)]
                  /\ stack' = <<[call |-> "get", id |-> object.length, slot |-> <<f, 1>>],
                                [call |-> "seek", slot |-> Head(stack).slot]>>
                              \o Tail(stack)
                  /\ held' = held
    BY Zenon DEF GetStream
  <1>3. f \in NodeIds \ Live BY <1>2, FreshIsFree
  <1>4. /\ phase = "parsed" /\ file \in Files /\ file.xref[k].type = "inUse"
        /\ object = file.object[file.xref[k].at]
    BY <1>1, <1>2 DEF InUse, Object, TypeOK
  <1>5. object.length \in Ids \cup {None}
    <2>1. file.xref[k] \in Entries BY <1>1, <1>4, FilesAssumption
    <2>2. file.xref[k].at \in Offsets BY <1>4, <2>1 DEF Entries
    <2>3. object \in Objects BY <1>4, <2>2, FilesAssumption
    <2> HIDE DEF object
    <2> QED BY <1>2, <2>3 DEF Objects
  <1>6. ~Plain(k) BY <1>2, <1>4 DEF Plain
  <1>7. Loads'
    <2> HIDE DEF k
    <2> SUFFICES ASSUME ~CacheMayFail, NEW m \in Nums \ {0}, Plain(m)
                 PROVE  /\ loads'[m] <= 1
                        /\ phase' # "destroyed" /\ cache'[m] = None => loads'[m] = 0
      BY DEF Loads, Plain
    <2>1. loads'[m] = loads[m] BY <1>1, <1>2, <1>6
    <2> QED BY <1>1, <1>2, <2>1 DEF Loads
  <1>8. loads' \in [Nums -> Nat] /\ lost' \subseteq NodeIds BY <1>1, <1>2, <1>3
  <1> HIDE DEF f, object
  <1>9. CASE object.length = None
    <2> DEFINE new == Node(1, <<>>)
               nodes == [node EXCEPT ![f] = new]
    <2>1. /\ new \in NodeRecords /\ new # Freed
          /\ \A i \in DOMAIN new.slots : new.slots[i].value = None
      <3> DEFINE ids == <<>>
      <3>1. ids \in Seq(Ids) OBVIOUS
      <3> HIDE DEF ids
      <3>2. /\ Node(1, ids) \in NodeRecords /\ Node(1, ids) # Freed
            /\ \A i \in DOMAIN Node(1, ids).slots : Node(1, ids).slots[i].value = None
        BY <3>1, NodeType
      <3>3. ids = <<>> BY DEF ids
      <3> QED BY <3>2, <3>3, Zenon
    <2>2. Return(None, nodes, Tail(stack)) BY <1>2, <1>9
    <2> HIDE DEF new
    <2>3. /\ nodes \in [NodeIds -> {Freed} \cup NodeRecords]
          /\ nodes[f] = new /\ \A m \in NodeIds : m # f => nodes[m] = node[m]
      BY <1>1, <1>3, <2>1
    <2> HIDE DEF nodes
    <2>4. /\ \A m \in Live : nodes[m] # Freed /\ nodes[m].slots = node[m].slots
          /\ \A m \in NodeIds \ Live : nodes[m] # Freed =>
                 \A i \in DOMAIN nodes[m].slots : nodes[m].slots[i].value = None
      BY <1>3, <2>1, <2>3 DEF Live
    <2>5. /\ node' \in [NodeIds -> {Freed} \cup NodeRecords]
          /\ held' \in [NodeIds -> Nat] /\ stack' \in Seq(Calls)
          /\ OneKind' /\ Targets' /\ Apart' /\ Agree' /\ TearDown' /\ Sticks
      BY <1>1, <1>2, <2>2, <2>3, <2>4, ReturnInv
    <2> QED BY <1>1, <1>2, <1>7, <1>8, <2>5 DEF IInv, TypeOK
  <1>10. CASE object.length # None
    <2> DEFINE new == Node(1, <<object.length>>)
    <2>1. /\ new \in NodeRecords /\ new # Freed /\ DOMAIN new.slots = {1}
          /\ new.slots[1].id = object.length /\ new.slots[1].value = None
      <3> DEFINE ids == <<object.length>>
      <3>1. ids \in Seq(Ids) /\ DOMAIN ids = {1} /\ ids[1] = object.length BY <1>5, <1>10
      <3> HIDE DEF ids
      <3>2. /\ Node(1, ids) \in NodeRecords /\ Node(1, ids) # Freed
            /\ DOMAIN Node(1, ids).slots = {1}
            /\ Node(1, ids).slots[1].id = ids[1] /\ Node(1, ids).slots[1].value = None
        BY SMTT(30), <3>1, NodeType
      <3>3. ids = <<object.length>> BY DEF ids
      <3> QED BY <3>1, <3>2, <3>3, Zenon
    <2>2. /\ node' = [node EXCEPT ![f] = new] /\ held' = held
          /\ stack' = LengthCalls(f, object.length, Head(stack).slot) \o Tail(stack)
      BY <1>2, <1>10, Zenon DEF LengthCalls
    <2> HIDE DEF new
    <2>3. /\ node' \in [NodeIds -> {Freed} \cup NodeRecords]
          /\ node'[f] = new /\ \A m \in NodeIds : m # f => node'[m] = node[m]
      BY <1>1, <1>3, <2>1, <2>2
    <2>4. stack' \in Seq(Calls) /\ OneKind' /\ Targets' /\ Apart' /\ TearDown'
      BY <1>1, <1>3, <1>5, <1>10, <2>1, <2>2, <2>3, LengthCallInv
    <2>6. \A m \in Live' :
             \/ m \in Live /\ node'[m].slots = node[m].slots
             \/ m \notin Live /\ \A i \in DOMAIN node'[m].slots : node'[m].slots[i].value = None
      BY <1>3, <2>1, <2>3 DEF Live
    <2>7. Agree' /\ Sticks BY <1>2, <2>6, QuietHeap
    <2>8. TypeOK' BY <1>1, <1>2, <1>8, <2>2, <2>3, <2>4 DEF TypeOK
    <2> QED BY <1>7, <2>4, <2>7, <2>8 DEF IInv
  <1> QED BY <1>9, <1>10

-----------------------------------------------------------------------------
(* Releases *)

\* Releasing calls on top of releasing calls, or one of them returning.
LEMMA ReleasingCalls ==
    ASSUME IInv, stack # <<>>, ~Loading(Head(stack)), phase' = phase,
           NEW calls \in Seq(Calls), \A i \in DOMAIN calls : calls[i].call \in {"release", "free"},
           stack' = calls \o Tail(stack)
    PROVE  stack' \in Seq(Calls) /\ OneKind' /\ Targets' /\ Apart' /\ TearDown'
  <1> DEFINE rest == Tail(stack)
  <1>1. stack \in Seq(Calls) BY DEF IInv, TypeOK
  <1>2. /\ rest \in Seq(Calls) /\ Len(rest) = Len(stack) - 1
        /\ \A i \in 1..Len(rest) : i + 1 \in DOMAIN stack /\ rest[i] = stack[i + 1]
    BY <1>1
  <1>3. 1 \in DOMAIN stack /\ Head(stack) = stack[1] BY <1>1
  <1>4. \A i \in DOMAIN stack : ~Loading(stack[i]) BY <1>3 DEF IInv, OneKind
  <1> HIDE DEF rest, Calls
  <1>5. stack' = calls \o rest BY DEF rest
  <1>6. /\ calls \o rest \in Seq(Calls) /\ Len(calls \o rest) = Len(calls) + Len(rest)
        /\ \A i \in 1..(Len(calls) + Len(rest)) :
               (calls \o rest)[i] = IF i <= Len(calls) THEN calls[i] ELSE rest[i - Len(calls)]
    BY <1>2, ConcatProperties
  <1>7. /\ stack' \in Seq(Calls) /\ DOMAIN stack' = 1..(Len(calls) + Len(rest))
        /\ \A i \in 1..(Len(calls) + Len(rest)) :
               stack'[i] = IF i <= Len(calls) THEN calls[i] ELSE rest[i - Len(calls)]
    <2> DEFINE q == calls \o rest
    <2>1. /\ q \in Seq(Calls) /\ Len(q) = Len(calls) + Len(rest)
          /\ \A i \in 1..(Len(calls) + Len(rest)) :
                 q[i] = IF i <= Len(calls) THEN calls[i] ELSE rest[i - Len(calls)]
      BY <1>6
    <2>2. stack' = q BY <1>5
    <2> HIDE DEF q
    <2>3. DOMAIN q = 1..(Len(calls) + Len(rest)) BY <2>1
    <2> QED BY <2>1, <2>2, <2>3, Zenon
  <1>8. ASSUME NEW i \in DOMAIN stack'
        PROVE  \/ stack'[i].call \in {"release", "free"}
               \/ \E j \in DOMAIN stack : stack'[i] = stack[j]
    <2>1. Len(calls) \in Nat /\ Len(rest) \in Nat BY <1>2
    <2>2. CASE i <= Len(calls)
      <3>1. i \in DOMAIN calls BY <1>7, <2>1, <2>2
      <3>2. stack'[i] = calls[i] BY <1>7, <2>2
      <3> QED BY <3>1, <3>2
    <2>3. CASE ~(i <= Len(calls))
      <3>1. i - Len(calls) \in 1..Len(rest) BY <1>7, <2>1, <2>3
      <3>2. stack'[i] = rest[i - Len(calls)] BY <1>7, <2>3
      <3> QED BY <1>2, <3>1, <3>2
    <2> QED BY <2>2, <2>3
  <1>9. \A i \in DOMAIN stack' : ~Loading(stack'[i])
    <2> SUFFICES ASSUME NEW i \in DOMAIN stack' PROVE ~Loading(stack'[i]) OBVIOUS
    <2>1. CASE stack'[i].call \in {"release", "free"} BY <2>1 DEF Loading
    <2>2. CASE \E j \in DOMAIN stack : stack'[i] = stack[j] BY <2>2, <1>4 DEF Loading
    <2> QED BY <2>1, <2>2, <1>8
  <1>10. OneKind' /\ Targets' /\ Apart' BY <1>9 DEF OneKind, Targets, Apart, Loading
  <1>11. TearDown'
    <2> SUFFICES ASSUME NEW i \in DOMAIN stack', stack'[i].call = "cache"
                 PROVE  phase = "destroyed"
      BY DEF TearDown
    <2>1. PICK j \in DOMAIN stack : stack'[i] = stack[j] BY <1>8
    <2> QED BY <2>1 DEF IInv, TearDown
  <1> QED BY <1>7, <1>10, <1>11

\* A call that only returns.
LEMMA ReturningCall ==
    ASSUME IInv, stack # <<>>, ~Loading(Head(stack)), phase' = phase, stack' = Tail(stack)
    PROVE  stack' \in Seq(Calls) /\ OneKind' /\ Targets' /\ Apart' /\ TearDown'
  <1>1. stack \in Seq(Calls) BY DEF IInv, TypeOK
  <1> DEFINE none == <<>>
  <1>2. none \in Seq(Calls) /\ DOMAIN none = {} OBVIOUS
  <1>3. stack' = none \o Tail(stack) BY <1>1
  <1> HIDE DEF none
  <1> QED BY <1>2, <1>3, ReleasingCalls

\* Deallocation makes calls of release and free only.
LEMMA DeallocCallsType ==
    ASSUME TypeOK, NEW n \in Live
    PROVE  /\ DeallocCalls(n) \in Seq(Calls)
           /\ \A i \in DOMAIN DeallocCalls(n) : DeallocCalls(n)[i].call \in {"release", "free"}
  <1> DEFINE slots == node[n].slots
             rel == [i \in DOMAIN slots |-> [call |-> "release", n |-> slots[i].value]]
             last == [call |-> "free", n |-> n]
  <1>1. n \in NodeIds /\ slots \in Seq(Slots) BY LiveNode DEF NodeRecords
  <1>2. \A i \in DOMAIN slots : slots[i] \in Slots BY <1>1
  <1>3. \A i \in DOMAIN slots : slots[i].value \in NodeIds \cup {Null, None}
    BY <1>2 DEF Slots
  <1> HIDE DEF slots
  <1>4. \A i \in DOMAIN slots : [call |-> "release", n |-> slots[i].value] \in Calls
    BY <1>3 DEF Calls
  <1>5. last \in Calls /\ last.call = "free" BY <1>1 DEF Calls
  <1>6. /\ \A i \in DOMAIN slots : rel[i] \in Calls /\ rel[i].call = "release"
        /\ DOMAIN rel = DOMAIN slots
    BY <1>4
  <1>7. rel \in Seq(Calls)
    <2> HIDE DEF Calls
    <2> QED BY <1>1, <1>4
  <1>8. DeallocCalls(n) = Append(rel, last)
    <2>1. DeallocCalls(n) = rel \o <<last>> BY Zenon DEF DeallocCalls, slots
    <2> HIDE DEF rel, last, Calls
    <2> QED BY <2>1, <1>5, <1>7
  <1> HIDE DEF rel, last, Calls
  <1> QED BY <1>5, <1>6, <1>7, <1>8

\* One step of a release cascade keeps the invariant.
LEMMA ReleaseStepInv ==
    ASSUME IInv, stack # <<>>, Head(stack).call \in {"release", "destroy", "free"}, ReleaseStep,
           UNCHANGED <<file, phase, trailer>>
    PROVE  IInv' /\ Sticks
  <1> DEFINE top == Head(stack)
             n == top.n
  <1>1. /\ TypeOK /\ Loads /\ ~Loading(top)
        /\ node \in [NodeIds -> {Freed} \cup NodeRecords]
    BY DEF IInv, TypeOK, Loading
  <1>2. UNCHANGED <<cache, held, loads, lost>> BY DEF ReleaseStep
  <1>3. Loads' BY <1>1, <1>2, QuietLoads
  <1>4. CASE stack' = Tail(stack) /\ node' = node
    <2>1. stack' \in Seq(Calls) /\ OneKind' /\ Targets' /\ Apart' /\ TearDown'
      BY <1>1, <1>4, ReturningCall
    <2>2. Agree' /\ Sticks BY <1>2, <1>4, QuietHeap DEF Live
    <2> QED BY <1>1, <1>2, <1>3, <1>4, <2>1, <2>2 DEF IInv, TypeOK
  <1>5. CASE /\ n \in Live /\ node[n].refs > 1
             /\ node' = [node EXCEPT ![n].refs = @ - 1]
             /\ stack' = Tail(stack)
    <2>1. stack' \in Seq(Calls) /\ OneKind' /\ Targets' /\ Apart' /\ TearDown'
      BY <1>1, <1>5, ReturningCall
    <2> DEFINE new == [node[n] EXCEPT !.refs = @ - 1]
    <2>2. node[n] \in NodeRecords /\ n \in NodeIds BY <1>1, <1>5, LiveNode
    <2>3. new \in NodeRecords /\ new.slots = node[n].slots BY <1>5, <2>2 DEF NodeRecords
    <2>4. node' = [node EXCEPT ![n] = new] BY <1>5, Zenon
    <2> HIDE DEF new, n
    <2>5. /\ node' \in [NodeIds -> {Freed} \cup NodeRecords]
          /\ node'[n] = new /\ \A m \in NodeIds : m # n => node'[m] = node[m]
      BY <1>1, <2>2, <2>3, <2>4
    <2>6. \A m \in Live' : m \in Live /\ node'[m].slots = node[m].slots
      BY <1>5, <2>2, <2>3, <2>5 DEF Live
    <2>7. Agree' /\ Sticks BY <1>2, <2>6, QuietHeap
    <2> QED BY <1>1, <1>2, <1>3, <2>1, <2>5, <2>7 DEF IInv, TypeOK
  <1>6. CASE n \in Live /\ stack' = DeallocCalls(n) \o Tail(stack) /\ node' = node
    <2>1. stack' \in Seq(Calls) /\ OneKind' /\ Targets' /\ Apart' /\ TearDown'
      BY <1>1, <1>6, DeallocCallsType, ReleasingCalls
    <2>2. Agree' /\ Sticks BY <1>2, <1>6, QuietHeap DEF Live
    <2> QED BY <1>1, <1>2, <1>3, <1>6, <2>1, <2>2 DEF IInv, TypeOK
  <1>7. CASE n \in Live /\ stack' = Tail(stack) /\ node' = [node EXCEPT ![n] = Freed]
    <2>1. stack' \in Seq(Calls) /\ OneKind' /\ Targets' /\ Apart' /\ TearDown'
      BY <1>1, <1>7, ReturningCall
    <2> HIDE DEF n
    <2>2. /\ node' \in [NodeIds -> {Freed} \cup NodeRecords]
          /\ \A m \in Live' : m \in Live /\ node'[m] = node[m]
      BY <1>1, <1>7 DEF Live
    <2>3. Agree' /\ Sticks BY <1>2, <2>2, QuietHeap
    <2> QED BY <1>1, <1>2, <1>3, <2>1, <2>2, <2>3 DEF IInv, TypeOK
  <1> QED BY <1>4, <1>5, <1>6, <1>7, Zenon DEF ReleaseStep

\* One step of the destruction of the cache keeps the invariant.
LEMMA CacheStepInv ==
    ASSUME IInv, stack # <<>>, Head(stack).call = "cache", CacheStep,
           UNCHANGED <<file, phase, trailer>>
    PROVE  IInv' /\ Sticks
  <1>1. /\ TypeOK /\ Loads /\ ~Loading(Head(stack)) /\ stack \in Seq(Calls)
        /\ cache \in [Nums -> NodeIds \cup {None}]
    BY DEF IInv, TypeOK, Loading
  <1>2. phase = "destroyed" /\ phase' = "destroyed"
    <2>1. 1 \in DOMAIN stack /\ Head(stack) = stack[1] BY <1>1
    <2> QED BY <2>1 DEF IInv, TearDown
  <1>3. UNCHANGED <<node, held, loads, lost>> BY DEF CacheStep
  <1>4. Loads' /\ Agree' /\ Sticks BY <1>1, <1>2, <1>3, QuietLoads, QuietHeap DEF Live
  <1>5. CASE stack' = Tail(stack) /\ cache' = cache
    BY <1>1, <1>3, <1>4, <1>5, ReturningCall DEF IInv, TypeOK
  <1>6. ASSUME NEW k \in Nums, cache[k] # None,
               stack' = <<[call |-> "release", n |-> cache[k]]>> \o stack,
               cache' = [cache EXCEPT ![k] = None]
        PROVE  IInv'
    <2> DEFINE c == [call |-> "release", n |-> cache[k]]
               calls == <<c, Head(stack)>>
    <2>1. c \in Calls /\ c.call = "release" BY <1>1 DEF Calls
    <2>2. \A i \in DOMAIN stack : ~Loading(stack[i])
      <3>1. 1 \in DOMAIN stack /\ Head(stack) = stack[1] BY <1>1
      <3> QED BY <1>1, <3>1 DEF IInv, OneKind
    <2> HIDE DEF c, Calls
    <2>3. /\ stack' \in Seq(Calls)
          /\ \A i \in DOMAIN stack' :
                 stack'[i] = c \/ \E j \in DOMAIN stack : stack'[i] = stack[j]
      <3> DEFINE one == <<c>>
                 q == one \o stack
      <3>1. one \in Seq(Calls) /\ Len(one) = 1 /\ one[1] = c BY <2>1
      <3> HIDE DEF one
      <3>2. /\ q \in Seq(Calls) /\ Len(q) = Len(one) + Len(stack)
            /\ \A i \in 1..(Len(one) + Len(stack)) :
                   q[i] = IF i <= Len(one) THEN one[i] ELSE stack[i - Len(one)]
        BY <1>1, <3>1, ConcatProperties, Zenon
      <3>3. stack' = q BY <1>6, Zenon DEF c, one
      <3> HIDE DEF q
      <3>4. Len(stack) \in Nat /\ DOMAIN stack = 1..Len(stack) BY <1>1
      <3>5. ASSUME NEW i \in DOMAIN q
            PROVE  q[i] = c \/ \E j \in DOMAIN stack : q[i] = stack[j]
        <4>1. i \in 1..(1 + Len(stack)) BY <3>1, <3>2
        <4>2. CASE i = 1 BY <4>2, <3>1, <3>2, <3>4
        <4>3. CASE i # 1
          <5>1. i - 1 \in DOMAIN stack BY <4>1, <4>3, <3>4
          <5>2. q[i] = stack[i - 1] BY <4>1, <4>3, <3>1, <3>2, <3>4
          <5> QED BY <5>1, <5>2
        <4> QED BY <4>2, <4>3
      <3> QED BY <3>2, <3>3, <3>5
    <2>4. ASSUME NEW i \in DOMAIN stack' PROVE ~Loading(stack'[i])
      <3>1. CASE stack'[i] = c BY <2>1, <3>1 DEF Loading
      <3>2. CASE \E j \in DOMAIN stack : stack'[i] = stack[j] BY <2>2, <3>2 DEF Loading
      <3> QED BY <2>3, <3>1, <3>2
    <2>5. OneKind' /\ Targets' /\ Apart' /\ TearDown'
      BY <1>2, <2>4 DEF OneKind, Targets, Apart, TearDown, Loading
    <2>6. cache' \in [Nums -> NodeIds \cup {None}] BY <1>1, <1>6
    <2> QED BY <1>1, <1>3, <1>4, <2>3, <2>5, <2>6 DEF IInv, TypeOK
  <1> QED BY <1>4, <1>5, <1>6, Zenon DEF CacheStep

-----------------------------------------------------------------------------

\* Every step keeps the invariant and resolves no reference node again.
LEMMA NextInv == IInv /\ [Next]_vars => IInv' /\ (Sticks \/ UNCHANGED vars)
  <1> SUFFICES ASSUME IInv, [Next]_vars PROVE IInv' /\ (Sticks \/ UNCHANGED vars) OBVIOUS
  <1>1. CASE Parsed BY <1>1, ParsedInv
  <1>2. ASSUME NEW id \in Ids, GetObject(id) PROVE IInv' /\ Sticks BY <1>2, GetObjectInv
  <1>3. ASSUME NEW n \in NodeIds, Retain(n) PROVE IInv' /\ Sticks BY <1>3, RetainInv
  <1>4. ASSUME NEW n \in NodeIds, Release(n) PROVE IInv' /\ Sticks BY <1>4, ReleaseInv
  <1>5. ASSUME NEW n \in Live, NEW i \in DOMAIN node[n].slots, Resolve(n, i)
        PROVE  IInv' /\ Sticks
    BY <1>5, ResolveInv
  <1>6. CASE DestroyDoc BY <1>6, DestroyDocInv
  <1>7. CASE Step
    <2>1. stack # <<>> /\ UNCHANGED <<file, phase, trailer>> BY <1>7 DEF Step
    <2>2. CASE Head(stack).call = "get" /\ (GetRefused \/ GetCached \/ GetLoaded \/ GetStream)
      BY <2>1, <2>2, GetRefusedInv, GetCachedInv, GetLoadedInv, GetStreamInv
    <2>3. CASE Head(stack).call = "seek" /\ SeekFails BY <2>1, <2>3, SeekFailsInv
    <2>4. CASE Head(stack).call \in {"release", "destroy", "free"} /\ ReleaseStep
      BY <2>1, <2>4, ReleaseStepInv
    <2>5. CASE Head(stack).call = "cache" /\ CacheStep BY <2>1, <2>5, CacheStepInv
    <2> QED BY <1>7, <2>2, <2>3, <2>4, <2>5 DEF Step
  <1>8. CASE UNCHANGED vars
    BY ZenonT(30), <1>8 DEF vars, IInv, TypeOK, OneKind, Targets, Apart, Agree, TearDown, Loads,
                Plain, Loading, Live
  <1> QED BY <1>1, <1>2, <1>3, <1>4, <1>5, <1>6, <1>7, <1>8 DEF Next

\* The invariant holds in every state.
LEMMA Invariance == Spec => []IInv
  <1>1. IInv /\ [Next]_vars => IInv' BY NextInv
  <1> QED BY <1>1, InitInv, PTL DEF Spec

\* Every variable keeps its type, whatever the files hold and however the
\* calls of CosDoc.c nest.
THEOREM TypeOKAlways == Spec => []TypeOK
  <1>1. IInv => TypeOK BY DEF IInv
  <1> QED BY <1>1, Invariance, PTL

\* All references to an object lead to the one node the cache holds, for
\* every file and every order of loads and releases (CosDoc.c:115-196).
THEOREM OneNodePerObjectAlways == Spec => []OneNodePerObject
  <1>1. IInv => OneNodePerObject BY DEF IInv, Agree, OneNodePerObject
  <1> QED BY <1>1, Invariance, PTL

\* An object that can be loaded is parsed once in the life of a document
\* (CosDoc.c:162-193, CosObjCache.c).
THEOREM LoadedOnceAlways == Spec => []LoadedOnce
  <1>1. IInv => LoadedOnce BY DEF IInv, Loads, Plain, LoadedOnce
  <1> QED BY <1>1, Invariance, PTL

\* A resolved reference keeps its value as long as its node exists
\* (CosReferenceObjNode.c:101-125).
THEOREM ResolutionSticksAlways == Spec => ResolutionSticks
  <1> DEFINE A == \A n \in NodeIds :
                     n \in Live /\ n \in Live' =>
                       \A i \in DOMAIN node[n].slots :
                         node[n].slots[i].value # None =>
                             node'[n].slots[i].value = node[n].slots[i].value
  <1>1. Sticks => A BY Zenon DEF Sticks
  <1>2. IInv /\ [Next]_vars => [A]_vars BY <1>1, NextInv
  <1> QED BY <1>2, Invariance, PTL DEF Spec, ResolutionSticks

-----------------------------------------------------------------------------
(* The reference counts: they are exact whatever the files hold, however   *)
(* loads nest and whatever the client retains and releases, until the      *)
(* document and all it held is destroyed.                                  *)

\* The nodes that own what their reference nodes resolved to.
Alive == Live \ Dying

\* The calls that give a reference to n back, the reference nodes that keep one.
CallsOn(n) == [call : {"release", "destroy"}, n : {n}]
SlotsTo(n) == [id : Ids, value : {n}]

\* The reference nodes at every address of the heap h, if D are dying.
Table(h, D) == [m \in NodeIds |-> IF h[m] = Freed \/ m \in D THEN <<>> ELSE h[m].slots]

InSlots(h, D, n) == CountIn(Table(h, D), NodeIds, SlotsTo(n))

\* The references to n, by owner: the client, the cache, nodes, calls in
\* progress, the document for its trailer, and those a failed load lost.
Owed(n) ==
    held[n] + Count(cache, {n}) + InSlots(node, Dying, n) + Count(stack, CallsOn(n))
    + (IF n = trailer THEN 1 ELSE 0) + (IF n \in lost THEN 1 ELSE 0)

\* Nobody owns a reference to a node that is freed or about to be.
Exact == \A n \in NodeIds : Owed(n) = IF n \in Alive THEN node[n].refs ELSE 0

\* A node is freed once.
FreedOnce ==
    /\ Dying \subseteq Live
    /\ \A i, j \in DOMAIN stack :
           stack[i].call = "free" /\ stack[j].call = "free" /\ i # j => stack[i].n # stack[j].n
    /\ \A i \in DOMAIN stack : stack[i].call = "free" => stack[i].n \in NodeIds

\* Nobody shares the trailer dictionary with a document that is parsed.
TrailerOwned ==
    /\ phase # "parsed" => trailer = None
    /\ trailer # None => node[trailer].refs = 1

\* So its destruction, the first thing cos_doc_destroy does, takes it from nobody.
DestroyFirst ==
    \A i \in DOMAIN stack : stack[i].call = "destroy" =>
        i = 1 /\ (stack[i].n # None => stack[i].n \in NodeIds /\ node[stack[i].n].refs = 1)

\* The cache of a document that is destroyed is emptied.
CacheGone ==
    phase = "destroyed" =>
        \/ \E i \in DOMAIN stack : stack[i].call = "cache"
        \/ \A k \in Nums : cache[k] = None

\* A node exists while somebody owns it: only its last release frees it.
AtLeastOne == \A n \in Live : node[n].refs > 0

Refs == Exact /\ FreedOnce /\ TrailerOwned /\ DestroyFirst /\ CacheGone /\ AtLeastOne

-----------------------------------------------------------------------------
(* Counting on a heap *)

Heaps == [NodeIds -> {Freed} \cup NodeRecords]

\* Every row of the table is a sequence of reference nodes.
LEMMA RowType ==
    ASSUME NEW h \in Heaps, NEW D
    PROVE  /\ \A m \in NodeIds : Table(h, D)[m] \in Seq(Slots)
           /\ \A n : InSlots(h, D, n) \in Nat
  <1>1. ASSUME NEW m \in NodeIds PROVE Table(h, D)[m] \in Seq(Slots)
    <2>1. Table(h, D)[m] = IF h[m] = Freed \/ m \in D THEN <<>> ELSE h[m].slots BY DEF Table
    <2>2. h[m] # Freed => h[m].slots \in Seq(Slots) BY DEF Heaps, NodeRecords
    <2> QED BY ONLY <2>1, <2>2
  <1>2. IsFiniteSet(NodeIds) BY NodeIdsAssumption
  <1>3. ASSUME NEW n PROVE InSlots(h, D, n) \in Nat
    <2>1. CountIn(Table(h, D), NodeIds, SlotsTo(n)) \in Nat BY ONLY <1>1, <1>2, PlacesFinite
    <2> QED BY <2>1 DEF InSlots
  <1> QED BY <1>1, <1>3

\* A step that changes the reference nodes of one address, r.
LEMMA RowChanged ==
    ASSUME NEW h \in Heaps, NEW D, NEW g \in Heaps, NEW E, NEW r \in NodeIds,
           \A m \in NodeIds : m # r => Table(g, E)[m] = Table(h, D)[m], NEW n
    PROVE  /\ InSlots(g, E, n) = InSlots(h, D, n) - Count(Table(h, D)[r], SlotsTo(n))
                                                  + Count(Table(g, E)[r], SlotsTo(n))
           /\ InSlots(g, E, n) \in Nat /\ InSlots(h, D, n) \in Nat
           /\ Count(Table(h, D)[r], SlotsTo(n)) \in Nat
           /\ Count(Table(g, E)[r], SlotsTo(n)) \in Nat
  <1> DEFINE a == Table(h, D)
             b == Table(g, E)
  <1>1. IsFiniteSet(NodeIds) /\ \A d \in NodeIds : a[d] \in Seq(Slots)
    BY RowType, NodeIdsAssumption
  <1>2. \A d \in NodeIds : b[d] \in Seq(Slots) BY RowType
  <1>3. NodeIds \ {r} = NodeIds \ {r} /\ \A d \in NodeIds \ {r} : a[d] = b[d] OBVIOUS
  <1>4. InSlots(h, D, n) \in Nat /\ InSlots(g, E, n) \in Nat BY RowType
  <1>5. InSlots(h, D, n) = CountIn(a, NodeIds, SlotsTo(n))
        /\ InSlots(g, E, n) = CountIn(b, NodeIds, SlotsTo(n))
    BY DEF InSlots
  <1> HIDE DEF a, b
  <1>6. CountIn(b, NodeIds, SlotsTo(n)) = CountIn(a, NodeIds, SlotsTo(n))
               - (IF r \in NodeIds THEN Count(a[r], SlotsTo(n)) ELSE 0)
               + (IF r \in NodeIds THEN Count(b[r], SlotsTo(n)) ELSE 0)
    BY ONLY <1>1, <1>2, <1>3, CountRowChanged
  <1>7. Count(a[r], SlotsTo(n)) \in Nat /\ Count(b[r], SlotsTo(n)) \in Nat
    BY <1>1, <1>2, HitsFinite
  <1> QED BY ONLY <1>4, <1>5, <1>6, <1>7, r \in NodeIds DEF a, b

\* A step that changes no reference node.
LEMMA RowsSame ==
    ASSUME NEW h, NEW D, NEW g, NEW E, \A m \in NodeIds : Table(g, E)[m] = Table(h, D)[m], NEW n
    PROVE  InSlots(g, E, n) = InSlots(h, D, n)
  BY CountSame DEF InSlots

\* A node as it is parsed keeps no reference.
LEMMA FreshRow ==
    ASSUME NEW q, \A i \in DOMAIN q : q[i].value = None, NEW n \in NodeIds
    PROVE  Count(q, SlotsTo(n)) = 0
  <1>1. n # None BY NodeIdsAssumption
  <1>2. Hits(q, SlotsTo(n)) = {} BY <1>1 DEF Hits, SlotsTo
  <1> QED BY <1>2, FS_EmptySet DEF Count

\* Whether a reference node keeps a reference to n.
LEMMA SlotKeeps ==
    ASSUME NEW s \in Slots, NEW n PROVE s \in SlotsTo(n) <=> s.value = n
  BY DEF Slots, SlotsTo

\* What somebody owns is counted.
LEMMA SlotCounted ==
    ASSUME NEW h \in Heaps, NEW D, NEW m \in NodeIds \ D, h[m] # Freed,
           NEW i \in DOMAIN h[m].slots, NEW n, h[m].slots[i].value = n
    PROVE  InSlots(h, D, n) > 0
  <1>1. IsFiniteSet(NodeIds) /\ \A d \in NodeIds : Table(h, D)[d] \in Seq(Slots)
    BY RowType, NodeIdsAssumption
  <1>2. Table(h, D)[m] = h[m].slots BY DEF Table
  <1>3. h[m].slots[i] \in Slots
    <2>1. h[m].slots \in Seq(Slots) BY DEF Heaps, NodeRecords
    <2> QED BY <2>1
  <1>4. h[m].slots[i] \in SlotsTo(n) BY <1>3, SlotKeeps
  <1>5. i \in DOMAIN Table(h, D)[m] /\ Table(h, D)[m][i] \in SlotsTo(n) BY <1>2, <1>4
  <1>6. CountIn(Table(h, D), NodeIds, SlotsTo(n)) > 0
            <=> \E d \in NodeIds : \E k \in DOMAIN Table(h, D)[d] : Table(h, D)[d][k] \in SlotsTo(n)
    BY ONLY <1>1, CountInPositive
  <1> QED BY <1>5, <1>6 DEF InSlots

\* The cache c with x for object k.
CacheWith(c, k, x) == [c EXCEPT ![k] = x]

\* The cache is a finite table.
LEMMA CacheCount ==
    ASSUME NEW c \in [Nums -> NodeIds \cup {None}], NEW n
    PROVE  /\ Count(c, {n}) \in Nat
           /\ \A k \in Nums : c[k] = n => Count(c, {n}) > 0
           /\ (\A k \in Nums : c[k] # n) => Count(c, {n}) = 0
           /\ \A k \in Nums, x \in NodeIds \cup {None} :
                  Count(CacheWith(c, k, x), {n}) =
                      Count(c, {n}) - (IF c[k] = n THEN 1 ELSE 0) + (IF x = n THEN 1 ELSE 0)
  <1>1. DOMAIN c = Nums /\ IsFiniteSet(Nums) BY NumsAssumption
  <1>2. IsFiniteSet(Hits(c, {n})) /\ Count(c, {n}) \in Nat BY <1>1, EntriesFinite
  <1>3. Count(c, {n}) = 0 <=> Hits(c, {n}) = {} BY <1>2, FS_EmptySet DEF Count
  <1>4. Hits(c, {n}) = {k \in Nums : c[k] = n} BY <1>1 DEF Hits
  <1>5. ASSUME NEW k \in Nums, NEW x \in NodeIds \cup {None}
        PROVE  Count(CacheWith(c, k, x), {n}) =
                   Count(c, {n}) - (IF c[k] = n THEN 1 ELSE 0) + (IF x = n THEN 1 ELSE 0)
    <2> DEFINE g == CacheWith(c, k, x)
    <2>1. /\ DOMAIN g = DOMAIN c /\ g[k] = x /\ \A d \in DOMAIN c : d # k => g[d] = c[d]
          /\ k \in DOMAIN c /\ IsFiniteSet(DOMAIN c)
      BY <1>1 DEF CacheWith
    <2> HIDE DEF g
    <2>2. Count(g, {n}) = Count(c, {n}) - (IF c[k] \in {n} THEN 1 ELSE 0)
                                        + (IF x \in {n} THEN 1 ELSE 0)
      BY ONLY <2>1, EntryReplaced
    <2>3. Count(g, {n}) = Count(c, {n}) - (IF c[k] = n THEN 1 ELSE 0) + (IF x = n THEN 1 ELSE 0)
      BY ONLY <2>2
    <2> QED BY <2>3 DEF g
  <1>6. (\A k \in Nums : c[k] # n) => Count(c, {n}) = 0 BY <1>3, <1>4
  <1>7. ASSUME NEW k \in Nums, c[k] = n PROVE Count(c, {n}) > 0
    <2>1. k \in Hits(c, {n}) BY <1>4, <1>7
    <2>2. Count(c, {n}) # 0 BY <1>3, <2>1
    <2> QED BY ONLY <1>2, <2>2
  <1> QED BY ONLY <1>2, <1>5, <1>6, <1>7, Zenon

-----------------------------------------------------------------------------
(* While no release is in progress *)

\* What the client, the cache c, the nodes of h, the document and lost loads
\* own of n.
Due(h, hd, c, t, l, n) ==
    hd[n] + Count(c, {n}) + InSlots(h, {}, n)
    + (IF n = t THEN 1 ELSE 0) + (IF n \in l THEN 1 ELSE 0)

\* The counts are exact if somebody still is to be given a reference to v.
Balanced(h, hd, c, t, l, v) ==
    \A n \in NodeIds :
        Due(h, hd, c, t, l, n) + (IF n = v THEN 1 ELSE 0) = IF h[n] = Freed THEN 0 ELSE h[n].refs

NoRelease == \A i \in DOMAIN stack : stack[i].call \notin {"release", "destroy", "free"}

\* Loads own no reference, and no node is dying.
Loaders ==
    /\ Dying = {} /\ Alive = Live
    /\ \A n \in NodeIds : Count(stack, CallsOn(n)) = 0
    /\ FreedOnce /\ DestroyFirst

\* While no release is in progress only owners count.
LEMMA NoReleaseLoads == NoRelease => Loaders
  <1> SUFFICES ASSUME NoRelease PROVE Loaders OBVIOUS
  <1>1. Dying = {} BY DEF NoRelease, Dying
  <1>2. ASSUME NEW n \in NodeIds PROVE Count(stack, CallsOn(n)) = 0
    <2>1. Hits(stack, CallsOn(n)) = {} BY DEF NoRelease, Hits, CallsOn
    <2> QED BY <2>1, FS_EmptySet DEF Count
  <1>3. FreedOnce /\ DestroyFirst BY <1>1 DEF NoRelease, FreedOnce, DestroyFirst
  <1> QED BY <1>1, <1>2, <1>3 DEF Loaders, Alive

\* So it is after a step.
LEMMA NoReleaseLoadsNext == NoRelease' => Loaders'
  BY NoReleaseLoads, PTL

\* Loads and no calls at all are no releases.
LEMMA LoadingIsNoRelease == IInv /\ (Idle \/ Loading(Head(stack))) => NoRelease
  <1>1. CASE Idle BY <1>1 DEF Idle, NoRelease
  <1>2. ASSUME IInv, stack # <<>>, Loading(Head(stack)) PROVE NoRelease
    <2>1. stack \in Seq(Calls) BY <1>2 DEF IInv, TypeOK
    <2>2. 1 \in DOMAIN stack /\ Head(stack) = stack[1] BY <1>2, <2>1
    <2>3. \A i \in DOMAIN stack : Loading(stack[i]) BY <1>2, <2>2 DEF IInv, OneKind
    <2> QED BY <2>3 DEF Loading, NoRelease
  <1> QED BY <1>1, <1>2 DEF Idle

\* So it is after a step.
LEMMA LoadingIsNoReleaseNext == IInv' /\ (Idle' \/ Loading(Head(stack))') => NoRelease'
  BY LoadingIsNoRelease, PTL

\* Then the counts are exact if and only if they balance.
ExactIsBalanced == Exact <=> Balanced(node, held, cache, trailer, lost, None)

\* The same in the words of a heap.
LEMMA BalancedIsExact == TypeOK /\ NoRelease => ExactIsBalanced
  <1> SUFFICES ASSUME TypeOK, NoRelease PROVE ExactIsBalanced OBVIOUS
  <1>1. Loaders BY NoReleaseLoads
  <1>2. ASSUME NEW n \in NodeIds
        PROVE  /\ Owed(n) = Due(node, held, cache, trailer, lost, n) + (IF n = None THEN 1 ELSE 0)
               /\ n \in Alive <=> node[n] # Freed
    <2>1. Count(stack, CallsOn(n)) = 0 /\ Dying = {} /\ Alive = Live BY <1>1 DEF Loaders
    <2>2. n # None BY NodeIdsAssumption
    <2>3. node \in Heaps BY DEF TypeOK, Heaps
    <2>4. InSlots(node, {}, n) \in Nat BY <2>3, RowType
    <2>5. cache \in [Nums -> NodeIds \cup {None}] /\ held[n] \in Nat BY DEF TypeOK
    <2>6. Count(cache, {n}) \in Nat BY <2>5, CacheCount
    <2>7. Owed(n) = held[n] + Count(cache, {n}) + InSlots(node, {}, n) + 0
                    + (IF n = trailer THEN 1 ELSE 0) + (IF n \in lost THEN 1 ELSE 0)
      BY <2>1 DEF Owed
    <2>8. Due(node, held, cache, trailer, lost, n) =
              held[n] + Count(cache, {n}) + InSlots(node, {}, n)
              + (IF n = trailer THEN 1 ELSE 0) + (IF n \in lost THEN 1 ELSE 0)
      BY DEF Due
    <2> QED BY ONLY <2>1, <2>2, <2>4, <2>5, <2>6, <2>7, <2>8, n \in NodeIds DEF Live
  <1> QED BY <1>2 DEF ExactIsBalanced, Exact, Balanced

\* So it is after a step.
LEMMA BalancedIsExactNext == TypeOK' /\ NoRelease' => ExactIsBalanced'
  BY BalancedIsExact, PTL

\* Each owner has its share.
LEMMA DueParts ==
    ASSUME NEW h \in Heaps, NEW hd \in [NodeIds -> Nat], NEW c \in [Nums -> NodeIds \cup {None}],
           NEW t, NEW l, NEW n \in NodeIds
    PROVE  LET due == Due(h, hd, c, t, l, n)
           IN  /\ due \in Nat
               /\ due = 0 => /\ hd[n] = 0 /\ Count(c, {n}) = 0 /\ InSlots(h, {}, n) = 0
                            /\ n # t /\ n \notin l
               /\ hd[n] > 0 \/ n = t => due > 0
               /\ n = t /\ Count(c, {n}) > 0 => due > 1
               /\ n = t /\ hd[n] > 0 => due > 1
  <1> DEFINE x == hd[n]
             y == Count(c, {n})
             z == InSlots(h, {}, n)
             p == IF n = t THEN 1 ELSE 0
             q == IF n \in l THEN 1 ELSE 0
             due == Due(h, hd, c, t, l, n)
  <1>1. x \in Nat /\ y \in Nat /\ z \in Nat BY CacheCount, RowType
  <1>2. p \in Nat /\ (p = 0 <=> n # t) /\ (n = t => p = 1) OBVIOUS
  <1>3. q \in Nat /\ (q = 0 <=> n \notin l) OBVIOUS
  <1>4. due = x + y + z + p + q BY DEF Due
  <1> HIDE DEF x, y, z, p, q, due
  <1>5. due \in Nat /\ (due = 0 => x = 0 /\ y = 0 /\ z = 0 /\ p = 0 /\ q = 0)
        /\ (x > 0 \/ p = 1 => due > 0) /\ (p = 1 /\ (y > 0 \/ x > 0) => due > 1)
    BY ONLY <1>1, <1>2, <1>3, <1>4
  <1>6. due \in Nat /\ (due = 0 => x = 0 /\ y = 0 /\ z = 0 /\ n # t /\ n \notin l)
        /\ (x > 0 \/ n = t => due > 0) /\ (n = t /\ (y > 0 \/ x > 0) => due > 1)
    BY ONLY <1>2, <1>3, <1>5
  <1> QED BY ONLY <1>6 DEF x, y, z, due

\* Nobody owns what a free address holds.
LEMMA FreeAddress ==
    ASSUME NEW h \in Heaps, NEW hd \in [NodeIds -> Nat], NEW c \in [Nums -> NodeIds \cup {None}],
           NEW t, NEW l, Balanced(h, hd, c, t, l, None), NEW f \in NodeIds, h[f] = Freed
    PROVE  hd[f] = 0 /\ Count(c, {f}) = 0 /\ InSlots(h, {}, f) = 0 /\ f # t /\ f \notin l
  <1>1. f # None BY NodeIdsAssumption
  <1> DEFINE due == Due(h, hd, c, t, l, f)
  <1>2. due + 0 = 0 BY <1>1 DEF Balanced
  <1>3. due \in Nat BY DueParts
  <1>4. due = 0 => /\ hd[f] = 0 /\ Count(c, {f}) = 0 /\ InSlots(h, {}, f) = 0
                  /\ f # t /\ f \notin l
    BY DueParts
  <1> HIDE DEF due
  <1>5. due = 0 BY ONLY <1>2, <1>3
  <1> QED BY ONLY <1>4, <1>5

\* A node whose references are not resolved.
Unresolved(new) ==
    new \in NodeRecords /\ new # Freed /\ \A i \in DOMAIN new.slots : new.slots[i].value = None

\* A node as it is parsed is one.
LEMMA ParsedNode ==
    ASSUME NEW refs \in Nat, NEW ids \in Seq(Ids)
    PROVE  Unresolved(Node(refs, ids)) /\ Node(refs, ids).refs = refs
  <1> DEFINE new == Node(refs, ids)
  <1>1. new.refs = refs BY DEF Node
  <1>2. /\ new \in NodeRecords /\ new # Freed /\ DOMAIN new.slots = DOMAIN ids
        /\ \A i \in DOMAIN ids : new.slots[i].value = None
    BY NodeType
  <1> HIDE DEF new
  <1>3. Unresolved(new) BY <1>2 DEF Unresolved
  <1> QED BY <1>1, <1>3 DEF new

\* The heap g is h with the node new at f.
Placed(h, f, new, g) ==
    g \in Heaps /\ g[f] = new /\ \A m \in NodeIds : m # f => g[m] = h[m]

\* An assignment of the model says so.
LEMMA PlacedNode ==
    ASSUME NEW h \in Heaps, NEW f \in NodeIds, NEW new \in NodeRecords
    PROVE  Placed(h, f, new, [h EXCEPT ![f] = new])
  BY DEF Heaps, Placed

\* The new owners of references are all owners of f.
OwnersOf(f, refs, c, t, l, c2, t2, l2, v) ==
    /\ \A n \in NodeIds : n # f =>
           Count(c2, {n}) = Count(c, {n}) /\ (n = t2 <=> n = t) /\ (n \in l2 <=> n \in l) /\ n # v
    /\ refs = Count(c2, {f}) + (IF f = t2 THEN 1 ELSE 0) + (IF f \in l2 THEN 1 ELSE 0)
                             + (IF f = v THEN 1 ELSE 0)

\* A node that is parsed at a free address f, with as many references as it is
\* given owners: the cache entry k if it is cached, the document as its
\* trailer, a load that loses it, the caller v.
LEMMA FreshBalanced ==
    ASSUME NEW h \in Heaps, NEW hd \in [NodeIds -> Nat], NEW c \in [Nums -> NodeIds \cup {None}],
           NEW t, NEW l, Balanced(h, hd, c, t, l, None),
           NEW f \in NodeIds, h[f] = Freed, NEW new, Unresolved(new),
           NEW c2 \in [Nums -> NodeIds \cup {None}], NEW t2, NEW l2, NEW v,
           OwnersOf(f, new.refs, c, t, l, c2, t2, l2, v),
           NEW g, Placed(h, f, new, g)
    PROVE  Balanced(g, hd, c2, t2, l2, v)
  <1>0. /\ \A n \in NodeIds : n # f =>
               /\ Count(c2, {n}) = Count(c, {n})
               /\ (n = t2 <=> n = t) /\ (n \in l2 <=> n \in l) /\ n # v
        /\ new.refs = Count(c2, {f}) + (IF f = t2 THEN 1 ELSE 0) + (IF f \in l2 THEN 1 ELSE 0)
                                     + (IF f = v THEN 1 ELSE 0)
        /\ new \in NodeRecords /\ new # Freed
        /\ \A i \in DOMAIN new.slots : new.slots[i].value = None
    BY DEF OwnersOf, Unresolved
  <1>1. g \in Heaps /\ g[f] = new /\ \A m \in NodeIds : m # f => g[m] = h[m]
    BY DEF Placed
  <1>2. ASSUME NEW n \in NodeIds
        PROVE  InSlots(g, {}, n) = InSlots(h, {}, n) /\ InSlots(h, {}, n) \in Nat
    <2>1. \A m \in NodeIds : m # f => Table(g, {})[m] = Table(h, {})[m] BY <1>1 DEF Table
    <2>2. /\ InSlots(g, {}, n) = InSlots(h, {}, n) - Count(Table(h, {})[f], SlotsTo(n))
                                                   + Count(Table(g, {})[f], SlotsTo(n))
          /\ InSlots(h, {}, n) \in Nat
      BY ONLY <1>1, <2>1, h \in Heaps, f \in NodeIds, RowChanged
    <2>3. Table(h, {})[f] = <<>> /\ Table(g, {})[f] = new.slots BY <1>0, <1>1 DEF Table
    <2>4. Count(<<>>, SlotsTo(n)) = 0 BY CountEmpty
    <2>5. Count(new.slots, SlotsTo(n)) = 0 BY <1>0, FreshRow
    <2> QED BY ONLY <2>2, <2>3, <2>4, <2>5
  <1>3. ASSUME NEW n \in NodeIds
        PROVE  /\ hd[n] \in Nat /\ Count(c, {n}) \in Nat /\ Count(c2, {n}) \in Nat
               /\ hd[n] + Count(c, {n}) + InSlots(h, {}, n)
                  + (IF n = t THEN 1 ELSE 0) + (IF n \in l THEN 1 ELSE 0)
                  = IF h[n] = Freed THEN 0 ELSE h[n].refs
    <2>1. n # None BY NodeIdsAssumption
    <2>2. Due(h, hd, c, t, l, n) + 0 = IF h[n] = Freed THEN 0 ELSE h[n].refs
      BY <2>1 DEF Balanced
    <2>3. hd[n] \in Nat /\ Count(c, {n}) \in Nat /\ Count(c2, {n}) \in Nat BY CacheCount
    <2>4. Due(h, hd, c, t, l, n) = hd[n] + Count(c, {n}) + InSlots(h, {}, n)
                  + (IF n = t THEN 1 ELSE 0) + (IF n \in l THEN 1 ELSE 0)
      BY DEF Due
    <2> QED BY ONLY <1>2, <2>2, <2>3, <2>4, n \in NodeIds
  <1>4. hd[f] = 0 /\ Count(c, {f}) = 0 /\ InSlots(h, {}, f) = 0 /\ f # t /\ f \notin l
    BY ONLY h \in Heaps, hd \in [NodeIds -> Nat], c \in [Nums -> NodeIds \cup {None}],
            Balanced(h, hd, c, t, l, None), f \in NodeIds, h[f] = Freed, FreeAddress
  <1>5. ASSUME NEW n \in NodeIds
        PROVE  Due(g, hd, c2, t2, l2, n) + (IF n = v THEN 1 ELSE 0)
                   = IF g[n] = Freed THEN 0 ELSE g[n].refs
    <2>1. Due(g, hd, c2, t2, l2, n) = hd[n] + Count(c2, {n}) + InSlots(h, {}, n)
              + (IF n = t2 THEN 1 ELSE 0) + (IF n \in l2 THEN 1 ELSE 0)
      BY <1>2 DEF Due
    <2>2. CASE n = f
      <3>1. Due(g, hd, c2, t2, l2, n) = 0 + Count(c2, {f}) + 0
              + (IF f = t2 THEN 1 ELSE 0) + (IF f \in l2 THEN 1 ELSE 0)
        BY ONLY <1>4, <2>1, <2>2
      <3>2. Count(c2, {f}) \in Nat BY <1>3
      <3>3. new.refs = Count(c2, {f}) + (IF f = t2 THEN 1 ELSE 0) + (IF f \in l2 THEN 1 ELSE 0)
                                     + (IF f = v THEN 1 ELSE 0)
        BY <1>0
      <3>4. g[n] = new /\ new # Freed BY <1>0, <1>1, <2>2
      <3> QED BY ONLY <2>2, <3>1, <3>2, <3>3, <3>4
    <2>3. CASE n # f
      <3>1. Count(c2, {n}) = Count(c, {n}) /\ (n = t2 <=> n = t) /\ (n \in l2 <=> n \in l) /\ n # v
        BY <1>0, <2>3
      <3>2. g[n] = h[n] BY <1>1, <2>3
      <3> QED BY ONLY <1>2, <1>3, <2>1, <3>1, <3>2, n \in NodeIds
    <2> QED BY <2>2, <2>3
  <1> QED BY <1>1, <1>5 DEF Balanced

\* Resolving a reference node leaves the count of its node alone.
LEMMA ResolvedRefs ==
    ASSUME NEW r \in NodeRecords, NEW s, NEW v PROVE Resolved(r, s, v).refs = r.refs
  BY DEF Resolved, NodeRecords

\* Where a call that returns puts its value.
TargetIn(h, to) ==
    to # None =>
        /\ to[1] \in NodeIds /\ h[to[1]] # Freed /\ to[2] \in DOMAIN h[to[1]].slots
        /\ h[to[1]].slots[to[2]].value = None

\* A call that returns a reference gives it to the client or to the reference
\* node that asked.
LEMMA ReturnBalanced ==
    ASSUME NEW h \in Heaps, held \in [NodeIds -> Nat],
           NEW c \in [Nums -> NodeIds \cup {None}], NEW t, NEW l,
           NEW value \in NodeIds \cup {None}, Balanced(h, held, c, t, l, value),
           TargetIn(h, Head(stack).slot), NEW calls, Return(value, h, calls)
    PROVE  /\ Balanced(node', held', c, t, l, None) /\ node' \in Heaps
           /\ \A n \in NodeIds : /\ node'[n] = Freed <=> h[n] = Freed
                                 /\ h[n] # Freed => node'[n].refs = h[n].refs
  <1> DEFINE to == Head(stack).slot
             n0 == to[1]
             s0 == to[2]
             v == IF value = None THEN Null ELSE value
  <1>1. CASE to = None
    <2>1. node' = h /\ held' = IF value = None THEN held ELSE [held EXCEPT ![value] = @ + 1]
      BY <1>1 DEF Return
    <2>2. ASSUME NEW n \in NodeIds
          PROVE  Due(node', held', c, t, l, n) + (IF n = None THEN 1 ELSE 0)
                     = IF node'[n] = Freed THEN 0 ELSE node'[n].refs
      <3>1. n # None BY NodeIdsAssumption
      <3>2. held'[n] = held[n] + (IF n = value THEN 1 ELSE 0) /\ held[n] \in Nat
        BY <2>1, <3>1
      <3>3. Count(c, {n}) \in Nat BY CacheCount
      <3>4. InSlots(h, {}, n) \in Nat BY RowType
      <3>5. Due(h, held, c, t, l, n) + (IF n = value THEN 1 ELSE 0)
                = IF h[n] = Freed THEN 0 ELSE h[n].refs
        BY DEF Balanced
      <3>6. Due(h, held, c, t, l, n) = held[n] + Count(c, {n}) + InSlots(h, {}, n)
                + (IF n = t THEN 1 ELSE 0) + (IF n \in l THEN 1 ELSE 0)
        BY DEF Due
      <3>7. Due(node', held', c, t, l, n) = held'[n] + Count(c, {n}) + InSlots(h, {}, n)
                + (IF n = t THEN 1 ELSE 0) + (IF n \in l THEN 1 ELSE 0)
        BY <2>1 DEF Due
      <3> QED BY ONLY <2>1, <3>1, <3>2, <3>3, <3>4, <3>5, <3>6, <3>7
    <2> QED BY <2>1, <2>2 DEF Balanced
  <1>2. CASE to # None
    <2>1. node' = [h EXCEPT ![n0].slots[s0].value = v] /\ held' = held
      BY <1>2 DEF Return
    <2>2. /\ n0 \in NodeIds /\ h[n0] # Freed /\ s0 \in DOMAIN h[n0].slots
          /\ h[n0].slots[s0].value = None
      BY <1>2 DEF TargetIn
    <2>3. h[n0] \in NodeRecords BY <2>2 DEF Heaps
    <2>4. v \in NodeIds \cup {Null, None} /\ v # None /\ \A n \in NodeIds : n = v <=> n = value
      BY NodeIdsAssumption
    <2> DEFINE old == h[n0]
               q == Resolved(old, s0, v)
    <2>5. node' = [h EXCEPT ![n0] = q] BY <2>1, Zenon DEF Resolved
    <2>6. old \in NodeRecords /\ old # Freed /\ s0 \in DOMAIN old.slots
          /\ old.slots[s0].value = None
      BY <2>2, <2>3
    <2>61. h[n0] = old OBVIOUS
    <2> HIDE DEF old, n0, s0, v
    <2>7. /\ q \in NodeRecords /\ DOMAIN q.slots = DOMAIN old.slots
          /\ \A i \in DOMAIN old.slots : i # s0 => q.slots[i] = old.slots[i]
          /\ q.slots[s0].value = v
      BY <2>4, <2>6, SetSlot
    <2>8. q.refs = old.refs BY <2>6, ResolvedRefs
    <2> HIDE DEF q
    <2>9. q # Freed BY <2>7, FreedAssumption
    <2>10. node' \in Heaps /\ node'[n0] = q /\ \A m \in NodeIds : m # n0 => node'[m] = h[m]
      BY <2>2, <2>5, <2>7 DEF Heaps
    <2>11. ASSUME NEW n \in NodeIds
           PROVE  /\ InSlots(node', {}, n) = InSlots(h, {}, n) + (IF n = value THEN 1 ELSE 0)
                  /\ InSlots(h, {}, n) \in Nat
      <3>1. \A m \in NodeIds : m # n0 => Table(node', {})[m] = Table(h, {})[m]
        BY <2>10 DEF Table
      <3>2. /\ InSlots(node', {}, n) = InSlots(h, {}, n) - Count(Table(h, {})[n0], SlotsTo(n))
                                                   + Count(Table(node', {})[n0], SlotsTo(n))
            /\ InSlots(h, {}, n) \in Nat /\ Count(Table(h, {})[n0], SlotsTo(n)) \in Nat
        BY ONLY <2>2, <2>10, <3>1, h \in Heaps, RowChanged
      <3>3. Table(h, {})[n0] = old.slots /\ Table(node', {})[n0] = q.slots
        BY <2>2, <2>9, <2>10, <2>61 DEF Table
      <3>4. old.slots \in Seq(Slots) /\ q.slots \in Seq(Slots) BY <2>6, <2>7 DEF NodeRecords
      <3>5. IsFiniteSet(DOMAIN old.slots)
        <4>1. DOMAIN old.slots = 1 .. Len(old.slots) /\ Len(old.slots) \in Nat BY <3>4
        <4>2. 1 \in Int /\ Len(old.slots) \in Int BY ONLY <4>1
        <4>3. IsFiniteSet(1 .. Len(old.slots)) BY ONLY <4>2, FS_Interval
        <4> QED BY ONLY <4>1, <4>3
      <3> DEFINE a == old.slots
                 b == q.slots
                 x == b[s0]
      <3>6. /\ IsFiniteSet(DOMAIN a) /\ s0 \in DOMAIN a /\ DOMAIN b = DOMAIN a /\ b[s0] = x
            /\ \A d \in DOMAIN a : d # s0 => b[d] = a[d]
        BY <2>6, <2>7, <3>5
      <3>7. a[s0] \in Slots /\ x \in Slots BY <2>6, <2>7, <3>4
      <3>8. a[s0].value = None /\ x.value = v BY <2>6, <2>7
      <3> HIDE DEF a, b, x
      <3>9. Count(b, SlotsTo(n)) = Count(a, SlotsTo(n))
                - (IF a[s0] \in SlotsTo(n) THEN 1 ELSE 0) + (IF x \in SlotsTo(n) THEN 1 ELSE 0)
        BY ONLY <3>6, EntryReplaced
      <3>10. (a[s0] \in SlotsTo(n) <=> None = n) /\ (x \in SlotsTo(n) <=> v = n)
        BY <3>7, <3>8, SlotKeeps
      <3>11. None # n /\ (v = n <=> n = value) BY <2>4, NodeIdsAssumption
      <3>12. Table(h, {})[n0] = a /\ Table(node', {})[n0] = b BY <3>3 DEF a, b
      <3> QED BY ONLY <3>2, <3>9, <3>10, <3>11, <3>12
    <2>12. ASSUME NEW n \in NodeIds
           PROVE  /\ node'[n] = Freed <=> h[n] = Freed
                  /\ h[n] # Freed => node'[n].refs = h[n].refs
      BY <2>6, <2>61, <2>8, <2>9, <2>10
    <2>13. ASSUME NEW n \in NodeIds
           PROVE  Due(node', held', c, t, l, n) + (IF n = None THEN 1 ELSE 0)
                     = IF node'[n] = Freed THEN 0 ELSE node'[n].refs
      <3>1. n # None BY NodeIdsAssumption
      <3>2. held[n] \in Nat /\ Count(c, {n}) \in Nat BY CacheCount
      <3>3. Due(h, held, c, t, l, n) + (IF n = value THEN 1 ELSE 0)
                = IF h[n] = Freed THEN 0 ELSE h[n].refs
        BY DEF Balanced
      <3>4. Due(h, held, c, t, l, n) = held[n] + Count(c, {n}) + InSlots(h, {}, n)
                + (IF n = t THEN 1 ELSE 0) + (IF n \in l THEN 1 ELSE 0)
        BY DEF Due
      <3>5. Due(node', held', c, t, l, n) = held[n] + Count(c, {n}) + InSlots(node', {}, n)
                + (IF n = t THEN 1 ELSE 0) + (IF n \in l THEN 1 ELSE 0)
        BY <2>1 DEF Due
      <3> QED BY ONLY <2>11, <2>12, <3>1, <3>2, <3>3, <3>4, <3>5, n \in NodeIds
    <2> QED BY <2>10, <2>12, <2>13 DEF Balanced
  <1> QED BY <1>1, <1>2

-----------------------------------------------------------------------------
(* The steps of the client and of loads *)

\* A step between states in which no release is in progress keeps the counts
\* if the heap balances after it.
LEMMA QuietRefs ==
    ASSUME IInv, IInv', NoRelease', Balanced(node', held', cache', trailer', lost', None),
           TrailerOwned', CacheGone', AtLeastOne'
    PROVE  Refs'
  <1>1. TypeOK' BY DEF IInv
  <1>2. Exact' BY <1>1, BalancedIsExactNext DEF ExactIsBalanced, Balanced, Due, InSlots, Table,
                                                CountIn, Places, Count, Hits, SlotsTo
  <1>3. FreedOnce' /\ DestroyFirst' BY NoReleaseLoadsNext DEF Loaders
  <1> QED BY <1>2, <1>3 DEF Refs

\* What the counts mean while no release is in progress.
LEMMA QuietStart ==
    ASSUME IInv, Refs, NoRelease
    PROVE  /\ Balanced(node, held, cache, trailer, lost, None) /\ node \in Heaps
           /\ held \in [NodeIds -> Nat] /\ cache \in [Nums -> NodeIds \cup {None}]
           /\ trailer \in NodeIds \cup {None} /\ lost \subseteq NodeIds
           /\ \A n \in NodeIds : n = trailer => n \in Live
           /\ \A n \in NodeIds : held[n] > 0 => n \in Live
           /\ \A k \in Nums : cache[k] \in Live => cache[k] # trailer
  <1>1. TypeOK /\ Exact /\ TrailerOwned BY DEF IInv, Refs
  <1>2. Balanced(node, held, cache, trailer, lost, None)
    BY <1>1, BalancedIsExact DEF ExactIsBalanced
  <1>3. /\ node \in Heaps /\ held \in [NodeIds -> Nat] /\ cache \in [Nums -> NodeIds \cup {None}]
        /\ trailer \in NodeIds \cup {None} /\ lost \subseteq NodeIds
    BY <1>1 DEF TypeOK, Heaps
  <1>4. ASSUME NEW n \in NodeIds
        PROVE  LET due == Due(node, held, cache, trailer, lost, n)
               IN  /\ due = IF node[n] = Freed THEN 0 ELSE node[n].refs
                   /\ held[n] > 0 \/ n = trailer => due > 0
                   /\ n = trailer /\ Count(cache, {n}) > 0 => due > 1
    <2> DEFINE due == Due(node, held, cache, trailer, lost, n)
    <2>1. n # None BY NodeIdsAssumption
    <2>2. due + 0 = IF node[n] = Freed THEN 0 ELSE node[n].refs BY <1>2, <2>1 DEF Balanced
    <2>3. /\ due \in Nat
          /\ held[n] > 0 \/ n = trailer => due > 0
          /\ n = trailer /\ Count(cache, {n}) > 0 => due > 1
      BY <1>3, DueParts
    <2> HIDE DEF due
    <2>4. due + 0 = due BY ONLY <2>3
    <2> QED BY ONLY <2>2, <2>3, <2>4 DEF due
  <1>5. ASSUME NEW n \in NodeIds, n = trailer \/ held[n] > 0 PROVE n \in Live
    <2> DEFINE due == Due(node, held, cache, trailer, lost, n)
    <2>1. due > 0 /\ due = IF node[n] = Freed THEN 0 ELSE node[n].refs BY <1>4, <1>5
    <2> HIDE DEF due
    <2>2. node[n] # Freed BY ONLY <2>1
    <2> QED BY <2>2 DEF Live
  <1>6. ASSUME NEW k \in Nums, cache[k] \in Live, cache[k] = trailer PROVE FALSE
    <2> DEFINE n == cache[k]
               due == Due(node, held, cache, trailer, lost, n)
    <2>1. n \in NodeIds /\ node[n] # Freed /\ n = trailer BY <1>6 DEF Live
    <2>2. n # None BY <2>1, NodeIdsAssumption
    <2>3. node[n].refs = 1 BY <1>1, <2>1, <2>2 DEF TrailerOwned
    <2>4. Count(cache, {n}) > 0 BY <1>3, CacheCount
    <2>5. due > 1 /\ due = node[n].refs BY <1>4, <2>1, <2>4
    <2> HIDE DEF n, due
    <2> QED BY ONLY <2>3, <2>5
  <1> QED BY <1>2, <1>3, <1>5, <1>6

\* The trailer of a parsed document.
LEMMA ParsedRefs == ASSUME IInv, IInv', Refs, Parsed PROVE Refs'
  <1>1. /\ phase = "created" /\ phase' = "parsed" /\ Idle /\ stack' = stack
        /\ trailer' = Fresh /\ held' = held /\ cache' = cache /\ lost' = lost
        /\ node' = [node EXCEPT ![Fresh] = Node(1, <<file.root>>)]
    BY DEF Parsed
  <1>2. NoRelease /\ NoRelease' BY <1>1 DEF Idle, NoRelease
  <1>3. /\ Balanced(node, held, cache, trailer, lost, None) /\ node \in Heaps
        /\ held \in [NodeIds -> Nat] /\ cache \in [Nums -> NodeIds \cup {None}]
    BY <1>2, QuietStart
  <1>4. trailer = None BY <1>1 DEF Refs, TrailerOwned
  <1>5. Live # NodeIds
    <2> SUFFICES ASSUME Live = NodeIds PROVE FALSE OBVIOUS
    <2>1. NodeIds \ Live = {} OBVIOUS
    <2>2. Cardinality(NodeIds \ Live) = 0 BY <2>1, FS_EmptySet
    <2>3. Cardinality(Nums) \in Nat BY NumsAssumption, FS_CardinalityType
    <2> QED BY <2>2, <2>3 DEF Parsed, Room
  <1>6. Fresh \in NodeIds /\ node[Fresh] = Freed
    <2>1. Fresh \in NodeIds \ Live BY <1>5, FreshIsFree
    <2> QED BY <2>1 DEF Live
  <1> DEFINE ids == <<file.root>>
             new == Node(1, ids)
             f == Fresh
  <1>7. Unresolved(new) /\ new.refs = 1
    <2>1. file \in Files BY DEF IInv, TypeOK
    <2>2. ids \in Seq(Ids) BY <2>1, FilesAssumption
    <2> QED BY <2>2, ParsedNode
  <1>8. node' = [node EXCEPT ![f] = new] BY <1>1, Zenon DEF new
  <1>9. f \in NodeIds /\ node[f] = Freed BY <1>6
  <1> HIDE DEF f, new
  <1>10. Count(cache, {f}) = 0 /\ f \notin lost BY <1>3, <1>9, FreeAddress
  <1>11. OwnersOf(f, new.refs, cache, trailer, lost, cache, f, lost, None)
    BY <1>4, <1>7, <1>9, <1>10, NodeIdsAssumption DEF OwnersOf
  <1>12. /\ Balanced(node', held, cache, f, lost, None) /\ node'[f] = new
         /\ Placed(node, f, new, node')
    <2>1. Placed(node, f, new, node')
      <3>1. new \in NodeRecords BY <1>7 DEF Unresolved
      <3>2. Placed(node, f, new, [node EXCEPT ![f] = new]) BY <1>3, <1>9, <3>1, PlacedNode
      <3> QED BY <1>8, <3>2
    <2>2. Balanced(node', held, cache, f, lost, None)
      BY ONLY <1>3, <1>7, <1>9, <1>11, <2>1, FreshBalanced
    <2> QED BY <2>1, <2>2 DEF Placed
  <1>13. Balanced(node', held', cache', trailer', lost', None)
    BY <1>1, <1>12 DEF f
  <1>14. TrailerOwned' BY <1>1, <1>7, <1>12 DEF TrailerOwned, f
  <1>15. CacheGone' BY <1>1 DEF CacheGone
  <1>16. AtLeastOne' BY <1>7, <1>12 DEF Refs, AtLeastOne, Live, Placed
  <1> QED BY <1>2, <1>13, <1>14, <1>15, <1>16, QuietRefs

\* The start of a lookup changes no owner.
LEMMA AskRefs ==
    ASSUME IInv, IInv', Refs, Idle, Loading(Head(stack))',
           UNCHANGED <<phase, trailer, node, cache, held, lost>>
    PROVE  Refs'
  <1>1. NoRelease /\ NoRelease' BY LoadingIsNoRelease, LoadingIsNoReleaseNext
  <1>2. Balanced(node, held, cache, trailer, lost, None) BY <1>1, QuietStart
  <1>3. Balanced(node', held', cache', trailer', lost', None) BY <1>2
  <1>4. TrailerOwned' BY DEF Refs, TrailerOwned
  <1>5. CacheGone' BY DEF Refs, CacheGone, Idle
  <1>6. AtLeastOne' BY DEF Refs, AtLeastOne, Live
  <1> QED BY <1>1, <1>3, <1>4, <1>5, <1>6, QuietRefs

\* cos_doc_get_object is called by the client or by a reference node.
LEMMA GetObjectRefs == ASSUME IInv, IInv', Refs, NEW id \in Ids, GetObject(id) PROVE Refs'
  <1>1. UNCHANGED <<phase, trailer, node, cache, held, lost>> /\ Idle BY DEF GetObject
  <1>2. Loading(Head(stack))' BY DEF GetObject, Loading
  <1> QED BY <1>1, <1>2, AskRefs

\* cos_doc_resolve_ref_obj asks for an object as GetObject does.
LEMMA ResolveRefs == ASSUME IInv, IInv', Refs, NEW n, NEW i, Resolve(n, i) PROVE Refs'
  <1>1. UNCHANGED <<phase, trailer, node, cache, held, lost>> /\ Idle BY DEF Resolve
  <1>2. Loading(Head(stack))' BY DEF Resolve, Loading
  <1> QED BY <1>1, <1>2, AskRefs

\* One more reference to m.
Bump(h, m) == [h EXCEPT ![m].refs = @ + 1]

\* It is for whoever comes to own it.
LEMMA BumpBalanced ==
    ASSUME NEW h \in Heaps, NEW hd \in [NodeIds -> Nat], NEW c \in [Nums -> NodeIds \cup {None}],
           NEW t, NEW l, Balanced(h, hd, c, t, l, None), NEW m \in NodeIds, h[m] # Freed
    PROVE  /\ Balanced(Bump(h, m), hd, c, t, l, m) /\ Bump(h, m) \in Heaps
           /\ \A n \in NodeIds : n # m => Bump(h, m)[n] = h[n]
           /\ Bump(h, m)[m] # Freed /\ Bump(h, m)[m].slots = h[m].slots
           /\ Bump(h, m)[m].refs = h[m].refs + 1
  <1> DEFINE new == [h[m] EXCEPT !.refs = @ + 1]
             g == Bump(h, m)
  <1>1. h[m] \in NodeRecords BY DEF Heaps
  <1>2. new \in NodeRecords /\ new.slots = h[m].slots /\ new.refs = h[m].refs + 1
    BY <1>1 DEF NodeRecords
  <1>3. g = [h EXCEPT ![m] = new] BY Zenon DEF Bump
  <1> HIDE DEF new, g
  <1>4. g \in Heaps /\ g[m] = new /\ \A n \in NodeIds : n # m => g[n] = h[n]
    BY <1>2, <1>3 DEF Heaps
  <1>5. g[m] # Freed BY <1>2, <1>4, FreedAssumption
  <1>6. \A n \in NodeIds : Table(g, {})[n] = Table(h, {})[n]
    BY <1>2, <1>4, <1>5 DEF Table
  <1>7. \A n : InSlots(g, {}, n) = InSlots(h, {}, n) BY <1>6, RowsSame
  <1>8. \A n \in NodeIds : Due(g, hd, c, t, l, n) = Due(h, hd, c, t, l, n) BY <1>7 DEF Due
  <1>9. ASSUME NEW n \in NodeIds
        PROVE  Due(g, hd, c, t, l, n) + (IF n = m THEN 1 ELSE 0) = IF g[n] = Freed THEN 0 ELSE g[n].refs
    <2> DEFINE due == Due(h, hd, c, t, l, n)
    <2>1. n # None BY NodeIdsAssumption
    <2>2. due + 0 = IF h[n] = Freed THEN 0 ELSE h[n].refs BY <2>1 DEF Balanced
    <2>3. due \in Nat BY DueParts
    <2>4. Due(g, hd, c, t, l, n) = due BY <1>8
    <2> HIDE DEF due
    <2>5. due = IF h[n] = Freed THEN 0 ELSE h[n].refs BY ONLY <2>2, <2>3
    <2>6. CASE n = m BY <1>2, <1>4, <1>5, <2>4, <2>5, <2>6
    <2>7. CASE n # m BY ONLY <1>4, <2>3, <2>4, <2>5, <2>7, n \in NodeIds
    <2> QED BY <2>6, <2>7
  <1>10. Balanced(g, hd, c, t, l, m) BY <1>9 DEF Balanced
  <1> QED BY <1>2, <1>4, <1>5, <1>10 DEF g

\* cos_obj_node_retain by the client.
LEMMA RetainRefs == ASSUME IInv, IInv', Refs, NEW n \in NodeIds, Retain(n) PROVE Refs'
  <1>1. /\ Idle /\ n \in Live /\ n # trailer
        /\ node' = Bump(node, n) /\ held' = [held EXCEPT ![n] = @ + 1]
        /\ UNCHANGED <<phase, trailer, cache, stack, lost>>
    BY DEF Retain, Bump
  <1>2. NoRelease /\ NoRelease' BY <1>1 DEF Idle, NoRelease
  <1>3. /\ Balanced(node, held, cache, trailer, lost, None) /\ node \in Heaps
        /\ held \in [NodeIds -> Nat] /\ cache \in [Nums -> NodeIds \cup {None}]
    BY <1>2, QuietStart
  <1>4. node[n] # Freed BY <1>1 DEF Live
  <1>5. /\ Balanced(node', held, cache, trailer, lost, n) /\ node' \in Heaps
        /\ \A m \in NodeIds : m # n => node'[m] = node[m]
        /\ node'[n] # Freed /\ node'[n].refs = node[n].refs + 1
    <2> DEFINE g == Bump(node, n)
    <2>1. /\ Balanced(g, held, cache, trailer, lost, n) /\ g \in Heaps
          /\ \A m \in NodeIds : m # n => g[m] = node[m]
          /\ g[n] # Freed /\ g[n].refs = node[n].refs + 1
      BY ONLY <1>3, <1>4, n \in NodeIds, BumpBalanced
    <2>2. node' = g BY <1>1
    <2> HIDE DEF g
    <2> QED BY ONLY <2>1, <2>2
  <1>6. ASSUME NEW m \in NodeIds
        PROVE  Due(node', held', cache, trailer, lost, m) + (IF m = None THEN 1 ELSE 0)
                   = IF node'[m] = Freed THEN 0 ELSE node'[m].refs
    <2>1. m # None BY NodeIdsAssumption
    <2>2. held'[m] = held[m] + (IF m = n THEN 1 ELSE 0) /\ held[m] \in Nat BY <1>1, <1>3
    <2>3. Count(cache, {m}) \in Nat /\ InSlots(node', {}, m) \in Nat
      BY <1>3, <1>5, CacheCount, RowType
    <2>4. Due(node', held, cache, trailer, lost, m) + (IF m = n THEN 1 ELSE 0)
              = IF node'[m] = Freed THEN 0 ELSE node'[m].refs
      BY <1>5 DEF Balanced
    <2>5. Due(node', held, cache, trailer, lost, m) =
              held[m] + Count(cache, {m}) + InSlots(node', {}, m)
              + (IF m = trailer THEN 1 ELSE 0) + (IF m \in lost THEN 1 ELSE 0)
      BY DEF Due
    <2>6. Due(node', held', cache, trailer, lost, m) =
              held'[m] + Count(cache, {m}) + InSlots(node', {}, m)
              + (IF m = trailer THEN 1 ELSE 0) + (IF m \in lost THEN 1 ELSE 0)
      BY DEF Due
    <2> QED BY ONLY <2>1, <2>2, <2>3, <2>4, <2>5, <2>6
  <1>7. Balanced(node', held', cache', trailer', lost', None) BY <1>1, <1>6 DEF Balanced
  <1>8. TrailerOwned'
    <2>1. trailer \in NodeIds \cup {None} BY <1>2, QuietStart
    <2> QED BY <1>1, <1>5, <2>1 DEF Refs, TrailerOwned
  <1>9. CacheGone' BY <1>1 DEF Refs, CacheGone, Idle
  <1>10. AtLeastOne'
    <2>1. node[n] \in NodeRecords BY <1>3, <1>4 DEF Heaps
    <2> QED BY <1>4, <1>5, <2>1 DEF Refs, AtLeastOne, Live, NodeRecords
  <1> QED BY <1>2, <1>7, <1>8, <1>9, <1>10, QuietRefs

-----------------------------------------------------------------------------
(* The steps of cos_doc_get_object *)

\* What the call on top of the stack returns to.
LEMMA TopTarget ==
    ASSUME IInv, stack # <<>>, Loading(Head(stack)),
           NEW h, \A n \in Live : h[n] # Freed /\ h[n].slots = node[n].slots
    PROVE  TargetIn(h, Head(stack).slot)
  <1>1. stack \in Seq(Calls) BY DEF IInv, TypeOK
  <1>2. 1 \in DOMAIN stack /\ Head(stack) = stack[1] BY <1>1
  <1> DEFINE to == Head(stack).slot
  <1>3. to # None => to[1] \in Live /\ to[2] \in DOMAIN node[to[1]].slots
                     /\ node[to[1]].slots[to[2]].value = None
    BY <1>2, Zenon DEF IInv, Targets
  <1> QED BY <1>3 DEF TargetIn, Live

\* A call that returns, on a heap that balances if its caller is given value.
LEMMA ReturnedRefs ==
    ASSUME IInv, IInv', Refs, stack # <<>>, Loading(Head(stack)), UNCHANGED <<phase, trailer>>,
           NEW h \in Heaps, NEW value \in NodeIds \cup {None},
           Balanced(h, held, cache', trailer, lost', value),
           \A n \in Live : h[n] # Freed /\ h[n].slots = node[n].slots,
           trailer # None => h[trailer].refs = node[trailer].refs,
           \A n \in NodeIds : h[n] # Freed => h[n].refs > 0,
           phase = "destroyed" => cache' = cache,
           Return(value, h, Tail(stack))
    PROVE  Refs'
  <1>1. /\ stack \in Seq(Calls) /\ cache' \in [Nums -> NodeIds \cup {None}]
        /\ held \in [NodeIds -> Nat]
    BY DEF IInv, TypeOK
  <1>2. stack' = Tail(stack) BY DEF Return
  <1>3. NoRelease BY LoadingIsNoRelease
  <1>4. ASSUME NEW i \in DOMAIN stack' PROVE i + 1 \in DOMAIN stack /\ stack'[i] = stack[i + 1]
    BY <1>1, <1>2
  <1>5. NoRelease' BY <1>3, <1>4 DEF NoRelease
  <1>6. TargetIn(h, Head(stack).slot) BY TopTarget
  <1>7. /\ Balanced(node', held', cache', trailer, lost', None) /\ node' \in Heaps
        /\ \A n \in NodeIds : /\ node'[n] = Freed <=> h[n] = Freed
                              /\ h[n] # Freed => node'[n].refs = h[n].refs
    <2>1. PICK c : c = cache' OBVIOUS
    <2>2. PICK l : l = lost' OBVIOUS
    <2>3. PICK t : t = trailer OBVIOUS
    <2>4. Balanced(h, held, c, t, l, value) /\ c \in [Nums -> NodeIds \cup {None}]
      BY <1>1, <2>1, <2>2, <2>3
    <2>5. /\ Balanced(node', held', c, t, l, None) /\ node' \in Heaps
          /\ \A n \in NodeIds : /\ node'[n] = Freed <=> h[n] = Freed
                                /\ h[n] # Freed => node'[n].refs = h[n].refs
      BY <1>1, <1>6, <2>4, ReturnBalanced
    <2> QED BY ONLY <2>1, <2>2, <2>3, <2>5
  <1>8. TrailerOwned'
    <2>1. trailer # None => trailer \in Live /\ trailer \in NodeIds
      BY <1>3, QuietStart
    <2> QED BY <1>7, <2>1 DEF Refs, TrailerOwned
  <1>9. CacheGone'
    <2>1. 1 \in DOMAIN stack /\ Head(stack) = stack[1] BY <1>1
    <2>2. \A i \in DOMAIN stack : stack[i].call # "cache"
      BY <2>1 DEF IInv, OneKind, Loading
    <2> QED BY <2>2 DEF Refs, CacheGone
  <1>10. AtLeastOne' BY <1>7 DEF AtLeastOne, Live
  <1> QED BY <1>3, <1>5, <1>7, <1>8, <1>9, <1>10, QuietRefs

\* What a lookup that is not answered by the cache may assume of its step.
LEMMA LoadContext ==
    ASSUME IInv, Refs, stack # <<>>, Head(stack).call = "get"
    PROVE  /\ Loading(Head(stack)) /\ Head(stack).id[1] \in Nums
           /\ Balanced(node, held, cache, trailer, lost, None) /\ node \in Heaps
           /\ held \in [NodeIds -> Nat] /\ cache \in [Nums -> NodeIds \cup {None}]
           /\ trailer \in NodeIds \cup {None}
           /\ \A n \in NodeIds : n = trailer => n \in Live
           /\ \A k \in Nums : cache[k] \in Live => cache[k] # trailer
  <1>1. Loading(Head(stack)) /\ Head(stack).id[1] \in Nums BY GetContext
  <1>2. NoRelease BY <1>1, LoadingIsNoRelease
  <1> QED BY <1>1, <1>2, QuietStart

\* A lookup that finds nothing, and the seek that fails in a stream.
LEMMA ReturnNothingRefs ==
    ASSUME IInv, IInv', Refs, stack # <<>>, Loading(Head(stack)), UNCHANGED <<phase, trailer>>,
           Return(None, node, Tail(stack)), UNCHANGED <<cache, lost>>
    PROVE  Refs'
  <1>1. NoRelease BY LoadingIsNoRelease
  <1>2. Balanced(node, held, cache, trailer, lost, None) /\ node \in Heaps BY <1>1, QuietStart
  <1>3. PICK h \in Heaps : h = node BY <1>2
  <1>4. Balanced(h, held, cache', trailer, lost', None) BY <1>2, <1>3
  <1>5. \A n \in Live : h[n] # Freed /\ h[n].slots = node[n].slots BY <1>3 DEF Live
  <1>6. (trailer # None => h[trailer].refs = node[trailer].refs) /\ Return(None, h, Tail(stack))
    BY <1>3
  <1>7. \A n \in NodeIds : h[n] # Freed => h[n].refs > 0 BY <1>3 DEF Refs, AtLeastOne, Live
  <1> QED BY <1>4, <1>5, <1>6, <1>7, ReturnedRefs

\* A lookup the cache answers (CosDoc.c:168-175) retains what it returns.
LEMMA GetCachedRefs ==
    ASSUME IInv, IInv', Refs, stack # <<>>, Head(stack).call = "get", GetCached,
           UNCHANGED <<phase, trailer>>
    PROVE  Refs'
  <1>1. PICK n : n = cache[Head(stack).id[1]] OBVIOUS
  <1>2. n \in Live /\ Return(n, Bump(node, n), Tail(stack)) /\ UNCHANGED <<cache, lost>>
    BY <1>1, Zenon DEF GetCached, Bump
  <1>3. /\ Loading(Head(stack)) /\ Balanced(node, held, cache, trailer, lost, None)
        /\ node \in Heaps /\ held \in [NodeIds -> Nat] /\ cache \in [Nums -> NodeIds \cup {None}]
        /\ n # trailer /\ trailer \in NodeIds \cup {None}
    BY <1>1, <1>2, LoadContext
  <1>4. n \in NodeIds /\ node[n] # Freed BY <1>2 DEF Live
  <1>5. PICK h : h = Bump(node, n) OBVIOUS
  <1>6. /\ Balanced(h, held, cache, trailer, lost, n) /\ h \in Heaps
        /\ \A m \in NodeIds : m # n => h[m] = node[m]
        /\ h[n] # Freed /\ h[n].slots = node[n].slots /\ h[n].refs = node[n].refs + 1
    <2> DEFINE g == Bump(node, n)
    <2>1. /\ Balanced(g, held, cache, trailer, lost, n) /\ g \in Heaps
          /\ \A m \in NodeIds : m # n => g[m] = node[m]
          /\ g[n] # Freed /\ g[n].slots = node[n].slots /\ g[n].refs = node[n].refs + 1
      BY ONLY <1>3, <1>4, BumpBalanced
    <2>2. h = g BY <1>5
    <2> HIDE DEF g
    <2> QED BY ONLY <2>1, <2>2
  <1>7. \A m \in Live : h[m] # Freed /\ h[m].slots = node[m].slots BY <1>6 DEF Live
  <1>8. trailer # None => h[trailer].refs = node[trailer].refs BY <1>3, <1>6
  <1>9. Balanced(h, held, cache', trailer, lost', n) /\ Return(n, h, Tail(stack))
    BY <1>2, <1>5, <1>6
  <1>10. \A m \in NodeIds : h[m] # Freed => h[m].refs > 0
    <2>1. node[n].refs > 0 /\ node[n].refs \in Nat
      BY <1>2, LiveNode DEF IInv, Refs, AtLeastOne, NodeRecords
    <2> QED BY <1>6, <2>1 DEF Refs, AtLeastOne, Live
  <1> QED BY <1>2, <1>3, <1>4, <1>6, <1>7, <1>8, <1>9, <1>10, ReturnedRefs

\* A node at the address malloc gives, on the heap before the step.
LEMMA FreshNode ==
    ASSUME IInv, Refs, stack # <<>>, Head(stack).call = "get", Live # NodeIds,
           NEW new, Unresolved(new), new.refs > 0, NEW h, h = [node EXCEPT ![Fresh] = new]
    PROVE  /\ Fresh \in NodeIds /\ node[Fresh] = Freed /\ Placed(node, Fresh, new, h)
           /\ h \in Heaps /\ \A n \in Live : h[n] # Freed /\ h[n].slots = node[n].slots
           /\ Fresh # trailer /\ Fresh \notin lost /\ Count(cache, {Fresh}) = 0
           /\ trailer # None => h[trailer].refs = node[trailer].refs
           /\ \A n \in NodeIds : h[n] # Freed => h[n].refs > 0
  <1>1. /\ Balanced(node, held, cache, trailer, lost, None) /\ node \in Heaps
        /\ held \in [NodeIds -> Nat] /\ cache \in [Nums -> NodeIds \cup {None}]
        /\ trailer \in NodeIds \cup {None}
    BY LoadContext
  <1>2. PICK f : f = Fresh OBVIOUS
  <1>3. f \in NodeIds /\ node[f] = Freed BY <1>2, FreshIsFree DEF Live
  <1>4. new \in NodeRecords BY DEF Unresolved
  <1>5. Placed(node, f, new, h)
    <2>1. Placed(node, f, new, [node EXCEPT ![f] = new]) BY <1>1, <1>3, <1>4, PlacedNode
    <2> QED BY <1>2, <2>1
  <1>6. held[f] = 0 /\ Count(cache, {f}) = 0 /\ InSlots(node, {}, f) = 0
        /\ f # trailer /\ f \notin lost
    BY ONLY <1>1, <1>3, FreeAddress
  <1>7. \A n \in Live : h[n] # Freed /\ h[n].slots = node[n].slots
    BY <1>3, <1>5 DEF Live, Placed
  <1>8. h \in Heaps /\ (trailer # None => h[trailer].refs = node[trailer].refs)
    BY <1>1, <1>5, <1>6 DEF Placed
  <1>9. \A n \in NodeIds : h[n] # Freed => h[n].refs > 0
    BY <1>5 DEF Refs, AtLeastOne, Live, Placed
  <1> QED BY <1>2, <1>3, <1>5, <1>6, <1>7, <1>8, <1>9

\* A load from the file: the parser's reference for the cache, another for
\* the caller (CosDoc.c:177-196).
LEMMA GetLoadedRefs ==
    ASSUME IInv, IInv', Refs, stack # <<>>, Head(stack).call = "get", GetLoaded,
           UNCHANGED <<phase, trailer>>
    PROVE  Refs'
  <1>1. PICK k : k = Head(stack).id[1] OBVIOUS
  <1>2. PICK f : f = Fresh OBVIOUS
  <1>3. PICK ids : ids = Object(Head(stack).id).refs OBVIOUS
  <1>4. /\ InUse(Head(stack).id) /\ cache[k] = None /\ Live # NodeIds
        /\ Object(Head(stack).id).kind = "plain" /\ lost' = lost
    BY <1>1 DEF GetLoaded
  <1>5. PICK cached \in BOOLEAN :
              /\ cache' = IF cached THEN CacheWith(cache, k, f) ELSE cache
              /\ Return(f, [node EXCEPT ![f] = Node(LoadedRefs(cached), ids)], Tail(stack))
    BY <1>1, <1>2, <1>3, Zenon DEF GetLoaded, Insertions, CacheWith
  <1>6. /\ Loading(Head(stack)) /\ k \in Nums
        /\ Balanced(node, held, cache, trailer, lost, None) /\ node \in Heaps
        /\ held \in [NodeIds -> Nat] /\ cache \in [Nums -> NodeIds \cup {None}]
    BY <1>1, LoadContext
  <1>7. ids \in Seq(Ids)
    <2>1. file.xref[k] \in Entries /\ file.object[file.xref[k].at] \in Objects
      <3>1. file \in Files BY DEF IInv, TypeOK
      <3>2. file.xref[k] \in Entries BY <1>6, <3>1, FilesAssumption
      <3>3. file.xref[k].type = "inUse" BY <1>1, <1>4 DEF InUse
      <3>4. file.xref[k].at \in Offsets BY <3>2, <3>3 DEF Entries
      <3> QED BY <3>1, <3>2, <3>4, FilesAssumption
    <2>2. Object(Head(stack).id) \in Objects BY <1>1, <2>1 DEF Object
    <2> QED BY <1>3, <1>4, <2>2 DEF Objects
  <1>8. LoadedRefs(cached) \in Nat BY DEF LoadedRefs
  <1>9. PICK new : new = Node(LoadedRefs(cached), ids) OBVIOUS
  <1>10. Unresolved(new) /\ new.refs = LoadedRefs(cached) BY <1>7, <1>8, <1>9, ParsedNode
  <1>11. PICK h : h = [node EXCEPT ![f] = new] OBVIOUS
  <1>12. /\ f \in NodeIds /\ node[f] = Freed /\ Placed(node, f, new, h)
         /\ h \in Heaps /\ \A n \in Live : h[n] # Freed /\ h[n].slots = node[n].slots
         /\ f # trailer /\ f \notin lost /\ Count(cache, {f}) = 0
         /\ trailer # None => h[trailer].refs = node[trailer].refs
         /\ \A n \in NodeIds : h[n] # Freed => h[n].refs > 0
    <2>1. new.refs > 0 BY <1>10 DEF LoadedRefs
    <2> QED BY ZenonT(30), <1>2, <1>4, <1>10, <1>11, <2>1, FreshNode
  <1>13. PICK c : c = cache' OBVIOUS
  <1>14. c \in [Nums -> NodeIds \cup {None}] BY <1>13 DEF IInv, TypeOK
  <1>15. ASSUME NEW n \in NodeIds
         PROVE  Count(c, {n}) = Count(cache, {n}) + (IF cached /\ n = f THEN 1 ELSE 0)
    <2>1. n # None /\ Count(cache, {n}) \in Nat BY <1>6, NodeIdsAssumption, CacheCount
    <2>2. CASE cached
      <3>1. c = CacheWith(cache, k, f) BY <1>5, <1>13, <2>2
      <3>2. Count(CacheWith(cache, k, f), {n}) =
                Count(cache, {n}) - (IF cache[k] = n THEN 1 ELSE 0) + (IF f = n THEN 1 ELSE 0)
        <4>1. f \in NodeIds \cup {None} BY <1>12
        <4>2. cache \in [Nums -> NodeIds \cup {None}] /\ k \in Nums BY <1>6
        <4> QED BY ONLY ZenonT(30), <4>1, <4>2, CacheCount
      <3>3. Count(c, {n}) =
                Count(cache, {n}) - (IF cache[k] = n THEN 1 ELSE 0) + (IF f = n THEN 1 ELSE 0)
        BY ONLY <3>1, <3>2
      <3> QED BY ONLY <1>4, <2>1, <2>2, <3>3
    <2>3. CASE ~cached BY <1>5, <1>13, <2>1, <2>3
    <2> QED BY <2>2, <2>3
  <1>16. OwnersOf(f, new.refs, cache, trailer, lost, c, trailer, lost, f)
    <2>1. \A n \in NodeIds : n # f => Count(c, {n}) = Count(cache, {n})
      <3> TAKE n \in NodeIds
      <3>1. Count(cache, {n}) \in Nat BY <1>6, CacheCount
      <3> QED BY <1>15, <3>1
    <2>2. Count(c, {f}) = IF cached THEN 1 ELSE 0 BY <1>12, <1>15
    <2>3. new.refs = Count(c, {f}) + 0 + 0 + 1 BY <1>10, <2>2 DEF LoadedRefs
    <2> QED BY <1>12, <2>1, <2>3 DEF OwnersOf
  <1>17. Balanced(h, held, c, trailer, lost, f)
    BY ONLY <1>6, <1>10, <1>12, <1>14, <1>16, FreshBalanced
  <1>18. Balanced(h, held, cache', trailer, lost', f) BY <1>4, <1>13, <1>17
  <1>19. Return(f, h, Tail(stack)) BY <1>5, <1>9, <1>11
  <1>20. phase # "destroyed" BY <1>4 DEF InUse
  <1> QED BY <1>6, <1>12, <1>18, <1>19, <1>20, ReturnedRefs

\* A stream: what was parsed of it is lost, whether its Length is resolved
\* first or not (CosObjParser.c:322-370).
LEMMA GetStreamRefs ==
    ASSUME IInv, IInv', Refs, stack # <<>>, Head(stack).call = "get", GetStream,
           UNCHANGED <<phase, trailer>>
    PROVE  Refs'
  <1>1. PICK f : f = Fresh OBVIOUS
  <1>2. PICK length : length = Object(Head(stack).id).length OBVIOUS
  <1>3. /\ InUse(Head(stack).id) /\ cache[Head(stack).id[1]] = None /\ Live # NodeIds
        /\ Object(Head(stack).id).kind = "stream" /\ cache' = cache /\ lost' = lost \cup {f}
    BY <1>1 DEF GetStream
  <1>4. /\ Loading(Head(stack)) /\ Head(stack).id[1] \in Nums
        /\ Balanced(node, held, cache, trailer, lost, None) /\ node \in Heaps
        /\ held \in [NodeIds -> Nat] /\ cache \in [Nums -> NodeIds \cup {None}]
        /\ trailer \in NodeIds \cup {None}
    BY LoadContext
  <1>5. length \in Ids \cup {None}
    <2> DEFINE k == Head(stack).id[1]
    <2>1. file.xref[k] \in Entries /\ file.object[file.xref[k].at] \in Objects
      <3>1. file \in Files BY DEF IInv, TypeOK
      <3>2. file.xref[k] \in Entries BY <1>4, <3>1, FilesAssumption
      <3>3. file.xref[k].type = "inUse" BY <1>3 DEF InUse
      <3>4. file.xref[k].at \in Offsets BY <3>2, <3>3 DEF Entries
      <3> QED BY <3>1, <3>2, <3>4, FilesAssumption
    <2>2. Object(Head(stack).id) \in Objects BY <2>1 DEF Object
    <2> QED BY <1>2, <1>3, <2>2 DEF Objects
  <1>6. PICK ids : ids = IF length = None THEN <<>> ELSE <<length>> OBVIOUS
  <1>7. ids \in Seq(Ids) BY <1>5, <1>6
  <1>8. PICK new : new = Node(1, ids) OBVIOUS
  <1>9. Unresolved(new) /\ new.refs = 1 BY <1>7, <1>8, ParsedNode
  <1>10. PICK h : h = [node EXCEPT ![f] = new] OBVIOUS
  <1>11. /\ f \in NodeIds /\ node[f] = Freed /\ Placed(node, f, new, h)
         /\ h \in Heaps /\ \A n \in Live : h[n] # Freed /\ h[n].slots = node[n].slots
         /\ f # trailer /\ f \notin lost /\ Count(cache, {f}) = 0
         /\ trailer # None => h[trailer].refs = node[trailer].refs
         /\ \A n \in NodeIds : h[n] # Freed => h[n].refs > 0
    <2>1. new.refs > 0 BY <1>9
    <2> QED BY ZenonT(30), <1>1, <1>3, <1>9, <1>10, <2>1, FreshNode
  <1>12. PICK l : l = lost' OBVIOUS
  <1>13. OwnersOf(f, new.refs, cache, trailer, lost, cache, trailer, l, None)
    BY <1>3, <1>9, <1>11, <1>12, NodeIdsAssumption DEF OwnersOf
  <1>14. Balanced(h, held, cache, trailer, l, None)
    BY ONLY <1>4, <1>9, <1>11, <1>13, FreshBalanced
  <1>15. Balanced(h, held, cache', trailer, lost', None) BY <1>3, <1>12, <1>14
  <1>16. phase # "destroyed" BY <1>3 DEF InUse
  <1>17. CASE length = None
    <2>1. Return(None, h, Tail(stack)) BY <1>1, <1>2, <1>6, <1>8, <1>10, <1>17 DEF GetStream
    <2> QED BY <1>3, <1>4, <1>11, <1>15, <1>16, <2>1, ReturnedRefs
  <1>18. CASE length # None
    <2>1. node' = h /\ held' = held
      BY <1>1, <1>2, <1>6, <1>8, <1>10, <1>18 DEF GetStream
    <2>2. Loading(Head(stack))'
      <3> DEFINE c == [call |-> "get", id |-> length, slot |-> <<f, 1>>]
                 d == [call |-> "seek", slot |-> Head(stack).slot]
                 q == <<c, d>>
                 t == Tail(stack)
      <3>1. stack' = q \o t BY <1>1, <1>2, <1>18, Zenon DEF GetStream
      <3>2. stack \in Seq(Calls) BY DEF IInv, TypeOK
      <3>3. t \in Seq(Calls) BY <3>2
      <3>4. stack' \in Seq(Calls) BY DEF IInv, TypeOK
      <3>5. c.call = "get" OBVIOUS
      <3> HIDE DEF c, d, t
      <3>6. Head(q \o t) = c BY <3>3
      <3> QED BY <3>1, <3>5, <3>6 DEF Loading
    <2>3. NoRelease' BY <2>2, LoadingIsNoReleaseNext
    <2>4. Balanced(node', held', cache', trailer', lost', None) BY <1>15, <2>1
    <2>5. TrailerOwned' BY <1>11, <2>1 DEF Refs, TrailerOwned
    <2>6. CacheGone' BY <1>16 DEF CacheGone
    <2>7. NoRelease BY <1>4, LoadingIsNoRelease
    <2>8. AtLeastOne' BY <1>11, <2>1 DEF AtLeastOne, Live
    <2> QED BY <2>3, <2>4, <2>5, <2>6, <2>8, QuietRefs
  <1> QED BY <1>17, <1>18

-----------------------------------------------------------------------------
(* The steps of a release *)

\* Each owner has its share, also while a release is in progress.
LEMMA OwedParts ==
    ASSUME TypeOK, NEW n \in NodeIds
    PROVE  /\ held[n] \in Nat /\ Count(cache, {n}) \in Nat
           /\ InSlots(node, Dying, n) \in Nat /\ Count(stack, CallsOn(n)) \in Nat
           /\ Owed(n) \in Nat
           /\ Owed(n) >= held[n] + Count(cache, {n}) + InSlots(node, Dying, n)
                                 + Count(stack, CallsOn(n))
           /\ (n = trailer \/ n \in lost) => Owed(n) > held[n] + Count(stack, CallsOn(n))
  <1>1. /\ held \in [NodeIds -> Nat] /\ cache \in [Nums -> NodeIds \cup {None}]
        /\ stack \in Seq(Calls) /\ node \in Heaps
    BY DEF TypeOK, Heaps
  <1>2. held[n] \in Nat /\ Count(cache, {n}) \in Nat BY <1>1, CacheCount
  <1>3. InSlots(node, Dying, n) \in Nat BY <1>1, RowType
  <1>4. Count(stack, CallsOn(n)) \in Nat BY <1>1, HitsFinite
  <1>5. Owed(n) = held[n] + Count(cache, {n}) + InSlots(node, Dying, n) + Count(stack, CallsOn(n))
                  + (IF n = trailer THEN 1 ELSE 0) + (IF n \in lost THEN 1 ELSE 0)
    BY DEF Owed
  <1> QED BY ONLY <1>2, <1>3, <1>4, <1>5

\* What is owned or about to be released is alive.
LEMMA OwnedIsAlive ==
    ASSUME TypeOK, Exact, NEW n \in NodeIds, Owed(n) > 0
    PROVE  n \in Alive /\ node[n].refs = Owed(n)
  <1>1. Owed(n) = IF n \in Alive THEN node[n].refs ELSE 0 BY DEF Exact
  <1>2. Owed(n) # 0 BY OwedParts
  <1> QED BY <1>1, <1>2

\* So is what the call on top of the stack releases.
LEMMA ReleasedIsAlive ==
    ASSUME TypeOK, Exact, stack # <<>>, Head(stack).call \in {"release", "destroy"},
           NEW x \in NodeIds, Head(stack).n = x
    PROVE  /\ x \in Alive /\ node[x].refs = Owed(x) /\ node[x] \in NodeRecords
           /\ Head(stack) \in CallsOn(x) /\ Owed(x) > 0
  <1>1. stack \in Seq(Calls) BY DEF TypeOK
  <1>2. 1 \in DOMAIN stack /\ Head(stack) = stack[1] /\ stack[1] \in Calls BY <1>1
  <1>3. Head(stack) \in CallsOn(x) BY <1>2 DEF Calls, CallsOn
  <1>4. Count(stack, CallsOn(x)) > 0 BY <1>1, <1>2, <1>3, CountPositive
  <1>5. Owed(x) > 0
    <2>1. /\ held[x] \in Nat /\ Count(cache, {x}) \in Nat
          /\ InSlots(node, Dying, x) \in Nat /\ Count(stack, CallsOn(x)) \in Nat /\ Owed(x) \in Nat
          /\ Owed(x) >= held[x] + Count(cache, {x}) + InSlots(node, Dying, x)
                                + Count(stack, CallsOn(x))
      BY OwedParts
    <2> QED BY ONLY <1>4, <2>1
  <1>6. x \in Alive /\ node[x].refs = Owed(x) BY <1>5, OwnedIsAlive
  <1>7. node[x] \in NodeRecords BY <1>6, LiveNode DEF Alive
  <1> QED BY <1>3, <1>5, <1>6, <1>7

\* The call on top is replaced by calls that neither free nor destroy.
LEMMA CallsKept ==
    ASSUME TypeOK, FreedOnce, DestroyFirst, stack # <<>>, Head(stack).call # "free",
           NEW d \in Seq(Calls), \A i \in DOMAIN d : d[i].call \notin {"free", "destroy"},
           stack' = d \o Tail(stack)
    PROVE  /\ Dying' = Dying
           /\ \A i, j \in DOMAIN stack' :
                  stack'[i].call = "free" /\ stack'[j].call = "free" /\ i # j
                      => stack'[i].n # stack'[j].n
           /\ \A i \in DOMAIN stack' : stack'[i].call = "free" => stack'[i].n \in NodeIds
           /\ DestroyFirst'
           /\ \A P : Count(stack', P) = Count(d, P) + Count(stack, P)
                                        - (IF Head(stack) \in P THEN 1 ELSE 0)
           /\ \A j \in DOMAIN stack : j # 1 => \E i \in DOMAIN stack' : stack'[i] = stack[j]
           /\ \A i \in DOMAIN d : \E j \in DOMAIN stack' : stack'[j] = d[i]
  <1>1. stack \in Seq(Calls) BY DEF TypeOK
  <1>2. PICK q : q = stack' OBVIOUS
  <1>3. q = d \o Tail(stack) BY <1>2
  <1>4. /\ 1 \in DOMAIN stack /\ Head(stack) = stack[1] /\ stack[1] \in Calls /\ q \in Seq(Calls)
        /\ \A i \in DOMAIN q :
               \/ i \in DOMAIN d /\ q[i] = d[i]
               \/ \E j \in DOMAIN stack : j # 1 /\ q[i] = stack[j] /\ i = j + Len(d) - 1
        /\ \A i \in DOMAIN d : i \in DOMAIN q /\ q[i] = d[i]
        /\ \A j \in DOMAIN stack : j # 1 => \E i \in DOMAIN q : q[i] = stack[j]
        /\ \A P : Count(q, P) = Count(d, P) + Count(stack, P) - (IF Head(stack) \in P THEN 1 ELSE 0)
    <2>1. TopGivesWay(Calls, stack, d, q)
      BY ONLY <1>1, <1>3, stack # <<>>, d \in Seq(Calls), TopReplaced
    <2> QED BY ONLY <2>1 DEF TopGivesWay
  <1>5. Len(d) \in Nat /\ DOMAIN stack \subseteq Nat BY <1>1
  <1>6. ASSUME NEW i \in DOMAIN q, q[i].call \in {"free", "destroy"}
        PROVE  \E j \in DOMAIN stack : j # 1 /\ q[i] = stack[j] /\ i = j + Len(d) - 1
    BY <1>4, <1>6
  <1>7. ASSUME NEW i \in DOMAIN q PROVE q[i].call # "destroy"
    <2> SUFFICES ASSUME q[i].call = "destroy" PROVE FALSE OBVIOUS
    <2>1. PICK j \in DOMAIN stack : j # 1 /\ q[i] = stack[j] BY <1>6
    <2> QED BY <2>1 DEF DestroyFirst
  <1>8. ASSUME NEW i \in DOMAIN q, NEW j \in DOMAIN q, q[i].call = "free", q[j].call = "free", i # j
        PROVE  q[i].n # q[j].n
    <2>1. PICK a \in DOMAIN stack : a # 1 /\ q[i] = stack[a] /\ i = a + Len(d) - 1 BY <1>6, <1>8
    <2>2. PICK b \in DOMAIN stack : b # 1 /\ q[j] = stack[b] /\ j = b + Len(d) - 1 BY <1>6, <1>8
    <2>3. a # b BY <1>8, <2>1, <2>2
    <2> QED BY <1>8, <2>1, <2>2, <2>3 DEF FreedOnce
  <1>9. ASSUME NEW i \in DOMAIN q, q[i].call = "free" PROVE q[i].n \in NodeIds
    <2>1. PICK j \in DOMAIN stack : q[i] = stack[j] BY <1>6, <1>9
    <2> QED BY <1>9, <2>1 DEF FreedOnce
  <1>10. ASSUME NEW n \in NodeIds
         PROVE  (\E i \in DOMAIN q : q[i].call = "free" /\ q[i].n = n)
                    <=> \E j \in DOMAIN stack : stack[j].call = "free" /\ stack[j].n = n
    <2>1. ASSUME NEW i \in DOMAIN q, q[i].call = "free", q[i].n = n
          PROVE  \E j \in DOMAIN stack : stack[j].call = "free" /\ stack[j].n = n
      <3>1. PICK j \in DOMAIN stack : q[i] = stack[j] BY <1>6, <2>1
      <3> QED BY <2>1, <3>1
    <2>2. ASSUME NEW j \in DOMAIN stack, stack[j].call = "free", stack[j].n = n
          PROVE  \E i \in DOMAIN q : q[i].call = "free" /\ q[i].n = n
      <3>1. j # 1 BY <1>4, <2>2
      <3>2. PICK i \in DOMAIN q : q[i] = stack[j] BY <1>4, <3>1
      <3> QED BY <2>2, <3>2
    <2> QED BY <2>1, <2>2
  <1>11. Dying' = Dying
    <2>1. Dying' = {n \in NodeIds : \E i \in DOMAIN q : q[i].call = "free" /\ q[i].n = n}
      BY <1>2 DEF Dying
    <2> QED BY ONLY <1>10, <2>1 DEF Dying
  <1>12. DestroyFirst' BY <1>2, <1>7 DEF DestroyFirst
  <1>13. \A i, j \in DOMAIN stack' :
             stack'[i].call = "free" /\ stack'[j].call = "free" /\ i # j
                 => stack'[i].n # stack'[j].n
    BY ONLY <1>2, <1>8
  <1>14. \A i \in DOMAIN stack' : stack'[i].call = "free" => stack'[i].n \in NodeIds
    BY ONLY <1>2, <1>9
  <1>15. \A P : Count(stack', P) = Count(d, P) + Count(stack, P) - (IF Head(stack) \in P THEN 1 ELSE 0)
    BY ONLY <1>2, <1>4
  <1>16. /\ \A j \in DOMAIN stack : j # 1 => \E i \in DOMAIN stack' : stack'[i] = stack[j]
         /\ \A i \in DOMAIN d : \E j \in DOMAIN stack' : stack'[j] = d[i]
    BY ONLY <1>2, <1>4
  <1> QED BY ONLY <1>11, <1>12, <1>13, <1>14, <1>15, <1>16

\* A call that does nothing but return.
LEMMA PopRefs ==
    ASSUME IInv, Refs, stack # <<>>, Head(stack).call # "free",
           \A n \in NodeIds : Head(stack) \notin CallsOn(n),
           Head(stack).call = "cache" => \A k \in Nums : cache[k] = None,
           stack' = Tail(stack), UNCHANGED <<phase, trailer, node, cache, held, lost>>
    PROVE  Refs'
  <1>0. TypeOK /\ Exact /\ FreedOnce /\ TrailerOwned /\ DestroyFirst /\ CacheGone
    BY DEF IInv, Refs
  <1>1. stack \in Seq(Calls) BY <1>0 DEF TypeOK
  <1>2. PICK d : d = <<>> OBVIOUS
  <1>3. /\ d \in Seq(Calls) /\ DOMAIN d = {} /\ stack' = d \o Tail(stack)
        /\ \A i \in DOMAIN d : d[i].call \notin {"free", "destroy"}
        /\ \A P : Count(d, P) = 0
    <2>1. Tail(stack) \in Seq(Calls) BY <1>1
    <2>2. \A P : Count(d, P) = 0 BY <1>2, CountEmpty
    <2> QED BY <1>2, <2>1, <2>2
  <1>4. /\ Dying' = Dying
        /\ \A i, j \in DOMAIN stack' :
               stack'[i].call = "free" /\ stack'[j].call = "free" /\ i # j
                   => stack'[i].n # stack'[j].n
        /\ \A i \in DOMAIN stack' : stack'[i].call = "free" => stack'[i].n \in NodeIds
        /\ DestroyFirst'
        /\ \A P : Count(stack', P) = Count(d, P) + Count(stack, P)
                                     - (IF Head(stack) \in P THEN 1 ELSE 0)
        /\ \A j \in DOMAIN stack : j # 1 => \E i \in DOMAIN stack' : stack'[i] = stack[j]
    BY <1>0, <1>3, CallsKept
  <1>5. Live' = Live /\ Alive' = Alive BY <1>4 DEF Live, Alive
  <1>6. ASSUME NEW n \in NodeIds PROVE Owed(n)' = Owed(n)
    <2>1. Count(stack', CallsOn(n)) = Count(stack, CallsOn(n))
      <3>1. Count(stack', CallsOn(n)) = 0 + Count(stack, CallsOn(n)) - 0 BY <1>3, <1>4
      <3>2. Count(stack, CallsOn(n)) \in Nat BY <1>0, OwedParts
      <3> QED BY ONLY <3>1, <3>2
    <2> QED BY <1>4, <2>1 DEF Owed
  <1>7. Exact' BY <1>0, <1>5, <1>6 DEF Exact
  <1>8. FreedOnce' BY <1>0, <1>4, <1>5 DEF FreedOnce
  <1>9. TrailerOwned' BY <1>0 DEF TrailerOwned
  <1>10. CacheGone'
    <2>1. 1 \in DOMAIN stack /\ Head(stack) = stack[1] BY <1>1
    <2> QED BY <1>0, <1>4, <2>1 DEF CacheGone
  <1>11. AtLeastOne' BY <1>5 DEF Refs, AtLeastOne
  <1> QED BY <1>4, <1>7, <1>8, <1>9, <1>10, <1>11 DEF Refs

\* Another reference to the node is left (CosObjNode.c:50-66).
LEMMA DecrementRefs ==
    ASSUME IInv, IInv', Refs, stack # <<>>, Head(stack).call = "release",
           NEW x \in NodeIds, Head(stack).n = x, node[x] # Freed, node[x].refs > 1,
           node' = [node EXCEPT ![x].refs = @ - 1], stack' = Tail(stack),
           UNCHANGED <<phase, trailer, cache, held, lost>>
    PROVE  Refs'
  <1>0. TypeOK /\ Exact /\ FreedOnce /\ TrailerOwned /\ DestroyFirst /\ CacheGone
    BY DEF IInv, Refs
  <1>1. stack \in Seq(Calls) /\ node \in Heaps BY <1>0 DEF TypeOK, Heaps
  <1>2. /\ x \in Alive /\ node[x].refs = Owed(x) /\ node[x] \in NodeRecords
        /\ Head(stack) \in CallsOn(x) /\ \A n \in NodeIds : n # x => Head(stack) \notin CallsOn(n)
    BY <1>0, ReleasedIsAlive DEF CallsOn
  <1> DEFINE new == [node[x] EXCEPT !.refs = @ - 1]
  <1>3. new \in NodeRecords /\ new.slots = node[x].slots /\ new.refs = node[x].refs - 1
    BY <1>2 DEF NodeRecords
  <1>4. node' = [node EXCEPT ![x] = new] BY Zenon
  <1> HIDE DEF new
  <1>5. /\ node' \in Heaps /\ node'[x] = new /\ new # Freed
        /\ \A m \in NodeIds : m # x => node'[m] = node[m]
    BY <1>1, <1>3, <1>4, FreedAssumption DEF Heaps
  <1>6. PICK d : d = <<>> OBVIOUS
  <1>7. /\ d \in Seq(Calls) /\ DOMAIN d = {} /\ stack' = d \o Tail(stack)
        /\ \A i \in DOMAIN d : d[i].call \notin {"free", "destroy"}
        /\ \A P : Count(d, P) = 0
    <2>1. Tail(stack) \in Seq(Calls) BY <1>1
    <2>2. \A P : Count(d, P) = 0 BY <1>6, CountEmpty
    <2> QED BY <1>6, <2>1, <2>2
  <1>8. /\ Dying' = Dying
        /\ \A i, j \in DOMAIN stack' :
               stack'[i].call = "free" /\ stack'[j].call = "free" /\ i # j
                   => stack'[i].n # stack'[j].n
        /\ \A i \in DOMAIN stack' : stack'[i].call = "free" => stack'[i].n \in NodeIds
        /\ DestroyFirst'
        /\ \A P : Count(stack', P) = Count(d, P) + Count(stack, P)
                                     - (IF Head(stack) \in P THEN 1 ELSE 0)
        /\ \A j \in DOMAIN stack : j # 1 => \E i \in DOMAIN stack' : stack'[i] = stack[j]
    BY <1>0, <1>7, CallsKept
  <1>9. Live' = Live /\ Alive' = Alive BY <1>5, <1>8 DEF Live, Alive
  <1>10. ASSUME NEW n \in NodeIds PROVE Owed(n)' = Owed(n) - (IF n = x THEN 1 ELSE 0)
    <2>1. Count(stack', CallsOn(n)) = Count(stack, CallsOn(n)) - (IF n = x THEN 1 ELSE 0)
      <3>1. Count(stack', CallsOn(n)) =
                0 + Count(stack, CallsOn(n)) - (IF Head(stack) \in CallsOn(n) THEN 1 ELSE 0)
        BY <1>7, <1>8
      <3>2. Count(stack, CallsOn(n)) \in Nat BY <1>0, OwedParts
      <3>3. Head(stack) \in CallsOn(n) <=> n = x BY <1>2
      <3> QED BY ONLY <3>1, <3>2, <3>3
    <2>2. \A m \in NodeIds : Table(node', Dying')[m] = Table(node, Dying)[m]
      BY <1>3, <1>5, <1>8 DEF Table
    <2>3. InSlots(node', Dying', n) = InSlots(node, Dying, n)
      <3>1. PICK g, E : g = node' /\ E = Dying' OBVIOUS
      <3>2. PICK h, D : h = node /\ D = Dying OBVIOUS
      <3>3. \A m \in NodeIds : Table(g, E)[m] = Table(h, D)[m] BY <2>2, <3>1, <3>2
      <3>4. InSlots(g, E, n) = InSlots(h, D, n) BY ONLY <3>3, RowsSame
      <3> QED BY <3>1, <3>2, <3>4
    <2>4. Owed(n)' = held[n] + Count(cache, {n}) + InSlots(node, Dying, n)
                     + (Count(stack, CallsOn(n)) - (IF n = x THEN 1 ELSE 0))
                     + (IF n = trailer THEN 1 ELSE 0) + (IF n \in lost THEN 1 ELSE 0)
      BY <2>1, <2>3 DEF Owed
    <2>5. Owed(n) = held[n] + Count(cache, {n}) + InSlots(node, Dying, n)
                    + Count(stack, CallsOn(n))
                    + (IF n = trailer THEN 1 ELSE 0) + (IF n \in lost THEN 1 ELSE 0)
      BY DEF Owed
    <2>6. /\ held[n] \in Nat /\ Count(cache, {n}) \in Nat
          /\ InSlots(node, Dying, n) \in Nat /\ Count(stack, CallsOn(n)) \in Nat
      BY <1>0, OwedParts
    <2> QED BY ONLY <2>4, <2>5, <2>6
  <1>11. ASSUME NEW n \in NodeIds PROVE Owed(n)' = IF n \in Alive' THEN node'[n].refs ELSE 0
    <2>1. CASE n = x BY <1>2, <1>3, <1>5, <1>9, <1>10, <2>1
    <2>2. CASE n # x
      <3>1. Owed(n) = IF n \in Alive THEN node[n].refs ELSE 0 BY <1>0 DEF Exact
      <3>2. Owed(n) \in Nat BY <1>0, OwedParts
      <3>3. node'[n] = node[n] BY <1>5, <2>2
      <3> QED BY ONLY <1>9, <1>10, <2>2, <3>1, <3>2, <3>3, n \in NodeIds
    <2> QED BY <2>1, <2>2
  <1>12. Exact' BY <1>11 DEF Exact
  <1>13. FreedOnce' BY <1>0, <1>8, <1>9 DEF FreedOnce
  <1>14. TrailerOwned'
    <2>1. trailer \in NodeIds \cup {None} BY <1>0 DEF TypeOK
    <2>2. x = trailer => FALSE BY <1>0, NodeIdsAssumption DEF TrailerOwned
    <2> QED BY <1>0, <1>5, <2>1, <2>2 DEF TrailerOwned
  <1>15. CacheGone'
    <2>1. 1 \in DOMAIN stack /\ Head(stack) = stack[1] BY <1>1
    <2> QED BY <1>0, <1>8, <2>1 DEF CacheGone
  <1>16. AtLeastOne'
    <2>1. node[x].refs \in Nat BY <1>2 DEF NodeRecords
    <2> QED BY <1>3, <1>5, <2>1 DEF Refs, AtLeastOne, Live
  <1> QED BY <1>8, <1>12, <1>13, <1>14, <1>15, <1>16 DEF Refs

\* The memory of a node is given back: nobody owned it any more.
LEMMA FreeRefs ==
    ASSUME IInv, IInv', Refs, stack # <<>>, Head(stack).call = "free",
           NEW x \in NodeIds, Head(stack).n = x,
           node' = [node EXCEPT ![x] = Freed], stack' = Tail(stack),
           UNCHANGED <<phase, trailer, cache, held, lost>>
    PROVE  Refs'
  <1>0. TypeOK /\ Exact /\ FreedOnce /\ TrailerOwned /\ DestroyFirst /\ CacheGone
    BY DEF IInv, Refs
  <1>1. stack \in Seq(Calls) /\ node \in Heaps BY <1>0 DEF TypeOK, Heaps
  <1>2. node' \in Heaps /\ node'[x] = Freed /\ \A m \in NodeIds : m # x => node'[m] = node[m]
    BY <1>1 DEF Heaps
  <1>3. PICK d : d = <<>> OBVIOUS
  <1>4. d \in Seq(Calls) /\ DOMAIN d = {} /\ Len(d) = 0 /\ \A P : Count(d, P) = 0
    <2>1. \A P : Count(d, P) = 0 BY <1>3, CountEmpty
    <2> QED BY <1>3, <2>1
  <1>5. PICK q : q = stack' OBVIOUS
  <1>6. TopGivesWay(Calls, stack, d, q)
    <2>1. Tail(stack) \in Seq(Calls) BY <1>1
    <2>2. q = d \o Tail(stack) BY <1>3, <1>5, <2>1
    <2> QED BY ONLY <1>1, <1>4, <2>2, stack # <<>>, TopReplaced
  <1>7. /\ 1 \in DOMAIN stack /\ Head(stack) = stack[1]
        /\ \A i \in DOMAIN q : \E j \in DOMAIN stack : j # 1 /\ q[i] = stack[j] /\ i = j + Len(d) - 1
        /\ \A j \in DOMAIN stack : j # 1 => \E i \in DOMAIN q : q[i] = stack[j]
        /\ \A P : Count(q, P) = Count(d, P) + Count(stack, P) - (IF Head(stack) \in P THEN 1 ELSE 0)
    BY ONLY <1>4, <1>6 DEF TopGivesWay
  <1>8. x \in Dying /\ \A j \in DOMAIN stack : j # 1 /\ stack[j].call = "free" => stack[j].n # x
    BY <1>0, <1>7 DEF Dying, FreedOnce
  <1>9. ASSUME NEW n \in NodeIds
        PROVE  (\E i \in DOMAIN q : q[i].call = "free" /\ q[i].n = n)
                   <=> n # x /\ \E j \in DOMAIN stack : stack[j].call = "free" /\ stack[j].n = n
    <2>1. ASSUME NEW i \in DOMAIN q, q[i].call = "free", q[i].n = n
          PROVE  n # x /\ \E j \in DOMAIN stack : stack[j].call = "free" /\ stack[j].n = n
      <3>1. PICK j \in DOMAIN stack : j # 1 /\ q[i] = stack[j] BY <1>7
      <3> QED BY <1>8, <2>1, <3>1
    <2>2. ASSUME n # x, NEW j \in DOMAIN stack, stack[j].call = "free", stack[j].n = n
          PROVE  \E i \in DOMAIN q : q[i].call = "free" /\ q[i].n = n
      <3>1. j # 1 BY <1>7, <2>2
      <3>2. PICK i \in DOMAIN q : q[i] = stack[j] BY <1>7, <3>1
      <3> QED BY <2>2, <3>2
    <2> QED BY <2>1, <2>2
  <1>10. Dying' = Dying \ {x}
    <2>1. Dying' = {n \in NodeIds : \E i \in DOMAIN q : q[i].call = "free" /\ q[i].n = n}
      BY <1>5 DEF Dying
    <2> QED BY ONLY <1>9, <2>1 DEF Dying
  <1>11. Live' = Live \ {x} BY <1>2 DEF Live
  <1>12. Alive' = Alive BY <1>8, <1>10, <1>11 DEF Alive
  <1>13. x \notin Alive /\ Owed(x) = 0 BY <1>0, <1>8 DEF Exact, Alive
  <1>14. ASSUME NEW n \in NodeIds PROVE Owed(n)' = Owed(n)
    <2>1. Count(stack', CallsOn(n)) = Count(stack, CallsOn(n))
      <3>1. Head(stack) \notin CallsOn(n) BY DEF CallsOn
      <3>2. Count(q, CallsOn(n)) = 0 + Count(stack, CallsOn(n)) - 0 BY <1>4, <1>7, <3>1
      <3>3. Count(stack, CallsOn(n)) \in Nat BY <1>0, OwedParts
      <3>4. Count(q, CallsOn(n)) = Count(stack, CallsOn(n)) BY ONLY <3>2, <3>3
      <3> QED BY <1>5, <3>4
    <2>2. \A m \in NodeIds : Table(node', Dying')[m] = Table(node, Dying)[m]
      BY <1>2, <1>8, <1>10 DEF Table
    <2>3. InSlots(node', Dying', n) = InSlots(node, Dying, n)
      <3>1. PICK g, E : g = node' /\ E = Dying' OBVIOUS
      <3>2. PICK h, D : h = node /\ D = Dying OBVIOUS
      <3>3. \A m \in NodeIds : Table(g, E)[m] = Table(h, D)[m] BY <2>2, <3>1, <3>2
      <3>4. InSlots(g, E, n) = InSlots(h, D, n) BY ONLY <3>3, RowsSame
      <3> QED BY <3>1, <3>2, <3>4
    <2> QED BY <2>1, <2>3 DEF Owed
  <1>15. Exact' BY <1>0, <1>2, <1>12, <1>13, <1>14 DEF Exact
  <1>16. FreedOnce'
    <2>1. Dying' \subseteq Live' BY <1>0, <1>10, <1>11 DEF FreedOnce
    <2>2. DOMAIN stack \subseteq Nat BY <1>1
    <2>3. ASSUME NEW i \in DOMAIN q, NEW j \in DOMAIN q, q[i].call = "free", q[j].call = "free", i # j
          PROVE  q[i].n # q[j].n
      <3>1. PICK a \in DOMAIN stack : a # 1 /\ q[i] = stack[a] /\ i = a + Len(d) - 1 BY <1>7
      <3>2. PICK b \in DOMAIN stack : b # 1 /\ q[j] = stack[b] /\ j = b + Len(d) - 1 BY <1>7
      <3>3. a # b BY <2>3, <3>1, <3>2
      <3> QED BY <1>0, <2>3, <3>1, <3>2, <3>3 DEF FreedOnce
    <2>4. \A i \in DOMAIN q : q[i].call = "free" => q[i].n \in NodeIds BY <1>0, <1>7 DEF FreedOnce
    <2> QED BY <1>5, <2>1, <2>3, <2>4 DEF FreedOnce
  <1>17. DestroyFirst'
    <2>1. \A i \in DOMAIN q : q[i].call # "destroy" BY <1>0, <1>7 DEF DestroyFirst
    <2> QED BY <1>5, <2>1 DEF DestroyFirst
  <1>18. TrailerOwned'
    <2>1. x # trailer
      <3>1. x = trailer => Owed(x) > held[x] + Count(stack, CallsOn(x)) BY <1>0, OwedParts
      <3>2. held[x] \in Nat /\ Count(stack, CallsOn(x)) \in Nat BY <1>0, OwedParts
      <3> QED BY ONLY <1>13, <3>1, <3>2
    <2>2. trailer \in NodeIds \cup {None} BY <1>0 DEF TypeOK
    <2> QED BY <1>0, <1>2, <2>1, <2>2 DEF TrailerOwned
  <1>19. CacheGone'
    <2>1. ASSUME NEW j \in DOMAIN stack, stack[j].call = "cache"
          PROVE  \E i \in DOMAIN stack' : stack'[i].call = "cache"
      <3>1. j # 1 BY <1>7, <2>1
      <3>2. PICK i \in DOMAIN q : q[i] = stack[j] BY <1>7, <3>1
      <3> QED BY <1>5, <2>1, <3>2
    <2> QED BY <1>0, <2>1 DEF CacheGone
  <1>20. AtLeastOne' BY <1>2 DEF Refs, AtLeastOne, Live
  <1> QED BY <1>15, <1>16, <1>17, <1>18, <1>19, <1>20 DEF Refs

\* Deallocation gives back what the node's reference nodes keep, and frees it last.
LEMMA DeallocOwns ==
    ASSUME TypeOK, NEW x \in Live, NEW d, d = DeallocCalls(x)
    PROVE  /\ d \in Seq(Calls) /\ Len(d) \in DOMAIN d /\ d[Len(d)] = [call |-> "free", n |-> x]
           /\ \A i \in DOMAIN d : i # Len(d) => d[i].call = "release"
           /\ \A n \in NodeIds : Count(d, CallsOn(n)) = Count(node[x].slots, SlotsTo(n))
  <1> DEFINE slots == node[x].slots
             rel == [i \in DOMAIN slots |-> [call |-> "release", n |-> slots[i].value]]
             last == [call |-> "free", n |-> x]
  <1>1. slots \in Seq(Slots) /\ x \in NodeIds BY LiveNode DEF NodeRecords
  <1>2. \A i \in DOMAIN slots : slots[i] \in Slots /\ slots[i].value \in NodeIds \cup {Null, None}
    <2>1. \A i \in DOMAIN slots : slots[i] \in Slots BY <1>1
    <2> QED BY <2>1 DEF Slots
  <1> HIDE DEF slots
  <1>3. rel \in Seq(Calls)
    <2>1. \A i \in DOMAIN slots : [call |-> "release", n |-> slots[i].value] \in Calls
      BY <1>2 DEF Calls
    <2> HIDE DEF Calls
    <2> QED BY <1>1, <2>1
  <1>4. last \in Calls /\ last.call = "free" BY <1>1 DEF Calls
  <1>5. d = Append(rel, last)
    <2>1. d = rel \o <<last>> BY Zenon DEF DeallocCalls, slots
    <2> HIDE DEF rel, last, Calls
    <2> QED BY <2>1, <1>3, <1>4
  <1>6. \A i \in DOMAIN rel : rel[i].call = "release" OBVIOUS
  <1>7. ASSUME NEW n \in NodeIds PROVE Count(rel, CallsOn(n)) = Count(slots, SlotsTo(n))
    <2>1. ASSUME NEW i \in DOMAIN slots PROVE rel[i] \in CallsOn(n) <=> slots[i] \in SlotsTo(n)
      <3>1. rel[i] = [call |-> "release", n |-> slots[i].value] OBVIOUS
      <3>2. rel[i] \in CallsOn(n) <=> slots[i].value = n BY <3>1 DEF CallsOn
      <3> QED BY <1>2, <3>2, SlotKeeps
    <2>2. DOMAIN rel = DOMAIN slots OBVIOUS
    <2> HIDE DEF rel
    <2>3. Hits(rel, CallsOn(n)) = Hits(slots, SlotsTo(n)) BY <2>1, <2>2 DEF Hits
    <2> QED BY <2>3 DEF Count
  <1> HIDE DEF rel, last
  <1>8. ASSUME NEW n \in NodeIds PROVE Count(d, CallsOn(n)) = Count(slots, SlotsTo(n))
    <2>1. Count(Append(rel, last), CallsOn(n)) =
              Count(rel, CallsOn(n)) + (IF last \in CallsOn(n) THEN 1 ELSE 0)
      BY <1>3, <1>4, CountAppend
    <2>2. last \notin CallsOn(n) BY <1>4 DEF CallsOn
    <2>3. Count(rel, CallsOn(n)) \in Nat BY <1>3, HitsFinite
    <2> QED BY <1>5, <1>7, <2>1, <2>2, <2>3
  <1>9. Len(d) = Len(rel) + 1 /\ Len(rel) \in Nat /\ DOMAIN rel = 1 .. Len(rel)
        /\ DOMAIN d = 1 .. Len(rel) + 1 /\ d[Len(rel) + 1] = last /\ d \in Seq(Calls)
        /\ \A i \in 1 .. Len(rel) : d[i] = rel[i]
    BY <1>3, <1>4, <1>5
  <1>10. \A i \in DOMAIN d : i # Len(d) => i \in DOMAIN rel /\ d[i] = rel[i]
    BY <1>9
  <1> QED BY <1>6, <1>8, <1>9, <1>10 DEF last, slots

\* The end of a node's life begins: what its reference nodes keep becomes
\* calls on the stack (CosObjNode.c:68-110).
LEMMA DeallocRefs ==
    ASSUME IInv, IInv', Refs, stack # <<>>, Head(stack).call \in {"release", "destroy"},
           NEW x \in NodeIds, Head(stack).n = x, node[x] # Freed,
           Head(stack).call = "destroy" \/ node[x].refs <= 1,
           stack' = DeallocCalls(x) \o Tail(stack),
           UNCHANGED <<phase, trailer, node, cache, held, lost>>
    PROVE  Refs'
  <1>0. TypeOK /\ Exact /\ FreedOnce /\ TrailerOwned /\ DestroyFirst /\ CacheGone
    BY DEF IInv, Refs
  <1>1. stack \in Seq(Calls) /\ node \in Heaps BY <1>0 DEF TypeOK, Heaps
  <1>2. /\ x \in Alive /\ node[x].refs = Owed(x) /\ node[x] \in NodeRecords
        /\ Head(stack) \in CallsOn(x) /\ Owed(x) > 0
        /\ \A n \in NodeIds : n # x => Head(stack) \notin CallsOn(n)
    BY <1>0, ReleasedIsAlive DEF CallsOn
  <1>3. x \in Live /\ x \notin Dying BY <1>2 DEF Alive
  <1>4. PICK d : d = DeallocCalls(x) OBVIOUS
  <1>5. PICK q : q = stack' OBVIOUS
  <1>6. /\ d \in Seq(Calls) /\ Len(d) \in DOMAIN d /\ d[Len(d)] = [call |-> "free", n |-> x]
        /\ \A i \in DOMAIN d : i # Len(d) => d[i].call = "release"
        /\ \A n \in NodeIds : Count(d, CallsOn(n)) = Count(node[x].slots, SlotsTo(n))
    BY <1>0, <1>3, <1>4, DeallocOwns
  <1>7. TopGivesWay(Calls, stack, d, q)
    <2>1. q = d \o Tail(stack) BY <1>4, <1>5
    <2> QED BY ONLY <1>1, <1>6, <2>1, stack # <<>>, TopReplaced
  <1>8. /\ 1 \in DOMAIN stack /\ Head(stack) = stack[1]
        /\ \A i \in DOMAIN q :
               \/ i \in DOMAIN d /\ q[i] = d[i]
               \/ \E j \in DOMAIN stack : j # 1 /\ q[i] = stack[j] /\ i = j + Len(d) - 1
        /\ \A i \in DOMAIN d : i \in DOMAIN q /\ q[i] = d[i]
        /\ \A j \in DOMAIN stack : j # 1 => \E i \in DOMAIN q : q[i] = stack[j]
        /\ \A P : Count(q, P) = Count(d, P) + Count(stack, P) - (IF Head(stack) \in P THEN 1 ELSE 0)
    BY ONLY <1>7 DEF TopGivesWay
  <1>9. node[x].refs = 1
    <2>1. CASE Head(stack).call = "destroy"
      <3>1. x # None BY NodeIdsAssumption
      <3> QED BY <1>0, <1>8, <2>1, <3>1 DEF DestroyFirst
    <2>2. CASE node[x].refs <= 1
      <3>1. node[x].refs \in Nat BY <1>2 DEF NodeRecords
      <3> QED BY <1>2, <2>2, <3>1
    <2> QED BY <2>1, <2>2
  <1>10. ASSUME NEW i \in DOMAIN q, q[i].call = "free"
         PROVE  \/ i = Len(d) /\ q[i].n = x
                \/ \E j \in DOMAIN stack : j # 1 /\ q[i] = stack[j] /\ i = j + Len(d) - 1
    BY <1>6, <1>8, <1>10
  <1>11. \A i \in DOMAIN stack : stack[i].call = "free" => stack[i].n # x
    BY <1>3 DEF Dying
  <1>12. ASSUME NEW n \in NodeIds
         PROVE  (\E i \in DOMAIN q : q[i].call = "free" /\ q[i].n = n)
                    <=> n = x \/ \E j \in DOMAIN stack : stack[j].call = "free" /\ stack[j].n = n
    <2>1. ASSUME NEW i \in DOMAIN q, q[i].call = "free", q[i].n = n
          PROVE  n = x \/ \E j \in DOMAIN stack : stack[j].call = "free" /\ stack[j].n = n
      BY <1>10, <2>1
    <2>2. ASSUME NEW j \in DOMAIN stack, stack[j].call = "free", stack[j].n = n
          PROVE  \E i \in DOMAIN q : q[i].call = "free" /\ q[i].n = n
      <3>1. j # 1 BY <1>8, <2>2
      <3>2. PICK i \in DOMAIN q : q[i] = stack[j] BY <1>8, <3>1
      <3> QED BY <2>2, <3>2
    <2>3. \E i \in DOMAIN q : q[i].call = "free" /\ q[i].n = x
      <3>1. Len(d) \in DOMAIN q /\ q[Len(d)] = [call |-> "free", n |-> x] BY <1>6, <1>8
      <3> QED BY <3>1
    <2> QED BY <2>1, <2>2, <2>3
  <1>13. Dying' = Dying \cup {x}
    <2>1. Dying' = {n \in NodeIds : \E i \in DOMAIN q : q[i].call = "free" /\ q[i].n = n}
      BY <1>5 DEF Dying
    <2> QED BY ONLY <1>12, <2>1, x \in NodeIds DEF Dying
  <1>14. Live' = Live /\ Alive' = Alive \ {x} BY <1>13 DEF Live, Alive
  <1>15. ASSUME NEW n \in NodeIds PROVE Owed(n)' = Owed(n) - (IF n = x THEN 1 ELSE 0)
    <2> DEFINE kept == Count(node[x].slots, SlotsTo(n))
    <2>1. Count(stack', CallsOn(n)) = kept + Count(stack, CallsOn(n)) - (IF n = x THEN 1 ELSE 0)
      <3>1. Count(q, CallsOn(n)) = Count(d, CallsOn(n)) + Count(stack, CallsOn(n))
                                   - (IF Head(stack) \in CallsOn(n) THEN 1 ELSE 0)
        BY <1>8
      <3>2. Count(d, CallsOn(n)) = kept BY <1>6
      <3>3. Head(stack) \in CallsOn(n) <=> n = x BY <1>2
      <3>4. Count(q, CallsOn(n)) = kept + Count(stack, CallsOn(n)) - (IF n = x THEN 1 ELSE 0)
        BY ONLY <3>1, <3>2, <3>3
      <3> QED BY <1>5, <3>4
    <2>2. /\ \A m \in NodeIds : m # x => Table(node, Dying')[m] = Table(node, Dying)[m]
          /\ Table(node, Dying)[x] = node[x].slots /\ Table(node, Dying')[x] = <<>>
      BY <1>3, <1>13 DEF Table
    <2>3. /\ InSlots(node', Dying', n) = InSlots(node, Dying, n) - kept
          /\ InSlots(node, Dying, n) \in Nat /\ kept \in Nat
      <3>1. PICK h, D, E : h = node /\ D = Dying /\ E = Dying' OBVIOUS
      <3>2. h \in Heaps /\ \A m \in NodeIds : m # x => Table(h, E)[m] = Table(h, D)[m]
        BY <1>1, <2>2, <3>1
      <3>3. /\ InSlots(h, E, n) = InSlots(h, D, n) - Count(Table(h, D)[x], SlotsTo(n))
                                                   + Count(Table(h, E)[x], SlotsTo(n))
            /\ InSlots(h, D, n) \in Nat /\ Count(Table(h, D)[x], SlotsTo(n)) \in Nat
        BY ONLY <3>2, x \in NodeIds, RowChanged
      <3>4. Count(Table(h, D)[x], SlotsTo(n)) = kept /\ Count(Table(h, E)[x], SlotsTo(n)) = 0
        BY <2>2, <3>1, CountEmpty
      <3>5. InSlots(h, E, n) = InSlots(node', Dying', n) /\ InSlots(h, D, n) = InSlots(node, Dying, n)
        BY <3>1
      <3> HIDE DEF kept
      <3> QED BY ONLY <3>3, <3>4, <3>5
    <2>4. Owed(n)' = held[n] + Count(cache, {n}) + InSlots(node', Dying', n)
                     + Count(stack', CallsOn(n))
                     + (IF n = trailer THEN 1 ELSE 0) + (IF n \in lost THEN 1 ELSE 0)
      BY DEF Owed
    <2>5. Owed(n) = held[n] + Count(cache, {n}) + InSlots(node, Dying, n)
                    + Count(stack, CallsOn(n))
                    + (IF n = trailer THEN 1 ELSE 0) + (IF n \in lost THEN 1 ELSE 0)
      BY DEF Owed
    <2>6. held[n] \in Nat /\ Count(cache, {n}) \in Nat /\ Count(stack, CallsOn(n)) \in Nat
      BY <1>0, OwedParts
    <2> HIDE DEF kept
    <2> QED BY ONLY <2>1, <2>3, <2>4, <2>5, <2>6
  <1>16. ASSUME NEW n \in NodeIds PROVE Owed(n)' = IF n \in Alive' THEN node'[n].refs ELSE 0
    <2>1. CASE n = x
      <3>1. Owed(n) = 1 BY <1>2, <1>9, <2>1
      <3>2. Owed(n)' = Owed(n) - (IF n = x THEN 1 ELSE 0) BY <1>15
      <3>3. Owed(n)' = 0 BY ONLY <2>1, <3>1, <3>2
      <3>4. n \notin Alive' BY <1>14, <2>1
      <3> QED BY <3>3, <3>4
    <2>2. CASE n # x
      <3>1. Owed(n) = IF n \in Alive THEN node[n].refs ELSE 0 BY <1>0 DEF Exact
      <3>2. Owed(n) \in Nat BY <1>0, OwedParts
      <3>3. node' = node OBVIOUS
      <3> QED BY ONLY <1>14, <1>15, <2>2, <3>1, <3>2, <3>3, n \in NodeIds
    <2> QED BY <2>1, <2>2
  <1>17. Exact' BY <1>16 DEF Exact
  <1>18. FreedOnce'
    <2>1. Dying' \subseteq Live' BY <1>0, <1>3, <1>13, <1>14 DEF FreedOnce
    <2>2. DOMAIN stack \subseteq Nat /\ Len(d) \in Nat BY <1>1, <1>6
    <2>3. ASSUME NEW i \in DOMAIN q, NEW j \in DOMAIN q, q[i].call = "free", q[j].call = "free", i # j
          PROVE  q[i].n # q[j].n
      <3>1. \/ i = Len(d) /\ q[i].n = x
            \/ \E a \in DOMAIN stack : a # 1 /\ q[i] = stack[a] /\ i = a + Len(d) - 1
        BY <1>10, <2>3
      <3>2. \/ j = Len(d) /\ q[j].n = x
            \/ \E b \in DOMAIN stack : b # 1 /\ q[j] = stack[b] /\ j = b + Len(d) - 1
        BY <1>10, <2>3
      <3>3. CASE i = Len(d) /\ q[i].n = x BY <1>11, <2>3, <3>2, <3>3
      <3>4. CASE j = Len(d) /\ q[j].n = x BY <1>11, <2>3, <3>1, <3>4
      <3>5. ASSUME NEW a \in DOMAIN stack, a # 1, q[i] = stack[a], i = a + Len(d) - 1,
                   NEW b \in DOMAIN stack, b # 1, q[j] = stack[b], j = b + Len(d) - 1
            PROVE  q[i].n # q[j].n
        <4>1. a # b BY <2>3, <3>5
        <4> QED BY <1>0, <2>3, <3>5, <4>1 DEF FreedOnce
      <3> QED BY <3>1, <3>2, <3>3, <3>4, <3>5
    <2>4. \A i \in DOMAIN q : q[i].call = "free" => q[i].n \in NodeIds
      BY <1>0, <1>10 DEF FreedOnce
    <2>5. \A i, j \in DOMAIN q :
              q[i].call = "free" /\ q[j].call = "free" /\ i # j => q[i].n # q[j].n
      BY <2>3
    <2> QED BY ONLY <1>5, <2>1, <2>4, <2>5 DEF FreedOnce
  <1>19. DestroyFirst'
    <2>1. ASSUME NEW i \in DOMAIN q PROVE q[i].call # "destroy"
      <3>1. CASE i \in DOMAIN d /\ q[i] = d[i] BY <1>6, <3>1
      <3>2. CASE \E j \in DOMAIN stack : j # 1 /\ q[i] = stack[j] BY <1>0, <3>2 DEF DestroyFirst
      <3> QED BY <1>8, <3>1, <3>2
    <2> QED BY <1>5, <2>1 DEF DestroyFirst
  <1>20. TrailerOwned' BY <1>0 DEF TrailerOwned
  <1>21. CacheGone'
    <2>1. ASSUME NEW j \in DOMAIN stack, stack[j].call = "cache"
          PROVE  \E i \in DOMAIN stack' : stack'[i].call = "cache"
      <3>1. j # 1 BY <1>8, <2>1
      <3>2. PICK i \in DOMAIN q : q[i] = stack[j] BY <1>8, <3>1
      <3> QED BY <1>5, <2>1, <3>2
    <2> QED BY <1>0, <2>1 DEF CacheGone
  <1>22. AtLeastOne' BY <1>14 DEF Refs, AtLeastOne
  <1> QED BY <1>17, <1>18, <1>19, <1>20, <1>21, <1>22 DEF Refs

\* A call pushed on a stack replaces its top by the call and the top.
LEMMA Pushed ==
    ASSUME NEW S, NEW s \in Seq(S), s # <<>>, NEW c \in S
    PROVE  /\ <<c, Head(s)>> \in Seq(S)
           /\ <<c>> \o s = <<c, Head(s)>> \o Tail(s)
  <1> DEFINE one == <<c>>
             two == <<c, Head(s)>>
             t == Tail(s)
             p == one \o s
             q == two \o t
  <1>1. Head(s) \in S /\ t \in Seq(S) /\ Len(t) = Len(s) - 1 /\ Len(s) \in Nat /\ Len(s) > 0
        /\ Head(s) = s[1] /\ \A i \in 1 .. Len(t) : t[i] = s[i + 1]
    OBVIOUS
  <1>2. /\ one \in Seq(S) /\ Len(one) = 1 /\ one[1] = c
        /\ two \in Seq(S) /\ Len(two) = 2 /\ two[1] = c /\ two[2] = s[1]
    BY <1>1
  <1> HIDE DEF one, two, t
  <1>3. /\ p \in Seq(S) /\ Len(p) = Len(one) + Len(s)
        /\ \A i \in 1 .. Len(one) + Len(s) : p[i] = IF i <= Len(one) THEN one[i] ELSE s[i - Len(one)]
    BY ONLY <1>2, s \in Seq(S), ConcatProperties
  <1>4. /\ q \in Seq(S) /\ Len(q) = Len(two) + Len(t)
        /\ \A i \in 1 .. Len(two) + Len(t) : q[i] = IF i <= Len(two) THEN two[i] ELSE t[i - Len(two)]
    <2>1. two \in Seq(S) /\ t \in Seq(S) BY ONLY <1>1, <1>2
    <2> QED BY ONLY <2>1, ConcatProperties
  <1> HIDE DEF p, q
  <1>5. Len(p) = Len(q) BY <1>1, <1>2, <1>3, <1>4
  <1>6. ASSUME NEW i \in 1 .. Len(p) PROVE p[i] = q[i]
    <2>1. CASE i = 1 BY <1>1, <1>2, <1>3, <1>4, <1>5, <2>1
    <2>2. CASE i = 2 BY <1>1, <1>2, <1>3, <1>4, <1>5, <2>2
    <2>3. CASE i > 2
      <3>1. p[i] = s[i - 1] BY <1>1, <1>2, <1>3, <2>3
      <3>2. q[i] = t[i - 2] /\ i - 2 \in 1 .. Len(t) BY <1>1, <1>2, <1>3, <1>4, <1>5, <2>3
      <3>3. t[i - 2] = s[(i - 2) + 1] BY <1>1, <3>2
      <3>4. (i - 2) + 1 = i - 1 OBVIOUS
      <3> QED BY ONLY <3>1, <3>2, <3>3, <3>4
    <2> QED BY <1>1, <1>2, <1>3, <2>1, <2>2, <2>3
  <1>7. p = q BY ONLY <1>3, <1>4, <1>5, <1>6, SeqEqual
  <1> QED BY <1>2, <1>7 DEF p, q, one, two, t

\* The cache gives back one of its references (CosObjCache.c:65-84).
LEMMA CacheReleaseRefs ==
    ASSUME IInv, IInv', Refs, stack # <<>>, Head(stack).call = "cache",
           NEW k \in Nums, cache[k] # None,
           stack' = <<[call |-> "release", n |-> cache[k]]>> \o stack,
           cache' = [cache EXCEPT ![k] = None],
           UNCHANGED <<phase, trailer, node, held, lost>>
    PROVE  Refs'
  <1>0. TypeOK /\ Exact /\ FreedOnce /\ TrailerOwned /\ DestroyFirst /\ CacheGone
    BY DEF IInv, Refs
  <1>1. stack \in Seq(Calls) /\ cache \in [Nums -> NodeIds \cup {None}] BY <1>0 DEF TypeOK
  <1> DEFINE c == [call |-> "release", n |-> cache[k]]
  <1>2. c \in Calls /\ c.call = "release" /\ c.n = cache[k] /\ cache[k] \in NodeIds
    BY <1>1 DEF Calls
  <1>3. \A n : c \in CallsOn(n) <=> n = cache[k] BY DEF CallsOn
  <1>31. stack' = <<c>> \o stack OBVIOUS
  <1> HIDE DEF c
  <1>4. PICK d : d = <<c, Head(stack)>> OBVIOUS
  <1>5. d \in Seq(Calls) /\ stack' = d \o Tail(stack)
    BY ONLY <1>1, <1>2, <1>31, <1>4, stack # <<>>, Pushed
  <1>6. /\ DOMAIN d = {1, 2} /\ d[1] = c /\ d[2] = Head(stack)
        /\ \A i \in DOMAIN d : d[i].call \notin {"free", "destroy"}
    BY <1>2, <1>4
  <1>7. ASSUME NEW n \in NodeIds PROVE Count(d, CallsOn(n)) = IF n = cache[k] THEN 1 ELSE 0
    <2>1. Head(stack) \notin CallsOn(n) BY DEF CallsOn
    <2>2. Hits(d, CallsOn(n)) = IF n = cache[k] THEN {1} ELSE {}
      BY <1>3, <1>6, <2>1 DEF Hits
    <2> QED BY <2>2, FS_EmptySet, FS_Singleton DEF Count
  <1>8. /\ Dying' = Dying
        /\ \A i, j \in DOMAIN stack' :
               stack'[i].call = "free" /\ stack'[j].call = "free" /\ i # j
                   => stack'[i].n # stack'[j].n
        /\ \A i \in DOMAIN stack' : stack'[i].call = "free" => stack'[i].n \in NodeIds
        /\ DestroyFirst'
        /\ \A P : Count(stack', P) = Count(d, P) + Count(stack, P)
                                     - (IF Head(stack) \in P THEN 1 ELSE 0)
        /\ \A i \in DOMAIN d : \E j \in DOMAIN stack' : stack'[j] = d[i]
    BY <1>0, <1>5, <1>6, CallsKept
  <1>9. Live' = Live /\ Alive' = Alive BY <1>8 DEF Live, Alive
  <1>10. ASSUME NEW n \in NodeIds PROVE Owed(n)' = Owed(n)
    <2>1. Count(stack', CallsOn(n)) = (IF n = cache[k] THEN 1 ELSE 0) + Count(stack, CallsOn(n))
      <3>1. Head(stack) \notin CallsOn(n) BY DEF CallsOn
      <3>2. Count(stack', CallsOn(n)) = Count(d, CallsOn(n)) + Count(stack, CallsOn(n)) - 0
        BY <1>8, <3>1
      <3>3. Count(stack, CallsOn(n)) \in Nat BY <1>0, OwedParts
      <3> QED BY ONLY <1>7, <3>2, <3>3, n \in NodeIds
    <2>2. Count(cache', {n}) = Count(cache, {n}) - (IF n = cache[k] THEN 1 ELSE 0)
      <3>1. cache' = CacheWith(cache, k, None) BY DEF CacheWith
      <3>2. Count(CacheWith(cache, k, None), {n}) =
                Count(cache, {n}) - (IF cache[k] = n THEN 1 ELSE 0) + (IF None = n THEN 1 ELSE 0)
        <4>1. None \in NodeIds \cup {None} OBVIOUS
        <4> QED BY ONLY ZenonT(30), <1>1, <4>1, k \in Nums, CacheCount
      <3>3. None # n /\ Count(cache, {n}) \in Nat BY <1>0, NodeIdsAssumption, OwedParts
      <3>4. Count(CacheWith(cache, k, None), {n}) =
                Count(cache, {n}) - (IF n = cache[k] THEN 1 ELSE 0)
        BY ONLY <3>2, <3>3
      <3> QED BY <3>1, <3>4
    <2>3. Owed(n)' = held[n] + Count(cache', {n}) + InSlots(node, Dying, n)
                     + Count(stack', CallsOn(n))
                     + (IF n = trailer THEN 1 ELSE 0) + (IF n \in lost THEN 1 ELSE 0)
      BY <1>8 DEF Owed
    <2>4. Owed(n) = held[n] + Count(cache, {n}) + InSlots(node, Dying, n)
                    + Count(stack, CallsOn(n))
                    + (IF n = trailer THEN 1 ELSE 0) + (IF n \in lost THEN 1 ELSE 0)
      BY DEF Owed
    <2>5. /\ held[n] \in Nat /\ Count(cache, {n}) \in Nat
          /\ InSlots(node, Dying, n) \in Nat /\ Count(stack, CallsOn(n)) \in Nat
      BY <1>0, OwedParts
    <2> QED BY ONLY <2>1, <2>2, <2>3, <2>4, <2>5
  <1>11. Exact' BY <1>0, <1>9, <1>10 DEF Exact
  <1>12. FreedOnce' BY <1>0, <1>8, <1>9 DEF FreedOnce
  <1>13. TrailerOwned' BY <1>0 DEF TrailerOwned
  <1>14. CacheGone'
    <2>1. \E i \in DOMAIN stack' : stack'[i] = Head(stack) BY <1>6, <1>8
    <2> QED BY <2>1 DEF CacheGone
  <1>15. AtLeastOne' BY <1>9 DEF Refs, AtLeastOne
  <1> QED BY <1>8, <1>11, <1>12, <1>13, <1>14, <1>15 DEF Refs

\* cos_obj_node_release by the client: what it owned, the call owns.
LEMMA ReleaseRefs == ASSUME IInv, IInv', Refs, NEW x \in NodeIds, Release(x) PROVE Refs'
  <1>0. TypeOK /\ Exact /\ FreedOnce /\ TrailerOwned /\ DestroyFirst /\ CacheGone
    BY DEF IInv, Refs
  <1> DEFINE c == [call |-> "release", n |-> x]
  <1>1. /\ Idle /\ held[x] > 0 /\ held' = [held EXCEPT ![x] = @ - 1] /\ stack' = <<c>>
        /\ UNCHANGED <<phase, trailer, node, cache, lost>>
    BY DEF Release
  <1>2. c.call = "release" /\ \A n : c \in CallsOn(n) <=> n = x BY DEF CallsOn
  <1> HIDE DEF c
  <1>3. DOMAIN stack' = {1} /\ stack'[1] = c /\ DOMAIN stack = {} BY <1>1 DEF Idle
  <1>4. Dying = {} /\ Dying' = {} BY <1>2, <1>3 DEF Dying
  <1>5. Live' = Live /\ Alive' = Alive BY <1>1, <1>4 DEF Live, Alive
  <1>6. ASSUME NEW n \in NodeIds PROVE Owed(n)' = Owed(n)
    <2>1. Count(stack', CallsOn(n)) = (IF n = x THEN 1 ELSE 0)
      <3>1. Count(<<c>>, CallsOn(n)) = IF c \in CallsOn(n) THEN 1 ELSE 0 BY CountOne
      <3> QED BY <1>1, <1>2, <3>1
    <2>2. Count(stack, CallsOn(n)) = 0 BY <1>1, CountEmpty DEF Idle
    <2>3. held'[n] = held[n] - (IF n = x THEN 1 ELSE 0) /\ held[n] \in Nat
      BY <1>0, <1>1 DEF TypeOK
    <2>4. Owed(n)' = held'[n] + Count(cache, {n}) + InSlots(node, Dying, n)
                     + Count(stack', CallsOn(n))
                     + (IF n = trailer THEN 1 ELSE 0) + (IF n \in lost THEN 1 ELSE 0)
      BY <1>1, <1>4 DEF Owed
    <2>5. Owed(n) = held[n] + Count(cache, {n}) + InSlots(node, Dying, n)
                    + Count(stack, CallsOn(n))
                    + (IF n = trailer THEN 1 ELSE 0) + (IF n \in lost THEN 1 ELSE 0)
      BY DEF Owed
    <2>6. Count(cache, {n}) \in Nat /\ InSlots(node, Dying, n) \in Nat BY <1>0, OwedParts
    <2> QED BY ONLY <2>1, <2>2, <2>3, <2>4, <2>5, <2>6
  <1>7. Exact' BY <1>0, <1>1, <1>5, <1>6 DEF Exact
  <1>8. FreedOnce' BY <1>2, <1>3, <1>4 DEF FreedOnce
  <1>9. DestroyFirst' BY <1>2, <1>3 DEF DestroyFirst
  <1>10. TrailerOwned' BY <1>0, <1>1 DEF TrailerOwned
  <1>11. CacheGone' BY <1>0, <1>1, <1>3 DEF CacheGone
  <1>12. AtLeastOne' BY <1>1, <1>5 DEF Refs, AtLeastOne
  <1> QED BY <1>7, <1>8, <1>9, <1>10, <1>11, <1>12 DEF Refs

\* cos_doc_destroy: what the document owned, its first call owns.
LEMMA DestroyDocRefs == ASSUME IInv, IInv', Refs, DestroyDoc PROVE Refs'
  <1>0. TypeOK /\ Exact /\ FreedOnce /\ TrailerOwned /\ DestroyFirst /\ CacheGone
    BY DEF IInv, Refs
  <1> DEFINE c == [call |-> "destroy", n |-> trailer]
             e == [call |-> "cache"]
  <1>1. /\ Idle /\ stack' = <<c, e>> /\ trailer' = None /\ phase' = "destroyed"
        /\ UNCHANGED <<node, cache, held, lost>>
    BY DEF DestroyDoc
  <1>2. /\ c.call = "destroy" /\ c.n = trailer /\ e.call = "cache"
        /\ \A n : c \in CallsOn(n) <=> n = trailer
        /\ \A n : e \notin CallsOn(n)
    BY DEF CallsOn
  <1> HIDE DEF c, e
  <1>3. DOMAIN stack' = {1, 2} /\ stack'[1] = c /\ stack'[2] = e /\ DOMAIN stack = {}
    BY <1>1 DEF Idle
  <1>4. Dying = {} /\ Dying' = {} BY <1>2, <1>3 DEF Dying
  <1>5. Live' = Live /\ Alive' = Alive BY <1>1, <1>4 DEF Live, Alive
  <1>6. ASSUME NEW n \in NodeIds PROVE Owed(n)' = Owed(n)
    <2>1. Count(stack', CallsOn(n)) = (IF n = trailer THEN 1 ELSE 0)
      <3>1. PICK q : q = stack' OBVIOUS
      <3>2. Hits(q, CallsOn(n)) = IF n = trailer THEN {1} ELSE {}
        BY <1>2, <1>3, <3>1 DEF Hits
      <3>3. Count(q, CallsOn(n)) = IF n = trailer THEN 1 ELSE 0
        BY <3>2, FS_EmptySet, FS_Singleton DEF Count
      <3> QED BY <3>1, <3>3
    <2>2. Count(stack, CallsOn(n)) = 0 BY <1>1, CountEmpty DEF Idle
    <2>3. n # trailer' BY <1>1, NodeIdsAssumption
    <2>4. Owed(n)' = held[n] + Count(cache, {n}) + InSlots(node, Dying, n)
                     + Count(stack', CallsOn(n))
                     + (IF n = trailer' THEN 1 ELSE 0) + (IF n \in lost THEN 1 ELSE 0)
      BY <1>1, <1>4 DEF Owed
    <2>5. Owed(n) = held[n] + Count(cache, {n}) + InSlots(node, Dying, n)
                    + Count(stack, CallsOn(n))
                    + (IF n = trailer THEN 1 ELSE 0) + (IF n \in lost THEN 1 ELSE 0)
      BY DEF Owed
    <2>6. held[n] \in Nat /\ Count(cache, {n}) \in Nat /\ InSlots(node, Dying, n) \in Nat
      BY <1>0, OwedParts
    <2> QED BY ONLY <2>1, <2>2, <2>3, <2>4, <2>5, <2>6
  <1>7. Exact' BY <1>0, <1>1, <1>5, <1>6 DEF Exact
  <1>8. FreedOnce' BY <1>2, <1>3, <1>4 DEF FreedOnce
  <1>9. DestroyFirst'
    <2>1. trailer \in NodeIds \cup {None} /\ (trailer # None => node[trailer].refs = 1)
      BY <1>0 DEF TypeOK, TrailerOwned
    <2> QED BY <1>1, <1>2, <1>3, <2>1 DEF DestroyFirst
  <1>10. TrailerOwned' BY <1>1 DEF TrailerOwned
  <1>11. CacheGone' BY <1>2, <1>3 DEF CacheGone
  <1>12. AtLeastOne' BY <1>1, <1>5 DEF Refs, AtLeastOne
  <1> QED BY <1>7, <1>8, <1>9, <1>10, <1>11, <1>12 DEF Refs

\* One step of a release cascade.
LEMMA ReleaseStepRefs ==
    ASSUME IInv, IInv', Refs, stack # <<>>, Head(stack).call \in {"release", "destroy", "free"},
           ReleaseStep, UNCHANGED <<file, phase, trailer>>
    PROVE  Refs'
  <1>1. PICK x : x = Head(stack).n OBVIOUS
  <1>2. UNCHANGED <<phase, trailer, cache, held, lost>> BY DEF ReleaseStep
  <1>3. CASE x \notin NodeIds /\ stack' = Tail(stack) /\ node' = node
    <2>1. \A n \in NodeIds : Head(stack) \notin CallsOn(n) BY <1>1, <1>3 DEF CallsOn
    <2>2. Head(stack).call # "free"
      <3>1. stack \in Seq(Calls) BY DEF IInv, TypeOK
      <3>2. 1 \in DOMAIN stack /\ Head(stack) = stack[1] BY <3>1
      <3> QED BY <1>1, <1>3, <3>2 DEF Refs, FreedOnce
    <2>3. Head(stack).call # "cache" OBVIOUS
    <2> QED BY <1>2, <1>3, <2>1, <2>2, <2>3, PopRefs
  <1>4. CASE /\ x \in Live /\ Head(stack).call = "release" /\ node[x].refs > 1
             /\ node' = [node EXCEPT ![x].refs = @ - 1] /\ stack' = Tail(stack)
    BY <1>1, <1>2, <1>4, DecrementRefs DEF Live
  <1>5. CASE /\ x \in Live
             /\ Head(stack).call = "destroy" \/ (Head(stack).call = "release" /\ node[x].refs <= 1)
             /\ stack' = DeallocCalls(x) \o Tail(stack) /\ node' = node
    BY <1>1, <1>2, <1>5, DeallocRefs DEF Live
  <1>6. CASE /\ x \in Live /\ Head(stack).call = "free"
             /\ node' = [node EXCEPT ![x] = Freed] /\ stack' = Tail(stack)
    BY <1>1, <1>2, <1>6, FreeRefs DEF Live
  <1> QED BY <1>1, <1>3, <1>4, <1>5, <1>6, Zenon DEF ReleaseStep

\* One step of the destruction of the cache.
LEMMA CacheStepRefs ==
    ASSUME IInv, IInv', Refs, stack # <<>>, Head(stack).call = "cache", CacheStep,
           UNCHANGED <<file, phase, trailer>>
    PROVE  Refs'
  <1>1. UNCHANGED <<phase, trailer, node, held, lost>> BY DEF CacheStep
  <1>2. CASE (\A k \in Nums : cache[k] = None) /\ stack' = Tail(stack) /\ cache' = cache
    <2>1. \A n \in NodeIds : Head(stack) \notin CallsOn(n) BY DEF CallsOn
    <2> QED BY <1>1, <1>2, <2>1, PopRefs
  <1>3. ASSUME NEW k \in Nums, cache[k] # None,
               stack' = <<[call |-> "release", n |-> cache[k]]>> \o stack,
               cache' = [cache EXCEPT ![k] = None]
        PROVE  Refs'
    BY <1>1, <1>3, CacheReleaseRefs
  <1> QED BY <1>2, <1>3, Zenon DEF CacheStep

-----------------------------------------------------------------------------
(* The counts at every step *)

\* A document that was just created.
LEMMA InitRefs == Init => Refs
  <1> SUFFICES ASSUME Init PROVE Refs OBVIOUS
  <1>1. IInv BY InitInv
  <1>2. TypeOK BY <1>1 DEF IInv
  <1>3. /\ stack = <<>> /\ trailer = None /\ phase = "created" /\ lost = {}
        /\ node = [n \in NodeIds |-> Freed] /\ held = [n \in NodeIds |-> 0]
        /\ cache = [k \in Nums |-> None]
    BY DEF Init
  <1>4. Dying = {} /\ Live = {} /\ Alive = {} BY <1>3 DEF Dying, Live, Alive
  <1>5. ASSUME NEW n \in NodeIds PROVE Owed(n) = 0
    <2>1. n # None BY NodeIdsAssumption
    <2>2. cache \in [Nums -> NodeIds \cup {None}] BY <1>2 DEF TypeOK
    <2>3. Count(cache, {n}) = 0
      <3>1. \A k \in Nums : cache[k] # n BY <1>3, <2>1
      <3> QED BY <2>2, <3>1, CacheCount
    <2>4. Count(stack, CallsOn(n)) = 0 BY <1>3, CountEmpty
    <2>5. InSlots(node, Dying, n) = 0
      <3>1. IsFiniteSet(NodeIds) /\ \A m \in NodeIds : Table(node, Dying)[m] \in Seq(Slots)
        BY <1>2, RowType, NodeIdsAssumption DEF TypeOK, Heaps
      <3>2. \A m \in NodeIds : Table(node, Dying)[m] = <<>> BY <1>3 DEF Table
      <3>3. CountIn(Table(node, Dying), NodeIds, SlotsTo(n)) > 0
                <=> \E d \in NodeIds : \E k \in DOMAIN Table(node, Dying)[d] :
                        Table(node, Dying)[d][k] \in SlotsTo(n)
        BY ONLY <3>1, CountInPositive
      <3>4. ~(InSlots(node, Dying, n) > 0) BY <3>2, <3>3 DEF InSlots
      <3>5. InSlots(node, Dying, n) \in Nat BY <1>2, RowType DEF TypeOK, Heaps
      <3> QED BY ONLY <3>4, <3>5
    <2>6. Owed(n) = 0 + 0 + 0 + 0 + 0 + 0
      BY <1>3, <2>1, <2>3, <2>4, <2>5 DEF Owed
    <2> QED BY ONLY <2>6
  <1>6. Exact BY <1>4, <1>5 DEF Exact
  <1> QED BY <1>3, <1>4, <1>6 DEF Refs, FreedOnce, TrailerOwned, DestroyFirst, CacheGone,
                                 AtLeastOne

\* A step that changes nothing.
LEMMA StutterRefs == ASSUME Refs, UNCHANGED vars PROVE Refs'
  <1>1. /\ node' = node /\ held' = held /\ cache' = cache /\ stack' = stack /\ trailer' = trailer
        /\ lost' = lost /\ phase' = phase
    BY DEF vars
  <1>2. Dying' = Dying /\ Live' = Live /\ Alive' = Alive BY <1>1 DEF Dying, Live, Alive
  <1>3. \A n \in NodeIds : Owed(n)' = Owed(n) BY <1>1, <1>2 DEF Owed
  <1>4. Exact' BY <1>1, <1>2, <1>3 DEF Refs, Exact
  <1> QED BY <1>1, <1>2, <1>4 DEF Refs, FreedOnce, TrailerOwned, DestroyFirst, CacheGone,
                                 AtLeastOne

\* Every step keeps the counts.
LEMMA NextRefs == IInv /\ IInv' /\ Refs /\ [Next]_vars => Refs'
  <1> SUFFICES ASSUME IInv, IInv', Refs, [Next]_vars PROVE Refs' OBVIOUS
  <1>1. CASE Parsed BY <1>1, ParsedRefs
  <1>2. ASSUME NEW id \in Ids, GetObject(id) PROVE Refs' BY <1>2, GetObjectRefs
  <1>3. ASSUME NEW n \in NodeIds, Retain(n) PROVE Refs' BY <1>3, RetainRefs
  <1>4. ASSUME NEW n \in NodeIds, Release(n) PROVE Refs' BY <1>4, ReleaseRefs
  <1>5. ASSUME NEW n \in Live, NEW i \in DOMAIN node[n].slots, Resolve(n, i) PROVE Refs'
    BY <1>5, ResolveRefs
  <1>6. CASE DestroyDoc BY <1>6, DestroyDocRefs
  <1>7. CASE Step
    <2>1. stack # <<>> /\ UNCHANGED <<file, phase, trailer>> BY <1>7 DEF Step
    <2>2. CASE Head(stack).call = "get" /\ GetRefused
      <3>1. Return(None, node, Tail(stack)) /\ UNCHANGED <<cache, lost>> BY <2>2 DEF GetRefused
      <3> QED BY <2>1, <2>2, <3>1, ReturnNothingRefs DEF Loading
    <2>3. CASE Head(stack).call = "get" /\ GetCached BY <2>1, <2>3, GetCachedRefs
    <2>4. CASE Head(stack).call = "get" /\ GetLoaded BY <2>1, <2>4, GetLoadedRefs
    <2>5. CASE Head(stack).call = "get" /\ GetStream BY <2>1, <2>5, GetStreamRefs
    <2>6. CASE Head(stack).call = "seek" /\ SeekFails
      <3>1. Return(None, node, Tail(stack)) /\ UNCHANGED <<cache, lost>> BY <2>6 DEF SeekFails
      <3> QED BY <2>1, <2>6, <3>1, ReturnNothingRefs DEF Loading
    <2>7. CASE Head(stack).call \in {"release", "destroy", "free"} /\ ReleaseStep
      BY <2>1, <2>7, ReleaseStepRefs
    <2>8. CASE Head(stack).call = "cache" /\ CacheStep BY <2>1, <2>8, CacheStepRefs
    <2> QED BY <1>7, <2>2, <2>3, <2>4, <2>5, <2>6, <2>7, <2>8 DEF Step
  <1>8. CASE UNCHANGED vars BY <1>8, StutterRefs
  <1> QED BY <1>1, <1>2, <1>3, <1>4, <1>5, <1>6, <1>7, <1>8 DEF Next

\* Both invariants hold in every reachable state.
LEMMA RefsInvariance == Spec => [](IInv /\ Refs)
  <1>1. Init => IInv /\ Refs BY InitInv, InitRefs
  <1>2. (IInv /\ Refs) /\ [Next]_vars => (IInv /\ Refs)' BY NextInv, NextRefs
  <1> QED BY <1>1, <1>2, PTL DEF Spec

\* The references the specification counts are the ones of the invariant.
LEMMA OwedToIsOwed == ASSUME TypeOK, NEW n \in NodeIds PROVE OwedTo(n) = Owed(n)
  <1> DEFINE table == Table(node, Dying)
             edges(m) == {<<m, s>> : s \in {i \in DOMAIN node[m].slots : node[m].slots[i].value = n}}
             rows(m) == {m} \X Hits(table[m], SlotsTo(n))
  <1>1. ASSUME NEW m \in Alive PROVE edges(m) = rows(m)
    <2>1. table[m] = node[m].slots BY DEF Table, Alive, Live
    <2>2. ASSUME NEW i \in DOMAIN node[m].slots
          PROVE  node[m].slots[i].value = n <=> node[m].slots[i] \in SlotsTo(n)
      <3>1. node[m].slots[i] \in Slots BY SlotType DEF Alive
      <3> QED BY <3>1, SlotKeeps
    <2>3. Hits(table[m], SlotsTo(n)) = {i \in DOMAIN node[m].slots : node[m].slots[i].value = n}
      BY <2>1, <2>2 DEF Hits
    <2> QED BY <2>3
  <1>2. ASSUME NEW m \in NodeIds \ Alive PROVE rows(m) = {}
    <2>1. table[m] = <<>> BY DEF Table, Alive, Live
    <2>2. Hits(table[m], SlotsTo(n)) = {} BY <2>1 DEF Hits
    <2> QED BY <2>2
  <1>3. Alive \subseteq NodeIds BY DEF Alive, Live
  <1> HIDE DEF edges, rows
  <1>4. UNION {edges(m) : m \in Alive} = UNION {rows(m) : m \in NodeIds} BY <1>1, <1>2, <1>3
  <1>5. UNION {{<<m, s>> : s \in {i \in DOMAIN node[m].slots : node[m].slots[i].value = n}} :
                   m \in Live \ Dying}
            = Places(table, NodeIds, SlotsTo(n))
    BY <1>4 DEF edges, rows, Places, Alive
  <1>6. {k \in Nums : cache[k] = n} = Hits(cache, {n})
    <2>1. DOMAIN cache = Nums BY DEF TypeOK
    <2> QED BY <2>1 DEF Hits
  <1>7. {i \in DOMAIN stack : stack[i].call \in {"release", "destroy"} /\ stack[i].n = n}
            = Hits(stack, CallsOn(n))
    <2>1. stack \in Seq(Calls) BY DEF TypeOK
    <2>2. ASSUME NEW i \in DOMAIN stack
          PROVE  stack[i].call \in {"release", "destroy"} /\ stack[i].n = n
                     <=> stack[i] \in CallsOn(n)
      <3>1. stack[i] \in Calls BY <2>1
      <3> QED BY <3>1 DEF Calls, CallsOn
    <2> QED BY <2>2 DEF Hits
  <1> QED BY <1>5, <1>6, <1>7 DEF OwedTo, Owed, InSlots, CountIn, Count

\* The invariant says what the specification asks of the counts.
LEMMA InvExact == IInv /\ Refs => RefsExact
  <1> SUFFICES ASSUME IInv, Refs, NEW n \in Live \ Dying PROVE node[n].refs = OwedTo(n)
    BY DEF RefsExact
  <1>1. TypeOK /\ Exact /\ n \in NodeIds /\ n \in Alive BY DEF IInv, Refs, Live, Alive
  <1> QED BY <1>1, OwedToIsOwed DEF Exact

\* What somebody owns is alive, as exact counts imply.
LEMMA InvNoDangling == IInv /\ Refs => NoDanglingPointer
  <1> SUFFICES ASSUME IInv, Refs PROVE NoDanglingPointer OBVIOUS
  <1>1. TypeOK /\ Exact /\ FreedOnce /\ DestroyFirst BY DEF IInv, Refs
  <1>2. /\ cache \in [Nums -> NodeIds \cup {None}] /\ node \in Heaps /\ stack \in Seq(Calls)
    BY <1>1 DEF TypeOK, Heaps
  <1>3. ASSUME NEW n \in NodeIds,
               \/ held[n] > 0 \/ Count(cache, {n}) > 0
               \/ InSlots(node, Dying, n) > 0 \/ Count(stack, CallsOn(n)) > 0
        PROVE  n \in Live
    <2>1. /\ held[n] \in Nat /\ Count(cache, {n}) \in Nat
          /\ InSlots(node, Dying, n) \in Nat /\ Count(stack, CallsOn(n)) \in Nat
          /\ Owed(n) \in Nat
          /\ Owed(n) >= held[n] + Count(cache, {n}) + InSlots(node, Dying, n)
                                + Count(stack, CallsOn(n))
      BY <1>1, OwedParts
    <2>2. Owed(n) > 0 BY ONLY <1>3, <2>1
    <2> QED BY <1>1, <2>2, OwnedIsAlive DEF Alive
  <1>4. ASSUME NEW k \in Nums, cache[k] # None PROVE cache[k] \in Live
    <2>1. PICK n \in NodeIds : n = cache[k] BY <1>2, <1>4
    <2>2. Count(cache, {n}) > 0 BY <1>2, <2>1, CacheCount
    <2> QED BY <1>3, <2>1, <2>2
  <1>5. ASSUME NEW m \in Live \ Dying PROVE ValuesOf(m) \subseteq Live
    <2> SUFFICES ASSUME NEW i \in DOMAIN node[m].slots, node[m].slots[i].value \notin {None, Null}
                 PROVE  node[m].slots[i].value \in Live
      BY DEF ValuesOf
    <2>1. node[m].slots[i] \in Slots BY <1>1, SlotType
    <2>2. PICK n \in NodeIds : n = node[m].slots[i].value BY <2>1 DEF Slots
    <2>3. m \in NodeIds \ Dying /\ node[m] # Freed BY DEF Live
    <2>4. InSlots(node, Dying, n) > 0 BY <1>2, <2>2, <2>3, SlotCounted
    <2> QED BY <1>3, <2>2, <2>4
  <1>6. ASSUME NEW i \in DOMAIN stack, stack[i].call \in {"release", "destroy", "free"}
        PROVE  stack[i].n \in Live \cup {None, Null}
    <2>1. stack[i] \in Calls BY <1>2
    <2>2. stack[i].n \in NodeIds \cup {Null, None} BY <1>6, <2>1 DEF Calls
    <2>3. CASE stack[i].call = "free"
      <3>1. stack[i].n \in Dying BY <1>1, <2>3 DEF FreedOnce, Dying
      <3> QED BY <1>1, <3>1 DEF FreedOnce
    <2>4. CASE stack[i].call \in {"release", "destroy"} /\ stack[i].n \in NodeIds
      <3>1. PICK n \in NodeIds : n = stack[i].n BY <2>4
      <3>2. stack[i] \in CallsOn(n) BY <2>1, <2>4, <3>1 DEF Calls, CallsOn
      <3>3. Count(stack, CallsOn(n)) > 0 BY <1>2, <3>2, CountPositive
      <3> QED BY <1>3, <3>1, <3>3
    <2> QED BY <1>6, <2>2, <2>3, <2>4
  <1> QED BY <1>3, <1>4, <1>5, <1>6 DEF NoDanglingPointer

\* A node that is left when everything was given back is lost or is kept by
\* a resolved reference.
LEMMA InvNoLeak == IInv /\ Refs => OnlyCyclesAndLostLeak
  <1> SUFFICES ASSUME IInv, Refs, phase = "destroyed", Idle, \A n \in NodeIds : held[n] = 0,
                      NEW n \in Live \ lost
               PROVE  \E m \in Live : n \in ValuesOf(m)
    BY DEF OnlyCyclesAndLostLeak
  <1>1. TypeOK /\ Exact /\ TrailerOwned /\ CacheGone /\ AtLeastOne BY DEF IInv, Refs
  <1>2. node \in Heaps /\ cache \in [Nums -> NodeIds \cup {None}] BY <1>1 DEF TypeOK, Heaps
  <1>3. stack = <<>> /\ Dying = {} /\ Alive = Live BY DEF Idle, Dying, Alive
  <1>4. n \in NodeIds /\ n # None /\ n # Null /\ n \notin lost BY NodeIdsAssumption DEF Live
  <1>5. trailer = None BY <1>1 DEF TrailerOwned
  <1>6. \A k \in Nums : cache[k] = None BY <1>1, <1>3 DEF CacheGone
  <1>7. held[n] = 0 /\ Count(cache, {n}) = 0 /\ Count(stack, CallsOn(n)) = 0
    BY ZenonT(30), <1>2, <1>3, <1>4, <1>6, CacheCount, CountEmpty
  <1>8. Owed(n) = InSlots(node, Dying, n)
    <2>1. Owed(n) = 0 + 0 + InSlots(node, Dying, n) + 0 + 0 + 0 BY <1>4, <1>5, <1>7 DEF Owed
    <2>2. InSlots(node, Dying, n) \in Nat BY <1>2, RowType
    <2> QED BY ONLY <2>1, <2>2
  <1>9. Owed(n) > 0 BY <1>1, <1>3, <1>4 DEF Exact, AtLeastOne
  <1>10. CountIn(Table(node, Dying), NodeIds, SlotsTo(n)) > 0 BY <1>8, <1>9 DEF InSlots
  <1>11. IsFiniteSet(NodeIds) /\ \A m \in NodeIds : Table(node, Dying)[m] \in Seq(Slots)
    BY <1>2, RowType, NodeIdsAssumption
  <1>12. \E m \in NodeIds : \E k \in DOMAIN Table(node, Dying)[m] :
             Table(node, Dying)[m][k] \in SlotsTo(n)
    BY ONLY <1>10, <1>11, CountInPositive
  <1>13. PICK m \in NodeIds : \E k \in DOMAIN Table(node, Dying)[m] :
             Table(node, Dying)[m][k] \in SlotsTo(n)
    BY <1>12
  <1>14. Table(node, Dying)[m] = IF node[m] = Freed THEN <<>> ELSE node[m].slots
    BY <1>3 DEF Table
  <1>15. node[m] # Freed /\ \E k \in DOMAIN node[m].slots : node[m].slots[k] \in SlotsTo(n)
    BY <1>13, <1>14
  <1>16. \E k \in DOMAIN node[m].slots : node[m].slots[k].value = n BY <1>15 DEF SlotsTo
  <1> QED BY <1>4, <1>15, <1>16 DEF Live, ValuesOf

\* For every file, however loads nest and fail and whatever the client keeps:
\* a node's count is the number of references owed to it (CosDoc.c:115-196,
\* CosObjNode.c, CosObjCache.c).
THEOREM CountsAreExact == Spec => []RefsExact
  <1> QED BY RefsInvariance, InvExact, PTL

\* What is held, cached, referenced or about to be released exists, also
\* after the document is destroyed under a client that holds its objects.
THEOREM NothingDangles == Spec => []NoDanglingPointer
  <1> QED BY RefsInvariance, InvNoDangling, PTL

\* Nothing but lost streams and what resolved references keep outlives the
\* document and its client.
THEOREM OnlyCyclesAndLostAreLeft == Spec => []OnlyCyclesAndLostLeak
  <1> QED BY RefsInvariance, InvNoLeak, PTL
=============================================================================
