-------------------------- MODULE CosObjNode_proofs --------------------------
(***************************************************************************)
(* Proofs about CosObjNode: the reference counts of the nodes are exact,   *)
(* for every set of addresses and whatever the client builds, if it does   *)
(* not keep the dictionary it gave to a stream.                            *)
(***************************************************************************)
EXTENDS CosObjNode, CosCounting

CallRecords == [call : {"release", "destroy", "free"}, n : NodeIds \cup {Null}]

Types ==
    /\ node \in [NodeIds -> NodeRecords \cup {Freed}]
    /\ held \in [NodeIds -> Nat]
    /\ stack \in Seq(CallRecords)

\* The nodes that own their parts.
Alive == Live \ Dying

\* The parts of every address.
Parts == [m \in NodeIds |-> IF m \in Live THEN node[m].parts ELSE <<>>]

\* The calls that give a reference to n back.
CallsOn(n) == [call : {"release", "destroy"}, n : {n}]

\* The references to n, by owner: the client, nodes, calls in progress.
Owed(n) == held[n] + CountIn(Parts, Alive, {n}) + Count(stack, CallsOn(n))

\* Nobody owns a reference to a node that is freed or about to be.
Exact == \A n \in NodeIds : Owed(n) = IF n \in Alive THEN node[n].refs ELSE 0

\* A node is freed once.
FreedOnce ==
    /\ Dying \subseteq Live
    /\ \A i, j \in DOMAIN stack :
           stack[i].call = "free" /\ stack[j].call = "free" /\ i # j => stack[i].n # stack[j].n
    /\ \A i \in DOMAIN stack : stack[i].call = "free" => stack[i].n \in NodeIds

\* What a stream, or a call of cos_dict_obj_node_destroy on its behalf, owns.
Destroyable(n) ==
    \/ \E s \in Alive : node[s].kind = "Stream" /\ \E i \in DOMAIN node[s].parts : node[s].parts[i] = n
    \/ \E i \in DOMAIN stack : stack[i].call = "destroy" /\ stack[i].n = n

\* It is a dictionary nobody else owns.
StreamsOwn ==
    \A n \in NodeIds \cup {Null} :
        Destroyable(n) => n \in Alive /\ node[n].kind = "Dict" /\ node[n].refs = 1

IInv == Types /\ ~touched /\ Exact /\ FreedOnce /\ StreamsOwn

-----------------------------------------------------------------------------
\* The rows of the table of parts.
TableOK ==
    /\ IsFiniteSet(Alive) /\ Alive \subseteq NodeIds
    /\ \A m \in NodeIds : Parts[m] \in Seq(NodeIds \cup {Null})

\* The nodes that own parts are finitely many, and their parts are sequences.
LEMMA Table == Types => TableOK
  <1> SUFFICES ASSUME Types PROVE TableOK OBVIOUS
  <1>1. Alive \subseteq NodeIds BY DEF Alive, Live
  <1>2. IsFiniteSet(Alive) BY <1>1, NodeIdsAssumption, FS_Subset
  <1>3. \A m \in Live : node[m].parts \in Seq(NodeIds \cup {Null})
    BY DEF Live, Types, NodeRecords
  <1>4. \A m \in NodeIds : Parts[m] \in Seq(NodeIds \cup {Null})
    BY <1>3 DEF Parts
  <1> QED BY <1>1, <1>2, <1>4 DEF TableOK

\* So they are after a step.
LEMMA TableNext == Types' => TableOK'
  BY Table, PTL

\* A step that changes the parts of one node, or ends or begins its life,
\* changes the references to n by those of that node.
LEMMA OneNodeChanged ==
    ASSUME TableOK, TableOK', NEW r \in NodeIds, Alive' \ {r} = Alive \ {r},
           \A m \in Alive \ {r} : Parts'[m] = Parts[m], NEW n
    PROVE  /\ CountIn(Parts, Alive, {n})' =
                  CountIn(Parts, Alive, {n})
                      - (IF r \in Alive THEN Count(Parts[r], {n}) ELSE 0)
                      + (IF r \in Alive' THEN Count(Parts'[r], {n}) ELSE 0)
           /\ CountIn(Parts, Alive, {n}) \in Nat
           /\ CountIn(Parts, Alive, {n})' \in Nat
  <1> DEFINE S == NodeIds \cup {Null}
  <1>1. IsFiniteSet(Alive) /\ \A d \in Alive : Parts[d] \in Seq(S) BY DEF TableOK
  <1>2. IsFiniteSet(Alive') /\ \A d \in Alive' : Parts'[d] \in Seq(S) BY DEF TableOK
  <1>3. Alive \ {r} = Alive' \ {r} /\ \A d \in Alive \ {r} : Parts[d] = Parts'[d] OBVIOUS
  <1> HIDE DEF S
  <1>4. CountIn(Parts', Alive', {n}) =
                  CountIn(Parts, Alive, {n})
                      - (IF r \in Alive THEN Count(Parts[r], {n}) ELSE 0)
                      + (IF r \in Alive' THEN Count(Parts'[r], {n}) ELSE 0)
    BY ONLY <1>1, <1>2, <1>3, CountRowChanged
  <1>5. CountIn(Parts, Alive, {n}) \in Nat BY ONLY <1>1, PlacesFinite
  <1>6. CountIn(Parts', Alive', {n}) \in Nat BY ONLY <1>2, PlacesFinite
  <1> QED BY ONLY <1>4, <1>5, <1>6 DEF CountIn, Places, Hits

-----------------------------------------------------------------------------
\* No call is in progress.
Quiet ==
    /\ Dying = {} /\ Alive = Live
    /\ \A n \in NodeIds : Count(stack, CallsOn(n)) = 0
    /\ \A i \in DOMAIN stack : FALSE

\* Without a call in progress no node is about to be freed.
LEMMA IdleIsQuiet == Idle => Quiet
  <1> SUFFICES ASSUME stack = <<>> PROVE Quiet BY DEF Idle
  <1>1. \A i \in DOMAIN stack : FALSE OBVIOUS
  <1>2. Dying = {} BY <1>1 DEF Dying
  <1>3. \A n \in NodeIds : Count(stack, CallsOn(n)) = 0 BY CountEmpty
  <1> QED BY <1>1, <1>2, <1>3 DEF Quiet, Alive

\* So it is after a step.
LEMMA IdleIsQuietNext == Idle' => Quiet'
  BY IdleIsQuiet, PTL

\* The client called release on n, and the call has not begun.
Releasing(n) == stack = <<[call |-> "release", n |-> n]>>

\* Such a call owns one reference, to n.
ReleaseOwns(n) ==
    /\ Dying = {} /\ Alive = Live
    /\ \A k \in NodeIds : Count(stack, CallsOn(k)) = IF k = n THEN 1 ELSE 0
    /\ \A i \in DOMAIN stack : stack[i] = [call |-> "release", n |-> n]

\* A release that has not begun owns the reference it will give back.
LEMMA ReleaseHasOne == ASSUME NEW n PROVE Releasing(n) => ReleaseOwns(n)
  <1> SUFFICES ASSUME Releasing(n) PROVE ReleaseOwns(n) OBVIOUS
  <1> DEFINE c == [call |-> "release", n |-> n]
  <1>1. stack = <<c>> BY DEF Releasing
  <1>2. \A i \in DOMAIN stack : stack[i] = c BY <1>1
  <1>3. Dying = {} BY <1>2 DEF Dying
  <1>4. ASSUME NEW k \in NodeIds PROVE Count(stack, CallsOn(k)) = IF k = n THEN 1 ELSE 0
    <2>1. c \in CallsOn(k) <=> k = n BY DEF CallsOn
    <2> HIDE DEF c
    <2> QED BY <1>1, <2>1, CountOne
  <1> QED BY <1>2, <1>3, <1>4 DEF ReleaseOwns, Alive

\* So it does after a step.
LEMMA ReleaseHasOneNext == ASSUME NEW CONSTANT n PROVE Releasing(n)' => ReleaseOwns(n)'
  BY ReleaseHasOne, PTL

\* malloc gives an address that holds no node.
LEMMA FreshIsFree == ASSUME Live # NodeIds PROVE Fresh \in NodeIds \ Live
  <1>1. \E n \in NodeIds : n \notin Live BY Zenon DEF Live
  <1> DEFINE P(n) == n \notin Live
  <1>2. \E n \in NodeIds : P(n) BY <1>1
  <1> HIDE DEF P
  <1>3. (CHOOSE n \in NodeIds : P(n)) \in NodeIds /\ P(CHOOSE n \in NodeIds : P(n)) BY <1>2, Zenon
  <1> QED BY <1>3, Zenon DEF P, Fresh

\* What a live address holds is a node.
LEMMA LiveNode ==
    ASSUME Types, NEW n \in Live
    PROVE  /\ n \in NodeIds /\ node[n] \in NodeRecords /\ Parts[n] = node[n].parts
           /\ node[n].kind \in Kinds /\ node[n].refs \in Nat \ {0}
           /\ node[n].parts \in Seq(NodeIds \cup {Null})
  <1>1. n \in NodeIds /\ node[n] \in NodeRecords BY DEF Types, Live
  <1> QED BY <1>1 DEF NodeRecords, Parts

\* A node somebody owns a reference to is alive, a freed address nobody's.
LEMMA OwnedIsAlive ==
    ASSUME Types, Exact, NEW n \in NodeIds
    PROVE  /\ held[n] \in Nat /\ CountIn(Parts, Alive, {n}) \in Nat
           /\ Count(stack, CallsOn(n)) \in Nat
           /\ Owed(n) = held[n] + CountIn(Parts, Alive, {n}) + Count(stack, CallsOn(n))
           /\ Owed(n) > 0 => n \in Alive
           /\ n \in Alive => Owed(n) = node[n].refs
           /\ n \notin Alive => Owed(n) = 0
  <1>1. held[n] \in Nat BY DEF Types
  <1>2. IsFiniteSet(Alive) /\ \A d \in Alive : Parts[d] \in Seq(NodeIds \cup {Null})
    BY Table DEF TableOK
  <1>3. CountIn(Parts, Alive, {n}) \in Nat BY ONLY <1>2, PlacesFinite
  <1>4. stack \in Seq(CallRecords) BY DEF Types
  <1>5. Count(stack, CallsOn(n)) \in Nat BY ONLY <1>4, HitsFinite
  <1>6. Owed(n) = IF n \in Alive THEN node[n].refs ELSE 0 BY DEF Exact
  <1> HIDE DEF Exact
  <1> QED BY <1>1, <1>3, <1>5, <1>6 DEF Owed

\* The part of a node that owns its parts is alive.
LEMMA PartIsAlive ==
    ASSUME Types, Exact, NEW m \in Alive, NEW i \in DOMAIN node[m].parts,
           node[m].parts[i] # Null
    PROVE  node[m].parts[i] \in Alive
  <1> DEFINE n == node[m].parts[i]
  <1>1. m \in Live /\ Parts[m] = node[m].parts /\ node[m].parts \in Seq(NodeIds \cup {Null})
    BY LiveNode DEF Alive
  <1>2. n \in NodeIds BY <1>1
  <1>3. IsFiniteSet(Alive) /\ \A d \in Alive : Parts[d] \in Seq(NodeIds \cup {Null})
    BY Table DEF TableOK
  <1>4. i \in DOMAIN Parts[m] /\ Parts[m][i] \in {n} BY <1>1
  <1> HIDE DEF n
  <1>5. CountIn(Parts, Alive, {n}) > 0 BY ONLY <1>3, <1>4, CountInPositive, m \in Alive
  <1>6. n \in Alive BY <1>2, <1>5, OwnedIsAlive
  <1> QED BY <1>6 DEF n

\* A node a call in progress gives back is alive, and each call owns one reference.
LEMMA CalledIsAlive ==
    ASSUME Types, Exact, NEW i \in DOMAIN stack, stack[i].call # "free", stack[i].n # Null
    PROVE  stack[i].n \in Alive
  <1> DEFINE n == stack[i].n
  <1>1. stack \in Seq(CallRecords) /\ stack[i] \in CallRecords BY DEF Types
  <1>2. n \in NodeIds /\ stack[i] \in CallsOn(n) BY <1>1 DEF CallRecords, CallsOn
  <1> HIDE DEF n
  <1>3. Count(stack, CallsOn(n)) > 0 BY ONLY <1>1, <1>2, CountPositive, i \in DOMAIN stack
  <1>4. /\ held[n] \in Nat /\ CountIn(Parts, Alive, {n}) \in Nat
        /\ Count(stack, CallsOn(n)) \in Nat
        /\ Owed(n) = held[n] + CountIn(Parts, Alive, {n}) + Count(stack, CallsOn(n))
        /\ Owed(n) > 0 => n \in Alive
    BY <1>2, OwnedIsAlive
  <1>5. n \in Alive BY ONLY <1>3, <1>4
  <1> QED BY <1>5 DEF n

\* The client may be given a node that takes over the reference it has to
\* another one: an indirect object or a stream does.
MayOwn(kind, parts, given) ==
    \/ parts = <<>> /\ given = {} /\ kind # "Stream"
    \/ \E v \in Live :
        /\ held[v] > 0 /\ parts = <<v>> /\ given = {v}
        /\ kind = "Stream" => node[v].kind = "Dict" /\ node[v].refs = 1

\* Allocation keeps the counts exact.
LEMMA AllocateInv ==
    ASSUME IInv, NEW kind \in Kinds, NEW parts, NEW given,
           MayOwn(kind, parts, given), Allocate(kind, parts, given)
    PROVE  IInv'
  <1> DEFINE f == Fresh
             new == [kind |-> kind, refs |-> 1, parts |-> parts]
  <1>1. Types /\ Exact /\ ~touched BY DEF IInv
  <1>2. Idle /\ Idle' /\ stack' = stack /\ touched' = touched BY DEF Allocate, Idle
  <1>3. Quiet /\ Quiet' BY <1>2, IdleIsQuiet, IdleIsQuietNext
  <1>4. f \in NodeIds \ Live BY FreshIsFree DEF Allocate
  <1>5. parts \in Seq(NodeIds \cup {Null}) /\ given \subseteq Live
        /\ \A v \in given : held[v] > 0 /\ held[v] \in Nat
    <2>1. CASE parts = <<>> /\ given = {} BY <2>1
    <2>2. ASSUME NEW v \in Live, held[v] > 0, parts = <<v>>, given = {v}
          PROVE  parts \in Seq(NodeIds \cup {Null}) /\ given \subseteq Live
                 /\ \A w \in given : held[w] > 0 /\ held[w] \in Nat
      <3>1. v \in NodeIds BY <1>1, LiveNode
      <3>2. held[v] \in Nat BY <1>1, <3>1 DEF Types
      <3> QED BY <2>2, <3>1, <3>2
    <2> QED BY <2>1, <2>2 DEF MayOwn
  <1>6. new \in NodeRecords /\ new # Freed BY <1>5, FreedAssumption DEF NodeRecords
  <1>7. node' = [node EXCEPT ![f] = new]
        /\ held' = [n \in NodeIds |-> IF n = f THEN 1
                                      ELSE IF n \in given THEN held[n] - 1 ELSE held[n]]
    BY DEF Allocate
  <1>8. new.kind = kind /\ new.refs = 1 /\ new.parts = parts OBVIOUS
  <1> HIDE DEF f, new
  <1>9. node'[f] = new /\ \A m \in NodeIds \ {f} : node'[m] = node[m]
    BY <1>1, <1>4, <1>7 DEF Types
  <1>10. Live' = Live \cup {f} BY <1>4, <1>6, <1>9 DEF Live
  <1>11. Types'
    <2>1. node' \in [NodeIds -> NodeRecords \cup {Freed}] BY <1>1, <1>6, <1>7 DEF Types
    <2>2. \A n \in NodeIds : held'[n] \in Nat
      BY <1>1, <1>4, <1>5, <1>7 DEF Types
    <2>3. held' \in [NodeIds -> Nat] BY <1>7, <2>2
    <2> QED BY <1>1, <1>2, <2>1, <2>3 DEF Types
  <1>12. TableOK /\ TableOK' BY <1>1, <1>11, Table, TableNext
  <1>13. Alive = Live /\ Alive' = Alive \cup {f} /\ f \notin Alive
    BY <1>3, <1>4, <1>10 DEF Quiet
  <1>14. Parts'[f] = parts /\ \A m \in NodeIds \ {f} : Parts'[m] = Parts[m]
    BY <1>4, <1>8, <1>9, <1>10 DEF Parts
  <1>15. ASSUME NEW n \in NodeIds
         PROVE  Count(parts, {n}) = IF n \in given THEN 1 ELSE 0
    <2>1. CASE parts = <<>> /\ given = {} BY <2>1, CountEmpty
    <2>2. ASSUME NEW v, parts = <<v>>, given = {v} PROVE Count(parts, {n}) = IF n \in given THEN 1 ELSE 0
      <3>1. Count(<<v>>, {n}) = IF v \in {n} THEN 1 ELSE 0 BY CountOne
      <3> QED BY <2>2, <3>1
    <2> QED BY <2>1, <2>2 DEF MayOwn
  <1>16. Exact'
    <2>1. ASSUME NEW n \in NodeIds
          PROVE  Owed(n)' = IF n \in Alive' THEN node'[n].refs ELSE 0
      <3>1. CountIn(Parts, Alive, {n})' = CountIn(Parts, Alive, {n}) + Count(parts, {n})
            /\ CountIn(Parts, Alive, {n}) \in Nat
        <4>1. /\ f \in NodeIds /\ Alive' \ {f} = Alive \ {f}
              /\ \A m \in Alive \ {f} : Parts'[m] = Parts[m]
          BY <1>4, <1>12, <1>13, <1>14 DEF TableOK
        <4>2. /\ CountIn(Parts, Alive, {n})' =
                  CountIn(Parts, Alive, {n})
                      - (IF f \in Alive THEN Count(Parts[f], {n}) ELSE 0)
                      + (IF f \in Alive' THEN Count(Parts'[f], {n}) ELSE 0)
              /\ CountIn(Parts, Alive, {n}) \in Nat
          BY ONLY <4>1, <1>12, OneNodeChanged
        <4>3. f \notin Alive /\ f \in Alive' BY <1>13
        <4>4. Count(parts, {n}) \in Nat BY <1>15
        <4> QED BY ONLY <4>2, <4>3, <4>4, <1>14
      <3>2. Count(stack, CallsOn(n)) = 0 /\ Count(stack, CallsOn(n))' = 0
        BY <1>3 DEF Quiet
      <3>3. Owed(n)' = held'[n] + CountIn(Parts, Alive, {n})' + 0 BY <3>2 DEF Owed
      <3>4. CASE n = f
        <4>1. Owed(f) = 0 /\ held[f] \in Nat
              /\ Owed(f) = held[f] + CountIn(Parts, Alive, {f}) + Count(stack, CallsOn(f))
          BY <1>1, <1>13, <3>4, OwnedIsAlive
        <4>2. CountIn(Parts, Alive, {n}) = 0 BY ONLY <3>1, <3>2, <3>4, <4>1
        <4>3. f \notin given BY <1>4, <1>5
        <4>4. held'[f] = 1 BY <1>4, <1>7
        <4> QED BY <3>1, <3>3, <3>4, <4>2, <4>3, <4>4, <1>8, <1>9, <1>13, <1>15
      <3>5. CASE n # f
        <4>1. held'[n] = IF n \in given THEN held[n] - 1 ELSE held[n] BY <1>7, <3>5
        <4>2. held[n] \in Nat BY <1>1 DEF Types
        <4>3. Owed(n)' = Owed(n)
          BY <3>1, <3>2, <3>3, <4>1, <4>2, <1>15 DEF Owed
        <4>4. Owed(n) = IF n \in Alive THEN node[n].refs ELSE 0 BY <1>1 DEF Exact
        <4> QED BY <4>3, <4>4, <3>5, <1>9, <1>13
      <3> QED BY <3>4, <3>5
    <2> QED BY <2>1 DEF Exact
  <1>17. FreedOnce' BY <1>3 DEF Quiet, FreedOnce
  <1>18. StreamsOwn'
    <2> SUFFICES ASSUME NEW n \in NodeIds \cup {Null}, Destroyable(n)'
                 PROVE  n \in Alive' /\ node'[n].kind = "Dict" /\ node'[n].refs = 1
      BY DEF StreamsOwn
    <2>1. PICK s \in Alive' : /\ node'[s].kind = "Stream"
                              /\ \E i \in DOMAIN node'[s].parts : node'[s].parts[i] = n
      BY <1>3 DEF Destroyable, Quiet
    <2>2. CASE s = f
      <3>1. kind = "Stream" /\ parts # <<>> BY <2>1, <2>2, <1>8, <1>9
      <3>2. PICK v \in Live : parts = <<v>> /\ node[v].kind = "Dict" /\ node[v].refs = 1
        BY <3>1 DEF MayOwn
      <3>3. n = v BY <2>1, <2>2, <3>2, <1>8, <1>9
      <3>4. v \in NodeIds \ {f} BY <3>2, <1>4 DEF Live
      <3> QED BY <3>2, <3>3, <3>4, <1>9, <1>13
    <2>3. CASE s # f
      <3>1. s \in Alive /\ node'[s] = node[s] BY <2>1, <2>3, <1>9, <1>12, <1>13 DEF TableOK
      <3>2. Destroyable(n) BY <2>1, <3>1 DEF Destroyable
      <3>3. n \in Alive /\ node[n].kind = "Dict" /\ node[n].refs = 1
        BY <3>2 DEF IInv, StreamsOwn
      <3>4. n \in NodeIds \ {f} BY <3>3, <1>12, <1>13 DEF TableOK
      <3> QED BY <3>3, <3>4, <1>9, <1>13
    <2> QED BY <2>2, <2>3
  <1> QED BY <1>1, <1>2, <1>11, <1>16, <1>17, <1>18 DEF IInv

\* A step that leaves the streams and the counts of their dictionaries alone
\* leaves the dictionaries to the streams.
LEMMA StreamsStay ==
    ASSUME StreamsOwn, Alive' = Alive,
           \A i \in DOMAIN stack' : stack'[i].call # "destroy",
           \A m \in Alive : /\ node'[m].kind = node[m].kind
                            /\ node[m].kind = "Stream" => node'[m].parts = node[m].parts
                            /\ Destroyable(m) => node'[m].refs = node[m].refs
    PROVE  StreamsOwn'
  <1> SUFFICES ASSUME NEW n \in NodeIds \cup {Null}, Destroyable(n)'
               PROVE  n \in Alive' /\ node'[n].kind = "Dict" /\ node'[n].refs = 1
    BY DEF StreamsOwn
  <1>1. PICK s \in Alive' : /\ node'[s].kind = "Stream"
                            /\ \E i \in DOMAIN node'[s].parts : node'[s].parts[i] = n
    BY DEF Destroyable
  <1>2. s \in Alive /\ node[s].kind = "Stream" /\ node'[s].parts = node[s].parts BY <1>1
  <1>3. Destroyable(n) BY <1>1, <1>2 DEF Destroyable
  <1>4. n \in Alive /\ node[n].kind = "Dict" /\ node[n].refs = 1 BY <1>3 DEF StreamsOwn
  <1> QED BY <1>3, <1>4

\* What a node is after its parts or its count were set.
LEMMA NodeSet ==
    ASSUME NEW r \in NodeRecords
    PROVE  /\ \A q \in Seq(NodeIds \cup {Null}) :
                  LET t == [r EXCEPT !.parts = q]
                  IN  /\ t \in NodeRecords /\ t # Freed
                      /\ t.kind = r.kind /\ t.refs = r.refs /\ t.parts = q
           /\ \A k \in Nat \ {0} :
                  LET t == [r EXCEPT !.refs = k]
                  IN  /\ t \in NodeRecords /\ t # Freed
                      /\ t.kind = r.kind /\ t.refs = k /\ t.parts = r.parts
  <1> DEFINE Q == Seq(NodeIds \cup {Null})
  <1>1. NodeRecords = [kind : Kinds, refs : Nat \ {0}, parts : Q] BY DEF NodeRecords
  <1> HIDE DEF Q
  <1>2. \A q \in Q :
            LET t == [r EXCEPT !.parts = q]
            IN  t \in NodeRecords /\ t.kind = r.kind /\ t.refs = r.refs /\ t.parts = q
    BY <1>1
  <1>3. \A k \in Nat \ {0} :
            LET t == [r EXCEPT !.refs = k]
            IN  t \in NodeRecords /\ t.kind = r.kind /\ t.refs = k /\ t.parts = r.parts
    BY <1>1
  <1> QED BY <1>2, <1>3, FreedAssumption DEF Q

\* Handing a node to a container keeps the counts exact: the container owns
\* the reference that the client had.
LEMMA AddInv ==
    ASSUME IInv, NEW c \in NodeIds, NEW part \in NodeIds \cup {Null}, Add(c, part)
    PROVE  IInv'
  <1>1. Types /\ Exact /\ ~touched BY DEF IInv
  <1>2. Idle /\ Idle' /\ stack' = stack /\ touched' = touched BY DEF Add, Idle
  <1>3. Quiet /\ Quiet' BY <1>2, IdleIsQuiet, IdleIsQuietNext
  <1>4. c \in Live /\ node[c].kind \in {"Array", "Dict"} BY DEF Add
  <1>5. node[c] \in NodeRecords /\ node[c].parts \in Seq(NodeIds \cup {Null})
        /\ Parts[c] = node[c].parts
    BY <1>1, <1>4, LiveNode
  <1> DEFINE q == Append(node[c].parts, part)
             new == [node[c] EXCEPT !.parts = q]
  <1>6. new \in NodeRecords /\ new.kind = node[c].kind /\ new.refs = node[c].refs
        /\ new.parts = q /\ new # Freed
    <2>1. q \in Seq(NodeIds \cup {Null}) BY <1>5
    <2> HIDE DEF q
    <2> QED BY <1>5, <2>1, NodeSet
  <1>7. new # Freed BY <1>6
  <1>8. node' = [node EXCEPT ![c] = new] BY DEF Add
  <1> HIDE DEF new
  <1>9. node'[c] = new /\ \A m \in NodeIds \ {c} : node'[m] = node[m]
    BY <1>1, <1>8 DEF Types
  <1>10. Live' = Live BY <1>4, <1>7, <1>9 DEF Live
  <1>11. ASSUME NEW n \in NodeIds
         PROVE  held'[n] \in Nat /\ held'[n] = held[n] - (IF part = n THEN 1 ELSE 0)
    <2>1. CASE part = Null /\ UNCHANGED held
      BY <2>1, <1>1, NodeIdsAssumption DEF Types
    <2>2. CASE held[part] > 0 /\ part \in Live /\ held' = [held EXCEPT ![part] = @ - 1]
      <3>1. part \in NodeIds BY <2>2 DEF Live
      <3> QED BY <2>2, <3>1, <1>1 DEF Types
    <2> QED BY <2>1, <2>2 DEF Add
  <1>12. Types'
    <2>1. node' \in [NodeIds -> NodeRecords \cup {Freed}] BY <1>1, <1>6, <1>8 DEF Types
    <2>2. held' \in [NodeIds -> Nat]
      <3>1. \/ held' = held
            \/ part \in Live /\ held' = [held EXCEPT ![part] = @ - 1]
        BY DEF Add
      <3>2. ASSUME part \in Live, held' = [held EXCEPT ![part] = @ - 1]
            PROVE  held' \in [NodeIds -> Nat]
        <4>1. part \in NodeIds BY <3>2 DEF Live
        <4>2. held'[part] \in Nat BY <1>11, <4>1
        <4> QED BY <1>1, <3>2, <4>1, <4>2 DEF Types
      <3> QED BY <1>1, <3>1, <3>2 DEF Types
    <2> QED BY <1>1, <1>2, <2>1, <2>2 DEF Types
  <1>13. TableOK /\ TableOK' BY <1>1, <1>12, Table, TableNext
  <1>14. Alive = Live /\ Alive' = Live BY <1>3, <1>10 DEF Quiet
  <1>15. Parts'[c] = Append(Parts[c], part) /\ \A m \in NodeIds \ {c} : Parts'[m] = Parts[m]
    BY <1>4, <1>5, <1>6, <1>9, <1>10 DEF Parts
  <1>16. Exact'
    <2>1. ASSUME NEW n \in NodeIds
          PROVE  Owed(n)' = IF n \in Alive' THEN node'[n].refs ELSE 0
      <3>1. CountIn(Parts, Alive, {n})' =
                CountIn(Parts, Alive, {n}) + (IF part = n THEN 1 ELSE 0)
            /\ CountIn(Parts, Alive, {n}) \in Nat
        <4>1. /\ c \in NodeIds /\ Alive' \ {c} = Alive \ {c}
              /\ \A m \in Alive \ {c} : Parts'[m] = Parts[m]
          BY <1>13, <1>14, <1>15 DEF TableOK
        <4>2. /\ CountIn(Parts, Alive, {n})' =
                  CountIn(Parts, Alive, {n})
                      - (IF c \in Alive THEN Count(Parts[c], {n}) ELSE 0)
                      + (IF c \in Alive' THEN Count(Parts'[c], {n}) ELSE 0)
              /\ CountIn(Parts, Alive, {n}) \in Nat
          BY ONLY <4>1, <1>13, OneNodeChanged
        <4>3. c \in Alive /\ c \in Alive' BY <1>4, <1>14
        <4>4. Count(Append(Parts[c], part), {n}) = Count(Parts[c], {n}) + (IF part \in {n} THEN 1 ELSE 0)
          BY <1>5, CountAppend
        <4>5. Count(Parts[c], {n}) \in Nat BY <1>5, HitsFinite
        <4> QED BY ONLY <4>2, <4>3, <4>4, <4>5, <1>15
      <3>2. Count(stack, CallsOn(n)) = 0 /\ Count(stack, CallsOn(n))' = 0
        BY <1>3 DEF Quiet
      <3>3. held[n] \in Nat BY <1>1 DEF Types
      <3>4. Owed(n)' = Owed(n) BY <3>1, <3>2, <3>3, <1>11 DEF Owed
      <3>5. Owed(n) = IF n \in Alive THEN node[n].refs ELSE 0 BY <1>1 DEF Exact
      <3>6. node'[n].refs = node[n].refs BY <1>6, <1>9
      <3> QED BY <3>4, <3>5, <3>6, <1>14
    <2> QED BY <2>1 DEF Exact
  <1>17. FreedOnce' BY <1>3 DEF Quiet, FreedOnce
  <1>18. StreamsOwn'
    <2>1. \A m \in Alive : /\ node'[m].kind = node[m].kind
                           /\ node[m].kind = "Stream" => node'[m].parts = node[m].parts
                           /\ node'[m].refs = node[m].refs
      BY <1>4, <1>6, <1>9, <1>13 DEF TableOK
    <2>2. \A i \in DOMAIN stack' : stack'[i].call # "destroy" BY <1>3 DEF Quiet
    <2>3. StreamsOwn /\ Alive' = Alive BY <1>14 DEF IInv
    <2> QED BY ONLY <2>1, <2>2, <2>3, StreamsStay
  <1> QED BY <1>1, <1>2, <1>12, <1>16, <1>17, <1>18 DEF IInv

\* Removing an item keeps the counts exact: the reference that the array had
\* is the one the pending release gives back.
LEMMA RemoveAtInv ==
    ASSUME IInv, NEW c \in NodeIds, NEW i, RemoveAt(c, i)
    PROVE  IInv'
  <1>1. Types /\ Exact /\ ~touched BY DEF IInv
  <1>2. Idle /\ touched' = touched /\ held' = held BY DEF RemoveAt
  <1>3. Quiet BY <1>2, IdleIsQuiet
  <1>4. c \in Live /\ node[c].kind = "Array" /\ i \in DOMAIN node[c].parts BY DEF RemoveAt
  <1>5. node[c] \in NodeRecords /\ node[c].parts \in Seq(NodeIds \cup {Null})
        /\ Parts[c] = node[c].parts
    BY <1>1, <1>4, LiveNode
  <1>6. PICK x \in NodeIds \cup {Null} : x = node[c].parts[i] BY <1>4, <1>5
  <1>7. Releasing(x)' BY <1>6 DEF RemoveAt, Releasing
  <1>8. ReleaseOwns(x)' BY <1>7, ReleaseHasOneNext
  <1> DEFINE q == SubSeq(node[c].parts, 1, i - 1)
                      \o SubSeq(node[c].parts, i + 1, Len(node[c].parts))
             new == [node[c] EXCEPT !.parts = q]
  <1>9. q \in Seq(NodeIds \cup {Null})
    <2>1. SubSeq(node[c].parts, 1, i - 1) \in Seq(NodeIds \cup {Null}) BY <1>4, <1>5
    <2>2. SubSeq(node[c].parts, i + 1, Len(node[c].parts)) \in Seq(NodeIds \cup {Null})
      BY <1>4, <1>5
    <2> QED BY <2>1, <2>2
  <1>10. \A n : Count(q, {n}) = Count(Parts[c], {n}) - (IF x \in {n} THEN 1 ELSE 0)
    BY <1>4, <1>5, <1>6, CountRemoved
  <1>11. node' = [node EXCEPT ![c] = new] BY DEF RemoveAt
  <1> HIDE DEF q
  <1>12. new \in NodeRecords /\ new.kind = node[c].kind /\ new.refs = node[c].refs
        /\ new.parts = q /\ new # Freed
    BY <1>5, <1>9, NodeSet
  <1> HIDE DEF new
  <1>13. node'[c] = new /\ \A m \in NodeIds \ {c} : node'[m] = node[m]
    BY <1>1, <1>11 DEF Types
  <1>14. Live' = Live BY <1>4, <1>12, <1>13 DEF Live
  <1>15. Types'
    <2>1. node' \in [NodeIds -> NodeRecords \cup {Freed}] BY <1>1, <1>11, <1>12 DEF Types
    <2>2. stack' \in Seq(CallRecords) BY <1>7 DEF Releasing, CallRecords
    <2> QED BY <1>1, <1>2, <2>1, <2>2 DEF Types
  <1>16. TableOK /\ TableOK' BY <1>1, <1>15, Table, TableNext
  <1>17. Alive = Live /\ Alive' = Live BY <1>3, <1>8, <1>14 DEF Quiet, ReleaseOwns
  <1>18. Parts'[c] = q /\ \A m \in NodeIds \ {c} : Parts'[m] = Parts[m]
    BY <1>4, <1>5, <1>12, <1>13, <1>14 DEF Parts
  <1>19. Exact'
    <2>1. ASSUME NEW n \in NodeIds
          PROVE  Owed(n)' = IF n \in Alive' THEN node'[n].refs ELSE 0
      <3>1. CountIn(Parts, Alive, {n})' =
                CountIn(Parts, Alive, {n}) - (IF x = n THEN 1 ELSE 0)
            /\ CountIn(Parts, Alive, {n}) \in Nat
        <4>1. /\ c \in NodeIds /\ Alive' \ {c} = Alive \ {c}
              /\ \A m \in Alive \ {c} : Parts'[m] = Parts[m]
          BY <1>16, <1>17, <1>18 DEF TableOK
        <4>2. /\ CountIn(Parts, Alive, {n})' =
                  CountIn(Parts, Alive, {n})
                      - (IF c \in Alive THEN Count(Parts[c], {n}) ELSE 0)
                      + (IF c \in Alive' THEN Count(Parts'[c], {n}) ELSE 0)
              /\ CountIn(Parts, Alive, {n}) \in Nat
          BY ONLY <4>1, <1>16, OneNodeChanged
        <4>3. c \in Alive /\ c \in Alive' BY <1>4, <1>17
        <4>4. Count(Parts[c], {n}) \in Nat BY <1>5, HitsFinite
        <4>5. Count(Parts'[c], {n}) = Count(Parts[c], {n}) - (IF x = n THEN 1 ELSE 0)
          <5>1. Count(q, {n}) = Count(Parts[c], {n}) - (IF x \in {n} THEN 1 ELSE 0) BY <1>10
          <5> QED BY ONLY <5>1, <1>18
        <4> QED BY ONLY <4>2, <4>3, <4>4, <4>5
      <3>2. Count(stack, CallsOn(n)) = 0 /\ Count(stack, CallsOn(n))' = IF n = x THEN 1 ELSE 0
        BY <1>3, <1>8 DEF Quiet, ReleaseOwns
      <3>3. held[n] \in Nat BY <1>1 DEF Types
      <3>4. Owed(n)' = Owed(n) BY <3>1, <3>2, <3>3, <1>2 DEF Owed
      <3>5. Owed(n) = IF n \in Alive THEN node[n].refs ELSE 0 BY <1>1 DEF Exact
      <3>6. node'[n].refs = node[n].refs BY <1>12, <1>13
      <3> QED BY <3>4, <3>5, <3>6, <1>17
    <2> QED BY <2>1 DEF Exact
  <1>20. FreedOnce' BY <1>8 DEF ReleaseOwns, FreedOnce
  <1>21. StreamsOwn'
    <2>1. \A m \in Alive : /\ node'[m].kind = node[m].kind
                           /\ node[m].kind = "Stream" => node'[m].parts = node[m].parts
                           /\ node'[m].refs = node[m].refs
      BY <1>4, <1>12, <1>13, <1>16 DEF TableOK
    <2>2. \A j \in DOMAIN stack' : stack'[j].call # "destroy" BY <1>8 DEF ReleaseOwns
    <2>3. StreamsOwn /\ Alive' = Alive BY <1>17 DEF IInv
    <2> QED BY ONLY <2>1, <2>2, <2>3, StreamsStay
  <1> QED BY <1>1, <1>2, <1>15, <1>19, <1>20, <1>21 DEF IInv

\* Releasing what the client holds passes its reference to the call.
LEMMA ReleaseInv ==
    ASSUME IInv, NEW x \in NodeIds, Release(x)
    PROVE  IInv'
  <1>1. Types /\ Exact /\ ~touched BY DEF IInv
  <1>2. Idle /\ touched' = touched /\ node' = node /\ held[x] > 0
        /\ held' = [held EXCEPT ![x] = held[x] - 1]
    BY DEF Release
  <1>3. Quiet BY <1>2, IdleIsQuiet
  <1>4. Releasing(x)' BY DEF Release, Releasing
  <1>5. ReleaseOwns(x)' BY <1>4, ReleaseHasOneNext
  <1>6. Live' = Live BY <1>2 DEF Live
  <1>7. Types'
    <2>1. held' \in [NodeIds -> Nat] BY <1>1, <1>2 DEF Types
    <2>2. stack' \in Seq(CallRecords) BY <1>4 DEF Releasing, CallRecords
    <2> QED BY <1>1, <1>2, <2>1, <2>2 DEF Types
  <1>8. TableOK /\ TableOK' BY <1>1, <1>7, Table, TableNext
  <1>9. Alive = Live /\ Alive' = Live BY <1>3, <1>5, <1>6 DEF Quiet, ReleaseOwns
  <1>10. Parts' = Parts BY <1>2, <1>6 DEF Parts
  <1>11. Exact'
    <2>1. ASSUME NEW n \in NodeIds
          PROVE  Owed(n)' = IF n \in Alive' THEN node'[n].refs ELSE 0
      <3>1. CountIn(Parts, Alive, {n})' = CountIn(Parts, Alive, {n})
        BY <1>9, <1>10 DEF CountIn, Places, Hits
      <3>2. Count(stack, CallsOn(n)) = 0 /\ Count(stack, CallsOn(n))' = IF n = x THEN 1 ELSE 0
        BY <1>3, <1>5 DEF Quiet, ReleaseOwns
      <3>3. held[n] \in Nat /\ CountIn(Parts, Alive, {n}) \in Nat BY <1>1, OwnedIsAlive
      <3>4. held'[n] = held[n] - (IF n = x THEN 1 ELSE 0) BY <1>1, <1>2 DEF Types
      <3>5. Owed(n)' = Owed(n) BY <3>1, <3>2, <3>3, <3>4 DEF Owed
      <3>6. Owed(n) = IF n \in Alive THEN node[n].refs ELSE 0 BY <1>1 DEF Exact
      <3> QED BY <3>5, <3>6, <1>2, <1>9
    <2> QED BY <2>1 DEF Exact
  <1>12. FreedOnce' BY <1>5 DEF ReleaseOwns, FreedOnce
  <1>13. StreamsOwn'
    <2>1. \A m \in Alive : /\ node'[m].kind = node[m].kind
                           /\ node[m].kind = "Stream" => node'[m].parts = node[m].parts
                           /\ node'[m].refs = node[m].refs
      BY <1>2
    <2>2. \A j \in DOMAIN stack' : stack'[j].call # "destroy" BY <1>5 DEF ReleaseOwns
    <2>3. StreamsOwn /\ Alive' = Alive BY <1>9 DEF IInv
    <2> QED BY ONLY <2>1, <2>2, <2>3, StreamsStay
  <1> QED BY <1>1, <1>2, <1>7, <1>11, <1>12, <1>13 DEF IInv

\* Resolving a reference to the null object counts nothing.
LEMMA ResolveNullInv ==
    ASSUME IInv, NEW r \in NodeIds, Resolve(r, Null), node' = [node EXCEPT ![r].parts = <<Null>>]
    PROVE  IInv'
  <1>1. Types /\ Exact /\ ~touched BY DEF IInv
  <1>2. Idle /\ Idle' /\ stack' = stack /\ touched' = touched /\ held' = held
    BY DEF Resolve, Idle
  <1>3. Quiet /\ Quiet' BY <1>2, IdleIsQuiet, IdleIsQuietNext
  <1>4. r \in Live /\ node[r].kind = "Reference" /\ node[r].parts = <<>> BY DEF Resolve
  <1>5. node[r] \in NodeRecords /\ Parts[r] = <<>> BY <1>1, <1>4, LiveNode
  <1> DEFINE q == <<Null>>
             new == [node[r] EXCEPT !.parts = q]
  <1>6. q \in Seq(NodeIds \cup {Null}) OBVIOUS
  <1>7. \A n \in NodeIds : Count(q, {n}) = 0 BY CountOne, NodeIdsAssumption
  <1>8. node' = [node EXCEPT ![r] = new] OBVIOUS
  <1> HIDE DEF q
  <1>9. new \in NodeRecords /\ new.kind = node[r].kind /\ new.refs = node[r].refs
        /\ new.parts = q /\ new # Freed
    BY <1>5, <1>6, NodeSet
  <1> HIDE DEF new
  <1>10. node'[r] = new /\ \A m \in NodeIds \ {r} : node'[m] = node[m]
    BY <1>1, <1>8 DEF Types
  <1>11. Live' = Live BY <1>4, <1>9, <1>10 DEF Live
  <1>12. Types' BY <1>1, <1>2, <1>8, <1>9 DEF Types
  <1>13. TableOK /\ TableOK' BY <1>1, <1>12, Table, TableNext
  <1>14. Alive = Live /\ Alive' = Live BY <1>3, <1>11 DEF Quiet
  <1>15. Parts'[r] = q /\ \A m \in NodeIds \ {r} : Parts'[m] = Parts[m]
    <2>1. \A m \in NodeIds : /\ Parts[m] = IF m \in Live THEN node[m].parts ELSE <<>>
                             /\ Parts'[m] = IF m \in Live' THEN node'[m].parts ELSE <<>>
      BY DEF Parts
    <2> QED BY ONLY <2>1, <1>4, <1>9, <1>10, <1>11, r \in NodeIds
  <1>16. Exact'
    <2>1. ASSUME NEW n \in NodeIds
          PROVE  Owed(n)' = IF n \in Alive' THEN node'[n].refs ELSE 0
      <3>1. CountIn(Parts, Alive, {n})' = CountIn(Parts, Alive, {n})
        <4>1. /\ r \in NodeIds /\ Alive' \ {r} = Alive \ {r}
              /\ \A m \in Alive \ {r} : Parts'[m] = Parts[m]
          BY <1>13, <1>14, <1>15 DEF TableOK
        <4>2. /\ CountIn(Parts, Alive, {n})' =
                  CountIn(Parts, Alive, {n})
                      - (IF r \in Alive THEN Count(Parts[r], {n}) ELSE 0)
                      + (IF r \in Alive' THEN Count(Parts'[r], {n}) ELSE 0)
              /\ CountIn(Parts, Alive, {n}) \in Nat
          BY ONLY <4>1, <1>13, OneNodeChanged
        <4>3. Count(Parts[r], {n}) = 0 /\ Count(Parts'[r], {n}) = 0
          BY <1>5, <1>7, <1>15, CountEmpty
        <4> QED BY ONLY <4>2, <4>3
      <3>2. Count(stack, CallsOn(n)) = 0 /\ Count(stack, CallsOn(n))' = 0
        BY <1>3 DEF Quiet
      <3>3. Owed(n)' = Owed(n) BY <3>1, <3>2, <1>2 DEF Owed
      <3>4. Owed(n) = IF n \in Alive THEN node[n].refs ELSE 0 BY <1>1 DEF Exact
      <3>5. node'[n].refs = node[n].refs BY <1>9, <1>10
      <3> QED BY <3>3, <3>4, <3>5, <1>14
    <2> QED BY <2>1 DEF Exact
  <1>17. FreedOnce' BY <1>3 DEF Quiet, FreedOnce
  <1>18. StreamsOwn'
    <2>1. \A m \in Alive : /\ node'[m].kind = node[m].kind
                           /\ node[m].kind = "Stream" => node'[m].parts = node[m].parts
                           /\ node'[m].refs = node[m].refs
      BY <1>4, <1>9, <1>10, <1>13 DEF TableOK
    <2>2. \A i \in DOMAIN stack' : stack'[i].call # "destroy" BY <1>3 DEF Quiet
    <2>3. StreamsOwn /\ Alive' = Alive BY <1>14 DEF IInv
    <2> QED BY ONLY <2>1, <2>2, <2>3, StreamsStay
  <1> QED BY <1>1, <1>2, <1>12, <1>16, <1>17, <1>18 DEF IInv

\* Resolving a reference to an object counts the reference it keeps.
LEMMA ResolveObjectInv ==
    ASSUME IInv, NEW r \in NodeIds, NEW v \in Live, Resolve(r, v), node[v].kind = "Indirect",
           node' = [node EXCEPT ![r].parts = <<v>>, ![v].refs = @ + 1]
    PROVE  IInv'
  <1>1. Types /\ Exact /\ ~touched BY DEF IInv
  <1>2. Idle /\ Idle' /\ stack' = stack /\ touched' = touched /\ held' = held
    BY DEF Resolve, Idle
  <1>3. Quiet /\ Quiet' BY <1>2, IdleIsQuiet, IdleIsQuietNext
  <1>4. r \in Live /\ node[r].kind = "Reference" /\ node[r].parts = <<>> BY DEF Resolve
  <1>5. node[r] \in NodeRecords /\ Parts[r] = <<>> /\ node[v] \in NodeRecords
        /\ v \in NodeIds /\ r # v /\ node[v].refs \in Nat \ {0}
    BY <1>1, <1>4, LiveNode
  <1> DEFINE q == <<v>>
             k == node[v].refs + 1
             newR == [node[r] EXCEPT !.parts = q]
             newV == [node[v] EXCEPT !.refs = k]
  <1>6. q \in Seq(NodeIds \cup {Null}) /\ k \in Nat \ {0} BY <1>5
  <1>7. \A n \in NodeIds : Count(q, {n}) = IF v = n THEN 1 ELSE 0 BY CountOne
  <1>8. node' = [node EXCEPT ![r] = newR, ![v] = newV] BY <1>5
  <1>9. k = node[v].refs + 1 OBVIOUS
  <1> HIDE DEF q, k
  <1>10. newR \in NodeRecords /\ newR.kind = node[r].kind /\ newR.refs = node[r].refs
        /\ newR.parts = q /\ newR # Freed
    <2>1. PICK o : o = node[r] OBVIOUS
    <2>2. o \in NodeRecords BY ONLY <1>5, <2>1
    <2>3. [o EXCEPT !.parts = q] \in NodeRecords /\ [o EXCEPT !.parts = q] # Freed
          /\ [o EXCEPT !.parts = q].kind = o.kind /\ [o EXCEPT !.parts = q].refs = o.refs
          /\ [o EXCEPT !.parts = q].parts = q
      BY ONLY <1>6, <2>2, NodeSet
    <2> QED BY <2>1, <2>3
  <1>11. newV \in NodeRecords /\ newV.kind = node[v].kind /\ newV.refs = k
        /\ newV.parts = node[v].parts /\ newV # Freed
    BY <1>5, <1>6, NodeSet
  <1> HIDE DEF newR, newV
  <1>12. node'[r] = newR /\ node'[v] = newV /\ \A m \in NodeIds \ {r, v} : node'[m] = node[m]
    BY <1>1, <1>5, <1>8 DEF Types
  <1>13. Live' = Live BY <1>4, <1>10, <1>11, <1>12 DEF Live
  <1>14. Types' BY <1>1, <1>2, <1>8, <1>10, <1>11 DEF Types
  <1>15. TableOK /\ TableOK' BY <1>1, <1>14, Table, TableNext
  <1>16. Alive = Live /\ Alive' = Live BY <1>3, <1>13 DEF Quiet
  <1>17. Parts'[r] = q /\ \A m \in NodeIds \ {r} : Parts'[m] = Parts[m]
    <2>1. \A m \in NodeIds : /\ Parts[m] = IF m \in Live THEN node[m].parts ELSE <<>>
                             /\ Parts'[m] = IF m \in Live' THEN node'[m].parts ELSE <<>>
      BY DEF Parts
    <2>2. Parts'[r] = q BY ONLY <2>1, <1>4, <1>10, <1>12, <1>13, r \in NodeIds
    <2>3. Parts'[v] = Parts[v] BY ONLY <2>1, <1>5, <1>11, <1>12, <1>13
    <2>4. \A m \in NodeIds \ {r, v} : Parts'[m] = Parts[m] BY ONLY <2>1, <1>12, <1>13
    <2> QED BY ONLY <2>2, <2>3, <2>4
  <1>18. Exact'
    <2>1. ASSUME NEW n \in NodeIds
          PROVE  Owed(n)' = IF n \in Alive' THEN node'[n].refs ELSE 0
      <3>1. CountIn(Parts, Alive, {n})' = CountIn(Parts, Alive, {n}) + (IF v = n THEN 1 ELSE 0)
        <4>1. /\ r \in NodeIds /\ Alive' \ {r} = Alive \ {r}
              /\ \A m \in Alive \ {r} : Parts'[m] = Parts[m]
          BY <1>15, <1>16, <1>17 DEF TableOK
        <4>2. /\ CountIn(Parts, Alive, {n})' =
                  CountIn(Parts, Alive, {n})
                      - (IF r \in Alive THEN Count(Parts[r], {n}) ELSE 0)
                      + (IF r \in Alive' THEN Count(Parts'[r], {n}) ELSE 0)
              /\ CountIn(Parts, Alive, {n}) \in Nat
          BY ONLY <4>1, <1>15, OneNodeChanged
        <4>3. Count(Parts[r], {n}) = 0 /\ Count(Parts'[r], {n}) = IF v = n THEN 1 ELSE 0
          BY <1>5, <1>7, <1>17, CountEmpty
        <4>4. r \in Alive /\ r \in Alive' BY <1>4, <1>16
        <4> QED BY ONLY <4>2, <4>3, <4>4
      <3>2. Count(stack, CallsOn(n)) = 0 /\ Count(stack, CallsOn(n))' = 0
        BY <1>3 DEF Quiet
      <3>3. held[n] \in Nat /\ CountIn(Parts, Alive, {n}) \in Nat BY <1>1, OwnedIsAlive
      <3>4. Owed(n)' = Owed(n) + (IF v = n THEN 1 ELSE 0) BY <3>1, <3>2, <3>3, <1>2 DEF Owed
      <3>5. Owed(n) = IF n \in Alive THEN node[n].refs ELSE 0 BY <1>1 DEF Exact
      <3>6. node'[n].refs = IF n = v THEN node[v].refs + 1 ELSE node[n].refs
        <4>1. CASE n = v BY ONLY <4>1, <1>9, <1>11, <1>12
        <4>2. CASE n = r BY ONLY <4>2, <1>5, <1>10, <1>12
        <4>3. CASE n \notin {r, v} BY ONLY <4>3, <1>12, n \in NodeIds
        <4> QED BY <4>1, <4>2, <4>3
      <3>7. v \in Alive BY <1>16
      <3>8. CASE n = v BY <3>4, <3>5, <3>6, <3>7, <3>8, <1>16
      <3>9. CASE n # v
        <4>1. Owed(n) \in Nat BY <1>3, <3>3, <3>2 DEF Owed
        <4> QED BY <3>4, <3>5, <3>6, <3>9, <4>1, <1>16
      <3> QED BY <3>8, <3>9
    <2> QED BY <2>1 DEF Exact
  <1>19. FreedOnce' BY <1>3 DEF Quiet, FreedOnce
  <1>20. StreamsOwn'
    <2>1. ~Destroyable(v) BY <1>5 DEF IInv, StreamsOwn
    <2>2. \A m \in Alive : /\ node'[m].kind = node[m].kind
                           /\ node[m].kind = "Stream" => node'[m].parts = node[m].parts
                           /\ Destroyable(m) => node'[m].refs = node[m].refs
      BY <2>1, <1>4, <1>10, <1>11, <1>12, <1>15 DEF TableOK
    <2>3. \A i \in DOMAIN stack' : stack'[i].call # "destroy" BY <1>3 DEF Quiet
    <2>4. StreamsOwn /\ Alive' = Alive BY <1>16 DEF IInv
    <2> QED BY ONLY <2>2, <2>3, <2>4, StreamsStay
  <1> QED BY <1>1, <1>2, <1>14, <1>18, <1>19, <1>20 DEF IInv

\* What the client can name is alive: a node it may retain is not freed.
LEMMA ReachableIsLive ==
    ASSUME Types, Exact, Quiet, NEW n \in Reachable
    PROVE  n \in Live
  <1>1. Alive = Live BY DEF Quiet
  <1>2. Live \in Closed
    <2> SUFFICES ASSUME NEW m \in Live, NEW p \in PartsOf(m), p # Null PROVE p \in Live
      BY DEF Closed, Live
    <2>1. PICK i \in DOMAIN node[m].parts : p = node[m].parts[i] BY DEF PartsOf
    <2> QED BY <2>1, <1>1, PartIsAlive
  <1>3. ASSUME NEW m \in NodeIds, held[m] > 0 PROVE m \in Live
    <2>1. /\ held[m] \in Nat /\ CountIn(Parts, Alive, {m}) \in Nat
          /\ Count(stack, CallsOn(m)) \in Nat
          /\ Owed(m) = held[m] + CountIn(Parts, Alive, {m}) + Count(stack, CallsOn(m))
          /\ Owed(m) > 0 => m \in Alive
      BY OwnedIsAlive
    <2> QED BY ONLY <2>1, <1>1, <1>3
  <1> QED BY <1>2, <1>3 DEF Reachable

\* Retaining what the client can name counts its reference.
LEMMA RetainInv ==
    ASSUME IInv, ~ClientKeepsDict, NEW x \in NodeIds, Retain(x)
    PROVE  IInv'
  <1>1. Types /\ Exact /\ ~touched BY DEF IInv
  <1>2. Idle /\ Idle' /\ stack' = stack /\ held' = [held EXCEPT ![x] = held[x] + 1]
    BY DEF Retain, Idle
  <1>3. Quiet /\ Quiet' BY <1>2, IdleIsQuiet, IdleIsQuietNext
  <1>4. x \in Live BY <1>1, <1>3, ReachableIsLive DEF Retain
  <1>5. node[x] \in NodeRecords /\ node[x].refs \in Nat \ {0} BY <1>1, <1>4, LiveNode
  <1> DEFINE k == node[x].refs + 1
             new == [node[x] EXCEPT !.refs = k]
  <1>6. k \in Nat \ {0} /\ k = node[x].refs + 1 BY <1>5
  <1>7. node' = [node EXCEPT ![x] = new] /\ touched' = touched BY <1>4 DEF Retain
  <1> HIDE DEF k
  <1>8. new \in NodeRecords /\ new.kind = node[x].kind /\ new.refs = k
        /\ new.parts = node[x].parts /\ new # Freed
    BY <1>5, <1>6, NodeSet
  <1> HIDE DEF new
  <1>9. node'[x] = new /\ \A m \in NodeIds \ {x} : node'[m] = node[m]
    BY <1>1, <1>7 DEF Types
  <1>10. Live' = Live BY <1>4, <1>8, <1>9 DEF Live
  <1>11. Types' BY <1>1, <1>2, <1>7, <1>8 DEF Types
  <1>12. TableOK /\ TableOK' BY <1>1, <1>11, Table, TableNext
  <1>13. Alive = Live /\ Alive' = Live BY <1>3, <1>10 DEF Quiet
  <1>14. \A m \in NodeIds : Parts'[m] = Parts[m] BY <1>8, <1>9, <1>10 DEF Parts
  <1>15. Exact'
    <2>1. ASSUME NEW n \in NodeIds
          PROVE  Owed(n)' = IF n \in Alive' THEN node'[n].refs ELSE 0
      <3>1. CountIn(Parts', Alive', {n}) = CountIn(Parts, Alive, {n})
        <4>1. Alive' = Alive /\ \A m \in Alive : Parts'[m] = Parts[m]
          BY <1>12, <1>13, <1>14 DEF TableOK
        <4> QED BY ONLY <4>1, CountSame
      <3>2. CountIn(Parts, Alive, {n})' = CountIn(Parts, Alive, {n})
        BY <3>1 DEF CountIn, Places, Hits
      <3>3. Count(stack, CallsOn(n)) = 0 /\ Count(stack, CallsOn(n))' = 0
        BY <1>3 DEF Quiet
      <3>4. held[n] \in Nat /\ CountIn(Parts, Alive, {n}) \in Nat BY <1>1, OwnedIsAlive
      <3>5. held'[n] = held[n] + (IF n = x THEN 1 ELSE 0) BY <1>1, <1>2 DEF Types
      <3>6. Owed(n)' = Owed(n) + (IF n = x THEN 1 ELSE 0) /\ Owed(n) \in Nat
        BY <3>2, <3>3, <3>4, <3>5 DEF Owed
      <3>7. Owed(n) = IF n \in Alive THEN node[n].refs ELSE 0 BY <1>1 DEF Exact
      <3>8. node'[n].refs = IF n = x THEN node[x].refs + 1 ELSE node[n].refs
        BY <1>6, <1>8, <1>9
      <3>9. n = x => n \in Alive BY <1>4, <1>13
      <3>10. n \in Alive' <=> n \in Alive BY <1>13
      <3> QED BY ONLY <3>6, <3>7, <3>8, <3>9, <3>10
    <2> QED BY <2>1 DEF Exact
  <1>16. FreedOnce' BY <1>3 DEF Quiet, FreedOnce
  <1>17. StreamsOwn'
    <2>1. ~Destroyable(x)
      <3>1. ~StreamOwned(x) BY DEF Retain
      <3>2. ~ \E s \in Alive : /\ node[s].kind = "Stream"
                               /\ \E i \in DOMAIN node[s].parts : node[s].parts[i] = x
        BY <3>1, <1>13 DEF StreamOwned, PartsOf
      <3> QED BY <3>2, <1>3 DEF Destroyable, Quiet
    <2>2. \A m \in Alive : /\ node'[m].kind = node[m].kind
                           /\ node[m].kind = "Stream" => node'[m].parts = node[m].parts
                           /\ Destroyable(m) => node'[m].refs = node[m].refs
      BY <2>1, <1>8, <1>9, <1>12 DEF TableOK
    <2>3. \A i \in DOMAIN stack' : stack'[i].call # "destroy" BY <1>3 DEF Quiet
    <2>4. StreamsOwn /\ Alive' = Alive BY <1>13 DEF IInv
    <2> QED BY ONLY <2>2, <2>3, <2>4, StreamsStay
  <1> QED BY <1>1, <1>2, <1>7, <1>11, <1>15, <1>16, <1>17 DEF IInv

-----------------------------------------------------------------------------
\* What the first call leaves behind when it is taken off the stack.
LEMMA Popped ==
    ASSUME Types, stack # <<>>
    PROVE  /\ Head(stack) \in CallRecords /\ Head(stack) = stack[1] /\ 1 \in DOMAIN stack
           /\ Tail(stack) \in Seq(CallRecords)
           /\ \A i \in DOMAIN Tail(stack) : i + 1 \in DOMAIN stack /\ Tail(stack)[i] = stack[i + 1]
           /\ \A i \in DOMAIN stack : i # 1 => i - 1 \in DOMAIN Tail(stack)
                                               /\ Tail(stack)[i - 1] = stack[i]
           /\ \A n \in NodeIds :
                  Count(stack, CallsOn(n)) = Count(Tail(stack), CallsOn(n))
                      + (IF Head(stack).call # "free" /\ Head(stack).n = n THEN 1 ELSE 0)
  <1>1. stack \in Seq(CallRecords) BY DEF Types
  <1>2. Head(stack) \in CallRecords /\ Head(stack) = stack[1] /\ 1 \in DOMAIN stack
    BY <1>1
  <1>3. Tail(stack) \in Seq(CallRecords)
        /\ \A i \in DOMAIN Tail(stack) : i + 1 \in DOMAIN stack /\ Tail(stack)[i] = stack[i + 1]
    BY <1>1
  <1>4. \A i \in DOMAIN stack : i # 1 => i - 1 \in DOMAIN Tail(stack)
                                         /\ Tail(stack)[i - 1] = stack[i]
    BY <1>1
  <1>5. ASSUME NEW n \in NodeIds
        PROVE  Count(stack, CallsOn(n)) = Count(Tail(stack), CallsOn(n))
                   + (IF Head(stack).call # "free" /\ Head(stack).n = n THEN 1 ELSE 0)
    <2>1. Head(stack) \in CallsOn(n) <=> Head(stack).call # "free" /\ Head(stack).n = n
      BY <1>2 DEF CallsOn, CallRecords
    <2>2. Count(stack, CallsOn(n)) = Count(Tail(stack), CallsOn(n))
              + (IF Head(stack) \in CallsOn(n) THEN 1 ELSE 0)
      BY ONLY <1>1, stack # <<>>, CountTail
    <2> QED BY ONLY <2>1, <2>2
  <1> QED BY <1>2, <1>3, <1>4, <1>5

\* Everything that is owned is alive.
OwnersOfLive ==
    /\ \A m \in Alive : \A i \in DOMAIN node[m].parts :
           node[m].parts[i] # Null => node[m].parts[i] \in Alive
    /\ \A i \in DOMAIN stack :
           stack[i].call # "free" /\ stack[i].n # Null => stack[i].n \in Alive

\* With exact counts everything that is owned is alive.
LEMMA OwnedLives == Types /\ Exact => OwnersOfLive
  BY PartIsAlive, CalledIsAlive DEF OwnersOfLive

\* So it is after a step.
LEMMA OwnedLivesNext == Types' /\ Exact' => OwnersOfLive'
  BY OwnedLives, PTL

\* A call that has returned leaves nothing that was not there.
LEMMA PopKeepsStreams ==
    ASSUME StreamsOwn, stack' = Tail(stack), Types, stack # <<>>, Alive' = Alive,
           \A m \in Alive : /\ node'[m].kind = node[m].kind
                            /\ node'[m].parts = node[m].parts
                            /\ Destroyable(m)' => node'[m].refs = node[m].refs
    PROVE  StreamsOwn'
  <1> SUFFICES ASSUME NEW n \in NodeIds \cup {Null}, Destroyable(n)'
               PROVE  n \in Alive' /\ node'[n].kind = "Dict" /\ node'[n].refs = 1
    BY DEF StreamsOwn
  <1>1. Destroyable(n)
    <2>1. ASSUME NEW s \in Alive', node'[s].kind = "Stream",
                 \E i \in DOMAIN node'[s].parts : node'[s].parts[i] = n
          PROVE  Destroyable(n)
      BY <2>1 DEF Destroyable
    <2>2. ASSUME NEW i \in DOMAIN stack', stack'[i].call = "destroy", stack'[i].n = n
          PROVE  Destroyable(n)
      <3>1. i + 1 \in DOMAIN stack /\ stack[i + 1] = stack'[i] BY Popped
      <3> QED BY <2>2, <3>1 DEF Destroyable
    <2> QED BY <2>1, <2>2 DEF Destroyable
  <1>2. n \in Alive /\ node[n].kind = "Dict" /\ node[n].refs = 1 BY <1>1 DEF StreamsOwn
  <1> QED BY <1>2

\* A call for the null object does nothing.
LEMMA NullStepInv ==
    ASSUME IInv, stack # <<>>, Head(stack).n = Null, stack' = Tail(stack),
           UNCHANGED <<node, held, touched>>
    PROVE  IInv'
  <1>1. Types /\ Exact /\ ~touched /\ FreedOnce BY DEF IInv
  <1>2. Live' = Live BY DEF Live
  <1>3. Types' BY <1>1, Popped DEF Types
  <1>4. Head(stack).call # "free"
    <2>1. 1 \in DOMAIN stack /\ Head(stack) = stack[1] BY <1>1, Popped
    <2> QED BY <1>1, <2>1, NodeIdsAssumption DEF FreedOnce
  <1>5. Dying' = Dying
    <2>1. ASSUME NEW i \in DOMAIN stack', stack'[i].call = "free"
          PROVE  \E j \in DOMAIN stack : stack[j] = stack'[i]
      BY <1>1, Popped
    <2>2. ASSUME NEW i \in DOMAIN stack, stack[i].call = "free"
          PROVE  \E j \in DOMAIN stack' : stack'[j] = stack[i]
      BY <1>1, <1>4, <2>2, Popped
    <2> QED BY <2>1, <2>2 DEF Dying
  <1>6. Alive' = Alive BY <1>2, <1>5 DEF Alive
  <1>7. Parts' = Parts BY <1>2 DEF Parts
  <1>8. Exact'
    <2>1. ASSUME NEW n \in NodeIds
          PROVE  Owed(n)' = IF n \in Alive' THEN node'[n].refs ELSE 0
      <3>1. CountIn(Parts, Alive, {n})' = CountIn(Parts, Alive, {n})
        BY <1>6, <1>7 DEF CountIn, Places, Hits
      <3>2. Count(stack, CallsOn(n)) = Count(stack', CallsOn(n)) + 0
        BY <1>1, Popped, NodeIdsAssumption
      <3>3. Count(stack, CallsOn(n))' = Count(stack', CallsOn(n)) BY DEF Count, Hits, CallsOn
      <3>4. Count(stack', CallsOn(n)) \in Nat BY <1>3, HitsFinite DEF Types
      <3>5. Owed(n)' = Owed(n) BY <3>1, <3>2, <3>3, <3>4 DEF Owed
      <3>6. Owed(n) = IF n \in Alive THEN node[n].refs ELSE 0 BY <1>1 DEF Exact
      <3> QED BY <3>5, <3>6, <1>6
    <2> QED BY <2>1 DEF Exact
  <1>9. FreedOnce'
    <2>1. \A i \in DOMAIN stack' : i + 1 \in DOMAIN stack /\ stack'[i] = stack[i + 1] /\ i \in Int
      BY <1>1, Popped DEF Types
    <2> QED BY <1>1, <1>2, <1>5, <2>1 DEF FreedOnce
  <1>10. StreamsOwn' BY <1>1, <1>6, PopKeepsStreams DEF IInv
  <1> QED BY <1>1, <1>3, <1>8, <1>9, <1>10 DEF IInv

\* A release of one of several references counts it.
LEMMA DecrementInv ==
    ASSUME IInv, stack # <<>>, NEW x \in Live, Head(stack).n = x, Head(stack).call = "release",
           node[x].refs > 1, node' = [node EXCEPT ![x].refs = @ - 1], stack' = Tail(stack),
           UNCHANGED <<held, touched>>
    PROVE  IInv'
  <1>1. Types /\ Exact /\ ~touched /\ FreedOnce BY DEF IInv
  <1>2. node[x] \in NodeRecords /\ node[x].refs \in Nat \ {0} /\ x \in NodeIds
    BY <1>1, LiveNode
  <1> DEFINE k == node[x].refs - 1
             new == [node[x] EXCEPT !.refs = k]
  <1>3. k \in Nat \ {0} /\ k = node[x].refs - 1 BY <1>2
  <1>4. node' = [node EXCEPT ![x] = new] OBVIOUS
  <1> HIDE DEF k
  <1>5. new \in NodeRecords /\ new.kind = node[x].kind /\ new.refs = k
        /\ new.parts = node[x].parts /\ new # Freed
    BY <1>2, <1>3, NodeSet
  <1> HIDE DEF new
  <1>6. node'[x] = new /\ \A m \in NodeIds \ {x} : node'[m] = node[m]
    BY <1>1, <1>2, <1>4 DEF Types
  <1>7. Live' = Live BY <1>2, <1>5, <1>6 DEF Live
  <1>8. Types' BY ZenonT(30), <1>1, <1>4, <1>5, Popped DEF Types
  <1>9. Dying' = Dying
    <2>1. ASSUME NEW i \in DOMAIN stack', stack'[i].call = "free"
          PROVE  \E j \in DOMAIN stack : stack[j] = stack'[i]
      BY <1>1, Popped
    <2>2. ASSUME NEW i \in DOMAIN stack, stack[i].call = "free"
          PROVE  \E j \in DOMAIN stack' : stack'[j] = stack[i]
      BY <1>1, <2>2, Popped
    <2> QED BY <2>1, <2>2 DEF Dying
  <1>10. Alive' = Alive BY <1>7, <1>9 DEF Alive
  <1>11. \A m \in NodeIds : Parts'[m] = Parts[m] BY <1>5, <1>6, <1>7 DEF Parts
  <1>12. TableOK BY <1>1, Table
  <1>13. x \in Alive
    <2>1. 1 \in DOMAIN stack /\ Head(stack) = stack[1] BY <1>1, Popped
    <2>2. x # Null BY <1>2, NodeIdsAssumption
    <2> QED BY <1>1, <2>1, <2>2, CalledIsAlive
  <1>14. Exact'
    <2>1. ASSUME NEW n \in NodeIds
          PROVE  Owed(n)' = IF n \in Alive' THEN node'[n].refs ELSE 0
      <3>1. CountIn(Parts', Alive', {n}) = CountIn(Parts, Alive, {n})
        <4>1. Alive' = Alive /\ \A m \in Alive : Parts'[m] = Parts[m]
          BY <1>10, <1>11, <1>12 DEF TableOK
        <4> QED BY ONLY <4>1, CountSame
      <3>2. CountIn(Parts, Alive, {n})' = CountIn(Parts, Alive, {n})
        BY <3>1 DEF CountIn, Places, Hits
      <3>3. Count(stack, CallsOn(n)) = Count(stack', CallsOn(n)) + (IF n = x THEN 1 ELSE 0)
        BY <1>1, Popped
      <3>4. Count(stack, CallsOn(n))' = Count(stack', CallsOn(n)) BY DEF Count, Hits, CallsOn
      <3>5. Count(stack', CallsOn(n)) \in Nat BY <1>8, HitsFinite DEF Types
      <3>6. held'[n] \in Nat /\ held'[n] = held[n] /\ CountIn(Parts, Alive, {n}) \in Nat
        BY <1>1, OwnedIsAlive
      <3>7. Owed(n) = Owed(n)' + (IF n = x THEN 1 ELSE 0) /\ Owed(n)' \in Nat
        BY <3>2, <3>3, <3>4, <3>5, <3>6 DEF Owed
      <3>8. Owed(n) = IF n \in Alive THEN node[n].refs ELSE 0 BY <1>1 DEF Exact
      <3>9. node'[n].refs = IF n = x THEN node[x].refs - 1 ELSE node[n].refs
        BY <1>3, <1>5, <1>6
      <3>10. n \in Alive' <=> n \in Alive BY <1>10
      <3> QED BY ONLY <3>7, <3>8, <3>9, <3>10, <1>2, <1>13
    <2> QED BY <2>1 DEF Exact
  <1>15. FreedOnce'
    <2>1. \A i \in DOMAIN stack' : i + 1 \in DOMAIN stack /\ stack'[i] = stack[i + 1] /\ i \in Int
      BY <1>1, Popped DEF Types
    <2> QED BY <1>1, <1>7, <1>9, <2>1 DEF FreedOnce
  <1>16. StreamsOwn'
    <2>1. ~Destroyable(x) BY <1>2 DEF IInv, StreamsOwn
    <2>2. ~Destroyable(x)'
      <3>1. \A s \in Alive' : node'[s].kind = node[s].kind /\ node'[s].parts = node[s].parts
        BY <1>5, <1>6, <1>10, <1>12 DEF TableOK
      <3>2. \A i \in DOMAIN stack' : i + 1 \in DOMAIN stack /\ stack'[i] = stack[i + 1]
        BY <1>1, Popped
      <3> QED BY <2>1, <3>1, <3>2, <1>10 DEF Destroyable
    <2>3. \A m \in Alive : /\ node'[m].kind = node[m].kind
                           /\ node'[m].parts = node[m].parts
                           /\ Destroyable(m)' => node'[m].refs = node[m].refs
      BY <2>2, <1>5, <1>6, <1>12 DEF TableOK
    <2>4. StreamsOwn BY DEF IInv
    <2> QED BY ONLY <2>3, <2>4, <1>1, <1>10, stack # <<>>, stack' = Tail(stack), PopKeepsStreams
  <1> QED BY <1>1, <1>8, <1>14, <1>15, <1>16 DEF IInv

\* The calls of a deallocation own the references that the node had.
LEMMA DeallocOwns ==
    ASSUME Types, NEW x \in Live
    PROVE  /\ DeallocCalls(x) \in Seq(CallRecords)
           /\ Len(DeallocCalls(x)) = Len(node[x].parts) + 1
           /\ \A i \in 1 .. Len(node[x].parts) :
                  DeallocCalls(x)[i] =
                      [call |-> IF node[x].kind = "Stream" THEN "destroy" ELSE "release",
                       n |-> node[x].parts[i]]
           /\ DeallocCalls(x)[Len(node[x].parts) + 1] = [call |-> "free", n |-> x]
           /\ \A k \in NodeIds : Count(DeallocCalls(x), CallsOn(k)) = Count(Parts[x], {k})
  <1> DEFINE callOn == IF node[x].kind = "Stream" THEN "destroy" ELSE "release"
             a == [i \in DOMAIN node[x].parts |-> [call |-> callOn, n |-> node[x].parts[i]]]
             free == [call |-> "free", n |-> x]
  <1>1. node[x].parts \in Seq(NodeIds \cup {Null}) /\ Parts[x] = node[x].parts /\ x \in NodeIds
    BY LiveNode
  <1>2. callOn \in {"release", "destroy"} OBVIOUS
  <1>3. \A i \in DOMAIN node[x].parts : [call |-> callOn, n |-> node[x].parts[i]] \in CallRecords
    BY <1>1, <1>2 DEF CallRecords
  <1>4. a \in Seq(CallRecords) /\ Len(a) = Len(node[x].parts) /\ DOMAIN a = DOMAIN node[x].parts
    <2> DEFINE L == Len(node[x].parts)
    <2>1. L \in Nat /\ DOMAIN node[x].parts = 1 .. L BY ONLY <1>1
    <2>2. a \in [1 .. L -> CallRecords] BY ONLY <1>3, <2>1
    <2> HIDE DEF a, L
    <2>3. a \in Seq(CallRecords) /\ Len(a) = L /\ DOMAIN a = 1 .. L BY ONLY <2>1, <2>2
    <2> QED BY ONLY <2>1, <2>3 DEF L
  <1>5. <<free>> \in Seq(CallRecords) BY <1>1 DEF CallRecords
  <1>6. DeallocCalls(x) = a \o <<free>> BY DEF DeallocCalls
  <1>7. \A i \in DOMAIN node[x].parts : a[i] = [call |-> callOn, n |-> node[x].parts[i]] OBVIOUS
  <1>8. ASSUME NEW k \in NodeIds PROVE Count(a, CallsOn(k)) = Count(Parts[x], {k})
    <2>1. \A i \in DOMAIN node[x].parts : a[i] \in CallsOn(k) <=> node[x].parts[i] \in {k}
      BY <1>2, <1>7 DEF CallsOn
    <2>2. Hits(a, CallsOn(k)) = Hits(Parts[x], {k}) BY ONLY <2>1, <1>1, <1>4 DEF Hits
    <2> QED BY ONLY <2>2 DEF Count
  <1> HIDE DEF a
  <1>9. ASSUME NEW k \in NodeIds PROVE Count(DeallocCalls(x), CallsOn(k)) = Count(Parts[x], {k})
    <2>1. Count(a \o <<free>>, CallsOn(k)) = Count(a, CallsOn(k)) + Count(<<free>>, CallsOn(k))
      BY ONLY <1>4, <1>5, CountConcat
    <2>2. free \notin CallsOn(k) BY DEF CallsOn
    <2>3. Count(<<free>>, CallsOn(k)) = 0 BY ONLY <2>2, CountOne
    <2>4. Count(a, CallsOn(k)) \in Nat BY ONLY <1>4, HitsFinite
    <2> QED BY ONLY <2>1, <2>3, <2>4, <1>6, <1>8, k \in NodeIds
  <1>10. /\ Len(a \o <<free>>) = Len(node[x].parts) + 1
         /\ \A i \in 1 .. Len(node[x].parts) : (a \o <<free>>)[i] = a[i]
         /\ (a \o <<free>>)[Len(node[x].parts) + 1] = free
         /\ a \o <<free>> \in Seq(CallRecords)
    <2>1. Len(<<free>>) = 1 /\ <<free>>[1] = free OBVIOUS
    <2>2. Len(a) \in Nat BY ONLY <1>4
    <2> HIDE DEF free
    <2>3. /\ a \o <<free>> \in Seq(CallRecords)
          /\ Len(a \o <<free>>) = Len(a) + Len(<<free>>)
          /\ \A i \in 1 .. Len(a) + Len(<<free>>) :
                 (a \o <<free>>)[i] = IF i <= Len(a) THEN a[i] ELSE <<free>>[i - Len(a)]
      BY ONLY <1>4, <1>5, ConcatProperties
    <2> QED BY ONLY <2>1, <2>2, <2>3, <1>4
  <1>11. \A i \in 1 .. Len(node[x].parts) : i \in DOMAIN node[x].parts BY <1>1
  <1> QED BY ONLY <1>6, <1>7, <1>9, <1>10, <1>11

\* The calls after a deallocation has begun.
LEMMA DeallocStack ==
    ASSUME Types, stack # <<>>, NEW x \in Live, stack' = DeallocCalls(x) \o Tail(stack)
    PROVE  /\ stack' \in Seq(CallRecords)
           /\ \A i \in DOMAIN stack' :
                 \/ /\ i \in 1 .. Len(node[x].parts)
                    /\ stack'[i] = [call |-> IF node[x].kind = "Stream" THEN "destroy" ELSE "release",
                                    n |-> node[x].parts[i]]
                 \/ i = Len(node[x].parts) + 1 /\ stack'[i] = [call |-> "free", n |-> x]
                 \/ \E j \in DOMAIN stack :
                       j # 1 /\ stack'[i] = stack[j] /\ i = j + Len(node[x].parts)
           /\ \A j \in DOMAIN stack \ {1} : \E i \in DOMAIN stack' : stack'[i] = stack[j]
           /\ \E i \in DOMAIN stack' : stack'[i] = [call |-> "free", n |-> x]
           /\ \A k \in NodeIds :
                 Count(stack', CallsOn(k)) = Count(Parts[x], {k}) + Count(Tail(stack), CallsOn(k))
  <1> DEFINE d == DeallocCalls(x)
             t == Tail(stack)
             L == Len(node[x].parts)
  <1>1. /\ d \in Seq(CallRecords) /\ Len(d) = L + 1
        /\ \A i \in 1 .. L :
               d[i] = [call |-> IF node[x].kind = "Stream" THEN "destroy" ELSE "release",
                       n |-> node[x].parts[i]]
        /\ d[L + 1] = [call |-> "free", n |-> x]
        /\ \A k \in NodeIds : Count(d, CallsOn(k)) = Count(Parts[x], {k})
    BY DeallocOwns
  <1>2. /\ t \in Seq(CallRecords)
        /\ \A i \in DOMAIN t : i + 1 \in DOMAIN stack /\ t[i] = stack[i + 1]
        /\ \A i \in DOMAIN stack : i # 1 => i - 1 \in DOMAIN t /\ t[i - 1] = stack[i]
    BY Popped
  <1>3. L \in Nat
    <2>1. node[x].parts \in Seq(NodeIds \cup {Null}) BY LiveNode
    <2> QED BY <2>1
  <1>4. \A j \in DOMAIN stack \ {1} : j - 1 \in DOMAIN t /\ t[j - 1] = stack[j] /\ j \in Nat
    BY Popped DEF Types
  <1>5. stack' = d \o t OBVIOUS
  <1> HIDE DEF d, t, L
  <1>6. /\ d \o t \in Seq(CallRecords) /\ Len(d \o t) = Len(d) + Len(t)
        /\ \A i \in 1 .. Len(d) + Len(t) : (d \o t)[i] = IF i <= Len(d) THEN d[i] ELSE t[i - Len(d)]
    <2>1. d \in Seq(CallRecords) /\ t \in Seq(CallRecords) BY ONLY <1>1, <1>2
    <2> QED BY ONLY <2>1, ConcatProperties
  <1>7. DOMAIN stack' = 1 .. (L + 1) + Len(t) /\ DOMAIN t = 1 .. Len(t) /\ Len(t) \in Nat
    BY ONLY <1>1, <1>2, <1>5, <1>6
  <1>8. ASSUME NEW i \in DOMAIN stack'
        PROVE  \/ /\ i \in 1 .. L
                  /\ stack'[i] = [call |-> IF node[x].kind = "Stream" THEN "destroy" ELSE "release",
                                  n |-> node[x].parts[i]]
               \/ i = L + 1 /\ stack'[i] = [call |-> "free", n |-> x]
               \/ \E j \in DOMAIN stack : j # 1 /\ stack'[i] = stack[j] /\ i = j + L
    <2>1. stack'[i] = IF i <= L + 1 THEN d[i] ELSE t[i - (L + 1)]
      BY ONLY <1>1, <1>5, <1>6, <1>7, i \in DOMAIN stack'
    <2>2. CASE i \in 1 .. L BY <1>1, <1>3, <2>1, <2>2
    <2>3. CASE i = L + 1 BY <1>1, <1>3, <2>1, <2>3
    <2>4. CASE i > L + 1
      <3> DEFINE j == i - L
      <3>1. j - 1 = i - (L + 1) /\ j - 1 \in DOMAIN t /\ j # 1 /\ i = j + L /\ (j - 1) + 1 = j
        BY ONLY <1>3, <1>7, <2>4, i \in DOMAIN stack'
      <3> HIDE DEF j
      <3>2. (j - 1) + 1 \in DOMAIN stack /\ t[j - 1] = stack[(j - 1) + 1] BY ONLY <1>2, <3>1
      <3>3. j \in DOMAIN stack /\ stack'[i] = stack[j]
        BY ONLY <1>3, <2>1, <2>4, <3>1, <3>2, <1>7, i \in DOMAIN stack'
      <3> QED BY <3>1, <3>3
    <2>5. i \in Int /\ i >= 1 BY ONLY <1>3, <1>7, i \in DOMAIN stack'
    <2> QED BY ONLY <1>3, <2>2, <2>3, <2>4, <2>5
  <1>9. ASSUME NEW j \in DOMAIN stack \ {1} PROVE \E i \in DOMAIN stack' : stack'[i] = stack[j]
    <2>1. j - 1 \in DOMAIN t /\ t[j - 1] = stack[j] /\ j \in Nat BY ONLY <1>4, j \in DOMAIN stack \ {1}
    <2> DEFINE i == j + L
    <2>2. i \in 1 .. (L + 1) + Len(t) /\ ~(i <= L + 1) /\ i - (L + 1) = j - 1
      BY ONLY <2>1, <1>3, <1>7
    <2> HIDE DEF i
    <2>3. stack'[i] = t[j - 1] BY ONLY <2>2, <1>1, <1>5, <1>6
    <2> QED BY <2>1, <2>2, <2>3, <1>7
  <1>10. \E i \in DOMAIN stack' : stack'[i] = [call |-> "free", n |-> x]
    <2>1. L + 1 \in DOMAIN stack' BY ONLY <1>3, <1>7
    <2>2. stack'[L + 1] = d[L + 1] BY ONLY <2>1, <1>1, <1>3, <1>5, <1>6, <1>7
    <2> QED BY <2>1, <2>2, <1>1
  <1>11. ASSUME NEW k \in NodeIds
         PROVE  Count(stack', CallsOn(k)) = Count(Parts[x], {k}) + Count(t, CallsOn(k))
    <2>1. Count(d \o t, CallsOn(k)) = Count(d, CallsOn(k)) + Count(t, CallsOn(k))
      BY ONLY <1>1, <1>2, CountConcat
    <2> QED BY ONLY <2>1, <1>1, <1>5, k \in NodeIds
  <1>12. stack' \in Seq(CallRecords) BY ONLY <1>5, <1>6
  <1> QED BY ONLY <1>8, <1>9, <1>10, <1>11, <1>12 DEF L, t

\* The end of a node's life begins: its parts become calls on the stack.
LEMMA DeallocateInv ==
    ASSUME IInv, stack # <<>>, NEW x \in Live, Head(stack).n = x,
           Head(stack).call = "destroy" \/ (Head(stack).call = "release" /\ node[x].refs <= 1),
           stack' = DeallocCalls(x) \o Tail(stack), UNCHANGED <<node, held, touched>>
    PROVE  IInv'
  <1>1. Types /\ Exact /\ ~touched /\ FreedOnce /\ StreamsOwn BY DEF IInv
  <1>2. x \in NodeIds /\ node[x].refs \in Nat \ {0} /\ node[x].parts \in Seq(NodeIds \cup {Null})
    BY <1>1, LiveNode
  <1>3. 1 \in DOMAIN stack /\ Head(stack) = stack[1] /\ stack[1].call # "free" /\ stack[1].n = x
    BY <1>1, Popped
  <1>4. x \in Alive
    <2>1. x # Null BY <1>2, NodeIdsAssumption
    <2> QED BY <1>1, <1>3, <2>1, CalledIsAlive
  <1>5. node[x].refs = 1
    <2>1. CASE Head(stack).call = "destroy"
      <3>1. Destroyable(x) BY <1>3, <2>1 DEF Destroyable
      <3> QED BY <1>1, <1>2, <3>1 DEF StreamsOwn
    <2>2. CASE node[x].refs <= 1 BY SMTT(30), <1>2, <2>2
    <2> QED BY <2>1, <2>2
  <1>6. Live' = Live BY DEF Live
  <1>7. Parts' = Parts BY <1>6 DEF Parts
  <1> DEFINE L == Len(node[x].parts)
             callOn == IF node[x].kind = "Stream" THEN "destroy" ELSE "release"
  <1>8. /\ stack' \in Seq(CallRecords)
        /\ \A i \in DOMAIN stack' :
              \/ i \in 1 .. L /\ stack'[i] = [call |-> callOn, n |-> node[x].parts[i]]
              \/ i = L + 1 /\ stack'[i] = [call |-> "free", n |-> x]
              \/ \E j \in DOMAIN stack : j # 1 /\ stack'[i] = stack[j] /\ i = j + L
        /\ \A j \in DOMAIN stack \ {1} : \E i \in DOMAIN stack' : stack'[i] = stack[j]
        /\ \E i \in DOMAIN stack' : stack'[i] = [call |-> "free", n |-> x]
        /\ \A k \in NodeIds :
              Count(stack', CallsOn(k)) = Count(Parts[x], {k}) + Count(Tail(stack), CallsOn(k))
    BY <1>1, DeallocStack
  <1>9. Types' BY <1>1, <1>8 DEF Types
  <1>10. Dying' = Dying \cup {x}
    <2>1. ASSUME NEW i \in DOMAIN stack', stack'[i].call = "free"
          PROVE  stack'[i].n = x \/ \E j \in DOMAIN stack : stack[j] = stack'[i]
      <3>1. ~(stack'[i] = [call |-> callOn, n |-> node[x].parts[i]]) BY <2>1
      <3> HIDE DEF callOn, L
      <3> QED BY ONLY <1>8, <3>1, i \in DOMAIN stack'
    <2>2. ASSUME NEW j \in DOMAIN stack, stack[j].call = "free"
          PROVE  \E i \in DOMAIN stack' : stack'[i] = stack[j]
      BY <1>3, <1>8, <2>2
    <2>3. \E i \in DOMAIN stack' : stack'[i].call = "free" /\ stack'[i].n = x BY SMTT(30), <1>8
    <2>4. ASSUME NEW n \in Dying' PROVE n \in Dying \cup {x}
      <3>1. PICK i \in DOMAIN stack' : stack'[i].call = "free" /\ stack'[i].n = n BY DEF Dying
      <3>2. n \in NodeIds BY DEF Dying
      <3> QED BY ONLY <2>1, <3>1, <3>2 DEF Dying
    <2>5. ASSUME NEW n \in Dying PROVE n \in Dying'
      <3>1. PICK j \in DOMAIN stack : stack[j].call = "free" /\ stack[j].n = n BY DEF Dying
      <3>2. n \in NodeIds BY DEF Dying
      <3>3. \E i \in DOMAIN stack' : stack'[i] = stack[j] BY <2>2, <3>1
      <3> QED BY ONLY <3>1, <3>2, <3>3 DEF Dying
    <2>6. x \in Dying' BY <1>2, <2>3 DEF Dying
    <2> QED BY <2>4, <2>5, <2>6
  <1>11. Alive' = Alive \ {x} /\ x \notin Dying BY <1>4, <1>6, <1>10 DEF Alive
  <1>12. TableOK /\ TableOK' BY <1>1, <1>9, Table, TableNext
  <1>13. Exact'
    <2>1. ASSUME NEW n \in NodeIds
          PROVE  Owed(n)' = IF n \in Alive' THEN node'[n].refs ELSE 0
      <3>1. /\ CountIn(Parts, Alive, {n})' = CountIn(Parts, Alive, {n}) - Count(Parts[x], {n})
            /\ CountIn(Parts, Alive, {n}) \in Nat /\ CountIn(Parts, Alive, {n})' \in Nat
        <4>1. Alive' \ {x} = Alive \ {x} /\ \A m \in Alive \ {x} : Parts'[m] = Parts[m]
          BY <1>7, <1>11
        <4>2. /\ CountIn(Parts, Alive, {n})' =
                     CountIn(Parts, Alive, {n})
                         - (IF x \in Alive THEN Count(Parts[x], {n}) ELSE 0)
                         + (IF x \in Alive' THEN Count(Parts'[x], {n}) ELSE 0)
              /\ CountIn(Parts, Alive, {n}) \in Nat /\ CountIn(Parts, Alive, {n})' \in Nat
          BY ONLY <1>2, <1>12, <4>1, OneNodeChanged
        <4>3. Parts[x] \in Seq(NodeIds \cup {Null}) BY <1>2, <1>12 DEF TableOK
        <4>4. Count(Parts[x], {n}) \in Nat BY ONLY <4>3, HitsFinite
        <4>5. x \in Alive /\ x \notin Alive' BY <1>4, <1>11
        <4> QED BY ONLY <4>2, <4>4, <4>5
      <3>2. Count(stack', CallsOn(n)) = Count(Parts[x], {n}) + Count(Tail(stack), CallsOn(n))
        BY <1>8
      <3>3. Count(stack, CallsOn(n)) = Count(Tail(stack), CallsOn(n)) + (IF n = x THEN 1 ELSE 0)
        BY <1>1, Popped
      <3>4. Count(stack, CallsOn(n))' = Count(stack', CallsOn(n)) BY DEF Count, Hits, CallsOn
      <3>5. Count(stack', CallsOn(n)) \in Nat BY <1>9, HitsFinite DEF Types
      <3>6. Count(Tail(stack), CallsOn(n)) \in Nat BY <1>1, Popped, HitsFinite
      <3>7. Parts[x] \in Seq(NodeIds \cup {Null}) BY <1>2, <1>12 DEF TableOK
      <3>8. Count(Parts[x], {n}) \in Nat BY ONLY <3>7, HitsFinite
      <3>9. held'[n] = held[n] /\ held[n] \in Nat BY <1>1, OwnedIsAlive
      <3>10. Owed(n) = Owed(n)' + (IF n = x THEN 1 ELSE 0) /\ Owed(n)' \in Nat
        <4>1. Owed(n) = held[n] + CountIn(Parts, Alive, {n}) + Count(stack, CallsOn(n)) BY DEF Owed
        <4>2. Owed(n)' = held'[n] + CountIn(Parts, Alive, {n})' + Count(stack, CallsOn(n))'
          BY DEF Owed
        <4> QED BY ONLY <4>1, <4>2, <3>1, <3>2, <3>3, <3>4, <3>5, <3>6, <3>8, <3>9
      <3>11. Owed(n) = IF n \in Alive THEN node[n].refs ELSE 0 BY <1>1 DEF Exact
      <3>12. node'[n].refs = node[n].refs OBVIOUS
      <3>13. n \in Alive' <=> n \in Alive /\ n # x BY <1>11
      <3> QED BY ONLY <3>10, <3>11, <3>12, <3>13, <1>4, <1>5
    <2> QED BY <2>1 DEF Exact
  <1>14. FreedOnce'
    <2>1. Dying' \subseteq Live' BY <1>1, <1>6, <1>10 DEF FreedOnce
    <2>2. ASSUME NEW i \in DOMAIN stack', stack'[i].call = "free"
          PROVE  \/ i = L + 1 /\ stack'[i].n = x
                 \/ \E j \in DOMAIN stack : /\ stack'[i] = stack[j] /\ i = j + L
                                            /\ stack[j].n \in Dying /\ stack[j].n \in NodeIds
      <3>1. ~(stack'[i] = [call |-> callOn, n |-> node[x].parts[i]]) BY <2>2
      <3> HIDE DEF callOn, L
      <3>2. CASE i = L + 1 /\ stack'[i] = [call |-> "free", n |-> x] BY <3>2
      <3>3. ASSUME NEW j \in DOMAIN stack, stack'[i] = stack[j], i = j + L
            PROVE  /\ stack'[i] = stack[j] /\ i = j + L
                   /\ stack[j].n \in Dying /\ stack[j].n \in NodeIds
        BY <1>1, <2>2, <3>3 DEF FreedOnce, Dying
      <3> QED BY <1>8, <3>1, <3>2, <3>3
    <2> HIDE DEF L
    <2>3. ASSUME NEW i \in DOMAIN stack', NEW j \in DOMAIN stack',
                 stack'[i].call = "free", stack'[j].call = "free", i # j
          PROVE  stack'[i].n # stack'[j].n
      <3>1. \/ i = L + 1 /\ stack'[i].n = x
            \/ \E p \in DOMAIN stack : /\ stack'[i] = stack[p] /\ i = p + L
                                       /\ stack[p].n \in Dying /\ stack[p].n \in NodeIds
        BY <2>2, <2>3
      <3>2. \/ j = L + 1 /\ stack'[j].n = x
            \/ \E p \in DOMAIN stack : /\ stack'[j] = stack[p] /\ j = p + L
                                       /\ stack[p].n \in Dying /\ stack[p].n \in NodeIds
        BY <2>2, <2>3
      <3>3. ASSUME NEW p \in DOMAIN stack, NEW q \in DOMAIN stack,
                   stack'[i] = stack[p], i = p + L, stack'[j] = stack[q], j = q + L
            PROVE  stack'[i].n # stack'[j].n
        BY <1>1, <2>3, <3>3 DEF FreedOnce
      <3> QED BY ONLY <3>1, <3>2, <3>3, <1>11, i # j
    <2>4. ASSUME NEW i \in DOMAIN stack', stack'[i].call = "free" PROVE stack'[i].n \in NodeIds
      BY <1>2, <2>2, <2>4
    <2> QED BY ONLY <2>1, <2>3, <2>4 DEF FreedOnce
  <1>15. StreamsOwn'
    <2>1. OwnersOfLive' BY <1>9, <1>13, OwnedLivesNext
    <2>2. ASSUME NEW n \in NodeIds \cup {Null}, Destroyable(n)'
          PROVE  n \in Alive' /\ node'[n].kind = "Dict" /\ node'[n].refs = 1
      <3>1. CASE \E s \in Alive' : node'[s].kind = "Stream"
                                   /\ \E i \in DOMAIN node'[s].parts : node'[s].parts[i] = n
        <4>1. Destroyable(n) BY <3>1, <1>11 DEF Destroyable
        <4>2. n \in Alive /\ node[n].kind = "Dict" /\ node[n].refs = 1
          BY <1>1, <4>1 DEF StreamsOwn
        <4>3. n # Null BY <4>2, <1>12, NodeIdsAssumption DEF TableOK
        <4>4. n \in Alive' BY <2>1, <3>1, <4>3 DEF OwnersOfLive
        <4> QED BY <4>2, <4>4
      <3>2. ASSUME NEW i \in DOMAIN stack', stack'[i].call = "destroy", stack'[i].n = n
            PROVE  n \in Alive' /\ node'[n].kind = "Dict" /\ node'[n].refs = 1
        <4>1. Destroyable(n)
          <5>1. CASE i \in 1 .. L /\ stack'[i] = [call |-> callOn, n |-> node[x].parts[i]]
            <6>1. node[x].kind = "Stream" /\ n = node[x].parts[i] /\ i \in DOMAIN node[x].parts
              BY SMTT(30), <5>1, <3>2, <1>2
            <6> QED BY <6>1, <1>4 DEF Destroyable
          <5>2. ASSUME NEW j \in DOMAIN stack, stack'[i] = stack[j] PROVE Destroyable(n)
            BY <3>2, <5>2 DEF Destroyable
          <5>3. stack'[i] # [call |-> "free", n |-> x] BY <3>2
          <5> HIDE DEF callOn, L
          <5> QED BY <1>8, <5>1, <5>2, <5>3
        <4>2. n \in Alive /\ node[n].kind = "Dict" /\ node[n].refs = 1
          BY <1>1, <4>1 DEF StreamsOwn
        <4>3. n # Null BY <4>2, <1>12, NodeIdsAssumption DEF TableOK
        <4>4. stack'[i].call # "free" /\ stack'[i].n # Null BY <3>2, <4>3
        <4>5. stack'[i].n \in Alive' BY <2>1, <4>4 DEF OwnersOfLive
        <4> QED BY <3>2, <4>2, <4>5
      <3> QED BY <2>2, <3>1, <3>2 DEF Destroyable
    <2> QED BY <2>2 DEF StreamsOwn
  <1> QED BY <1>1, <1>9, <1>13, <1>14, <1>15 DEF IInv

\* The end of a node's life: nobody owns it, and its address is free.
LEMMA FreeInv ==
    ASSUME IInv, stack # <<>>, NEW x \in Live, Head(stack).n = x, Head(stack).call = "free",
           node' = [node EXCEPT ![x] = Freed], stack' = Tail(stack), UNCHANGED <<held, touched>>
    PROVE  IInv'
  <1>1. Types /\ Exact /\ ~touched /\ FreedOnce /\ StreamsOwn BY DEF IInv
  <1>2. x \in NodeIds BY <1>1, LiveNode
  <1>3. 1 \in DOMAIN stack /\ stack[1].call = "free" /\ stack[1].n = x
    BY <1>1, Popped
  <1>4. node'[x] = Freed /\ \A m \in NodeIds \ {x} : node'[m] = node[m]
    BY <1>1, <1>2 DEF Types
  <1>5. Live' = Live \ {x} BY <1>2, <1>4 DEF Live
  <1>6. Types' BY <1>1, Popped DEF Types
  <1>7. x \in Dying BY <1>2, <1>3 DEF Dying
  <1>8. \A i \in DOMAIN stack' : i + 1 \in DOMAIN stack /\ stack'[i] = stack[i + 1] /\ i \in Int
                                 /\ i >= 1
    <2>1. stack' \in Seq(CallRecords) BY <1>6 DEF Types
    <2>2. \A i \in DOMAIN stack' : i \in Int /\ i >= 1 BY <2>1
    <2> QED BY <1>1, <2>2, Popped
  <1>9. Dying' = Dying \ {x}
    <2>1. ASSUME NEW i \in DOMAIN stack', stack'[i].call = "free"
          PROVE  stack'[i].n # x /\ \E j \in DOMAIN stack : stack[j] = stack'[i]
      <3>1. i + 1 \in DOMAIN stack /\ stack'[i] = stack[i + 1] /\ i + 1 # 1 BY <1>8
      <3> QED BY <1>1, <1>3, <2>1, <3>1 DEF FreedOnce
    <2>2. ASSUME NEW j \in DOMAIN stack, stack[j].call = "free", stack[j].n # x
          PROVE  \E i \in DOMAIN stack' : stack'[i] = stack[j]
      BY <1>1, <1>3, <2>2, Popped
    <2> QED BY <2>1, <2>2 DEF Dying
  <1>10. Alive' = Alive /\ x \notin Alive BY <1>5, <1>7, <1>9 DEF Alive
  <1>11. TableOK BY <1>1, Table
  <1>12. \A m \in Alive : m # x /\ m \in NodeIds BY <1>10, <1>11 DEF TableOK
  <1>13. \A m \in Alive : Parts'[m] = Parts[m] /\ node'[m] = node[m]
    BY <1>4, <1>5, <1>12 DEF Parts
  <1>14. Exact'
    <2>1. ASSUME NEW n \in NodeIds
          PROVE  Owed(n)' = IF n \in Alive' THEN node'[n].refs ELSE 0
      <3>1. CountIn(Parts', Alive', {n}) = CountIn(Parts, Alive, {n})
        <4>1. Alive' = Alive /\ \A m \in Alive : Parts'[m] = Parts[m] BY <1>10, <1>13
        <4> QED BY ONLY <4>1, CountSame
      <3>2. CountIn(Parts, Alive, {n})' = CountIn(Parts, Alive, {n})
        BY <3>1 DEF CountIn, Places, Hits
      <3>3. Count(stack, CallsOn(n)) = Count(stack', CallsOn(n)) + 0 BY <1>1, Popped
      <3>4. Count(stack, CallsOn(n))' = Count(stack', CallsOn(n)) BY DEF Count, Hits, CallsOn
      <3>5. Count(stack', CallsOn(n)) \in Nat BY <1>6, HitsFinite DEF Types
      <3>6. Owed(n)' = Owed(n) BY <3>2, <3>3, <3>4, <3>5 DEF Owed
      <3>7. Owed(n) = IF n \in Alive THEN node[n].refs ELSE 0 BY <1>1 DEF Exact
      <3> QED BY <3>6, <3>7, <1>10, <1>13
    <2> QED BY <2>1 DEF Exact
  <1>15. FreedOnce'
    <2>1. Dying' \subseteq Live' BY <1>1, <1>5, <1>9 DEF FreedOnce
    <2> QED BY <1>1, <1>8, <2>1 DEF FreedOnce
  <1>16. StreamsOwn'
    <2>1. \A m \in Alive : /\ node'[m].kind = node[m].kind
                           /\ node'[m].parts = node[m].parts
                           /\ Destroyable(m)' => node'[m].refs = node[m].refs
      BY <1>13
    <2> QED BY ONLY <2>1, <1>1, <1>10, stack # <<>>, stack' = Tail(stack), PopKeepsStreams
  <1> QED BY <1>1, <1>6, <1>14, <1>15, <1>16 DEF IInv

\* Every call of a release in progress keeps the counts exact, and none uses a
\* node that is freed.
LEMMA ReleaseStepInv == IInv /\ ReleaseStep => IInv'
  <1> SUFFICES ASSUME IInv, ReleaseStep PROVE IInv' OBVIOUS
  <1> DEFINE x == Head(stack).n
  <1>1. stack # <<>> /\ held' = held /\ Types /\ Exact /\ FreedOnce BY DEF ReleaseStep, IInv
  <1>2. 1 \in DOMAIN stack /\ Head(stack) = stack[1] BY <1>1, Popped
  <1>3. x # Null => x \in Live
    <2>1. CASE Head(stack).call = "free" BY <1>1, <1>2, <2>1 DEF FreedOnce, Dying
    <2>2. CASE Head(stack).call # "free" BY <1>1, <1>2, <2>2, CalledIsAlive DEF Alive
    <2> QED BY <2>1, <2>2
  <1>4. CASE x = Null /\ stack' = Tail(stack) /\ UNCHANGED <<node, touched>>
    BY <1>1, <1>4, NullStepInv
  <1>5. CASE x # Null /\ x \notin Live BY <1>3, <1>5
  <1>6. CASE /\ x \in Live /\ Head(stack).call = "release" /\ node[x].refs > 1
             /\ node' = [node EXCEPT ![x].refs = @ - 1]
             /\ stack' = Tail(stack) /\ UNCHANGED touched
    BY <1>1, <1>6, DecrementInv
  <1>7. CASE /\ x \in Live
             /\ Head(stack).call = "destroy" \/ (Head(stack).call = "release" /\ node[x].refs <= 1)
             /\ stack' = DeallocCalls(x) \o Tail(stack) /\ UNCHANGED <<node, touched>>
    BY <1>1, <1>7, DeallocateInv
  <1>8. CASE /\ x \in Live /\ Head(stack).call = "free" /\ node' = [node EXCEPT ![x] = Freed]
             /\ stack' = Tail(stack) /\ UNCHANGED touched
    BY <1>1, <1>8, FreeInv
  <1> QED BY <1>4, <1>5, <1>6, <1>7, <1>8 DEF ReleaseStep

-----------------------------------------------------------------------------
\* Without nodes nobody owns anything.
LEMMA InitInv == Init => IInv
  <1> SUFFICES ASSUME Init PROVE IInv OBVIOUS
  <1>1. Types BY DEF Init, Types
  <1>2. Live = {} /\ Idle BY DEF Init, Live, Idle
  <1>3. Quiet BY <1>2, IdleIsQuiet
  <1>4. Alive = {} BY <1>2, <1>3 DEF Quiet
  <1>5. Exact
    <2>1. ASSUME NEW n \in NodeIds PROVE Owed(n) = 0
      <3>1. IsFiniteSet(Alive) /\ \A d \in Alive : Parts[d] \in Seq(NodeIds \cup {Null})
        BY <1>1, Table DEF TableOK
      <3>2. ~(CountIn(Parts, Alive, {n}) > 0)
        <4>1. CountIn(Parts, Alive, {n}) > 0
                  <=> \E d \in Alive : \E i \in DOMAIN Parts[d] : Parts[d][i] \in {n}
          BY ONLY <3>1, CountInPositive
        <4> QED BY ONLY <4>1, <1>4
      <3>3. CountIn(Parts, Alive, {n}) \in Nat BY ONLY <3>1, PlacesFinite
      <3>4. held[n] = 0 BY DEF Init
      <3>5. Count(stack, CallsOn(n)) = 0 BY <1>3 DEF Quiet
      <3> QED BY <3>2, <3>3, <3>4, <3>5 DEF Owed
    <2> QED BY <1>4, <2>1 DEF Exact
  <1>6. FreedOnce BY <1>3 DEF Quiet, FreedOnce
  <1>7. StreamsOwn BY <1>3, <1>4 DEF Quiet, StreamsOwn, Destroyable
  <1> QED BY <1>1, <1>5, <1>6, <1>7 DEF Init, IInv

\* A step that changes nothing keeps the invariant.
LEMMA StutterInv == IInv /\ UNCHANGED vars => IInv'
  <1> SUFFICES ASSUME IInv, UNCHANGED vars PROVE IInv' OBVIOUS
  <1>1. node' = node /\ held' = held /\ stack' = stack /\ touched' = touched BY DEF vars
  <1>2. Live' = Live /\ Dying' = Dying BY <1>1 DEF Live, Dying
  <1>3. Alive' = Alive /\ Parts' = Parts BY <1>1, <1>2 DEF Alive, Parts
  <1>4. ASSUME NEW n PROVE Owed(n)' = Owed(n)
    <2>1. CountIn(Parts, Alive, {n})' = CountIn(Parts, Alive, {n})
      BY <1>3 DEF CountIn, Places, Hits
    <2>2. Count(stack, CallsOn(n))' = Count(stack, CallsOn(n)) BY <1>1 DEF Count, Hits, CallsOn
    <2> QED BY <1>1, <2>1, <2>2 DEF Owed
  <1>5. Types' BY <1>1 DEF IInv, Types
  <1>6. Exact' BY <1>1, <1>3, <1>4 DEF IInv, Exact
  <1>7. FreedOnce' BY <1>1, <1>2 DEF IInv, FreedOnce
  <1>8. StreamsOwn' BY <1>1, <1>3 DEF IInv, StreamsOwn, Destroyable
  <1> QED BY <1>1, <1>5, <1>6, <1>7, <1>8 DEF IInv

\* Every step of the client and of the library keeps the counts exact.
LEMMA NextInv == ASSUME ~ClientKeepsDict PROVE IInv /\ [Next]_vars => IInv'
  <1> SUFFICES ASSUME IInv, [Next]_vars PROVE IInv' OBVIOUS
  <1>1. ASSUME NEW kind \in Kinds, Create(kind) PROVE IInv'
    <2>1. MayOwn(kind, <<>>, {}) BY <1>1 DEF Create, MayOwn
    <2> QED BY <1>1, <2>1, AllocateInv DEF Create
  <1>2. ASSUME NEW v \in NodeIds, CreateIndirect(v) PROVE IInv'
    <2>1. MayOwn("Indirect", <<v>>, {v}) BY <1>2 DEF CreateIndirect, MayOwn
    <2>2. "Indirect" \in Kinds BY DEF Kinds
    <2> QED BY <1>2, <2>1, <2>2, AllocateInv DEF CreateIndirect
  <1>3. ASSUME NEW v \in NodeIds, CreateStream(v) PROVE IInv'
    <2>1. MayOwn("Stream", <<v>>, {v}) BY <1>3 DEF CreateStream, MayOwn
    <2>2. "Stream" \in Kinds BY DEF Kinds
    <2> QED BY <1>3, <2>1, <2>2, AllocateInv DEF CreateStream
  <1>4. ASSUME NEW x \in NodeIds, Retain(x) PROVE IInv' BY <1>4, RetainInv
  <1>5. ASSUME NEW x \in NodeIds, Release(x) PROVE IInv' BY <1>5, ReleaseInv
  <1>6. ASSUME NEW c \in NodeIds, NEW part \in NodeIds \cup {Null}, Add(c, part) PROVE IInv'
    BY <1>6, AddInv
  <1>7. ASSUME NEW c \in NodeIds, NEW i \in 1 .. MaxParts, RemoveAt(c, i) PROVE IInv'
    BY <1>7, RemoveAtInv
  <1>8. ASSUME NEW r \in NodeIds, NEW v \in NodeIds \cup {Null}, Resolve(r, v) PROVE IInv'
    <2>1. CASE v = Null /\ node' = [node EXCEPT ![r].parts = <<Null>>]
      BY <1>8, <2>1, ResolveNullInv
    <2>2. CASE /\ v \in Live /\ node[v].kind = "Indirect"
               /\ node' = [node EXCEPT ![r].parts = <<v>>, ![v].refs = @ + 1]
      BY <1>8, <2>2, ResolveObjectInv
    <2> QED BY <1>8, <2>1, <2>2 DEF Resolve
  <1>9. CASE ReleaseStep BY <1>9, ReleaseStepInv
  <1>10. CASE UNCHANGED vars BY <1>10, StutterInv
  <1> QED BY <1>1, <1>2, <1>3, <1>4, <1>5, <1>6, <1>7, <1>8, <1>9, <1>10 DEF Next

\* The references the specification counts are the ones of the invariant.
LEMMA OwedToIsOwed == ASSUME Types, NEW n \in NodeIds PROVE OwedTo(n) = Owed(n)
  <1> DEFINE edges(m) == {m} \X {i \in DOMAIN node[m].parts : node[m].parts[i] = n}
             rows(m) == {m} \X Hits(Parts[m], {n})
  <1>1. ASSUME NEW m \in Alive PROVE edges(m) = rows(m)
    <2>1. Parts[m] = node[m].parts BY LiveNode DEF Alive
    <2>2. Hits(Parts[m], {n}) = {i \in DOMAIN node[m].parts : node[m].parts[i] = n}
      BY <2>1 DEF Hits
    <2> QED BY <2>2
  <1> HIDE DEF edges, rows
  <1>2. UNION {edges(m) : m \in Alive} = UNION {rows(m) : m \in Alive} BY <1>1
  <1>3. UNION {{m} \X {i \in DOMAIN node[m].parts : node[m].parts[i] = n} : m \in Live \ Dying}
            = Places(Parts, Alive, {n})
    BY <1>2 DEF edges, rows, Places, Alive
  <1>4. {i \in DOMAIN stack : stack[i].call /= "free" /\ stack[i].n = n} = Hits(stack, CallsOn(n))
    <2>1. ASSUME NEW i \in DOMAIN stack
          PROVE  stack[i].call /= "free" /\ stack[i].n = n <=> stack[i] \in CallsOn(n)
      <3>1. stack[i] \in CallRecords BY DEF Types
      <3> QED BY <3>1 DEF CallRecords, CallsOn
    <2> QED BY <2>1 DEF Hits
  <1> QED BY <1>3, <1>4 DEF OwedTo, Owed, CountIn, Count

\* The invariant says what the specification asks of the counts.
LEMMA InvExact == IInv => RefsExact
  <1> SUFFICES ASSUME IInv, NEW n \in Live \ Dying PROVE node[n].refs = OwedTo(n)
    BY DEF RefsExact
  <1>1. Types /\ Exact /\ n \in NodeIds /\ n \in Alive BY DEF IInv, Live, Alive
  <1> QED BY <1>1, OwedToIsOwed DEF Exact

\* What somebody owns is alive, as exact counts imply.
LEMMA InvSafe == IInv => NoUseAfterFree
  <1> SUFFICES ASSUME IInv PROVE NoUseAfterFree OBVIOUS
  <1>1. Types /\ Exact /\ ~touched BY DEF IInv
  <1>2. ASSUME NEW n \in NodeIds, held[n] > 0 PROVE n \in Live
    <2>1. /\ held[n] \in Nat /\ CountIn(Parts, Alive, {n}) \in Nat
          /\ Count(stack, CallsOn(n)) \in Nat
          /\ Owed(n) = held[n] + CountIn(Parts, Alive, {n}) + Count(stack, CallsOn(n))
          /\ Owed(n) > 0 => n \in Alive
      BY <1>1, OwnedIsAlive
    <2>2. n \in Alive BY ONLY <2>1, <1>2
    <2> QED BY <2>2 DEF Alive
  <1>3. ASSUME NEW n \in Live \ Dying PROVE PartsOf(n) \subseteq Live \cup {Null}
    <2>1. n \in Alive BY DEF Alive
    <2> QED BY <1>1, <2>1, PartIsAlive DEF PartsOf, Alive
  <1> QED BY <1>1, <1>2, <1>3 DEF NoUseAfterFree

\* A node that is alive when the client holds nothing has an owner: a node.
LEMMA InvNoLeak == IInv => OnlyCyclesLeak
  <1> SUFFICES ASSUME IInv, Idle, \A n \in NodeIds : held[n] = 0, NEW n \in Live
               PROVE  \E m \in Live : n \in PartsOf(m)
    BY DEF OnlyCyclesLeak
  <1>1. Types /\ Exact BY DEF IInv
  <1>2. Quiet BY IdleIsQuiet
  <1>3. n \in NodeIds /\ node[n].refs \in Nat \ {0} /\ n \in Alive
    BY <1>1, <1>2, LiveNode DEF Quiet
  <1>4. Owed(n) = node[n].refs /\ held[n] = 0 /\ Count(stack, CallsOn(n)) = 0
    BY <1>1, <1>2, <1>3 DEF Exact, Quiet
  <1>5. IsFiniteSet(Alive) /\ \A d \in Alive : Parts[d] \in Seq(NodeIds \cup {Null})
    BY <1>1, Table DEF TableOK
  <1>6. CountIn(Parts, Alive, {n}) \in Nat BY ONLY <1>5, PlacesFinite
  <1>7. CountIn(Parts, Alive, {n}) > 0 BY <1>3, <1>4, <1>6 DEF Owed
  <1>8. \E d \in Alive : \E i \in DOMAIN Parts[d] : Parts[d][i] \in {n}
    BY ONLY <1>5, <1>7, CountInPositive
  <1>9. PICK d \in Alive : \E i \in DOMAIN Parts[d] : Parts[d][i] \in {n} BY <1>8
  <1>10. d \in Live /\ Parts[d] = node[d].parts BY <1>1, <1>9, LiveNode DEF Alive
  <1> QED BY <1>9, <1>10 DEF PartsOf

\* The inductive invariant holds in every reachable state.
LEMMA Invariance == ASSUME ~ClientKeepsDict PROVE Spec => []IInv
  <1> QED BY InitInv, NextInv, PTL DEF Spec

\* For every number of addresses, every bound and every sequence of calls of
\* a client that does not keep a stream's dictionary: a node's count is the
\* number of references the client, other nodes and the pending calls of a
\* release cascade own (cos_obj_node_retain, cos_obj_node_release,
\* cos_obj_dealloc_).
THEOREM CountsAreExact == ASSUME ~ClientKeepsDict PROVE Spec => []RefsExact
  <1> QED BY Invariance, InvExact, PTL

\* No call of the library or the client uses a node after it was freed, also
\* not while a cascade takes down a graph that shares nodes with others.
THEOREM NothingFreedIsUsed == ASSUME ~ClientKeepsDict PROVE Spec => []NoUseAfterFree
  <1> QED BY Invariance, InvSafe, PTL

\* When the client has released what it held, a node that is left is part of
\* another node: only cycles through resolved references leak.
THEOREM OnlyCyclesAreLeft == ASSUME ~ClientKeepsDict PROVE Spec => []OnlyCyclesLeak
  <1> QED BY Invariance, InvNoLeak, PTL
=============================================================================
