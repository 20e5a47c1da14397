------------------------------ MODULE MCCosDoc ------------------------------
(***************************************************************************)
(* Files for CosDoc: objects that refer to each other, an object number 0  *)
(* that is in use, two numbers at one offset with a root of the wrong      *)
(* generation, and streams whose Length is direct, a reference, or a       *)
(* reference to another stream.                                            *)
(***************************************************************************)
EXTENDS CosDoc, TLC

CONSTANTS a, b, c

MCOffsets == {a, b, c}
MCNodeIds == 1..7

At(o) == [type |-> "inUse", gen |-> 0, at |-> o]
NotInUse(t) == [type |-> t]
Bad == [kind |-> "none"]
Plain(refs) == [kind |-> "plain", refs |-> refs]
Stream(length) == [kind |-> "stream", length |-> length]
Id(k) == <<k, 0>>

File(e0, e1, e2, oa, ob, oc, root) ==
    [xref |-> (0 :> e0 @@ 1 :> e1 @@ 2 :> e2),
     object |-> (a :> oa @@ b :> ob @@ c :> oc),
     root |-> root]

Cycle  == File(NotInUse("free"), At(a), At(b), Plain(<<Id(2)>>), Plain(<<Id(1)>>), Bad, Id(1))
Zero   == File(At(a), At(b), NotInUse("free"), Plain(<<>>), Plain(<<Id(0), Id(0)>>), Bad, Id(1))
Shared == File(NotInUse("absent"), At(a), At(a), Plain(<<Id(0)>>), Bad, Bad, <<1, 1>>)
Broken == File(NotInUse("compressed"), At(c), At(a), Plain(<<Id(1), Id(2)>>), Bad, Bad, Id(2))
Length == File(NotInUse("free"), At(a), At(b), Stream(Id(2)), Plain(<<Id(1)>>), Bad, Id(2))
Nested == File(At(c), At(a), At(b), Stream(Id(2)), Stream(Id(0)), Plain(<<>>), Id(0))
Direct == File(NotInUse("free"), At(a), At(b), Stream(None), Plain(<<Id(1), Id(2)>>), Bad, Id(2))

MCFiles == {Cycle, Zero, Shared, Broken, Length, Nested, Direct}
=============================================================================
