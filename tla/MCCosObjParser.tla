--------------------------- MODULE MCCosObjParser ---------------------------
(***************************************************************************)
(* The parsers with files of every kind: objects nested in each other,     *)
(* written out from the trees they should be read as, and the ways they    *)
(* break off.                                                              *)
(***************************************************************************)
EXTENDS CosParsers

(* What is written, as cells, and the object it is. *)
LOCAL Written(cells, node) == [cells |-> cells, node |-> node]

LOCAL T(type) == <<Cell(type, 0)>>
LOCAL Cells(parts) == FlattenSeq([i \in DOMAIN parts |-> parts[i].cells])
LOCAL Trees(parts) == [i \in DOMAIN parts |-> parts[i].node]

LOCAL I(n) == Written(<<Cell("Integer", n)>>, Node("Integer", n))
LOCAL N(name) == Written(<<Cell("Name", name)>>, Node("Name", name))
LOCAL Ref(n) == Written(I(n).cells \o I(0).cells \o T("R"), Node("Ref", n))
LOCAL Arr(parts) ==
    Written(T("ArrayStart") \o Cells(parts) \o T("ArrayEnd"), ArrayNode(Trees(parts)))
LOCAL Pair(name, part) == Written(N(name).cells \o part.cells, Entry(name, part.node))
LOCAL Dict(pairs) ==
    Written(T("DictStart") \o Cells(pairs) \o T("DictEnd"), DictNode(Trees(pairs)))
LOCAL Data(n) == [i \in 1 .. n |-> Cell("data", 0)]
LOCAL Stream(dict, data) ==
    Written(dict.cells \o <<Cell("Stream", 0), Cell("data", 0)>> \o data \o T("EndStream"),
            Wrap("Stream", 0, dict.node))
LOCAL Def(n, part) ==
    Written(I(n).cells \o I(0).cells \o T("Obj") \o part.cells \o T("EndObj"),
            Wrap("Def", n, part.node))

(* What is no object, or is not read as one. *)
LOCAL Stray(type) == Written(T(type), Node(type, 0))
LOCAL Spaced(part) == Written(part.cells \o T("eol"), part.node)

LOCAL Start(parts, i) == 1 + Len(Cells(SubSeq(parts, 1, i - 1)))

(* A file of objects; the first "good" of them are well-formed. *)
LOCAL File(good, parts) ==
    [tokens  |-> FileOf(Cells(parts)),
     objects |-> <<>>, ownStream |-> TRUE, seekPastEnd |-> FALSE,
     trees   |-> [p \in {Start(parts, i) : i \in 1 .. good} |->
                     LET i == CHOOSE i \in 1 .. good : Start(parts, i) = p
                     IN  [node |-> parts[i].node, next |-> Start(parts, i + 1)]]]

LOCAL Twice ==
    LET first == Pair("A", I(5)) second == Pair("A", Arr(<<I(6)>>)) other == Pair("B", N("C"))
    IN  Written(Dict(<<first, other, second>>).cells, Dict(<<second, other>>).node)

WellFormed ==
    { File(4, <<Def(1, Arr(<<I(5), I(6), N("A"), Spaced(Ref(1)), Arr(<<>>)>>)), I(7), I(8), N("B")>>),
      File(2, <<Twice, I(4)>>),
      File(2, <<Dict(<<Pair("B", Dict(<<Pair("A", Ref(1)), Pair("B", I(3))>>))>>),
                Def(2, I(1)), Stray("EndObj")>>),
      File(2, <<Def(1, Stream(Dict(<<Pair("Length", I(2)), Pair("A", I(3))>>), Data(2))), I(4)>>),
      File(2, <<Stream(Dict(<<Pair("Length", I(1))>>), T("eol")), Def(2, I(9))>>) }

Broken ==
    { File(0, <<Arr(<<I(5), Stray("Bool")>>), N("A")>>),
      File(0, <<Def(1, Dict(<<Pair("A", I(2)), Pair("B", Stray("Null")), I(5)>>))>>),
      File(0, <<Def(1, Dict(<<N("A")>>)), Stray("Real")>>),
      File(0, <<Dict(<<I(2), N("B")>>), N("A")>>),
      File(0, <<Stray("ArrayStart"), N("A"), Stray("DictStart"), N("B")>>),
      File(0, <<Arr(<<Dict(<<Pair("A", Arr(<<I(1), Stray("broken"), I(2)>>))>>)>>)>>),
      File(0, <<Stream(Dict(<<Pair("A", I(1))>>), Data(1))>>),
      File(0, <<Arr(<<Stream(Dict(<<Pair("Length", I(9))>>), T("eol"))>>)>>),
      File(0, <<Stream(Dict(<<Pair("Length", Ref(3))>>), <<>>), I(1), I(0), Stray("Obj")>>),
      \* Lengths that lead back: to the key, the stream, the array around it, the stream.
      File(0, <<Dict(<<Pair("A", Stream(Dict(<<Pair("Length", I(-7))>>), <<>>))>>)>>),
      File(0, <<Arr(<<Stream(Dict(<<Pair("Length", I(-6))>>), T("eol"))>>)>>),
      File(0, <<Arr(<<Stream(Dict(<<Pair("Length", I(-7))>>), T("eol"))>>)>>),
      File(0, <<Stream(Dict(<<Pair("Length", I(-6))>>), <<>>), N("A")>>),
      File(0, <<Stray("Null"), Stray("Real"), Stray("String")>>),
      File(0, <<I(1), I(2), Ref(3), Stray("Obj")>>) }

(* Objects that are loaded while others are read: the parser of a document. *)
LOCAL SharedParts ==
    <<Def(1, I(4)),
      Def(2, Stream(Dict(<<Pair("Length", Ref(1))>>), Data(4))),
      Def(3, Arr(<<Stream(Dict(<<Pair("Length", Ref(2))>>), <<>>), N("A")>>)),
      I(6), Def(4, Dict(<<Pair("A", Ref(9))>>)), Def(5, Dict(<<N("B")>>))>>

Shared ==
    { [File(1, SharedParts) EXCEPT
          !.objects = <<Start(SharedParts, 1), Start(SharedParts, 2), Start(SharedParts, 3),
                        Start(SharedParts, 5), Start(SharedParts, 6), 99>>,
          !.ownStream = FALSE, !.seekPastEnd = TRUE] }

MCFiles == WellFormed \cup Broken \cup Shared

-----------------------------------------------------------------------------
(* More tokens than the window holds, no token at all, and a place in the  *)
(* middle where reading fails.                                             *)

MCWindowFiles == {FileOf(text) : text \in
    { <<>>,
      T("eol") \o T("eol"),
      T("Integer") \o T("Integer") \o T("R") \o T("eol") \o T("Name") \o T("ArrayEnd"),
      T("eol") \o T("Name") \o T("eol") \o T("data") \o T("Integer") \o T("eol"),
      T("Integer") \o T("eol") \o T("Real") \o T("broken") \o T("Name") \o T("EndObj") }}
=============================================================================
