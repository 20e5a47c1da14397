---------------------------- MODULE CosObjParser ----------------------------
(***************************************************************************)
(* src/parse/CosObjParser.c: objects from tokens, by recursive descent.    *)
(* The C call stack is explicit, one frame for each client call, array,    *)
(* dictionary, indirect definition and stream that is being read.          *)
(*                                                                         *)
(* Objects are trees, and "size" is the number of nodes a tree owns.       *)
(* Allocations do not fail.  A parser has a stream of its own, or shares a *)
(* tokenizer and has none: the object parser of a document does the latter *)
(* and is loaded from (cos_parser_load_object), also while it is at work.  *)
(***************************************************************************)
EXTENDS CosTokens, FiniteSets, SequencesExt

CONSTANTS
    Files,        \* [tokens: see IsFile, objects: object number -> place,
                  \*  trees: place -> the object that is written there,
                  \*  ownStream: the parser has an input stream,
                  \*  seekPastEnd: a seek behind the end succeeds, as in a file]
    MaxCalls,     \* bound: calls of the client
    MaxNodes      \* bound: nodes that are there when a negative Length is followed

ASSUME FilesAssumption ==
    /\ \A f \in Files : /\ IsFile(f.tokens) /\ f.objects \in Seq(Int)
                        /\ f.ownStream \in BOOLEAN /\ f.seekPastEnd \in BOOLEAN
    /\ MaxCalls \in Nat /\ MaxNodes \in Nat

VARIABLES
    file,
    window,    \* tokenizer and token_buffer
    stack,     \* the calls under way, the innermost first
    ctl,       \* what happens next to the innermost call
    ret,       \* the result that goes to the innermost call
    peeked,    \* peeked_node
    live,      \* the number of nodes that are allocated
    got,       \* of these, how many the clients own
    lost,      \* of these, how many nobody owns
    calls

vars == <<file, window, stack, ctl, ret, peeked, live, got, lost, calls>>

(* A NULL object: nobody has to release it. *)
NoNode == [type |-> "NULL", size |-> 0]

Node(type, value) == [type |-> type, value |-> value, kids |-> <<>>, size |-> 1]

SumOf(numbers) == FoldLeft(LAMBDA m, n : m + n, 0, numbers)

SizeOf(nodes) == SumOf([i \in DOMAIN nodes |-> nodes[i].size])

ArrayNode(elements) ==
    [type |-> "Array", value |-> 0, kids |-> elements, size |-> 1 + SizeOf(elements)]

(* The parts of a dictionary are its values; "key" names them. *)
DictNode(entries) ==
    [type |-> "Dict", value |-> 0, kids |-> entries,
     size |-> 1 + Len(entries) + SizeOf(entries)]

Wrap(type, value, node) ==
    [type |-> type, value |-> value, kids |-> <<node>>, size |-> 1 + node.size]

Entry(key, node) ==
    [type |-> node.type, value |-> node.value, kids |-> node.kids,
     size |-> node.size, key |-> key]

Frame(call, value) == [call |-> call, value |-> value, kids |-> <<>>, key |-> NoNode]

Top == Head(stack)

Init ==
    /\ file \in Files
    /\ window = Window(1)
    /\ stack = <<>> /\ ctl = "idle" /\ ret = NoNode /\ peeked = NoNode
    /\ live = 0 /\ got = 0 /\ lost = 0 /\ calls = 0

-----------------------------------------------------------------------------
(* Contexts *)

Direct == {"Bool", "Int", "Real", "String", "Name", "Array", "Dict", "Null"}

Context(frame) ==
    CASE frame.call \in {"next", "peek", "load"} -> {"IndirectDef"}
      [] frame.call = "def" -> Direct \cup {"Stream"}
      [] frame.call = "dict" /\ frame.key = NoNode -> {"Name"}
      [] OTHER -> Direct \cup {"IndirectRef"}

Allowed(flag) == flag \in Context(Top)

-----------------------------------------------------------------------------
(* Calls and returns *)

(* The handler of an object without parts is done. *)
Return(node, w) ==
    /\ ctl' = "return" /\ ret' = node /\ window' = w
    /\ UNCHANGED <<stack, peeked, got, lost>>

Descend(frame, then, w) ==
    /\ stack' = <<frame>> \o stack
    /\ ctl' = then /\ window' = w
    /\ UNCHANGED <<ret, peeked, live, got, lost>>

(* cos_obj_parser_next_object and cos_obj_parser_peek_object: a node that  *)
(* was peeked is handed over.  cos_obj_parser_has_next_object is a peek.   *)
Begin(call, w) ==
    IF peeked = NoNode THEN Descend(Frame(call, Unread(w)), "parse", w)
    ELSE /\ window' = w
         /\ ctl' = IF call = "load" THEN "seek" ELSE "idle"
         /\ peeked' = IF call = "peek" THEN peeked ELSE NoNode
         /\ got' = IF call = "peek" THEN got ELSE got + peeked.size
         /\ UNCHANGED <<stack, ret, live, lost>>

Client ==
    /\ ctl = "idle" /\ calls < MaxCalls
    /\ calls' = calls + 1
    /\ UNCHANGED file

NextObject == Client /\ Begin("next", window)

PeekObject == Client /\ Begin("peek", window)

OwnStream == file.ownStream

CanSeek(pos) == pos >= 1 /\ (pos <= Len(file.tokens) \/ file.seekPastEnd)

(* A read behind the end is one at the end. *)
Place(pos) == IF pos > Len(file.tokens) THEN Len(file.tokens) ELSE pos

(* cos_parser_load_object; the object parser flushes its tokens. *)
LoadObject(num) ==
    /\ ~OwnStream /\ CanSeek(file.objects[num])
    /\ Client /\ Begin("next", Moved(window, Place(file.objects[num])))

(* cos_obj_parser_destroy *)
Destroy ==
    /\ ctl = "idle"
    /\ ctl' = "destroyed"
    /\ peeked' = NoNode
    /\ live' = IF peeked = NoNode THEN live ELSE live - peeked.size
    /\ window' = [window EXCEPT !.buffer = <<>>]
    /\ UNCHANGED <<file, stack, ret, got, lost, calls>>

ReturnToClient ==
    /\ ctl = "return" /\ Top.call \in {"next", "peek", "load"}
    /\ stack' = Tail(stack)
    /\ ctl' = IF Top.call = "load" THEN "seek" ELSE "idle"
    /\ ret' = NoNode
    /\ peeked' = IF Top.call = "peek" THEN ret ELSE peeked
    /\ got' = IF Top.call = "peek" \/ ret = NoNode THEN got ELSE got + ret.size
    /\ UNCHANGED <<window, live, lost>>

-----------------------------------------------------------------------------
(* cos_next_object_ and the objects that have no parts *)

Ahead(lookahead) == Filled(file.tokens, window, lookahead)
Is(w, lookahead, type) == Peeked(w, lookahead) # NoToken /\ Peeked(w, lookahead).type = type
NextIs(types) == \E type \in types : Is(Ahead(0), 0, type)

(* Mutant: one of the calls that advance is missing. *)
ConsumedShort(w, n) == [w EXCEPT !.buffer = SubSeq(@, n, Len(@))]

Consumed(w, n) == [w EXCEPT !.buffer = SubSeq(@, n + 1, Len(@))]

ReturnNew(node, w) == Return(node, w) /\ live' = live + node.size
ReturnNull(w) == Return(NoNode, w) /\ UNCHANGED live

(* A token that starts no object; strings end up here, because their token  *)
(* would have to be a literal and a hexadecimal string at once.            *)
ParseUnexpected ==
    /\ ~NextIs({"Name", "Integer", "Real", "ArrayStart", "DictStart", "Bool", "Null"})
    /\ ReturnNull(Ahead(0))

ParseName ==
    /\ NextIs({"Name"})
    /\ ReturnNew(Node("Name", Ahead(0).buffer[1].value), Advanced(Ahead(0)))

ParseReal ==
    /\ NextIs({"Real"})
    /\ IF Allowed("Real") THEN ReturnNull(Ahead(0))
       ELSE ReturnNew(Node("Real", Ahead(0).buffer[1].value), Advanced(Ahead(0)))

ParseBool ==
    /\ NextIs({"Bool"})
    /\ IF Allowed("Bool") THEN ReturnNull(Ahead(0))
       ELSE ReturnNew(Node("Bool", Ahead(0).buffer[1].value), Ahead(0))

(* The null object is not allocated. *)
ParseNull ==
    /\ NextIs({"Null"})
    /\ IF Allowed("Null") THEN ReturnNull(Ahead(0))
       ELSE ReturnNew([Node("Null", 0) EXCEPT !.size = 0], Ahead(0))

TwoIntegers == NextIs({"Integer"}) /\ Is(Ahead(1), 1, "Integer")

ParseInteger ==
    LET w == IF TwoIntegers THEN Ahead(2) ELSE Ahead(1)
    IN  /\ NextIs({"Integer"})
        /\ ~(TwoIntegers /\ (Is(w, 2, "R") \/ Is(w, 2, "Obj")))
        /\ ReturnNew(Node("Integer", w.buffer[1].value), Advanced(w))

ParseIndirectRef ==
    /\ TwoIntegers /\ Is(Ahead(2), 2, "R")
    /\ IF Allowed("IndirectRef")
         THEN ReturnNew(Node("Ref", Ahead(2).buffer[1].value), Consumed(Ahead(2), 3))
         ELSE ReturnNull(Ahead(2))

ParseIndirectDef ==
    /\ TwoIntegers /\ Is(Ahead(2), 2, "Obj")
    /\ IF Allowed("IndirectDef")
         THEN Descend(Frame("def", Ahead(2).buffer[1].value), "parse", Consumed(Ahead(2), 3))
         ELSE ReturnNull(Ahead(2))

(* cos_handle_indirect_def_ after the call for its object. *)
FinishIndirectDef ==
    /\ ctl = "return" /\ Top.call = "def"
    /\ stack' = Tail(stack)
    /\ IF ret = NoNode THEN UNCHANGED <<ret, window, live>>
       ELSE /\ ret' = Wrap("Def", Top.value, ret)
            /\ window' = IF NextIs({"EndObj"}) THEN Advanced(Ahead(0)) ELSE Ahead(0)
            /\ live' = live + 1
    /\ UNCHANGED <<ctl, peeked, got, lost>>

-----------------------------------------------------------------------------
(* Arrays and dictionaries *)

ParseArray == NextIs({"ArrayStart"}) /\ Descend(Frame("array", 0), "loop", Advanced(Ahead(0)))

ParseDict == NextIs({"DictStart"}) /\ Descend(Frame("dict", 0), "loop", Advanced(Ahead(0)))

EndOf(call) == IF call = "array" THEN "ArrayEnd" ELSE "DictEnd"

(* One turn of the loop, up to the call for an element or for a key. *)
Loop ==
    /\ ctl = "loop"
    /\ \/ /\ NextIs({EndOf(Top.call)})
          /\ ctl' = "finish" /\ window' = Advanced(Ahead(0))
       \/ /\ Peeked(Ahead(0), 0) = NoToken
          /\ ctl' = "finish" /\ window' = Ahead(0)
       \/ /\ Peeked(Ahead(0), 0) # NoToken /\ ~NextIs({EndOf(Top.call)})
          /\ ctl' = "parse" /\ window' = Ahead(0)
    /\ UNCHANGED <<stack, ret, peeked, live, got, lost>>

(* Mutant: an element that fails is skipped, and the loop goes on. *)
OnFailureSkipped == "loop"

(* An element that fails ends the loop, and the array is returned as it is. *)
OnFailure == "finish"

Replace(frame, then) ==
    /\ stack' = <<frame>> \o Tail(stack)
    /\ ctl' = then /\ ret' = NoNode
    /\ UNCHANGED <<window, peeked, got>>

AddElement ==
    /\ ctl = "return" /\ Top.call = "array"
    /\ IF ret = NoNode THEN Replace(Top, OnFailure)
       ELSE Replace([Top EXCEPT !.kids = Append(@, ret)], "loop")
    /\ UNCHANGED <<live, lost>>

AddKey ==
    /\ ctl = "return" /\ Top.call = "dict" /\ Top.key = NoNode
    /\ IF ret = NoNode THEN Replace(Top, OnFailure)
       ELSE Replace([Top EXCEPT !.key = ret], "parse")
    /\ UNCHANGED <<live, lost>>

(* Mutant: the key of an entry without a value is forgotten.               *)
KeyReleasedNever(frame) == 0
KeyReleased(frame) == frame.key.size

(* cos_dict_set: a key that is there already gets the new key and value,   *)
(* and the old ones are not released.  A key that is no name is treated as *)
(* one (CosDictObjNode.c:24-45): what follows is undefined, and the model  *)
(* ends there.                                                             *)
AddValue ==
    /\ ctl = "return" /\ Top.call = "dict" /\ Top.key # NoNode
    /\ LET done == [Top EXCEPT !.key = NoNode]
           entry == Entry(Top.key.value, ret)
           same == {i \in DOMAIN Top.kids : Top.kids[i].key = Top.key.value}
       IN  IF ret = NoNode
             THEN /\ Replace(done, OnFailure)
                  /\ live' = live - KeyReleased(Top)
                  /\ UNCHANGED lost
           ELSE IF Top.key.type # "Name"
             THEN ctl' = "undefined" /\ UNCHANGED <<window, stack, ret, peeked, live, got, lost>>
           ELSE IF same = {}
             THEN Replace([done EXCEPT !.kids = Append(@, entry)], "loop") /\ UNCHANGED <<live, lost>>
             ELSE LET i == CHOOSE i \in same : TRUE
                  IN  /\ Replace([done EXCEPT !.kids[i] = entry], "loop")
                      /\ lost' = lost + 1 + Top.kids[i].size
                      /\ UNCHANGED live

FinishArray ==
    /\ ctl = "finish" /\ Top.call = "array"
    /\ stack' = Tail(stack)
    /\ ctl' = "return" /\ ret' = ArrayNode(Top.kids)
    /\ live' = live + 1
    /\ UNCHANGED <<window, peeked, got, lost>>

FinishDict ==
    /\ ctl = "finish" /\ Top.call = "dict" /\ ~NextIs({"Stream"})
    /\ stack' = Tail(stack)
    /\ ctl' = "return" /\ ret' = DictNode(Top.kids)
    /\ window' = Ahead(0)
    /\ live' = live + 1
    /\ UNCHANGED <<peeked, got, lost>>

-----------------------------------------------------------------------------
(* cos_handle_stream_ *)

(* The data starts behind the keyword. *)
BeginStream ==
    /\ ctl = "finish" /\ Top.call = "dict" /\ NextIs({"Stream"})
    /\ stack' = <<[Frame("stream", PosAfter(Ahead(0).buffer[1]))
                       EXCEPT !.kids = <<DictNode(Top.kids)>>]>> \o Tail(stack)
    /\ ctl' = "length"
    /\ window' = Advanced(Ahead(0))
    /\ live' = live + 1
    /\ UNCHANGED <<ret, peeked, got, lost>>

Lengths == {i \in DOMAIN Top.kids[1].kids : Top.kids[1].kids[i].key = "Length"}
Length == Top.kids[1].kids[CHOOSE i \in Lengths : TRUE]

(* A Length that is a reference is resolved, to see whether it is an        *)
(* integer; a resolved reference never is one (cos_obj_node_get_value_type).*)
(* The document may have the object, and otherwise loads it with this       *)
(* parser if it is the parser of the document.                              *)
ResolveLength ==
    /\ ctl = "length"
    /\ \/ ctl' = "seek" /\ UNCHANGED <<window, stack, ret, peeked, live, got, lost>>
       \/ /\ Lengths # {} /\ Length.type = "Ref" /\ ~OwnStream
          /\ Length.value \in DOMAIN file.objects
          /\ CanSeek(file.objects[Length.value])
          /\ Begin("load", Moved(window, Place(file.objects[Length.value])))

IntegerLength == IF Lengths # {} /\ Length.type = "Integer" THEN Length.value ELSE -1

EndOfData == Top.value + IntegerLength

(* A negative Length leads back, to the dictionary of the stream or before  *)
(* it.  A Length that is not there or no integer counts as -1, which leads  *)
(* to the end of the keyword.                                               *)
SeeksBack == ctl = "seek" /\ OwnStream /\ CanSeek(EndOfData) /\ IntegerLength < -1

(* The buffer of tokens is not flushed.  If the seek fails, nobody releases *)
(* the dictionary.                                                          *)
SkipData ==
    LET w == Filled(file.tokens, [window EXCEPT !.pos = Place(EndOfData)], 0)
    IN  /\ ctl = "seek"
        /\ SeeksBack => live < MaxNodes
        /\ stack' = Tail(stack)
        /\ ctl' = "return"
        /\ IF OwnStream /\ CanSeek(EndOfData)
             THEN /\ window' = IF Is(w, 0, "EndStream") THEN Advanced(w) ELSE w
                  /\ ret' = Wrap("Stream", 0, Top.kids[1])
                  /\ live' = live + 1
                  /\ UNCHANGED lost
             ELSE /\ ret' = NoNode
                  /\ lost' = lost + Top.kids[1].size
                  /\ UNCHANGED <<window, live>>
        /\ UNCHANGED <<peeked, got>>

-----------------------------------------------------------------------------

ParseObject ==
    /\ ctl = "parse"
    /\ \/ ParseUnexpected \/ ParseName \/ ParseReal \/ ParseBool \/ ParseNull
       \/ ParseInteger \/ ParseIndirectRef \/ ParseIndirectDef
       \/ ParseArray \/ ParseDict

Step ==
    /\ \/ ParseObject \/ Loop
       \/ AddElement \/ AddKey \/ AddValue
       \/ FinishArray \/ FinishDict \/ FinishIndirectDef
       \/ BeginStream \/ ResolveLength \/ SkipData
       \/ ReturnToClient
    /\ UNCHANGED <<file, calls>>

Next == NextObject \/ PeekObject \/ (\E num \in DOMAIN file.objects : LoadObject(num))
        \/ Destroy \/ Step

(* A C call runs until it returns. *)
Spec == Init /\ [][Next]_vars /\ WF_vars(Step)

-----------------------------------------------------------------------------
(* What is checked *)

TypeOK ==
    /\ file \in Files
    /\ window.pos \in Nat /\ Len(window.buffer) <= BufferSize
    /\ ctl \in {"idle", "parse", "loop", "finish", "length", "seek", "return",
                "undefined", "destroyed"}
    /\ ctl \in {"idle", "destroyed"} <=> stack = <<>>
    /\ ret # NoNode => ctl \in {"return", "undefined"}
    /\ live \in Nat /\ got \in Nat /\ lost \in Nat
    /\ calls \in 0 .. MaxCalls

(* Tokens are read ahead only behind integers (CosObjParser.c:463-478). *)
AheadOfIntegers ==
    \A i \in DOMAIN window.buffer :
        i < Len(window.buffer) => window.buffer[i].type = "Integer"

(* When the data of a stream is skipped, the tokenizer is reset and the    *)
(* buffer of tokens is not (CosObjParser.c:824-831): no token that lies    *)
(* before the data or in it may be left there.                             *)
NoTokenFromBeforeTheData == ctl = "seek" /\ OwnStream => window.buffer = <<>>

Held(frame) ==
    SizeOf(frame.kids) + frame.key.size + (IF frame.call = "dict" THEN Len(frame.kids) ELSE 0)

(* Through every failure in the middle of nested objects each node has one *)
(* owner: a call under way, the parser, a client.  Only those a repeated   *)
(* key replaces and the dictionary of a stream that cannot be skipped have *)
(* none.                                                                   *)
EveryNodeOwned ==
    ctl # "undefined" =>
        live = SumOf([i \in DOMAIN stack |-> Held(stack[i])])
               + ret.size + peeked.size + got + lost

(* Where a well-formed object is written, a call returns that object, and  *)
(* the next call starts where it ends, however far the parser had to look  *)
(* ahead to tell integers from references and definitions.                 *)
WellFormedParses ==
    ctl = "return" /\ Top.call \in {"next", "peek"} /\ Top.value \in DOMAIN file.trees =>
        /\ ret = file.trees[Top.value].node
        /\ file.tokens[Unread(window)].at = file.tokens[file.trees[Top.value].next].at

(* Where the text breaks off or is no object, and where reading it fails,  *)
(* each call returns: it goes on for ever only if it is sent back again and *)
(* again by a negative Length (CosObjParser.c:821-824), to an array that is *)
(* still being read (:564), say, which it reads once more.                  *)
CallsReturn == stack # <<>> ~> stack = <<>> \/ ctl = "undefined" \/ SeeksBack

(* CosObjParser.c:1035, in the context of an indirect object definition:   *)
(* "Allow direct and stream objects."                                      *)
DirectObjectsAllowed == ctl = "return" /\ Top.call = "def" => ret # NoNode

(* CosObjParser.h: "Get the next object and consume it." *)
NextConsumes ==
    ctl = "return" /\ Top.call = "next" /\ ret # NoNode => Unread(window) > Top.value

(* CosDictObjNode.c:29: "The key is a pointer to a name object (pointer)." *)
KeysAreNames == ctl # "undefined"

(* CosObjParser.c:789-790: Length is the number of bytes "from the beginning *)
(* of the line following the keyword stream to the last byte just before    *)
(* the keyword endstream", and these are the bytes that are skipped.        *)
StreamDataSkipped ==
    ctl = "return" /\ ret # NoNode /\ ret.type = "Stream"
        => ~NextIs({"Unknown", "EndStream"})
=============================================================================
