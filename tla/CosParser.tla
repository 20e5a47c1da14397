----------------------------- MODULE CosParser -----------------------------
(***************************************************************************)
(* src/parse/CosParser.c with src/xref/CosXrefTableParser.c: reading the   *)
(* structure of a document.  A parse checks the header, finds startxref    *)
(* and walks the chain of revisions from the newest to the oldest; of each *)
(* it reads an xref section and a trailer dictionary.                      *)
(*                                                                         *)
(* A file holds, per byte offset, the tokens from there on.  The xref      *)
(* parser and the object parser share a tokenizer, `rest`, and each keeps  *)
(* what it has peeked: what the xref parser has peeked when it is destroyed *)
(* is lost.                                                                *)
(*                                                                         *)
(* A read of the stream that fails looks like the end of the file, and the *)
(* next read may succeed.  `steady`, with the fields of that name, and the *)
(* field `parse` of a section are history: no action depends on them.      *)
(***************************************************************************)
EXTENDS Integers, Sequences, SequencesExt

CONSTANTS
    Nums,           \* the object numbers that are looked up
    Offsets,        \* byte offsets with something to read
    Files,          \* files: header, startxrefs and tokens
    None,           \* a NULL pointer; no offset
    UnsignedRange,  \* 2^32: what casts an int to an object number
    Tens,           \* powers of ten: where the digits of a number can be parted
    MaxParses,      \* bound: calls of cos_parser_parse
    MaxSections,    \* bound: sections the model's table remembers
    MaxFailures,    \* bound: reads that fail and are not noticed
    StreamMayFail   \* TRUE: a seek or a read of the stream may fail

ASSUME NumsAssumption == Nums \subseteq 0..(UnsignedRange - 1)
ASSUME OffsetsAssumption == Offsets \subseteq Nat /\ None \notin Nat
ASSUME UnsignedRangeAssumption == UnsignedRange \in Nat \ {0}
ASSUME TensAssumption == Tens \subseteq Nat \ {0}
ASSUME MaxSectionsAssumption == MaxSections \in Nat \ {0, 1}
ASSUME StreamMayFailAssumption == StreamMayFail \in BOOLEAN /\ MaxFailures \in Nat

\* A reference, an array and a dictionary inside a trailer are one token each.
Tokens ==
    [type : {"xref", "trailer", "n", "f", "<<", ">>", "value", "other", "eof"}]
    \cup [type : {"int", "ref"}, value : Int]
    \cup [type : {"name"}, key : {"Root", "Prev", "Size"}]

\* startxrefs has the number before each %%EOF of the last kilobyte, None where
\* that is not one after "startxref".  No dictionary is the first key of another.
ASSUME FilesAssumption ==
    \A file \in Files :
        /\ file.header \in BOOLEAN
        /\ file.startxrefs \in Seq(Nat \cup {None})
        /\ DOMAIN file.tokens = Offsets
        /\ \A o \in Offsets :
              /\ file.tokens[o] \in Seq(Tokens)
              /\ \A i \in 2..Len(file.tokens[o]) :
                    file.tokens[o][i - 1].type = "<<" => file.tokens[o][i].type \notin {"<<", "value"}

Entries == [type : {"n", "f"}, at : Nat, gen : Nat]
Subsections == [first : Nat, count : Nat, entries : Seq(Entries)]
Sections == [parse : Nat, at : Nat, steady : BOOLEAN, prev : Nat \cup {None},
             subsections : Seq(Subsections)]
Trailers == [parse : Nat, at : Nat, steady : BOOLEAN, root : BOOLEAN]
Dicts == [root : BOOLEAN, prev : Nat \cup {None}]

ASSUME NoneAssumption == None \notin Trailers

VARIABLES
    file,       \* the file behind the input stream; never changes
    pc,         \* where cos_parser_parse is; "idle" between calls
    at,         \* xref_offset
    rest,       \* the tokens ahead of the shared tokenizer
    table,      \* the sections read so far
    dict,       \* of the trailer being read: whether it has a Root, and its Prev
    parses,     \* calls of cos_parser_parse
    steady,     \* history: no read has failed in this call and gone unnoticed
    failures,   \* such reads so far
    trailer,    \* doc->trailer_dict: the parse and revision it is from, at, root
    root,       \* doc->root: the trailer it is in
    xref,       \* doc->xref_table
    dicts       \* the trailer dictionaries that are allocated

docVars == <<trailer, root, xref, dicts>>
histVars == <<steady, failures>>
vars == <<file, pc, at, rest, table, dict, parses, histVars, docVars>>

NoEntries == [root |-> FALSE, prev |-> None]

Init ==
    /\ file \in Files
    /\ pc = "idle" /\ at = None /\ rest = <<>> /\ table = <<>> /\ dict = NoEntries
    /\ parses = 0 /\ steady = TRUE /\ failures = 0
    /\ trailer = None /\ root = None /\ xref = None
    /\ dicts = {}

Eof == [type |-> "eof"]
Other == [type |-> "other"]
IntToken(n) == [type |-> "int", value |-> n]

TokensAt(offset) == IF offset \in Offsets THEN file.tokens[offset] ELSE <<>>

\* The n-th token ahead; at the end of the stream there are EOF tokens only.
Peek(n) == IF n <= Len(rest) THEN rest[n] ELSE Eof

Skip(n) == rest' = SubSeq(rest, n + 1, Len(rest))

\* The call returns false and destroys the table it was building.
Fail ==
    /\ pc' = "idle" /\ rest' = <<>> /\ table' = <<>> /\ at' = None
    /\ UNCHANGED <<file, dict, parses, histVars, docVars>>

-----------------------------------------------------------------------------
(* cos_parser_parse up to the first xref section *)

Parse ==
    /\ pc = "idle" /\ parses < MaxParses
    /\ pc' = "header"
    /\ parses' = parses + 1
    /\ steady' = TRUE
    /\ UNCHANGED <<file, at, rest, table, dict, failures, docVars>>

ParseHeader ==
    /\ pc = "header"
    /\ \/ /\ file.header
          /\ pc' = "startxref"
          /\ UNCHANGED <<file, at, rest, table, dict, parses, histVars, docVars>>
       \/ ~file.header /\ Fail

\* A read fails, and nobody notices.
Unnoticed ==
    /\ StreamMayFail /\ failures < MaxFailures
    /\ failures' = failures + 1
    /\ steady' = FALSE

\* The scan goes backwards from the end of what was read.
Found(startxrefs) == Last(startxrefs)

\* A read of the tail that comes short leaves the older revisions' startxrefs;
\* only one of no byte is an error.
FindStartxref ==
    /\ pc = "startxref"
    /\ \E n \in 0..Len(file.startxrefs) :
          /\ IF n = Len(file.startxrefs) THEN UNCHANGED histVars ELSE Unnoticed
          /\ LET startxrefs == SubSeq(file.startxrefs, 1, n)
             IN  /\ startxrefs /= <<>> /\ Found(startxrefs) /= None
                 /\ at' = Found(startxrefs)
    /\ pc' = "seek"
    /\ UNCHANGED <<file, rest, table, dict, parses, docVars>>

NoStartxref ==
    /\ pc = "startxref"
    /\ file.startxrefs /= <<>> => Last(file.startxrefs) = None
    /\ Fail

\* A seek fails, or a read of the header or of the tail, so that none is found.
StreamFails == StreamMayFail /\ pc \in {"header", "startxref", "seek"} /\ Fail

Seek ==
    /\ pc = "seek"
    /\ rest' = TokensAt(at)
    /\ pc' = "xref"
    /\ UNCHANGED <<file, at, table, dict, parses, histVars, docVars>>

\* What is read of a token when a read fails in the middle of it: an integer ends
\* there and another one begins, and the rest of an array may be two more objects.
Pieces(token) ==
    CASE token.type = "int" /\ token.value >= 0 ->
             {<<IntToken(token.value \div d), IntToken(token.value % d)>> : d \in Tens}
      [] token.type = "int" /\ token.value < 0 ->
             {<<Other, IntToken(-token.value)>>}
             \cup {<<IntToken(-((-token.value) \div d)), IntToken((-token.value) % d)>> : d \in Tens}
      [] token.type = "ref" ->
             {<<IntToken(token.value), Other>>}
             \cup {<<IntToken(token.value \div d), [token EXCEPT !.value = @ % d]>> : d \in Tens}
      [] token.type = "name" ->
             {<<[type |-> "name", key |-> key], Other>> : key \in {token.key, "Size"}}
      [] token.type = "value" ->
             {<<token, Other>>, <<Other, Other>>, <<token, token, token>>}
      [] OTHER -> {<<Other, Other>>}

\* A read fails somewhere in the section or in its trailer.  Before or in the
\* middle of some token the text ends, for good or for one token.
ReadFails ==
    /\ pc = "xref" /\ Unnoticed
    /\ \E i \in 0..Len(rest) :
          LET before == SubSeq(rest, 1, i)
              after == SubSeq(rest, i + 1, Len(rest))
          IN  \/ rest' = before
              \/ rest' = before \o <<Eof>> \o after
              \/ /\ after /= <<>>
                 /\ \E pieces \in Pieces(Head(after)) :
                       \/ rest' = Append(before, Head(pieces))
                       \/ rest' = before \o pieces \o Tail(after)
    /\ UNCHANGED <<file, pc, at, table, dict, parses, docVars>>

-----------------------------------------------------------------------------
(* cos_xref_table_parser_parse_section *)

IsInt(n) == Peek(n).type = "int"

IsCount(n) == IsInt(n) /\ Peek(n).value >= 0

\* Mutant: only the keyword ends a section.
EndsAtKeyword(n) == Peek(n).type = "trailer"

EndsSection(n) == ~IsInt(n)

\* The last element of s replaced by e.
WithLast(s, e) == ReplaceAt(s, Len(s), e)

\* The section being read is the last of the table until its trailer is read;
\* its prev is set then.  Past the bound a section takes the last one's place.
ParseXref ==
    /\ pc = "xref"
    /\ IF Peek(1).type = "xref"
         THEN /\ pc' = "subsections"
              /\ table' = Append(IF Len(table) < MaxSections THEN table ELSE Front(table),
                                 [parse |-> parses, at |-> at, steady |-> steady,
                                  prev |-> None, subsections |-> <<>>])
              /\ Skip(1)
              /\ UNCHANGED <<file, at, dict, parses, histVars, docVars>>
         ELSE Fail

ReadSubsectionHeader ==
    /\ pc = "subsections" /\ IsInt(1)
    /\ IF IsCount(2)
         THEN /\ LET sub == [first |-> Peek(1).value % UnsignedRange,
                            count |-> Peek(2).value, entries |-> <<>>]
                 IN  table' = WithLast(table,
                                 [Last(table) EXCEPT !.subsections = Append(@, sub)])
              /\ Skip(2)
              /\ pc' = IF Peek(2).value = 0 THEN "subsections" ELSE "entries"
              /\ UNCHANGED <<file, at, dict, parses, histVars, docVars>>
         ELSE Fail

ReadEntry ==
    /\ pc = "entries"
    /\ IF IsInt(1) /\ IsInt(2) /\ Peek(3).type \in {"n", "f"}
         THEN LET subs == Last(table).subsections
                  entry == [type |-> Peek(3).type,
                            at |-> Peek(1).value % UnsignedRange,
                            gen |-> Peek(2).value % UnsignedRange]
                  sub == [Last(subs) EXCEPT !.entries = Append(@, entry)]
              IN  /\ table' = WithLast(table,
                                  [Last(table) EXCEPT !.subsections = WithLast(@, sub)])
                  /\ pc' = IF Len(sub.entries) = sub.count THEN "subsections" ELSE "entries"
                  /\ Skip(3)
                  /\ UNCHANGED <<file, at, dict, parses, histVars, docVars>>
         ELSE Fail

\* Any other token ends the section, and is lost with the parser that peeked it.
EndSection ==
    /\ pc = "subsections" /\ EndsSection(1)
    /\ pc' = "trailer"
    /\ Skip(1)
    /\ UNCHANGED <<file, at, table, dict, parses, histVars, docVars>>

-----------------------------------------------------------------------------
(* The trailer dictionary: cos_handle_dict_ and cos_handle_dict_entry_ *)

BeginTrailer ==
    /\ pc = "trailer"
    /\ IF Peek(1).type = "<<"
         THEN /\ pc' = "dict" /\ dict' = NoEntries
              /\ Skip(1)
              /\ UNCHANGED <<file, at, table, parses, histVars, docVars>>
         ELSE Fail

\* An object can be read; of strings, Booleans, reals and null none can.
IsObject(token) == token.type \in {"int", "ref", "name", "value"}

\* A reference is not allowed as a key.
HasEntry == IsObject(Peek(1)) /\ Peek(1).type /= "ref" /\ IsObject(Peek(2))

\* A Prev that is no integer, or a negative one, is none.
PrevOf(value) == IF value.type = "int" /\ value.value >= 0 THEN value.value ELSE None

\* Mutant: the first of several entries with a key counts.
WithFirstEntry(d, key, value) ==
    CASE key = "Root" -> [d EXCEPT !.root = TRUE]
      [] key = "Prev" /\ d.prev = None -> [d EXCEPT !.prev = PrevOf(value)]
      [] OTHER -> d

\* The last of several entries with a key counts.
WithEntry(d, key, value) ==
    CASE key = "Root" -> [d EXCEPT !.root = TRUE]
      [] key = "Prev" -> [d EXCEPT !.prev = PrevOf(value)]
      [] OTHER -> d

\* A key that is no name is hashed and compared as one: anything may happen.
ReadTrailerEntry ==
    /\ pc = "dict" /\ HasEntry
    /\ IF Peek(1).type = "name"
         THEN dict' = WithEntry(dict, Peek(1).key, Peek(2)) /\ Skip(2) /\ UNCHANGED pc
         ELSE pc' = "undefined" /\ UNCHANGED <<dict, rest>>
    /\ UNCHANGED <<file, at, table, parses, histVars, docVars>>

-----------------------------------------------------------------------------
(* The rest of the loop *)

\* Mutant: first_revision is never reset.
NeverOwn(t) == FALSE

\* own_trailer: the revision is not the first, its trailer is destroyed here.
Own(t) == Len(t) > 1

\* Mutant: the document forgets the trailer it had.
TrailerAdded(new) == dicts \cup {new}

\* cos_doc_set_trailer_dict_ destroys the trailer the document had.
TrailerReplaced(new) == (dicts \ {trailer}) \cup {new}

\* Mutant: a root that is set stays.
RootOnce(new) == IF new.root /\ root = None THEN new ELSE root

\* cos_doc_set_root_, called when the new trailer has a Root.
RootSet(new) == IF new.root THEN new ELSE root

IsLast(d) == d.prev = None

\* The dictionary ends with ">>" or before the first entry that cannot be read:
\* either way it is the trailer.  The first one is the newest, and goes to the
\* document.
EndTrailer ==
    /\ pc = "dict" /\ ~HasEntry
    /\ LET new == [parse |-> parses, at |-> at, steady |-> steady, root |-> dict.root]
       IN  IF Own(table) THEN UNCHANGED <<trailer, root, dicts>>
           ELSE /\ trailer' = new
                /\ dicts' = TrailerReplaced(new)
                /\ root' = RootSet(new)
    /\ LET read == WithLast(table, [Last(table) EXCEPT !.prev = dict.prev])
       IN  IF IsLast(dict)
             THEN xref' = read /\ table' = <<>> /\ pc' = "idle" /\ at' = None
             ELSE table' = read /\ pc' = "seek" /\ at' = dict.prev /\ UNCHANGED xref
    /\ rest' = <<>> /\ dict' = NoEntries
    /\ UNCHANGED <<file, parses, histVars>>

Step ==
    \/ ParseHeader \/ FindStartxref \/ NoStartxref \/ StreamFails \/ Seek \/ ReadFails
    \/ ParseXref \/ ReadSubsectionHeader \/ ReadEntry \/ EndSection
    \/ BeginTrailer \/ ReadTrailerEntry \/ EndTrailer

Next == Parse \/ Step

\* A C call runs until it returns.
Spec == Init /\ [][Next]_vars /\ WF_vars(Step)

-----------------------------------------------------------------------------
(* cos_xref_table_find_entry_for_obj_num *)

Covers(sub, k) == k >= sub.first /\ k - sub.first < sub.count

\* Mutant: the oldest section is searched first.
FindOldestEntry(t, k) ==
    LET subs == FlattenSeq([i \in DOMAIN t |-> Reverse(t)[i].subsections])
        i == SelectInSeq(subs, LAMBDA sub : Covers(sub, k))
    IN  IF i = 0 THEN None ELSE subs[i].entries[k - subs[i].first + 1]

\* The first subsection, in the order the sections were read, that covers k.
FindEntry(t, k) ==
    LET subs == FlattenSeq([i \in DOMAIN t |-> t[i].subsections])
        i == SelectInSeq(subs, LAMBDA sub : Covers(sub, k))
    IN  IF i = 0 THEN None ELSE subs[i].entries[k - subs[i].first + 1]

-----------------------------------------------------------------------------
(* What is checked *)

TypeOK ==
    /\ file \in Files
    /\ pc \in {"idle", "header", "startxref", "seek", "xref", "subsections", "entries",
              "trailer", "dict", "undefined"}
    /\ at \in Nat \cup {None}
    /\ rest \in Seq(Tokens)
    /\ table \in Seq(Sections) /\ dict \in Dicts
    /\ parses \in Nat /\ steady \in BOOLEAN /\ failures \in Nat
    /\ trailer \in Trailers \cup {None} /\ root \in Trailers \cup {None}
    /\ xref \in Seq(Sections) \cup {None}
    /\ dicts \subseteq Trailers

\* Each section is where the one before it says.
Chained(t) ==
    Len(t) < MaxSections => \A i \in DOMAIN t : i > 1 => t[i - 1].prev = t[i].at

IsEntry(ts, i) == i + 1 \in DOMAIN ts /\ ts[i].type = "name" /\ IsObject(ts[i + 1])

\* Of the tokens ts of a revision, the trailer begins with the o-th, and m entries
\* of it can be read.
IsTrailer(ts, o, m) ==
    /\ o \in DOMAIN ts /\ ts[o].type = "<<"
    /\ \A i \in 1..(o - 2) : ts[i].type \in {"xref", "int", "n", "f"}
    /\ \A k \in 1..m : IsEntry(ts, o + 2 * k - 1)
    /\ ~IsEntry(ts, o + 2 * m + 1)

\* The last Prev in the first m entries of a trailer that begins with the o-th token.
IsPrev(ts, o, m, prev) ==
    \/ prev = None /\ \A k \in 1..m : ts[o + 2 * k - 1].key /= "Prev"
    \/ \E k \in 1..m :
          /\ ts[o + 2 * k - 1].key = "Prev" /\ prev = PrevOf(ts[o + 2 * k])
          /\ \A j \in (k + 1)..m : ts[o + 2 * j - 1].key /= "Prev"

PrevAsWritten(section) ==
    LET ts == TokensAt(section.at)
    IN  \E o \in DOMAIN ts, m \in 0..Len(ts) : IsTrailer(ts, o, m) /\ IsPrev(ts, o, m, section.prev)

\* All or nothing: a table the document has is a chain of revisions down to one
\* without Prev, and every subsection of it has all its entries, whatever the
\* stream did and however often a parse was tried.  Where no read has failed it
\* begins at the last startxref and each Prev is the one that is written, as far
\* as the trailer can be read.
XrefAsWritten ==
    xref /= None =>
        /\ xref /= <<>> /\ Chained(xref) /\ Last(xref).prev = None
        /\ \A i \in DOMAIN xref : \A j \in DOMAIN xref[i].subsections :
               Len(xref[i].subsections[j].entries) = xref[i].subsections[j].count
        /\ xref[1].steady => xref[1].at = Last(file.startxrefs)
        /\ \A i \in DOMAIN xref : xref[i].steady => PrevAsWritten(xref[i])

\* The trailer goes with the newest revision of the table: always when one parse
\* read both, and if two did, the later failing half-way down the chain, when no
\* read had failed before either of them was found.
TrailerIsNewest ==
    xref /= None =>
        /\ trailer /= None
        /\ \/ trailer.parse = xref[1].parse
           \/ trailer.steady /\ xref[1].steady
           => trailer.at = xref[1].at

\* A parse that is tried again reads the same trailer if no read of it fails, so
\* doc->root, which is not reset, is not left in a trailer that was destroyed.
RootInTrailer == root /= None => root = trailer \/ ~root.steady \/ ~trailer.steady

\* CosParser.h:59: a parse returns true on success and false on an error, and
\* CosParser.c:370: it walks the Prev chain.  No Prev is left behind in the
\* trailer where the chain of a parse that returned true ends.
NoPrevLeft ==
    xref /= None =>
        LET ts == TokensAt(Last(xref).at)
        IN  \A i \in DOMAIN ts : ts[i].type = "name" => ts[i].key /= "Prev"

\* The trailer of the document is the only trailer dictionary that is alive
\* between calls: none leaks, none is destroyed twice.
OneTrailer == pc = "idle" => dicts = {trailer} \ {None}

\* What is found after a subsection: what was found before it wins.
AddSubsection(found, sub) ==
    [k \in DOMAIN found \cup {n \in Nums : Covers(sub, n)} |->
        IF k \in DOMAIN found THEN found[k] ELSE sub.entries[k - sub.first + 1]]

EntriesOf(subs) == FoldLeft(AddSubsection, <<>>, subs)

\* What is found after a newer section: its entries win.
AddSection(older, section) ==
    LET newer == EntriesOf(section.subsections)
    IN  [k \in DOMAIN older \cup DOMAIN newer |->
            IF k \in DOMAIN newer THEN newer[k] ELSE older[k]]

\* What a reader that applies the revisions from the oldest to the newest
\* ends up with, the first subsection of a revision winning over later ones.
Applied(t) == FoldLeft(AddSection, <<>>, Reverse(t))

\* A lookup finds the newest revision of every object, deleted ones included
\* (CosXrefTable.c:123-146 searches the sections in the order they were read).
NewestWins ==
    xref /= None =>
        \A k \in Nums :
            FindEntry(xref, k) = IF k \in DOMAIN Applied(xref) THEN Applied(xref)[k] ELSE None

\* CosParser.h:59: a parse returns true on success and false on an error, so
\* it returns, or has come to a key that is no name.
ParseReturns == pc /= "idle" ~> pc \in {"idle", "undefined"}

=============================================================================
