---------------------------- MODULE MCCosParser ----------------------------
(***************************************************************************)
(* Files for CosParser: chains of one to three revisions that add, replace *)
(* and delete objects, sections that cover an object twice, trailers with  *)
(* entries of all kinds, and the ways a chain breaks off half-way.         *)
(***************************************************************************)
EXTENDS CosParser, TLC

\* A failing read may cut 12 to 1, so that a Prev of 12 leads to the oldest.
MCOffsets == {1, 12, 30}

I(n) == <<IntToken(n)>>
T(type) == <<[type |-> type]>>
Name(key) == <<[type |-> "name", key |-> key]>>

\* The entries of a trailer, and the trailer.
Root == Name("Root") \o <<[type |-> "ref", value |-> 12]>>
Prev(offset) == Name("Prev") \o I(offset)
Dict(entries) == T("<<") \o entries \o T(">>")

\* A subsection, an entry, and a whole revision.
Sub(first, count) == I(first) \o I(count)
Entry(offset, type) == I(offset) \o I(0) \o T(type)
Revision(subsections, entries) == T("xref") \o subsections \o T("trailer") \o Dict(entries)

File(tokens, startxrefs) ==
    [header |-> TRUE, startxrefs |-> startxrefs,
     tokens |-> [o \in MCOffsets |-> IF o \in DOMAIN tokens THEN tokens[o] ELSE <<>>]]

NewSection == Sub(1, 1) \o Entry(7, "n")
New(prev) == Revision(NewSection, Root \o Prev(prev))
Old == Revision(Sub(0, 2) \o Entry(0, "f") \o Entry(5, "n"), Root)
Rootless == Revision(Sub(0, 1) \o Entry(0, "f"), <<>>)
\* Object 1 was deleted; the subsection that is first wins for object 0.
Deleted(prev) == Revision(Sub(1, 1) \o Entry(0, "f") \o Sub(0, 1) \o Entry(3, "n")
                          \o Sub(0, 1) \o Entry(4, "n"), Prev(prev))

\* The older revision of a file with an update is in the last kilobyte with it.
Updated(new, old) == File(30 :> new @@ 1 :> old, <<1, 30>>)
Single(revision) == File(30 :> revision, <<30>>)

Two       == Updated(New(1), Old)
Three     == File(30 :> New(12) @@ 12 :> Deleted(1) @@ 1 :> Rootless, <<12, 30>>)
\* -1 as an unsigned first number, and -1 as an entry's offset.
Negative  == Single(Revision(Sub(-1, 1) \o Entry(-1, "n"), Root \o Prev(-1)))
NoTrailer == Updated(New(1), T("xref") \o Sub(0, 0) \o Dict(Root))
OtherEnd  == Updated(T("xref") \o Sub(0, 0) \o T("other") \o Dict(Prev(1)), Old)
Short     == Updated(New(1), Revision(Sub(0, 2) \o Entry(5, "n"), Root))
Long      == Updated(New(1), Revision(Sub(0, 1) \o Entry(5, "n") \o Entry(6, "n"), Root))
BadCount  == Updated(New(1), Revision(Sub(0, -1), Root))
NotXref   == Updated(New(1), Dict(Root))
NotDict   == Updated(New(1), T("xref") \o Sub(0, 0) \o T("trailer") \o T("other"))
Nowhere   == Single(New(5))
\* A key twice, a Prev that is a reference, one that is in an array.
Twice     == File(30 :> Revision(Sub(0, 0), Prev(12) \o Name("Size") \o I(2) \o Prev(1))
                  @@ 12 :> Rootless @@ 1 :> Old, <<1, 30>>)
RefPrev   == Updated(Revision(Sub(0, 0), Root \o Name("Prev") \o Root), Old)
\* A string before Prev, no ">>", a key that is no name.
String    == Updated(Revision(NewSection, Root \o Name("Size") \o T("other") \o Prev(1)), Old)
Unclosed  == Updated(T("xref") \o Sub(0, 0) \o T("trailer") \o T("<<") \o Root \o Prev(1), Old)
NotName   == Updated(New(1), Revision(Sub(0, 0), I(1) \o T("value") \o Root))
NoHeader  == [Two EXCEPT !.header = FALSE]
NoStart   == [Two EXCEPT !.startxrefs = <<1, None>>]
NoEof     == [Two EXCEPT !.startxrefs = <<>>]

MCFiles == {Two, Three, Negative, NoTrailer, OtherEnd, Short, Long, BadCount, NotXref, NotDict,
            Nowhere, Twice, RefPrev, String, Unclosed, NotName, NoHeader, NoStart, NoEof}

\* The trailer of the older revision names the newer one as the one before.
MCCyclicFiles == {Single(Revision(Sub(0, 0), Prev(30)))}

\* A trailer with a string, as most have in their ID, before its Prev.
MCPartialFiles == {String, Two, Twice}
=============================================================================
