--------------------------- MODULE CosParser_proofs ---------------------------
(***************************************************************************)
(* Proofs about CosParser, for every set of files and any number of parses. *)
(***************************************************************************)
EXTENDS CosParser, CosCounting, SequenceTheorems, TLAPS

Reading == {"subsections", "entries", "trailer", "dict"}

\* Where the walk is: at the last startxref before the first section unless a read
\* has failed, at the Prev of the last section after it, in the last section
\* while that is read.
Walk ==
    /\ pc \in {"idle", "header", "startxref"} => table = <<>>
    /\ pc \in {"seek", "xref"} =>
          /\ at \in Nat
          /\ table = <<>> /\ steady => at = Last(file.startxrefs)
          /\ table # <<>> => Last(table).prev = at
    /\ pc \in Reading =>
          /\ at \in Nat /\ table # <<>>
          /\ Last(table).at = at /\ Last(table).steady = steady

\* The first section of the table that is built.  Past it the document has the
\* trailer that was read with it.
FirstRead ==
    /\ table # <<>> =>
          /\ table[1].parse = parses
          /\ table[1].steady => table[1].at = Last(file.startxrefs)
    /\ \/ pc \in {"seek", "xref"} /\ table # <<>>
       \/ pc \in Reading /\ Len(table) > 1
       => trailer # None /\ trailer.parse = parses /\ trailer.at = table[1].at

Whole(sub) == Len(sub.entries) = sub.count
WholeAll(subs) == \A j \in DOMAIN subs : Whole(subs[j])

\* Only the subsection that is being read lacks entries.
Counted ==
    /\ \A i \in DOMAIN table : i < Len(table) \/ pc # "entries" => WholeAll(table[i].subsections)
    /\ pc = "entries" =>
          LET subs == Last(table).subsections
          IN  /\ subs # <<>> /\ WholeAll(Front(subs))
              /\ Len(Last(subs).entries) < Last(subs).count

\* A finished table, read by this parse only when that is over.
Finished ==
    xref # None =>
        /\ trailer # None
        /\ xref # <<>> /\ Chained(xref) /\ Last(xref).prev = None
        /\ \A i \in DOMAIN xref : WholeAll(xref[i].subsections)
        /\ xref[1].steady => xref[1].at = Last(file.startxrefs)
        /\ xref[1].parse <= parses
        /\ pc # "idle" => xref[1].parse < parses
        /\ trailer.parse = xref[1].parse => trailer.at = xref[1].at

AtStart == trailer # None /\ trailer.steady => trailer.at = Last(file.startxrefs)

IInv ==
    /\ TypeOK /\ Walk /\ FirstRead /\ Chained(table) /\ Counted /\ Finished /\ AtStart
    /\ dicts = {trailer} \ {None}

-----------------------------------------------------------------------------
(* Sequences and tokens *)

\* The last element, and what is before it.
LEMMA LastFront ==
    ASSUME NEW S, NEW t \in Seq(S), t # <<>>
    PROVE  /\ Len(t) \in Nat \ {0} /\ Last(t) \in S /\ Last(t) = t[Len(t)]
           /\ Front(t) \in Seq(S) /\ Len(Front(t)) = Len(t) - 1
           /\ \A i \in 1..(Len(t) - 1) : Front(t)[i] = t[i]
  <1>1. Len(t) \in Nat \ {0} /\ Last(t) \in S /\ Last(t) = t[Len(t)] BY DEF Last
  <1>2. Front(t) = SubSeq(t, 1, Len(t) - 1) BY DEF Front
  <1> DEFINE n == Len(t) - 1
  <1>3. n \in Nat /\ \A i \in 1..n : t[i] \in S BY <1>1
  <1> HIDE DEF n
  <1>4. /\ SubSeq(t, 1, n) \in Seq(S)
        /\ Len(SubSeq(t, 1, n)) = (IF 1 <= n THEN n - 1 + 1 ELSE 0)
        /\ \A i \in 1..(n - 1 + 1) : SubSeq(t, 1, n)[i] = t[1 + i - 1]
    BY <1>3, SubSeqProperties
  <1>5. /\ SubSeq(t, 1, n) \in Seq(S) /\ Len(SubSeq(t, 1, n)) = n
        /\ \A i \in 1..n : SubSeq(t, 1, n)[i] = t[i]
    BY <1>3, <1>4
  <1> QED BY <1>1, <1>2, <1>5 DEF n

\* Replacing the last element leaves the others.
LEMMA WithLastIs ==
    ASSUME NEW S, NEW t \in Seq(S), t # <<>>, NEW e \in S
    PROVE  /\ WithLast(t, e) \in Seq(S) /\ WithLast(t, e) # <<>>
           /\ Len(WithLast(t, e)) = Len(t)
           /\ Last(WithLast(t, e)) = e /\ WithLast(t, e)[Len(t)] = e
           /\ \A i \in 1..(Len(t) - 1) : WithLast(t, e)[i] = t[i]
  BY DEF WithLast, ReplaceAt, Last

\* What appending does.
LEMMA AppendIs ==
    ASSUME NEW S, NEW t \in Seq(S), NEW e \in S
    PROVE  LET u == Append(t, e)
           IN  /\ u \in Seq(S) /\ u # <<>> /\ Len(u) = Len(t) + 1 /\ Last(u) = e
               /\ u[Len(t) + 1] = e
               /\ \A i \in 1..Len(t) : u[i] = t[i]
  BY DEF Last

\* A token is ahead, also at the end of the stream, and an integer has a value.
LEMMA PeekIs ==
    ASSUME TypeOK, NEW n \in Nat \ {0}
    PROVE  /\ Peek(n) \in Tokens
           /\ IsInt(n) => Peek(n).value \in Int
           /\ Peek(n).type = "name" => Peek(n).key \in {"Root", "Prev", "Size"}
  <1>1. rest \in Seq(Tokens) BY DEF TypeOK
  <1>2. Eof \in Tokens BY DEF Eof, Tokens
  <1>3. Peek(n) \in Tokens BY <1>1, <1>2 DEF Peek
  <1> QED BY <1>3 DEF IsInt, Tokens

\* What is left ahead is a sequence of tokens.
LEMMA SkipIs ==
    ASSUME TypeOK, NEW n \in Nat, Skip(n)
    PROVE  rest' \in Seq(Tokens)
  BY DEF TypeOK, Skip

\* Casting an integer to unsigned gives a natural number.
LEMMA CastIs == ASSUME NEW n \in Int PROVE n % UnsignedRange \in Nat
  BY UnsignedRangeAssumption

\* The fields of a section, and of a section that has one of them changed.
LEMMA SectionIs ==
    ASSUME NEW s \in Sections
    PROVE  /\ s.at \in Nat /\ s.prev \in Nat \cup {None} /\ s.subsections \in Seq(Subsections)
           /\ s.parse \in Nat /\ s.steady \in BOOLEAN
           /\ \A subs \in Seq(Subsections) :
                 LET t == [s EXCEPT !.subsections = subs]
                 IN  /\ t \in Sections /\ t.prev = s.prev /\ t.subsections = subs
                     /\ t.at = s.at /\ t.parse = s.parse /\ t.steady = s.steady
           /\ \A prev \in Nat \cup {None} :
                 LET t == [s EXCEPT !.prev = prev]
                 IN  /\ t \in Sections /\ t.prev = prev /\ t.subsections = s.subsections
                     /\ t.at = s.at /\ t.parse = s.parse /\ t.steady = s.steady
  BY DEF Sections

-----------------------------------------------------------------------------
(* The actions *)

\* Before the first parse nothing is read and nothing is allocated.
LEMMA InitInv == Init => IInv
  <1> SUFFICES ASSUME Init PROVE IInv OBVIOUS
  <1>1. TypeOK BY DEF Init, TypeOK, NoEntries, Dicts
  <1> QED
    BY <1>1
    DEF Init, IInv, Walk, FirstRead, Chained, Counted, Finished, AtStart, Reading, WholeAll

\* A parse that fails (CosParser.c:469-473) leaves what the document has.
LEMMA FailInv == ASSUME IInv, Fail PROVE IInv'
  <1>1. TypeOK' BY DEF IInv, TypeOK, Fail, histVars, docVars
  <1> QED
    BY <1>1
    DEF IInv, Fail, histVars, docVars, Walk, FirstRead, Chained, Counted, Finished, AtStart, Reading

\* A step that reads no section and fails not.
LEMMA QuietInv ==
    ASSUME IInv, UNCHANGED <<file, table, parses, trailer, root, xref, dicts>>,
           rest' \in Seq(Tokens), at' \in Nat \cup {None}, dict' \in Dicts,
           steady' \in BOOLEAN, failures' \in Nat,
           pc \notin {"idle", "entries"},
           pc' \in {"startxref", "seek", "xref", "trailer", "dict", "undefined"},
           Walk', FirstRead'
    PROVE  IInv'
  <1>1. TypeOK' BY DEF IInv, TypeOK
  <1>2. Counted' BY DEF IInv, Counted
  <1> QED BY <1>1, <1>2 DEF IInv, Chained, Finished, AtStart

\* The start of cos_parser_parse.
LEMMA ParseInv == ASSUME IInv, Parse PROVE IInv'
  <1> USE DEF Parse, docVars
  <1>1. TypeOK' BY DEF IInv, TypeOK
  <1>2. Walk' /\ FirstRead' BY DEF IInv, Walk, FirstRead, Reading
  <1>3. Finished'
    <2>1. parses' = parses + 1 /\ parses \in Nat BY DEF IInv, TypeOK
    <2>2. ASSUME xref # None PROVE xref[1].parse \in Nat
      <3>1. xref \in Seq(Sections) /\ xref # <<>> BY <2>2 DEF IInv, TypeOK, Finished
      <3>2. xref[1] \in Sections
        <4> HIDE DEF Sections
        <4> QED BY ONLY <3>1
      <3> QED BY <3>2, SectionIs
    <2> QED BY <2>1, <2>2 DEF IInv, Finished, Chained
  <1> QED BY <1>1, <1>2, <1>3 DEF IInv, Counted, Chained, AtStart

\* A read that fails and is not noticed.
LEMMA UnnoticedIs ==
    ASSUME IInv, Unnoticed PROVE failures' \in Nat /\ steady' = FALSE
  BY DEF IInv, TypeOK, Unnoticed

\* cos_parser_parse_header_.
LEMMA ParseHeaderInv == ASSUME IInv, ParseHeader PROVE IInv'
  <1>1. CASE Fail BY <1>1, FailInv
  <1>2. CASE ~Fail
    BY <1>2, QuietInv
    DEF IInv, TypeOK, ParseHeader, histVars, docVars, Walk, FirstRead, Reading
  <1> QED BY <1>1, <1>2

\* cos_parser_find_startxref_: in a whole tail it finds the last startxref.
LEMMA FindStartxrefInv == ASSUME IInv, FindStartxref PROVE IInv'
  <1>1. PICK n \in 0..Len(file.startxrefs) :
            /\ IF n = Len(file.startxrefs) THEN UNCHANGED histVars ELSE Unnoticed
            /\ SubSeq(file.startxrefs, 1, n) # <<>>
            /\ Found(SubSeq(file.startxrefs, 1, n)) # None
            /\ at' = Found(SubSeq(file.startxrefs, 1, n))
    BY DEF FindStartxref
  <1>2. PICK all : all = file.startxrefs OBVIOUS
  <1>3. all \in Seq(Nat \cup {None}) BY <1>2, FilesAssumption DEF IInv, TypeOK
  <1>4. /\ SubSeq(all, 1, n) \in Seq(Nat \cup {None}) /\ Len(SubSeq(all, 1, n)) = n
        /\ n = Len(all) => SubSeq(all, 1, n) = all
    BY <1>1, <1>2, <1>3
  <1>5. at' \in Nat
    <2>1. PICK some : some = SubSeq(all, 1, n) OBVIOUS
    <2>2. some \in Seq(Nat \cup {None}) /\ some # <<>> /\ Last(some) # None /\ at' = Last(some)
      BY <1>1, <1>2, <1>4, <2>1 DEF Found
    <2> QED BY <2>2 DEF Last
  <1>6. n = Len(all) => at' = Last(all) BY <1>1, <1>2, <1>4 DEF Found
  <1>7. /\ failures' \in Nat /\ steady' \in BOOLEAN
        /\ steady' => n = Len(all)
    BY <1>1, <1>2, UnnoticedIs DEF IInv, TypeOK, histVars
  <1>8. /\ pc = "startxref" /\ pc' = "seek" /\ table = <<>>
        /\ UNCHANGED <<file, rest, table, dict, parses, trailer, root, xref, dicts>>
    BY DEF FindStartxref, docVars, IInv, Walk
  <1>9. Walk' BY <1>2, <1>5, <1>6, <1>7, <1>8 DEF Walk, Reading
  <1>10. FirstRead' BY <1>8 DEF FirstRead, Reading
  <1> QED BY <1>5, <1>7, <1>8, <1>9, <1>10, QuietInv DEF IInv, TypeOK

\* What is read at an offset are tokens.
LEMMA TokensAtType == ASSUME IInv, NEW offset PROVE TokensAt(offset) \in Seq(Tokens)
  BY FilesAssumption DEF IInv, TypeOK, TokensAt

\* The seek to a section (CosParser.c:373-377).
LEMMA SeekInv == ASSUME IInv, Seek PROVE IInv'
  <1>1. rest' \in Seq(Tokens) BY TokensAtType DEF Seek
  <1> QED
    BY <1>1, QuietInv DEF IInv, TypeOK, Seek, histVars, docVars, Walk, FirstRead, Reading

\* The pieces of a token are tokens, at least one.
LEMMA PiecesType ==
    ASSUME NEW token \in Tokens
    PROVE  \A pieces \in Pieces(token) : pieces \in Seq(Tokens) /\ pieces # <<>>
  <1> SUFFICES ASSUME NEW pieces \in Pieces(token)
               PROVE  \E u, v \in Tokens : pieces = <<u, v>> \/ pieces = <<u, v, v>>
    <2>1. ASSUME NEW S, NEW u \in S, NEW v \in S
          PROVE  /\ <<u, v>> \in Seq(S) /\ <<u, v>> # <<>>
                 /\ <<u, v, v>> \in Seq(S) /\ <<u, v, v>> # <<>>
      OBVIOUS
    <2> HIDE DEF Tokens
    <2>2. \A u, v \in Tokens : /\ <<u, v>> \in Seq(Tokens) /\ <<u, v>> # <<>>
                             /\ <<u, v, v>> \in Seq(Tokens) /\ <<u, v, v>> # <<>>
      BY <2>1, Zenon
    <2> QED BY <2>2, Zenon
  <1>1. Other \in Tokens /\ \A n \in Int : IntToken(n) \in Tokens
    BY DEF Tokens, Other, IntToken
  <1>2. \A n \in Int, d \in Tens : n \div d \in Int /\ n % d \in Int
    <2>1. \A d \in Tens : d \in Nat /\ d > 0 BY TensAssumption
    <2> QED BY <2>1
  <1>3. CASE token.type = "int" /\ token.value >= 0
    <2>1. token.value \in Int BY <1>3 DEF Tokens
    <2>2. PICK d \in Tens : pieces = <<IntToken(token.value \div d), IntToken(token.value % d)>>
      BY <1>3, <2>1 DEF Pieces
    <2> HIDE DEF Tokens
    <2> QED BY <1>1, <1>2, <2>1, <2>2
  <1>4. CASE token.type = "int" /\ token.value < 0
    <2>1. token.value \in Int BY <1>4 DEF Tokens
    <2>2. \/ pieces = <<Other, IntToken(-token.value)>>
          \/ \E d \in Tens : pieces = <<IntToken(-((-token.value) \div d)), IntToken((-token.value) % d)>>
      BY <1>4, <2>1 DEF Pieces
    <2>3. -token.value \in Int BY <2>1
    <2>4. \A d \in Tens : -((-token.value) \div d) \in Int /\ (-token.value) % d \in Int
      <3>1. \A n \in Int : -n \in Int OBVIOUS
      <3>2. \A d \in Tens : (-token.value) \div d \in Int /\ (-token.value) % d \in Int
        BY ONLY <1>2, <2>3
      <3> QED BY ONLY <3>1, <3>2
    <2> HIDE DEF Tokens
    <2> QED BY ONLY <1>1, <2>2, <2>3, <2>4
  <1>5. CASE token.type = "ref"
    <2>1. token.value \in Int /\ \A n \in Int : [token EXCEPT !.value = n] \in Tokens
      BY <1>5 DEF Tokens
    <2>2. \/ pieces = <<IntToken(token.value), Other>>
          \/ \E d \in Tens : pieces = <<IntToken(token.value \div d),
                                        [token EXCEPT !.value = token.value % d]>>
      BY <1>5 DEF Pieces
    <2>3. CASE pieces = <<IntToken(token.value), Other>>
      <3> HIDE DEF Tokens
      <3> QED BY <1>1, <2>1, <2>3
    <2>4. ASSUME NEW d \in Tens, pieces = <<IntToken(token.value \div d),
                                           [token EXCEPT !.value = token.value % d]>>
          PROVE  \E u, v \in Tokens : pieces = <<u, v>> \/ pieces = <<u, v, v>>
      <3>1. token.value \div d \in Int /\ token.value % d \in Int BY <1>2, <2>1
      <3>2. IntToken(token.value \div d) \in Tokens /\ [token EXCEPT !.value = token.value % d] \in Tokens
        BY <1>1, <2>1, <3>1
      <3> HIDE DEF Tokens
      <3> QED BY ONLY <2>4, <3>2
    <2> QED BY <2>2, <2>3, <2>4
  <1>6. CASE token.type = "name"
    <2>1. token.key \in {"Root", "Prev", "Size"} BY <1>6 DEF Tokens
    <2>2. \A key \in {token.key, "Size"} : [type |-> "name", key |-> key] \in Tokens
      BY <2>1 DEF Tokens
    <2>3. PICK key \in {token.key, "Size"} : pieces = <<[type |-> "name", key |-> key], Other>>
      BY <1>6 DEF Pieces
    <2>4. [type |-> "name", key |-> key] \in Tokens BY <2>2
    <2> HIDE DEF Tokens
    <2> QED BY ONLY <1>1, <2>3, <2>4
  <1>7. CASE token.type = "value"
    <2>1. pieces = <<token, Other>> \/ pieces = <<Other, Other>> \/ pieces = <<token, token, token>>
      BY <1>7 DEF Pieces
    <2> HIDE DEF Tokens
    <2> QED BY <1>1, <2>1
  <1>8. CASE token.type \notin {"int", "ref", "name", "value"}
    <2>1. pieces = <<Other, Other>> BY <1>8 DEF Pieces
    <2> HIDE DEF Tokens
    <2> QED BY <1>1, <2>1
  <1>9. token.type = "int" => token.value \in Int BY DEF Tokens
  <1> QED BY <1>3, <1>4, <1>5, <1>6, <1>7, <1>8, <1>9

\* A read that fails in a section leaves tokens ahead.
LEMMA ReadFailsInv == ASSUME IInv, ReadFails PROVE IInv'
  <1>1. rest \in Seq(Tokens) BY DEF IInv, TypeOK
  <1>2. PICK i \in 0..Len(rest) :
            LET before == SubSeq(rest, 1, i)
                after == SubSeq(rest, i + 1, Len(rest))
            IN  \/ rest' = before
                \/ rest' = before \o <<Eof>> \o after
                \/ /\ after # <<>>
                   /\ \E pieces \in Pieces(Head(after)) :
                         \/ rest' = Append(before, Head(pieces))
                         \/ rest' = before \o pieces \o Tail(after)
    BY DEF ReadFails
  <1>3. PICK before, after :
            before = SubSeq(rest, 1, i) /\ after = SubSeq(rest, i + 1, Len(rest))
    OBVIOUS
  <1>4. before \in Seq(Tokens) /\ after \in Seq(Tokens)
    <2> HIDE DEF Tokens
    <2> QED BY <1>1, <1>3
  <1>5. Eof \in Tokens BY DEF Eof, Tokens
  <1>6. ASSUME after # <<>>, NEW pieces \in Pieces(Head(after))
        PROVE  pieces \in Seq(Tokens) /\ pieces # <<>>
    <2>1. Head(after) \in Tokens
      <3> HIDE DEF Tokens
      <3> QED BY <1>4, <1>6
    <2> HIDE DEF Tokens
    <2> QED BY <1>6, <2>1, PiecesType
  <1>7. rest' \in Seq(Tokens)
    <2> HIDE DEF Tokens
    <2>1. CASE rest' = before BY <1>4, <2>1
    <2>2. CASE rest' = before \o <<Eof>> \o after BY <1>4, <1>5, <2>2
    <2>3. ASSUME after # <<>>, NEW pieces \in Pieces(Head(after)),
                 \/ rest' = Append(before, Head(pieces))
                 \/ rest' = before \o pieces \o Tail(after)
          PROVE  rest' \in Seq(Tokens)
      <3>1. pieces \in Seq(Tokens) /\ pieces # <<>> BY <1>6, <2>3
      <3>2. Head(pieces) \in Tokens /\ Tail(after) \in Seq(Tokens) BY <1>4, <2>3, <3>1
      <3>3. \A s \in Seq(Tokens), e \in Tokens : Append(s, e) \in Seq(Tokens) OBVIOUS
      <3>4. \A s, t \in Seq(Tokens) : s \o t \in Seq(Tokens) OBVIOUS
      <3>5. CASE rest' = Append(before, Head(pieces)) BY ONLY <1>4, <3>2, <3>3, <3>5
      <3>6. CASE rest' = before \o pieces \o Tail(after)
        BY ONLY <1>4, <3>1, <3>2, <3>4, <3>6
      <3> QED BY <2>3, <3>5, <3>6
    <2> QED BY <1>2, <1>3, <2>1, <2>2, <2>3
  <1>8. failures' \in Nat /\ steady' = FALSE BY UnnoticedIs DEF ReadFails
  <1> QED
    BY <1>7, <1>8, QuietInv DEF IInv, TypeOK, ReadFails, docVars, Walk, FirstRead, Reading

\* The end of a section (CosParser.c:388-407).
LEMMA EndSectionInv == ASSUME IInv, EndSection PROVE IInv'
  <1>1. rest' \in Seq(Tokens) BY SkipIs DEF IInv, EndSection
  <1> QED
    BY <1>1, QuietInv DEF IInv, TypeOK, EndSection, histVars, docVars, Walk, FirstRead, Reading

\* The beginning of a trailer dictionary (CosObjParser.c:647-657).
LEMMA BeginTrailerInv == ASSUME IInv, BeginTrailer PROVE IInv'
  <1>1. CASE Peek(1).type # "<<" BY <1>1, FailInv DEF BeginTrailer
  <1>2. CASE Peek(1).type = "<<"
    <2>1. rest' \in Seq(Tokens) BY <1>2, SkipIs DEF IInv, BeginTrailer
    <2>2. dict' = NoEntries BY <1>2 DEF BeginTrailer
    <2>3. dict' \in Dicts BY <2>2 DEF NoEntries, Dicts
    <2> QED
      BY <1>2, <2>1, <2>3, QuietInv
      DEF IInv, TypeOK, BeginTrailer, histVars, docVars, Walk, FirstRead, Reading
  <1> QED BY <1>1, <1>2

\* An entry leaves a Root or none, and a Prev that is an offset or none.
LEMMA WithEntryIs ==
    ASSUME NEW d \in Dicts, NEW key \in {"Root", "Prev", "Size"}, NEW value \in Tokens
    PROVE  /\ WithEntry(d, key, value) \in Dicts
           /\ WithEntry(d, key, value).root = (d.root \/ key = "Root")
           /\ WithEntry(d, key, value).prev = IF key = "Prev" THEN PrevOf(value) ELSE d.prev
  <1>1. PrevOf(value) \in Nat \cup {None} BY DEF PrevOf, Tokens
  <1>2. PICK prev : prev = PrevOf(value) OBVIOUS
  <1>3. CASE key = "Root" BY <1>3 DEF WithEntry, Dicts
  <1>4. CASE key = "Prev"
    <2>1. WithEntry(d, key, value) = [d EXCEPT !.prev = prev] BY <1>2, <1>4 DEF WithEntry
    <2> QED BY <1>1, <1>2, <1>4, <2>1 DEF Dicts
  <1>5. CASE key = "Size" BY <1>5 DEF WithEntry, Dicts
  <1> QED BY <1>3, <1>4, <1>5

\* An entry of a trailer dictionary (cos_handle_dict_entry_).
LEMMA ReadTrailerEntryInv == ASSUME IInv, ReadTrailerEntry PROVE IInv'
  <1>1. /\ pc = "dict" /\ pc' \in {"dict", "undefined"}
        /\ UNCHANGED <<file, at, table, parses, steady, failures, trailer, root, xref, dicts>>
    BY DEF ReadTrailerEntry, histVars, docVars
  <1>2. rest' \in Seq(Tokens) /\ dict' \in Dicts
    <2>1. CASE Peek(1).type = "name"
      <3>1. Peek(1).key \in {"Root", "Prev", "Size"} /\ Peek(2) \in Tokens
        BY <2>1, PeekIs DEF IInv
      <3>2. dict' = WithEntry(dict, Peek(1).key, Peek(2)) /\ Skip(2)
        BY <2>1 DEF ReadTrailerEntry
      <3>3. dict \in Dicts BY DEF IInv, TypeOK
      <3> QED BY <3>1, <3>2, <3>3, SkipIs, WithEntryIs DEF IInv
    <2>2. CASE Peek(1).type # "name" BY <2>2 DEF ReadTrailerEntry, IInv, TypeOK
    <2> QED BY <2>1, <2>2
  <1>3. Walk' /\ FirstRead' BY <1>1 DEF IInv, Walk, FirstRead, Reading
  <1>4. steady' \in BOOLEAN /\ failures' \in Nat /\ at' \in Nat \cup {None}
    BY <1>1 DEF IInv, TypeOK
  <1> QED BY <1>1, <1>2, <1>3, <1>4, QuietInv

\* A new section (CosXrefTableParser.c:97-110), linked to the one before.
LEMMA ParseXrefInv == ASSUME IInv, ParseXref PROVE IInv'
  <1> USE DEF ParseXref
  <1>1. CASE Peek(1).type # "xref" BY <1>1, FailInv
  <1>2. CASE Peek(1).type = "xref"
    <2> DEFINE sec == [parse |-> parses, at |-> at, steady |-> steady,
                       prev |-> None, subsections |-> <<>>]
               base == IF Len(table) < MaxSections THEN table ELSE Front(table)
    <2>1. /\ pc = "xref" /\ pc' = "subsections" /\ table' = Append(base, sec) /\ Skip(1)
          /\ UNCHANGED <<file, at, dict, parses, steady, failures, trailer, root, xref, dicts>>
      BY <1>2 DEF histVars, docVars
    <2>2. /\ table \in Seq(Sections) /\ rest' \in Seq(Tokens) /\ at \in Nat
          /\ parses \in Nat /\ steady \in BOOLEAN
          /\ table # <<>> => Last(table).prev = at
          /\ \A i \in DOMAIN table : WholeAll(table[i].subsections)
          /\ Chained(table)
      BY <2>1, SkipIs DEF IInv, TypeOK, Walk, Counted
    <2>3. /\ sec \in Sections /\ sec.at = at /\ sec.parse = parses /\ sec.steady = steady
          /\ WholeAll(sec.subsections)
      BY <2>2 DEF Sections, WholeAll
    <2>4. /\ base \in Seq(Sections)
          /\ \A i \in 1..Len(base) : i \in 1..Len(table) /\ base[i] = table[i]
          /\ base = <<>> => table = <<>>
          /\ Len(base) + 1 < MaxSections => base = table
      <3>1. CASE Len(table) < MaxSections BY <2>2, <3>1
      <3>2. CASE ~(Len(table) < MaxSections)
        <4>1. Len(table) >= MaxSections /\ Len(table) \in Nat /\ table # <<>>
          BY <2>2, <3>2, MaxSectionsAssumption
        <4>2. /\ base = Front(table) /\ base \in Seq(Sections) /\ Len(base) = Len(table) - 1
              /\ \A i \in 1..(Len(table) - 1) : base[i] = table[i]
          BY <2>2, <3>2, <4>1, LastFront
        <4> QED BY <4>1, <4>2, MaxSectionsAssumption
      <3> QED BY <3>1, <3>2
    <2> HIDE DEF sec, base
    <2>5. /\ table' \in Seq(Sections) /\ table' # <<>> /\ Len(table') = Len(base) + 1
          /\ Last(table') = sec /\ table'[Len(base) + 1] = sec
          /\ \A i \in 1..Len(base) : table'[i] = base[i]
      BY <2>1, <2>3, <2>4, AppendIs
    <2>6. Len(base) \in Nat BY <2>4
    <2>7. TypeOK' BY <2>1, <2>2, <2>5 DEF IInv, TypeOK
    <2>8. Walk' BY <2>1, <2>2, <2>3, <2>5 DEF Walk, Reading
    <2>14. FirstRead'
      <3>1. CASE base = <<>>
        <4>1. table = <<>> /\ Len(table') = 1 /\ table'[1] = sec BY <2>4, <2>5, <3>1
        <4>2. steady => at = Last(file.startxrefs) BY <2>1, <4>1 DEF IInv, Walk
        <4> QED BY <2>1, <2>3, <4>1, <4>2 DEF FirstRead, Reading
      <3>2. CASE base # <<>>
        <4>1. 1 \in 1..Len(base) BY <2>6, <2>4, <3>2
        <4>2. table # <<>> /\ table'[1] = table[1] BY <2>2, <2>4, <2>5, <4>1
        <4>3. /\ table[1].parse = parses
              /\ table[1].steady => table[1].at = Last(file.startxrefs)
              /\ trailer # None /\ trailer.parse = parses /\ trailer.at = table[1].at
          BY <2>1, <4>2 DEF IInv, FirstRead
        <4> QED BY ONLY <2>1, <4>2, <4>3 DEF FirstRead, Reading
      <3> QED BY <3>1, <3>2
    <2>9. Chained(table)'
      <3>2. ASSUME Len(table') < MaxSections, NEW i \in DOMAIN table', i > 1
            PROVE  table'[i - 1].prev = table'[i].at
        <4>1. base = table BY <2>4, <2>5, <3>2
        <4>2. Len(table) < MaxSections BY <2>5, <2>6, <3>2, <4>1, MaxSectionsAssumption
        <4>3. i \in 2..(Len(table) + 1) BY <2>5, <3>2, <4>1
        <4>4. CASE i = Len(table) + 1
          <5>1. table # <<>> BY <3>2, <4>4
          <5>2. Last(table) = table[Len(table)] BY DEF Last
          <5> QED BY <2>2, <2>3, <2>5, <2>6, <3>2, <4>1, <4>4, <5>1, <5>2
        <4>5. CASE i # Len(table) + 1
          <5>1. i \in 1..Len(table) /\ i - 1 \in 1..Len(table) /\ Len(table) \in Nat
            BY <2>2, <3>2, <4>3, <4>5
          <5>2. table'[i] = table[i] /\ table'[i - 1] = table[i - 1] BY <2>5, <4>1, <5>1
          <5> QED BY <2>2, <3>2, <4>2, <5>1, <5>2 DEF Chained
        <4> QED BY <4>4, <4>5
      <3> QED BY <3>2 DEF Chained
    <2>10. Counted'
      <3>1. \A i \in DOMAIN table' : WholeAll(table'[i].subsections)
        <4>1. DOMAIN table' = 1..(Len(base) + 1) BY <2>5
        <4>2. WholeAll(table'[Len(base) + 1].subsections) BY <2>3, <2>5
        <4>3. ASSUME NEW i \in 1..Len(base) PROVE WholeAll(table'[i].subsections)
          <5>1. i \in DOMAIN table /\ table'[i] = table[i] BY <2>2, <2>4, <2>5
          <5> QED BY <2>2, <5>1
        <4> QED BY <2>6, <4>1, <4>2, <4>3
      <3> QED BY <2>1, <3>1 DEF Counted, WholeAll, Whole
    <2> QED BY <2>1, <2>7, <2>8, <2>9, <2>10, <2>14 DEF IInv, Finished, AtStart, Chained
  <1> QED BY <1>1, <1>2

\* The last section changes, and nothing of it but its subsections: all that
\* is said of the sections before it stays true.
LEMMA SectionGrows ==
    ASSUME IInv, pc \in {"subsections", "entries"}, pc' \in {"subsections", "entries"},
           NEW subs \in Seq(Subsections), NEW sec \in Sections,
           sec.at = at, sec.subsections = subs, table' = WithLast(table, sec),
           sec.parse = Last(table).parse, sec.steady = steady,
           pc' = "subsections" => WholeAll(subs),
           pc' = "entries" =>
               subs # <<>> /\ WholeAll(Front(subs)) /\ Len(Last(subs).entries) < Last(subs).count,
           rest' \in Seq(Tokens),
           UNCHANGED <<file, at, dict, parses, steady, failures, trailer, root, xref, dicts>>
    PROVE  IInv'
  <1>1. /\ table \in Seq(Sections) /\ table # <<>> /\ at \in Nat /\ Last(table).at = at
        /\ Last(table).steady = steady
        /\ Chained(table)
        /\ \A i \in DOMAIN table : i < Len(table) => WholeAll(table[i].subsections)
    BY DEF IInv, TypeOK, Walk, Reading, Counted
  <1>2. Last(table) \in Sections /\ Last(table) = table[Len(table)] /\ Len(table) \in Nat \ {0}
    BY <1>1, LastFront
  <1>3. /\ sec \in Sections /\ sec.at = at /\ sec.subsections = subs
        /\ sec.parse = Last(table).parse /\ sec.steady = steady
    OBVIOUS
  <1>4. /\ table' \in Seq(Sections) /\ table' # <<>> /\ Len(table') = Len(table)
        /\ Last(table') = sec /\ table'[Len(table)] = sec
        /\ \A i \in 1..(Len(table) - 1) : table'[i] = table[i]
    <2>1. /\ WithLast(table, sec) \in Seq(Sections) /\ WithLast(table, sec) # <<>>
          /\ Len(WithLast(table, sec)) = Len(table)
          /\ Last(WithLast(table, sec)) = sec /\ WithLast(table, sec)[Len(table)] = sec
          /\ \A i \in 1..(Len(table) - 1) : WithLast(table, sec)[i] = table[i]
      <3> HIDE DEF Sections
      <3>1. table \in Seq(Sections) /\ table # <<>> /\ sec \in Sections BY <1>1
      <3> QED BY ONLY <3>1, WithLastIs
    <2> QED BY <2>1, Zenon
  <1>5. TypeOK' BY <1>4 DEF IInv, TypeOK
  <1>6. Walk' BY <1>1, <1>3, <1>4 DEF Walk, Reading
  <1>9. FirstRead'
    <2>1. /\ table'[1].parse = table[1].parse /\ table'[1].at = table[1].at
          /\ table'[1].steady = table[1].steady
      <3>1. CASE Len(table) = 1 BY <1>1, <1>2, <1>3, <1>4, <3>1
      <3>2. CASE Len(table) # 1
        <4>2. \A n \in Nat \ {0} : n # 1 => 1 \in 1..(n - 1) OBVIOUS
        <4>1. 1 \in 1..(Len(table) - 1) BY <1>2, <3>2, <4>2
        <4> QED BY <1>4, <4>1
      <3> QED BY <3>1, <3>2
    <2> QED BY <1>1, <1>4, <2>1 DEF IInv, FirstRead, Reading
  <1>7. Chained(table)'
    <2>1. DOMAIN table' = 1..Len(table) /\ DOMAIN table = 1..Len(table) BY <1>1, <1>4
    <2>2. \A i \in 1..Len(table) : table'[i].at = table[i].at
      <3>1. \A i \in 1..Len(table) : i \in 1..(Len(table) - 1) \/ i = Len(table) BY <1>2
      <3>2. table'[Len(table)].at = table[Len(table)].at BY ONLY <1>1, <1>2, <1>3, <1>4
      <3> QED BY ONLY <1>4, <3>1, <3>2
    <2>3. ASSUME NEW i \in 1..Len(table), i > 1 PROVE table'[i - 1].prev = table[i - 1].prev
      <3>1. i - 1 \in 1..(Len(table) - 1) BY <1>2, <2>3
      <3> QED BY <1>4, <3>1
    <2> QED BY <1>1, <1>2, <1>4, <2>1, <2>2, <2>3 DEF Chained
  <1>8. Counted'
    <2>1. DOMAIN table' = 1..Len(table) /\ DOMAIN table = 1..Len(table) BY <1>1, <1>4
    <2>2. ASSUME NEW i \in 1..Len(table), i < Len(table) \/ pc' # "entries"
          PROVE  WholeAll(table'[i].subsections)
      <3>1. CASE i < Len(table)
        <4>1. i \in 1..(Len(table) - 1) BY <1>2, <3>1
        <4> QED BY <1>1, <1>4, <2>1, <3>1, <4>1
      <3>2. CASE ~(i < Len(table))
        <4>1. i = Len(table) /\ pc' = "subsections" BY <1>2, <2>2, <3>2
        <4> QED BY <1>3, <1>4, <4>1
      <3> QED BY <3>1, <3>2
    <2> QED BY <1>2, <1>3, <1>4, <2>1, <2>2 DEF Counted, WholeAll, Whole
  <1> QED BY <1>5, <1>6, <1>7, <1>8, <1>9 DEF IInv, Finished, AtStart, Chained

\* The section that is being read.
LEMMA SectionBeingRead ==
    ASSUME IInv, pc \in Reading
    PROVE  /\ Last(table) \in Sections /\ Last(table).at = at
           /\ Last(table).steady = steady
           /\ Last(table).subsections \in Seq(Subsections)
           /\ pc # "entries" => WholeAll(Last(table).subsections)
           /\ pc = "entries" =>
                 LET subs == Last(table).subsections
                 IN  /\ subs # <<>> /\ WholeAll(Front(subs)) /\ Last(subs) \in Subsections
                     /\ Len(Last(subs).entries) < Last(subs).count
  <1>1. /\ table \in Seq(Sections) /\ table # <<>> /\ Last(table).at = at
        /\ Last(table).steady = steady
    BY DEF IInv, TypeOK, Walk
  <1>2. Last(table) \in Sections /\ Last(table) = table[Len(table)] /\ Len(table) \in Nat \ {0}
    BY <1>1, LastFront
  <1>3. Last(table).subsections \in Seq(Subsections) BY <1>2, SectionIs
  <1>4. pc # "entries" => WholeAll(Last(table).subsections)
    BY <1>1, <1>2 DEF IInv, Counted
  <1>5. pc = "entries" =>
            LET subs == Last(table).subsections
            IN  /\ subs # <<>> /\ WholeAll(Front(subs))
                /\ Len(Last(subs).entries) < Last(subs).count
    BY DEF IInv, Counted
  <1>6. pc = "entries" => Last(Last(table).subsections) \in Subsections
    <2> HIDE DEF Subsections
    <2> QED BY <1>3, <1>5, LastFront
  <1> QED BY <1>1, <1>2, <1>3, <1>4, <1>5, <1>6

\* A subsection header (CosXrefTableParser.c:233-290) opens a subsection that
\* lacks all its entries, or is whole because it has none.
LEMMA ReadSubsectionHeaderInv == ASSUME IInv, ReadSubsectionHeader PROVE IInv'
  <1>1. CASE ~IsCount(2) BY <1>1, FailInv DEF ReadSubsectionHeader
  <1>2. CASE IsCount(2)
    <2> DEFINE sub == [first |-> Peek(1).value % UnsignedRange,
                       count |-> Peek(2).value, entries |-> <<>>]
               old == Last(table).subsections
               new == Append(old, sub)
               sec == [Last(table) EXCEPT !.subsections = new]
    <2>1. /\ pc = "subsections" /\ IsInt(1) /\ IsInt(2) /\ Peek(2).value >= 0
          /\ Skip(2)
          /\ UNCHANGED <<file, at, dict, parses, steady, failures, trailer, root, xref, dicts>>
          /\ pc' = IF Peek(2).value = 0 THEN "subsections" ELSE "entries"
      BY <1>2 DEF ReadSubsectionHeader, IsCount, histVars, docVars
    <2>2. table' = WithLast(table, sec)
      <3>1. table' = WithLast(table, [Last(table) EXCEPT !.subsections = Append(@, sub)])
        BY <1>2, Zenon DEF ReadSubsectionHeader
      <3> QED BY <3>1, Zenon
    <2>3. /\ Last(table) \in Sections /\ Last(table).at = at /\ Last(table).steady = steady
          /\ old \in Seq(Subsections) /\ WholeAll(old)
      BY <2>1, SectionBeingRead DEF Reading
    <2>4. sub \in Subsections
      <3>1. Peek(1).value \in Int /\ Peek(2).value \in Nat BY <2>1, PeekIs DEF IInv
      <3>2. Peek(1).value % UnsignedRange \in Nat BY <3>1, CastIs
      <3> QED BY <3>1, <3>2 DEF Subsections
    <2>5. sub.entries = <<>> /\ sub.count = Peek(2).value OBVIOUS
    <2>6. rest' \in Seq(Tokens) BY <2>1, SkipIs DEF IInv
    <2> HIDE DEF sub, old
    <2>7. /\ new \in Seq(Subsections) /\ new # <<>> /\ Len(new) = Len(old) + 1 /\ Last(new) = sub
          /\ new[Len(old) + 1] = sub /\ \A i \in 1..Len(old) : new[i] = old[i]
      <3> HIDE DEF Subsections
      <3> QED BY <2>3, <2>4, AppendIs
    <2>8. /\ Front(new) \in Seq(Subsections) /\ Len(Front(new)) = Len(old)
          /\ \A i \in 1..Len(old) : Front(new)[i] = old[i]
      <3> HIDE DEF new
      <3>1. /\ Front(new) \in Seq(Subsections) /\ Len(Front(new)) = Len(new) - 1
            /\ \A i \in 1..(Len(new) - 1) : Front(new)[i] = new[i]
        BY <2>7, LastFront
      <3> QED BY <2>3, <2>7, <3>1
    <2> HIDE DEF new
    <2>9. /\ sec \in Sections /\ sec.at = at /\ sec.subsections = new
          /\ sec.parse = Last(table).parse /\ sec.steady = steady
      BY <2>3, <2>7, SectionIs
    <2> HIDE DEF sec
    <2>10. pc' = "subsections" => WholeAll(new)
      <3>1. pc' = "subsections" => Whole(sub) BY <2>1, <2>5 DEF Whole
      <3> QED BY <2>3, <2>7, <3>1 DEF WholeAll
    <2>11. WholeAll(Front(new)) BY <2>3, <2>8 DEF WholeAll
    <2>12. pc' = "entries" => Len(Last(new).entries) < Last(new).count
      <3>1. Peek(2).value \in Nat BY <2>1, PeekIs DEF IInv
      <3> QED BY <2>1, <2>5, <2>7, <3>1
    <2>13. pc \in {"subsections", "entries"} /\ pc' \in {"subsections", "entries"} BY <2>1
    <2> HIDE DEF Sections, Subsections
    <2> QED BY ONLY IInv, <2>1, <2>2, <2>6, <2>7, <2>9, <2>10, <2>11, <2>12, <2>13, SectionGrows
  <1> QED BY <1>1, <1>2

\* An entry (CosXrefTableParser.c:161-231); the last one makes its subsection
\* whole.
LEMMA ReadEntryInv == ASSUME IInv, ReadEntry PROVE IInv'
  <1> DEFINE Ok == IsInt(1) /\ IsInt(2) /\ Peek(3).type \in {"n", "f"}
  <1>1. CASE ~Ok BY <1>1, FailInv DEF ReadEntry
  <1>2. CASE Ok
    <2> DEFINE entry == [type |-> Peek(3).type,
                         at |-> Peek(1).value % UnsignedRange,
                         gen |-> Peek(2).value % UnsignedRange]
               old == Last(table).subsections
               sub == [Last(old) EXCEPT !.entries = Append(@, entry)]
               new == WithLast(old, sub)
               sec == [Last(table) EXCEPT !.subsections = new]
    <2>1. /\ pc = "entries" /\ Skip(3)
          /\ UNCHANGED <<file, at, dict, parses, steady, failures, trailer, root, xref, dicts>>
          /\ pc' = IF Len(sub.entries) = sub.count THEN "subsections" ELSE "entries"
      BY <1>2 DEF ReadEntry, histVars, docVars
    <2>2. table' = WithLast(table, sec)
      <3>1. table' = WithLast(table, [Last(table) EXCEPT !.subsections = WithLast(@, sub)])
        BY <1>2, Zenon DEF ReadEntry
      <3> QED BY <3>1, Zenon
    <2>3. /\ Last(table) \in Sections /\ Last(table).at = at /\ Last(table).steady = steady
          /\ old \in Seq(Subsections) /\ old # <<>> /\ WholeAll(Front(old))
          /\ Last(old) \in Subsections /\ Len(Last(old).entries) < Last(old).count
      BY <2>1, SectionBeingRead DEF Reading
    <2>4. entry \in Entries
      <3>1. Peek(1).value \in Int /\ Peek(2).value \in Int BY <1>2, PeekIs DEF IInv
      <3>2. Peek(1).value % UnsignedRange \in Nat /\ Peek(2).value % UnsignedRange \in Nat
        BY <3>1, CastIs
      <3> QED BY <1>2, <3>2 DEF Entries
    <2>5. rest' \in Seq(Tokens) BY <2>1, SkipIs DEF IInv
    <2> HIDE DEF entry, old
    <2>6. /\ sub \in Subsections /\ sub.count = Last(old).count
          /\ Len(sub.entries) = Len(Last(old).entries) + 1
          /\ Len(Last(old).entries) \in Nat
      <3> DEFINE entries == Append(Last(old).entries, entry)
      <3>1. /\ Last(old).first \in Nat /\ Last(old).count \in Nat
            /\ Last(old).entries \in Seq(Entries)
            /\ Last(old) = [first |-> Last(old).first, count |-> Last(old).count,
                             entries |-> Last(old).entries]
        BY <2>3 DEF Subsections
      <3>2. entries \in Seq(Entries) /\ Len(entries) = Len(Last(old).entries) + 1
        <4> HIDE DEF Entries
        <4> QED BY <2>4, <3>1, AppendIs
      <3>3. sub = [first |-> Last(old).first, count |-> Last(old).count, entries |-> entries]
        BY <3>1
      <3> HIDE DEF sub, entries
      <3> QED BY <3>1, <3>2, <3>3 DEF Subsections
    <2> HIDE DEF sub
    <2>7. /\ new \in Seq(Subsections) /\ new # <<>> /\ Len(new) = Len(old) /\ Last(new) = sub
          /\ new[Len(old)] = sub /\ \A i \in 1..(Len(old) - 1) : new[i] = old[i]
      <3> HIDE DEF Subsections
      <3>1. old \in Seq(Subsections) /\ old # <<>> /\ sub \in Subsections BY <2>3, <2>6
      <3> QED BY ONLY <3>1, WithLastIs
    <2> HIDE DEF new
    <2>8. /\ Len(old) \in Nat \ {0}
          /\ Len(Front(new)) = Len(old) - 1 /\ Front(new) \in Seq(Subsections)
          /\ Len(Front(old)) = Len(old) - 1 /\ Front(old) \in Seq(Subsections)
          /\ \A i \in 1..(Len(old) - 1) : Front(new)[i] = old[i] /\ Front(old)[i] = old[i]
      <3> HIDE DEF Subsections
      <3>1. /\ Front(new) \in Seq(Subsections) /\ Len(Front(new)) = Len(new) - 1
            /\ \A i \in 1..(Len(new) - 1) : Front(new)[i] = new[i]
        BY <2>7, LastFront
      <3>2. /\ Len(old) \in Nat \ {0}
            /\ Front(old) \in Seq(Subsections) /\ Len(Front(old)) = Len(old) - 1
            /\ \A i \in 1..(Len(old) - 1) : Front(old)[i] = old[i]
        BY <2>3, LastFront
      <3> QED BY <2>7, <3>1, <3>2
    <2>9. WholeAll(Front(new)) BY <2>3, <2>8 DEF WholeAll
    <2>10. /\ sec \in Sections /\ sec.at = at /\ sec.subsections = new
           /\ sec.parse = Last(table).parse /\ sec.steady = steady
      BY <2>3, <2>7, SectionIs
    <2> HIDE DEF sec
    <2>11. pc' = "subsections" => WholeAll(new)
      <3>1. pc' = "subsections" => Whole(sub) BY <2>1 DEF Whole
      <3>2. \A i \in 1..(Len(old) - 1) : Whole(new[i]) BY <2>7, <2>8, <2>9 DEF WholeAll
      <3> QED BY <2>7, <2>8, <3>1, <3>2 DEF WholeAll
    <2>12. pc' = "entries" => Len(Last(new).entries) < Last(new).count
      <3>1. sub.count \in Nat BY <2>6 DEF Subsections
      <3> QED BY <2>1, <2>3, <2>6, <2>7, <3>1
    <2>13. pc \in {"subsections", "entries"} /\ pc' \in {"subsections", "entries"} BY <2>1
    <2> HIDE DEF Sections, Subsections
    <2> QED BY ONLY IInv, <2>1, <2>2, <2>5, <2>7, <2>9, <2>10, <2>11, <2>12, <2>13, SectionGrows
  <1> QED BY <1>1, <1>2

\* The end of a trailer dictionary (CosParser.c:409-466): the newest goes to the
\* document, the oldest completes the table.
LEMMA EndTrailerInv == ASSUME IInv, EndTrailer PROVE IInv'
  <1> DEFINE new == [parse |-> parses, at |-> at, steady |-> steady, root |-> dict.root]
             sec == [Last(table) EXCEPT !.prev = dict.prev]
             read == WithLast(table, sec)
  <1>1. /\ pc = "dict" /\ UNCHANGED <<file, parses, steady, failures>>
        /\ rest' = <<>> /\ dict' = NoEntries
        /\ IF Own(table) THEN UNCHANGED <<trailer, root, dicts>>
           ELSE trailer' = new /\ dicts' = TrailerReplaced(new) /\ root' = RootSet(new)
        /\ IF IsLast(dict)
             THEN xref' = read /\ table' = <<>> /\ pc' = "idle" /\ at' = None
             ELSE table' = read /\ pc' = "seek" /\ at' = dict.prev /\ UNCHANGED xref
    BY DEF EndTrailer, histVars
  <1>2. /\ table \in Seq(Sections) /\ table # <<>> /\ at \in Nat
        /\ parses \in Nat /\ steady \in BOOLEAN
        /\ table[1].parse = parses
        /\ table[1].steady => table[1].at = Last(file.startxrefs)
        /\ Len(table) > 1 => trailer # None /\ trailer.parse = parses /\ trailer.at = table[1].at
        /\ Chained(table) /\ \A i \in DOMAIN table : WholeAll(table[i].subsections)
    BY <1>1 DEF IInv, TypeOK, Walk, FirstRead, Counted, Reading
  <1>3. /\ Last(table) \in Sections /\ Last(table).at = at /\ Last(table).steady = steady
        /\ Last(table) = table[Len(table)] /\ Len(table) \in Nat \ {0}
    <2> HIDE DEF Sections
    <2>1. Last(table).at = at /\ Last(table).steady = steady
      BY <1>1, SectionBeingRead DEF Reading
    <2> QED BY <1>2, <2>1, LastFront
  <1>4. dict.root \in BOOLEAN /\ dict.prev \in Nat \cup {None}
    BY DEF IInv, TypeOK, Dicts
  <1>5. /\ sec \in Sections /\ sec.at = at /\ sec.prev = dict.prev
        /\ sec.subsections = Last(table).subsections
        /\ sec.parse = Last(table).parse /\ sec.steady = steady
    BY <1>3, <1>4, SectionIs
  <1> HIDE DEF sec
  <1>6. /\ read \in Seq(Sections) /\ read # <<>> /\ Len(read) = Len(table) /\ Last(read) = sec
        /\ read[Len(table)] = sec /\ \A i \in 1..(Len(table) - 1) : read[i] = table[i]
    <2> HIDE DEF Sections
    <2>1. table \in Seq(Sections) /\ table # <<>> /\ sec \in Sections BY <1>2, <1>5
    <2> QED BY ONLY <2>1, WithLastIs
  <1> HIDE DEF read
  <1>7. Chained(read)
    <2>1. DOMAIN read = 1..Len(table) /\ DOMAIN table = 1..Len(table) BY <1>2, <1>6
    <2>2. \A i \in 1..Len(table) : read[i].at = table[i].at BY <1>3, <1>5, <1>6
    <2>3. ASSUME NEW i \in 1..Len(table), i > 1 PROVE read[i - 1].prev = table[i - 1].prev
      <3>1. i - 1 \in 1..(Len(table) - 1) BY <1>3, <2>3
      <3> QED BY <1>6, <3>1
    <2> QED BY SMTT(30), <1>2, <1>3, <1>6, <2>1, <2>2, <2>3 DEF Chained
  <1>8. \A i \in DOMAIN read : WholeAll(read[i].subsections)
    <2>1. DOMAIN read = 1..Len(table) /\ DOMAIN table = 1..Len(table) BY <1>2, <1>6
    <2> QED BY <1>2, <1>3, <1>5, <1>6, <2>1
  <1>9. /\ read[1].parse = parses /\ read[1].at = table[1].at
        /\ read[1].steady => read[1].at = Last(file.startxrefs)
    <2>1. CASE Len(table) = 1 BY <1>2, <1>3, <1>5, <1>6, <2>1
    <2>2. CASE Len(table) # 1
      <3>1. 1 \in 1..(Len(table) - 1) BY <1>3, <2>2
      <3> QED BY <1>2, <1>6, <3>1
    <2> QED BY <2>1, <2>2
  <1>10. /\ new \in Trailers /\ new.at = at /\ new.parse = parses /\ new.steady = steady
         /\ new # None
    <2>1. new \in Trailers /\ new.at = at /\ new.parse = parses /\ new.steady = steady
      BY <1>2, <1>4 DEF Trailers
    <2> QED BY <2>1, NoneAssumption
  <1> HIDE DEF new
  <1>11. /\ trailer' \in Trailers /\ root' \in Trailers \cup {None}
         /\ trailer'.parse = parses /\ trailer'.at = table[1].at
         /\ trailer'.steady => trailer'.at = Last(file.startxrefs)
         /\ dicts' = {trailer'} \ {None} /\ trailer' # None
    <2>1. /\ trailer \in Trailers \cup {None} /\ root \in Trailers \cup {None}
          /\ dicts = {trailer} \ {None} /\ AtStart
      BY DEF IInv, TypeOK
    <2>2. CASE Own(table)
      BY <1>1, <1>2, <1>3, <2>1, <2>2 DEF Own, AtStart
    <2>3. CASE ~Own(table)
      <3>6. Len(table) \in Nat \ {0} /\ ~(Len(table) > 1) BY <1>3, <2>3 DEF Own
      <3>1. Len(table) = 1 BY ONLY <3>6
      <3>2. at = table[1].at /\ table[1].steady = steady BY <1>3, <3>1
      <3>3. trailer' = new /\ dicts' = TrailerReplaced(new) /\ root' = RootSet(new)
        BY <1>1, <2>3
      <3>4. dicts' = {new} BY <2>1, <3>3 DEF TrailerReplaced
      <3>5. root' \in Trailers \cup {None} BY <1>10, <2>1, <3>3 DEF RootSet
      <3> QED BY <1>2, <1>10, <3>2, <3>3, <3>4, <3>5
    <2> QED BY <2>2, <2>3
  <1>12. dict' \in Dicts BY <1>1 DEF NoEntries, Dicts
  <1>13. CASE IsLast(dict)
    <2>1. /\ xref' = read /\ table' = <<>> /\ pc' = "idle" /\ at' = None /\ rest' = <<>>
          /\ UNCHANGED <<file, parses, steady, failures>>
      BY <1>1, <1>13
    <2>2. TypeOK' BY <1>6, <1>11, <1>12, <2>1 DEF IInv, TypeOK
    <2>3. Finished'
      <3>1. Last(read).prev = None BY <1>5, <1>6, <1>13 DEF IsLast
      <3>2. Chained(xref)' BY <1>7, <2>1 DEF Chained
      <3>3. xref' # <<>> /\ Last(xref').prev = None BY <1>6, <2>1, <3>1
      <3>4. \A i \in DOMAIN xref' : WholeAll(xref'[i].subsections) BY <1>8, <2>1
      <3>5. /\ trailer' # None /\ trailer'.at = xref'[1].at
            /\ xref'[1].parse <= parses'
            /\ xref'[1].steady => xref'[1].at = Last(file'.startxrefs)
        BY <1>2, <1>9, <1>11, <2>1
      <3> QED BY ONLY <2>1, <3>2, <3>3, <3>4, <3>5 DEF Finished, WholeAll, Whole
    <2>4. Walk' /\ FirstRead' /\ Chained(table)' /\ Counted'
      BY <2>1 DEF Walk, FirstRead, Chained, Counted, Reading
    <2> QED BY <1>11, <2>1, <2>2, <2>3, <2>4 DEF IInv, AtStart
  <1>14. CASE ~IsLast(dict)
    <2>1. /\ table' = read /\ pc' = "seek" /\ at' = dict.prev /\ rest' = <<>>
          /\ xref' = xref /\ UNCHANGED <<file, parses, steady, failures>>
      BY <1>1, <1>14
    <2>2. dict.prev \in Nat BY <1>4, <1>14 DEF IsLast
    <2>3. TypeOK' BY <1>6, <1>11, <1>12, <2>1, <2>2 DEF IInv, TypeOK
    <2>4. Walk' BY <1>5, <1>6, <2>1, <2>2 DEF Walk, Reading
    <2>5. FirstRead' BY <1>6, <1>9, <1>11, <2>1 DEF FirstRead, Reading
    <2>6. Chained(table)' BY <1>7, <2>1 DEF Chained
    <2>7. Counted' BY <1>8, <2>1 DEF Counted
    <2>8. Finished'
      <3>1. ASSUME xref # None PROVE xref[1].parse < parses /\ xref[1].parse # trailer'.parse
        <4>1. xref[1].parse < parses BY <1>1, <3>1 DEF IInv, Finished
        <4>2. xref[1] \in Sections
          <5>1. xref \in Seq(Sections) /\ xref # <<>> BY <3>1 DEF IInv, TypeOK, Finished
          <5> HIDE DEF Sections
          <5> QED BY ONLY <5>1
        <4>3. xref[1].parse \in Nat BY <4>2, SectionIs
        <4> QED BY <1>2, <1>11, <4>1, <4>3
      <3> QED BY <1>1, <1>11, <2>1, <3>1 DEF IInv, Finished, Chained
    <2> QED BY <1>11, <2>1, <2>3, <2>4, <2>5, <2>6, <2>7, <2>8 DEF IInv, AtStart
  <1> QED BY <1>13, <1>14

-----------------------------------------------------------------------------
(* The theorems *)

\* Every step keeps the invariant.
LEMMA NextInv == IInv /\ [Next]_vars => IInv'
  <1> SUFFICES ASSUME IInv, [Next]_vars PROVE IInv' OBVIOUS
  <1>1. CASE Parse BY <1>1, ParseInv
  <1>2. CASE ParseHeader BY <1>2, ParseHeaderInv
  <1>3. CASE FindStartxref BY <1>3, FindStartxrefInv
  <1>4. CASE NoStartxref BY <1>4, FailInv DEF NoStartxref
  <1>5. CASE StreamFails BY <1>5, FailInv DEF StreamFails
  <1>6. CASE Seek BY <1>6, SeekInv
  <1>7. CASE ReadFails BY <1>7, ReadFailsInv
  <1>8. CASE ParseXref BY <1>8, ParseXrefInv
  <1>9. CASE ReadSubsectionHeader BY <1>9, ReadSubsectionHeaderInv
  <1>10. CASE ReadEntry BY <1>10, ReadEntryInv
  <1>11. CASE EndSection BY <1>11, EndSectionInv
  <1>12. CASE BeginTrailer BY <1>12, BeginTrailerInv
  <1>13. CASE ReadTrailerEntry BY <1>13, ReadTrailerEntryInv
  <1>14. CASE EndTrailer BY <1>14, EndTrailerInv
  <1>15. CASE UNCHANGED vars
    BY <1>15 DEF vars, histVars, docVars, IInv, TypeOK, Walk, FirstRead, Chained, Counted,
                 Finished, AtStart
  <1> QED
    BY <1>1, <1>2, <1>3, <1>4, <1>5, <1>6, <1>7, <1>8, <1>9, <1>10, <1>11, <1>12, <1>13, <1>14,
       <1>15
    DEF Next, Step

\* The invariant holds in every state.
LEMMA Invariance == Spec => []IInv
  BY InitInv, NextInv, PTL DEF Spec

\* The types, for every file.
THEOREM TypeOKAlways == Spec => []TypeOK
  <1>1. IInv => TypeOK BY DEF IInv
  <1> QED BY <1>1, Invariance, PTL

\* The trailer of the document is that of the newest revision of its table, or
\* a read has failed unnoticed on the way to one of the two.
THEOREM TrailerIsNewestAlways == Spec => []TrailerIsNewest
  <1>1. IInv => TrailerIsNewest BY DEF IInv, Finished, AtStart, TrailerIsNewest
  <1> QED BY <1>1, Invariance, PTL

\* No trailer dictionary leaks and none is destroyed twice.
THEOREM OneTrailerAlways == Spec => []OneTrailer
  <1>1. IInv => OneTrailer BY DEF IInv, OneTrailer
  <1> QED BY <1>1, Invariance, PTL

-----------------------------------------------------------------------------
(* What is read where no read fails *)

\* The first n tokens are such as a section consists of.
InSection(ts, n) == \A i \in 1..n : ts[i].type \in {"xref", "int", "n", "f"}

\* Of the tokens ts, i have been read and r is ahead.
IsAhead(ts, r, i) ==
    /\ i + Len(r) = Len(ts)
    /\ \A k \in 1..Len(r) : r[k] = ts[i + k]

\* Whether there is a Root in the first m entries.
IsRoot(ts, o, m, has) == has <=> \E k \in 1..m : ts[o + 2 * k - 1].key = "Root"

\* A trailer that begins with the o-th token is read as far as its first m entries.
InTrailer(ts, r, d, o, m) ==
    /\ IsAhead(ts, r, o + 2 * m)
    /\ ts[o].type = "<<" /\ InSection(ts, o - 2)
    /\ \A k \in 1..m : IsEntry(ts, o + 2 * k - 1)
    /\ IsRoot(ts, o, m, d.root) /\ IsPrev(ts, o, m, d.prev)

ReadSoFar ==
    LET ts == TokensAt(at)
    IN  /\ pc = "xref" => rest = ts
        /\ pc \in {"subsections", "entries"} =>
              \E i \in Nat : IsAhead(ts, rest, i) /\ InSection(ts, i)
        /\ pc = "trailer" /\ rest # <<>> =>
              \E i \in Nat : i > 0 /\ IsAhead(ts, rest, i) /\ InSection(ts, i - 1)
        /\ pc = "dict" =>
              \E o \in DOMAIN ts, m \in Nat : InTrailer(ts, rest, dict, o, m)

PrevWritten(ts, prev) ==
    \E o \in DOMAIN ts, m \in 0..Len(ts) : IsTrailer(ts, o, m) /\ IsPrev(ts, o, m, prev)

RootWritten(ts, has) ==
    \E o \in DOMAIN ts, m \in 0..Len(ts) : IsTrailer(ts, o, m) /\ IsRoot(ts, o, m, has)

\* The sections of the table whose trailers are read.
TableWritten ==
    \A i \in DOMAIN table :
        table[i].steady /\ (i < Len(table) \/ pc \in {"seek", "xref"})
        => PrevWritten(TokensAt(table[i].at), table[i].prev)

XrefWritten ==
    xref # None =>
        \A i \in DOMAIN xref : xref[i].steady => PrevWritten(TokensAt(xref[i].at), xref[i].prev)

\* The trailer and the root are those of the last startxref; two that were read
\* there without a failure are the same text.
Rooted ==
    /\ trailer # None /\ trailer.steady => RootWritten(TokensAt(trailer.at), trailer.root)
    /\ root # None =>
          /\ trailer # None /\ root.root
          /\ root.steady =>
                root.at = Last(file.startxrefs) /\ RootWritten(TokensAt(root.at), TRUE)
    /\ RootInTrailer

WInv == (steady => ReadSoFar) /\ TableWritten /\ XrefWritten /\ Rooted

\* What is ahead after n more tokens have been read.
LEMMA Advance ==
    ASSUME NEW S, NEW ts \in Seq(S), NEW r \in Seq(S), NEW i \in Nat, IsAhead(ts, r, i),
           NEW n \in 0..Len(r)
    PROVE  /\ IsAhead(ts, SubSeq(r, n + 1, Len(r)), i + n)
           /\ i + n <= Len(ts) /\ \A k \in 1..n : r[k] = ts[i + k]
           /\ SubSeq(r, n + 1, Len(r)) \in Seq(S)
  <1> DEFINE s == SubSeq(r, n + 1, Len(r))
  <1>1. Len(r) \in Nat /\ Len(ts) \in Nat /\ n \in Nat /\ n <= Len(r) OBVIOUS
  <1>2. s \in Seq(S) /\ Len(s) = Len(r) - n BY <1>1
  <1>3. \A k \in 1..Len(s) : s[k] = r[n + k] BY <1>1
  <1> HIDE DEF s
  <1>4. i + Len(r) = Len(ts) /\ \A k \in 1..Len(r) : r[k] = ts[i + k] BY DEF IsAhead
  <1>5. \A k \in 1..Len(s) : n + k \in 1..Len(r) /\ i + (n + k) = (i + n) + k BY <1>1, <1>2
  <1>6. \A k \in 1..Len(s) : s[k] = ts[(i + n) + k] BY <1>3, <1>4, <1>5
  <1>7. (i + n) + Len(s) = Len(ts) BY <1>1, <1>2, <1>4
  <1>8. IsAhead(ts, s, i + n) BY <1>6, <1>7 DEF IsAhead
  <1> QED BY <1>1, <1>2, <1>4, <1>8 DEF s

\* A token that is not that of the end is one of those ahead.
LEMMA PeekNotEof ==
    ASSUME TypeOK, NEW n \in Nat \ {0}, Peek(n).type # "eof"
    PROVE  n <= Len(rest) /\ Peek(n) = rest[n]
  BY DEF Peek, Eof

\* The n-th token ahead is that of the text, or the end of it.
LEMMA PeekAhead ==
    ASSUME TypeOK, NEW ts \in Seq(Tokens), NEW i \in Nat, IsAhead(ts, rest, i), NEW n \in Nat \ {0}
    PROVE  /\ i + n \in DOMAIN ts => Peek(n) = ts[i + n]
           /\ i + n \notin DOMAIN ts => Peek(n) = Eof
  <1>1. Len(rest) \in Nat /\ Len(ts) \in Nat BY DEF TypeOK
  <1>2. i + Len(rest) = Len(ts) /\ \A k \in 1..Len(rest) : rest[k] = ts[i + k] BY DEF IsAhead
  <1>3. DOMAIN ts = 1..Len(ts) OBVIOUS
  <1>4. CASE n <= Len(rest)
    <2>1. n \in 1..Len(rest) /\ i + n \in 1..Len(ts) BY <1>1, <1>2, <1>4
    <2> QED BY ONLY <1>2, <1>3, <1>4, <2>1 DEF Peek
  <1>5. CASE ~(n <= Len(rest))
    <2>1. i + n \notin 1..Len(ts) BY <1>1, <1>2, <1>5
    <2> QED BY ONLY <1>3, <1>5, <2>1 DEF Peek
  <1> QED BY <1>4, <1>5

\* A revision has one trailer: no dictionary is the first key of another.
LEMMA OneTrailerWritten ==
    ASSUME NEW f \in Files, NEW offset \in Offsets, NEW ts, ts = f.tokens[offset],
           NEW o \in DOMAIN ts, NEW m \in Nat, IsTrailer(ts, o, m),
           NEW p \in DOMAIN ts, NEW n \in Nat, IsTrailer(ts, p, n)
    PROVE  o = p /\ m = n
  <1>1. /\ ts \in Seq(Tokens)
        /\ \A i \in 2..Len(ts) : ts[i - 1].type = "<<" => ts[i].type # "<<"
    BY FilesAssumption
  <1>2. Len(ts) \in Nat /\ o \in 1..Len(ts) /\ p \in 1..Len(ts) BY <1>1
  <1>3. ASSUME NEW a \in 1..Len(ts), NEW b \in 1..Len(ts), a < b,
               ts[a].type = "<<", ts[b].type = "<<",
               \A i \in 1..(b - 2) : ts[i].type \in {"xref", "int", "n", "f"}
        PROVE  FALSE
    <2>1. a \notin 1..(b - 2) BY <1>3
    <2>2. a = b - 1 BY <1>2, <1>3, <2>1
    <2>3. b \in 2..Len(ts) BY <1>2, <1>3
    <2> QED BY <1>1, <1>3, <2>2, <2>3
  <1>4. /\ ts[o].type = "<<" /\ \A i \in 1..(o - 2) : ts[i].type \in {"xref", "int", "n", "f"}
        /\ ts[p].type = "<<" /\ \A i \in 1..(p - 2) : ts[i].type \in {"xref", "int", "n", "f"}
    BY DEF IsTrailer
  <1>5. o = p
    <2>1. ~(o < p) BY ONLY <1>2, <1>3, <1>4
    <2>2. ~(p < o) BY ONLY <1>2, <1>3, <1>4
    <2> QED BY <1>2, <2>1, <2>2
  <1>6. ASSUME NEW a \in Nat, NEW b \in Nat, a < b,
               ~IsEntry(ts, o + 2 * a + 1), \A k \in 1..b : IsEntry(ts, o + 2 * k - 1)
        PROVE  FALSE
    <2>1. a + 1 \in 1..b /\ o + 2 * (a + 1) - 1 = o + 2 * a + 1 BY <1>2, <1>6
    <2>2. IsEntry(ts, o + 2 * (a + 1) - 1) BY <1>6, <2>1
    <2> QED BY <1>6, <2>1, <2>2
  <1>7. /\ ~IsEntry(ts, o + 2 * m + 1) /\ \A k \in 1..m : IsEntry(ts, o + 2 * k - 1)
        /\ ~IsEntry(ts, o + 2 * n + 1) /\ \A k \in 1..n : IsEntry(ts, o + 2 * k - 1)
    BY <1>5 DEF IsTrailer
  <1>8. m = n
    <2>1. ~(m < n) BY ONLY <1>6, <1>7
    <2>2. ~(n < m) BY ONLY <1>6, <1>7
    <2> QED BY <2>1, <2>2
  <1> QED BY <1>5, <1>8

\* A step that leaves the trailer, the root and the finished table alone.
LEMMA DocStays ==
    ASSUME WInv, UNCHANGED <<file, trailer, root, xref>>, steady' => ReadSoFar', TableWritten'
    PROVE  WInv'
  <1>1. XrefWritten' BY DEF WInv, XrefWritten, TokensAt
  <1>2. Rooted' BY DEF WInv, Rooted, RootInTrailer, TokensAt
  <1> QED BY <1>1, <1>2 DEF WInv

\* Sections whose trailers were read before are as they were.
LEMMA SectionsStay ==
    ASSUME WInv, UNCHANGED file,
           \A i \in DOMAIN table' :
               i < Len(table') \/ pc' \in {"seek", "xref"} =>
                   /\ i \in DOMAIN table /\ table'[i] = table[i]
                   /\ i < Len(table) \/ pc \in {"seek", "xref"}
    PROVE  TableWritten'
  BY DEF WInv, TableWritten, TokensAt

\* And the table, too.
LEMMA TableStays ==
    ASSUME WInv, UNCHANGED <<file, table, trailer, root, xref>>, steady' => ReadSoFar',
           pc' \in {"seek", "xref"} => pc \in {"seek", "xref"} \/ table = <<>>
    PROVE  WInv'
  <1>1. TableWritten' BY DEF WInv, TableWritten, TokensAt
  <1> QED BY <1>1, DocStays

\* A step to where no section is read.
LEMMA NothingRead ==
    ASSUME IInv, WInv, UNCHANGED <<file, trailer, root, xref>>, table' \in {<<>>, table},
           pc \in {"idle", "header", "startxref"} \/ table' = <<>>,
           pc' \notin {"xref", "subsections", "entries", "trailer", "dict"}
    PROVE  WInv'
  <1>1. table' = <<>> BY DEF IInv, Walk
  <1>2. TableWritten' BY <1>1 DEF TableWritten
  <1>3. ReadSoFar' BY DEF ReadSoFar
  <1> QED BY <1>2, <1>3, DocStays

\* A parse that fails reads no more.
LEMMA FailWritten == ASSUME IInv, WInv, Fail PROVE WInv'
  BY NothingRead DEF Fail, docVars

\* What is ahead where a section begins: all of it.
LEMMA SeekWritten == ASSUME IInv, WInv, Seek PROVE WInv'
  <1>1. ReadSoFar' BY DEF Seek, ReadSoFar, TokensAt
  <1> QED BY <1>1, TableStays DEF Seek, docVars

\* The first token of a section.
LEMMA ParseXrefWritten == ASSUME IInv, WInv, ParseXref PROVE WInv'
  <1>1. CASE Fail BY <1>1, FailWritten
  <1>2. CASE ~Fail
    <2> DEFINE sec == [parse |-> parses, at |-> at, steady |-> steady,
                       prev |-> None, subsections |-> <<>>]
               base == IF Len(table) < MaxSections THEN table ELSE Front(table)
               ts == TokensAt(at)
    <2>1. /\ pc = "xref" /\ pc' = "subsections" /\ Peek(1).type = "xref"
          /\ table' = Append(base, sec) /\ Skip(1)
          /\ UNCHANGED <<file, at, steady, trailer, root, xref>>
      BY <1>2 DEF ParseXref, histVars, docVars
    <2>2. ASSUME steady PROVE ReadSoFar'
      <3>1. rest = ts /\ TokensAt(at)' = ts BY <2>1, <2>2 DEF WInv, ReadSoFar, TokensAt
      <3>2. rest \in Seq(Tokens) BY DEF IInv, TypeOK
      <3>3. 1 <= Len(rest) /\ rest[1].type = "xref" BY <2>1, PeekNotEof DEF IInv
      <3>4. IsAhead(rest, rest, 0) BY <3>2 DEF IsAhead
      <3>5. IsAhead(rest, SubSeq(rest, 2, Len(rest)), 1)
        <4> HIDE DEF Tokens
        <4>1. 1 \in 0..Len(rest) BY <3>2, <3>3
        <4>2. IsAhead(rest, SubSeq(rest, 1 + 1, Len(rest)), 0 + 1) BY ONLY <3>2, <3>4, <4>1, Advance
        <4> QED BY <4>2
      <3>6. InSection(rest, 1) BY <3>3 DEF InSection
      <3>7. rest' = SubSeq(rest, 2, Len(rest)) BY <2>1 DEF Skip
      <3>8. IsAhead(ts, rest', 1) /\ InSection(ts, 1) BY <3>1, <3>5, <3>6, <3>7
      <3> HIDE DEF ts
      <3> QED BY <2>1, <3>1, <3>8 DEF ReadSoFar
    <2>3. TableWritten'
      <3>1. table \in Seq(Sections) BY DEF IInv, TypeOK
      <3>2. /\ base \in Seq(Sections) /\ Len(base) \in Nat
            /\ \A i \in 1..Len(base) : i \in DOMAIN table /\ base[i] = table[i]
        <4> HIDE DEF Sections
        <4>1. CASE Len(table) < MaxSections BY <3>1, <4>1
        <4>2. CASE ~(Len(table) < MaxSections)
          <5>1. Len(table) \in Nat /\ table # <<>> BY <3>1, <4>2, MaxSectionsAssumption
          <5>2. base = Front(table) BY <4>2
          <5>3. /\ Front(table) \in Seq(Sections) /\ Len(Front(table)) = Len(table) - 1
                /\ \A i \in 1..(Len(table) - 1) : Front(table)[i] = table[i]
            BY <3>1, <5>1, LastFront
          <5> QED BY <3>1, <5>1, <5>2, <5>3
        <4> QED BY <4>1, <4>2
      <3>3. sec \in Sections BY <2>1 DEF IInv, TypeOK, Walk, Sections
      <3> HIDE DEF base, sec
      <3>4. Len(table') = Len(base) + 1 /\ \A i \in 1..Len(base) : table'[i] = base[i]
        <4> HIDE DEF Sections
        <4> QED BY <2>1, <3>2, <3>3, AppendIs
      <3>5. table' \in Seq(Sections)
        <4> HIDE DEF Sections
        <4> QED BY <2>1, <3>2, <3>3
      <3>6. ASSUME NEW i \in DOMAIN table', i < Len(table')
            PROVE  i \in DOMAIN table /\ table'[i] = table[i]
        <4>1. i \in 1..Len(base) BY <3>2, <3>4, <3>5, <3>6
        <4> QED BY <3>2, <3>4, <4>1
      <3> QED BY <2>1, <3>6, SectionsStay
    <2> QED BY <2>1, <2>2, <2>3, DocStays
  <1> QED BY <1>1, <1>2

\* Reading on in a section.
LEMMA SectionReadOn ==
    ASSUME IInv, WInv, steady, pc \in {"subsections", "entries"}, pc' \in {"subsections", "entries"},
           NEW n \in Nat \ {0}, Skip(n), UNCHANGED <<file, at>>,
           \A k \in 1..n : Peek(k).type \in {"int", "n", "f"}
    PROVE  ReadSoFar'
  <1> DEFINE ts == TokensAt(at)
  <1>1. PICK i \in Nat : IsAhead(ts, rest, i) /\ InSection(ts, i) BY DEF WInv, ReadSoFar
  <1>2. ts \in Seq(Tokens) /\ rest \in Seq(Tokens) /\ TokensAt(at)' = ts
    BY TokensAtType DEF IInv, TypeOK, TokensAt
  <1> HIDE DEF ts
  <1>3. \A k \in 1..n : k <= Len(rest) /\ rest[k].type \in {"int", "n", "f"}
    <2> TAKE k \in 1..n
    <2>1. k \in Nat \ {0} /\ Peek(k).type \in {"int", "n", "f"} OBVIOUS
    <2> QED BY <2>1, PeekNotEof DEF IInv
  <1>4. n \in 0..Len(rest)
    <2>1. n <= Len(rest) BY <1>3
    <2> QED BY <2>1, <1>2
  <1>5. /\ IsAhead(ts, SubSeq(rest, n + 1, Len(rest)), i + n)
        /\ \A k \in 1..n : rest[k] = ts[i + k]
    <2> HIDE DEF Tokens
    <2> QED BY <1>1, <1>2, <1>4, Advance
  <1>6. InSection(ts, i + n)
    <2> SUFFICES ASSUME NEW j \in 1..(i + n) PROVE ts[j].type \in {"xref", "int", "n", "f"}
      BY DEF InSection
    <2>1. CASE j <= i BY <1>1, <2>1 DEF InSection
    <2>2. CASE j > i
      <3>1. j - i \in 1..n /\ i + (j - i) = j BY <2>2
      <3>2. ts[j] = rest[j - i] BY <1>5, <3>1
      <3> QED BY <1>3, <3>1, <3>2
    <2> QED BY <2>1, <2>2
  <1>7. i + n \in Nat /\ IsAhead(ts, rest', i + n) BY <1>5 DEF Skip
  <1> QED BY <1>2, <1>6, <1>7 DEF ReadSoFar

\* The last section grows: those before it are as they were.
LEMMA SectionGrowsWritten ==
    ASSUME IInv, WInv, pc \in {"subsections", "entries"}, pc' \in {"subsections", "entries"},
           NEW sec \in Sections, table' = WithLast(table, sec), UNCHANGED file
    PROVE  TableWritten'
  <1>1. table \in Seq(Sections) /\ table # <<>> BY DEF IInv, TypeOK, Walk, Reading
  <1>2. /\ table' \in Seq(Sections) /\ Len(table') = Len(table)
        /\ \A i \in 1..(Len(table) - 1) : table'[i] = table[i]
    <2>1. /\ WithLast(table, sec) \in Seq(Sections)
          /\ Len(WithLast(table, sec)) = Len(table)
          /\ \A i \in 1..(Len(table) - 1) : WithLast(table, sec)[i] = table[i]
      <3> HIDE DEF Sections
      <3>1. sec \in Sections OBVIOUS
      <3> QED BY ONLY <1>1, <3>1, WithLastIs
    <2> QED BY <2>1, Zenon
  <1>3. ASSUME NEW i \in DOMAIN table', i < Len(table')
        PROVE  i \in DOMAIN table /\ table'[i] = table[i] /\ i < Len(table)
    <2>1. i \in 1..(Len(table) - 1) /\ i \in 1..Len(table) BY <1>1, <1>2, <1>3
    <2> QED BY <1>1, <1>2, <2>1
  <1> QED BY <1>3, SectionsStay

\* A subsection header.
LEMMA ReadSubsectionHeaderWritten == ASSUME IInv, WInv, ReadSubsectionHeader PROVE WInv'
  <1>1. CASE ~IsCount(2) BY <1>1, FailWritten DEF ReadSubsectionHeader
  <1>2. CASE IsCount(2)
    <2> DEFINE sub == [first |-> Peek(1).value % UnsignedRange,
                       count |-> Peek(2).value, entries |-> <<>>]
               old == Last(table).subsections
               new == Append(old, sub)
               sec == [Last(table) EXCEPT !.subsections = new]
    <2>1. /\ pc = "subsections" /\ pc' \in {"subsections", "entries"} /\ IsInt(1) /\ IsInt(2)
          /\ Peek(2).value >= 0 /\ Skip(2)
          /\ UNCHANGED <<file, at, steady, trailer, root, xref>>
      BY <1>2 DEF ReadSubsectionHeader, IsCount, histVars, docVars
    <2>2. table' = WithLast(table, sec)
      <3>1. table' = WithLast(table, [Last(table) EXCEPT !.subsections = Append(@, sub)])
        BY <1>2, Zenon DEF ReadSubsectionHeader
      <3> QED BY <3>1, Zenon
    <2>3. Last(table) \in Sections /\ old \in Seq(Subsections)
      BY <2>1, SectionBeingRead DEF Reading
    <2>4. sub \in Subsections
      <3>1. Peek(1).value \in Int /\ Peek(2).value \in Nat BY <2>1, PeekIs DEF IInv
      <3>2. Peek(1).value % UnsignedRange \in Nat BY <3>1, CastIs
      <3> QED BY <3>1, <3>2 DEF Subsections
    <2> HIDE DEF sub, old
    <2>5. new \in Seq(Subsections)
      <3> HIDE DEF Subsections
      <3> QED BY <2>3, <2>4
    <2> HIDE DEF new
    <2>6. sec \in Sections BY <2>3, <2>5, SectionIs
    <2> HIDE DEF sec
    <2>7. TableWritten' BY <2>1, <2>2, <2>6, SectionGrowsWritten
    <2>8. steady' => ReadSoFar'
      <3>1. \A k \in 1..2 : Peek(k).type \in {"int", "n", "f"} BY <2>1 DEF IsInt
      <3> QED BY <2>1, <3>1, SectionReadOn
    <2> QED BY <2>1, <2>7, <2>8, DocStays
  <1> QED BY <1>1, <1>2

\* An entry of a section.
LEMMA ReadEntryWritten == ASSUME IInv, WInv, ReadEntry PROVE WInv'
  <1> DEFINE Ok == IsInt(1) /\ IsInt(2) /\ Peek(3).type \in {"n", "f"}
  <1>1. CASE ~Ok BY <1>1, FailWritten DEF ReadEntry
  <1>2. CASE Ok
    <2>1. /\ pc = "entries" /\ pc' \in {"subsections", "entries"} /\ Skip(3)
          /\ UNCHANGED <<file, at, steady, trailer, root, xref>>
      BY <1>2 DEF ReadEntry, histVars, docVars
    <2>2. table' \in Seq(Sections) /\ Last(table') \in Sections /\ table' = WithLast(table, Last(table'))
      <3>1. table \in Seq(Sections) /\ table # <<>> BY <2>1 DEF IInv, TypeOK, Walk, Reading
      <3>2. PICK sec : table' = WithLast(table, sec) BY <1>2, Zenon DEF ReadEntry
      <3>3. table' \in Seq(Sections) BY ReadEntryInv DEF IInv, TypeOK
      <3>4. table' = [table EXCEPT ![Len(table)] = sec] /\ Len(table) \in Nat \ {0}
        <4> HIDE DEF Sections
        <4>1. \A s, i, e : ReplaceAt(s, i, e) = [s EXCEPT ![i] = e] BY DEF ReplaceAt
        <4> QED BY <3>1, <3>2, <4>1 DEF WithLast
      <3>5. table' # <<>> /\ Last(table') = sec /\ Last(table') \in Sections
        <4> HIDE DEF Sections
        <4>1. Len(table') = Len(table) /\ table'[Len(table)] = sec BY <3>1, <3>3, <3>4
        <4> QED BY <3>3, <3>4, <4>1 DEF Last
      <3> QED BY <3>2, <3>3, <3>5
    <2>3. TableWritten' BY <2>1, <2>2, SectionGrowsWritten
    <2>4. steady' => ReadSoFar'
      <3>1. \A k \in 1..3 : Peek(k).type \in {"int", "n", "f"} BY <1>2 DEF IsInt
      <3> QED BY <2>1, <3>1, SectionReadOn
    <2> QED BY <2>1, <2>3, <2>4, DocStays
  <1> QED BY <1>1, <1>2

\* The end of a section: one token more than those it consists of is read.
LEMMA EndSectionWritten == ASSUME IInv, WInv, EndSection PROVE WInv'
  <1>1. /\ pc = "subsections" /\ pc' = "trailer" /\ Skip(1)
        /\ UNCHANGED <<file, at, steady, table, trailer, root, xref>>
    BY DEF EndSection, histVars, docVars
  <1>2. ASSUME steady PROVE ReadSoFar'
    <2> DEFINE ts == TokensAt(at)
    <2>1. PICK i \in Nat : IsAhead(ts, rest, i) /\ InSection(ts, i)
      BY <1>1, <1>2 DEF WInv, ReadSoFar
    <2>2. ts \in Seq(Tokens) /\ rest \in Seq(Tokens) /\ TokensAt(at)' = ts
      BY <1>1, TokensAtType DEF IInv, TypeOK, TokensAt
    <2> HIDE DEF ts
    <2>3. CASE rest = <<>>
      <3>1. rest' = <<>>
        <4> HIDE DEF Tokens
        <4> QED BY <1>1, <2>3 DEF Skip
      <3> QED BY <1>1, <3>1 DEF ReadSoFar
    <2>4. CASE rest # <<>>
      <3>1. 1 \in 0..Len(rest)
        <4> HIDE DEF Tokens
        <4> QED BY <2>2, <2>4
      <3>2. IsAhead(ts, SubSeq(rest, 1 + 1, Len(rest)), i + 1)
        <4> HIDE DEF Tokens
        <4> QED BY <2>1, <2>2, <3>1, Advance
      <3>3. i + 1 \in Nat /\ i + 1 > 0 /\ (i + 1) - 1 = i /\ IsAhead(ts, rest', i + 1)
        BY <1>1, <3>2 DEF Skip
      <3> QED BY <1>1, <2>1, <2>2, <3>3 DEF ReadSoFar
    <2> QED BY <2>3, <2>4
  <1> QED BY <1>1, <1>2, TableStays

\* The beginning of a trailer dictionary.
LEMMA BeginTrailerWritten == ASSUME IInv, WInv, BeginTrailer PROVE WInv'
  <1>1. CASE Peek(1).type # "<<" BY <1>1, FailWritten DEF BeginTrailer
  <1>2. CASE Peek(1).type = "<<"
    <2>1. /\ pc = "trailer" /\ pc' = "dict" /\ dict' = NoEntries /\ Skip(1)
          /\ UNCHANGED <<file, at, steady, table, trailer, root, xref>>
      BY <1>2 DEF BeginTrailer, histVars, docVars
    <2>2. ASSUME steady PROVE ReadSoFar'
      <3> DEFINE ts == TokensAt(at)
      <3>1. rest \in Seq(Tokens) /\ ts \in Seq(Tokens) /\ TokensAt(at)' = ts
        BY <2>1, TokensAtType DEF IInv, TypeOK, TokensAt
      <3>2. 1 <= Len(rest) /\ rest[1].type = "<<" BY <1>2, PeekNotEof DEF IInv
      <3>3. rest # <<>> BY <3>2
      <3>4. PICK i \in Nat : i > 0 /\ IsAhead(ts, rest, i) /\ InSection(ts, i - 1)
        BY <2>1, <2>2, <3>3 DEF WInv, ReadSoFar
      <3> HIDE DEF ts
      <3>5. /\ IsAhead(ts, SubSeq(rest, 1 + 1, Len(rest)), i + 1)
            /\ i + 1 <= Len(ts) /\ rest[1] = ts[i + 1]
        <4> HIDE DEF Tokens
        <4>1. 1 \in 0..Len(rest) BY <3>1, <3>2
        <4>2. /\ IsAhead(ts, SubSeq(rest, 1 + 1, Len(rest)), i + 1)
              /\ i + 1 <= Len(ts) /\ \A k \in 1..1 : rest[k] = ts[i + k]
          BY <3>1, <3>4, <4>1, Advance
        <4> QED BY <4>2
      <3>6. IsAhead(ts, rest', (i + 1) + 2 * 0) BY <2>1, <3>5 DEF Skip
      <3>7. i + 1 \in DOMAIN ts /\ (i + 1) - 2 = i - 1 /\ ts[i + 1].type = "<<"
        BY <3>1, <3>2, <3>5
      <3>8. IsRoot(ts, i + 1, 0, NoEntries.root) /\ IsPrev(ts, i + 1, 0, NoEntries.prev)
        BY DEF IsRoot, IsPrev, NoEntries
      <3>9. InTrailer(ts, rest', dict', i + 1, 0)
        BY <2>1, <3>4, <3>6, <3>7, <3>8 DEF InTrailer
      <3> QED BY <2>1, <3>1, <3>7, <3>9 DEF ReadSoFar
    <2> QED BY <2>1, <2>2, TableStays
  <1> QED BY <1>1, <1>2

\* One more entry of a trailer dictionary.
LEMMA EntryIs ==
    ASSUME NEW ts \in Seq(Tokens), NEW o \in DOMAIN ts, NEW m \in Nat, NEW d \in Dicts,
           \A k \in 1..m : IsEntry(ts, o + 2 * k - 1),
           IsRoot(ts, o, m, d.root), IsPrev(ts, o, m, d.prev),
           IsEntry(ts, o + 2 * m + 1)
    PROVE  LET e == WithEntry(d, ts[o + 2 * m + 1].key, ts[o + 2 * m + 2])
           IN  /\ \A k \in 1..(m + 1) : IsEntry(ts, o + 2 * k - 1)
               /\ IsRoot(ts, o, m + 1, e.root) /\ IsPrev(ts, o, m + 1, e.prev)
  <1> DEFINE key == ts[o + 2 * m + 1].key
             value == ts[o + 2 * m + 2]
             e == WithEntry(d, key, value)
  <1>1. o \in Nat /\ DOMAIN ts = 1..Len(ts) OBVIOUS
  <1>2. o + 2 * (m + 1) - 1 = o + 2 * m + 1 /\ o + 2 * (m + 1) = o + 2 * m + 2
        /\ 1..(m + 1) = 1..m \cup {m + 1}
    BY <1>1
  <1>3. key \in {"Root", "Prev", "Size"} /\ value \in Tokens
    <2>1. /\ o + 2 * m + 1 \in DOMAIN ts /\ o + 2 * m + 2 \in DOMAIN ts
          /\ ts[o + 2 * m + 1].type = "name"
      BY <1>1 DEF IsEntry
    <2>2. ts[o + 2 * m + 1] \in Tokens /\ value \in Tokens
      <3> HIDE DEF Tokens
      <3> QED BY <2>1
    <2> QED BY <2>1, <2>2 DEF Tokens
  <1>5. \A k \in 1..(m + 1) : IsEntry(ts, o + 2 * k - 1) BY <1>2
  <1>6. ts[o + 2 * (m + 1) - 1].key = key /\ ts[o + 2 * (m + 1)] = value BY <1>2
  <1> HIDE DEF key, value
  <1>4. e.root = (d.root \/ key = "Root") /\ e.prev = IF key = "Prev" THEN PrevOf(value) ELSE d.prev
    <2>1. d \in Dicts OBVIOUS
    <2> QED BY ONLY <1>3, <2>1, WithEntryIs
  <1> HIDE DEF e
  <1>7. IsRoot(ts, o, m + 1, e.root)
    <2>1. d.root <=> \E k \in 1..m : ts[o + 2 * k - 1].key = "Root" BY DEF IsRoot
    <2> QED BY <1>2, <1>4, <1>6, <2>1 DEF IsRoot, Dicts
  <1>8. IsPrev(ts, o, m + 1, e.prev)
    <2>1. CASE key = "Prev"
      <3>1. m + 1 \in 1..(m + 1) /\ \A j \in ((m + 1) + 1)..(m + 1) : FALSE OBVIOUS
      <3>2. e.prev = PrevOf(ts[o + 2 * (m + 1)]) BY <1>4, <1>6, <2>1
      <3> QED BY ONLY <1>6, <2>1, <3>1, <3>2 DEF IsPrev
    <2>2. CASE key # "Prev"
      <3>1. e.prev = d.prev BY <1>4, <2>2
      <3>2. CASE d.prev = None /\ \A k \in 1..m : ts[o + 2 * k - 1].key # "Prev"
        BY ONLY <1>2, <1>6, <2>2, <3>1, <3>2 DEF IsPrev
      <3>3. ASSUME NEW k \in 1..m, ts[o + 2 * k - 1].key = "Prev", d.prev = PrevOf(ts[o + 2 * k]),
                   \A j \in (k + 1)..m : ts[o + 2 * j - 1].key # "Prev"
            PROVE  IsPrev(ts, o, m + 1, e.prev)
        <4>1. k \in 1..(m + 1) /\ \A j \in (k + 1)..(m + 1) : j \in (k + 1)..m \/ j = m + 1
          OBVIOUS
        <4> QED BY ONLY <1>6, <2>2, <3>1, <3>3, <4>1 DEF IsPrev
      <3> QED BY <3>2, <3>3 DEF IsPrev
    <2> QED BY <2>1, <2>2
  <1> QED BY <1>5, <1>7, <1>8 DEF key, value, e

\* An entry of a trailer dictionary is read.
LEMMA ReadTrailerEntryWritten == ASSUME IInv, WInv, ReadTrailerEntry PROVE WInv'
  <1>1. /\ pc = "dict" /\ HasEntry
        /\ UNCHANGED <<file, at, steady, table, trailer, root, xref>>
    BY DEF ReadTrailerEntry, histVars, docVars
  <1>2. CASE Peek(1).type # "name"
    <2>1. pc' = "undefined" BY <1>2 DEF ReadTrailerEntry
    <2>2. ReadSoFar' BY <2>1 DEF ReadSoFar
    <2> QED BY <1>1, <2>1, <2>2, TableStays
  <1>3. CASE Peek(1).type = "name"
    <2>1. pc' = "dict" /\ dict' = WithEntry(dict, Peek(1).key, Peek(2)) /\ Skip(2)
      BY <1>1, <1>3 DEF ReadTrailerEntry
    <2>2. ASSUME steady PROVE ReadSoFar'
      <3> DEFINE ts == TokensAt(at)
      <3>1. /\ rest \in Seq(Tokens) /\ ts \in Seq(Tokens) /\ TokensAt(at)' = ts
            /\ dict \in Dicts
        BY <1>1, TokensAtType DEF IInv, TypeOK, TokensAt
      <3>2. PICK o \in DOMAIN ts, m \in Nat : InTrailer(ts, rest, dict, o, m)
        BY <1>1, <2>2 DEF WInv, ReadSoFar
      <3> HIDE DEF ts
      <3>3. /\ Peek(1).type # "eof" /\ Peek(2).type # "eof" /\ IsObject(Peek(2))
        BY <1>1 DEF HasEntry, IsObject
      <3>4. 2 <= Len(rest) /\ Peek(1) = rest[1] /\ Peek(2) = rest[2]
        BY <3>3, PeekNotEof DEF IInv
      <3>5. o + 2 * m \in Nat /\ o \in Nat
        <4> HIDE DEF Tokens
        <4> QED BY <3>1, <3>2
      <3>6. /\ IsAhead(ts, SubSeq(rest, 2 + 1, Len(rest)), (o + 2 * m) + 2)
            /\ (o + 2 * m) + 2 <= Len(ts) /\ \A k \in 1..2 : rest[k] = ts[(o + 2 * m) + k]
        <4> HIDE DEF Tokens
        <4>1. 2 \in 0..Len(rest) BY <3>1, <3>4
        <4>2. IsAhead(ts, rest, o + 2 * m) BY <3>2 DEF InTrailer
        <4> QED BY <3>1, <3>5, <4>1, <4>2, Advance
      <3>7. /\ rest[1] = ts[o + 2 * m + 1] /\ rest[2] = ts[o + 2 * m + 2]
            /\ (o + 2 * m) + 2 = o + 2 * (m + 1) /\ m + 1 \in Nat
            /\ o + 2 * m + 2 \in 1..Len(ts)
        <4>1. 1 \in 1..2 /\ 2 \in 1..2 OBVIOUS
        <4>2. (o + 2 * m) + 2 <= Len(ts) /\ Len(ts) \in Nat BY <3>1, <3>6
        <4>3. (o + 2 * m) + 2 = o + 2 * (m + 1) /\ o + 2 * m + 2 \in 1..Len(ts)
          BY ONLY <3>5, <4>2, m \in Nat
        <4> QED BY <3>6, <4>1, <4>3
      <3>8. IsEntry(ts, o + 2 * m + 1)
        <4>1. (o + 2 * m + 1) + 1 = o + 2 * m + 2 BY <3>5
        <4>2. DOMAIN ts = 1..Len(ts) BY <3>1
        <4> QED BY <1>3, <3>3, <3>4, <3>7, <4>1, <4>2 DEF IsEntry
      <3>9. dict' = WithEntry(dict, ts[o + 2 * m + 1].key, ts[o + 2 * m + 2])
        BY <2>1, <3>4, <3>7
      <3>10. /\ ts[o].type = "<<" /\ InSection(ts, o - 2)
             /\ \A k \in 1..m : IsEntry(ts, o + 2 * k - 1)
             /\ IsRoot(ts, o, m, dict.root) /\ IsPrev(ts, o, m, dict.prev)
        BY <3>2 DEF InTrailer
      <3>11. /\ \A k \in 1..(m + 1) : IsEntry(ts, o + 2 * k - 1)
             /\ IsRoot(ts, o, m + 1, dict'.root) /\ IsPrev(ts, o, m + 1, dict'.prev)
        <4> HIDE DEF Tokens, Dicts
        <4> QED BY ONLY <3>1, <3>2, <3>8, <3>9, <3>10, EntryIs
      <3>12. IsAhead(ts, rest', o + 2 * (m + 1)) BY <2>1, <3>6, <3>7 DEF Skip
      <3>13. InTrailer(ts, rest', dict', o, m + 1)
        BY ONLY <3>10, <3>11, <3>12 DEF InTrailer
      <3> QED BY <2>1, <3>1, <3>7, <3>13 DEF ReadSoFar
    <2> QED BY <1>1, <2>1, <2>2, TableStays
  <1> QED BY <1>2, <1>3

\* Where the trailer ends, what was read of it is all that can be read.
LEMMA TrailerRead ==
    ASSUME IInv, WInv, steady, EndTrailer
    PROVE  /\ PrevWritten(TokensAt(at), dict.prev) /\ RootWritten(TokensAt(at), dict.root)
  <1> DEFINE ts == TokensAt(at)
  <1>1. pc = "dict" /\ ~HasEntry BY DEF EndTrailer
  <1>2. rest \in Seq(Tokens) /\ ts \in Seq(Tokens) BY TokensAtType DEF IInv, TypeOK
  <1>3. PICK o \in DOMAIN ts, m \in Nat : InTrailer(ts, rest, dict, o, m)
    BY <1>1 DEF WInv, ReadSoFar
  <1> HIDE DEF ts
  <1>4. IsAhead(ts, rest, o + 2 * m) BY <1>3 DEF InTrailer
  <1>5. o \in Nat \ {0} /\ DOMAIN ts = 1..Len(ts) /\ Len(ts) \in Nat /\ Len(rest) \in Nat
    BY <1>2, <1>3
  <1>6. o + 2 * m \in Nat /\ (o + 2 * m) + 1 = o + 2 * m + 1 /\ (o + 2 * m) + 2 = (o + 2 * m + 1) + 1
    BY <1>5
  <1>7. m \in 0..Len(ts)
    <2>1. o + 2 * m + Len(rest) = Len(ts) BY <1>4 DEF IsAhead
    <2> QED BY ONLY <1>5, <2>1, m \in Nat
  <1>8. ~IsEntry(ts, o + 2 * m + 1)
    <2> SUFFICES ASSUME IsEntry(ts, o + 2 * m + 1) PROVE FALSE OBVIOUS
    <2>1. /\ (o + 2 * m + 1) + 1 \in DOMAIN ts /\ ts[o + 2 * m + 1].type = "name"
          /\ IsObject(ts[(o + 2 * m + 1) + 1])
      BY DEF IsEntry
    <2>2. o + 2 * m + 1 \in DOMAIN ts BY <1>5, <1>6, <2>1
    <2>3. Peek(1) = ts[o + 2 * m + 1] /\ Peek(2) = ts[(o + 2 * m + 1) + 1]
      <3> HIDE DEF Tokens
      <3>1. /\ (o + 2 * m) + 1 \in DOMAIN ts => Peek(1) = ts[(o + 2 * m) + 1]
            /\ (o + 2 * m) + 2 \in DOMAIN ts => Peek(2) = ts[(o + 2 * m) + 2]
        BY <1>2, <1>4, <1>6, PeekAhead DEF IInv
      <3> QED BY <1>6, <2>1, <2>2, <3>1
    <2> QED BY <1>1, <2>1, <2>3 DEF HasEntry, IsObject
  <1>9. IsTrailer(ts, o, m) /\ IsRoot(ts, o, m, dict.root) /\ IsPrev(ts, o, m, dict.prev)
    BY ONLY <1>3, <1>8, o \in DOMAIN ts DEF InTrailer, IsTrailer, InSection
  <1> QED BY <1>3, <1>7, <1>9 DEF PrevWritten, RootWritten, ts

\* Of what is written at one offset a Root is read always or never.
LEMMA OneRoot ==
    ASSUME IInv, NEW offset,
           RootWritten(TokensAt(offset), TRUE), RootWritten(TokensAt(offset), FALSE)
    PROVE  FALSE
  <1> DEFINE ts == TokensAt(offset)
  <1>1. PICK o \in DOMAIN ts, m \in 0..Len(ts) : IsTrailer(ts, o, m) /\ IsRoot(ts, o, m, TRUE)
    BY DEF RootWritten
  <1>2. PICK p \in DOMAIN ts, n \in 0..Len(ts) : IsTrailer(ts, p, n) /\ IsRoot(ts, p, n, FALSE)
    BY DEF RootWritten
  <1>3. offset \in Offsets BY <1>1 DEF TokensAt
  <1>4. file \in Files /\ ts = file.tokens[offset] BY <1>3 DEF IInv, TypeOK, TokensAt
  <1>5. ts \in Seq(Tokens) BY TokensAtType
  <1>6. m \in Nat /\ n \in Nat
    <2>1. Len(ts) \in Nat BY <1>5
    <2> QED BY <2>1
  <1> HIDE DEF ts
  <1>7. o = p /\ m = n BY ONLY <1>1, <1>2, <1>3, <1>4, <1>6, OneTrailerWritten
  <1> QED BY <1>1, <1>2, <1>7 DEF IsRoot

\* The end of a trailer dictionary.
LEMMA EndTrailerWritten == ASSUME IInv, WInv, EndTrailer PROVE WInv'
  <1> DEFINE new == [parse |-> parses, at |-> at, steady |-> steady, root |-> dict.root]
             sec == [Last(table) EXCEPT !.prev = dict.prev]
             read == WithLast(table, sec)
  <1>1. /\ pc = "dict" /\ UNCHANGED <<file, steady>>
        /\ IF Own(table) THEN UNCHANGED <<trailer, root>>
           ELSE trailer' = new /\ root' = RootSet(new)
        /\ IF IsLast(dict)
             THEN xref' = read /\ table' = <<>> /\ pc' = "idle"
             ELSE table' = read /\ pc' = "seek" /\ UNCHANGED xref
    BY DEF EndTrailer, histVars
  <1>2. /\ table \in Seq(Sections) /\ table # <<>> /\ at \in Nat
        /\ parses \in Nat /\ steady \in BOOLEAN
        /\ dict.prev \in Nat \cup {None} /\ dict.root \in BOOLEAN
        /\ table[1].steady => table[1].at = Last(file.startxrefs)
    BY <1>1 DEF IInv, TypeOK, Walk, FirstRead, Reading, Dicts
  <1>3. /\ Last(table) \in Sections /\ Last(table).at = at /\ Last(table).steady = steady
        /\ Last(table) = table[Len(table)] /\ Len(table) \in Nat \ {0}
    <2> HIDE DEF Sections
    <2>1. Last(table).at = at /\ Last(table).steady = steady
      BY <1>1, SectionBeingRead DEF Reading
    <2> QED BY <1>2, <2>1, LastFront
  <1>4. sec \in Sections /\ sec.at = at /\ sec.prev = dict.prev /\ sec.steady = steady
    BY <1>2, <1>3, SectionIs
  <1> HIDE DEF sec
  <1>5. /\ read \in Seq(Sections) /\ Len(read) = Len(table)
        /\ read[Len(table)] = sec /\ \A i \in 1..(Len(table) - 1) : read[i] = table[i]
    <2> HIDE DEF Sections
    <2>1. sec \in Sections BY <1>4
    <2> QED BY ONLY <1>2, <2>1, WithLastIs
  <1> HIDE DEF read
  <1>6. ASSUME NEW i \in DOMAIN read, read[i].steady
        PROVE  PrevWritten(TokensAt(read[i].at), read[i].prev)
    <2>1. i \in 1..Len(table) /\ DOMAIN table = 1..Len(table) BY <1>2, <1>5, <1>6
    <2>2. CASE i = Len(table)
      <3>1. read[i] = sec BY <1>5, <2>2
      <3> QED BY <1>4, <1>6, <3>1, TrailerRead
    <2>3. CASE i # Len(table)
      <3>1. i \in 1..(Len(table) - 1) /\ i < Len(table) BY <1>3, <2>1, <2>3
      <3>2. read[i] = table[i] BY <1>5, <3>1
      <3> QED BY <1>6, <2>1, <3>1, <3>2 DEF WInv, TableWritten
    <2> QED BY <2>2, <2>3
  <1>7. TableWritten'
    <2>1. CASE IsLast(dict) BY <1>1, <2>1 DEF TableWritten
    <2>2. CASE ~IsLast(dict) BY <1>1, <1>6, <2>2 DEF TableWritten, TokensAt
    <2> QED BY <2>1, <2>2
  <1>8. XrefWritten'
    <2>1. CASE IsLast(dict) BY <1>1, <1>6, <2>1 DEF XrefWritten, TokensAt
    <2>2. CASE ~IsLast(dict) BY <1>1, <2>2 DEF WInv, XrefWritten, TokensAt
    <2> QED BY <2>1, <2>2
  <1>9. Rooted'
    <2>1. CASE Own(table) BY <1>1, <2>1 DEF WInv, Rooted, RootInTrailer, TokensAt
    <2>2. CASE ~Own(table)
      <3>1. trailer' = new /\ root' = RootSet(new) /\ file' = file BY <1>1, <2>2
      <3>2. new.at = at /\ new.steady = steady /\ new.root = dict.root OBVIOUS
      <3>3. new # None
        <4>1. new \in Trailers BY <1>2 DEF Trailers
        <4> QED BY <4>1, NoneAssumption
      <3>4. steady => at = Last(file.startxrefs)
        <4>1. Len(table) \in Nat \ {0} /\ ~(Len(table) > 1) BY <1>3, <2>2 DEF Own
        <4>2. Len(table) = 1 BY ONLY <4>1
        <4> QED BY <1>2, <1>3, <4>2
      <3>5. steady => RootWritten(TokensAt(at), dict.root) BY TrailerRead
      <3> HIDE DEF new
      <3>6. CASE new.root
        <4>1. root' = new BY <3>1, <3>6 DEF RootSet
        <4>2. dict.root = TRUE BY <1>2, <3>2, <3>6
        <4>3. steady => RootWritten(TokensAt(at), TRUE) BY <3>5, <4>2
        <4> QED
          BY ONLY <3>1, <3>2, <3>3, <3>4, <3>5, <3>6, <4>1, <4>3
          DEF Rooted, RootInTrailer, TokensAt
      <3>7. CASE ~new.root
        <4>1. root' = root BY <3>1, <3>7 DEF RootSet
        <4>2. ASSUME root # None, root.steady, new.steady PROVE FALSE
          <5>1. root.at = Last(file.startxrefs) /\ RootWritten(TokensAt(root.at), TRUE)
            BY <4>2 DEF WInv, Rooted
          <5>2. root.at = at BY <3>2, <3>4, <4>2, <5>1
          <5>3. RootWritten(TokensAt(at), TRUE) BY <5>1, <5>2
          <5>4. dict.root = FALSE BY <1>2, <3>2, <3>7
          <5>5. RootWritten(TokensAt(at), dict.root) BY <3>2, <3>5, <4>2
          <5>6. RootWritten(TokensAt(at), FALSE) BY ONLY <5>4, <5>5
          <5> QED BY <5>3, <5>6, OneRoot
        <4>3. /\ root # None => root.root
              /\ root # None /\ root.steady =>
                    root.at = Last(file.startxrefs) /\ RootWritten(TokensAt(root.at), TRUE)
          BY DEF WInv, Rooted
        <4> QED
          BY ONLY <3>1, <3>2, <3>3, <3>5, <4>1, <4>2, <4>3 DEF Rooted, RootInTrailer, TokensAt
      <3> QED BY <3>6, <3>7
    <2> QED BY <2>1, <2>2
  <1>10. ReadSoFar'
    <2>1. pc' \in {"idle", "seek"} BY <1>1
    <2> QED BY <2>1 DEF ReadSoFar
  <1> QED BY <1>7, <1>8, <1>9, <1>10 DEF WInv

\* What has been read is what is written, in every state.
LEMMA WrittenAlways == Spec => [](IInv /\ WInv)
  <1>1. Init => WInv
    BY DEF Init, WInv, ReadSoFar, TableWritten, XrefWritten, Rooted, RootInTrailer
  <1>2. ASSUME IInv, WInv, [Next]_vars PROVE WInv'
    <2>1. CASE Parse
      BY <1>2, <2>1, NothingRead DEF Parse, docVars
    <2>2. CASE ParseHeader
      <3>1. CASE Fail BY <1>2, <3>1, FailWritten
      <3>2. CASE ~Fail BY <1>2, <2>2, <3>2, NothingRead DEF ParseHeader, docVars
      <3> QED BY <3>1, <3>2
    <2>3. CASE FindStartxref
      <3>1. pc = "startxref" /\ pc' = "seek" /\ UNCHANGED <<file, table, trailer, root, xref>>
        BY <2>3 DEF FindStartxref, docVars
      <3> QED BY <1>2, <3>1, NothingRead
    <2>4. CASE NoStartxref BY <1>2, <2>4, FailWritten DEF NoStartxref
    <2>5. CASE StreamFails BY <1>2, <2>5, FailWritten DEF StreamFails
    <2>6. CASE Seek BY <1>2, <2>6, SeekWritten
    <2>7. CASE ReadFails
      <3>1. steady' = FALSE BY <1>2, <2>7, UnnoticedIs DEF ReadFails
      <3>2. pc = "xref" /\ pc' = pc /\ UNCHANGED <<file, table, trailer, root, xref>>
        BY <2>7 DEF ReadFails, docVars
      <3> QED BY <1>2, <3>1, <3>2, TableStays
    <2>8. CASE ParseXref BY <1>2, <2>8, ParseXrefWritten
    <2>9. CASE ReadSubsectionHeader BY <1>2, <2>9, ReadSubsectionHeaderWritten
    <2>10. CASE ReadEntry BY <1>2, <2>10, ReadEntryWritten
    <2>11. CASE EndSection BY <1>2, <2>11, EndSectionWritten
    <2>12. CASE BeginTrailer BY <1>2, <2>12, BeginTrailerWritten
    <2>13. CASE ReadTrailerEntry BY <1>2, <2>13, ReadTrailerEntryWritten
    <2>14. CASE EndTrailer BY <1>2, <2>14, EndTrailerWritten
    <2>15. CASE UNCHANGED vars
      BY <1>2, <2>15
      DEF vars, histVars, docVars, WInv, ReadSoFar, TableWritten, XrefWritten, Rooted,
          RootInTrailer, TokensAt
    <2> QED
      BY <1>2, <2>1, <2>2, <2>3, <2>4, <2>5, <2>6, <2>7, <2>8, <2>9, <2>10, <2>11, <2>12, <2>13,
         <2>14, <2>15
      DEF Next, Step
  <1>3. IInv /\ WInv /\ [Next]_vars => WInv' BY <1>2
  <1> QED BY <1>1, <1>3, InitInv, NextInv, PTL DEF Spec

\* A table the document has is a whole chain; where no read has failed it begins
\* at the last startxref and follows each Prev as it is written
\* (CosParser.c:347-474).
THEOREM XrefAsWrittenAlways == Spec => []XrefAsWritten
  <1>1. IInv /\ WInv => XrefAsWritten
    <2> SUFFICES ASSUME IInv, WInv, xref # None PROVE XrefAsWritten BY DEF XrefAsWritten
    <2>1. \A i \in DOMAIN xref : xref[i].steady => PrevAsWritten(xref[i])
      BY DEF WInv, XrefWritten, PrevWritten, PrevAsWritten
    <2> QED BY <2>1 DEF IInv, Finished, XrefAsWritten, WholeAll, Whole
  <1> QED BY <1>1, WrittenAlways, PTL

\* The root is in the trailer the document has, unless a read failed unnoticed
\* on the way to one of the two (CosParser.c:431-442).
THEOREM RootInTrailerAlways == Spec => []RootInTrailer
  <1>1. WInv => RootInTrailer BY DEF WInv, Rooted
  <1> QED BY <1>1, WrittenAlways, PTL

-----------------------------------------------------------------------------
(* The newest revision wins: the lookup that searches the sections in the  *)
(* order they were read, and the reader that applies them from the oldest  *)
(* to the newest, both find the first subsection that covers an object in  *)
(* the first section that has one.                                         *)

EntryOf(sub, k) == sub.entries[k - sub.first + 1]

\* No subsection of s covers k.
Uncovered(s, k) == \A p \in DOMAIN s : ~Covers(s[p], k)

\* The first subsection of s that covers k.
IsFirst(s, k, sub) ==
    \E p \in DOMAIN s : s[p] = sub /\ Covers(sub, k) /\ \A q \in 1..(p - 1) : ~Covers(s[q], k)

\* What a lookup may know: entries of some of the objects.
Known == UNION {[D -> Entries] : D \in SUBSET Nums}

\* The entry of an object that a whole subsection covers.
LEMMA EntryIsThere ==
    ASSUME NEW sub \in Subsections, Whole(sub), NEW k \in Nums, Covers(sub, k)
    PROVE  EntryOf(sub, k) \in Entries
  <1>1. k \in Nat BY NumsAssumption, UnsignedRangeAssumption
  <1>2. sub.first \in Nat /\ sub.count \in Nat /\ sub.entries \in Seq(Entries) BY DEF Subsections
  <1>3. k - sub.first + 1 \in 1..Len(sub.entries) BY <1>1, <1>2 DEF Covers, Whole
  <1> HIDE DEF Entries
  <1> QED BY <1>2, <1>3 DEF EntryOf

\* What is known after one more subsection.
LEMMA AddSubsectionIs ==
    ASSUME NEW found \in Known, NEW sub \in Subsections, Whole(sub)
    PROVE  /\ AddSubsection(found, sub) \in Known
           /\ DOMAIN AddSubsection(found, sub) = DOMAIN found \cup {n \in Nums : Covers(sub, n)}
           /\ \A k \in DOMAIN AddSubsection(found, sub) :
                 AddSubsection(found, sub)[k] = IF k \in DOMAIN found THEN found[k] ELSE EntryOf(sub, k)
  <1>1. PICK D \in SUBSET Nums : found \in [D -> Entries] BY DEF Known
  <1>2. DOMAIN found = D /\ \A k \in D : found[k] \in Entries BY <1>1
  <1> DEFINE E == D \cup {n \in Nums : Covers(sub, n)}
             add == [k \in E |-> IF k \in D THEN found[k] ELSE EntryOf(sub, k)]
  <1>3. E \in SUBSET Nums OBVIOUS
  <1>4. \A k \in E : (IF k \in D THEN found[k] ELSE EntryOf(sub, k)) \in Entries
    <2> HIDE DEF Entries, Subsections
    <2> QED BY <1>2, EntryIsThere
  <1>5. add \in [E -> Entries] BY <1>4
  <1>6. AddSubsection(found, sub) = add BY <1>2 DEF AddSubsection, EntryOf
  <1>7. add \in Known BY <1>3, <1>5 DEF Known
  <1> QED BY <1>2, <1>6, <1>7

\* What is known after one more section, given what is known of it.
LEMMA AddSectionIs ==
    ASSUME NEW older \in Known, NEW section, EntriesOf(section.subsections) \in Known
    PROVE  /\ AddSection(older, section) \in Known
           /\ DOMAIN AddSection(older, section) = DOMAIN older \cup DOMAIN EntriesOf(section.subsections)
           /\ \A k \in DOMAIN AddSection(older, section) :
                 AddSection(older, section)[k] =
                     IF k \in DOMAIN EntriesOf(section.subsections)
                       THEN EntriesOf(section.subsections)[k] ELSE older[k]
  <1>0. PICK newer : newer = EntriesOf(section.subsections) OBVIOUS
  <1>1. PICK D \in SUBSET Nums : older \in [D -> Entries] BY DEF Known
  <1>2. PICK E \in SUBSET Nums : newer \in [E -> Entries] BY <1>0 DEF Known
  <1> DEFINE add == [k \in D \cup E |-> IF k \in E THEN newer[k] ELSE older[k]]
  <1>3. AddSection(older, section) = add BY <1>0, <1>1, <1>2 DEF AddSection
  <1>4. add \in [D \cup E -> Entries]
    <2> HIDE DEF Entries
    <2> QED BY <1>1, <1>2
  <1>5. add \in Known BY <1>4 DEF Known
  <1>6. DOMAIN older = D /\ DOMAIN newer = E BY <1>1, <1>2
  <1>7. DOMAIN add = D \cup E /\ \A k \in D \cup E : add[k] = IF k \in E THEN newer[k] ELSE older[k]
    OBVIOUS
  <1> HIDE DEF add
  <1> QED BY ONLY <1>0, <1>3, <1>5, <1>6, <1>7

\* Nothing is known at first.
LEMMA NothingFound == <<>> \in Known /\ DOMAIN <<>> = {}
  <1>1. <<>> \in [{} -> Entries] OBVIOUS
  <1> QED BY <1>1 DEF Known

IsEntriesFold(f, S, subs) ==
    f = [s \in SUBSET S |-> IF s = {} THEN <<>>
                            ELSE LET x == Max(s) IN AddSubsection(f[s \ {x}], subs[x])]

\* EntriesOf, subsection by subsection.
LEMMA EntriesOfSteps ==
    ASSUME NEW subs \in Seq(Subsections), WholeAll(subs)
    PROVE  \E g : /\ g[0] = <<>> /\ EntriesOf(subs) = g[Len(subs)]
                  /\ \A n \in 1..Len(subs) : g[n] = AddSubsection(g[n - 1], subs[n])
                  /\ \A n \in 0..Len(subs) : g[n] \in Known
  <1> DEFINE N == Len(subs)
             step == [p \in (1..N) \X Known |-> AddSubsection(p[2], subs[p[1]])]
             max == [s \in SUBSET (1..N) |-> Max(s)]
  <1>1. N \in Nat /\ DOMAIN subs = 1..N /\ \A n \in 1..N : subs[n] \in Subsections /\ Whole(subs[n])
    BY DEF WholeAll
  <1>2. ASSUME NEW n \in 1..N, NEW v \in Known
        PROVE  step[<<n, v>>] = AddSubsection(v, subs[n]) /\ AddSubsection(v, subs[n]) \in Known
    <2>1. AddSubsection(v, subs[n]) \in Known
      <3> HIDE DEF Known, Subsections
      <3> QED BY <1>1, AddSubsectionIs
    <2> HIDE DEF N, Known
    <2> QED BY <2>1
  <1> HIDE DEF Known, Subsections
  <1>3. step \in [(1..N) \X Known -> Known]
    <2> HIDE DEF N
    <2>1. \A p \in (1..N) \X Known : AddSubsection(p[2], subs[p[1]]) \in Known BY <1>2
    <2> QED BY <2>1
  <1>4. IsHighest(max, N) /\ \A n \in 1..N : Max(1..n) = n /\ (1..n) \ {n} = 1..(n - 1)
    <2> HIDE DEF N
    <2> QED BY <1>1, HighestIs
  <1>5. \A s \in SUBSET (1..N) : max[s] = Max(s) OBVIOUS
  <1> HIDE DEF step, max, N
  <1>6. PICK f \in [SUBSET (1..N) -> Known] : IsFoldOf(f, N, <<>>, step, max)
    BY ONLY <1>1, <1>3, <1>4, NothingFound, FoldDefined
  <1>7. IsEntriesFold(f, 1..N, subs)
    <2>1. ASSUME NEW s \in SUBSET (1..N)
          PROVE  f[s] = IF s = {} THEN <<>>
                        ELSE LET x == Max(s) IN AddSubsection(f[s \ {x}], subs[x])
      <3>1. f[s] = IF s = {} THEN <<>> ELSE step[<<max[s], f[s \ {max[s]}]>>]
        BY ONLY <1>6 DEF IsFoldOf
      <3>2. CASE s = {} BY <3>1, <3>2
      <3>3. CASE s # {}
        <4>1. Max(s) \in 1..N BY <1>4, <1>5, <3>3 DEF IsHighest
        <4>2. f[s \ {Max(s)}] \in Known OBVIOUS
        <4> QED BY ONLY <1>2, <1>5, <3>1, <3>3, <4>1, <4>2
      <3> QED BY <3>2, <3>3
    <2>2. f = [s \in SUBSET (1..N) |-> f[s]] BY <1>6
    <2> QED BY ONLY <2>1, <2>2 DEF IsEntriesFold
  <1>8. PICK e : e = CHOOSE h : IsEntriesFold(h, 1..N, subs) OBVIOUS
  <1>9. IsEntriesFold(e, 1..N, subs) BY ONLY <1>7, <1>8
  <1>10. EntriesOf(subs) = e[1..N]
    <2>1. EntriesOf(subs) = (CHOOSE h : IsEntriesFold(h, DOMAIN subs, subs))[DOMAIN subs]
      <3> HIDE DEF AddSubsection
      <3> QED BY ONLY Zenon DEF EntriesOf, FoldLeft, MapThenFoldSet, IsEntriesFold
    <2> QED BY ONLY <1>1, <1>8, <2>1
  <1>11. e[{}] = <<>>
    <2>1. {} \in SUBSET (1..N) OBVIOUS
    <2> QED BY ONLY <1>9, <2>1 DEF IsEntriesFold
  <1>12. ASSUME NEW n \in 1..N PROVE e[1..n] = AddSubsection(e[1..(n - 1)], subs[n])
    <2>0. N \in Nat /\ n \in 1..N BY <1>1
    <2>1. 1..n \in SUBSET (1..N) /\ 1..n # {}
      <3>1. PICK m : m = N OBVIOUS
      <3>2. m \in Nat /\ n \in 1..m BY ONLY <2>0, <3>1
      <3>3. n \in 1..n /\ \A i \in 1..n : i \in 1..m BY ONLY <3>2
      <3> QED BY ONLY <3>1, <3>3
    <2>2. e[1..n] = LET x == Max(1..n) IN AddSubsection(e[(1..n) \ {x}], subs[x])
      BY ONLY <1>9, <2>1 DEF IsEntriesFold
    <2> QED BY ONLY <1>4, <1>12, <2>2
  <1> DEFINE g == [n \in 0..N |-> e[1..n]]
             S == {n \in Nat : n <= N => g[n] \in Known}
  <1>13. g[0] = <<>> /\ g[N] = e[1..N] /\ \A n \in 1..N : g[n] = AddSubsection(g[n - 1], subs[n])
    <2>1. 1..0 = {} /\ 0 \in 0..N /\ N \in 0..N BY <1>1
    <2>2. \A n \in 1..N : n \in 0..N /\ n - 1 \in 0..N BY <1>1
    <2> QED BY <1>11, <1>12, <2>1, <2>2
  <1> HIDE DEF g
  <1>14. 0 \in S BY <1>13, NothingFound
  <1>15. ASSUME NEW n \in Nat, n \in S PROVE n + 1 \in S
    <2>1. ASSUME n + 1 <= N PROVE g[n + 1] \in Known
      <3>1. n <= N /\ n + 1 \in 1..N /\ (n + 1) - 1 = n BY <1>1, <2>1
      <3>2. g[n] \in Known BY <1>15, <3>1
      <3>3. g[n + 1] = AddSubsection(g[n], subs[n + 1]) BY ONLY <1>13, <3>1
      <3> QED BY ONLY <1>2, <3>1, <3>2, <3>3
    <2> QED BY <2>1
  <1>16. \A n \in Nat : n \in S
    <2> HIDE DEF S
    <2> QED BY ONLY <1>14, <1>15, Induction
  <1>17. \A n \in 0..N : g[n] \in Known BY <1>1, <1>16
  <1> QED BY <1>10, <1>13, <1>17 DEF N

IsAppliedFold(f, S, r) ==
    f = [s \in SUBSET S |-> IF s = {} THEN <<>>
                            ELSE LET x == Max(s) IN AddSection(f[s \ {x}], r[x])]

\* EntriesOf is what a lookup may know.
LEMMA EntriesOfFound ==
    ASSUME NEW subs \in Seq(Subsections), WholeAll(subs) PROVE EntriesOf(subs) \in Known
  <1> HIDE DEF Known, Subsections
  <1>1. Len(subs) \in Nat OBVIOUS
  <1>2. Len(subs) \in 0..Len(subs) BY <1>1
  <1> QED BY <1>2, EntriesOfSteps

\* Applied, section by section from the oldest.
LEMMA AppliedSteps ==
    ASSUME NEW t \in Seq(Sections), \A i \in DOMAIN t : WholeAll(t[i].subsections)
    PROVE  \E g : /\ g[0] = <<>> /\ Applied(t) = g[Len(t)]
                  /\ \A n \in 1..Len(t) : g[n] = AddSection(g[n - 1], t[Len(t) - n + 1])
                  /\ \A n \in 0..Len(t) : g[n] \in Known
  <1> DEFINE N == Len(t)
             r == Reverse(t)
             step == [p \in (1..N) \X Known |-> AddSection(p[2], r[p[1]])]
             max == [s \in SUBSET (1..N) |-> Max(s)]
  <1>1. /\ N \in Nat /\ DOMAIN r = 1..N
        /\ \A n \in 1..N : r[n] = t[N - n + 1] /\ N - n + 1 \in DOMAIN t
    BY DEF Reverse
  <1>2. ASSUME NEW n \in 1..N, NEW v \in Known
        PROVE  step[<<n, v>>] = AddSection(v, r[n]) /\ AddSection(v, r[n]) \in Known
    <2>1. r[n] \in Sections /\ WholeAll(r[n].subsections) BY <1>1
    <2>2. r[n].subsections \in Seq(Subsections) BY <2>1 DEF Sections
    <2> HIDE DEF Known, Subsections, r
    <2>3. EntriesOf(r[n].subsections) \in Known BY <2>1, <2>2, EntriesOfFound
    <2>4. AddSection(v, r[n]) \in Known BY <2>3, AddSectionIs
    <2> HIDE DEF N
    <2> QED BY <2>4
  <1> HIDE DEF Known, Sections, r
  <1>3. step \in [(1..N) \X Known -> Known]
    <2> HIDE DEF N
    <2>1. \A p \in (1..N) \X Known : AddSection(p[2], r[p[1]]) \in Known BY <1>2
    <2> QED BY <2>1
  <1>4. IsHighest(max, N) /\ \A n \in 1..N : Max(1..n) = n /\ (1..n) \ {n} = 1..(n - 1)
    <2> HIDE DEF N
    <2> QED BY <1>1, HighestIs
  <1>5. \A s \in SUBSET (1..N) : max[s] = Max(s) OBVIOUS
  <1> HIDE DEF step, max, N
  <1>6. PICK f \in [SUBSET (1..N) -> Known] : IsFoldOf(f, N, <<>>, step, max)
    BY ONLY <1>1, <1>3, <1>4, NothingFound, FoldDefined
  <1>7. IsAppliedFold(f, 1..N, r)
    <2>1. ASSUME NEW s \in SUBSET (1..N)
          PROVE  f[s] = IF s = {} THEN <<>>
                        ELSE LET x == Max(s) IN AddSection(f[s \ {x}], r[x])
      <3>1. f[s] = IF s = {} THEN <<>> ELSE step[<<max[s], f[s \ {max[s]}]>>]
        BY ONLY <1>6 DEF IsFoldOf
      <3>2. CASE s = {} BY <3>1, <3>2
      <3>3. CASE s # {}
        <4>1. Max(s) \in 1..N BY <1>4, <1>5, <3>3 DEF IsHighest
        <4>2. f[s \ {Max(s)}] \in Known OBVIOUS
        <4> QED BY ONLY <1>2, <1>5, <3>1, <3>3, <4>1, <4>2
      <3> QED BY <3>2, <3>3
    <2>2. f = [s \in SUBSET (1..N) |-> f[s]] BY <1>6
    <2> QED BY ONLY <2>1, <2>2 DEF IsAppliedFold
  <1>8. PICK e : e = CHOOSE h : IsAppliedFold(h, 1..N, r) OBVIOUS
  <1>9. IsAppliedFold(e, 1..N, r) BY ONLY <1>7, <1>8
  <1>10. Applied(t) = e[1..N]
    <2>1. Applied(t) = (CHOOSE h : IsAppliedFold(h, DOMAIN r, r))[DOMAIN r]
      <3> HIDE DEF AddSection
      <3> QED BY ONLY Zenon DEF Applied, FoldLeft, MapThenFoldSet, IsAppliedFold, r
    <2> QED BY ONLY <1>1, <1>8, <2>1
  <1>11. e[{}] = <<>>
    <2>1. {} \in SUBSET (1..N) OBVIOUS
    <2> QED BY ONLY <1>9, <2>1 DEF IsAppliedFold
  <1>12. ASSUME NEW n \in 1..N PROVE e[1..n] = AddSection(e[1..(n - 1)], t[N - n + 1])
    <2>0. N \in Nat /\ n \in 1..N BY <1>1
    <2>1. 1..n \in SUBSET (1..N) /\ 1..n # {}
      <3>1. PICK m : m = N OBVIOUS
      <3>2. m \in Nat /\ n \in 1..m BY ONLY <2>0, <3>1
      <3>3. n \in 1..n /\ \A i \in 1..n : i \in 1..m BY ONLY <3>2
      <3> QED BY ONLY <3>1, <3>3
    <2>2. e[1..n] = LET x == Max(1..n) IN AddSection(e[(1..n) \ {x}], r[x])
      BY ONLY <1>9, <2>1 DEF IsAppliedFold
    <2> QED BY ONLY <1>1, <1>4, <1>12, <2>2
  <1> DEFINE g == [n \in 0..N |-> e[1..n]]
             S == {n \in Nat : n <= N => g[n] \in Known}
  <1>13. g[0] = <<>> /\ g[N] = e[1..N] /\ \A n \in 1..N : g[n] = AddSection(g[n - 1], t[N - n + 1])
    <2>1. 1..0 = {} /\ 0 \in 0..N /\ N \in 0..N BY <1>1
    <2>2. \A n \in 1..N : n \in 0..N /\ n - 1 \in 0..N BY <1>1
    <2> QED BY <1>11, <1>12, <2>1, <2>2
  <1> HIDE DEF g
  <1>14. 0 \in S BY <1>13, NothingFound
  <1>15. ASSUME NEW n \in Nat, n \in S PROVE n + 1 \in S
    <2>1. ASSUME n + 1 <= N PROVE g[n + 1] \in Known
      <3>1. n <= N /\ n + 1 \in 1..N /\ (n + 1) - 1 = n BY <1>1, <2>1
      <3>2. g[n] \in Known BY <1>15, <3>1
      <3>3. g[n + 1] = AddSection(g[n], r[n + 1])
        <4>1. g[n + 1] = AddSection(g[n], t[N - (n + 1) + 1]) BY ONLY <1>13, <3>1
        <4> QED BY ONLY <1>1, <3>1, <4>1
      <3> QED BY ONLY <1>2, <3>1, <3>2, <3>3
    <2> QED BY <2>1
  <1>16. \A n \in Nat : n \in S
    <2> HIDE DEF S
    <2> QED BY ONLY <1>14, <1>15, Induction
  <1>17. \A n \in 0..N : g[n] \in Known BY <1>1, <1>16
  <1> QED BY <1>10, <1>13, <1>17 DEF N

\* EntriesOf finds the first subsection that covers an object.
LEMMA EntriesOfIs ==
    ASSUME NEW subs \in Seq(Subsections), WholeAll(subs), NEW k \in Nums
    PROVE  /\ Uncovered(subs, k) => k \notin DOMAIN EntriesOf(subs)
           /\ \A sub : IsFirst(subs, k, sub) =>
                 k \in DOMAIN EntriesOf(subs) /\ EntriesOf(subs)[k] = EntryOf(sub, k)
  <1> HIDE DEF Known, Subsections
  <1> DEFINE N == Len(subs)
  <1>1. PICK g : /\ g[0] = <<>> /\ EntriesOf(subs) = g[N]
                 /\ \A n \in 1..N : g[n] = AddSubsection(g[n - 1], subs[n])
                 /\ \A n \in 0..N : g[n] \in Known
    BY EntriesOfSteps
  <1>2. N \in Nat /\ DOMAIN subs = 1..N /\ \A n \in 1..N : subs[n] \in Subsections /\ Whole(subs[n])
    BY DEF WholeAll
  <1> HIDE DEF N
  <1> DEFINE Absent(n) == (\A p \in 1..n : ~Covers(subs[p], k)) => k \notin DOMAIN g[n]
             Present(n) == \A p \in 1..n :
                            Covers(subs[p], k) /\ (\A q \in 1..(p - 1) : ~Covers(subs[q], k)) =>
                                k \in DOMAIN g[n] /\ g[n][k] = EntryOf(subs[p], k)
             S == {n \in Nat : n <= N => Absent(n) /\ Present(n)}
  <1>3. 0 \in S BY <1>1, NothingFound
  <1>4. ASSUME NEW n \in Nat, n \in S PROVE n + 1 \in S
    <2> SUFFICES ASSUME n + 1 <= N PROVE Absent(n + 1) /\ Present(n + 1) OBVIOUS
    <2>1. /\ n <= N /\ n + 1 \in 1..N /\ (n + 1) - 1 = n /\ n \in 0..N /\ n + 1 \in 1..(n + 1)
          /\ \A p \in 1..n : p \in 1..(n + 1)
          /\ \A p \in 1..(n + 1) : p \in 1..n \/ p = n + 1
      BY <1>2
    <2>2. Absent(n) /\ Present(n) BY <1>4, <2>1
    <2>3. g[n + 1] = AddSubsection(g[n], subs[n + 1]) /\ g[n] \in Known BY ONLY <1>1, <2>1
    <2>4. /\ DOMAIN g[n + 1] = DOMAIN g[n] \cup {m \in Nums : Covers(subs[n + 1], m)}
          /\ \A m \in DOMAIN g[n + 1] :
                g[n + 1][m] = IF m \in DOMAIN g[n] THEN g[n][m] ELSE EntryOf(subs[n + 1], m)
      <3>1. PICK v, u : v = g[n] /\ u = subs[n + 1] OBVIOUS
      <3>2. v \in Known /\ u \in Subsections /\ Whole(u) /\ g[n + 1] = AddSubsection(v, u)
        BY ONLY <1>2, <2>1, <2>3, <3>1
      <3> HIDE DEF AddSubsection
      <3>3. /\ DOMAIN AddSubsection(v, u) = DOMAIN v \cup {m \in Nums : Covers(u, m)}
            /\ \A m \in DOMAIN AddSubsection(v, u) :
                  AddSubsection(v, u)[m] = IF m \in DOMAIN v THEN v[m] ELSE EntryOf(u, m)
        BY ONLY <3>2, AddSubsectionIs
      <3> QED BY ONLY <3>1, <3>2, <3>3
    <2>5. k \in DOMAIN g[n + 1] <=> k \in DOMAIN g[n] \/ Covers(subs[n + 1], k)
      BY ONLY <2>4, k \in Nums
    <2>6. Absent(n + 1) BY ONLY <2>1, <2>2, <2>5
    <2>7. Present(n + 1)
      <3> SUFFICES ASSUME NEW p \in 1..(n + 1), Covers(subs[p], k),
                          \A q \in 1..(p - 1) : ~Covers(subs[q], k)
                   PROVE  k \in DOMAIN g[n + 1] /\ g[n + 1][k] = EntryOf(subs[p], k)
        OBVIOUS
      <3>1. CASE p = n + 1 BY ONLY <2>1, <2>2, <2>4, <2>5, <3>1, p \in 1..(n + 1),
                                   Covers(subs[p], k), \A q \in 1..(p - 1) : ~Covers(subs[q], k)
      <3>2. CASE p \in 1..n BY ONLY <2>2, <2>4, <2>5, <3>2, Covers(subs[p], k),
                                   \A q \in 1..(p - 1) : ~Covers(subs[q], k)
      <3> QED BY ONLY <2>1, <3>1, <3>2, p \in 1..(n + 1)
    <2> QED BY <2>6, <2>7
  <1>5. \A n \in Nat : n \in S
    <2> HIDE DEF S
    <2> QED BY ONLY <1>3, <1>4, Induction
  <1>6. Absent(N) /\ Present(N)
    <2> HIDE DEF Absent, Present
    <2>1. N <= N BY <1>2
    <2> QED BY <1>2, <1>5, <2>1
  <1> QED BY <1>1, <1>2, <1>6 DEF Uncovered, IsFirst

\* Applied finds it in the first section that has one: the newest.
LEMMA AppliedIs ==
    ASSUME NEW t \in Seq(Sections), \A i \in DOMAIN t : WholeAll(t[i].subsections), NEW k \in Nums
    PROVE  /\ (\A i \in DOMAIN t : Uncovered(t[i].subsections, k)) => k \notin DOMAIN Applied(t)
           /\ \A sub : \A i \in DOMAIN t :
                 /\ IsFirst(t[i].subsections, k, sub)
                 /\ \A h \in 1..(i - 1) : Uncovered(t[h].subsections, k)
                 => k \in DOMAIN Applied(t) /\ Applied(t)[k] = EntryOf(sub, k)
  <1> DEFINE N == Len(t)
             E(i) == EntriesOf(t[i].subsections)
  <1>1. PICK g : /\ g[0] = <<>> /\ Applied(t) = g[N]
                 /\ \A n \in 1..N : g[n] = AddSection(g[n - 1], t[N - n + 1])
                 /\ \A n \in 0..N : g[n] \in Known
    <2> HIDE DEF Known, Sections
    <2> QED BY AppliedSteps
  <1>2. N \in Nat /\ DOMAIN t = 1..N OBVIOUS
  <1>3. ASSUME NEW i \in 1..N
        PROVE  /\ E(i) \in Known
               /\ Uncovered(t[i].subsections, k) => k \notin DOMAIN E(i)
               /\ \A sub : IsFirst(t[i].subsections, k, sub) =>
                     k \in DOMAIN E(i) /\ E(i)[k] = EntryOf(sub, k)
    <2>1. PICK subs : subs = t[i].subsections OBVIOUS
    <2>0. t[i] \in Sections /\ WholeAll(t[i].subsections) BY <1>2
    <2>2. subs \in Seq(Subsections) /\ WholeAll(subs) BY ONLY <2>0, <2>1 DEF Sections
    <2> HIDE DEF Known, Sections, Subsections
    <2>3. EntriesOf(subs) \in Known BY ONLY <2>2, EntriesOfFound
    <2>4. /\ Uncovered(subs, k) => k \notin DOMAIN EntriesOf(subs)
          /\ \A sub : IsFirst(subs, k, sub) =>
                k \in DOMAIN EntriesOf(subs) /\ EntriesOf(subs)[k] = EntryOf(sub, k)
      BY ONLY <2>2, EntriesOfIs, k \in Nums
    <2> QED BY ONLY <2>1, <2>3, <2>4
  <1> HIDE DEF Known, Sections, N
  <1> DEFINE Without(n) == (\A i \in (N - n + 1)..N : Uncovered(t[i].subsections, k)) => k \notin DOMAIN g[n]
             With(n) == \A sub : \A i \in (N - n + 1)..N :
                            /\ IsFirst(t[i].subsections, k, sub)
                            /\ \A h \in (N - n + 1)..(i - 1) : Uncovered(t[h].subsections, k)
                            => k \in DOMAIN g[n] /\ g[n][k] = EntryOf(sub, k)
             S == {n \in Nat : n <= N => Without(n) /\ With(n)}
  <1>4. 0 \in S
    <2>1. (N - 0 + 1)..N = {} BY <1>2
    <2>2. g[0] = <<>> BY <1>1
    <2> QED BY <2>1, <2>2, NothingFound
  <1>5. ASSUME NEW n \in Nat, n \in S PROVE n + 1 \in S
    <2> SUFFICES ASSUME n + 1 <= N PROVE Without(n + 1) /\ With(n + 1) OBVIOUS
    <2>1. PICK j : j = N - n OBVIOUS
    <2>2. /\ n <= N /\ n + 1 \in 1..N /\ (n + 1) - 1 = n /\ n \in 0..N
          /\ N - (n + 1) + 1 = j /\ N - n + 1 = j + 1 /\ j \in 1..N
          /\ (\A i \in (j + 1)..N : i \in j..N) /\ (\A i \in j..N : i = j \/ i \in (j + 1)..N)
          /\ (\A i \in (j + 1)..N : j \in j..(i - 1) /\ \A h \in (j + 1)..(i - 1) : h \in j..(i - 1))
          /\ j \in j..N
      BY <1>2, <2>1
    <2>3. Without(n) /\ With(n) BY <1>5, <2>2
    <2>4. PICK new, old : new = E(j) /\ old = g[n] OBVIOUS
    <2>5. /\ DOMAIN g[n + 1] = DOMAIN old \cup DOMAIN new
          /\ \A m \in DOMAIN g[n + 1] : g[n + 1][m] = IF m \in DOMAIN new THEN new[m] ELSE old[m]
      <3>1. PICK section : section = t[j] OBVIOUS
      <3>2. g[n + 1] = AddSection(g[n], t[N - (n + 1) + 1]) /\ g[n] \in Known BY ONLY <1>1, <2>2
      <3>3. g[n + 1] = AddSection(old, section) /\ old \in Known
        BY ONLY <2>2, <2>4, <3>1, <3>2
      <3>4. EntriesOf(section.subsections) \in Known /\ new = EntriesOf(section.subsections)
        BY ONLY <1>3, <2>2, <2>4, <3>1
      <3> HIDE DEF AddSection
      <3>5. /\ DOMAIN AddSection(old, section) = DOMAIN old \cup DOMAIN EntriesOf(section.subsections)
            /\ \A m \in DOMAIN AddSection(old, section) :
                  AddSection(old, section)[m] =
                      IF m \in DOMAIN EntriesOf(section.subsections)
                        THEN EntriesOf(section.subsections)[m] ELSE old[m]
        BY ONLY <3>3, <3>4, AddSectionIs
      <3> QED BY ONLY <3>3, <3>4, <3>5
    <2>6. /\ Uncovered(t[j].subsections, k) => k \notin DOMAIN new
          /\ \A sub : IsFirst(t[j].subsections, k, sub) => k \in DOMAIN new /\ new[k] = EntryOf(sub, k)
      BY ONLY <1>3, <2>2, <2>4
    <2>7. Without(n + 1)
      <3> SUFFICES ASSUME \A i \in j..N : Uncovered(t[i].subsections, k)
                   PROVE  k \notin DOMAIN g[n + 1]
        BY <2>2
      <3>1. k \notin DOMAIN new BY <2>2, <2>6
      <3>2. k \notin DOMAIN old BY <2>2, <2>3, <2>4
      <3> QED BY ONLY <2>5, <3>1, <3>2
    <2>8. With(n + 1)
      <3> SUFFICES ASSUME NEW i \in j..N, NEW sub, IsFirst(t[i].subsections, k, sub),
                          \A h \in j..(i - 1) : Uncovered(t[h].subsections, k)
                   PROVE  k \in DOMAIN g[n + 1] /\ g[n + 1][k] = EntryOf(sub, k)
        BY <2>2
      <3>1. CASE i = j
        <4>1. k \in DOMAIN new /\ new[k] = EntryOf(sub, k) BY <2>6, <3>1
        <4> QED BY ONLY <2>5, <4>1
      <3>2. CASE i \in (j + 1)..N
        <4>1. k \notin DOMAIN new BY <2>2, <2>6, <3>2
        <4>2. \A h \in (N - n + 1)..(i - 1) : Uncovered(t[h].subsections, k) BY <2>2, <3>2
        <4>3. i \in (N - n + 1)..N BY ONLY <2>2, <3>2
        <4>4. k \in DOMAIN old /\ old[k] = EntryOf(sub, k)
          BY ONLY <2>3, <2>4, <4>2, <4>3, IsFirst(t[i].subsections, k, sub)
        <4> QED BY ONLY <2>5, <4>1, <4>4
      <3> QED BY <2>2, <3>1, <3>2
    <2> QED BY <2>7, <2>8
  <1>6. \A n \in Nat : n \in S
    <2> HIDE DEF S
    <2> QED BY ONLY <1>4, <1>5, Induction
  <1>7. Without(N) /\ With(N)
    <2> HIDE DEF Without, With
    <2>1. N <= N BY <1>2
    <2> QED BY <1>2, <1>6, <2>1
  <1>8. N - N + 1 = 1 BY <1>2
  <1> QED BY ONLY <1>1, <1>2, <1>7, <1>8

\* The first that covers an object in two sequences, one after the other.
LEMMA FirstOfBoth ==
    ASSUME NEW s \in Seq(Subsections), NEW r \in Seq(Subsections), NEW k \in Nums, NEW sub
    PROVE  /\ Uncovered(s, k) /\ Uncovered(r, k) => Uncovered(s \o r, k)
           /\ IsFirst(s, k, sub) => IsFirst(s \o r, k, sub)
           /\ Uncovered(s, k) /\ IsFirst(r, k, sub) => IsFirst(s \o r, k, sub)
  <1>1. PICK c, m, n : c = s \o r /\ m = Len(s) /\ n = Len(r) OBVIOUS
  <1>2. /\ m \in Nat /\ n \in Nat /\ DOMAIN s = 1..m /\ DOMAIN r = 1..n /\ DOMAIN c = 1..(m + n)
        /\ \A p \in 1..m : c[p] = s[p]
        /\ \A p \in 1..n : c[m + p] = r[p]
        /\ \A p \in 1..(m + n) : p \in 1..m \/ (p - m \in 1..n /\ c[p] = r[p - m])
    <2> HIDE DEF Subsections
    <2> QED BY <1>1
  <1>3. ASSUME Uncovered(s, k), Uncovered(r, k) PROVE Uncovered(c, k)
    BY ONLY <1>2, <1>3 DEF Uncovered
  <1>4. ASSUME IsFirst(s, k, sub) PROVE IsFirst(c, k, sub)
    <2>1. PICK p \in 1..m : s[p] = sub /\ Covers(sub, k) /\ \A q \in 1..(p - 1) : ~Covers(s[q], k)
      BY ONLY <1>2, <1>4 DEF IsFirst
    <2>2. p \in 1..(m + n) /\ \A q \in 1..(p - 1) : q \in 1..m BY ONLY <1>2, p \in 1..m
    <2>3. c[p] = sub /\ \A q \in 1..(p - 1) : ~Covers(c[q], k) BY ONLY <1>2, <2>1, <2>2
    <2> QED BY ONLY <1>2, <2>1, <2>2, <2>3 DEF IsFirst
  <1>5. ASSUME Uncovered(s, k), IsFirst(r, k, sub) PROVE IsFirst(c, k, sub)
    <2>1. PICK p \in 1..n : r[p] = sub /\ Covers(sub, k) /\ \A q \in 1..(p - 1) : ~Covers(r[q], k)
      BY ONLY <1>2, <1>5 DEF IsFirst
    <2>2. /\ m + p \in 1..(m + n)
          /\ \A q \in 1..((m + p) - 1) : q \in 1..(m + n) /\ (q \notin 1..m => q - m \in 1..(p - 1))
      BY ONLY <1>2, p \in 1..n
    <2>3. ASSUME NEW q \in 1..((m + p) - 1) PROVE ~Covers(c[q], k)
      <3>1. CASE q \in 1..m BY ONLY <1>2, <1>5, <3>1 DEF Uncovered
      <3>2. CASE q \notin 1..m
        <4>1. q - m \in 1..(p - 1) /\ q \in 1..(m + n) BY ONLY <2>2, <2>3, <3>2
        <4>2. c[q] = r[q - m] BY ONLY <1>2, <3>2, <4>1
        <4> QED BY ONLY <2>1, <4>1, <4>2
      <3> QED BY <3>1, <3>2
    <2>4. c[m + p] = sub BY ONLY <1>2, <2>1
    <2> QED BY ONLY <1>2, <2>1, <2>2, <2>3, <2>4 DEF IsFirst
  <1> QED BY ONLY <1>1, <1>3, <1>4, <1>5

\* The flattened subsections of the first n sections.
IsFlat(f, u) ==
    f = [i \in 1..Len(u) |-> IF i = 1 THEN u[i] ELSE f[i - 1] \o u[i]]

\* FlattenSeq, sequence by sequence.
LEMMA FlattenSteps ==
    ASSUME NEW S, NEW u \in Seq(Seq(S)), u # <<>>
    PROVE  \E g : /\ FlattenSeq(u) = g[Len(u)]
                  /\ g[1] = u[1]
                  /\ \A n \in 2..Len(u) : g[n] = g[n - 1] \o u[n]
                  /\ \A n \in 1..Len(u) : g[n] \in Seq(S)
  <1> DEFINE N == Len(u)
             V == Seq(S)
             step == [p \in Nat \X V |-> IF p[1] \in 1..N THEN p[2] \o u[p[1]] ELSE p[2]]
             h == [n \in Nat |-> IF n = 0 THEN 0 ELSE n - 1]
  <1>1. N \in Nat \ {0} /\ \A n \in 1..N : u[n] \in V OBVIOUS
  <1>2. \A v, w \in V : v \o w \in V OBVIOUS
  <1>3. <<>> \in V /\ \A v \in V : <<>> \o v = v OBVIOUS
  <1> HIDE DEF N, V
  <1>4. step \in [Nat \X V -> V] BY <1>1, <1>2
  <1>5. ASSUME NEW n \in 1..N, NEW v \in V PROVE step[<<n, v>>] = v \o u[n]
    <2>1. <<n, v>> \in Nat \X V /\ <<n, v>>[1] = n /\ <<n, v>>[2] = v BY <1>1
    <2> QED BY ONLY <2>1, <1>5
  <1>6. h \in [Nat -> Nat] /\ \A n \in Nat \ {0} : h[n] < n /\ h[n] = n - 1 OBVIOUS
  <1> HIDE DEF step, h
  <1>7. IsRecursion(V, <<>>, h, step) BY ONLY <1>3, <1>4, <1>6 DEF IsRecursion
  <1>8. PICK f \in [Nat -> V] : f = [n \in Nat |-> IF n = 0 THEN <<>> ELSE step[<<n, f[h[n]]>>]]
    BY ONLY <1>7, Recursion
  <1>9. ASSUME NEW n \in 1..N PROVE f[n] = f[n - 1] \o u[n] /\ f[n] \in V /\ f[n - 1] \in V
    <2>1. n \in Nat \ {0} /\ n - 1 \in Nat /\ h[n] = n - 1 BY <1>1, <1>6
    <2>2. f[n] = step[<<n, f[n - 1]>>]
      <3>1. f[n] = IF n = 0 THEN <<>> ELSE step[<<n, f[h[n]]>>] BY ONLY <1>8, <2>1
      <3> QED BY ONLY <2>1, <3>1
    <2>3. f[n] \in V /\ f[n - 1] \in V BY <2>1
    <2> QED BY ONLY <1>5, <1>9, <2>2, <2>3
  <1>10. f[0] = <<>> BY ONLY <1>8
  <1>11. PICK k : k = [n \in 1..N |-> f[n]] OBVIOUS
  <1>12. ASSUME NEW n \in 1..N PROVE k[n] = IF n = 1 THEN u[n] ELSE k[n - 1] \o u[n]
    <2>1. k[n] = f[n - 1] \o u[n] BY <1>9, <1>11
    <2>2. CASE n = 1
      <3>1. f[n - 1] = <<>> /\ u[n] \in V BY <1>1, <1>10, <2>2
      <3> QED BY ONLY <1>3, <2>1, <2>2, <3>1
    <2>3. CASE n # 1
      <3>1. n - 1 \in 1..N BY <1>1, <2>3
      <3>2. k[n - 1] = f[n - 1] BY ONLY <1>11, <3>1
      <3> QED BY ONLY <2>1, <2>3, <3>2
    <2> QED BY <2>2, <2>3
  <1>13. IsFlat(k, u)
    <2>1. k = [n \in 1..N |-> k[n]] BY <1>11
    <2> QED BY ONLY <1>12, <2>1 DEF IsFlat, N
  <1>14. PICK g : g = CHOOSE e : IsFlat(e, u) OBVIOUS
  <1>15. IsFlat(g, u) BY ONLY <1>13, <1>14
  <1>16. FlattenSeq(u) = g[N] BY ONLY <1>1, <1>14, Zenon DEF FlattenSeq, IsFlat, N
  <1>17. \A n \in 1..N : g[n] = IF n = 1 THEN u[n] ELSE g[n - 1] \o u[n]
    BY ONLY <1>15 DEF IsFlat, N
  <1> DEFINE T == {n \in Nat : n + 1 <= N => g[n + 1] \in V}
  <1>18. 0 \in T
    <2>1. 0 + 1 = 1 /\ 1 \in 1..N BY <1>1
    <2>2. g[1] = u[1] BY ONLY <1>17, <2>1
    <2> QED BY <1>1, <2>1, <2>2
  <1>19. ASSUME NEW n \in Nat, n \in T PROVE n + 1 \in T
    <2>1. ASSUME (n + 1) + 1 <= N PROVE g[(n + 1) + 1] \in V
      <3>1. (n + 1) + 1 \in 1..N /\ (n + 1) + 1 # 1 /\ ((n + 1) + 1) - 1 = n + 1 /\ n + 1 <= N
        BY <1>1, <2>1
      <3>2. g[n + 1] \in V BY <1>19, <3>1
      <3>3. g[(n + 1) + 1] = g[n + 1] \o u[(n + 1) + 1] BY ONLY <1>17, <3>1
      <3> QED BY ONLY <1>1, <1>2, <3>1, <3>2, <3>3
    <2> QED BY <2>1
  <1>20. \A n \in Nat : n \in T
    <2> HIDE DEF T
    <2> QED BY ONLY <1>18, <1>19, Induction
  <1>21. ASSUME NEW n \in 1..N PROVE g[n] \in V
    <2>1. n - 1 \in Nat /\ (n - 1) + 1 = n /\ n <= N BY <1>1
    <2> QED BY <1>20, <2>1
  <1>22. g[1] = u[1] /\ \A n \in 2..N : g[n] = g[n - 1] \o u[n]
    <2>1. 1 \in 1..N /\ \A n \in 2..N : n \in 1..N /\ n # 1 BY <1>1
    <2> QED BY ONLY <1>17, <2>1
  <1> QED BY ONLY <1>16, <1>21, <1>22 DEF N, V

\* The subsections in the order they were read: the first that covers an
\* object is the first of the first section that has one.
LEMMA FlatIs ==
    ASSUME NEW t \in Seq(Sections), t # <<>>, NEW k \in Nums
    PROVE  LET flat == FlattenSeq([i \in DOMAIN t |-> t[i].subsections])
           IN  /\ flat \in Seq(Subsections)
               /\ (\A i \in DOMAIN t : Uncovered(t[i].subsections, k)) => Uncovered(flat, k)
               /\ \A sub : \A i \in DOMAIN t :
                     /\ IsFirst(t[i].subsections, k, sub)
                     /\ \A h \in 1..(i - 1) : Uncovered(t[h].subsections, k)
                     => IsFirst(flat, k, sub)
  <1>1. PICK u : u = [i \in DOMAIN t |-> t[i].subsections] OBVIOUS
  <1>2. PICK N : N = Len(t) OBVIOUS
  <1>3. N \in Nat \ {0} /\ DOMAIN t = 1..N /\ \A i \in 1..N : t[i] \in Sections BY <1>2
  <1>4. /\ u \in Seq(Seq(Subsections)) /\ Len(u) = N /\ u # <<>>
        /\ \A i \in 1..N : u[i] = t[i].subsections /\ u[i] \in Seq(Subsections)
    <2>1. \A i \in 1..N : t[i].subsections \in Seq(Subsections) BY ONLY <1>3 DEF Sections
    <2> HIDE DEF Subsections, Sections
    <2>2. \A i \in 1..N : u[i] = t[i].subsections BY ONLY <1>1, <1>3
    <2>3. u \in [1..N -> Seq(Subsections)] BY ONLY <1>1, <1>3, <2>1
    <2>4. u \in Seq(Seq(Subsections)) /\ Len(u) = N BY ONLY <1>3, <2>3
    <2> QED BY ONLY <1>3, <2>1, <2>2, <2>4
  <1> HIDE DEF Subsections, Sections
  <1>5. PICK g : /\ FlattenSeq(u) = g[N] /\ g[1] = u[1]
                 /\ \A n \in 2..N : g[n] = g[n - 1] \o u[n]
                 /\ \A n \in 1..N : g[n] \in Seq(Subsections)
    BY ONLY <1>4, FlattenSteps
  <1> DEFINE Without(n) == (\A i \in 1..n : Uncovered(u[i], k)) => Uncovered(g[n], k)
             With(n) == \A sub : \A i \in 1..n :
                            IsFirst(u[i], k, sub) /\ (\A h \in 1..(i - 1) : Uncovered(u[h], k)) =>
                                IsFirst(g[n], k, sub)
             S == {n \in Nat : n + 1 <= N => Without(n + 1) /\ With(n + 1)}
  <1>6. k \in Nat BY NumsAssumption, UnsignedRangeAssumption
  <1>7. 0 \in S
    <2>1. 0 + 1 = 1 /\ 1 \in 1..1 /\ \A i \in 1..1 : i = 1 OBVIOUS
    <2>2. Without(1) BY ONLY <1>5, <2>1
    <2>3. With(1) BY ONLY <1>5, <2>1
    <2> QED BY <2>1, <2>2, <2>3
  <1>8. ASSUME NEW n \in Nat, n \in S PROVE n + 1 \in S
    <2> SUFFICES ASSUME (n + 1) + 1 <= N PROVE Without((n + 1) + 1) /\ With((n + 1) + 1) OBVIOUS
    <2>1. PICK m : m = n + 1 OBVIOUS
    <2>2. /\ m \in 1..N /\ m + 1 \in 2..N /\ m + 1 \in 1..N /\ (m + 1) - 1 = m
          /\ m + 1 \in 1..(m + 1) /\ (\A i \in 1..m : i \in 1..(m + 1))
          /\ \A i \in 1..(m + 1) : i \in 1..m \/ i = m + 1
      BY <1>3, <2>1
    <2>3. Without(m) /\ With(m) BY <1>3, <1>8, <2>1, <2>2
    <2>4. PICK s, r : s = g[m] /\ r = u[m + 1] OBVIOUS
    <2>5. s \in Seq(Subsections) /\ r \in Seq(Subsections) /\ g[m + 1] = s \o r
      BY ONLY <1>4, <1>5, <2>2, <2>4
    <2>6. ASSUME NEW sub
          PROVE  /\ Uncovered(s, k) /\ Uncovered(r, k) => Uncovered(s \o r, k)
                 /\ IsFirst(s, k, sub) => IsFirst(s \o r, k, sub)
                 /\ Uncovered(s, k) /\ IsFirst(r, k, sub) => IsFirst(s \o r, k, sub)
      BY ONLY <1>6, <2>5, FirstOfBoth
    <2>7. Without(m + 1) BY ONLY <2>2, <2>3, <2>4, <2>5, <2>6
    <2>8. With(m + 1)
      <3> SUFFICES ASSUME NEW sub, NEW i \in 1..(m + 1), IsFirst(u[i], k, sub),
                          \A h \in 1..(i - 1) : Uncovered(u[h], k)
                   PROVE  IsFirst(g[m + 1], k, sub)
        OBVIOUS
      <3>1. CASE i \in 1..m
        <4>1. IsFirst(s, k, sub)
          BY ONLY <2>3, <2>4, <3>1, IsFirst(u[i], k, sub), \A h \in 1..(i - 1) : Uncovered(u[h], k)
        <4> QED BY ONLY <2>5, <2>6, <4>1
      <3>2. CASE i = m + 1
        <4>1. \A h \in 1..m : Uncovered(u[h], k)
          BY ONLY <2>2, <3>2, \A h \in 1..(i - 1) : Uncovered(u[h], k)
        <4>2. Uncovered(s, k) BY ONLY <2>3, <2>4, <4>1
        <4>3. IsFirst(r, k, sub) BY ONLY <2>4, <3>2, IsFirst(u[i], k, sub)
        <4> QED BY ONLY <2>5, <2>6, <4>2, <4>3
      <3> QED BY <2>2, <3>1, <3>2
    <2> QED BY <2>1, <2>7, <2>8
  <1>9. \A n \in Nat : n \in S
    <2> HIDE DEF S
    <2> QED BY ONLY <1>7, <1>8, Induction
  <1>10. Without(N) /\ With(N)
    <2> HIDE DEF Without, With
    <2>1. N - 1 \in Nat /\ (N - 1) + 1 = N /\ N <= N BY <1>3
    <2> QED BY <1>9, <2>1
  <1>11. N \in 1..N BY <1>3
  <1>12. g[N] \in Seq(Subsections) BY ONLY <1>5, <1>11
  <1>13. (\A i \in 1..N : Uncovered(t[i].subsections, k)) => Uncovered(g[N], k)
    BY ONLY <1>4, <1>10
  <1>14. ASSUME NEW sub, NEW i \in 1..N, IsFirst(t[i].subsections, k, sub),
                \A h \in 1..(i - 1) : Uncovered(t[h].subsections, k)
         PROVE  IsFirst(g[N], k, sub)
    <2>1. \A h \in 1..(i - 1) : h \in 1..N BY <1>3
    <2>2. IsFirst(u[i], k, sub) /\ \A h \in 1..(i - 1) : Uncovered(u[h], k)
      BY ONLY <1>4, <1>14, <2>1
    <2> QED BY ONLY <1>10, <1>14, <2>2
  <1> QED BY ONLY <1>1, <1>3, <1>5, <1>12, <1>13, <1>14

\* The least index at which there is something is the one Min selects.
LEMMA LeastSelected ==
    ASSUME NEW I \in SUBSET Nat, NEW p \in I, \A q \in I : p <= q PROVE Min(I) = p
  <1>1. \A q \in I : p =< q OBVIOUS
  <1>2. \A q \in I : (\A r \in I : q =< r) => q = p
    <2>1. SUFFICES ASSUME NEW q \in I, \A r \in I : q =< r PROVE q = p OBVIOUS
    <2>2. q =< p /\ p <= q /\ q \in Nat /\ p \in Nat BY <2>1
    <2> QED BY <2>2
  <1> QED BY <1>1, <1>2 DEF Min

\* The lookup (CosXrefTable.c:123-146) returns the entry of the first subsection
\* that covers the object, or nothing.
LEMMA FindEntryIs ==
    ASSUME NEW t, NEW k,
           FlattenSeq([i \in DOMAIN t |-> t[i].subsections]) \in Seq(Subsections)
    PROVE  LET flat == FlattenSeq([i \in DOMAIN t |-> t[i].subsections])
           IN  /\ Uncovered(flat, k) => FindEntry(t, k) = None
               /\ \A sub : IsFirst(flat, k, sub) => FindEntry(t, k) = EntryOf(sub, k)
  <1>1. PICK flat : flat = FlattenSeq([i \in DOMAIN t |-> t[i].subsections]) OBVIOUS
  <1>2. PICK I : I = {i \in 1..Len(flat) : Covers(flat[i], k)} OBVIOUS
  <1>3. FindEntry(t, k) =
            LET i == IF I # {} THEN Min(I) ELSE 0
            IN  IF i = 0 THEN None ELSE flat[i].entries[k - flat[i].first + 1]
    <2>1. FindEntry(t, k) =
              LET u == FlattenSeq([i \in DOMAIN t |-> t[i].subsections])
                  J == {i \in 1..Len(u) : Covers(u[i], k)}
                  i == IF J # {} THEN Min(J) ELSE 0
              IN  IF i = 0 THEN None ELSE u[i].entries[k - u[i].first + 1]
      BY ONLY Zenon DEF FindEntry, SelectInSeq
    <2> QED BY ONLY <1>1, <1>2, <2>1
  <1>4. Len(flat) \in Nat /\ DOMAIN flat = 1..Len(flat)
    <2> HIDE DEF Subsections
    <2> QED BY ONLY <1>1, FlattenSeq([i \in DOMAIN t |-> t[i].subsections]) \in Seq(Subsections)
  <1>5. ASSUME Uncovered(flat, k) PROVE FindEntry(t, k) = None
    <2>1. I = {} BY ONLY <1>2, <1>4, <1>5 DEF Uncovered
    <2> QED BY ONLY <1>3, <2>1
  <1>6. ASSUME NEW sub, IsFirst(flat, k, sub) PROVE FindEntry(t, k) = EntryOf(sub, k)
    <2>1. PICK p \in 1..Len(flat) : /\ flat[p] = sub /\ Covers(sub, k)
                                    /\ \A q \in 1..(p - 1) : ~Covers(flat[q], k)
      BY ONLY <1>4, <1>6 DEF IsFirst
    <2>2. I \in SUBSET Nat /\ p \in I /\ p # 0 BY ONLY <1>2, <1>4, <2>1
    <2>3. \A q \in I : p <= q
      <3>1. SUFFICES ASSUME NEW q \in I, ~(p <= q) PROVE FALSE OBVIOUS
      <3>2. q \in 1..Len(flat) /\ Covers(flat[q], k) BY ONLY <1>2, <3>1
      <3>3. q \in 1..(p - 1) BY ONLY <1>4, <3>1, <3>2, p \in 1..Len(flat)
      <3> QED BY ONLY <2>1, <3>2, <3>3
    <2>4. Min(I) = p BY ONLY <2>2, <2>3, LeastSelected
    <2>5. I # {} BY ONLY <2>2
    <2> QED BY ONLY <1>3, <2>1, <2>2, <2>4, <2>5 DEF EntryOf
  <1> QED BY ONLY <1>1, <1>5, <1>6

\* An object is covered nowhere, or there is a first section that covers it
\* and a first subsection in that.
LEMMA FirstOrNone ==
    ASSUME NEW t \in Seq(Sections), NEW k
    PROVE  \/ \A i \in DOMAIN t : Uncovered(t[i].subsections, k)
           \/ \E i \in DOMAIN t : \E sub : /\ IsFirst(t[i].subsections, k, sub)
                                           /\ \A h \in 1..(i - 1) : Uncovered(t[h].subsections, k)
  <1>1. DOMAIN t = 1..Len(t) /\ Len(t) \in Nat /\ \A i \in DOMAIN t : t[i] \in Sections OBVIOUS
  <1>2. PICK N : N = Len(t) OBVIOUS
  <1> DEFINE T == {i \in 1..N : ~Uncovered(t[i].subsections, k)}
  <1>3. CASE T = {} BY ONLY <1>1, <1>2, <1>3
  <1>4. CASE T # {}
    <2>1. T \in SUBSET Nat BY ONLY <1>1, <1>2
    <2>2. PICK i \in T : \A h \in T : i <= h
      <3> HIDE DEF T
      <3> QED BY ONLY <1>4, <2>1, Least
    <2>3. i \in 1..N /\ ~Uncovered(t[i].subsections, k) BY ONLY <2>2
    <2>4. \A h \in 1..(i - 1) : Uncovered(t[h].subsections, k)
      <3>1. SUFFICES ASSUME NEW h \in 1..(i - 1), ~Uncovered(t[h].subsections, k) PROVE FALSE OBVIOUS
      <3>2. h \in 1..N /\ ~(i <= h) BY ONLY <1>1, <1>2, <2>3, <3>1
      <3>3. h \in T BY ONLY <3>1, <3>2
      <3> QED BY ONLY <2>2, <3>2, <3>3
    <2>5. PICK s : s = t[i].subsections OBVIOUS
    <2>6. DOMAIN s = 1..Len(s) /\ Len(s) \in Nat
      <3>1. t[i] \in Sections BY ONLY <1>1, <1>2, <2>3
      <3>2. s \in Seq(Subsections) BY ONLY <2>5, <3>1 DEF Sections
      <3> HIDE DEF Subsections
      <3> QED BY ONLY <3>2
    <2> DEFINE P == {p \in 1..Len(s) : Covers(s[p], k)}
    <2>7. P \in SUBSET Nat /\ P # {} BY ONLY <2>3, <2>5, <2>6 DEF Uncovered
    <2>8. PICK p \in P : \A q \in P : p <= q
      <3> HIDE DEF P
      <3> QED BY ONLY <2>7, Least
    <2>9. p \in 1..Len(s) /\ Covers(s[p], k) BY ONLY <2>8
    <2>10. \A q \in 1..(p - 1) : ~Covers(s[q], k)
      <3>1. SUFFICES ASSUME NEW q \in 1..(p - 1), Covers(s[q], k) PROVE FALSE OBVIOUS
      <3>2. q \in 1..Len(s) /\ ~(p <= q) BY ONLY <2>6, <2>9, <3>1
      <3>3. q \in P BY ONLY <3>1, <3>2
      <3> QED BY ONLY <2>8, <3>2, <3>3
    <2>11. IsFirst(s, k, s[p]) BY ONLY <2>6, <2>9, <2>10 DEF IsFirst
    <2> QED BY ONLY <1>1, <1>2, <2>3, <2>4, <2>5, <2>11
  <1> QED BY <1>3, <1>4

\* The lookup and the reader agree on every whole table.
LEMMA LookupIsApplied ==
    ASSUME NEW t \in Seq(Sections), t # <<>>, \A i \in DOMAIN t : WholeAll(t[i].subsections),
           NEW k \in Nums
    PROVE  FindEntry(t, k) = IF k \in DOMAIN Applied(t) THEN Applied(t)[k] ELSE None
  <1> HIDE DEF Sections, Subsections
  <1>1. PICK flat, A : /\ flat = FlattenSeq([i \in DOMAIN t |-> t[i].subsections])
                       /\ A = Applied(t)
    OBVIOUS
  <1>2. /\ flat \in Seq(Subsections)
        /\ (\A i \in DOMAIN t : Uncovered(t[i].subsections, k)) => Uncovered(flat, k)
        /\ \A sub : \A i \in DOMAIN t :
              /\ IsFirst(t[i].subsections, k, sub)
              /\ \A h \in 1..(i - 1) : Uncovered(t[h].subsections, k)
              => IsFirst(flat, k, sub)
    BY ONLY <1>1, t \in Seq(Sections), t # <<>>, k \in Nums, FlatIs
  <1>3. /\ Uncovered(flat, k) => FindEntry(t, k) = None
        /\ \A sub : IsFirst(flat, k, sub) => FindEntry(t, k) = EntryOf(sub, k)
    BY ONLY <1>1, <1>2, FindEntryIs
  <1>4. /\ (\A i \in DOMAIN t : Uncovered(t[i].subsections, k)) => k \notin DOMAIN A
        /\ \A sub : \A i \in DOMAIN t :
              /\ IsFirst(t[i].subsections, k, sub)
              /\ \A h \in 1..(i - 1) : Uncovered(t[h].subsections, k)
              => k \in DOMAIN A /\ A[k] = EntryOf(sub, k)
    BY ONLY <1>1, t \in Seq(Sections), \A i \in DOMAIN t : WholeAll(t[i].subsections),
            k \in Nums, AppliedIs
  <1>5. CASE \A i \in DOMAIN t : Uncovered(t[i].subsections, k) BY ONLY <1>1, <1>2, <1>3, <1>4, <1>5
  <1>6. CASE \E i \in DOMAIN t : \E sub : /\ IsFirst(t[i].subsections, k, sub)
                                          /\ \A h \in 1..(i - 1) : Uncovered(t[h].subsections, k)
    <2>0. PICK i \in DOMAIN t : \E sub : /\ IsFirst(t[i].subsections, k, sub)
                                         /\ \A h \in 1..(i - 1) : Uncovered(t[h].subsections, k)
      BY ONLY <1>6
    <2>1. PICK sub : /\ IsFirst(t[i].subsections, k, sub)
                     /\ \A h \in 1..(i - 1) : Uncovered(t[h].subsections, k)
      BY ONLY <2>0
    <2>2. IsFirst(flat, k, sub) BY ONLY <1>2, <2>1
    <2>3. k \in DOMAIN A /\ A[k] = EntryOf(sub, k) BY ONLY <1>4, <2>1
    <2> QED BY ONLY <1>1, <1>3, <2>2, <2>3
  <1>7. \/ \A i \in DOMAIN t : Uncovered(t[i].subsections, k)
        \/ \E i \in DOMAIN t : \E sub : /\ IsFirst(t[i].subsections, k, sub)
                                        /\ \A h \in 1..(i - 1) : Uncovered(t[h].subsections, k)
    BY ONLY t \in Seq(Sections), FirstOrNone
  <1> QED BY ONLY <1>5, <1>6, <1>7

\* A lookup in the table of the document finds what applying the revisions from
\* the oldest to the newest gives, deleted objects included.
THEOREM NewestWinsAlways == Spec => []NewestWins
  <1>1. ASSUME IInv PROVE NewestWins
    <2> SUFFICES ASSUME xref # None, NEW k \in Nums
                 PROVE  FindEntry(xref, k) = IF k \in DOMAIN Applied(xref) THEN Applied(xref)[k] ELSE None
      BY DEF NewestWins
    <2>1. /\ xref \in Seq(Sections) /\ xref # <<>>
          /\ \A i \in DOMAIN xref : WholeAll(xref[i].subsections)
      BY <1>1 DEF IInv, TypeOK, Finished
    <2> QED BY ONLY <2>1, k \in Nums, LookupIsApplied
  <1> QED BY <1>1, Invariance, PTL
=============================================================================
