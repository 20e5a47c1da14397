# libcos in TLA+

libcos reads PDF files: the structure of a file, the objects in it and the
references between them.  This directory holds TLA+ models of its core, the
TLC configurations that check them on small instances, and TLAPS proofs of the
properties that matter most for every instance.  File names below are relative
to the repository root; `CosDoc.c:125` is a line of the file of that name.

## The system

| Component | State | Operations | Hard part |
|---|---|---|---|
| Ring buffer (`src/common/CosRingBuffer.c`) | a circular block, `head`, `tail`, `count`, `capacity` | push, pop and get at both ends; doubles when full | wrap-around, a growth with the items wrapped, redundant `tail` |
| Object nodes (`src/objects/*ObjNode.c`) | per node a type, a reference count and its parts | create, put into a container, resolve, retain, release | who owns a reference; a release cascades through shared and cyclic graphs |
| Document (`src/CosDoc.c`, `src/objects/CosObjCache.c`) | trailer, root, xref table, object cache, parser | get an object, resolve a reference, destroy | loads inside loads, the cache sharing nodes, teardown while the client holds nodes |
| File structure parser (`src/parse/CosParser.c`, `src/xref/`) | the table being built, the place in the chain of revisions | parse; look an entry up | failure half-way, reads that fail unnoticed, trailers that are cut, parsing again, two parsers on one tokenizer |
| Token buffer (`src/parse/CosBaseParser.c`) | a ring buffer of tokens ahead | peek, advance, match | peeked tokens when the position changes |
| Object parser (`src/parse/CosObjParser.c`) | an object ahead, flags | has_next, peek, next | look-ahead for `1 0 R` and `1 0 obj`, errors in the middle of a container |
| Tokenizer (`src/syntax/tokenizer/`) | a stream reader, a peeked token | next token, reset | numbers, string escapes, the end of the input |
| Streams (`src/io/`) | position, end-of-file flag, a buffer in the reader | read, write, seek, put back | the flag and the buffer after a seek |
| Filters (`src/filters/`) | what is decoded and not read yet | read, attach | reads that end inside an encoded group |
| Array, dictionary (`src/common/CosArray.c`, `CosDict.c`) | a block and a count; a table of hash slots | insert, remove, get, set, grow | index arithmetic on unsigned numbers, probing and growth |
| Strings, data (`src/common/CosString.c`, `CosData.c`) | bytes, count, capacity | append, grow | conversions |
| The rest | | | allocation, logging, diagnostics, the public accessors of `CosObj.c` and the C++ wrapper keep no state that other parts decide on |

The library is sequential: there are no threads.  What is hard is the
composition of calls: `cos_doc_get_object` loads through `CosParser`, which
resets the tokenizer and the token buffer and runs `CosObjParser`; a stream
object whose `Length` is a reference asks the document for another object in
the middle of that; a reference node calls back into the document when it is
first used; a node's release runs through everything it owns.  Streams may fail
at any read, and `malloc` may fail.  The order of the client's calls is free.

What makes the parts correct:

- ring buffer: it is a double-ended queue, whatever the wrap and the growth;
- nodes: every reference count is exact at every step of every cascade, nothing
  owned is freed, nothing leaks but what references keep in a cycle;
- document: one node per object number, loaded once, exact counts across
  nested loads and teardown, what the client holds outlives the document;
- file structure: a document has a chain of revisions, each with all its
  entries, or none; the trailer belongs to it; the newest revision of an object
  is found; a parse returns.  A read that fails looks like the end of the file,
  so what a document has is what the file says only where no read failed;
- tokenizer: what was written is read back, every character belongs to one
  token or to the white space before it, a call returns and moves on;
- token buffer and stream reader: each is a cursor, whatever was looked at,
  put back, sought or lost below it;
- object parser: whole objects are read and every node has one owner at every
  error exit, of nested loads too;
- filters: what is encoded is delivered, in order and once, however the calls
  and the runs are cut, and then comes the end;
- array, dictionary, strings, data: a list, a map and growing sequences, with
  exact counts, through growth that moves, collides or fails.

## Modules

| Module | Models | Composition |
|---|---|---|
| `CosDeque` | what a ring buffer promises: a sequence with two ends | abstract specification |
| `CosRingBuffer` | `CosRingBuffer.c`, every operation | implements `CosDeque` through `Deque == INSTANCE CosDeque WITH contents <- Contents` |
| `CosObjNode` | the nodes, retain, release and the release cascade | |
| `CosDoc` | the document with its cache, references, nested loads and teardown | takes the result of a parse (`Parsed`) and of an object parser (`Objects`) as data |
| `CosParser` | `cos_parser_parse` with the xref table parser, the trailers entry by entry, and the lookup | sets what `CosDoc` calls `file.xref` and `trailer` |
| `CosTokens` | the tokens of a text, as the parsers tell them apart, and the window of those read ahead | used by the next two |
| `CosTokenCursor`, `CosBaseParser` | a cursor in the tokens of a file; `CosBaseParser.c`, the window of tokens ahead | the window implements the cursor (`CursorSpec`) |
| `CosObjParser` | `CosObjParser.c`, every handler, with its peeked object and nested loads | reads tokens as `CosBaseParser` gives them |
| `CosTokenizer` | `CharacterSet.c`; `CosTokenizer.c`, character by character, and the values of its tokens | reads characters as `CosStreamReader` gives them |
| `CosStream`, `CosByteCursor`, `CosStreamReader` | streams of each kind as records with operators; a cursor in their bytes; `CosStreamReader.c` | the reader over a stream implements the cursor |
| `CosContents`, `CosString`, `CosData` | a growing sequence; `CosString.c`; `CosData.c` with its references | both implement `CosContents` |
| `CosBytes` | a string, a data object or a stream reader in use, with the properties of all three | what `MCCosBytes` checks and the proofs are about |
| `CosTokenValue` | who owns the string or data of a token, from the tokenizer to a node | |
| `CosParsers` | an object parser, a window of tokens or the values of tokens in use, with the properties of all three | what `MCCosObjParser` checks and the proofs are about |
| `CosCapacity` | the capacities that growing blocks have: `CosContainerUtils.h`, `cos_next_pow2ll` | used by the next two |
| `CosList`, `CosArray` | a list of counted objects; `CosArray.c` with its callbacks | the array implements the list |
| `CosMap`, `CosDict` | a map; `CosDict.c` with the callbacks of dictionary objects and of the object cache | the table implements the map |
| `CosContainers` | an array, a dictionary or a ring buffer in use, with the properties of all three | what `MCCosContainers` checks and the proofs are about |
| `CosDecoding`, `CosFilter` | what a filter promises; `CosFilter.c` | with each decoder, implements the promise |
| `CosASCIIHexFilter`, `CosASCII85Filter`, `CosRunLengthFilter` | the decoders | extend `CosFilter` |
| `CosFilters` | a filter with one of the decoders, what a text encodes as a whole, the properties | what `MCCosFilters` checks and the proofs are about |
| `MCCosDoc`, `MCCosParser`, `MCCosObjParser`, `MCCosContainers`, `MCCosBytes`, `MCCosTokenizer` | constants of one module: the files, the texts | `MCCosTokenizer` instantiates the tokenizer a second time, for texts that are read whole |
| `MCCosFilters` | texts for the three decoders, with encoders | as in `CosContainers`, `CosBytes` and `CosParsers`, a variable that the initial state chooses (`used`, `decoder`) says whose behaviour it is; filters also share the state of `CosFilter` |
| `CosCounting` | lemmas that several proofs need: counting, sums, induction over sets of numbers, what recursions and folds define | |
| `CosObjNode_proofs`, `CosDoc_proofs`, `CosParser_proofs`, `CosObjParser_proofs`, `CosContainers_proofs`, `CosBytes_proofs`, `CosFilters_proofs` | theorems and proofs | |

How the state corresponds to the code:

- `CosRingBuffer` has the fields of `struct CosRingBuffer` under their names
  (`capacity` is in items), and `out` for the caller's `out_item`.  An item is
  one value; calloc's bytes are `Zero`.  The calls that a full block makes the
  push run (`cos_ring_buffer_resize_`) are part of the push.  `hung` marks a
  call inside a loop that never ends.
- `CosObjNode` has per address a record of kind, count and parts, in the order
  in which the deallocation visits them.  `stack` is the C call stack of a
  release: `ReleaseStep` runs one call of it, and no client call starts before
  it is empty.  `held` counts the references the client owns; a call that uses
  a freed address sets `touched`.
- `CosDoc` keeps the nodes at the grain of indirect objects and the trailer; a
  node's slots are the reference nodes inside it, each with the id it names and
  the value it resolved to.  `stack` is again the C call stack: a `get` for
  `cos_doc_get_object`, a `seek` for the rest of `cos_handle_stream_` after a
  `Length` that is a reference was resolved, and the calls of a release or of
  `cos_doc_destroy`.  `loads` and `lost` are history variables.
- `CosParser` has one value of `pc` per phase of `cos_parser_parse`, the tokens
  still ahead of the shared tokenizer (`rest`), the table being built, the
  trailer dictionary being read (`dict`) and what the document was given
  (`trailer`, `root`, `xref`).  `dicts` is the set of trailer dictionaries that
  exist.  `Fail` is the common error exit.  `StreamFails` is a failure that the
  code notices; `ReadFails`, and a read of the tail that comes short in
  `FindStartxref`, are those it does not, because the tokenizer takes a read of
  nothing for the end of the file, `cos_parser_find_startxref_` rejects only one
  of nothing, and the next read may succeed.  A failing read cuts the text
  between two tokens or in one (`Pieces`): an integer becomes two, a name another
  name, an array a part of it.  `steady` is a history variable, false from such
  a failure to the next call; each section and each trailer notes what it was
  when they were begun or read.
- `CosBaseParser` has the tokens of the file, the window of those that were read
  ahead with the place behind it, and what the last peek returned (`seen`).
- `CosObjParser` keeps the C call stack of the handlers (`stack`), what the
  innermost does next (`ctl`), and counts the nodes that are allocated (`live`),
  that clients own (`got`) and that nobody does (`lost`).
- `CosTokenizer` has one `mode` per loop or switch of the C functions; a step
  reads at most one character.  The value under construction, the white space
  and the offsets of the token are its variables.
- `CosStreamReader` has the buffer, its start and its index; a stream is a
  record of its kind, data, position and flags.
- `CosString`, `CosData`, `CosArray` and `CosDict` have the fields of their
  structs.  Memory behind the items is `Junk` where the code reads it or could.
  `refs` in `CosArray` and `CosDict` counts the references a container has taken
  to each object, and what the callbacks do changes it.
- `CosFilter` has the buffer under its names, the call being served and `block`,
  the local variables of a decoder at work; a step of a decoder reads the source
  at most once.  `context` of `CosRunLengthFilter` is the struct of that name.

Abstractions, apart from wording and logging:

- A token is a record of what the parser tests: its type and an integer's
  value.  In `CosParser` a reference, an array or a dictionary inside a trailer is
  one token, and of a name it matters whether it is `Root`, `Prev` or another.
- `cast to unsigned` is `% UnsignedRange`; the runs have 16 in the place of 2^32.
- In `CosDoc` and `CosObjNode` the keys of dictionary entries live and die with
  the entry and are left out.
- Characters are their codes, and a keyword of several letters is one of them;
  `IntMax` stands for the largest `int`, and what lies above it is any number.
- Which unused place `malloc` returns is chosen freely in `CosData`, and for the
  owners of the values of tokens, which cannot tell, once for all.
- ASCII85 is modelled with its radix, block size and byte as constants, so that
  a small one has the same cases: padding, the zero block, a number that wraps.
- In `CosDoc` a file is what the xref table says of each object number and what
  the object parser finds at each offset: nothing, a value with references in
  it, or a stream.
- A client keeps to the interface: it releases only what it holds, does not use
  a document after destroying it, and closes no cycle of containers by hand.

## Runs

`tlc -config X.cfg M` for each; `PROJECT.json` lists their properties.

| Run | Asks | Bounds |
|---|---|---|
| `obj_node` | Are counts exact in mid-cascade (`RefsExact`), is nothing used after it was freed (`NoUseAfterFree`), do only cycles leak (`OnlyCyclesLeak`), does a release return (`ReleaseReturns`)? | three nodes, two parts each, three references held: a node shared by two containers, a cycle through a reference, and a cascade of depth three exist |
| `doc` | One node per object (`OneNodePerObject`), exact counts (`RefsExact`), no dangling pointer (`NoDanglingPointer`), only cycles and lost dictionaries remain (`OnlyCyclesAndLostLeak`), a resolved reference stays so (`ResolutionSticks`), calls return (`CallsReturn`) | seven files over three object numbers, two generations and three offsets; seven addresses, three references held, two loads per number: two client references to one node next to a third, and a second load if the cache failed |
| `doc_no_cache` | The same counts when the cache's `malloc` may fail | as `doc` |
| `parser` | A chain of whole sections or none, and the one that is written where no read failed (`XrefAsWritten`), its own trailer (`TrailerIsNewest`), `root` in it (`RootInTrailer`), no trailer leaked or destroyed twice (`OneTrailer`), the newest entry found (`NewestWins`), a parse returns (`ParseReturns`) | 19 files of up to three revisions, with trailers of all kinds; two parses; a stream that may fail at any seek, come short in the tail, and cut the text between or in any tokens, twice (`MaxFailures`); numbers are cut behind their first digit (`Tens`), which makes the Prev of one revision that of another |
| `obj_parser` | Are whole objects read whole (`WellFormedParses`), has every node one owner (`EveryNodeOwned`) and every token's value (`OneOwner`), is no token used that was read too early (`NoTokenIsStale`), do calls return (`CallsReturn`), is the window a cursor whatever is asked of it (`WindowIsCursor`)? | 21 files with objects of each shape the grammar has, nested and broken off, four with a negative `Length` that leads back into an array or a dictionary, and one whose objects are loaded while others are read; three calls; a window of the real size over texts of up to six tokens with a read that fails; two nodes and four places in memory for values; a stream that leads back is read again up to twelve nodes (`MaxNodes`) |
| `tokenizer` | Is what was written read back (`ReadAsWritten`), is every character counted once and told of rightly (`TokensTellTheText`), do calls return (`CallsReturn`)? | every pair of some twenty lexemes, each kind of white space around them; all texts of up to three characters of the classes, reads that fail, seeks; `WhitespaceMax` 2 |
| `containers` | Is the array a list (`IsList`) and the table a map (`IsMap`), are counts exact (`CountsExact`), do searches end and iterators return each key once (`DictSound`)? Is the ring buffer a deque (`IsDeque`), is `tail` where `head` and `count` say (`TailAgrees`)? | up to five items: one growth, insertions and removals in front, between and behind; five keys, three of which collide in a table of four and wrap round its end, two with one name; growth from 4 to 8; ring buffers with hints 0 to 3 and at most five items: growth from 1, 2, 3 and 4 slots, each with every position of `head` |
| `bytes` | Do strings and data hold what was appended (`HoldWhatWasAppended`), are strings terminated, compared and hashed soundly (`StringsSound`), does what was read stay valid (`ReadsStayValid`), is the reader a cursor in the stream (`CursorSpec`)? | capacities of up to 6 and 3: two growths, and one that fails; a buffer of 2 over data of up to 3 bytes, seeks one byte behind them: the buffer full, part full, refilled and stale |
| `filters` | Is delivered what is encoded (`DeliversContents`), or the start of it when a source failed (`DeliversPrefix`), is the end reached (`EveryEndIsReached`) and nothing read behind its marker (`NothingReadBehindMarker`)? | a buffer of 2 and calls of up to 3 bytes, so that pairs, blocks and runs end in, at and behind the buffer; all short texts, with one failure of the source anywhere |
| `doc_stream`, `parser_cycle`, `parser_partial` | One finding each, see below | as `doc` and `parser`; the last two with a stream that does not fail |

The type invariant of a module in a run of several is a conjunct of one of
the invariants named above; those of `CosRingBuffer`, `CosObjNode`, `CosDoc`,
`CosParser`, `CosArray` and `CosDict` are proved, some as part of the invariant
of a theorem below.

Larger instances show nothing that these do not: the ring buffer's cases are
the positions of `head` and `tail` in a full block, all present at five items;
the nodes' are the ways one node is owned (by the client, by a container, by a
reference, by a pending call), all combined at three nodes; a chain of three
revisions has a first, a middle and a last one.  The proofs below remove the
bounds for the properties they cover.  `Room` in `CosDoc` keeps a call from
starting when addresses could run out inside it; `MaxSections` in `CosParser`
makes the walk around a cyclic chain a finite graph, and `MaxNodes` in
`CosObjParser` does it for a stream that is read again and again.

Fairness: `WF_vars(Step)` (`ReleaseStep` in `CosObjNode`, `Read` in
`CosTokenizer`, `DecoderWorks` in the filters).  A C call that has started runs until it
returns, and nothing else runs in between.  Nothing is assumed of the client,
but in the filters, whose end is reached only by a client that reads on: there
it attaches a source again and again if it is detached, and goes on to read
while it is attached (`SF`).  The client may stop in `obj_node`, `doc`, `parser` and
`obj_parser`, so deadlock is not checked there; the other runs check it.

Every property of a passing run has a mutant: a definition of the model with a
plausible bug (`CosRingBuffer!BlockKeepingTail`, `CosDoc!GetCachedBorrowed`,
`CosParser!NeverOwn`, ...), marked as such in the module and used by no
specification, which makes TLC find the property violated.

## Findings

Places where the code does other than it says.  TLC refutes the property named,
which is in the module named; the properties quote what the code or its
documentation says.  The first three have runs.  Those marked `cfg` are refuted
when the property is listed in the configuration of the module's run (for the
tokenizer with `SPECIFICATION Spec`); the others need the constants or the
specification named.

| Where | What | Property |
|---|---|---|
| `CosParser.c:371` | a chain of `Prev` entries that closes on itself is followed for ever | `CosParser!ParseReturns`, run `parser_cycle` |
| `CosObjParser.c:665` | a trailer with an entry that cannot be read, such as an `ID`, which is made of strings, ends there: the partial dictionary is taken for the whole (`CosParser.c:417`), a `Prev` behind it is not seen, and the parse returns true | `CosParser!NoPrevLeft`, run `parser_partial` |
| `CosObjParser.c:824` | in a document every stream fails to load, since the document's object parser has no input stream to seek in | `CosDoc!StreamsLoad`, run `doc_stream` |
| `CosRingBuffer.c:364` | a buffer created with capacity hint 0 doubles 0 for ever in the first push | `CosRingBuffer!PushReturns`, with the constants of `containers` |
| `CosStreamObjNode.c:51` | a stream destroys its dictionary whatever its count, also one the client retained | `CosObjNode!HeldNotDeallocated`, `ClientKeepsDict = TRUE` |
| `CosReferenceObjNode.c:96` | the value type of a reference is "indirect", because it resolves to the indirect object and not to its value | `CosObjNode!ValueTypeIsResolved`, cfg |
| `CosObjParser.c:857` | a stream that fails to load leaks its dictionary; the declaration says the function takes ownership | `CosDoc!NothingLost`, cfg |
| `CosObjParser.c:870`, `:895`, `:1144` | a Boolean, null or real is refused where direct objects are allowed, and taken where they are not | `CosObjParser!DirectObjectsAllowed`, a definition of a Boolean as the file |
| `CosObjParser.c:1082` | no string is ever parsed | the same, a definition of a string |
| `CosObjParser.c:878` | a Boolean or null is returned and not consumed | `CosObjParser!NextConsumes`, cfg |
| `CosObjParser.c:715` | an integer, array or dictionary as a key becomes the key of an entry and is taken for a name | `CosObjParser!KeysAreNames`, cfg |
| `CosObjParser.c:821` | a negative `Length` leads back to where the dictionary is, or before it; a stream in an array or a dictionary may so be read again for ever | `CosObjParser!CallsReturn` without `SeeksBack` |
| `CosParser.c:263`, `CosObjParser.c:665` | a read that fails in a parse is not noticed: the parse ends with true and an older revision, with the revisions down to some `Prev` or with an offset that lacks digits | `CosParser!XrefAsWritten` without `steady` |
| `CosParser.c:263` | a second parse that reads the tail short and fails later leaves the trailer of an older revision with the table of the newest | `CosParser!TrailerIsNewest` without `steady` |
| `CosDoc.c:278` | a second parse whose trailer is cut before its `Root`, or that begins with an older revision, destroys the trailer that `doc->root` points into and does not set `root` | `CosParser!RootInTrailer` without `steady` |
| `CosObjParser.c:777` | the data of a stream is counted from the keyword and not from the next line | `CosObjParser!StreamDataSkipped`, cfg |
| `CosObjParser.c:1131` | a name is leaked if its node cannot be allocated | `CosTokenValue!NothingLost` |
| `CosStreamReader.c:182` | a read that fails is the end of the file | `CosStreamReader!EofIsTheEnd`, cfg |
| `CosStream.c:192` | the end-of-file flag outlives a seek | `CosStreamReader!AtEndIsTheEnd`, cfg |
| `CosStreamReader.c:171` | a look ahead can drop the byte that was to be put back | `CosStreamReader!UngetcMovesBack`, cfg |
| `CosTokenizer.c:359` | a stray delimiter is an empty token, for ever | `CosTokenizer!TokensMoveOn`, cfg |
| `CosTokenizer.c:964` | the line end behind a comment is not recorded | `CosTokenizer!CommentEolRecorded`, cfg |
| `CosTokenizer.c:881` | an integer that is too large overflows | `CosTokenizer!IntegersInLimits`, cfg |
| `CosString.c:202`, `:288`, `:255` | a nul in a string ends a copy, is not appended and ends a comparison | `CosString!CopyIsEqual`, `!TrueIfAppended`, `!CmpIsOrder`, `Sources` with a nul |
| `CosData.c:167` | appending bytes of the object itself reads them after the buffer has moved | `CosData!OwnBytesAppended`, `SpecWithOwnBytes` |
| `CosArray.c:465` | a range that ends behind the last item is removed | `CosArray!InBounds`, `SpecAnyRange` |
| `CosUtils.c:29` | the next power of 2 of a power of 2 is its double | `CosArray!NextPow2IsLeast` |
| `CosDict.c:199` | a value that is replaced is not released | `CosDict!ReplacedAreReleased` |
| `CosASCIIHexFilter.c:121` | behind an odd digit and the end marker the text is read on | `CosFilters!NothingReadBehindEnd`, a text that `HexEnds` excludes, without that assumption |
| `CosRunLengthFilter.c:284` | a literal run that is cut off never ends | `CosFilters!EndIsReached`, cfg |

## Proofs

`tlapm M.tla` checks those of module `M`.  They hold for every value of the
constants that meets the named assumptions of the component's module.  These say
that NULL and its like (`Null`, `None`, `Freed`, `Nothing`, `Absent`) are no
node, offset, trailer, array, table or place in memory, that sets of addresses and of object
numbers are finite, that files are well formed, that hashes are natural
numbers, and that C strings have no nul in them (what a nul does to a `CosString`
is in the findings).  A file of tokens is well formed (`IsFile`) if it is what a
tokenizer gives from wherever it is asked; `TextIsFile` proves that of the files
that are made of texts (`FileOf`), which are those of the runs.  The capacities of
the containers and of the filters' buffer are natural numbers, and the text of a
source of the filters is paired with the contents it encodes (`CasesAssumption`).
One assumption more is made by the theorems of `CosObjNode` and stated in them: `~ClientKeepsDict`, a client does not retain the dictionary it makes a
stream of.  Without it they are false, which is the finding at
`CosStreamObjNode.c:51`.

| Theorem | States | Of |
|---|---|---|
| `TailAgreesAlways`, `GrowsOnlyWhenFullAlways`, `RefinesDeque` | `TailAgrees`, `Ring!GrowsOnlyWhenFull`, `IsDeque` | `CosRingBuffer` in `CosContainers` |
| `CountsAreExact`, `NothingFreedIsUsed`, `OnlyCyclesAreLeft` | `RefsExact`, `NoUseAfterFree`, `OnlyCyclesLeak` | `CosObjNode` |
| `TypeOKAlways`, `OneNodePerObjectAlways`, `LoadedOnceAlways`, `ResolutionSticksAlways` | `TypeOK`, `OneNodePerObject`, `LoadedOnce`, `ResolutionSticks` | `CosDoc` |
| `CountsAreExact`, `NothingDangles`, `OnlyCyclesAndLostAreLeft` | `RefsExact`, `NoDanglingPointer`, `OnlyCyclesAndLostLeak` | `CosDoc` |
| `TypeOKAlways`, `XrefAsWrittenAlways`, `TrailerIsNewestAlways`, `OneTrailerAlways`, `RootInTrailerAlways`, `NewestWinsAlways` | `TypeOK`, `XrefAsWritten`, `TrailerIsNewest`, `OneTrailer`, `RootInTrailer`, `NewestWins` | `CosParser` |
| `EveryNodeOwnedAlways`, `TokensAheadAlways` | `EveryNodeOwned`; `AheadOfIntegers` and `NoTokenFromBeforeTheData` | `CosObjParser` |
| `NoTokenIsStaleAlways` | `NoTokenIsStale`: the two above and the types | `CosObjParser` and `CosBaseParser` in `CosParsers` |
| `WindowAlwaysCursor` | `WindowIsCursor` | `CosBaseParser` in `CosParsers` |
| `OneOwnerAlways` | `OneOwner` | `CosTokenValue` in `CosParsers` |
| `ArrayIsList` | `IsList` | `CosArray` in `CosContainers` |
| `ContainersCountExactly`, `DictIsSound`, `DictIsMap` | `CountsExact`, `DictSound`, `IsMap` | `CosArray` and `CosDict` in `CosContainers` |
| `BytesReadByCursor`, `ReadsAlwaysValid` | `CursorSpec`, `ReadsStayValid` | `CosStreamReader` and `CosData` in `CosBytes` |
| `StringsAlwaysSound`, `WhatWasAppendedIsHeld` | `StringsSound`, `HoldWhatWasAppended` | `CosString` and `CosData` in `CosBytes` |
| `DeliversPrefixAlways`, `DeliversContentsAlways`, `NothingReadBehindMarkerAlways` | `DeliversPrefix`, `DeliversContents`, `NothingReadBehindMarker` | `CosFilter` and its decoders in `CosFilters` |

The arguments:

*Ring buffer.*  The invariant is `TypeOK /\ TailAgrees /\ ItemsStored`.
`TailAgrees` alone is inductive; the refinement needs that every slot between
head and tail holds an item and not calloc's zero, since a pop returns what is
in the slot.  A growth maps to no change of `Contents` (`BlockKeepsItems`,
wrapped or not), and each operation to the deque's.

*Nodes.*  `RefsExact` compares the count of a node with three sums: what the
client holds, the parts of other nodes, the calls in progress that are to give a
reference back.  `Exact` states it with the second as the number of places in a
table (`CountIn`) of the nodes that are not dying, so that a node's parts stop
being owned and start to be owed by calls in the same step, the one that pushes
those calls.  It is not inductive alone: a node could be freed twice from the
stack (`FreedOnce`), and a stream destroys its dictionary without looking at
the count, so nobody else may have it (`StreamsOwn`).  The lemmas of
`CosCounting` say what a step that changes one row of the table, or pushes or
pops calls, does to the sums.

*Document, one node per object.*  `OneNodePerObject` is not inductive: a nested
load could put another node in the cache under a load in progress, and a slot
that a call on the stack is to fill could be gone or filled already.  The
invariant adds that the stack holds either loads or releases (`OneKind`), that
each load made for a reference node returns to one that exists, has the id asked
for and is unresolved (`Targets`), that no two return to the same one (`Apart`),
that the cache is emptied only by `cos_doc_destroy` (`TearDown`), and that an
object which is not in the cache was not loaded yet (`Loads`).

*Document, counts.*  To that invariant `Refs` adds the sum of all references to
a node, those of the cache, the document and the loads that failed included
(`Exact`), that a node is freed once, that nobody shares the trailer
(`TrailerOwned`), which the document destroys without looking at its count and
before all else (`DestroyFirst`), and that the cache of a document that is gone
is, or will be, empty (`CacheGone`).  `Targets` of the first invariant is what
makes the counts survive nested loads: the reference node that a load fills was
empty until then, so it owned nothing.

*File structure.*  There are two invariants.  `IInv` needs nothing of the text: it
says of the table under construction what the theorems say of a finished one
(`Chained`, `Counted`, `Finished`), where the walk is (`Walk`), and that a parse which
has read its first trailer has given it to the document (`FirstRead`), so that trailer
and table go together if one parse read both.  If two did, both are at the last
startxref if neither was misled before it got there (`AtStart`).  `TypeOKAlways`,
`TrailerIsNewestAlways` and `OneTrailerAlways` follow.

`WInv` compares what is read with what is written, as long as no read fails.
`ReadSoFar` says how much of the tokens of a revision has been read, and that `dict` is
what the first entries of its trailer say; the end of the trailer then is before the
first entry that cannot be read (`TrailerRead`), which is what `PrevAsWritten` says of
a section (`TableWritten`, `XrefWritten`).  `Rooted` says that a trailer that was read
without a failure has a `Root` if and only if the one in the file has.  A revision has one
trailer only (`OneTrailerWritten`): a second parse that reads the same place without a
failure finds a `Root` again, so `doc->root` moves to the new trailer.  Of
a parse in which a read failed nothing of that kind is true, and the theorems say
nothing about it: see the findings.

`NewestWins` needs of a finished
table that its sections are whole: the entry that the search
through sections and subsections finds first is the one that applying them from
the oldest to the newest, the later over the earlier, leaves (`AppliedIs`).

*Object parser, nodes.*  `EveryNodeOwned` is a sum over a stack without a bound, of
parts that are sums themselves.  Two invariants make it inductive (`Sound`).  `Frames`: a
frame owns numbers of nodes, only a dictionary that waits for a value has a key, a stream
has its dictionary and nothing else, the client's call is at the bottom and a nested load
lies on a stream.  `Control`: what is to happen next fits the innermost call, a result
exists only while it is returned, and nothing is peeked while a call is under way, so that
a return overwrites no node.  Each handler then moves an amount from one place to
another; `PushIs`, `PopIs`, `OneMoreNode` and `OtherNode` say what that does to the sums.

*Object parser, tokens.*  The three-token window holds several tokens only behind
integers (`Ready`), because the second is read when the first is an integer and the
third when both are.  So the keyword that begins a stream is the only one in the
window, which is empty when it is consumed and stays so until the data is skipped: a
parser with a stream of its own has no load on its stack (`NoLoads`), and nothing else
runs in between.

*Object parser, place.*  That every token the parser reads is one of the file is not
obvious, because a stream's length is a number from the file and the parser seeks by
it.  `PlaceInv` says that the place of the tokenizer is in the file, and that an integer
has a number for its value wherever it is on its way to be a `Length`: in the window,
among the parts of a call on the stack (`Known`), or in what is returned.
A seek that fails leaves the place alone; one behind the end of a file finds its last
token.  `StoppedInv` keeps the types after the call whose outcome C leaves undefined.

*Token window.*  Where the cursor is, is where the first token in the window starts, or
where the tokenizer stands if the window is empty.  `Chain` is the invariant: each token
in the window starts where the one before ends, and the tokenizer stands behind the last.
A look fills the window up to a token that cannot be read; the starts of the tokens in it
are the path along which the abstract look goes (`PathIs`), so it finds the same type and
the same failure.

*Token values.*  `OwnersInv` says that a token in the window or a node that has a value
has it alone: what is allocated is what these own (`Owned`), no two tokens, no two nodes and
no token and node share it, and what was lost is in nobody's hands.

*Array.*  `ArrayRefs` says that the first `count` cells hold items, that the
cells are as many as the capacity, and that the counts are exact.  An insertion
moves cells within the block or to a new one of `RoundCapacity` cells; that this
is enough is proved from the recursive definition of `Fls` (`TableRoundedUp`
does the same for the table).  The refinement then is a fact on sequences per
operation.

*Dictionary.*  `DictOK` is the invariant of open addressing: no slot between the
hash of a key and its place is empty (`Probed`), keys differ, a slot is empty
always, `count` is the number of the others.  From it a search ends, and at the
key, if the key is in the table.  A growth re-enters all entries in a table
twice as large; the proof goes by induction over the entries moved so far.  That
`CosDict.c` has no removal is used: one that empties a slot would break `Probed`.  An iterator has returned the keys of the slots it
has passed (`IteratorOK`).

*Stream reader.*  The invariant (`ReaderInv`) puts the buffer into the stream: it
holds the bytes before the position of the stream (`Placed`), as long as nobody
has sought the stream below the reader (`sought`).  `eofPos` is 0 until an end is
met, and in memory an end is met at the end only.  A refill drops what was
consumed but for the last byte, so the byte to be put back is there.
`OutcomeIs` says of every kind of stream what a read may give, down to nothing;
`Place`, the position less what is unread, then moves as the cursor does.

*Data.*  The invariant (`DataInv`) is that no two objects share memory (`Heap`),
that what an object holds was written (`ObjectOK`), and that a reference is to
bytes of an object that was not changed since (`Refers`).  Each call that changes
an object gives up the references to it, and `ModifyInv` says that all others
stay, because the memory that the object moves to is no other's.

*Strings.*  `StringOK` has the terminator in the capacity and no nul before it,
so that `strlen`, `strncpy` and `strncmp`, whose definitions look for a nul,
find the one that is meant (`StrlenIs`, `StrncmpIs`).  Growth is enough for the
terminator too, because `Required` counts it.

*Filters.*  What a text encodes is defined from its end (`HexRest`, `ASCII85Rest`,
`RunsRest`: what the last `n` characters encode, behind the characters of a block that
is begun), so that a decoder that reads a character moves from one value of the
function to the next.  The invariant (`FiltersInv`) says that what was delivered, what
is in the buffer, and what the rest of the text encodes from where the decoder is, are
together the contents (`HexWhole`, `ASCII85Whole`, `RunsWhole`).  A call copies from the
second part to the first, a decoder moves from the third to the second.  The
run-length decoder keeps what is left of a run between its calls (`context`), which is a
part of the third; when a source fails it goes on where it was, and the equation
stays, until a failure between two runs, which is taken for the end: from then on the first two
parts are the start of the contents.  A block decoder takes any failure for the end, and an
ASCII85 or hexadecimal text is promised only while none failed.  The hexadecimal
decoder reads on behind an odd digit and the marker; `Paired` says that then nothing is
behind it, for texts that meet `HexEnds`.

Induction goes through sets of numbers: a set of natural numbers that is not
empty has a least member (`Least`), so the numbers for which a statement fails
have none.  That a recursive definition such as `Fls` has a function that
satisfies it, which `CHOOSE` needs, is proved once for functions that recur to a
smaller number (`Recursion`) and once for the folds of the community modules
over an interval (`FoldDefined`).

`GrowsOnlyWhenFull`, `LoadedOnce` and the type invariants of `CosDoc` and
`CosParser` are proved and in no run.

Only model-checked:

- liveness (`ReleaseReturns`, `CallsReturn`, `ParseReturns`, `EveryEndIsReached`),
  which needs `ENABLED` of the steps;
- that what a block of digits stands for is what an encoder made it of: the proofs take
  the value of one block (`Byte`, `Bytes`) from the decoder, and `CasesAssumption`,
  which TLC evaluates, compares the contents with those of the encoders in `MCCosFilters`;
- that the object parser reads whole objects (`WellFormedParses`), an induction over
  how they are written;
- the tokenizer (`ReadAsWritten`, `TokensTellTheText`): what it says is about
  given texts, and what recursive operators make of them.

## Not modelled

- In `CosParser`, real numbers among the keys of a trailer, a keyword `stream` or
  `obj` in it or behind it, and `Root` or `Prev` in a dictionary inside it that a
  failing read cuts.  A key that is no name ends the model's run (`undefined`), because
  the code hashes and compares it as one.
- A stream whose `Length` is a reference to itself: the load recurses without
  bound.
- The use of a reference node after its document was destroyed, which the
  interface leaves to the client.
- Two parsers created for one document.
- Failure of `malloc`, but in the object cache, the containers, strings, data
  and the nodes of `CosTokenValue`.
- In `CosObjNode`, insertion at an index and overwriting an entry (`CosArray`
  and `CosDict` have them), and the setters of leaf nodes but those of
  `CosTokenValue`.
- Creation and closing of filters and streams: the ownership of one pointer.
- What a real number is: the tokenizer keeps its digits.  Formatting of strings.
- The table of keywords in `CosKeywords.c`; the tokenizer has its own.
- The public accessors of `CosObj.c`, which keep no state; allocator, errors,
  logging and diagnostics, which decide nothing; the C++ wrapper, tests and
  examples.

## Plan

Done, in this order: `CosDeque` and `CosRingBuffer`; `CosObjNode`; `CosDoc`;
`CosParser`; the proofs of three of them; the token buffer and the object
parser; streams and their reader; the tokenizer; strings, data
and token values; array; dictionary; filters; the proofs of the counting
invariants of nodes and documents, of the containers, of what was left of
`CosParser`, of the object parser, of the stream reader, of strings and data, of
the window of tokens, of the values of tokens and of the filters.

Next: `CosParser` composed with `CosDoc`, a document whose client asks for objects
between two parses.
