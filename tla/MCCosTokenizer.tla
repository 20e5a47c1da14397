--------------------------- MODULE MCCosTokenizer ---------------------------
(***************************************************************************)
(* Texts for CosTokenizer: some that are written as one or two tokens with *)
(* every kind of white space, which are read from a stream that does not   *)
(* fail, and short ones of any characters, of which any read may fail and  *)
(* whose integers overflow early.                                          *)
(***************************************************************************)
EXTENDS CosTokenizer

Text(chars, written, tokens) ==
    [chars |-> chars, written |-> written, tokens |-> tokens]

-----------------------------------------------------------------------------
(* Separators and lexemes, and what they should be read as.                *)

Separator(chars, bytes, count, comment) ==
    [chars |-> chars, space |-> [count |-> count, bytes |-> bytes, comment |-> comment]]

Nothing == Separator(<<>>, <<>>, 0, FALSE)

Separators ==
    { Nothing,
      Separator(<<Space>>, <<Space>>, 1, FALSE),
      Separator(<<CarriageReturn, LineFeed, Nul>>, <<CarriageReturn, LineFeed>>, 3, FALSE),
      Separator(<<Space, PercentSign, LeftParenthesis, LineFeed>>, <<Space>>, 1, TRUE),
      Separator(<<PercentSign, CarriageReturn, LineFeed>>, <<>>, 0, TRUE) }

Lexeme(type, chars, bytes) ==
    [type |-> type, chars |-> chars, bytes |-> bytes, int |-> 0, frac |-> <<>>, sign |-> 0]

Number(type, chars, int, frac, sign) ==
    [type |-> type, chars |-> chars, bytes |-> <<>>, int |-> int, frac |-> frac, sign |-> sign]

A == LatinCapitalLetterA
X == 120
D(n) == DigitZero + n
L == LeftParenthesis
R == RightParenthesis
B == ReverseSolidus

Lexemes ==
    { Lexeme("ArrayStart", <<LeftSquareBracket>>, <<>>),
      Lexeme("DictionaryStart", <<LessThanSign, LessThanSign>>, <<>>),
      Lexeme("DictionaryEnd", <<GreaterThanSign, GreaterThanSign>>, <<>>),
      Lexeme("Name", <<Solidus>>, <<>>),
      Lexeme("Name", <<Solidus, X, D(1)>>, <<X, D(1)>>),
      Lexeme("Name", <<Solidus, NumberSign, D(4), LatinSmallLetterA, B>>, <<74, B>>),
      Lexeme("Name", <<Solidus, NumberSign, D(0), D(0), X>>, <<X>>),
      Lexeme("Literal_String", <<L, L, R, X, R>>, <<L, R, X>>),
      Lexeme("Literal_String", <<L, B, R, B, LatinSmallLetterN, B, X, R>>, <<R, LineFeed, X>>),
      Lexeme("Literal_String", <<L, B, D(5), D(0), D(1), D(1), B, D(1), D(8), R>>,
             <<65, D(1), 1, D(8)>>),
      Lexeme("Literal_String", <<L, CarriageReturn, LineFeed, B, CarriageReturn, LineFeed, R>>,
             <<LineFeed>>),
      Lexeme("Hex_String", <<LessThanSign, D(4), A, Space, D(5), GreaterThanSign>>, <<74, 80>>),
      Lexeme("Hex_String", <<LessThanSign, GreaterThanSign>>, <<>>),
      Number("Integer", <<D(2), D(5), D(6)>>, 256, <<>>, 0),
      Number("Integer", <<HyphenMinus, D(0)>>, 0, <<>>, -1),
      Number("Real", <<PlusSign, D(1), FullStop>>, 1, <<>>, 1),
      Number("Real", <<FullStop, D(0), D(5)>>, 0, <<0, 5>>, 0),
      Lexeme("StartXRef", <<LastByte + 10>>, <<>>),
      Lexeme("R", <<LatinCapitalLetterR>>, <<>>) }

Written == [chars |-> <<>>, tokens |-> <<>>]

Write(t, sep, lexeme) ==
    [chars  |-> t.chars \o sep.chars \o lexeme.chars,
     tokens |-> Append(t.tokens,
         [type |-> lexeme.type, at |-> Len(t.chars \o sep.chars), len |-> Len(lexeme.chars),
          space |-> sep.space, bytes |-> lexeme.bytes, int |-> lexeme.int,
          frac |-> lexeme.frac, sign |-> lexeme.sign])]

(* White space may be left out where a token ends or begins with a         *)
(* delimiter.                                                              *)
Apart(before, sep, after) ==
    \/ sep # Nothing
    \/ IsDelimiter(Head(after.chars))
    \/ before.type \in {"ArrayStart", "DictionaryStart", "DictionaryEnd",
                        "Literal_String", "Hex_String"}

WrittenTexts ==
    { LET t == Write(Write(Written, s1, l1), s2, l2) IN Text(t.chars, TRUE, t.tokens) :
        <<s1, l1, s2, l2>> \in {q \in Separators \X Lexemes \X Separators \X Lexemes :
                                    Apart(q[2], q[3], q[4])} }

-----------------------------------------------------------------------------

Strings(prefix, alphabet, n) ==
    {prefix \o s : s \in UNION {[1 .. k -> alphabet] : k \in 0 .. n}}

AnyTexts ==
    { Text(s, FALSE, <<>>) : s \in
        Strings(<<>>, {L, R, LessThanSign, GreaterThanSign, Solidus, NumberSign,
                        PercentSign, LineFeed, CarriageReturn, D(1), X}, 3)
        \cup Strings(<<L>>, {L, R, B, CarriageReturn, LineFeed, D(7), X}, 3)
        \cup Strings(<<L, B, D(7)>>, {D(7), R}, 2)
        \cup Strings(<<>>, {PlusSign, HyphenMinus, FullStop, D(7), Space}, 3)
        \cup Strings(<<LessThanSign>>, {A, D(8), GreaterThanSign, X}, 3)
        \cup Strings(<<Solidus, NumberSign>>, {A, NumberSign, RightCurlyBracket, X}, 3) }

-----------------------------------------------------------------------------

Whole == INSTANCE CosTokenizer WITH Texts <- WrittenTexts, MayFail <- FALSE, IntMax <- 999

EitherInit == Init \/ Whole!Init

EitherRead == IF text.written THEN Whole!Read ELSE Read

EitherNext == IF text.written THEN Whole!Next ELSE Next

EitherSpec == EitherInit /\ [][EitherNext]_vars /\ WF_vars(EitherRead)

(* Of every token that a call returned, the place, the white space and     *)
(* what the predicates say of it are what the text has there, and only the *)
(* delimiters that no token begins with are not consumed.                  *)
TokensTellTheText ==
    /\ IF text.written THEN Whole!TypeOK ELSE TypeOK
    /\ EveryCharacterCounted
    /\ PredicatesSayWhatIsThere
    /\ OnlyStrayDelimitersStall
=============================================================================
