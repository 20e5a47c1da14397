---------------------------- MODULE CosTokenizer ----------------------------
(***************************************************************************)
(* CosTokenizer: tokens out of the characters of a stream.                 *)
(*                                                                         *)
(* A call of cos_tokenizer_get_next_token is a run of steps, one for each  *)
(* character that is read; mode says which loop of the code reads it.  The *)
(* stream reader below is a cursor (CosStreamReader): what was read can be *)
(* put back, a read may fail, and a failed read is like the end.           *)
(***************************************************************************)
EXTENDS Integers, Sequences, TLC

CONSTANTS Texts,         \* the texts to read
          MayFail,       \* reads of the stream may fail
          IntMax,        \* the largest int
          WhitespaceMax, \* COS_TOKEN_WHITESPACE_MAX_BYTES
          NoToken        \* no token was returned

ASSUME IntMaxAssumption == IntMax \in Nat
ASSUME WhitespaceMaxAssumption == WhitespaceMax \in Nat /\ WhitespaceMax >= 2

VARIABLES text,    \* the characters, and the tokens they were written as
          pos,     \* how many characters are consumed
          held,    \* the next character is in the buffer of the reader
          mode,    \* the loop the control is in; "idle" between the calls
          token,   \* where the token begins, and the white space before it
          value,   \* what is read of its value
          out,     \* the token of the last call
          from,    \* where the last call began to read
          calls    \* how many tokens of a written text were returned

vars == <<text, pos, held, mode, token, value, out, from, calls>>

-----------------------------------------------------------------------------
(* CharacterSet: the characters of a file, by their codes, and the          *)
(* keywords.  A keyword of more than one letter is one character here, with *)
(* a code behind those of the bytes; it is used where no escape or number   *)
(* could begin with its letters.                                            *)

EOF == -1

Nul == 0
Backspace == 8
HorizontalTab == 9
LineFeed == 10
FormFeed == 12
CarriageReturn == 13
Space == 32
NumberSign == 35
PercentSign == 37
LeftParenthesis == 40
RightParenthesis == 41
PlusSign == 43
HyphenMinus == 45
FullStop == 46
Solidus == 47
DigitZero == 48
DigitSeven == 55
DigitNine == 57
LessThanSign == 60
GreaterThanSign == 62
LatinCapitalLetterA == 65
LatinCapitalLetterF == 70
LatinCapitalLetterR == 82
LeftSquareBracket == 91
ReverseSolidus == 92
RightSquareBracket == 93
LatinSmallLetterA == 97
LatinSmallLetterB == 98
LatinSmallLetterF == 102
LatinSmallLetterN == 110
LatinSmallLetterR == 114
LatinSmallLetterT == 116
LeftCurlyBracket == 123
RightCurlyBracket == 125

IsWhitespace(c) ==
    c \in {Nul, HorizontalTab, LineFeed, FormFeed, CarriageReturn, Space}

IsDelimiter(c) ==
    c \in {PercentSign, LeftParenthesis, RightParenthesis, Solidus,
           LessThanSign, GreaterThanSign, LeftSquareBracket,
           RightSquareBracket, LeftCurlyBracket, RightCurlyBracket}

IsEndOfLine(c) == c \in {LineFeed, CarriageReturn}

IsDecimalDigit(c) == c \in DigitZero .. DigitNine

IsOctalDigit(c) == c \in DigitZero .. DigitSeven

IsHexDigit(c) ==
    \/ IsDecimalDigit(c)
    \/ c \in LatinCapitalLetterA .. LatinCapitalLetterF
    \/ c \in LatinSmallLetterA .. LatinSmallLetterF

DecimalDigitValue(c) == c - DigitZero

OctalDigitValue(c) == c - DigitZero

HexDigitValue(c) ==
    CASE IsDecimalDigit(c)       -> c - DigitZero
      [] c < LatinSmallLetterA   -> c - LatinCapitalLetterA + 10
      [] OTHER                   -> c - LatinSmallLetterA + 10

Words == <<"True", "False", "Null", "Obj", "EndObj", "Stream", "EndStream",
           "XRef", "Trailer", "StartXRef">>

LastByte == 255

KeywordType(string) ==
    CASE Len(string) # 1                    -> "Unknown"
      [] string[1] = LatinSmallLetterF      -> "F"
      [] string[1] = LatinSmallLetterN      -> "N"
      [] string[1] = LatinCapitalLetterR    -> "R"
      [] string[1] > LastByte               -> Words[string[1] - LastByte]
      [] OTHER                              -> "Unknown"

-----------------------------------------------------------------------------
(* CosTokenizer *)

NoSpace == [count |-> 0, bytes |-> <<>>, comment |-> FALSE]

NoValue == [bytes |-> <<>>, level |-> 0, digits |-> 0, code |-> 0,
            int |-> 0, frac |-> <<>>, point |-> FALSE, sign |-> 0]

Init ==
    /\ text \in Texts
    /\ pos = 0 /\ from = 0 /\ calls = 0
    /\ mode = "idle" /\ held = FALSE
    /\ token = [at |-> 0, space |-> NoSpace]
    /\ value = NoValue
    /\ out = NoToken

Size == Len(text.chars)

(* What a read of the next character may give.                             *)
Chars ==
    IF pos < Size
    THEN {text.chars[pos + 1]} \cup (IF MayFail /\ ~held THEN {EOF} ELSE {})
    ELSE {EOF}

Take(c) == pos' = (IF c = EOF THEN pos ELSE pos + 1) /\ held' = FALSE

(* The character was looked at, or read and put back.                      *)
Keep(c) == held' = (c # EOF) /\ UNCHANGED pos

Goto(m) == mode' = m /\ UNCHANGED <<text, out, from, calls>>

(* Bytes of a value; a byte is written when its digits are complete.       *)
Push(bytes) == value' = [value EXCEPT !.bytes = @ \o bytes, !.digits = 0, !.code = 0]

(* A string is given no character that would end it.                      *)
PushToString(c) == IF c = Nul THEN Push(<<>>) ELSE Push(<<c>>)

(* The end of a call: a token from the characters up to pos'.              *)
Return(type, v) ==
    /\ out' = [type |-> type, at |-> token.at, len |-> pos' - token.at, space |-> token.space,
               bytes |-> v.bytes, int |-> v.int, frac |-> v.frac, sign |-> v.sign]
    /\ mode' = "idle"
    /\ calls' = IF text.written /\ type # "EOF" THEN calls + 1 ELSE calls
    /\ value' = NoValue
    /\ UNCHANGED <<text, token, from>>

GetNextToken ==
    /\ mode = "idle" /\ mode' = "space"
    /\ from' = pos
    /\ token' = [at |-> 0, space |-> NoSpace]
    /\ UNCHANGED <<text, pos, held, value, out, calls>>

(* A seek of the stream, and cos_tokenizer_reset.                          *)
Reset ==
    /\ mode = "idle" /\ ~text.written
    /\ pos' \in 0 .. Size /\ held' = FALSE
    /\ out' = NoToken
    /\ UNCHANGED <<text, mode, token, value, from, calls>>

-----------------------------------------------------------------------------
(* White space and comments.                                               *)

(* Mutant: what does not fit in the bytes is not counted either. *)
SpacedUpToMax(space, c) ==
    IF Len(space.bytes) < WhitespaceMax
    THEN [space EXCEPT !.count = @ + 1, !.bytes = Append(@, c)]
    ELSE space

Spaced(space, c) ==
    [space EXCEPT !.count = @ + 1,
                  !.bytes = IF Len(@) < WhitespaceMax THEN Append(@, c) ELSE @]

SkipWhitespaceAndComments ==
    /\ mode = "space"
    /\ UNCHANGED value
    /\ \E c \in Chars :
          \/ /\ IsWhitespace(c)
             /\ Take(c) /\ Goto("space")
             /\ token' = [token EXCEPT !.space = Spaced(@, c)]
          \/ /\ c = PercentSign
             /\ Take(c) /\ Goto("comment")
             /\ token' = [token EXCEPT !.space.comment = TRUE]
          \/ /\ ~IsWhitespace(c) /\ c # PercentSign
             /\ Keep(c) /\ Goto("start")
             /\ token' = [token EXCEPT !.at = pos]

(* The end of the line is taken with the comment.                          *)
SkipComment ==
    /\ mode = "comment"
    /\ UNCHANGED <<token, value>>
    /\ \E c \in Chars :
          /\ Take(c)
          /\ Goto(CASE c \in {EOF, LineFeed} -> "space"
                    [] c = CarriageReturn    -> "comment cr"
                    [] OTHER                 -> "comment")

(* A line feed after a carriage return is taken with it.                   *)
MatchLineFeed == \E c \in Chars : IF c = LineFeed THEN Take(c) ELSE Keep(c)

SkipCommentLineFeed ==
    /\ mode = "comment cr"
    /\ MatchLineFeed
    /\ Goto("space") /\ UNCHANGED <<token, value>>

-----------------------------------------------------------------------------
(* The first character of a token.                                         *)

(* The stream cannot tell its position, and the call fails.                *)
NoPosition ==
    /\ mode = "start" /\ MayFail
    /\ mode' = "idle" /\ out' = NoToken
    /\ UNCHANGED <<text, pos, held, token, value, from, calls>>

Loops ==
    (Solidus :> "name") @@ (LeftParenthesis :> "string") @@
    (LessThanSign :> "less") @@ (GreaterThanSign :> "greater")

Signs ==
    (EOF :> "EOF") @@ (LeftSquareBracket :> "ArrayStart") @@ (RightSquareBracket :> "ArrayEnd")

BeginsNumber(c) == IsDecimalDigit(c) \/ c \in {FullStop, PlusSign, HyphenMinus}

ReadNextToken ==
    /\ mode = "start"
    /\ \E c \in Chars :
          \/ /\ c \in DOMAIN Signs
             /\ Take(c) /\ Return(Signs[c], NoValue)
          \/ /\ c \in DOMAIN Loops
             /\ Take(c) /\ Goto(Loops[c]) /\ UNCHANGED <<token, value>>
          \/ /\ c \notin DOMAIN Signs \cup DOMAIN Loops
             /\ Keep(c) /\ UNCHANGED <<token, value>>
             /\ Goto(IF BeginsNumber(c) THEN "number" ELSE "word")

ReadLess ==
    /\ mode = "less"
    /\ \E c \in Chars :
          IF c = LessThanSign
          THEN Take(c) /\ Return("DictionaryStart", NoValue)
          ELSE Keep(c) /\ Goto("hex") /\ UNCHANGED <<token, value>>

ReadGreater ==
    /\ mode = "greater"
    /\ \E c \in Chars :
          IF c = GreaterThanSign
          THEN Take(c) /\ Return("DictionaryEnd", NoValue)
          ELSE Keep(c) /\ Return("Unknown", NoValue)

-----------------------------------------------------------------------------
(* Names, and words, which are keywords or unknown.                        *)

EndsWord(c) == c = EOF \/ IsWhitespace(c) \/ IsDelimiter(c)

ReadName ==
    /\ mode = "name"
    /\ \E c \in Chars :
          \/ /\ EndsWord(c)
             /\ Keep(c) /\ Return("Name", value)
          \/ /\ c = NumberSign
             /\ Take(c) /\ Goto("name escape") /\ UNCHANGED <<token, value>>
          \/ /\ ~EndsWord(c) /\ c # NumberSign
             /\ Take(c) /\ Goto("name") /\ PushToString(c) /\ UNCHANGED token

(* A hex digit, of which two make a byte.                                  *)
AddHexDigit(c, m) ==
    /\ Take(c) /\ UNCHANGED token
    /\ IF value.digits = 1
       THEN LET byte == value.code * 16 + HexDigitValue(c)
            IN  Goto(m) /\ IF m = "name" THEN PushToString(byte) ELSE Push(<<byte>>)
       ELSE Goto(mode) /\ value' = [value EXCEPT !.digits = 1, !.code = HexDigitValue(c)]

ReadNameEscape ==
    /\ mode = "name escape"
    /\ \E c \in Chars :
          IF IsHexDigit(c)
          THEN AddHexDigit(c, "name")
          ELSE Keep(c) /\ Return("Unknown", NoValue)

ReadWord ==
    /\ mode = "word"
    /\ \E c \in Chars :
          IF EndsWord(c)
          THEN Keep(c) /\ Return(KeywordType(value.bytes), NoValue)
          ELSE Take(c) /\ Goto("word") /\ PushToString(c) /\ UNCHANGED token

-----------------------------------------------------------------------------
(* Strings.                                                                *)

(* Mutant: the first closing parenthesis ends the string. *)
NestedNever(c) == value.level

(* The level of nested parentheses after a character.                      *)
Nested(c) ==
    CASE c = LeftParenthesis  -> value.level + 1
      [] c = RightParenthesis -> value.level - 1
      [] OTHER                -> value.level

ReadLiteralString ==
    /\ mode = "string"
    /\ \E c \in Chars :
          \/ /\ c = EOF
             /\ Keep(c) /\ Return("Unknown", NoValue)
          \/ /\ c = RightParenthesis /\ value.level = 0
             /\ Take(c) /\ Return("Literal_String", value)
          \/ /\ c \in {ReverseSolidus, CarriageReturn}
             /\ Take(c) /\ UNCHANGED <<token, value>>
             /\ Goto(IF c = ReverseSolidus THEN "escape" ELSE "string cr")
          \/ /\ c \notin {EOF, ReverseSolidus, CarriageReturn}
             /\ ~(c = RightParenthesis /\ value.level = 0)
             /\ Take(c) /\ Goto("string") /\ UNCHANGED token
             /\ value' = [value EXCEPT !.bytes = Append(@, c), !.level = Nested(c)]

(* Any end of a line is a line feed.                                       *)
ReadStringLineFeed ==
    /\ mode = "string cr"
    /\ MatchLineFeed
    /\ Goto("string") /\ Push(<<LineFeed>>) /\ UNCHANGED token

Escapes ==
    (LatinSmallLetterN :> LineFeed) @@ (LatinSmallLetterR :> CarriageReturn) @@
    (LatinSmallLetterT :> HorizontalTab) @@ (LatinSmallLetterB :> Backspace) @@
    (LatinSmallLetterF :> FormFeed) @@ [c \in {LeftParenthesis, RightParenthesis, ReverseSolidus} |-> c]

(* Mutant: an escape at the end is tried again. *)
EscapeAtEndAgain == "escape"

(* Where a reverse solidus at the end leaves the control.                  *)
EscapeAtEnd == "string"

ReadEscape ==
    /\ mode = "escape"
    /\ UNCHANGED token
    /\ \E c \in Chars :
          \/ /\ c \in DOMAIN Escapes
             /\ Take(c) /\ Goto("string") /\ Push(<<Escapes[c]>>)
          \/ /\ c \in {LineFeed, CarriageReturn}
             /\ Take(c) /\ UNCHANGED value
             /\ Goto(IF c = LineFeed THEN "string" ELSE "escape cr")
          \/ /\ c \notin DOMAIN Escapes \cup {LineFeed, CarriageReturn}
             /\ Keep(c) /\ UNCHANGED value
             /\ Goto(CASE IsOctalDigit(c) -> "octal"
                       [] c = EOF         -> EscapeAtEnd
                       [] OTHER           -> "string")

ReadEscapeLineFeed ==
    /\ mode = "escape cr"
    /\ MatchLineFeed
    /\ Goto("string") /\ UNCHANGED <<token, value>>

(* An octal escape ends with its third digit.                              *)
OctalDigitsMax == 3

(* High-order overflow is ignored.                                         *)
OctalByte(code) == code % (LastByte + 1)

(* What is not a digit is put back; at the end that is the digit before,   *)
(* when the reader still has it.                                           *)
ReadOctalEscape ==
    /\ mode = "octal"
    /\ UNCHANGED token
    /\ \E c \in Chars :
          LET code == IF IsOctalDigit(c) THEN value.code * 8 + OctalDigitValue(c) ELSE value.code
          IN  /\ \/ IsOctalDigit(c) /\ Take(c)
                 \/ ~IsOctalDigit(c) /\ Keep(c)
                 \/ c = EOF /\ pos = Size /\ pos' = pos - 1 /\ held' = TRUE
              /\ IF IsOctalDigit(c) /\ value.digits + 1 < OctalDigitsMax
                 THEN /\ Goto("octal")
                      /\ value' = [value EXCEPT !.code = code, !.digits = @ + 1]
                 ELSE Goto("string") /\ Push(<<OctalByte(code)>>)

(* What is no hex digit is left out.                                       *)
ReadHexString ==
    /\ mode = "hex"
    /\ \E c \in Chars :
          \/ /\ c = EOF
             /\ Keep(c) /\ Return("Unknown", NoValue)
          \/ /\ c = GreaterThanSign
             /\ Take(c)
             /\ Return("Hex_String",
                       IF value.digits = 0 THEN value
                       ELSE [value EXCEPT !.bytes = Append(@, value.code * 16)])
          \/ IsHexDigit(c) /\ AddHexDigit(c, "hex")
          \/ /\ c \notin {EOF, GreaterThanSign} /\ ~IsHexDigit(c)
             /\ Take(c) /\ Goto("hex") /\ UNCHANGED <<token, value>>

-----------------------------------------------------------------------------
(* Numbers.                                                                *)

(* The values an int may have after a digit; beyond its range, anything.   *)
Accumulated(int, digit) ==
    IF int >= 0 /\ int * 10 + digit <= IntMax THEN {int * 10 + digit}
                                              ELSE -IntMax - 1 .. IntMax

IsSign(c) ==
    /\ c \in {PlusSign, HyphenMinus}
    /\ value.sign = 0 /\ ~value.point /\ value.digits = 0

AddDigit(digit) ==
    \E int \in IF value.point THEN {value.int} ELSE Accumulated(value.int, digit) :
        value' = [value EXCEPT !.digits = @ + 1,
                               !.int = int,
                               !.frac = IF value.point THEN Append(@, digit) ELSE @]

EndsNumber(c) ==
    ~(IsDecimalDigit(c) \/ IsSign(c) \/ (c = FullStop /\ ~value.point))

NumberType ==
    CASE value.digits = 0 -> "Unknown"
      [] value.point      -> "Real"
      [] OTHER            -> "Integer"

ReadNumber ==
    /\ mode = "number"
    /\ \E c \in Chars :
          IF EndsNumber(c)
          THEN Keep(c) /\ Return(NumberType, IF value.digits = 0 THEN NoValue ELSE value)
          ELSE /\ Take(c) /\ Goto("number") /\ UNCHANGED token
               /\ \/ IsDecimalDigit(c) /\ AddDigit(DecimalDigitValue(c))
                  \/ IsSign(c) /\ value' = [value EXCEPT !.sign = IF c = PlusSign THEN 1 ELSE -1]
                  \/ c = FullStop /\ value' = [value EXCEPT !.point = TRUE]

-----------------------------------------------------------------------------

(* What a parser may ask of the white space of a token.                    *)
IsSingleSpace(space) == space.count = 1 /\ ~space.comment /\ space.bytes = <<Space>>

IsEol(space) ==
    /\ ~space.comment
    /\ \/ space.count = 1 /\ space.bytes[1] = LineFeed
       \/ space.count = 2 /\ SubSeq(space.bytes, 1, 2) = <<CarriageReturn, LineFeed>>

IsBareCr(space) == space.count = 1 /\ ~space.comment /\ space.bytes = <<CarriageReturn>>

Read ==
    \/ SkipWhitespaceAndComments \/ SkipComment \/ SkipCommentLineFeed
    \/ NoPosition \/ ReadNextToken \/ ReadLess \/ ReadGreater
    \/ ReadName \/ ReadNameEscape \/ ReadWord
    \/ ReadLiteralString \/ ReadStringLineFeed \/ ReadEscape \/ ReadEscapeLineFeed
    \/ ReadOctalEscape \/ ReadHexString \/ ReadNumber

Next == GetNextToken \/ Reset \/ Read

(* A call goes on by itself.                                               *)
Spec == Init /\ [][Next]_vars /\ WF_vars(Read)

-----------------------------------------------------------------------------

(* The cursor is in the text, and what is counted is in its bounds.        *)
TypeOK ==
    /\ pos \in 0 .. Size /\ from \in 0 .. Size
    /\ value.level \in Nat /\ value.digits \in Nat
    /\ value.int \in -IntMax - 1 .. IntMax
    /\ \A i \in 1 .. Len(value.bytes) : value.bytes[i] \in 0 .. LastByte + Len(Words)
    /\ Len(token.space.bytes) <= WhitespaceMax

Returned == mode = "idle" /\ out # NoToken

(* A text that was written as tokens, with white space or comments between *)
(* them where they need it, is read as these tokens, with their values,    *)
(* their places and the white space before them.                           *)
ReadAsWritten ==
    Returned /\ text.written =>
        IF out.type = "EOF" THEN calls = Len(text.tokens)
                            ELSE calls <= Len(text.tokens) /\ out = text.tokens[calls]

(* The header says of the white space of a token that it immediately       *)
(* precedes it: every character that a call consumes is a character of its *)
(* token, of the white space it counts, or of a comment.                   *)
EveryCharacterCounted ==
    Returned =>
        /\ out.at + out.len = pos
        /\ from <= out.at
        /\ out.space.count <= out.at - from
        /\ ~out.space.comment =>
               /\ out.space.count = out.at - from
               /\ \A i \in from + 1 .. out.at : IsWhitespace(text.chars[i])

(* The header says of the predicates what they are true iff: the white     *)
(* space before a token, as it is in the text and with no comment, is one  *)
(* space, one end of a line, or one carriage return.                       *)
PredicatesSayWhatIsThere ==
    Returned =>
        LET there == SubSeq(text.chars, from + 1, out.at)
        IN  /\ IsSingleSpace(out.space) <=> there = <<Space>>
            /\ IsEol(out.space) <=> there \in {<<LineFeed>>, <<CarriageReturn, LineFeed>>}
            /\ IsBareCr(out.space) <=> there = <<CarriageReturn>>

(* A token that consumes nothing is the end of the file, or stands before  *)
(* a character that no token begins with; a failing read can leave white   *)
(* space there, too.                                                       *)
OnlyStrayDelimitersStall ==
    Returned /\ out.len = 0 =>
        \/ out.type = "EOF"
        \/ text.chars[out.at + 1] \in {RightParenthesis, LeftCurlyBracket, RightCurlyBracket}
        \/ MayFail /\ (\/ IsWhitespace(text.chars[out.at + 1])
                       \/ text.chars[out.at + 1] = PercentSign)

(* The header says of cos_tokenizer_get_next_token that it gets the next   *)
(* token: the call after one that returned a token returns a later one.    *)
TokensMoveOn == Returned /\ out.type # "EOF" => out.len > 0

(* A comment in the code says that the end of line that ends a comment is  *)
(* a whitespace character and is recorded on the next iteration.           *)
CommentEolRecorded ==
    Returned /\ out.space.comment /\ out.at > from /\ IsEndOfLine(text.chars[out.at]) =>
        out.space.count > 0

(* The limits say which integer is the largest: no integer is read from    *)
(* digits that say a larger one.                                           *)
Decimal[chars \in Seq(Nat)] ==
    IF chars = <<>> THEN 0
    ELSE Decimal[SubSeq(chars, 1, Len(chars) - 1)] * 10 + DecimalDigitValue(chars[Len(chars)])

IntegersInLimits ==
    Returned /\ out.type = "Integer" /\ IsDecimalDigit(text.chars[out.at + 1]) =>
        Decimal[SubSeq(text.chars, out.at + 1, out.at + out.len)] <= IntMax

(* Every call returns, also when the stream fails for ever.                *)
CallsReturn == mode # "idle" ~> mode = "idle"
=============================================================================
