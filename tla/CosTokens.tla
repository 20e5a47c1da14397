------------------------------ MODULE CosTokens ------------------------------
(***************************************************************************)
(* The tokens of a file and the window of tokens that CosBaseParser keeps  *)
(* ahead of a tokenizer.                                                   *)
(*                                                                         *)
(* A text is a sequence of cells.  A cell is a token, an end of line       *)
(* ("eol"), a byte that is no token on its own ("data": the contents of a  *)
(* stream, the end of the two-cell keyword stream), or a place at which    *)
(* the stream cannot tell its position ("broken"), where                   *)
(* cos_tokenizer_get_next_token fails.  A file has, for each place of a    *)
(* text, the token that a tokenizer gives from there.  A window is the     *)
(* place the tokenizer has got to and the tokens it gave that are not      *)
(* consumed.                                                               *)
(***************************************************************************)
EXTENDS Integers, Sequences

CONSTANT NoToken   \* the NULL that stands for no token

Cell(type, value) == [type |-> type, value |-> value]

BufferSize == 3

(* The first place from pos on that is not white space. *)
Skipped(text, pos) ==
    CHOOSE i \in pos .. Len(text) + 1 :
        /\ \A j \in pos .. i - 1 : text[j].type = "eol"
        /\ i <= Len(text) => text[i].type # "eol"

TypeOf(cell) == IF cell.type = "data" THEN "Unknown" ELSE cell.type

(* The next token: its offset is "at", its length "len".  The end of the   *)
(* file is a token, as often as it is asked for.                           *)
TokenAt(text, pos) ==
    LET i == Skipped(text, pos)
    IN  IF i > Len(text)
        THEN [type |-> "EOF", value |-> 0, at |-> i, len |-> 0]
        ELSE [type |-> TypeOf(text[i]), value |-> text[i].value, at |-> i,
              len |-> IF text[i].type = "Stream" THEN 2 ELSE 1]

FileOf(text) == [pos \in 1 .. Len(text) + 1 |-> TokenAt(text, pos)]

PosAfter(token) == token.at + token.len

(* Tokens as a tokenizer gives them, from wherever it is asked.            *)
IsFile(tokens) ==
    /\ Len(tokens) \in Nat \ {0} /\ DOMAIN tokens = 1 .. Len(tokens)
    /\ \A pos \in DOMAIN tokens :
          LET token == tokens[pos]
          IN  /\ token # NoToken
              /\ token.at \in pos .. Len(tokens) /\ tokens[token.at] = token
              /\ PosAfter(token) \in DOMAIN tokens
              /\ token.type = "Integer" => token.value \in Int

Window(pos) == [pos |-> pos, buffer |-> <<>>]

(* Where the text begins that is not consumed. *)
Unread(w) == IF w.buffer = <<>> THEN w.pos ELSE Head(w.buffer).at

(* One turn of the loop that fills the buffer up to index i. *)
Read(file, w, i) ==
    IF Len(w.buffer) > i \/ file[w.pos].type = "broken"
    THEN w
    ELSE [pos |-> PosAfter(file[w.pos]), buffer |-> Append(w.buffer, file[w.pos])]

(* Mutant: the buffer is always filled. *)
FilledAhead(file, w, lookahead) == Read(file, Read(file, Read(file, w, 0), 1), 2)

(* The buffer has three places, and a failure ends the loop: the turns     *)
(* after it would fail again.                                              *)
Filled(file, w, lookahead) ==
    LET w0 == Read(file, w, 0)
        w1 == Read(file, w0, 1)
    IN  CASE lookahead = 0 -> w0
          [] lookahead = 1 -> w1
          [] lookahead = 2 -> Read(file, w1, 2)
          [] OTHER         -> w

(* What a peek returns from the filled buffer. *)
Peeked(w, lookahead) ==
    IF lookahead < Len(w.buffer) THEN w.buffer[lookahead + 1] ELSE NoToken

(* Mutant: the tokens behind the first are dropped with it. *)
AdvancedToEnd(w) == [w EXCEPT !.buffer = <<>>]

(* Consumes the first token, if there is one in the buffer. *)
Advanced(w) ==
    IF w.buffer = <<>> THEN w ELSE [w EXCEPT !.buffer = Tail(@)]

Matches(w, type) == Peeked(w, 0) # NoToken /\ Peeked(w, 0).type = type

(* A seek of the stream, a reset of the tokenizer and a flush of the tokens. *)
Moved(w, pos) == Window(pos)
=============================================================================
