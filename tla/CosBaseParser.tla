---------------------------- MODULE CosBaseParser ----------------------------
(***************************************************************************)
(* src/parse/CosBaseParser.c: a parser looks up to three tokens ahead of   *)
(* what it has consumed, and the window is filled token by token.          *)
(***************************************************************************)
EXTENDS CosTokens

CONSTANT Files     \* of tokens, see IsFile

VARIABLES
    file,      \* the file behind the tokenizer
    window,    \* the tokenizer's place and token_buffer
    seen       \* what the last peek returned: a token type, NoToken,
               \* or "unseen" since the parser was placed

vars == <<file, window, seen>>

Init == file \in Files /\ window = Window(1) /\ seen = "unseen"

Peek(lookahead) ==
    /\ window' = Filled(file, window, lookahead)
    /\ seen' = LET token == Peeked(window', lookahead)
               IN  IF token = NoToken \/ lookahead >= BufferSize
                   THEN NoToken ELSE token.type
    /\ UNCHANGED file

(* cos_base_parser_get_current_token, cos_base_parser_has_next_token and   *)
(* cos_base_parser_matches_next_token                                      *)
CurrentToken == Peek(0)

Advance == window' = Advanced(window) /\ UNCHANGED <<file, seen>>

(* The owner of the parser seeks, resets the tokenizer, flushes the tokens. *)
Reposition(pos) ==
    window' = Moved(window, pos) /\ seen' = "unseen" /\ UNCHANGED file

Next == \/ \E lookahead \in 1 .. BufferSize : Peek(lookahead)
        \/ CurrentToken
        \/ Advance
        \/ \E pos \in DOMAIN file : Reposition(pos)

Spec == Init /\ [][Next]_vars

-----------------------------------------------------------------------------
(* What is checked *)

TypeOK ==
    /\ file \in Files
    /\ window.pos \in DOMAIN file
    /\ Len(window.buffer) <= BufferSize
    /\ seen \in {file[i].type : i \in DOMAIN file} \cup {"unseen", NoToken}

Cursor == INSTANCE CosTokenCursor
          WITH tokens <- file, at <- file[Unread(window)].at,
               Unseen <- "unseen", Broken <- "broken", Reach <- BufferSize

(* However peeks of any depth, advances, read failures and moves are mixed, *)
(* the window is a cursor in the tokens of the file: no token is skipped,   *)
(* none is seen twice, and none of the text before a move survives it.      *)
CursorSpec == Cursor!Spec
=============================================================================
