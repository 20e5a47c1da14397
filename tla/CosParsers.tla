----------------------------- MODULE CosParsers -----------------------------
(***************************************************************************)
(* The object parser, and two parts of it alone: the window of tokens with *)
(* any calls made of it, and the values of tokens.  Each behaviour is of   *)
(* the one that "used" names; they share no state.                         *)
(***************************************************************************)
EXTENDS CosObjParser

CONSTANTS WindowFiles,                   \* of tokens, behind the window alone
          Memory, ValueNodes, Nothing    \* see CosTokenValue

VARIABLES used,
          windowFile, tokenWindow, seen,              \* of the window alone
          kind, values, nodeValue, lostNames, misuse   \* of the values of tokens

windowVars == <<windowFile, tokenWindow, seen>>
valueVars  == <<kind, values, nodeValue, lostNames, misuse>>

TokenWindow == INSTANCE CosBaseParser WITH
    Files <- WindowFiles, file <- windowFile, window <- tokenWindow

Value == INSTANCE CosTokenValue WITH
    Nodes <- ValueNodes, WindowSize <- BufferSize,
    window <- values, node <- nodeValue, lost <- lostNames

ASSUME WindowAssumption == \A f \in WindowFiles : IsFile(f)

ASSUME ValueAssumption == Nothing \notin Memory \cup {"String", "Data"}

-----------------------------------------------------------------------------

ParsersInit ==
    /\ used \in {"objects", "window", "values"}
    /\ Init /\ TokenWindow!Init /\ Value!Init
    /\ used # "objects" => file = CHOOSE f \in Files : TRUE
    /\ used # "window" => windowFile = CHOOSE f \in WindowFiles : TRUE

UseParser(A) == used = "objects" /\ A /\ UNCHANGED <<used, windowVars, valueVars>>

UseWindow == used = "window" /\ TokenWindow!Next /\ UNCHANGED <<used, vars, valueVars>>

UseValues == used = "values" /\ Value!Next /\ UNCHANGED <<used, vars, windowVars>>

ParsersNext == UseParser(Next) \/ UseWindow \/ UseValues

ParsersSpec ==
    /\ ParsersInit /\ [][ParsersNext]_<<used, vars, windowVars, valueVars>>
    /\ WF_<<used, vars, windowVars, valueVars>>(UseParser(Step))

-----------------------------------------------------------------------------
(* The window is a cursor in the tokens of the file, through looks ahead,  *)
(* failing reads and moves.                                                *)
WindowIsCursor == TokenWindow!CursorSpec

(* The value of a token is owned by the token or by a node, and by one.    *)
OneOwner == Value!TypeOK /\ Value!OneOwner

(* Tokens are read ahead behind integers only, and none is used that was   *)
(* read before the data of a stream was passed over, as a parser that has  *)
(* a stream of its own does.                                               *)
NoTokenIsStale ==
    /\ TypeOK /\ AheadOfIntegers /\ NoTokenFromBeforeTheData
    /\ TokenWindow!TypeOK
=============================================================================
