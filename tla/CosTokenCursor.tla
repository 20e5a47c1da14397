--------------------------- MODULE CosTokenCursor ---------------------------
(***************************************************************************)
(* What a base parser promises: a cursor in the tokens of a file.  It can  *)
(* look at the token under the cursor and at the two after it, move on by  *)
(* one, and be put somewhere else.                                         *)
(***************************************************************************)
EXTENDS Integers, Sequences

CONSTANTS Files,     \* of tokens, see CosTokens
          NoToken,   \* the result of a look that fails
          Unseen,    \* there was no look since the cursor was placed
          Broken,    \* what no look gets past
          Reach      \* how many tokens a look may reach

VARIABLES tokens,
          at,        \* where the token under the cursor starts
          seen       \* the type that the last look found

vars == <<tokens, at, seen>>

Starts == {i \in DOMAIN tokens : tokens[i].at = i}

After(i) == tokens[i + tokens[i].len].at

Init == tokens \in Files /\ at = tokens[1].at /\ seen = Unseen

Look(k) ==
    /\ \E path \in [0 .. k -> Starts] :
          /\ path[0] = at
          /\ \A i \in 1 .. k : path[i] = After(path[i - 1])
          /\ seen' = IF k < Reach /\ \A i \in 0 .. k : tokens[path[i]].type # Broken
                     THEN tokens[path[k]].type ELSE NoToken
    /\ UNCHANGED <<tokens, at>>

MoveOn ==
    /\ tokens[at].type # Broken
    /\ at' = After(at)
    /\ UNCHANGED <<tokens, seen>>

Move == at' \in Starts /\ seen' = Unseen /\ UNCHANGED tokens

Next == \/ \E k \in 0 .. Reach : Look(k)
        \/ MoveOn
        \/ Move

Spec == Init /\ [][Next]_vars
=============================================================================
