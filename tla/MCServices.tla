----------------------------- MODULE MCServices -----------------------------
(***************************************************************************)
(* The sizes are chosen so that every boundary is met:                     *)
(*   - a body of five bytes in pieces of any size takes the STT buffer     *)
(*     through 1, 2, 4 and 8 bytes and the LLM buffer through 2, 4 and 8,  *)
(*     with and without a free byte left, and past both text arrays;       *)
(*   - timeouts of two seconds let a signal come before, in and after any  *)
(*     second of either request;                                           *)
(*   - the files have up to two lines, of every kind, whole or cut after   *)
(*     the first piece, with texts one below, at and one above the size of *)
(*     their field and numbers at both ends of their range.                *)
(***************************************************************************)
EXTENDS Services

Text(length) == [text |-> "text", length |-> length]
Number(n) == [number |-> n, numeric |-> TRUE]

Assignment(key, value) == [kind |-> "assignment", key |-> key, value |-> value]
Other == {[kind |-> "blank"], [kind |-> "comment"], [kind |-> "no equals"]}

Assignments ==
    {Assignment("ASSISTANT_MODE", value) : value \in {Local, Text(6), Text(20)}}
    \cup {Assignment("LLM_API_BASE_URL", Text(n)) : n \in {0, 9, 10, 11}}
    \cup {Assignment("VAD_AGGRESSIVENESS", value) :
            value \in {Number(-1), Number(0), Number(3), Number(4),
                       [number |-> 0, numeric |-> FALSE]}}
    \cup {Assignment("VAD_SILENCE_MS", Number(n)) : n \in {99, 100, 5000, 5001}}
    \cup {Assignment("UNKNOWN", Text(3))}

MCPieces == Assignments \cup Other
Lines == {<<piece>> : piece \in MCPieces}
         \cup {<<[kind |-> "comment"], piece>> : piece \in Assignments}

MCFiles == {<<>>} \cup {<<a>> : a \in Lines} \cup {<<a, b>> : a, b \in Lines}
=============================================================================
