----------------------------- MODULE MCCommandStream -----------------------------
(***************************************************************************)
(* Inputs of CommandStream for TLC: every short text, alone and behind the *)
(* words of a /msg, where it may be longer than a line.                    *)
(***************************************************************************)
EXTENDS CommandStream

CONSTANT MaxLen

Texts == UNION {[1 .. n -> Chars] : n \in 0 .. MaxLen}
AnyInput == Texts \cup {<<SLASH, "s", SP, "s", SP>> \o text : text \in Texts}

\* What the two callers that look at no result ask for first may be there.
SomeWords == {<<"s">>}
================================================================================
