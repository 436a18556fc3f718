---------------------------- MODULE MCExpressions ----------------------------
(***************************************************************************)
(* Files of two lines for Expressions.                                     *)
(***************************************************************************)
EXTENDS Expressions

CONSTANTS FirstLength, SecondLength     \* bounds: the characters of the lines

Texts(alphabet, n) == UNION {[1..k -> alphabet] : k \in 0..n}

TwoLines(alphabet) ==
    {<<a, b>> : a \in Texts(alphabet, FirstLength), b \in Texts(alphabet, SecondLength)}

MCFiles ==
    TwoLines({"(", ")", "{", "}", ";"}) \cup TwoLines({"(", ")", "<", ">", ";"})
      \cup TwoLines({"<", ">", "operator", " ", "-", "="})
=============================================================================
