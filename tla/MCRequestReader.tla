-------------------------- MODULE MCRequestReader ---------------------------
(***************************************************************************)
(* RequestReader on contents of at most DocContentLength characters.       *)
(***************************************************************************)
EXTENDS RequestReader

MCCharacters == {"x", Newline}

MCNames == {<<"x">>}

MCContents == {c \in BoundedSeq(MCCharacters, 5) : Fits(c)}
=============================================================================
