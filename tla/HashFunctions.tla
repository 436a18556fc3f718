--------------------------- MODULE HashFunctions ----------------------------
(***************************************************************************)
(* The hash functions of skel/utils.c on words of Width bits (32 in the    *)
(* code).                                                                  *)
(***************************************************************************)
EXTENDS Naturals, Bitwise, SequencesExt

CONSTANTS Width, Multiplier

Words == 0..(2^Width - 1)

\* The word with its upper half folded onto the lower one.
FoldHigh(x) == (x \div 2^(Width \div 2)) ^^ x

HashUint(x) ==
    LET round(y) == (FoldHigh(y) * Multiplier) % 2^Width
    IN  FoldHigh(round(round(x)))

\* A name is the sequence of its characters' codes.
HashString(name) ==
    FoldLeft(LAMBDA hash, c : (hash * 33 + c) % 2^Width, 5381 % 2^Width, name)
=============================================================================
