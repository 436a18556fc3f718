--------------------------- MODULE FirstBranches ----------------------------
(***************************************************************************)
(* What cpplint's nesting stack promises in a file with conditionals       *)
(* (cpplint.py, 2439-2462): an #if is taken to be true, so that the stack  *)
(* after an #endif is the one that the lines of the first branches alone   *)
(* lead to.                                                                *)
(***************************************************************************)
EXTENDS Naturals, Sequences

CONSTANTS
    Lines,
    Directive(_),    \* "if", "else", "endif" or "none" for every line
    Parse(_, _)      \* the stack after the text of a line

VARIABLES
    stack,      \* the blocks that are open after the lines that count
    skipping    \* for each open conditional, whether its first branch is over

Init == stack = <<>> /\ skipping = <<>>

Counts(s) == \A i \in DOMAIN s : ~ s[i]

Enter(line) ==
    /\ Directive(line) = "if"
    /\ skipping' = Append(skipping, FALSE)

Turn(line) ==
    /\ Directive(line) = "else"
    /\ skipping' = [i \in DOMAIN skipping |-> i = Len(skipping) \/ skipping[i]]

Leave(line) ==
    /\ Directive(line) = "endif"
    /\ skipping' = IF skipping = <<>> THEN skipping
                   ELSE SubSeq(skipping, 1, Len(skipping) - 1)

Stay(line) == Directive(line) \notin {"if", "else", "endif"} /\ skipping' = skipping

ReadLine(line) ==
    /\ Enter(line) \/ Turn(line) \/ Leave(line) \/ Stay(line)
    /\ stack' = IF Counts(skipping') THEN Parse(stack, line) ELSE stack

Next == \E line \in Lines : ReadLine(line)

Spec == Init /\ [][Next]_<<stack, skipping>>
=============================================================================
