---------------------------- MODULE NestingState ----------------------------
(***************************************************************************)
(* The class NestingState of cpplint.py: the stack of the blocks that are  *)
(* open, with checkpoints of it for the conditionals that are open, as a   *)
(* record.  How the text of a line changes the stack is left to the        *)
(* constant Parse; module Blocks defines it.                               *)
(*                                                                         *)
(* The code copies the stack with deepcopy wherever it is kept for later,  *)
(* as its blocks are changed in place; values of TLA+ are copies anyway.   *)
(***************************************************************************)
EXTENDS Naturals, Sequences

CONSTANTS
    Lines,
    Directive(_),    \* "if", "else", "endif" or "none" for every line
    Parse(_, _)      \* the stack after the text of a line

VARIABLE nesting

InitNesting == [stack |-> <<>>, pp_stack |-> <<>>]

Checkpoint(stack) == [stack_before_if |-> stack, stack_before_else |-> <<>>, seen_else |-> FALSE]

Outer(pp_stack) == SubSeq(pp_stack, 1, Len(pp_stack) - 1)
Innermost(pp_stack) == pp_stack[Len(pp_stack)]

AtIf(s) == [s EXCEPT !.pp_stack = Append(s.pp_stack, Checkpoint(s.stack))]

\* A slip: every #elif and #else saves the stack, not only the first of them.
SaveAtEveryElse(top, stack) == [top EXCEPT !.seen_else = TRUE, !.stack_before_else = stack]

\* The first #else or #elif saves the stack for the #endif.
SaveAtElse(top, stack) ==
    [stack_before_if |-> top.stack_before_if,
     stack_before_else |-> IF top.seen_else THEN top.stack_before_else ELSE stack,
     seen_else |-> TRUE]

\* Each of them starts over with the stack from before the #if.
AtElse(s) ==
    LET top == Innermost(s.pp_stack)
    IN  IF s.pp_stack = <<>> THEN s
        ELSE [stack |-> top.stack_before_if,
              pp_stack |-> Append(Outer(s.pp_stack), SaveAtElse(top, s.stack))]

AtEndif(s) ==
    LET top == Innermost(s.pp_stack)
    IN  IF s.pp_stack = <<>> THEN s
        ELSE [stack |-> IF top.seen_else THEN top.stack_before_else ELSE s.stack,
              pp_stack |-> Outer(s.pp_stack)]

UpdatePreprocessor(s, line) ==
    CASE Directive(line) = "if" -> AtIf(s)
      [] Directive(line) = "else" -> AtElse(s)
      [] Directive(line) = "endif" -> AtEndif(s)
      [] OTHER -> s

\* A directive is text as well: its parentheses and braces are read.
UpdatedBy(s, line) ==
    LET t == UpdatePreprocessor(s, line)
    IN  [t EXCEPT !.stack = Parse(t.stack, line)]

Init == nesting = InitNesting

Update(line) == nesting' = UpdatedBy(nesting, line)

Next == \E line \in Lines : Update(line)

Spec == Init /\ [][Next]_nesting

-----------------------------------------------------------------------------
(* The stack that will count after the conditionals that are open: where a  *)
(* first branch is over, the one that the outermost of those has saved.     *)

Over(s) == {i \in DOMAIN s.pp_stack : s.pp_stack[i].seen_else}

Outermost(s) == CHOOSE i \in Over(s) : \A j \in Over(s) : i <= j

CountedStack(s) == IF Over(s) = {} THEN s.stack
                   ELSE s.pp_stack[Outermost(s)].stack_before_else

\* After every line the stack that will be kept is that of the first branches,
\* however conditionals are nested, repeated or left unbalanced.
Branches == INSTANCE FirstBranches WITH
    stack <- CountedStack(nesting),
    skipping <- [i \in DOMAIN nesting.pp_stack |-> nesting.pp_stack[i].seen_else]

CountsFirstBranches == Branches!Spec
=============================================================================
