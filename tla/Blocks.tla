------------------------------- MODULE Blocks -------------------------------
(***************************************************************************)
(* How NestingState.Update of cpplint.py reads the text of one line: the   *)
(* stack of open blocks that it leads to.                                  *)
(*                                                                         *)
(* A line is a record with its text, the sequence of the tokens that       *)
(* Update looks for; a brace is one token together with the extern "C" or  *)
(* the asm in front of it.  An asm counts as in front of a brace if only   *)
(* parentheses that it opens are in between, so that "asm ( {" is the text *)
(* <<"asm (", "asm {">>.  That a class is a parameter of a template,       *)
(* which InTemplateArgumentList finds out by looking ahead, is part of the *)
(* token (see Expressions).  The line a block starts in, which only        *)
(* messages show, is left out.                                             *)
(***************************************************************************)
EXTENDS Integers, SequencesExt

OpeningBraces == {"{", "extern {", "asm {"}
Tokens == OpeningBraces \cup
            {"}", ";", "(", ")", "asm (", "namespace", "class", "template class", "public:"}

\* _BlockInfo and its subclasses.
Block(kind, seen) ==
    [kind |-> kind, seen_open_brace |-> seen,
     open_parentheses |-> 0, inline_asm |-> "no", access |-> "private"]

Top(stack) == Last(stack)
Pop(stack) == Front(stack)
ReplaceTop(stack, block) == Append(Front(stack), block)

SeenOpenBrace(stack) == stack = <<>> \/ Top(stack).seen_open_brace
InAsmBlock(stack) == stack # <<>> /\ Top(stack).inline_asm # "no"
InClass(stack) == stack # <<>> /\ Top(stack).kind = "class"

-----------------------------------------------------------------------------
(* Parentheses and inline assembly                                          *)

HowMany(S, text) == Cardinality({i \in DOMAIN text : text[i] \in S})

DepthChange(text) == HowMany({"(", "asm ("}, text) - HowMany({")"}, text)

StartsAsm(text) == text # <<>> /\ text[1] \in {"asm (", "asm {"}

NextAsm(block, change, text) ==
    IF block.inline_asm \in {"no", "end"}
    THEN IF change # 0 /\ block.open_parentheses = 1 /\ StartsAsm(text) THEN "inside" ELSE "no"
    ELSE IF block.inline_asm = "inside" /\ block.open_parentheses = 0 THEN "end"
    ELSE block.inline_asm

CountParentheses(stack, text) ==
    LET change == DepthChange(text)
        counted == [Top(stack) EXCEPT !.open_parentheses = @ + change]
    IN  IF stack = <<>> THEN stack
        ELSE ReplaceTop(stack, [counted EXCEPT !.inline_asm = NextAsm(counted, change, text)])

-----------------------------------------------------------------------------
(* Declarations at the beginning of a line: [stack, rest of the text]       *)

\* The first brace behind a namespace is taken for its own, whatever is in between.
OpenNamespace(s) ==
    LET braces == {i \in DOMAIN s.rest : s.rest[i] \in OpeningBraces}
    IN  IF s.rest = <<>> \/ s.rest[1] # "namespace" THEN s
        ELSE IF braces = {}
        THEN [stack |-> Append(s.stack, Block("namespace", FALSE)), rest |-> Tail(s.rest)]
        ELSE [stack |-> Append(s.stack, Block("namespace", TRUE)),
              rest |-> SubSeq(s.rest, Min(braces) + 1, Len(s.rest))]

\* Until the line begins with something else; each pass takes a token at least.
OpenNamespaces(stack, text) ==
    FoldLeft(LAMBDA s, token : OpenNamespace(s), [stack |-> stack, rest |-> text], text)

\* A class inside parentheses is the type of an argument.
OpenClass(stack, text) ==
    IF /\ text # <<>> /\ text[1] = "class"
       /\ stack = <<>> \/ Top(stack).open_parentheses = 0
    THEN [stack |-> Append(stack, Block("class", FALSE)), rest |-> Tail(text)]
    ELSE [stack |-> stack, rest |-> text]

SetAccess(stack, text) ==
    IF InClass(stack) /\ Contains(text, "public:")
    THEN ReplaceTop(stack, [Top(stack) EXCEPT !.access = "public"])
    ELSE stack

-----------------------------------------------------------------------------
(* Braces, semicolons and closing parentheses, from left to right           *)

OpenBrace(stack, token) ==
    IF ~ SeenOpenBrace(stack)
    THEN ReplaceTop(stack, [Top(stack) EXCEPT !.seen_open_brace = TRUE])
    ELSE CASE token = "extern {" -> Append(stack, Block("extern", TRUE))
           [] token = "asm {" ->
                Append(stack, [Block("block", TRUE) EXCEPT !.inline_asm = "block"])
           [] OTHER -> Append(stack, Block("block", TRUE))

\* A slip: a forward declaration leaves its block on the stack.
KeepDeclaration(stack) == stack

\* A declaration without a brace has ended: a forward declaration, or an argument.
DropDeclaration(stack) == IF SeenOpenBrace(stack) THEN stack ELSE Pop(stack)

Consume(stack, token) ==
    CASE token \in OpeningBraces -> OpenBrace(stack, token)
      [] token \in {";", ")"} -> DropDeclaration(stack)
      [] token = "}" -> IF stack = <<>> THEN stack ELSE Pop(stack)
      [] OTHER -> stack

\* Update, after the preprocessor has been looked at.
ParseLine(stack, line) ==
    LET opened == OpenNamespaces(CountParentheses(stack, line.text), line.text)
        headed == OpenClass(opened.stack, opened.rest)
    IN  FoldLeft(Consume, SetAccess(headed.stack, headed.rest), headed.rest)

\* CheckCompletedBlocks: what is still open at the end of the file.
CompletedBlockErrors(stack) ==
    {IF stack[i].kind = "class" THEN "build/class" ELSE "build/namespaces" :
        i \in {j \in DOMAIN stack : stack[j].kind \in {"class", "namespace"}}}
=============================================================================
