------------------------------ MODULE LintFile ------------------------------
(***************************************************************************)
(* ProcessFileData of cpplint.py: the lines of a file pass through the     *)
(* trackers one after the other.  A line inside of a block of assembly is  *)
(* seen by the nesting stack only.                                         *)
(*                                                                         *)
(* A line is a record of what the checks look for:                         *)
(*   directive  "if", "else", "endif" or "none"                            *)
(*   text       the tokens of Blocks                                       *)
(*   indented   whether it begins with a space                             *)
(*   include    the set of the header it includes, empty if there is none  *)
(*   needs      the headers whose templates it uses                        *)
(*   role       what it is to a function, see FunctionState                *)
(***************************************************************************)
EXTENDS Blocks, IncludeState, FunctionState

CONSTANTS
    Alphabets,       \* the lines a file may consist of: a set of sets
    MaxLines,        \* bound: the length of a file
    IsCc,            \* whether the file is a .cc file whose header exists
    OwnHeader,       \* the name of that header
    OwnIncludes,     \* what it includes
    HeaderNames

\* A line includes one header at most, and is no other directive then.
ASSUME LinesAssumption ==
    \A line \in UNION Alphabets :
        /\ line.text \in Seq(Tokens)
        /\ line.include # {} =>
             line.directive = "none" /\ \E h \in line.include : line.include = {h}

VARIABLES
    alphabet,    \* the lines this file consists of
    linenum,     \* how many of them were read
    nesting,     \* a NestingState
    includes,    \* an _IncludeState
    functions,   \* a _FunctionState
    required,    \* the last line that needs each header
    after_include,   \* whether the line before was an #include
    errors,      \* what the checks of the latest line reported
    pc           \* "lines" or "done"

vars == <<alphabet, linenum, nesting, includes, functions, required, after_include, errors, pc>>

DirectiveOf(line) == line.directive

Nesting == INSTANCE NestingState WITH
    Lines <- UNION Alphabets, Directive <- DirectiveOf, Parse <- ParseLine

-----------------------------------------------------------------------------
(* Indentation within a namespace.  The block on top before this line is    *)
(* recognised as an object, so a block that merely looks like it is another.*)

IsForwardDeclaration(line) == line.text = <<"class", ";">>

Indentable(block) == block.kind \in {"namespace", "class"}

\* A class or a namespace was put on a stack with a namespace on top.
IsNamespaceIndentItem(before, after) ==
    /\ before # <<>> /\ Top(before).kind = "namespace"
    /\ Len(after) = Len(before) + 1
    /\ Indentable(Top(after))

IsBlockInNameSpace(stack, isForward) ==
    IF isForward THEN stack # <<>> /\ Top(stack).kind = "namespace"
    ELSE Len(stack) > 1 /\ Indentable(Top(stack)) /\ Top(Pop(stack)).kind = "namespace"

IndentationErrors(before, after, line) ==
    IF /\ IsForwardDeclaration(line) \/ IsNamespaceIndentItem(before, after)
       /\ IsBlockInNameSpace(after, IsForwardDeclaration(line))
       /\ line.indented
    THEN {"runtime/indentation_namespace"} ELSE {}

-----------------------------------------------------------------------------
Init ==
    /\ alphabet \in Alphabets
    /\ linenum = 0
    /\ nesting = Nesting!InitNesting
    /\ includes = InitIncludes
    /\ functions = InitFunctions
    /\ required = [h \in HeaderNames |-> 0]
    /\ after_include = FALSE
    /\ errors = {}
    /\ pc = "lines"

At(n, categories) == {[line |-> n, category |-> c] : c \in categories}

\* CheckForIncludeWhatYouUse looks at every line, assembly or not.
NoteUses(line) ==
    required' = [h \in HeaderNames |-> IF h \in line.needs THEN linenum + 1 ELSE required[h]]

\* What CheckLanguage does: an #include, or a directive that starts over.
\* The list of includes is kept, and so are the duplicates it finds.
ReadInclude(line) ==
    /\ line.include # {}
    /\ \E h \in line.include : includes' = AfterInclude(includes, h, linenum + 1)

ReadDirective(line) ==
    /\ line.include = {}
    /\ includes' = IF line.directive = "none" THEN includes
                   ELSE ResetSection(includes, line.directive)

LanguageErrors(line) == UNION {IncludeErrors(includes, h, after_include) : h \in line.include}

\* ProcessLine for a line of assembly stops after the nesting stack.
ReadAssembly(line) ==
    /\ InAsmBlock(nesting'.stack)
    /\ errors' = At(linenum + 1, IndentationErrors(nesting.stack, nesting'.stack, line))
    /\ UNCHANGED <<includes, functions>>

ReadCode(line) ==
    /\ ~ InAsmBlock(nesting'.stack)
    /\ ReadInclude(line) \/ ReadDirective(line)
    /\ functions' = AfterFunctionLine(functions, line.role)
    /\ errors' = At(linenum + 1,
                    IndentationErrors(nesting.stack, nesting'.stack, line)
                      \cup {e.category : e \in FunctionErrors(functions, line.role)}
                      \cup LanguageErrors(line))

ReadLine(line) ==
    /\ pc = "lines" /\ linenum < MaxLines
    /\ linenum' = linenum + 1
    /\ nesting' = Nesting!UpdatedBy(nesting, line)
    /\ ReadAssembly(line) \/ ReadCode(line)
    /\ NoteUses(line)
    /\ after_include' = (line.include # {})
    /\ UNCHANGED <<alphabet, pc>>

\* CheckCompletedBlocks and the checks of the includes of the whole file.
EndOfFile ==
    /\ pc = "lines"
    /\ pc' = "done"
    /\ errors' = At(linenum, CompletedBlockErrors(nesting.stack))
                   \cup MissingIncludes(includes, required, IsCc, OwnHeader, OwnIncludes)
                   \cup (IF IsCc THEN HeaderFileErrors(includes, OwnHeader) ELSE {})
    /\ UNCHANGED <<alphabet, linenum, nesting, includes, functions, required, after_include>>

Next == (\E line \in alphabet : ReadLine(line)) \/ EndOfFile

Spec == Init /\ [][Next]_vars

-----------------------------------------------------------------------------
(* Properties of the nesting stack                                          *)

\* In the file as it is read, assembly and all, the stack that counts after the
\* open conditionals is that of the first branches (cpplint.py, 2439-2462).
CountsFirstBranches == Nesting!CountsFirstBranches
=============================================================================
