-------------------------- MODULE LintFileHistory ---------------------------
(***************************************************************************)
(* LintFile with a history of the file as a reader sees it: which braces   *)
(* are open, which branch of which conditional a line is in, and which     *)
(* headers were included where.  The properties compare what cpplint keeps *)
(* with that history.                                                      *)
(***************************************************************************)
EXTENDS LintFile

VARIABLES
    depth,      \* open braces of the lines that count, -1 once that has no answer
    heading,    \* whether a namespace or class still waits for its brace
    path,       \* for each open conditional: the line of its #if and that of the
                \* directive the current branch began with
    nested,     \* whether a conditional was inside of another
    seen,       \* the headers included so far, with the path to each
    stretch     \* the sections of the headers since the latest directive

history == <<depth, heading, path, nested, seen, stretch>>
allVars == <<vars, history>>

-----------------------------------------------------------------------------
(* Conditionals                                                             *)

NextPath(line) ==
    CASE line.directive = "if" -> Append(path, [opened |-> linenum + 1, branch |-> linenum + 1])
      [] line.directive = "else" /\ path # <<>> ->
           Append(Front(path), [Last(path) EXCEPT !.branch = linenum + 1])
      [] line.directive = "endif" /\ path # <<>> -> Front(path)
      [] OTHER -> path

-----------------------------------------------------------------------------
(* Braces of the first branches.  There is no answer for a text that closes *)
(* a block or begins another head while a head waits for its brace, or that *)
(* closes a block without one being open.                                   *)

BraceAt(s, token) ==
    IF s.depth < 0 THEN s
    ELSE CASE token \in OpeningBraces -> [depth |-> s.depth + 1, heading |-> FALSE]
           [] token = "}" -> IF s.heading \/ s.depth = 0 THEN [s EXCEPT !.depth = -1]
                             ELSE [s EXCEPT !.depth = @ - 1]
           [] token \in {"namespace", "class"} ->
                IF s.heading THEN [s EXCEPT !.depth = -1] ELSE [s EXCEPT !.heading = TRUE]
           [] token \in {";", ")"} -> [s EXCEPT !.heading = FALSE]
           [] OTHER -> s

ReadBraces(line) ==
    \E s \in {FoldLeft(BraceAt, [depth |-> depth, heading |-> heading], line.text)} :
        IF \A i \in DOMAIN path' : path'[i].opened = path'[i].branch
        THEN depth' = s.depth /\ heading' = s.heading
        ELSE UNCHANGED <<depth, heading>>

-----------------------------------------------------------------------------
(* Includes                                                                 *)

\* Two lines are never compiled together if they are in two branches of one #if.
Exclusive(p, q) ==
    \E i \in DOMAIN p, j \in DOMAIN q : p[i].opened = q[j].opened /\ p[i].branch # q[j].branch

NoteIncludes(line) ==
    seen' = seen \cup {[name |-> h.name, path |-> path] : h \in line.include}

\* A header of the file's own has a section of its own only in front of all others.
Rank(h) ==
    CASE ClassifyInclude(h) = "c_sys" -> 2
      [] ClassifyInclude(h) = "cpp_sys" -> 3
      [] ClassifyInclude(h) = "other" -> 4
      [] OTHER -> IF stretch \subseteq {1} THEN 1 ELSE 4

System(h) == ClassifyInclude(h) \in {"c_sys", "cpp_sys"}

\* A system header behind a header of a later section.
Misplaced(h) == System(h) /\ \E r \in stretch : r > Rank(h)

NoteStretch(line) ==
    stretch' = IF line.directive # "none" THEN {}
               ELSE stretch \cup
                      {Rank(h) : h \in {g \in line.include :
                                          /\ ~ FindHeader(includes, g.name)
                                          /\ g.relation \notin {"cc", "third_party"}
                                          /\ ~ Misplaced(g)}}

-----------------------------------------------------------------------------
HistoryInit ==
    /\ Init
    /\ depth = 0 /\ heading = FALSE
    /\ path = <<>> /\ nested = FALSE
    /\ seen = {} /\ stretch = {}

Observe(line) ==
    /\ path' = NextPath(line)
    /\ nested' = (nested \/ Len(path') > 1)
    /\ ReadBraces(line)
    /\ NoteIncludes(line)
    /\ NoteStretch(line)

HistoryNext ==
    \/ \E line \in alphabet : ReadLine(line) /\ Observe(line)
    \/ EndOfFile /\ UNCHANGED history

HistorySpec == HistoryInit /\ [][HistoryNext]_allVars

-----------------------------------------------------------------------------
(* What is asked of a file                                                  *)

\* No block is closed between a namespace and the next brace that opens one.  (In
\* "namespace a = b; } namespace c {" the brace would be taken for the one of a.)
NamespacesAreHeads ==
    \A line \in UNION Alphabets : \A i, j \in DOMAIN line.text :
        /\ i < j /\ line.text[i] = "namespace" /\ line.text[j] = "}"
        => \E k \in DOMAIN line.text : i < k /\ k < j /\ line.text[k] \in OpeningBraces

\* Assembly, which the checks of the includes do not look at, has neither directives
\* nor includes.
PlainAssembly ==
    \A line \in alphabet :
        ReadLine(line) /\ InAsmBlock(nesting'.stack) => line.directive = "none" /\ line.include = {}

-----------------------------------------------------------------------------
(* Properties                                                               *)

Opened(stack) == {i \in DOMAIN stack : stack[i].seen_open_brace}

Reported(category) == [line |-> linenum, category |-> category] \in errors

IncludeLinesOf(lines) == {line \in lines : line.include # {}}

\* The stack that will count holds one block for every open brace, whatever
\* declarations, arguments and conditionals come between the braces.
StackMatchesBraces ==
    depth >= 0 => Cardinality(Opened(Nesting!CountedStack(nesting))) = depth

\* A header is reported as included twice only if the two are compiled together:
\* the checks start over at every directive "to silence warnings for conditional
\* includes" (cpplint.py:4637).  With nested conditionals this is false: nothing is
\* popped at an #endif, so that the #else behind an inner conditional forgets the
\* headers of that one and not those of its own first branch.
NoFalseDuplicates ==
    [][~ nested /\ Reported("build/include")' =>
        \A line \in IncludeLinesOf(alphabet) : ReadLine(line) =>
            \A h \in line.include :
                \/ h.relation = "cc"
                \/ \E s \in seen : s.name = h.name /\ ~ Exclusive(s.path, path)]_allVars

\* A header is reported as out of order exactly if, since the latest directive, a
\* header of a later section came before it, unless it is one that is left alone.
OrderIsJudged ==
    [][after_include' =>
        \A line \in IncludeLinesOf(alphabet) : ReadLine(line) =>
            \A h \in line.include :
                Reported("build/include_order")' <=>
                    /\ Misplaced(h)
                    /\ h.relation \notin {"cc", "third_party"}
                    /\ ~ FindHeader(includes, h.name)]_allVars
=============================================================================
