------------------------------ MODULE MCLintRun ------------------------------
(***************************************************************************)
(* Two files, one in a directory and one in the directory above, with all  *)
(* ways to configure the two.  The files have a problem of every kind that *)
(* is judged in a way of its own.                                          *)
(***************************************************************************)
EXTENDS LintRunReference

MCTopLevel ==
    [c \in {"build/include", "build/include_alpha"} |-> "build"] @@
    [c \in {"readability/casting", "readability/nolint", "readability/multiline_comment",
            "readability/braces"} |-> "readability"] @@
    [c \in {"whitespace/tab", "whitespace/newline", "whitespace/line_length",
            "whitespace/empty_if_body"} |-> "whitespace"]

MCBeginnings ==
    [c \in DOMAIN MCTopLevel |->
        {"", MCTopLevel[c], c} \cup (IF c = "build/include_alpha" THEN {"build/include"} ELSE {})]

Minus(p) == [sign |-> "-", prefix |-> p]
Plus(p) == [sign |-> "+", prefix |-> p]
Option(name, val) == [name |-> name, val |-> val]

OptionLists ==
    {<<Option("set noparent", {})>>,
     <<Option("filter", <<Minus("whitespace")>>)>>,
     <<Option("filter", <<Plus("whitespace/tab"), Plus("build/include")>>),
       Option("filter", <<Minus("whitespace/tab")>>)>>,
     <<Option("linelength", 100), Option("exclude_files", {"sub", "late.cc"})>>,
     <<Option("linelength", 60), Option("filter", <<Plus("")>>), Option("set noparent", {})>>,
     <<Option("headers", {"h", "hh"})>>,
     <<Option("filter", <<[sign |-> "none", prefix |-> "whitespace"]>>)>>}

Configurations ==
    {[state |-> "none", options |-> <<>>], [state |-> "unreadable", options |-> <<>>]} \cup
    {[state |-> "read", options |-> options] : options \in OptionLists}

MCLayouts == [{"/top/sub", "/top"} -> Configurations]

MCPath == [deep |-> <<[dir |-> "/top/sub", name |-> "deep.h"], [dir |-> "/top", name |-> "sub"]>>,
           late |-> <<[dir |-> "/top", name |-> "late.cc"]>>,
           body |-> <<[dir |-> "/top", name |-> "body.cc"]>>,
           odd |-> <<[dir |-> "/top", name |-> "odd.hh"]>>,
           lost |-> <<[dir |-> "/top", name |-> "lost.cc"]>>]

Problem(c, k, n) == [category |-> c, confidence |-> k, line |-> n]
NoMark == [kind |-> "none", category |-> "any"]
Mark(kind, c) == [kind |-> kind, category |-> c]
Line(mark, problems) ==
    [mark |-> mark, problems |-> problems, header_problems |-> {}, bodies |-> {},
     closing |-> 0, width |-> 40, crlf |-> FALSE]

\* In the text of body.cc a condition that begins in line 1 ends in line 5, which has a
\* NOLINT that is read too late.  Of another one, in line 4, it is read in time, for the
\* sake of a block that ends there as well.
MCTexts ==
    [deep |-> [readable |-> TRUE, extension |-> "h", marks |-> {"kernel"}, late |-> {},
               early |-> {Problem("readability/multiline_comment", 5, 1)},
               lines |-> <<Line(Mark("line", "any"), {Problem("build/include_alpha", 4, 1)}),
                           [Line(Mark("next", "whitespace/line_length"),
                                 {Problem("whitespace/tab", 1, 2), Problem("build/include", 4, 2)})
                               EXCEPT !.width = 90],
                           [Line(NoMark, {Problem("build/include_alpha", 4, 2)})
                               EXCEPT !.width = 90,
                                      !.header_problems = {Problem("readability/casting", 4, 3)}]>>],
     late |-> [readable |-> TRUE, extension |-> "cc", marks |-> {"c"}, early |-> {},
               late |-> {Problem("build/include_alpha", 5, 1)},
               lines |-> <<[Line(Mark("line", "unknown"), {Problem("whitespace/tab", 1, 1)})
                               EXCEPT !.crlf = TRUE],
                           [Line(NoMark, {Problem("readability/casting", 4, 2)}) EXCEPT !.width = 70],
                           [Line(Mark("line", "old"), {}) EXCEPT !.width = 90]>>],
     body |-> [readable |-> TRUE, extension |-> "cc", marks |-> {}, early |-> {}, late |-> {},
               lines |-> <<[Line(NoMark, {})
                               EXCEPT !.bodies = {Problem("whitespace/empty_if_body", 4, 5)}],
                           [Line(NoMark, {}) EXCEPT !.closing = 4],
                           Line(Mark("next", "readability/braces"), {}),
                           [Line(Mark("line", "unknown"), {}) EXCEPT !.closing = 5,
                               !.bodies = {Problem("whitespace/empty_if_body", 4, 5)}],
                           Line(Mark("line", "any"), {Problem("whitespace/tab", 1, 5)})>>],
     odd |-> [readable |-> TRUE, extension |-> "hh", marks |-> {}, early |-> {}, late |-> {},
              lines |-> <<[Line(NoMark, {}) EXCEPT
                              !.header_problems = {Problem("readability/casting", 4, 1)}]>>],
     lost |-> [readable |-> FALSE, extension |-> "cc", marks |-> {}, early |-> {}, late |-> {},
               lines |-> <<>>]]

FileLists ==
    {<<>>, <<"deep", "late">>, <<"late", "deep">>, <<"deep", "odd">>, <<"lost", "body">>}

MCCommandLines ==
    {[files |-> fs, filters |-> f, verbosity |-> v, counting |-> c, line_length |-> 80] :
        fs \in FileLists,
        f \in {<<>>, <<Minus(""), Plus("whitespace")>>, <<[sign |-> "none", prefix |-> "build"]>>},
        v \in {1, 3}, c \in {"total", "toplevel", "detailed"}}
=============================================================================
