----------------------------- MODULE MCLintFile -----------------------------
(***************************************************************************)
(* Files for LintFileReports.  A file is written in one of three           *)
(* alphabets, so that each kind of tracking meets the lines that matter to *)
(* it and the conditionals that all of them share.                         *)
(***************************************************************************)
EXTENDS LintFileReports

Plain == [directive |-> "none", text |-> <<>>, indented |-> FALSE,
          include |-> {}, needs |-> {}, role |-> "line"]

Text(tokens) == [Plain EXCEPT !.text = tokens]
Indented(tokens) == [Plain EXCEPT !.text = tokens, !.indented = TRUE]
Role(role, tokens) == [Plain EXCEPT !.text = tokens, !.role = role]
Include(h) == [Plain EXCEPT !.include = {h}]
Needs(name) == [Plain EXCEPT !.needs = {name}]

Conditionals == {[Plain EXCEPT !.directive = d] : d \in {"if", "else", "endif"}}

BlockLines ==
    Conditionals \cup
    {Text(t) : t \in {<<"namespace", "{">>, <<"namespace">>, <<"class", ";">>, <<"class", "{">>,
                      <<"class">>, <<"{">>, <<"}">>, <<"extern {">>}} \cup
    {Indented(t) : t \in {<<"class", "{", "public:">>, <<"class", ";">>, <<"namespace", "{", "}">>}}

\* A brace behind the parenthesis of an asm belongs to that as well.
FunctionLines ==
    Conditionals \cup
    {Role("begins", <<"(", ")", "{">>), Role("begins", <<"(">>), Role("ends", <<"}">>),
     Role("line", <<"class", ")", "{">>), Role("begins_test", <<"(", ")", "{">>),
     Role("declares", <<"(", ")", ";">>), Role("blank", <<>>),
     Role("line", <<"asm (">>), Role("line", <<")", ";">>), Role("line", <<"asm {">>),
     Role("line", <<"asm (", "asm {">>), Role("unclear", <<"(">>)}

Header(name, sys, cpp, relation, rank) ==
    [name |-> name, system |-> sys, cpp |-> cpp, relation |-> relation, rank |-> rank]

IncludeLines ==
    Conditionals \cup {Needs("vector"), Needs("string")} \cup
    {Include(Header("stdio", TRUE, FALSE, "other", 3)),
     Include(Header("vector", TRUE, TRUE, "other", 5)),
     Include(Header("own", FALSE, FALSE, "own", 2)),
     Include(Header("base", FALSE, FALSE, "other", 1)),
     Include(Header("lua", FALSE, FALSE, "third_party", 1)),
     Include(Header("Lib", TRUE, FALSE, "third_party", 4)),
     Include(Header("part", FALSE, FALSE, "cc", 1))}

MCAlphabets == {BlockLines, FunctionLines, IncludeLines}

\* These lines are such as the theorem about the braces assumes.
ASSUME HeadsAssumption == NamespacesAreHeads
=============================================================================
