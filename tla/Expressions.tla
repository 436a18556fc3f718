----------------------------- MODULE Expressions -----------------------------
(***************************************************************************)
(* CloseExpression and ReverseCloseExpression of cpplint.py, which find    *)
(* the bracket that closes or opens an expression, over the lines between. *)
(*                                                                         *)
(* A line is a sequence of characters, in which the word "operator" counts *)
(* as one; " " is any white space and "x" all that does not matter.  A     *)
(* scan has a stack of brackets and an end: 0 while it goes on, GivenUp,   *)
(* or the position that was found.                                         *)
(***************************************************************************)
EXTENDS Integers, FiniteSets, SequencesExt

CONSTANT Files      \* the files whose expressions are looked for

VARIABLES
    lines,      \* the elided lines of the file
    origin,     \* where the first search starts: [line, pos]
    found,      \* what was found: by the first search, and by the one back from there
    forward,    \* the direction of the search that is going on
    phase,      \* "start", "scan" or "over"
    current,    \* the line that was scanned last
    scan        \* its stack and its end

searchVars == <<lines, origin, found, forward, phase, current, scan>>

GivenUp == -1
Openers == {"(", "{", "["}
Closers == {")", "}", "]"}
Pairs == {<<"(", ")">>, <<"{", "}">>, <<"[", "]">>, <<"<", ">">>}
Characters == Openers \cup Closers \cup {"<", ">", ";", "=", "-", ".", ",", " ", "operator", "x"}

ASSUME FilesAssumption == Files \subseteq Seq(Seq(Characters))

Fresh == [stack |-> <<>>, end |-> 0]

GiveUp(s) == [s EXCEPT !.end = GivenUp]
Push(s, c) == [s EXCEPT !.stack = Append(@, c)]

\* Take the top off the stack: the end of the expression if that was the last.
PopAt(s, i) ==
    [stack |-> Front(s.stack), end |-> IF Len(s.stack) = 1 THEN i ELSE s.end]

TopIs(s, c) == s.stack # <<>> /\ Last(s.stack) = c

\* A slip: only one of the angle brackets on top is taken off.
DropOneOperator(s, c) == IF TopIs(s, c) THEN [s EXCEPT !.stack = Front(@)] ELSE s

\* Angle brackets on top that cannot be what they seemed to be.
DropOperators(s, c) ==
    [s EXCEPT !.stack = SubSeq(@, 1, Max({0} \cup {i \in DOMAIN @ : @[i] # c}))]

\* "operator" followed by white space ends at position n.
EndsWithOperator(line, n) ==
    \E k \in 1..n : line[k] = "operator" /\ \A j \in (k + 1)..n : line[j] = " "

-----------------------------------------------------------------------------
(* FindEndOfExpressionInLine                                                *)

\* A second "<" in a row takes the first off again, which may have been the only one.
ShiftLeft(s) ==
    IF ~ TopIs(s, "<") THEN s
    ELSE IF Len(s.stack) = 1 THEN GiveUp(s) ELSE [s EXCEPT !.stack = Front(@)]

OpenAngle(s, line, i) ==
    CASE i > 1 /\ line[i - 1] = "<" -> ShiftLeft(s)
      [] i > 1 /\ EndsWithOperator(line, i - 1) -> s
      [] OTHER -> Push(s, "<")

\* The text is cut one character before the position, so that only an operator with
\* something between its name and the ">" is recognised.
CloseAngle(s, line, i) ==
    IF \/ i > 1 /\ (line[i - 1] = "-" \/ EndsWithOperator(line, i - 2))
       \/ ~ TopIs(s, "<")
    THEN s ELSE PopAt(s, i)

CloseBracket(s, c, i) ==
    LET t == DropOperators(s, "<")
    IN  IF t.stack # <<>> /\ <<Last(t.stack), c>> \in Pairs THEN PopAt(t, i) ELSE GiveUp(t)

EndStatement(s, c) ==
    LET t == DropOperators(s, c) IN IF t.stack = <<>> THEN GiveUp(t) ELSE t

FindEnd(line, s, i) ==
    CASE s.end = 0 /\ line[i] \in Openers -> Push(s, line[i])
      [] s.end = 0 /\ line[i] = "<" -> OpenAngle(s, line, i)
      [] s.end = 0 /\ line[i] \in Closers -> CloseBracket(s, line[i], i)
      [] s.end = 0 /\ line[i] = ">" -> CloseAngle(s, line, i)
      [] s.end = 0 /\ line[i] = ";" -> EndStatement(s, "<")
      [] OTHER -> s

FindEndOfExpressionInLine(line, startpos, s) ==
    LET after[i \in (startpos - 1)..Len(line)] ==
            IF i < startpos THEN s ELSE FindEnd(line, after[i - 1], i)
    IN  after[Len(line)]

-----------------------------------------------------------------------------
(* FindStartOfExpressionInLine                                              *)

GreaterOrEqual(line, i) ==
    /\ i > 1 /\ i + 2 <= Len(line)
    /\ SubSeq(line, i - 1, i + 2) = <<" ", ">", "=", " ">>

ArrowOrOperator(line, i) ==
    i > 1 /\ (line[i - 1] = "-" \/ GreaterOrEqual(line, i) \/ EndsWithOperator(line, i - 1))

\* A character that is part of an operator takes the one in front of it along.
TakesAlong(line, i) ==
    \/ line[i] = ">" /\ ArrowOrOperator(line, i)
    \/ line[i] = "<" /\ i > 1 /\ line[i - 1] = "<"

\* A slip: as in the other direction it is "<" that is taken off.
OpenBracketCopied(s, c, i) ==
    LET t == DropOperators(s, "<")
    IN  IF t.stack # <<>> /\ <<c, Last(t.stack)>> \in Pairs THEN PopAt(t, i) ELSE GiveUp(t)

OpenBracket(s, c, i) ==
    LET t == DropOperators(s, ">")
    IN  IF t.stack # <<>> /\ <<c, Last(t.stack)>> \in Pairs THEN PopAt(t, i) ELSE GiveUp(t)

FindStart(line, s, i) ==
    CASE line[i] \in Closers -> Push(s, line[i])
      [] line[i] = ">" -> IF TakesAlong(line, i) THEN s ELSE Push(s, ">")
      [] line[i] = "<" -> IF TakesAlong(line, i) \/ ~ TopIs(s, ">") THEN s ELSE PopAt(s, i)
      [] line[i] \in Openers -> OpenBracket(s, line[i], i)
      [] line[i] = ";" -> EndStatement(s, ">")
      [] OTHER -> s

FindStartOfExpressionInLine(line, endpos, s) ==
    LET before[i \in 1..(endpos + 1)] ==
            IF i > endpos THEN [scan |-> s, along |-> FALSE]
            ELSE IF before[i + 1].along \/ before[i + 1].scan.end # 0
            THEN [scan |-> before[i + 1].scan, along |-> FALSE]
            ELSE [scan |-> FindStart(line, before[i + 1].scan, i), along |-> TakesAlong(line, i)]
    IN  before[1].scan

-----------------------------------------------------------------------------
(* CloseExpression and ReverseCloseExpression, a line at a time             *)

Position(n, i) == [line |-> n, pos |-> i]
CharAt(p) == lines[p.line][p.pos]

Target == IF found = <<>> THEN origin ELSE found[1]

OpensAt(p) ==
    /\ CharAt(p) \in Openers \cup {"<"}
    /\ ~ /\ CharAt(p) = "<" /\ p.pos < Len(lines[p.line])
         /\ lines[p.line][p.pos + 1] \in {"<", "="}

\* What the functions expect to be pointed at.
Pointed ==
    IF forward THEN OpensAt(Target) ELSE CharAt(Target) \in Closers \cup {">"}

SearchInit ==
    /\ lines \in Files
    /\ \E n \in DOMAIN lines : \E i \in DOMAIN lines[n] :
         /\ lines[n][i] \in Openers \cup Closers \cup {"<", ">"}
         /\ origin = Position(n, i)
         /\ forward = (lines[n][i] \in Openers \cup {"<"})
    /\ found = <<>> /\ phase = "start" /\ current = origin.line /\ scan = Fresh

BeginSearch ==
    /\ phase = "start" /\ Pointed
    /\ current' = Target.line
    /\ scan' = IF forward
               THEN FindEndOfExpressionInLine(lines[current'], Target.pos, Fresh)
               ELSE FindStartOfExpressionInLine(lines[current'], Target.pos, Fresh)
    /\ phase' = "scan"
    /\ UNCHANGED <<lines, origin, found, forward>>

GoesOn == phase = "scan" /\ scan.end = 0 /\ scan.stack # <<>>

NextLine ==
    /\ GoesOn /\ forward /\ current < Len(lines)
    /\ current' = current + 1
    /\ scan' = FindEndOfExpressionInLine(lines[current'], 1, scan)
    /\ UNCHANGED <<lines, origin, found, forward, phase>>

PreviousLine ==
    /\ GoesOn /\ ~ forward /\ current > 1
    /\ current' = current - 1
    /\ scan' = FindStartOfExpressionInLine(lines[current'], Len(lines[current']), scan)
    /\ UNCHANGED <<lines, origin, found, forward, phase>>

Find ==
    /\ phase = "scan" /\ scan.end > 0
    /\ found' = Append(found, Position(current, scan.end))
    /\ phase' = IF found = <<>> THEN "start" ELSE "over"
    /\ forward' = ~ forward
    /\ scan' = Fresh
    /\ UNCHANGED <<lines, origin, current>>

NotFound ==
    /\ \/ phase = "start" /\ ~ Pointed
       \/ /\ phase = "scan" /\ scan.end <= 0
          /\ ~ (GoesOn /\ current # (IF forward THEN Len(lines) ELSE 1))
    /\ phase' = "over"
    /\ UNCHANGED <<lines, origin, found, forward, current, scan>>

SearchNext == BeginSearch \/ NextLine \/ PreviousLine \/ Find \/ NotFound

SearchSpec == SearchInit /\ [][SearchNext]_searchVars

-----------------------------------------------------------------------------
(* NestingState.InTemplateArgumentList, which calls CloseExpression as a     *)
(* whole: its result is the set of the position that was found.             *)

CloseExpression(p) ==
    LET after[n \in p.line..Len(lines)] ==
            IF n = p.line THEN FindEndOfExpressionInLine(lines[n], p.pos, Fresh)
            ELSE IF after[n - 1].end # 0 \/ after[n - 1].stack = <<>> THEN after[n - 1]
            ELSE FindEndOfExpressionInLine(lines[n], 1, after[n - 1])
        ends == {n \in DOMAIN after : after[n].end > 0}
    IN  IF OpensAt(p) /\ ends # {} THEN {Position(Min(ends), after[Min(ends)].end)} ELSE {}

ArgumentMarks == {"{", "}", ";", "=", "[", "]", ".", "<", ">"}

\* Every place, those behind a line, and the beginning of the line behind the last.
Cursors ==
    {Position(Len(lines) + 1, 1)}
      \cup UNION {{Position(n, i) : i \in 1..(Len(lines[n]) + 1)} : n \in DOMAIN lines}

MarksFrom(p) == {i \in p.pos..Len(lines[p.line]) : lines[p.line][i] \in ArgumentMarks}

\* A slip: of an argument with arguments only the bracket is passed.
BehindBracket(p, q) == Position(p.line, p.pos + 1)

BehindArguments(p, q) == Position(q.line, q.pos + 1)

\* Whether a class in front of p is a parameter of a template, going by what follows.
InTemplateArgumentList(start) ==
    LET In[p \in Cursors] ==
            IF p.line > Len(lines) THEN FALSE
            ELSE IF MarksFrom(p) = {} THEN In[Position(p.line + 1, 1)]
            ELSE LET mark == Position(p.line, Min(MarksFrom(p)))
                 IN  IF CharAt(mark) # "<" THEN CharAt(mark) \notin {"{", "}", ";"}
                     ELSE \E q \in CloseExpression(mark) : In[BehindArguments(mark, q)]
    IN  In[start]

-----------------------------------------------------------------------------
(* What the searches should find                                            *)

Places == UNION {{Position(n, i) : i \in DOMAIN lines[n]} : n \in DOMAIN lines}

Before(p, q) == p.line < q.line \/ (p.line = q.line /\ p.pos <= q.pos)

\* The places from p to q.
Between(p, q) == {r \in Places : Before(p, r) /\ Before(r, q)}

\* The same whichever of the two comes first.
Stretch(p, q) == Between(p, q) \cup Between(q, p)

Brackets(P) == {p \in P : CharAt(p) \in Openers \cup Closers}

\* Every bracket has a partner that fits, and pairs do not cross.
Pairing(P, m) ==
    /\ \A p \in P : m[p] \in P /\ m[m[p]] = p
    /\ \A p \in P : Before(p, m[p]) => <<CharAt(p), CharAt(m[p])>> \in Pairs
    /\ \A p, q \in P :
         Before(p, q) /\ Before(q, m[p]) => Before(p, m[q]) /\ Before(m[q], m[p])

Balanced(P) == \E m \in [P -> P] : Pairing(P, m)

Matches(p, q) == p # q /\ Balanced(Brackets(Stretch(p, q)))

Nearest(p, S) == {q \in S : \A r \in S : q \in Stretch(p, r)}

Beyond(p) == {q \in Places : p # q /\ Before(p, q) = (CharAt(p) \in Openers)}

\* A parenthesis, brace or square bracket is matched by the nearest one with which the
\* text between is balanced, and by none if there is none: comparisons, shifts and
\* templates in between, and semicolons, have no say in it (cpplint.py, 1524-1541,
\* 1659-1676).
BracketsMatch ==
    CharAt(origin) \in Openers \cup Closers /\ (phase = "over" \/ found # <<>>) =>
        IF found = <<>>
        THEN \A q \in Beyond(origin) : ~ Matches(origin, q)
        ELSE found[1] \in Nearest(origin, {q \in Beyond(origin) : Matches(origin, q)})

\* Nothing in the file makes an angle bracket part of an operator of two characters.
NoOperators ==
    \A n \in DOMAIN lines : \A i \in DOMAIN lines[n] :
        /\ lines[n][i] \notin {"-", "=", "operator"}
        /\ i > 1 => ~ (lines[n][i] = "<" /\ lines[n][i - 1] = "<")

\* "This is almost the reverse" (cpplint.py:1617): what one search has found leads the
\* other one back to where the first began, unless an operator such as <= or ->, which
\* the two read in ways of their own, is taken for an angle bracket.
RoundTrip ==
    phase = "over" /\ found # <<>> =>
        \/ Len(found) = 2 /\ found[2] = origin
        \/ CharAt(origin) \in {"<", ">"} /\ ~ NoOperators

Unmatched(P) ==
    Cardinality({p \in P : CharAt(p) = ">"}) > Cardinality({p \in P : CharAt(p) = "<"})

\* "We scan forward and look for an unmatched '>'" (cpplint.py:2570-2572): a class is
\* taken for a parameter of a template exactly if an unmatched ">" follows before the
\* statement ends, where all angle brackets are those of templates.
TemplateParametersAreSeen ==
    /\ phase = "start" /\ found = <<>> /\ NoOperators
    /\ \A q \in Places : CharAt(q) \notin Openers \cup Closers
    => \A p \in Places :
         InTemplateArgumentList(p) <=>
             \E q \in Places : /\ Before(p, q) /\ Unmatched(Between(p, q))
                              /\ \A r \in Between(p, q) : CharAt(r) # ";"
=============================================================================
