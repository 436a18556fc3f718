-------------------------- MODULE LintFileReports ---------------------------
(***************************************************************************)
(* What cpplint.py reports of a whole file and of its functions and        *)
(* namespaces, compared with what a reader sees: LintFileHistory with the  *)
(* kinds of the blocks that are open and the function that is being read.  *)
(***************************************************************************)
EXTENDS LintFileHistory

VARIABLES
    kinds,      \* what the open braces of the lines that count belong to
    head,       \* the head that waits for its brace, or "none"
    body,       \* the lines of code of the function being read, by their roles
    stray       \* whether an #else or #endif had no #if

reports == <<kinds, head, body, stray>>
reportVars == <<allVars, reports>>

-----------------------------------------------------------------------------
(* Blocks                                                                   *)

KindAt(s, token) ==
    CASE token \in OpeningBraces ->
           [kinds |-> Append(s.kinds, IF s.head = "none" THEN "block" ELSE s.head), head |-> "none"]
      [] token = "}" -> [s EXCEPT !.kinds = IF @ = <<>> THEN @ ELSE Front(@)]
      [] token \in {"namespace", "class"} -> [s EXCEPT !.head = token]
      [] token \in {";", ")"} -> [s EXCEPT !.head = "none"]
      [] OTHER -> s

Counts(p) == \A i \in DOMAIN p : p[i].opened = p[i].branch

ReadKinds(line) ==
    \E s \in {FoldLeft(KindAt, [kinds |-> kinds, head |-> head], line.text)} :
        IF Counts(path') THEN kinds' = s.kinds /\ head' = s.head ELSE UNCHANGED <<kinds, head>>

InNamespace == kinds # <<>> /\ Last(kinds) = "namespace"

\* The line begins a namespace or a class and does not end it.
Begins ==
    \/ head' # "none" /\ kinds' = kinds
    \/ head' = "none" /\ \E k \in {"namespace", "class"} : kinds' = Append(kinds, k)

-----------------------------------------------------------------------------
(* Functions: from the line with the head to the first unindented brace.    *)

ReadBody(line) ==
    body' = CASE InAsmBlock(nesting'.stack) -> body
              [] line.role \in {"begins", "begins_test"} -> <<line.role>>
              [] line.role = "ends" -> <<>>
              [] OTHER -> IF body = <<>> THEN body ELSE Append(body, line.role)

LinesCounted == Cardinality({i \in DOMAIN body : body[i] = "line"})

Limit == (IF body[1] = "begins_test" THEN TestTrigger ELSE NormalTrigger) * 2^VerboseLevel

-----------------------------------------------------------------------------
ReportsInit == HistoryInit /\ kinds = <<>> /\ head = "none" /\ body = <<>> /\ stray = FALSE

ReadAndWatch(line) ==
    /\ ReadLine(line) /\ Observe(line)
    /\ ReadKinds(line) /\ ReadBody(line)
    /\ stray' = (stray \/ (line.directive \in {"else", "endif"} /\ path = <<>>))

ReportsNext ==
    \/ \E line \in alphabet : ReadAndWatch(line)
    \/ EndOfFile /\ UNCHANGED <<history, reports>>

ReportsSpec == ReportsInit /\ [][ReportsNext]_reportVars

-----------------------------------------------------------------------------
(* Properties                                                               *)

\* A namespace or a class is reported as incomplete if and only if it is still open
\* when the file ends, in the first branches of its conditionals (cpplint.py,
\* 2662-2681): forward declarations, arguments and other branches leave nothing behind.
UnclosedBlocksAreReported ==
    pc = "done" /\ depth >= 0 /\ path = <<>> =>
        \A report \in {[kind |-> "class", category |-> "build/class"],
                       [kind |-> "namespace", category |-> "build/namespaces"]} :
            Reported(report.category) <=> report.kind \in Range(kinds) \cup {head}


\* At an unindented brace a function is reported as too long exactly if one is being
\* read and has more lines of code, without those that are blank and the assembly,
\* than its kind may have (cpplint.py, 1006-1062, 2949-3014).
LengthIsJudged ==
    [][\A line \in {l \in alphabet : l.role = "ends"} :
        ReadAndWatch(line) /\ ~ InAsmBlock(nesting'.stack) =>
            (Reported("readability/fn_size")' <=> body # <<>> /\ LinesCounted > Limit)]_reportVars

\* A header that is needed is never reported as missing if it is included outside of
\* all conditionals or by the header of the file, and always if it is not included at
\* all; a .cc file is only judged for sure if it includes its header outside of all
\* conditionals (cpplint.py, 5422-5519).
MissingIsJudged ==
    LET always(name) == \E s \in seen : s.name = name /\ s.path = <<>>
        never(name) == \A s \in seen : s.name # name
        missing(h) == [line |-> required[h], category |-> "build/include_what_you_use"] \in errors
    IN  pc = "done" /\ ~ stray =>
            \A h \in {g \in HeaderNames : required[g] # 0} :
                /\ always(h) => ~ missing(h)
                /\ IsCc /\ h \in OwnIncludes => ~ missing(h)
                /\ never(h) /\ h \notin OwnIncludes /\ (IsCc => always(OwnHeader)) => missing(h)
=============================================================================
