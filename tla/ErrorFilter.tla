----------------------------- MODULE ErrorFilter -----------------------------
(***************************************************************************)
(* How cpplint.py decides whether a problem it has found is reported: the  *)
(* filters, the verbosity and the suppressions of the file, as operators.  *)
(*                                                                         *)
(* A category is a name with a top level and with the texts that it starts *)
(* with; a filter has a sign and a text.                                   *)
(***************************************************************************)
EXTENDS Naturals, SequencesExt

CONSTANTS
    TopLevel,       \* a function from the categories to their top levels
    Beginnings,     \* the texts that a category starts with, as far as filters have them
    Legacy          \* _LEGACY_ERROR_CATEGORIES

Categories == DOMAIN TopLevel

\* A category starts with nothing, with its top level and with itself, and may
\* start with another category, as "build/include_alpha" does.
ASSUME BeginningsAssumption ==
    \A c \in Categories : {"", TopLevel[c], c} \subseteq Beginnings[c]

DefaultFilters == <<[sign |-> "-", prefix |-> "build/include_alpha"]>>

AddFilters(filters, more) == filters \o more

WellFormed(filters) == \A i \in DOMAIN filters : filters[i].sign \in {"+", "-"}

\* category.startswith(filter[1:])
Matches(filter, category) == filter.prefix \in Beginnings[category]

\* One filter after the other overrides what those before it have said.
IsFiltered(filters, category) ==
    FoldLeft(LAMBDA filtered, f : IF Matches(f, category) THEN f.sign = "-" ELSE filtered,
             FALSE, filters)

-----------------------------------------------------------------------------
(* Suppressions: the set of the lines that a NOLINT covers, each with a     *)
(* category or "any", and the set of the categories that are off for every  *)
(* line.  The mark of a line is [kind, category] with a kind of "none",     *)
(* "line" or "next".                                                        *)

Suppressed(mark, n) ==
    IF mark.kind # "none" /\ mark.category \in Categories \cup {"any"}
    THEN {[category |-> mark.category, line |-> IF mark.kind = "next" THEN n + 1 ELSE n]}
    ELSE {}

\* ParseNolintSuppressions for some of the lines, among them lines parsed before.
ParseNolint(suppressions, lines, ns) ==
    suppressions \cup UNION {Suppressed(lines[n].mark, n) : n \in ns}

NolintProblems(lines, ns) ==
    {[category |-> "readability/nolint", confidence |-> 5, line |-> n] :
        n \in {k \in ns : /\ lines[k].mark.kind # "none"
                         /\ lines[k].mark.category \notin Categories \cup {"any"} \cup Legacy}}

\* ProcessGlobalSuppresions, with the vim and LINT_ comments a file has in it.
GlobalSuppressions(marks) ==
    (IF "c" \in marks THEN {"readability/casting"} ELSE {})
      \cup (IF "kernel" \in marks THEN {"whitespace/tab"} ELSE {})

IsSuppressed(suppressions, global, category, linenum) ==
    \/ category \in global
    \/ \E s \in suppressions : s.line = linenum /\ s.category \in {"any", category}

ShouldPrintError(suppressions, global, verbosity, filters, problem, linenum) ==
    /\ ~ IsSuppressed(suppressions, global, problem.category, linenum)
    /\ problem.confidence >= verbosity
    /\ ~ IsFiltered(filters, problem.category)
=============================================================================
