-------------------------- MODULE LintRunReference --------------------------
(***************************************************************************)
(* What cpplint.py promises of a run, said without the state of the run:   *)
(* how a problem in a file is judged depends on the command line, on the   *)
(* configurations around the file and on its own text, and on nothing the  *)
(* files before it have left.                                              *)
(***************************************************************************)
EXTENDS LintRun

-----------------------------------------------------------------------------
(* The filters that apply to a file, each with its place: the level of the  *)
(* directory, the line of the configuration, the position in the line.  The *)
(* command line stands behind all directories, the defaults behind that.    *)

ConfigAt(f, l) == configs[Path[f][l].dir]

Stops(f, l) ==
    \/ ConfigAt(f, l).state = "unreadable"
    \/ \E i \in DOMAIN ConfigAt(f, l).options : ConfigAt(f, l).options[i].name = "set noparent"

Reached(f) == {l \in DOMAIN Path[f] : \A k \in 1..(l - 1) : ~ Stops(f, k)}

OptionsOf(f, name) ==
    UNION {{[level |-> l, line |-> i, val |-> ConfigAt(f, l).options[i].val] :
              i \in {j \in DOMAIN ConfigAt(f, l).options :
                       ConfigAt(f, l).options[j].name = name}} : l \in Reached(f)}

FilterOptions(f) ==
    OptionsOf(f, "filter")
      \cup {[level |-> Len(Path[f]) + 1, line |-> 1, val |-> flags.filters],
            [level |-> Len(Path[f]) + 2, line |-> 1, val |-> DefaultFilters]}

FiltersFor(f, category) ==
    UNION {{[level |-> o.level, line |-> o.line, position |-> i, sign |-> o.val[i].sign] :
              i \in {j \in DOMAIN o.val : Matches(o.val[j], category)}} : o \in FilterOptions(f)}

\* The nearer directory wins; in it the line further up, in the line the last filter.
Stronger(a, b) ==
    \/ a.level < b.level
    \/ a.level = b.level /\ a.line < b.line
    \/ a.level = b.level /\ a.line = b.line /\ a.position > b.position

SwitchedOff(f, category) ==
    \E a \in FiltersFor(f, category) :
        a.sign = "-" /\ \A b \in FiltersFor(f, category) : b = a \/ Stronger(a, b)

-----------------------------------------------------------------------------
(* NOLINT                                                                   *)

\* The mark of line n is for the problem.
Covers(f, n, problem) ==
    LET mark == Texts[f].lines[n].mark
    IN  /\ mark.category \in {"any", problem.category}
        /\ \/ mark.kind = "line" /\ n = problem.line
           \/ mark.kind = "next" /\ n = problem.line - 1

MarkedOff(f, problem, ns) == \E n \in ns : Covers(f, n, problem)

\* The lines whose marks were read when line n had been processed.
MarksRead(f, n) == 1..n \cup UNION {Ahead(Texts[f].lines[k]) : k \in 1..n}

\* All marks of a file count, but not for what is found before its lines are read or
\* further down than they are: for that only those count which have been read.
MarksFor(f, problem, n) ==
    IF problem.by \in {"cleansing", "ahead", "body"} THEN MarksRead(f, n)
    ELSE DOMAIN Texts[f].lines

-----------------------------------------------------------------------------
(* Properties                                                               *)

\* Every problem is judged as if its file were the only one: by the verbosity asked
\* for, by the filter of the highest priority, and by the NOLINT and LINT marks of
\* the file itself (cpplint.py, 1161-1186, 5870-5948, 5965-5970).  A semicolon behind
\* a block that ends further down is no exception (cpplint.py, 3924-3929), an empty
\* body and a comment without an end are: a NOLINT on the line they are reported at
\* does not help against them unless it was read for another reason, although the
\* usage text (69-71) says that it does.
JudgedOnItsOwn ==
    [][\A j \in judged' :
        j.printed <=>
            /\ j.problem.confidence >= flags.verbosity
            /\ ~ SwitchedOff(File, j.problem.category)
            /\ j.problem.category \notin GlobalSuppressions(Text.marks)
            /\ ~ MarkedOff(File, j.problem, MarksFor(File, j.problem, linenum'))]_vars

\* The statistics by category add up to the total that decides the exit status
\* (cpplint.py, 924-939, 6149), whichever level the categories are counted at.
CountsAddUp ==
    /\ counting \in {"toplevel", "detailed"} =>
           error_count = FoldSet(LAMBDA c, sum : errors_by_category[c] + sum,
                                 0, DOMAIN errors_by_category)
    /\ pc = "done" => (exit = 0 <=> error_count = 0)

\* Every run comes to an end, whatever the directories around its files look like:
\* the search for configurations climbs up to the root (cpplint.py, 5883-5891).  With
\* a filter that has no sign the end is an exception (cpplint.py, 908), although the
\* usage text (91, 95) says what such a filter means.
RunEnds == <>(pc \in {"done", "died"})

\* The usage text says that a configuration "has an effect on files in the same
\* directory and all sub-directories, unless overridden by a nested configuration
\* file" (cpplint.py, 176-177): the line length is that of the nearest one.
NestedConfigOverrides ==
    pc = "lines" =>
        LET lengths == OptionsOf(File, "linelength")
        IN  IF lengths = {} THEN line_length = flags.line_length
            ELSE \E o \in lengths :
                    /\ line_length = o.val
                    /\ \A p \in lengths : o.level < p.level \/ (o.level = p.level /\ o.line >= p.line)
=============================================================================
