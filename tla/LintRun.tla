------------------------------- MODULE LintRun -------------------------------
(***************************************************************************)
(* A run of cpplint.py: main, ParseArguments, ProcessFile with             *)
(* ProcessConfigOverrides, and the reports of ProcessFileData, over the    *)
(* global state that all files share.                                      *)
(*                                                                         *)
(* The path of a file is the sequence of the directories from its own to   *)
(* the root, each with the name by which the directory or the file is      *)
(* known in it.  A configuration has a state, "none", "unreadable" or      *)
(* "read", and the sequence of the options of CPPLINT.cfg.  The text of a  *)
(* file is a sequence of lines: the mark of its NOLINT, the problems the   *)
(* checks find in it, its width, and whether it ends in CR LF.             *)
(***************************************************************************)
EXTENDS ErrorFilter, Functions

CONSTANTS
    CommandLines,    \* the files and flags a run may be given
    Layouts,         \* the configurations the directories may have
    Path,            \* for every file the directories around it
    Texts            \* for every file [readable, extension, marks, early, lines]

ASSUME CategoriesAssumption ==
    {"build/include_alpha", "readability/nolint", "whitespace/line_length",
     "whitespace/newline", "readability/braces"} \subseteq Categories

\* A filter as it was written, with its sign or without one.  Its text need not be
\* the name of a category.
Filter == [sign : {"+", "-", "none"}, prefix : Categories \cup STRING]

ASSUME CommandLinesAssumption ==
    \A c \in CommandLines : c.files \in Seq(DOMAIN Texts) /\ c.filters \in Seq(Filter)

\* Where no configuration could be read there are no options.
ASSUME LayoutsAssumption ==
    \A f \in DOMAIN Texts :
        /\ Path[f] \in Seq(Range(Path[f]))
        /\ \A layout \in Layouts, place \in Range(Path[f]) :
              LET config == layout[place.dir]
              IN  /\ config.state \in {"none", "unreadable", "read"}
                  /\ config.options \in Seq(Range(config.options))
                  /\ config.state # "read" => config.options = <<>>
                  /\ \A o \in Range(config.options) : o.name = "filter" => o.val \in Seq(Filter)

\* The checks find finitely many problems of known categories, each at a line.  The
\* checks of a line report there or further up, but for two.  The end of a block that
\* begins in the line and has a semicolon behind it, closing, is this line or a later
\* one; 0 if there is none.  A condition that begins in the line may end further down,
\* with nothing to do behind it: this is reported at its end, bodies.
ASSUME TextsAssumption ==
    \A f \in DOMAIN Texts :
        /\ \A problems \in {Texts[f].early, Texts[f].late} :
              /\ IsFiniteSet(problems)
              /\ \A p \in problems : p.category \in Categories /\ p.line \in Nat
        /\ Texts[f].lines \in Seq(Range(Texts[f].lines))
        /\ \A n \in DOMAIN Texts[f].lines :
              LET line == Texts[f].lines[n]
              IN  /\ line.mark.kind \in {"none", "line", "next"}
                  /\ line.closing \in {0} \cup n..Len(Texts[f].lines)
                  /\ \A problems \in {line.problems, line.header_problems, line.bodies} :
                        /\ IsFiniteSet(problems)
                        /\ \A p \in problems : p.category \in Categories /\ p.line \in Nat
                  /\ \A p \in line.problems \cup line.header_problems : p.line <= n

VARIABLES
    flags,                 \* the command line of this run
    configs,               \* the configuration of every directory
    pc,                    \* "arguments", "main", "config", "open", "lines", "done" or "died"
    rest,                  \* the files that are still to be processed
    level, cfg_filters,    \* locals of ProcessConfigOverrides
    linenum,               \* the line that was processed last
    filters, filters_backup, verbosity, counting, error_count, errors_by_category,
    line_length, hpp_headers, valid_extensions,
    suppressions, global_suppressions,
    judged,                \* what the latest step had Error decide
    exit                   \* the exit status

inputs == <<flags, configs>>
lintState == <<filters, filters_backup, verbosity, counting>>
counts == <<error_count, errors_by_category>>
globals == <<line_length, hpp_headers, valid_extensions>>
nolint == <<suppressions, global_suppressions>>
control == <<pc, rest, level, cfg_filters, linenum, exit>>
vars == <<inputs, lintState, counts, globals, nolint, control, judged>>

File == Head(rest)
Text == Texts[File]

Init ==
    /\ flags \in CommandLines /\ configs \in Layouts
    /\ pc = "arguments" /\ rest = flags.files
    /\ level = 1 /\ cfg_filters = <<>> /\ linenum = 0
    /\ filters = DefaultFilters /\ filters_backup = DefaultFilters
    /\ verbosity = 1 /\ counting = "total"
    /\ error_count = 0 /\ errors_by_category = [c \in {} |-> 0]
    /\ line_length = 80 /\ hpp_headers = {"h"}
    /\ valid_extensions = {"c", "cc", "h", "cpp", "cu", "cuh"}
    /\ suppressions = {} /\ global_suppressions = {}
    /\ judged = {} /\ exit = 0

-----------------------------------------------------------------------------
(* Error: the decision and the counters                                     *)

CategoryCounted(c) == IF counting = "toplevel" THEN TopLevel[c] ELSE c

\* A slip: a category is put into the statistics without a count.
IncrementOnlyKnown(tally, c) ==
    IF CategoryCounted(c) \in DOMAIN tally
    THEN [tally EXCEPT ![CategoryCounted(c)] = @ + 1]
    ELSE [x \in DOMAIN tally \cup {CategoryCounted(c)} |-> IF x \in DOMAIN tally THEN tally[x] ELSE 0]

IncrementErrorCount(tally, c) ==
    [x \in DOMAIN tally \cup {CategoryCounted(c)} |->
        (IF x \in DOMAIN tally THEN tally[x] ELSE 0) + (IF x = CategoryCounted(c) THEN 1 ELSE 0)]

\* The problems of a step are passed to Error one by one; no two of one step are alike.
Report(problems) ==
    /\ judged' = {[problem |-> p,
                   printed |-> ShouldPrintError(suppressions', global_suppressions', verbosity,
                                                filters, p, p.line)] : p \in problems}
    /\ \E printed \in {{j.problem : j \in {k \in judged' : k.printed}}} :
         /\ error_count' = error_count + Cardinality(printed)
         /\ errors_by_category' =
              IF counting \in {"toplevel", "detailed"}
              THEN FoldSet(LAMBDA p, tally : IncrementErrorCount(tally, p.category),
                           errors_by_category, printed)
              ELSE errors_by_category

Silent == judged' = {} /\ UNCHANGED counts

\* Problems, with the part of the program that has found them.
Found(by, problems) ==
    {[category |-> p.category, confidence |-> p.confidence, line |-> p.line, by |-> by] :
        p \in problems}

-----------------------------------------------------------------------------
(* main                                                                     *)

Die ==
    /\ pc' = "died" /\ exit' = 1
    /\ UNCHANGED <<rest, level, cfg_filters, linenum>>

PrintUsage ==
    /\ pc = "arguments" /\ flags.files = <<>>
    /\ line_length' = flags.line_length
    /\ Die
    /\ Silent
    /\ UNCHANGED <<inputs, lintState, hpp_headers, valid_extensions, nolint>>

\* A filter without a sign raises an exception that nothing catches.
ParseArguments ==
    /\ pc = "arguments" /\ flags.files # <<>>
    /\ filters' = AddFilters(DefaultFilters, flags.filters)
    /\ verbosity' = flags.verbosity
    /\ counting' = flags.counting
    /\ line_length' = flags.line_length
    /\ IF WellFormed(filters')
       THEN pc' = "main" /\ UNCHANGED <<rest, level, cfg_filters, linenum, exit>>
       ELSE Die
    /\ Silent
    /\ UNCHANGED <<inputs, filters_backup, hpp_headers, valid_extensions, nolint>>

\* The beginning of ProcessFile: _SetVerboseLevel keeps the level, _BackupFilters.
BeginFile ==
    /\ pc = "main" /\ rest # <<>>
    /\ filters_backup' = filters
    /\ pc' = "config" /\ level' = 1 /\ cfg_filters' = <<>>
    /\ Silent
    /\ UNCHANGED <<inputs, filters, verbosity, counting, globals, nolint, rest, linenum, exit>>

Exit ==
    /\ pc = "main" /\ rest = <<>>
    /\ pc' = "done" /\ exit' = IF error_count > 0 THEN 1 ELSE 0
    /\ Silent
    /\ UNCHANGED <<inputs, lintState, globals, nolint, rest, level, cfg_filters, linenum>>

\* A slip: what the configurations of the file have added stays.
KeepFilters == UNCHANGED filters

RestoreFilters == filters' = filters_backup

\* Every way out of ProcessFile.
LeaveFile ==
    /\ RestoreFilters
    /\ pc' = "main" /\ rest' = Tail(rest)
    /\ UNCHANGED <<filters_backup, verbosity, counting, level, cfg_filters, linenum, exit>>

-----------------------------------------------------------------------------
(* ProcessConfigOverrides: one step for each directory, from the inside.    *)

Dir == Path[File][level].dir
Base == Path[File][level].name
InTree == pc = "config" /\ level <= Len(Path[File])
BeyondRoot == Len(Path[File]) + 1

\* A slip: the path is cut only once its directory had a configuration.
ParentIfConfigured == IF configs[Dir].state = "none" THEN level ELSE level + 1

Parent == level + 1

Values(options, name) ==
    FoldLeft(LAMBDA vals, o : IF o.name = name THEN Append(vals, o.val) ELSE vals, <<>>, options)

LastOr(s, default) == IF s = <<>> THEN default ELSE Last(s)

\* Where an exclude_files matches the rest of the options is not read.
Exclusion(options) ==
    SelectInSeq(options, LAMBDA o : o.name = "exclude_files" /\ Base \in o.val)

OptionsRead(options) ==
    IF Exclusion(options) = 0 THEN options ELSE SubSeq(options, 1, Exclusion(options) - 1)

\* The extensions of headers are valid for files as well.
ProcessHppHeadersOption(vals) ==
    /\ hpp_headers' = LastOr(vals, hpp_headers)
    /\ valid_extensions' = valid_extensions \cup UNION Range(vals)

IsHeaderExtension(extension) == extension \in hpp_headers

\* These options are global, and nothing restores them.
SetGlobals(options) ==
    /\ line_length' = LastOr(Values(options, "linelength"), line_length)
    /\ ProcessHppHeadersOption(Values(options, "headers"))

NoConfig ==
    /\ InTree /\ configs[Dir].state = "none"
    /\ level' = Parent
    /\ Silent
    /\ UNCHANGED <<inputs, lintState, globals, nolint, pc, rest, cfg_filters, linenum, exit>>

UnreadableConfig ==
    /\ InTree /\ configs[Dir].state = "unreadable"
    /\ level' = BeyondRoot
    /\ Silent
    /\ UNCHANGED <<inputs, lintState, globals, nolint, pc, rest, cfg_filters, linenum, exit>>

HasOptions == InTree /\ configs[Dir].state = "read"
Options == configs[Dir].options

ReadConfig ==
    /\ HasOptions /\ Exclusion(Options) = 0
    /\ cfg_filters' = cfg_filters \o Values(Options, "filter")
    /\ level' = IF Values(Options, "set noparent") = <<>> THEN Parent ELSE BeyondRoot
    /\ SetGlobals(Options)
    /\ Silent
    /\ UNCHANGED <<inputs, lintState, nolint, pc, rest, linenum, exit>>

ExcludeFile ==
    /\ HasOptions /\ Exclusion(Options) # 0
    /\ SetGlobals(OptionsRead(Options))
    /\ LeaveFile
    /\ Silent
    /\ UNCHANGED <<inputs, nolint>>

OutermostFirst(filter_values) == FlattenSeq(Reverse(filter_values))

ApplyFilters ==
    /\ pc = "config" /\ level > Len(Path[File])
    /\ filters' = AddFilters(filters, OutermostFirst(cfg_filters))
    /\ IF WellFormed(filters')
       THEN pc' = "open" /\ UNCHANGED <<rest, level, cfg_filters, linenum, exit>>
       ELSE Die
    /\ Silent
    /\ UNCHANGED <<inputs, filters_backup, verbosity, counting, globals, nolint>>

-----------------------------------------------------------------------------
(* ProcessFile and ProcessFileData                                          *)

SkipFile ==
    /\ pc = "open"
    /\ ~ Text.readable \/ Text.extension \notin valid_extensions
    /\ LeaveFile
    /\ Silent
    /\ UNCHANGED <<inputs, globals, nolint>>

ResetNolint == {}

\* RemoveMultiLineComments complains before any NOLINT was read.
OpenFile ==
    /\ pc = "open"
    /\ Text.readable /\ Text.extension \in valid_extensions
    /\ suppressions' = ResetNolint
    /\ global_suppressions' = GlobalSuppressions(Text.marks)
    /\ Report(Found("cleansing", Text.early))
    /\ pc' = "lines" /\ linenum' = 0
    /\ UNCHANGED <<inputs, lintState, globals, rest, level, cfg_filters, exit>>

LineProblems(line, n) ==
    NolintProblems(Text.lines, {n})
      \cup line.problems
      \cup (IF IsHeaderExtension(Text.extension) THEN line.header_problems ELSE {})
      \cup (IF line.width > line_length
            THEN {[category |-> "whitespace/line_length", confidence |-> 2, line |-> n]} ELSE {})

\* The lines in which CheckTrailingSemicolon looks for a NOLINT that it may need.
Ahead(line) == IF line.closing = 0 THEN {} ELSE {line.closing - 1, line.closing} \ {0}

SemicolonProblems(line) ==
    IF line.closing = 0 THEN {}
    ELSE {[category |-> "readability/braces", confidence |-> 4, line |-> line.closing]}

\* ProcessLine.  The NOLINT of the line is parsed first, then, by CheckTrailingSemicolon,
\* what is ahead; CheckEmptyBlockBody comes behind it.  No problem at this line or
\* further up depends on what is parsed ahead.
ReadLine ==
    /\ pc = "lines" /\ linenum < Len(Text.lines)
    /\ linenum' = linenum + 1
    /\ UNCHANGED global_suppressions
    /\ LET line == Text.lines[linenum']
       IN  /\ suppressions' = ParseNolint(suppressions, Text.lines, {linenum'} \cup Ahead(line))
           /\ Report(Found("check", LineProblems(line, linenum'))
                       \cup Found("ahead", NolintProblems(Text.lines, Ahead(line)))
                       \cup Found("semicolon", SemicolonProblems(line))
                       \cup Found("body", line.bodies))
    /\ UNCHANGED <<inputs, lintState, globals, pc, rest, level, cfg_filters, exit>>

\* Where line ends are mixed each CR LF is a problem.
MixedLineEnds ==
    LET crlf == {n \in DOMAIN Text.lines : Text.lines[n].crlf}
    IN  IF crlf = DOMAIN Text.lines THEN {}
        ELSE {[category |-> "whitespace/newline", confidence |-> 1, line |-> n] : n \in crlf}

\* The checks of the whole file, which look back at its lines.
FinishFile ==
    /\ pc = "lines" /\ linenum = Len(Text.lines)
    /\ UNCHANGED nolint
    /\ Report(Found("file", Text.late \cup MixedLineEnds))
    /\ LeaveFile
    /\ UNCHANGED <<inputs, globals>>

Next ==
    \/ PrintUsage \/ ParseArguments \/ BeginFile \/ Exit
    \/ NoConfig \/ UnreadableConfig \/ ReadConfig \/ ExcludeFile \/ ApplyFilters
    \/ SkipFile \/ OpenFile \/ ReadLine \/ FinishFile

\* A single thread: it goes on as long as there is anything to do.
Spec == Init /\ [][Next]_vars /\ WF_vars(Next)
=============================================================================
