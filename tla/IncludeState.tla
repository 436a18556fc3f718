---------------------------- MODULE IncludeState ----------------------------
(***************************************************************************)
(* The class _IncludeState of cpplint.py and the checks that use it, as    *)
(* operators on its state.                                                 *)
(*                                                                         *)
(* A header is a record of its name, of whether it is included with <> and *)
(* is one of the C++ library, of how its name relates to that of the file  *)
(* ("own", "similar", "other", or "third_party" for the names that are     *)
(* left alone, "cc" for a .cc file of another package), and of its rank in *)
(* alphabetical order, which counts from 1.                                *)
(***************************************************************************)
EXTENDS Naturals, SequencesExt

\* The sections, in the order in which they are passed.
INITIAL_SECTION == 0
MY_H_SECTION == 1
C_SECTION == 2
CPP_SECTION == 3
OTHER_H_SECTION == 4

InitIncludes == [include_list |-> << <<>> >>, section |-> INITIAL_SECTION, last_header |-> 0]

ReplaceLast(s, e) == Append(Front(s), e)

Included(s) == FlattenSeq(s.include_list)

FindHeader(s, name) ==
    \E i \in DOMAIN s.include_list : \E j \in DOMAIN s.include_list[i] :
        s.include_list[i][j].name = name

\* A slip: the list of the branch before is kept at an #else.
ResetSectionOnly(s, directive) ==
    [s EXCEPT !.section = INITIAL_SECTION, !.last_header = 0,
              !.include_list = IF directive = "if" THEN Append(@, <<>>) ELSE @]

\* A slip: a conditional has no list of its own.
ResetInPlace(s, directive) ==
    [s EXCEPT !.section = INITIAL_SECTION, !.last_header = 0,
              !.include_list = IF directive = "else" THEN ReplaceLast(@, <<>>) ELSE @]

\* Nothing is taken off the list of lists at an #endif.
ResetSection(s, directive) ==
    [s EXCEPT !.section = INITIAL_SECTION, !.last_header = 0,
              !.include_list = CASE directive = "if" -> Append(@, <<>>)
                                 [] directive = "else" -> ReplaceLast(@, <<>>)
                                 [] OTHER -> @]

ClassifyInclude(h) ==
    CASE h.system -> IF h.cpp THEN "cpp_sys" ELSE "c_sys"
      [] h.relation = "own" -> "likely_my"
      [] h.relation = "similar" -> "possible_my"
      [] OTHER -> "other"

\* The section a header belongs to.  A header of the file's own comes first or
\* counts as any other.
SectionOf(section, type) ==
    CASE type = "c_sys" -> C_SECTION
      [] type = "cpp_sys" -> CPP_SECTION
      [] type \in {"likely_my", "possible_my"} ->
           IF section <= MY_H_SECTION THEN MY_H_SECTION ELSE OTHER_H_SECTION
      [] OTHER -> OTHER_H_SECTION

OutOfOrder(s, h) == s.section > SectionOf(s.section, ClassifyInclude(h))

\* A slip: a header that is out of order moves the section back.
NextSectionBack(s, h) ==
    LET next == SectionOf(s.section, ClassifyInclude(h))
    IN  [s EXCEPT !.section = next, !.last_header = IF s.section # next THEN 0 ELSE @]

\* CheckNextIncludeOrder, apart from its message.
NextSection(s, h) ==
    LET next == SectionOf(s.section, ClassifyInclude(h))
    IN  IF OutOfOrder(s, h) THEN [s EXCEPT !.last_header = 0]
        ELSE [s EXCEPT !.section = next, !.last_header = IF s.section # next THEN 0 ELSE @]

\* The ranks are those of the canonical names; a header behind a blank line may
\* start a new order.
InAlphabeticalOrder(s, h, afterInclude) == ~ (s.last_header > h.rank /\ afterInclude)

\* What CheckIncludeLine finds wrong with the #include of h, apart from the look at
\* the spelling of its path, which depends on nothing else; afterInclude tells
\* whether the line before is an #include as well.
IncludeErrors(s, h, afterInclude) ==
    CASE FindHeader(s, h.name) -> {"build/include"}
      [] h.relation = "cc" -> {"build/include"}
      [] h.relation = "third_party" -> {}
      [] OTHER ->
           (IF OutOfOrder(s, h) THEN {"build/include_order"} ELSE {})
             \cup (IF InAlphabeticalOrder(NextSection(s, h), h, afterInclude)
                   THEN {} ELSE {"build/include_alpha"})

AfterInclude(s, h, n) ==
    IF FindHeader(s, h.name) \/ h.relation \in {"cc", "third_party"} THEN s
    ELSE LET listed == [s EXCEPT !.include_list =
                           ReplaceLast(@, Append(Last(@), [name |-> h.name, line |-> n]))]
         IN  [NextSection(listed, h) EXCEPT !.last_header = h.rank]

-----------------------------------------------------------------------------
(* The checks at the end of a file.                                         *)

\* The names include_list holds.
Names(s) == {Included(s)[i].name : i \in DOMAIN Included(s)}

\* The headers known once the header of the file, if it is included, was read.
UpdateIncludeState(names, own, ownIncludes) ==
    names \cup (IF own \in names THEN ownIncludes ELSE {})

\* CheckForIncludeWhatYouUse: required maps the name of every header that is
\* needed to the last line that needs it, 0 if there is none; own is the header
\* of the file and ownIncludes what that includes.  A .cc file is only judged when
\* its header was found.
MissingIncludes(s, required, isCc, own, ownIncludes) ==
    LET known == UpdateIncludeState(Names(s), own, ownIncludes)
    IN  IF isCc /\ own \notin Names(s) THEN {}
        ELSE {[line |-> required[h], category |-> "build/include_what_you_use"] :
                 h \in {g \in DOMAIN required : required[g] # 0 /\ g \notin known}}

\* CheckHeaderFileIncluded for a .cc file whose header exists: reported at the
\* first #include.
HeaderFileErrors(s, own) ==
    IF own \in Names(s) THEN {}
    ELSE {[line |-> IF Included(s) = <<>> THEN 0 ELSE Included(s)[1].line,
           category |-> "build/include"]}
=============================================================================
