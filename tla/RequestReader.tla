--------------------------- MODULE RequestReader ----------------------------
(***************************************************************************)
(* skel/main.c: reading the requests of an input file line by line with    *)
(* fgets, which returns at most as many characters as it is asked for.  A  *)
(* document's content is a quoted string that may go over several lines.   *)
(*                                                                         *)
(* The file is written by Texts, one request after the other; it may end   *)
(* early, at the end of any of its lines, and hold lines that are no       *)
(* request.  A keyword with the numbers behind it is one character.        *)
(***************************************************************************)
EXTENDS Naturals, SequencesExt

CONSTANTS
    Characters,           \* of names and contents
    Names, Contents,      \* sequences of characters
    MaxRequests,          \* bound: the requests of a file
    RequestTypeLength, DocNameLength, DocContentLength

Quote == "quote"
Newline == "newline"
Space == "space"

RequestLength == RequestTypeLength + DocNameLength + DocContentLength

LineEnds(s) == {i \in DOMAIN s : s[i] = Newline}

\* The calls of fgets and read_quoted_string have room for the content: behind the
\* name, a space and its two quotes come first; each further line is read with a
\* buffer of its own, which takes the closing quote and the newline too.
Fits(c) ==
    /\ Len(c) <= DocContentLength
    /\ IF LineEnds(c) = {} THEN Len(c) + 3 <= DocContentLength
       ELSE (Len(c) - Max(LineEnds(c))) + 2 <= DocContentLength

ASSUME LengthsAssumption ==
    \* keyword, two spaces, four quotes and a newline fit into RequestTypeLength
    /\ RequestTypeLength \in Nat /\ RequestTypeLength >= 8
    /\ DocNameLength \in Nat /\ DocContentLength \in Nat /\ MaxRequests \in Nat
    /\ \A n \in Names : Len(n) <= DocNameLength
    /\ \A c \in Contents : Fits(c)

ASSUME QuotesAssumption ==
    /\ Names \subseteq Seq(Characters \ {Quote, Newline})
    /\ Contents \subseteq Seq(Characters \ {Quote})

VARIABLES
    written,   \* the requests the file was written from
    file,      \* the characters of the file
    pos,       \* how many of them have been read
    pc,        \* "header", "request", "content", "done" or "died"
    todo,      \* the requests apply_requests still reads
    name, content,   \* of the EDIT that is being read
    got        \* the requests that were read

vars == <<written, file, pos, pc, todo, name, content, got>>

-----------------------------------------------------------------------------
(* The file                                                                 *)

Requests ==
    [type : {"EDIT"}, name : Names, content : Contents]
      \cup [type : {"GET"}, name : Names]
      \cup [type : {"ADD_SERVER", "REMOVE_SERVER", "other"}]

Quoted(s) == <<Quote>> \o s \o <<Quote>>

Text(r) ==
    CASE r.type = "EDIT" -> <<"EDIT", Space>> \o Quoted(r.name) \o <<Space>>
                              \o Quoted(r.content) \o <<Newline>>
      [] r.type = "GET" -> <<"GET", Space>> \o Quoted(r.name) \o <<Newline>>
      [] OTHER -> <<r.type, Newline>>

Header == <<"number", Newline>>

Texts(rs) == Header \o FlattenSeq([i \in DOMAIN rs |-> Text(rs[i])])

-----------------------------------------------------------------------------
(* Reading                                                                  *)

AtEnd == pos = Len(file)

\* A slip: fgets called without the place for the terminating zero.
FgetsOneLess(n) ==
    LET stops == {i \in LineEnds(file) : i > pos} \cup {Len(file), pos + n - 1}
    IN  SubSeq(file, pos + 1, Min(stops))

\* The characters fgets returns when it is asked for at most n.
Fgets(n) ==
    LET stops == {i \in LineEnds(file) : i > pos} \cup {Len(file), pos + n}
    IN  SubSeq(file, pos + 1, Min(stops))

\* read_quoted_string looks for quotes in the first len characters.  A start
\* that is known already is passed on; 0 stands for the -1 of the code.
ReadQuotedString(buffer, len, start) ==
    LET quotes == {i \in DOMAIN buffer : i <= len /\ buffer[i] = Quote}
        first == IF start # 0 THEN start ELSE IF quotes = {} THEN 0 ELSE Min(quotes)
        ends == IF start # 0 THEN quotes ELSE quotes \ {first}
    IN  [start |-> first, end |-> IF ends = {} THEN 0 ELSE Min(ends)]

RequestTypes == {"EDIT", "GET", "ADD_SERVER", "REMOVE_SERVER"}

Die == pc' = "died" /\ UNCHANGED <<written, file, pos, todo, name, content, got>>

Init ==
    /\ written \in BoundedSeq(Requests, MaxRequests)
    /\ \E cut \in LineEnds(Texts(written)) : file = SubSeq(Texts(written), 1, cut)
    /\ pos = 0
    /\ pc = "header"
    /\ todo = 0
    /\ name = <<>> /\ content = <<>>
    /\ got = <<>>

\* A request is complete: it is applied, and the next one is read if there is one.
Complete(r) ==
    /\ got' = Append(got, r)
    /\ todo' = todo - 1
    /\ pc' = IF todo' = 0 THEN "done" ELSE "request"

\* main: the first line holds the number of requests.
ReadHeader ==
    /\ pc = "header"
    /\ pos' = pos + Len(Fgets(RequestLength))
    /\ todo' = Len(written)
    /\ pc' = IF todo' = 0 THEN "done" ELSE "request"
    /\ UNCHANGED <<written, file, name, content, got>>

InsufficientRequests == pc = "request" /\ AtEnd /\ Die

UnknownRequest ==
    /\ pc = "request" /\ ~ AtEnd
    /\ Fgets(RequestLength)[1] \notin RequestTypes
    /\ Die

ReadServerRequest ==
    /\ pc = "request" /\ ~ AtEnd
    /\ \E line \in {Fgets(RequestLength)} :
          /\ line[1] \in {"ADD_SERVER", "REMOVE_SERVER"}
          /\ Complete([type |-> line[1]])
          /\ pos' = pos + Len(line)
    /\ UNCHANGED <<written, file, name, content>>

\* The characters between the quotes of a word.
Between(line, word) == SubSeq(line, word.start + 1, word.end - 1)

ReadGet ==
    /\ pc = "request" /\ ~ AtEnd
    /\ \E line \in {Fgets(RequestLength)} :
          /\ line[1] = "GET"
          /\ Complete([type |-> "GET",
                       name |-> Between(line, ReadQuotedString(line, RequestLength, 0))])
          /\ pos' = pos + Len(line)
    /\ UNCHANGED <<written, file, name, content>>

\* The content is looked for behind the name.  Without a closing quote all that
\* follows the opening one is content, and more lines have to be read.
ReadEdit ==
    /\ pc = "request" /\ ~ AtEnd
    /\ \E line \in {Fgets(RequestLength)} :
       \E first \in {ReadQuotedString(line, RequestLength, 0)} :
       \E rest \in {SubSeq(line, first.end + 1, Len(line))} :
       \E word \in {ReadQuotedString(rest, DocContentLength, 0)} :
          /\ line[1] = "EDIT"
          /\ pos' = pos + Len(line)
          /\ \/ /\ word.end # 0
                /\ Complete([type |-> "EDIT", name |-> Between(line, first),
                             content |-> Between(rest, word)])
                /\ UNCHANGED <<name, content>>
             \/ /\ word.end = 0
                /\ name' = Between(line, first)
                /\ content' = SubSeq(rest, word.start + 1, Len(rest))
                /\ pc' = "content"
                /\ UNCHANGED <<todo, got>>
    /\ UNCHANGED <<written, file>>

NotProperlyQuoted == pc = "content" /\ AtEnd /\ Die

\* A slip: word_start is reset, so that the closing quote is taken for an opening one.
ReadMoreContentAfresh ==
    /\ pc = "content" /\ ~ AtEnd
    /\ \E line \in {Fgets(DocContentLength)} :
       \E word \in {ReadQuotedString(line, DocContentLength, 0)} :
          /\ pos' = pos + Len(line)
          /\ \/ /\ word.end # 0
                /\ Complete([type |-> "EDIT", name |-> name,
                             content |-> content \o SubSeq(line, 1, word.end - 1)])
                /\ name' = <<>> /\ content' = <<>>
             \/ /\ word.end = 0
                /\ content' = content \o line
                /\ UNCHANGED <<pc, name, todo, got>>
    /\ UNCHANGED <<written, file>>

\* One more line of the content.  The opening quote has been seen, so that the
\* first quote of this line closes the content.
ReadMoreContent ==
    /\ pc = "content" /\ ~ AtEnd
    /\ \E line \in {Fgets(DocContentLength)} :
       \E word \in {ReadQuotedString(line, DocContentLength, 1)} :
          /\ pos' = pos + Len(line)
          /\ \/ /\ word.end # 0
                /\ Complete([type |-> "EDIT", name |-> name,
                             content |-> content \o SubSeq(line, 1, word.end - 1)])
                /\ name' = <<>> /\ content' = <<>>
             \/ /\ word.end = 0
                /\ content' = content \o line
                /\ UNCHANGED <<pc, name, todo, got>>
    /\ UNCHANGED <<written, file>>

Next ==
    \/ ReadHeader
    \/ InsufficientRequests \/ UnknownRequest \/ NotProperlyQuoted
    \/ ReadServerRequest \/ ReadGet \/ ReadEdit \/ ReadMoreContent

Spec == Init /\ [][Next]_vars /\ WF_vars(Next)

-----------------------------------------------------------------------------
(* Properties                                                               *)

Whole == file = Texts(written)

\* Whenever a request is about to be read, all before it were read exactly as
\* they were written, and the file is read up to the first character of the next
\* one: no quote, newline or line of a content is left behind (main.c:75).
ReaderInStep ==
    pc \in {"request", "done"} =>
        /\ IsPrefix(got, written)
        /\ pos = Len(Texts(got))

\* Reading stops only at a request that is not there as a whole or that no
\* program could know.
DiesOnlyIfBroken ==
    pc = "died" =>
        \/ ~ Whole
        \/ IsStrictPrefix(got, written) /\ written[Len(got) + 1].type \notin RequestTypes

\* Reading comes to an end, and a whole file of known requests has then been read
\* to its end.
ReadingEnds ==
    <>(IF Whole /\ \A i \in DOMAIN written : written[i].type \in RequestTypes
       THEN pc = "done" /\ got = written
       ELSE pc \in {"done", "died"})
=============================================================================
