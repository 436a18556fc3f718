--------------------------- MODULE FunctionState ----------------------------
(***************************************************************************)
(* The class _FunctionState of cpplint.py, which counts the lines of the   *)
(* function that is being read, and CheckForFunctionLengths.               *)
(*                                                                         *)
(* What a line is to a function is a word: "begins" and "begins_test" for  *)
(* the first line of a definition, whose body was found by looking ahead,  *)
(* "declares" for one whose body is trivial or not there, "unclear" when   *)
(* the file ends before either shows, "ends" for an unindented brace,      *)
(* "blank", and "line" for all others.                                     *)
(***************************************************************************)
EXTENDS Naturals, FiniteSetsExt

CONSTANTS NormalTrigger, TestTrigger, VerboseLevel

InitFunctions == [in_a_function |-> FALSE, lines_in_function |-> 0, test |-> FALSE]

\* A slip: the lines of the function before are not forgotten.
BeginCounting(s, isTest) == [s EXCEPT !.in_a_function = TRUE, !.test = isTest]

Begin(s, isTest) == [in_a_function |-> TRUE, lines_in_function |-> 0, test |-> isTest]

Count(s) ==
    IF s.in_a_function THEN [s EXCEPT !.lines_in_function = @ + 1] ELSE s

End(s) == [s EXCEPT !.in_a_function = FALSE]

BaseTrigger(s) == IF s.test THEN TestTrigger ELSE NormalTrigger

TooLong(s) == s.in_a_function /\ s.lines_in_function > BaseTrigger(s) * 2^VerboseLevel

\* The binary logarithm of how many times too long the function is, 5 at most.
ErrorLevel(s) ==
    LET times == s.lines_in_function \div BaseTrigger(s)
    IN  Max({k \in 0..5 : 2^k <= times})

CheckFunction(s) ==
    IF TooLong(s) THEN {[category |-> "readability/fn_size", confidence |-> ErrorLevel(s)]}
    ELSE {}

AfterFunctionLine(s, role) ==
    CASE role \in {"begins", "begins_test"} -> Begin(s, role = "begins_test")
      [] role \in {"declares", "unclear", "blank"} -> s
      [] role = "ends" -> End(s)
      [] role = "line" -> Count(s)

FunctionErrors(s, role) ==
    CASE role = "ends" -> CheckFunction(s)
      [] role = "unclear" -> {[category |-> "readability/fn_size", confidence |-> 5]}
      [] OTHER -> {}
=============================================================================
