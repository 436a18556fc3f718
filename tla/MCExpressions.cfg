CONSTANTS
    FirstLength = 3
    SecondLength = 2
    Files <- MCFiles
SPECIFICATION SearchSpec
INVARIANT BracketsMatch
INVARIANT RoundTrip
INVARIANT TemplateParametersAreSeen
CHECK_DEADLOCK FALSE
