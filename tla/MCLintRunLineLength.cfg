CONSTANTS
    TopLevel <- MCTopLevel
    Beginnings <- MCBeginnings
    Legacy = {"old"}
    CommandLines <- MCCommandLines
    Layouts <- MCLayouts
    Path <- MCPath
    Texts <- MCTexts
SPECIFICATION Spec
INVARIANT NestedConfigOverrides
CHECK_DEADLOCK FALSE
