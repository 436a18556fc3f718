CONSTANTS
    TopLevel <- MCTopLevel
    Beginnings <- MCBeginnings
    Legacy = {"old"}
    CommandLines <- MCCommandLines
    Layouts <- MCLayouts
    Path <- MCPath
    Texts <- MCTexts
SPECIFICATION Spec
INVARIANT CountsAddUp
PROPERTY JudgedOnItsOwn
PROPERTY RunEnds
CHECK_DEADLOCK FALSE
