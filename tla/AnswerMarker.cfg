CONSTANTS
    Texts <- SomeTexts
    NoteTexts <- SomeNotes
    Ops = {"write", "help"}
    Inspections = {"help"}
    BaseDuties = {"conflict"}
    ChainLimit = 6
    MaxRetries = 1
    MaxCalls = 2
SPECIFICATION AnswerSpec
INVARIANT MarkerIsPrivate
CHECK_DEADLOCK FALSE
