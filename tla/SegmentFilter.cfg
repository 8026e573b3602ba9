SPECIFICATION Spec
CONSTANTS
    Size = 2
    Contacts <- SomeContacts
    Trees <- SmallTrees
    NilTree = NilTree
    Missing = Missing
    NotANumber = NotANumber
    NotAList = NotAList
    Containing <- WithinOf
    Starting <- StartOf
    Ending <- EndOf
INVARIANTS
    DecidedByTheTree
    LeavesAgree
CHECK_DEADLOCK FALSE
