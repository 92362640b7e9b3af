CONSTANTS
    MaxDecls = 3
SPECIFICATION InterfaceSpec
CONSTRAINT Viable
ACTION_CONSTRAINT InOrder
INVARIANTS
    InterfaceReads
    SignaturesKept
PROPERTY
    EditsStayInside
CHECK_DEADLOCK FALSE
