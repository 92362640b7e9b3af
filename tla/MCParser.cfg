CONSTANTS
    Pieces <- MCPieces
    MaxPieces = 3
SPECIFICATION Spec
INVARIANTS
    BodiesInPlace
    DeclarationsFound
    BodiesWhole
PROPERTY
    ParseEnds
CHECK_DEADLOCK FALSE
