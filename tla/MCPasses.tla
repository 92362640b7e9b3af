------------------------------ MODULE MCPasses ------------------------------
EXTENDS Passes

CONSTANT MaxLost   \* bound: walks that have lost the path

Bound == Cardinality(lost) <= MaxLost
=============================================================================
