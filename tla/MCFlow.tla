------------------------------- MODULE MCFlow -------------------------------
EXTENDS Flow, FiniteSets

CONSTANT MaxLoad   \* bound: slots and temporaries together

\* The path still has something to do in this function: after that no fault
\* can happen before GenFunction starts the next one.
Alive ==
    \/ live \/ jump # NoJump
    \/ \E i \in DOMAIN fr : fr[i].alt \/ fr[i].live
    \/ \E i \in DOMAIN temps : temps[i].on

Bound == Alive /\ Cardinality(Slots(1)) + Len(temps) <= MaxLoad
=============================================================================
