-------------------------------- MODULE MCArc --------------------------------
EXTENDS Arc

\* Bounds: references to an object, temporaries, and what a function holds at
\* once inside a nested block.
CONSTANTS MaxRc, MaxTemps, MaxLoad

Bound ==
    LET t == Len(Entries(temps)) + Len(ctxs)
    IN /\ \A o \in Objs : heap[o].rc <= MaxRc
       /\ t <= MaxTemps
       /\ Len(scopes) = 1 \/ Cardinality(Slots) + Len(opd) + t <= MaxLoad
==============================================================================
