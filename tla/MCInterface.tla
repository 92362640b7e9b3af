----------------------------- MODULE MCInterface -----------------------------
EXTENDS Interface

\* A library the compiler rejects is not extended (it stays rejected).
Viable == Accepted \/ \E d \in Decls : d.kind = "fn" /\ d.at = "body"

\* Bounds: from the third declaration on, each mentions an earlier one or is a
\* conformance, and a member or a function follows another one only to call it;
\* g is there to be called.
Own == {d.name : d \in Decls}
Calling == {"f", "g"}
Follows(e) ==
    LET user == Len(lib) < 2 \/ \A d \in Decls : d.kind \notin {"method", "fn"}
    IN /\ Len(lib) < 2 \/ Names(e.ref) \cap Own # {} \/ e.kind = "conform" \/ e.name = "g"
       /\ e.name = "g" => /\ e.form = "plain" /\ e.at = "par" /\ e.ref = Nothing
                          /\ Len(lib) < 2 \/ \E d \in Decls : "g" \in Names(d.ref)
       /\ e.kind = "method" \/ e.name = "f" => user \/ Names(e.ref) \cap Calling # {}

\* Declarations of different kinds are kept in different lists: of two that
\* stand next to each other and have nothing to do with one another only one
\* order is explored.
InOrder ==
    LET d == lib[Len(lib)]  e == lib'[Len(lib')]
    IN Len(lib') > Len(lib) /\ lib # <<>> =>
         /\ Follows(e)
         /\ \/ Rank(d) <= Rank(e) \/ e.kind = "conform"
            \/ d.name \in Names(e.ref) \cup {e.name} \/ e.name \in Names(d.ref)
==============================================================================
