----------------------------- MODULE SemaProofs -----------------------------
(***************************************************************************)
(* Proofs about Passes.tla and Types.tla, the two views of the compiler's  *)
(* middle end: which nodes its tree walks reach, and what they take the    *)
(* type of a node to be.  For every depth of nesting:                      *)
(*   Captured   what a lambda misses of the variables its code uses is     *)
(*              below the forms collectReferencedVars stops at,            *)
(*   Seen       so for collectSpawnRefs and the spawn rule,                *)
(*   Analysed   and for the semantic pass and the editor;                  *)
(* and for types and expressions of any length:                            *)
(*   AnnotationsAlwaysSound   what Sema annotates is so,                   *)
(*   GeneratorNeverMistaken   what the generator derives is so,            *)
(*   AnnotationsAreUsed       the generator recognises what Sema knows,    *)
(*   ResolvedCallsKept        which resolved method calls are dropped,     *)
(*   WellTypedAccepted        what is well typed is accepted.              *)
(***************************************************************************)
EXTENDS Passes, Types, SequenceTheorems, TLAPS

\* The forms at which a walk stops.
CaptureStops == {<<"Construct", "arg">>, <<"Match", "value">>} \cup Tables
SpawnStops ==
    {<<"Match", x>> : x \in {"subject", "body", "value"}}
    \cup {<<"Lambda", "body">>, <<"StructLiteral", "field">>, <<"EnumConstruct", "arg">>,
          <<"Try", "operand">>, <<"Await", "operand">>, <<"Pipeline", "input">>,
          <<"Pipeline", "transform">>, <<"Range", "start">>, <<"Range", "end">>,
          <<"Event", "source">>, <<"Event", "body">>, <<"Wait", "task">>}
LocateStops == Tables \cup {<<"Match", "value">>}

\* Walk w has left the path.
Gone(w) == \E x \in lost : x[1] = w

\* The walks that the root starts are on the path or have left it, and the others
\* never come.  Capture analysis starts at the outermost lambda, the spawn rule at
\* each spawn that Sema visits.
Accounted ==
    /\ \A w \in {"sema", "locate"} :
          w \in walks <=> w \in Reach(root) /\ ~ Gone(w)
    /\ ~ lambda => "capture" \notin walks /\ ~ Gone("capture")
    /\ lambda => ("capture" \in walks <=> ~ Gone("capture"))
    /\ ~ spawned => "spawnref" \notin walks
    /\ spawned => ("spawnref" \in walks <=> ~ Unseen /\ ~ Gone("spawnref"))

\* Where a walk has left the path.  One that does not look at what a node names
\* itself has left it at its end.
Where ==
    /\ \A x \in lost :
        /\ x[1] = "capture" => <<x[2], x[3]>> \in CaptureStops
        /\ x[1] = "spawnref" => Unseen \/ <<x[2], x[3]>> \in SpawnStops
        /\ x[1] = "sema" => node = "leaf" \/ <<x[2], x[3]>> \in Tables
        /\ x[1] = "locate" => node = "leaf" \/ <<x[2], x[3]>> \in LocateStops
    /\ node = "leaf" => "sema" \notin walks /\ "locate" \notin walks

PassesInv ==
    /\ root \in Roots /\ lambda \in BOOLEAN /\ spawned \in BOOLEAN
    /\ Accounted /\ Where
    /\ "locate" \in walks <=> "dump" \in walks

-----------------------------------------------------------------------------
\* The walks, child by child.

\* A child is of one of the seven groups.
LEMMA Grouped ==
    ASSUME NEW s \in Slots
    PROVE  s \in StatementSlots \/ s \in DeclarationSlots \/ s \in TaskSlots \/ s \in CallSlots
           \/ s \in AccessSlots \/ s \in ValueSlots \/ s \in TableSlots
  BY DEF Slots

\* What Follows says of each walk.
LEMMA FollowsIs ==
    ASSUME NEW s
    PROVE  /\ Follows("sema", s) <=> s \in Sema
           /\ Follows("gen", s) <=> s \in Gen
           /\ Follows("capture", s) <=> s \in Capture
           /\ Follows("spawnref", s) <=> s \in SpawnRef
           /\ Follows("locate", s) <=> s \in Locate
           /\ Follows("dump", s) <=> s \in Dump
  BY DEF Follows

\* collectReferencedVars has a branch for every child but three forms.
LEMMA CaptureMisses ==
    ASSUME NEW s \in Slots, s \notin Capture
    PROVE  <<s[1], s[2]>> \in CaptureStops
  <1>1. CASE s \in StatementSlots \/ s \in DeclarationSlots \/ s \in TaskSlots \/ s \in CallSlots
    BY <1>1 DEF Capture, CaptureOperands, CaptureValues
  <1>2. CASE s \in AccessSlots
    <2>1. s \in Capture \/ s[1] = "Construct"
      BY <1>2 DEF Capture, CaptureOperands, CaptureValues, Of, AccessSlots
    <2>2. s[1] = "Construct" => s[2] = "arg"
      BY <1>2 DEF AccessSlots
    <2>3. QED
      BY <2>1, <2>2 DEF CaptureStops
  <1>3. CASE s \in ValueSlots
    <2>1. s \in Capture \/ (s[1] = "Match" /\ s[2] = "value")
      BY <1>3 DEF Capture, CaptureOperands, CaptureValues, Of, ValueSlots
    <2>2. QED
      BY <2>1 DEF CaptureStops
  <1>4. CASE s \in TableSlots
    BY <1>4 DEF TableSlots, CaptureStops, Tables
  <1>5. QED
    BY <1>1, <1>2, <1>3, <1>4, Grouped

\* collectSpawnRefs stops at these forms, table expressions and nested spawns only.
LEMMA SpawnRefMisses ==
    ASSUME NEW s \in Slots, s \notin SpawnRef
    PROVE  <<s[1], s[2]>> \in SpawnStops \cup Tables \cup {<<"Spawn", "body">>}
  <1>1. CASE s \in StatementSlots \/ s \in DeclarationSlots
    BY <1>1 DEF SpawnRef
  <1>2. CASE s \in TaskSlots
    <2>1. s \in SpawnRef \/ s[1] # "Assert"
      BY <1>2 DEF SpawnRef, Of
    <2>2. s[1] # "Assert" => <<s[1], s[2]>> \in SpawnStops \cup {<<"Spawn", "body">>}
      BY <1>2 DEF TaskSlots, SpawnStops
    <2>3. QED
      BY <2>1, <2>2
  <1>3. CASE s \in CallSlots
    BY <1>3 DEF SpawnRef, Of, CallSlots
  <1>4. CASE s \in AccessSlots
    <2>1. s \in SpawnRef \/ s[1] \in {"StructLiteral", "Range"}
      BY <1>4 DEF SpawnRef, Of, AccessSlots
    <2>2. s[1] \in {"StructLiteral", "Range"} => <<s[1], s[2]>> \in SpawnStops
      BY <1>4 DEF AccessSlots, SpawnStops
    <2>3. QED
      BY <2>1, <2>2
  <1>5. CASE s \in ValueSlots
    <2>1. s \in SpawnRef \/ s[1] # "IndirectCall"
      BY <1>5 DEF SpawnRef, Of
    <2>2. s[1] # "IndirectCall" => <<s[1], s[2]>> \in SpawnStops
      BY <1>5 DEF ValueSlots, SpawnStops
    <2>3. QED
      BY <2>1, <2>2
  <1>6. CASE s \in TableSlots
    BY <1>6 DEF TableSlots, Tables
  <1>7. QED
    BY <1>1, <1>2, <1>3, <1>4, <1>5, <1>6, Grouped

\* What it follows is no table expression.
LEMMA SpawnRefNoTable ==
    ASSUME NEW s \in SpawnRef
    PROVE  <<s[1], s[2]>> \notin Tables
  <1> SUFFICES s[1] \notin {"Query", "Insert", "Update", "Delete"}
    BY DEF Tables
  <1>1. CASE s \in StatementSlots \cup DeclarationSlots
    BY <1>1 DEF StatementSlots, DeclarationSlots
  <1>2. CASE s \notin StatementSlots \cup DeclarationSlots
    BY <1>2 DEF SpawnRef, Of
  <1>3. QED
    BY <1>1, <1>2

\* Sema::visitStmt and visitExpr miss table expressions and what a node names.
LEMMA SemaMisses ==
    ASSUME NEW s \in Slots, s \notin Sema
    PROVE  s[3] = "leaf" \/ <<s[1], s[2]>> \in Tables
  <1>1. CASE s \in StatementSlots \/ s \in DeclarationSlots
    BY <1>1 DEF Sema, SemaStatements
  <1>2. CASE s \in TaskSlots
    BY <1>2 DEF Sema, SemaStatements, SemaValues, Of, TaskSlots
  <1>3. CASE s \in CallSlots
    BY <1>3 DEF Sema, SemaCalls, SemaOperators, Of, CallSlots, Leaves
  <1>4. CASE s \in AccessSlots
    BY <1>4 DEF Sema, SemaCalls, SemaOperators, SemaLiterals, Of, AccessSlots, Leaves
  <1>5. CASE s \in ValueSlots
    BY <1>5 DEF Sema, SemaCalls, SemaLiterals, SemaValues, Of, ValueSlots, Leaves
  <1>6. CASE s \in TableSlots
    BY <1>6 DEF TableSlots, Tables
  <1>7. QED
    BY <1>1, <1>2, <1>3, <1>4, <1>5, <1>6, Grouped

\* Sema follows no step of a table expression.
LEMMA TableUnseen ==
    ASSUME NEW s \in TableSlots
    PROVE  s \notin Sema
  <1>1. s[1] \in {"Query", "Insert", "Update", "Delete"}
    BY DEF TableSlots
  <1>2. \A x \in StatementSlots \cup DeclarationSlots : x[1] # s[1]
    BY <1>1 DEF StatementSlots, DeclarationSlots
  <1>3. s \notin SemaStatements
    BY <1>1, <1>2 DEF SemaStatements, Of
  <1>4. s \notin SemaCalls /\ s \notin SemaOperators
    BY <1>1 DEF SemaCalls, SemaOperators, Of
  <1>5. s \notin SemaLiterals /\ s \notin SemaValues
    BY <1>1 DEF SemaLiterals, SemaValues, Of
  <1>6. QED
    BY <1>3, <1>4, <1>5 DEF Sema

\* AstLocator misses those and the value of an expression arm.
LEMMA LocateMisses ==
    ASSUME NEW s \in Slots, s \notin Locate
    PROVE  s[3] = "leaf" \/ <<s[1], s[2]>> \in LocateStops
  <1>1. CASE s \in StatementSlots \/ s \in DeclarationSlots \/ s \in TaskSlots
    BY <1>1 DEF Locate, LocateStatements
  <1>2. CASE s \in CallSlots \/ s \in AccessSlots \/ s \in ValueSlots
    <2>1. s \in Leaves \/ s = <<"Match", "value", "expr">>
      BY <1>2 DEF Locate, LocateExpressions
    <2>2. QED
      BY <2>1 DEF Leaves, LocateStops
  <1>3. CASE s \in TableSlots
    BY <1>3 DEF TableSlots, LocateStops, Tables
  <1>4. QED
    BY <1>1, <1>2, <1>3, Grouped

\* A name in a node is no node: it has no children and is not chosen for a sort,
\* and neither Sema nor the locator goes to it.
LEMMA LeafIsLast ==
    /\ \A s \in Slots : s[1] # "leaf"
    /\ "leaf" \notin Statements /\ "leaf" \notin Expressions
  <1>1. \A x \in StatementSlots \cup DeclarationSlots \cup TaskSlots : x[1] # "leaf"
    BY DEF StatementSlots, DeclarationSlots, TaskSlots
  <1>2. \A x \in CallSlots \cup AccessSlots : x[1] # "leaf"
    BY DEF CallSlots, AccessSlots
  <1>3. \A x \in ValueSlots \cup TableSlots : x[1] # "leaf"
    BY DEF ValueSlots, TableSlots
  <1>4. "leaf" \notin Expressions
    BY <1>2, <1>3 DEF Expressions
  <1>5. QED
    BY <1>1, <1>2, <1>3, <1>4 DEF Slots, Statements

LEMMA LeafMissed ==
    ASSUME NEW s \in Slots, s[3] = "leaf"
    PROVE  s \notin Sema /\ s \notin Locate
  <1>1. s \in Leaves
    BY DEF Leaves
  <1>2. s \in CallSlots \cup ValueSlots
    <2>1. s \notin StatementSlots /\ s \notin DeclarationSlots /\ s \notin TaskSlots
      BY DEF StatementSlots, DeclarationSlots, TaskSlots
    <2>2. s \notin AccessSlots /\ s \notin TableSlots
      BY DEF AccessSlots, TableSlots
    <2>3. QED
      BY <2>1, <2>2, Grouped
  <1>3. s[1] \in {"Assignment", "IndirectCall"}
    BY <1>2 DEF CallSlots, ValueSlots
  <1>4. \A x \in StatementSlots \cup DeclarationSlots \cup TaskSlots : x # s
    BY <1>3 DEF StatementSlots, DeclarationSlots, TaskSlots
  <1>5. s \notin SemaStatements
    BY <1>3, <1>4 DEF SemaStatements, Of
  <1>6. s \notin SemaLiterals /\ s \notin SemaValues
    BY <1>3 DEF SemaLiterals, SemaValues, Of
  <1>7. s \notin SemaCalls /\ s \notin SemaOperators
    BY <1>1 DEF SemaCalls, SemaOperators
  <1>8. s \notin Locate
    BY <1>1, <1>4 DEF Locate, LocateExpressions, LocateStatements
  <1>9. QED
    BY <1>5, <1>6, <1>7, <1>8 DEF Sema

\* AstLocator and LocationDumper follow the same children.
LEMMA LocateIsDump ==
    ASSUME NEW s \in Slots
    PROVE  s \in Locate <=> s \in Dump
  <1>1. CASE s \in StatementSlots \/ s \in DeclarationSlots \/ s \in TaskSlots
    BY <1>1 DEF Locate, LocateStatements, Dump, DumpStatements
  <1>2. CASE s \in CallSlots \/ s \in AccessSlots \/ s \in ValueSlots
    <2>1. s \in Of({x[1] : x \in CallSlots \cup AccessSlots \cup ValueSlots})
      BY <1>2 DEF Of
    <2>2. s \in DumpExpressions <=> s \notin {<<"Match", "value", "expr">>} \cup Leaves
      BY <2>1 DEF DumpExpressions
    <2>3. s \in LocateExpressions <=> s \notin {<<"Match", "value", "expr">>} \cup Leaves
      BY <1>2 DEF LocateExpressions
    <2>4. QED
      BY <2>2, <2>3 DEF Locate, LocateStatements, Dump, DumpStatements
  <1>3. CASE s \in TableSlots
    <2>1. s[1] \in {"Query", "Insert", "Update", "Delete"}
      BY <1>3 DEF TableSlots
    <2>2. \A x \in StatementSlots \cup DeclarationSlots \cup TaskSlots : x[1] # s[1]
      BY <2>1 DEF StatementSlots, DeclarationSlots, TaskSlots
    <2>3. \A x \in CallSlots \cup AccessSlots : x[1] # s[1]
      BY <2>1 DEF CallSlots, AccessSlots
    <2>4. \A x \in ValueSlots : x[1] # s[1]
      BY <2>1 DEF ValueSlots
    <2>5. s \notin Locate
      BY <2>2, <2>3, <2>4 DEF Locate, LocateExpressions, LocateStatements
    <2>6. s \notin Dump
      BY <2>2, <2>3, <2>4 DEF Dump, DumpExpressions, DumpStatements, Of
    <2>7. QED
      BY <2>5, <2>6
  <1>4. QED
    BY <1>1, <1>2, <1>3, Grouped

-----------------------------------------------------------------------------
\* The steps.

\* After a step down the tree a walk is on the path if it was and follows, or
\* starts there; it has left the path if it had or does not follow, and does not
\* start there.
LEMMA WalkAfter ==
    ASSUME NEW s, NEW fresh, Descend(s, fresh), NEW w
    PROVE  /\ w \in walks' <=> (w \in walks /\ Follows(w, s)) \/ w \in fresh
           /\ Gone(w)' <=> w \notin fresh /\ (Gone(w) \/ (w \in walks /\ ~ Follows(w, s)))
  <1> DEFINE on == {v \in walks : Follows(v, s)} \cup fresh
  <1>1. /\ walks' = on
        /\ lost' = {l \in lost : l[1] \notin fresh} \cup {<<v, s[1], s[2]>> : v \in walks \ on}
    BY DEF Descend
  <1>2. Gone(w)' => w \notin fresh /\ (Gone(w) \/ (w \in walks /\ ~ Follows(w, s)))
    <2> SUFFICES ASSUME NEW x \in lost', x[1] = w
                 PROVE  w \notin fresh /\ (Gone(w) \/ (w \in walks /\ ~ Follows(w, s)))
      BY DEF Gone
    <2>1. CASE x \in lost /\ x[1] \notin fresh
      BY <2>1 DEF Gone
    <2>2. CASE ~ (x \in lost /\ x[1] \notin fresh)
      <3>1. PICK v \in walks \ on : x = <<v, s[1], s[2]>>
        BY <1>1, <2>2
      <3>2. v = w
        BY <3>1
      <3>3. QED
        BY <3>1, <3>2
    <2>3. QED
      BY <2>1, <2>2
  <1>3. ASSUME Gone(w), w \notin fresh PROVE Gone(w)'
    BY <1>1, <1>3 DEF Gone
  <1>4. ASSUME w \in walks, ~ Follows(w, s), w \notin fresh PROVE Gone(w)'
    <2>1. w \in walks \ on
      BY <1>4
    <2>2. <<w, s[1], s[2]>> \in lost' /\ <<w, s[1], s[2]>>[1] = w
      BY <1>1, <2>1
    <2>3. QED
      BY <2>2 DEF Gone
  <1>5. QED
    BY <1>1, <1>2, <1>3, <1>4

\* A record of the step is an old one, or that of a walk that leaves the path here.
LEMMA LostAfter ==
    ASSUME NEW s, NEW fresh, Descend(s, fresh), NEW x \in lost'
    PROVE  \/ x \in lost /\ x[1] \notin fresh
           \/ \E w \in walks : /\ w \notin fresh /\ ~ Follows(w, s)
                               /\ x[1] = w /\ x[2] = s[1] /\ x[3] = s[2]
  <1> DEFINE on == {v \in walks : Follows(v, s)} \cup fresh
  <1>1. lost' = {l \in lost : l[1] \notin fresh} \cup {<<v, s[1], s[2]>> : v \in walks \ on}
    BY DEF Descend
  <1>2. CASE x \notin {l \in lost : l[1] \notin fresh}
    <2>1. PICK v \in walks \ on : x = <<v, s[1], s[2]>>
      BY <1>1, <1>2
    <2>2. x[1] = v /\ x[2] = s[1] /\ x[3] = s[2]
      BY <2>1
    <2>3. QED
      BY <2>1, <2>2
  <1>3. QED
    BY <1>2

\* What Sema has not seen stays so, and only a table expression adds to it.
LEMMA UnseenAfter ==
    ASSUME NEW s, NEW fresh, Descend(s, fresh), root' = root, "sema" \notin fresh
    PROVE  Unseen' <=> Unseen \/ ("sema" \in walks /\ s \notin Sema /\ <<s[1], s[2]>> \in Tables)
  <1>1. Reach(root)' = Reach(root) /\ Tables' = Tables
    BY DEF Reach, Tables
  <1>2. ASSUME NEW e \in LostAt("sema")
        PROVE  e \in LostAt("sema")'
    <2>1. PICK x \in lost : x[1] = "sema" /\ e = <<x[2], x[3]>>
      BY <1>2 DEF LostAt
    <2>2. x \in lost'
      BY <2>1 DEF Descend
    <2>3. QED
      BY <2>1, <2>2 DEF LostAt
  <1>3. ASSUME NEW e \in LostAt("sema")'
        PROVE  e \in LostAt("sema") \/ ("sema" \in walks /\ s \notin Sema /\ e = <<s[1], s[2]>>)
    <2>1. PICK x \in lost' : x[1] = "sema" /\ e = <<x[2], x[3]>>
      BY <1>3 DEF LostAt
    <2>2. \/ x \in lost
          \/ "sema" \in walks /\ ~ Follows("sema", s) /\ x[2] = s[1] /\ x[3] = s[2]
      BY <2>1, LostAfter
    <2>3. QED
      BY <2>1, <2>2, FollowsIs DEF LostAt
  <1>4. ASSUME "sema" \in walks, s \notin Sema
        PROVE  <<s[1], s[2]>> \in LostAt("sema")'
    <2>1. "sema" \in walks \ ({w \in walks : Follows(w, s)} \cup fresh)
      BY <1>4, FollowsIs
    <2>2. <<"sema", s[1], s[2]>> \in lost'
      BY <2>1 DEF Descend
    <2>3. QED
      BY <2>2 DEF LostAt
  <1>5. QED
    BY <1>1, <1>2, <1>3, <1>4 DEF Unseen

\* Where Sema is due and no table expression is in the way, it is there.
LEMMA SemaIsThere ==
    ASSUME PassesInv, ~ Unseen, node # "leaf"
    PROVE  "sema" \in walks
  <1>1. \A x \in lost : x[1] # "sema"
    BY DEF PassesInv, Where, Unseen, LostAt
  <1>2. QED
    BY <1>1 DEF PassesInv, Accounted, Gone, Unseen

\* A step down the tree keeps the invariant when capture analysis starts as the
\* first lambda is entered, and the spawn rule at each spawn that Sema visits.
LEMMA Going ==
    ASSUME PassesInv, NEW s \in Slots, s[1] = node, NEW fresh, Descend(s, fresh), root' = root,
           fresh \subseteq {"capture", "spawnref"},
           lambda' \in BOOLEAN, spawned' \in BOOLEAN,
           lambda => lambda', spawned => spawned',
           "capture" \in fresh <=> ~ lambda /\ lambda',
           "spawnref" \in fresh => spawned' /\ "sema" \in walks /\ s \in Sema,
           spawned' => spawned \/ "spawnref" \in fresh \/ Unseen,
           <<s[1], s[2]>> = <<"Spawn", "body">> => "spawnref" \notin walks \/ "spawnref" \in fresh,
           s[3] = "leaf" <=> node' = "leaf"
    PROVE  PassesInv'
  <1>1. node # "leaf" /\ "sema" \notin fresh /\ "locate" \notin fresh /\ "dump" \notin fresh
    BY LeafIsLast
  <1>2. Reach(root)' = Reach(root)
    BY DEF Reach
  <1>3. /\ "sema" \in walks' <=> "sema" \in walks /\ s \in Sema
        /\ Gone("sema")' <=> Gone("sema") \/ ("sema" \in walks /\ s \notin Sema)
        /\ "locate" \in walks' <=> "locate" \in walks /\ s \in Locate
        /\ Gone("locate")' <=> Gone("locate") \/ ("locate" \in walks /\ s \notin Locate)
        /\ "dump" \in walks' <=> "dump" \in walks /\ s \in Dump
    BY <1>1, WalkAfter, FollowsIs
  <1>4. Unseen' <=> Unseen \/ ("sema" \in walks /\ s \notin Sema /\ <<s[1], s[2]>> \in Tables)
    BY <1>1, UnseenAfter
  <1>5. "spawnref" \in walks => ~ Unseen /\ "sema" \in walks
    BY <1>1, SemaIsThere DEF PassesInv, Accounted
  <1>6. "spawnref" \in walks /\ s \notin SpawnRef /\ "spawnref" \notin fresh
            => Unseen' \/ <<s[1], s[2]>> \in SpawnStops
    <2> SUFFICES ASSUME "spawnref" \in walks, s \notin SpawnRef, "spawnref" \notin fresh,
                        <<s[1], s[2]>> \in Tables
                 PROVE  Unseen'
      BY SpawnRefMisses
    <2>1. "sema" \in walks
      BY <1>5
    <2>2. s \notin Sema
      <3>1. s \in TableSlots
        <4>1. s[1] \in {"Query", "Insert", "Update", "Delete"}
          BY DEF Tables
        <4>2. \A x \in StatementSlots \cup DeclarationSlots \cup TaskSlots : x[1] # s[1]
          BY <4>1 DEF StatementSlots, DeclarationSlots, TaskSlots
        <4>3. \A x \in CallSlots \cup AccessSlots : x[1] # s[1]
          BY <4>1 DEF CallSlots, AccessSlots
        <4>4. \A x \in ValueSlots : x[1] # s[1]
          BY <4>1 DEF ValueSlots
        <4>5. QED
          BY <4>2, <4>3, <4>4, Grouped
      <3>2. QED
        BY <3>1, TableUnseen
    <2>3. QED
      BY <1>4, <2>1, <2>2
  <1>7. Accounted'
    <2>1. /\ "sema" \in walks' <=> "sema" \in Reach(root)' /\ ~ Gone("sema")'
          /\ "locate" \in walks' <=> "locate" \in Reach(root)' /\ ~ Gone("locate")'
      BY <1>2, <1>3 DEF PassesInv, Accounted
    <2>2. ~ lambda' => "capture" \notin walks' /\ ~ Gone("capture")'
      BY WalkAfter DEF PassesInv, Accounted
    <2>3. lambda' => ("capture" \in walks' <=> ~ Gone("capture")')
      BY WalkAfter DEF PassesInv, Accounted
    <2>4. ~ spawned' => "spawnref" \notin walks'
      BY WalkAfter DEF PassesInv, Accounted
    <2>5. ASSUME spawned' PROVE "spawnref" \in walks' <=> ~ Unseen' /\ ~ Gone("spawnref")'
      <3>1. CASE "spawnref" \in fresh
        <4>1. "spawnref" \in walks' /\ ~ Gone("spawnref")' /\ "sema" \in walks'
          BY <1>3, <3>1, WalkAfter
        <4>2. ~ Gone("sema")' /\ "sema" \in Reach(root)'
          BY <2>1, <4>1
        <4>3. QED
          BY <4>1, <4>2 DEF Unseen, LostAt, Gone
      <3>2. CASE "spawnref" \notin fresh /\ "spawnref" \in walks
        <4>1. ~ Unseen /\ ~ Gone("spawnref")
          BY <3>2 DEF PassesInv, Accounted
        <4>2. s \in SpawnRef => ~ Unseen'
          BY <1>4, <4>1, SpawnRefNoTable
        <4>3. QED
          BY <3>2, <4>1, <4>2, WalkAfter, FollowsIs
      <3>3. CASE "spawnref" \notin fresh /\ "spawnref" \notin walks
        <4>1. "spawnref" \notin walks' /\ (Gone("spawnref")' <=> Gone("spawnref"))
          BY <3>3, WalkAfter
        <4>2. Unseen \/ Gone("spawnref")
          BY <2>5, <3>3 DEF PassesInv, Accounted
        <4>3. QED
          BY <1>4, <4>1, <4>2
      <3>4. QED
        BY <3>1, <3>2, <3>3
    <2>6. QED
      BY <2>1, <2>2, <2>3, <2>4, <2>5 DEF Accounted
  <1>8. ASSUME NEW x \in lost'
        PROVE  /\ x[1] = "capture" => <<x[2], x[3]>> \in CaptureStops
               /\ x[1] = "spawnref" => Unseen' \/ <<x[2], x[3]>> \in SpawnStops
               /\ x[1] = "sema" => node' = "leaf" \/ <<x[2], x[3]>> \in Tables
               /\ x[1] = "locate" => node' = "leaf" \/ <<x[2], x[3]>> \in LocateStops
    <2>1. CASE x \in lost
      BY <1>1, <1>4, <2>1 DEF PassesInv, Where
    <2>2. CASE x \notin lost
      <3>1. PICK w \in walks : /\ w \notin fresh /\ ~ Follows(w, s)
                               /\ x[1] = w /\ x[2] = s[1] /\ x[3] = s[2]
        BY <2>2, LostAfter
      <3>2. w = "capture" => <<s[1], s[2]>> \in CaptureStops
        BY <3>1, FollowsIs, CaptureMisses
      <3>3. w = "spawnref" => Unseen' \/ <<s[1], s[2]>> \in SpawnStops
        BY <1>6, <3>1, FollowsIs
      <3>4. w = "sema" => node' = "leaf" \/ <<s[1], s[2]>> \in Tables
        BY <3>1, FollowsIs, SemaMisses
      <3>5. w = "locate" => node' = "leaf" \/ <<s[1], s[2]>> \in LocateStops
        BY <3>1, FollowsIs, LocateMisses
      <3>6. QED
        BY <3>1, <3>2, <3>3, <3>4, <3>5
    <2>3. QED
      BY <2>1, <2>2
  <1>9. node' = "leaf" => "sema" \notin walks' /\ "locate" \notin walks'
    BY <1>3, LeafMissed
  <1>10. Where'
    BY <1>8, <1>9 DEF Where, CaptureStops, SpawnStops, LocateStops, Tables
  <1>11. "locate" \in walks' <=> "dump" \in walks'
    BY <1>3, LocateIsDump DEF PassesInv
  <1>12. QED
    BY <1>7, <1>10, <1>11 DEF PassesInv

\* A child that is not the body of a nested function.
LEMMA StepChild ==
    ASSUME PassesInv, NEW s \in Slots, NEW k, Child(s, k)
    PROVE  PassesInv'
  <1>1. /\ s[1] = node /\ k \in Kinds(s[3]) /\ Descend(s, {}) /\ node' = k /\ s[1] # "Spawn"
        /\ UNCHANGED <<root, nested, spawned, lambda>>
    BY DEF Child
  <1>2. s[3] = "leaf" <=> node' = "leaf"
    BY <1>1, LeafIsLast DEF Kinds
  <1>3. lambda' \in BOOLEAN /\ spawned' \in BOOLEAN /\ (lambda' <=> lambda) /\ (spawned' <=> spawned)
    BY <1>1 DEF PassesInv
  <1>4. <<s[1], s[2]>> # <<"Spawn", "body">>
    BY <1>1
  <1>5. QED
    BY <1>1, <1>2, <1>3, <1>4, Going

\* genLambdaExpression.
LEMMA StepLambda ==
    ASSUME PassesInv, EnterLambda
    PROVE  PassesInv'
  <1> DEFINE s == <<"Lambda", "body", "Block">>
             fresh == IF lambda THEN {} ELSE {"capture"}
  <1>1. s \in Slots /\ s[1] = "Lambda" /\ s[2] = "body" /\ s[3] = "Block"
    BY DEF Slots, ValueSlots
  <1>2. /\ Descend(s, fresh) /\ node = "Lambda" /\ node' = "Block" /\ lambda' = TRUE
        /\ spawned' = spawned /\ root' = root
    BY DEF EnterLambda
  <1>3. lambda \in BOOLEAN /\ spawned \in BOOLEAN
    BY DEF PassesInv
  <1>4. /\ fresh \subseteq {"capture", "spawnref"} /\ "spawnref" \notin fresh
        /\ "capture" \in fresh <=> ~ lambda
    BY <1>3
  <1> HIDE DEF s, fresh
  <1>5. /\ lambda' \in BOOLEAN /\ spawned' \in BOOLEAN /\ lambda' /\ (spawned' <=> spawned)
    BY <1>2, <1>3
  <1>6. <<s[1], s[2]>> # <<"Spawn", "body">>
    BY <1>1
  <1>7. QED
    BY <1>1, <1>2, <1>4, <1>5, <1>6, Going

\* genSpawnStatement, and the spawn rule if Sema comes here.
LEMMA StepSpawn ==
    ASSUME PassesInv, EnterSpawn
    PROVE  PassesInv'
  <1> DEFINE s == <<"Spawn", "body", "Block">>
             fresh == IF "sema" \in walks THEN {"spawnref"} ELSE {}
  <1>1. s \in Slots /\ s[1] = "Spawn" /\ s[2] = "body" /\ s[3] = "Block"
    BY DEF Slots, TaskSlots
  <1>2. /\ Descend(s, fresh) /\ node = "Spawn" /\ node' = "Block" /\ spawned' = TRUE
        /\ lambda' = lambda /\ root' = root
    BY DEF EnterSpawn
  <1>3. lambda \in BOOLEAN /\ spawned \in BOOLEAN
    BY DEF PassesInv
  <1>4. /\ fresh \subseteq {"capture", "spawnref"} /\ "capture" \notin fresh
        /\ "spawnref" \in fresh <=> "sema" \in walks
    OBVIOUS
  <1>5. s \in Sema
    BY <1>1 DEF Sema, SemaValues, Of
  <1> HIDE DEF s, fresh
  <1>6. /\ lambda' \in BOOLEAN /\ spawned' \in BOOLEAN /\ spawned' /\ (lambda' <=> lambda)
    BY <1>2, <1>3
  <1>7. Unseen \/ "spawnref" \in fresh
    BY <1>2, <1>4, SemaIsThere
  <1>8. "spawnref" \notin walks \/ "spawnref" \in fresh
    BY <1>7 DEF PassesInv, Accounted
  <1>9. QED
    BY <1>1, <1>2, <1>4, <1>5, <1>6, <1>7, <1>8, Going

\* genEventHandler.
LEMMA StepHandler ==
    ASSUME PassesInv, EnterHandler
    PROVE  PassesInv'
  <1> DEFINE s == <<"Event", "body", "Block">>
  <1>1. s \in Slots /\ s[1] = "Event" /\ s[2] = "body" /\ s[3] = "Block"
    BY DEF Slots, TaskSlots
  <1>2. /\ Descend(s, {}) /\ node = "Event" /\ node' = "Block"
        /\ UNCHANGED <<root, spawned, lambda>>
    BY DEF EnterHandler
  <1> HIDE DEF s
  <1>3. lambda' \in BOOLEAN /\ spawned' \in BOOLEAN /\ (lambda' <=> lambda) /\ (spawned' <=> spawned)
    BY <1>2 DEF PassesInv
  <1>4. <<s[1], s[2]>> # <<"Spawn", "body">>
    BY <1>1
  <1>5. QED
    BY <1>1, <1>2, <1>3, <1>4, Going

\* A path starts at one of the roots with the walks that start there.
LEMMA AtRoot ==
    /\ Init => PassesInv
    /\ Found => PassesInv'
  <1>1. ASSUME NEW r \in Roots, NEW k \in Entry(r)
        PROVE  /\ k # "leaf"
               /\ "locate" \in Reach(r) <=> "dump" \in Reach(r)
               /\ "capture" \notin Reach(r) /\ "spawnref" \notin Reach(r)
    BY LeafIsLast DEF Entry, Reach, Roots
  <1>2. ASSUME Init PROVE PassesInv
    <2>1. PICK r \in Roots : root = r /\ node \in Entry(r) /\ walks = Reach(r)
      BY <1>2 DEF Init
    <2>2. QED
      BY <1>1, <1>2, <2>1 DEF Init, PassesInv, Accounted, Where, Gone
  <1>3. ASSUME Found PROVE PassesInv'
    <2>1. PICK r \in Roots : root' = r /\ node' \in Entry(r) /\ walks' = Reach(r)
      BY <1>3 DEF Found
    <2>2. Reach(root)' = Reach(r)
      BY <2>1 DEF Reach
    <2>3. lambda' = FALSE /\ spawned' = FALSE /\ lost' = {}
      BY <1>3 DEF Found
    <2>4. Accounted'
      BY <1>1, <2>1, <2>2, <2>3 DEF Accounted, Gone
    <2>5. Where'
      BY <1>1, <2>1, <2>3 DEF Where
    <2>6. QED
      BY <1>1, <2>1, <2>3, <2>4, <2>5 DEF PassesInv
  <1>4. QED
    BY <1>2, <1>3

\* The invariant holds in every state.
LEMMA PassesInvariance == Spec => []PassesInv
  <1>1. ASSUME PassesInv, [Next]_vars
        PROVE  PassesInv'
    <2>1. CASE UNCHANGED vars
      BY <1>1, <2>1 DEF vars, PassesInv, Accounted, Where, Gone, Unseen, LostAt, Reach,
         CaptureStops, SpawnStops, LocateStops, Tables
    <2>2. CASE Next
      BY <1>1, <2>2, StepChild, StepLambda, StepSpawn, StepHandler, AtRoot DEF Next
    <2>3. QED
      BY <1>1, <2>1, <2>2
  <1>2. QED
    BY <1>1, AtRoot, PTL DEF Spec

\* What Gone and LostAt have to do with each other.
LEMMA GoneAt ==
    ASSUME NEW w, NEW S, \A x \in lost : x[1] = w => <<x[2], x[3]>> \in S
    PROVE  Gone(w) <=> LostAt(w) \cap S # {}
  <1>1. ASSUME NEW x \in lost, x[1] = w
        PROVE  <<x[2], x[3]>> \in LostAt(w) \cap S
    BY <1>1 DEF LostAt
  <1>2. ASSUME NEW e \in LostAt(w)
        PROVE  Gone(w)
    BY <1>2 DEF LostAt, Gone
  <1>3. QED
    BY <1>1, <1>2 DEF Gone

\* However deep the lambdas nest: a variable that a lambda's code uses and that
\* collectReferencedVars did not find is below a constructor argument, the value
\* of an expression arm or a table expression, and whatever is below one of
\* those is not found.
THEOREM Captured == Spec => []CaptureComplete
  <1>1. PassesInv => CaptureComplete
    <2> SUFFICES ASSUME PassesInv, lambda
                 PROVE  "capture" \notin walks <=> LostAt("capture") \cap CaptureStops # {}
      BY DEF CaptureComplete, CaptureStops
    <2>1. "capture" \in walks <=> ~ Gone("capture")
      BY DEF PassesInv, Accounted
    <2>2. \A x \in lost : x[1] = "capture" => <<x[2], x[3]>> \in CaptureStops
      BY DEF PassesInv, Where
    <2>3. QED
      BY <2>1, <2>2, GoneAt
  <1>2. QED
    BY <1>1, PassesInvariance, PTL

\* However deep the spawns nest: the spawn rule misses an occurrence of a variable
\* in a spawned body exactly if Sema does not come there (a test block, an imported
\* generic body, a table expression) or the occurrence is below one of the forms
\* at which the collectSpawnRefs of the innermost spawn stops.
THEOREM Seen == Spec => []SpawnRuleSeesAll
  <1>1. PassesInv => SpawnRuleSeesAll
    <2> SUFFICES ASSUME PassesInv, spawned
                 PROVE  "spawnref" \notin walks <=> Unseen \/ LostAt("spawnref") \cap SpawnStops # {}
      BY DEF SpawnRuleSeesAll, SpawnStops
    <2>1. "spawnref" \in walks <=> ~ Unseen /\ ~ Gone("spawnref")
      BY DEF PassesInv, Accounted
    <2>2. ASSUME ~ Unseen
          PROVE  Gone("spawnref") <=> LostAt("spawnref") \cap SpawnStops # {}
      <3>1. \A x \in lost : x[1] = "spawnref" => <<x[2], x[3]>> \in SpawnStops
        BY <2>2 DEF PassesInv, Where
      <3>2. QED
        BY <3>1, GoneAt
    <2>3. QED
      BY <2>1, <2>2
  <1>2. QED
    BY <1>1, PassesInvariance, PTL

\* At any depth, of what is generated exactly this is not analysed: test blocks
\* and imported generic bodies, table expressions and names in nodes; and exactly
\* this is not found from its position: imported generic bodies, table expressions,
\* names in nodes and expression arms.  The dump of locations reaches exactly what
\* the editor does.
THEOREM Analysed == Spec => []GeneratedIsAnalysed
  <1>1. PassesInv => GeneratedIsAnalysed
    <2> SUFFICES ASSUME PassesInv, "gen" \in walks
                 PROVE  /\ "sema" \notin walks <=> root \in {"test", "imported"} \/ node = "leaf"
                                                    \/ LostAt("sema") \cap Tables # {}
                        /\ "locate" \notin walks <=> root = "imported" \/ node = "leaf"
                                                    \/ LostAt("locate") \cap LocateStops # {}
                        /\ "locate" \in walks <=> "dump" \in walks
      BY DEF GeneratedIsAnalysed, LocateStops
    <2>1. /\ "sema" \in walks <=> "sema" \in Reach(root) /\ ~ Gone("sema")
          /\ "locate" \in walks <=> "locate" \in Reach(root) /\ ~ Gone("locate")
      BY DEF PassesInv, Accounted
    <2>2. /\ "sema" \in Reach(root) <=> root \notin {"test", "imported"}
          /\ "locate" \in Reach(root) <=> root # "imported"
      BY DEF PassesInv, Roots, Reach
    <2>3. node = "leaf" => "sema" \notin walks /\ "locate" \notin walks
      BY DEF PassesInv, Where
    <2>4. ASSUME node # "leaf"
          PROVE  /\ Gone("sema") <=> LostAt("sema") \cap Tables # {}
                 /\ Gone("locate") <=> LostAt("locate") \cap LocateStops # {}
      <3>1. /\ \A x \in lost : x[1] = "sema" => <<x[2], x[3]>> \in Tables
            /\ \A x \in lost : x[1] = "locate" => <<x[2], x[3]>> \in LocateStops
        BY <2>4 DEF PassesInv, Where
      <3>2. QED
        BY <3>1, GoneAt
    <2>5. /\ LostAt("sema") \cap Tables # {} => Gone("sema")
          /\ LostAt("locate") \cap LocateStops # {} => Gone("locate")
      BY DEF LostAt, Gone
    <2>6. "locate" \in walks <=> "dump" \in walks
      BY DEF PassesInv
    <2>7. QED
      BY <2>1, <2>2, <2>3, <2>4, <2>5, <2>6
  <1>2. QED
    BY <1>1, PassesInvariance, PTL

-----------------------------------------------------------------------------
\* Types.tla.

\* The types that programs have: the names of generic types and then that of a
\* simple one; the argument of Box is string.
TypeNames == {"int", "string", "S", "Box", "Array", "Option", "fn"}
GoodType(t) ==
    /\ t \in Seq(TypeNames) /\ Len(t) >= 1
    /\ \A i \in 1 .. Len(t) :
          /\ i = Len(t) <=> t[i] \in {"int", "string", "S"}
          /\ t[i] = "Box" => t[i + 1] = "string"

\* An annotation says nothing, or all, or the name of the generic type only, or
\* something of an array whose elements are of the type of another declaration.
AnnIs(ann, ty) ==
    \/ ann = None \/ ann = ty \/ ann = <<Head(ty)>>
    \/ ann = <<"Array", "T">> /\ Head(ty) = "Array"
    \/ ann = <<"T">> \/ ann = <<"var">>
    \/ ann = <<"self">> /\ Head(ty) \in Structs
    \/ ann = <<"bool">> /\ ty = <<"int">>

\* A type that the generator derives for a member.
DerivedIs(cg, ty) ==
    \/ cg = None \/ cg = ty
    \/ cg = <<"T">> /\ ctx # "Box"
    \/ cg = <<"Array", "T">> /\ ty = <<"Array", "string">>

FieldIs(v) ==
    /\ v.ann # None => v.ann = v.ty /\ v.cg = v.ty
    /\ DerivedIs(v.cg, v.ty)
    /\ v.str <=> Named(v.cg, "string")
    /\ v.arr <=> Named(v.cg, "Array")
VariableIs(v) ==
    /\ v.ann # None /\ v.cg = v.ann
    /\ v.str <=> Named(Sub(v.ann), "string")
    /\ v.arr <=> Named(Sub(v.ann), "Array")
SelfIs(v) ==
    /\ ctx # "fn" /\ v.ty = SelfType /\ v.ann = <<"self">> /\ v.cg = <<"self">>
    /\ ~ v.str /\ ~ v.arr

Receivers == {"self", "var", "field", "call", "method", "index", "struct", "match"}
Others == {"literal", "indirect", "pipeline", "await", "builtin", "operation", "array",
           "enum", "query", "try"}
FormIs(v) ==
    /\ v.form \in Receivers \cup Others
    /\ v.form = "self" => SelfIs(v)
    /\ v.form = "var" => VariableIs(v)
    /\ v.form = "field" => FieldIs(v)
    /\ v.form = "call" => v.cg = v.ann /\ v.ann # None
    /\ v.form \in Others => StructForType(v.ann) = "none"

\* The parts of the properties that are about one operand.
Unmistaken(v) ==
    \/ (v.str => v.ty = Str) /\ (v.arr => Named(v.ty, "Array"))
    \/ ctx = "Box" /\ Named(v.ann, "T")
Used(v) ==
    v.ann = v.ty =>
        /\ v.ty = Str => v.str \/ v.form \in {"indirect", "index"}
        /\ Named(v.ty, "Array") => v.arr \/ v.form \in {"query", "index", "operation"}

OpdOK(v) == GoodType(v.ty) /\ AnnIs(v.ann, v.ty) /\ FormIs(v) /\ Unmistaken(v)

Contexts == {"fn", "S", "Box"}
Operands == \E S : /\ opd \in Seq(S) /\ \A w \in S : OpdOK(w)
                   /\ Sound => \A w \in S : Used(w)
TypesInv == ctx \in Contexts /\ Operands /\ MethodCallsKept /\ NoFalseRejection

-----------------------------------------------------------------------------
\* Types.

\* A type has a name in front.
LEMMA GoodHead ==
    ASSUME NEW t, GoodType(t)
    PROVE  t # <<>> /\ Head(t) = t[1] /\ Head(t) \in TypeNames
  BY DEF GoodType

\* A sequence of length one is its element.
LEMMA Single ==
    ASSUME NEW S, NEW w \in Seq(S), Len(w) = 1, NEW a, w[1] = a
    PROVE  w = <<a>>
  OBVIOUS

\* int, string and S have no parameters.
LEMMA Simple ==
    ASSUME NEW t, GoodType(t), NEW a \in {"int", "string", "S"}, Head(t) = a
    PROVE  t = <<a>>
  <1>1. t \in Seq(TypeNames) /\ Len(t) \in Nat /\ 1 \in 1 .. Len(t) /\ t[1] = a
    BY DEF GoodType
  <1>2. Len(t) = 1
    BY <1>1 DEF GoodType
  <1>3. QED
    BY <1>1, <1>2, Single

\* The only instance of Box is Box<string>.
LEMMA BoxOfString ==
    ASSUME NEW t, GoodType(t), Head(t) = "Box"
    PROVE  t = <<"Box", "string">>
  <1>1. t \in Seq(TypeNames) /\ Len(t) \in Nat /\ 1 \in 1 .. Len(t) /\ t[1] = "Box"
    BY DEF GoodType
  <1>2. 1 # Len(t) /\ t[2] = "string"
    BY <1>1 DEF GoodType
  <1>3. 2 \in 1 .. Len(t)
    <2>1. PICK n \in Nat : n = Len(t)
      BY <1>1
    <2>2. n >= 1 /\ n # 1
      BY <1>1, <1>2, <2>1
    <2>3. QED
      BY <2>1, <2>2
  <1>4. Len(t) = 2
    BY <1>2, <1>3 DEF GoodType
  <1>5. QED
    BY <1>1, <1>2, <1>4

\* What an array, an option or a function is of is a type.
LEMMA Inside ==
    ASSUME NEW t, GoodType(t), Head(t) \in {"Array", "Option", "fn"}
    PROVE  Params(t) = Tail(t) /\ GoodType(Tail(t))
  <1>1. t \in Seq(TypeNames) /\ Len(t) \in Nat /\ 1 \in 1 .. Len(t) /\ t # <<>> /\ t[1] = Head(t)
    BY DEF GoodType
  <1>2. Len(t) # 1
    BY <1>1 DEF GoodType
  <1>3. PICK u \in Seq(TypeNames) : /\ u = Tail(t) /\ Len(u) = Len(t) - 1
                                    /\ \A i \in 1 .. Len(u) : u[i] = t[i + 1]
    <2>1. /\ Tail(t) \in Seq(TypeNames) /\ Len(Tail(t)) = Len(t) - 1
          /\ \A i \in 1 .. Len(Tail(t)) : Tail(t)[i] = t[i + 1]
      BY <1>1, HeadTailProperties
    <2>2. QED
      BY <2>1
  <1>4. Len(u) \in Nat /\ Len(u) >= 1
    BY <1>1, <1>2, <1>3
  <1>5. ASSUME NEW i \in 1 .. Len(u)
        PROVE  /\ i = Len(u) <=> u[i] \in {"int", "string", "S"}
               /\ u[i] = "Box" => u[i + 1] = "string"
    <2>1. i + 1 \in 1 .. Len(t) /\ (i = Len(u) <=> i + 1 = Len(t)) /\ u[i] = t[i + 1]
      BY <1>1, <1>3, <1>4
    <2>2. /\ i + 1 = Len(t) <=> t[i + 1] \in {"int", "string", "S"}
          /\ t[i + 1] = "Box" => t[i + 1 + 1] = "string"
      BY <2>1 DEF GoodType
    <2>3. i # Len(u) => i + 1 \in 1 .. Len(u)
      BY <1>4
    <2>4. i # Len(u) => u[i + 1] = t[i + 1 + 1]
      BY <1>3, <2>3
    <2>5. QED
      BY <2>1, <2>2, <2>4
  <1>6. GoodType(u)
    BY <1>4, <1>5 DEF GoodType
  <1>7. QED
    BY <1>1, <1>3, <1>6 DEF Params, None

\* The array and the option of a type are types.
LEMMA Wrapped ==
    ASSUME NEW t, GoodType(t), NEW n \in {"Array", "Option"}
    PROVE  GoodType(<<n>> \o t) /\ Head(<<n>> \o t) = n
  <1>1. t \in Seq(TypeNames) /\ Len(t) \in Nat /\ Len(t) >= 1
    BY DEF GoodType
  <1>2. PICK w \in Seq(TypeNames) : /\ w = <<n>> \o t /\ Len(w) = Len(t) + 1 /\ w[1] = n
                                    /\ \A i \in 2 .. Len(w) : w[i] = t[i - 1]
    <2>1. <<n>> \in Seq(TypeNames) /\ Len(<<n>>) = 1 /\ <<n>>[1] = n
      BY DEF TypeNames
    <2>2. /\ <<n>> \o t \in Seq(TypeNames) /\ Len(<<n>> \o t) = 1 + Len(t)
          /\ \A i \in 1 .. Len(<<n>>) + Len(t) :
                (<<n>> \o t)[i] = IF i <= Len(<<n>>) THEN <<n>>[i] ELSE t[i - Len(<<n>>)]
      BY <1>1, <2>1, ConcatProperties
    <2>3. PICK w : w = <<n>> \o t
      OBVIOUS
    <2>4. w \in Seq(TypeNames) /\ Len(w) = Len(t) + 1
      BY <1>1, <2>2, <2>3
    <2>5. \A i \in 1 .. 1 + Len(t) : w[i] = IF i <= 1 THEN <<n>>[i] ELSE t[i - 1]
      BY <2>1, <2>2, <2>3
    <2>6. w[1] = n
      BY <1>1, <2>1, <2>5
    <2>7. ASSUME NEW i \in 2 .. Len(w) PROVE w[i] = t[i - 1]
      BY <1>1, <2>4, <2>5
    <2>8. QED
      BY <2>3, <2>4, <2>6, <2>7
  <1>3. ASSUME NEW i \in 1 .. Len(w)
        PROVE  /\ i = Len(w) <=> w[i] \in {"int", "string", "S"}
               /\ w[i] = "Box" => w[i + 1] = "string"
    <2>1. CASE i = 1
      BY <1>1, <1>2, <2>1
    <2>2. CASE i # 1
      <3>1. PICK j \in 1 .. Len(t) : i = j + 1 /\ w[i] = t[j]
        <4>1. i - 1 \in 1 .. Len(t) /\ i = (i - 1) + 1 /\ i \in 2 .. Len(w)
          BY <1>1, <1>2, <2>2
        <4>2. QED
          BY <1>2, <4>1
      <3>2. i # Len(w) => i + 1 \in 2 .. Len(w) /\ (i + 1) - 1 = j + 1
        BY <1>1, <1>2, <3>1
      <3>3. i # Len(w) => w[i + 1] = t[j + 1]
        BY <1>2, <3>2
      <3>4. /\ j = Len(t) <=> t[j] \in {"int", "string", "S"}
            /\ t[j] = "Box" => t[j + 1] = "string"
        BY DEF GoodType
      <3>5. j = Len(t) <=> i = Len(w)
        BY <1>1, <1>2, <3>1
      <3>6. QED
        BY <3>1, <3>3, <3>4, <3>5
    <2>3. QED
      BY <2>1, <2>2
  <1>4. GoodType(w)
    BY <1>1, <1>2, <1>3 DEF GoodType
  <1>5. QED
    BY <1>1, <1>2, <1>4

\* The types of declarations are types.
LEMMA TypesGood ==
    /\ GoodType(<<"int">>) /\ GoodType(Str) /\ GoodType(<<"S">>) /\ GoodType(<<"Box", "string">>)
    /\ GoodType(<<"Array", "S">>) /\ GoodType(<<"Option", "S">>)
    /\ \A t \in Types : GoodType(t)
  <1>1. GoodType(<<"int">>) /\ GoodType(Str) /\ GoodType(<<"S">>)
    BY DEF GoodType, TypeNames, Str
  <1>2. /\ GoodType(<<"Box", "string">>) /\ GoodType(<<"fn", "string">>)
        /\ GoodType(<<"Option", "string">>) /\ GoodType(<<"Option", "S">>)
        /\ GoodType(<<"Array", "S">>)
    BY DEF GoodType, TypeNames
  <1>3. GoodType(Arr(Str)) /\ GoodType(Arr(<<"S">>)) /\ GoodType(Arr(Arr(Str)))
    BY <1>1, Wrapped DEF Arr
  <1>4. QED
    BY <1>1, <1>2, <1>3 DEF Types

\* Short sequences, written out.
LEMMA Tuples ==
    ASSUME NEW a, NEW b
    PROVE  /\ <<a>> # <<>> /\ Head(<<a>>) = a /\ Tail(<<a>>) = <<>> /\ Len(<<a>>) = 1
           /\ <<a, b>> # <<>> /\ Head(<<a, b>>) = a /\ Tail(<<a, b>>) = <<b>> /\ Len(<<a, b>>) = 2
           /\ <<a>> # <<a, b>> /\ <<b>> # <<a, b>>
  OBVIOUS

\* Two names in a row.
LEMMA Pair ==
    ASSUME NEW a, NEW b
    PROVE  <<a>> \o <<b>> = <<a, b>>
  <1>1. <<a>> \in Seq({a, b}) /\ <<b>> \in Seq({a, b}) /\ <<a, b>> \in Seq({a, b})
    OBVIOUS
  <1>2. /\ <<a>> \o <<b>> \in Seq({a, b})
        /\ Len(<<a>> \o <<b>>) = Len(<<a>>) + Len(<<b>>)
        /\ \A i \in 1 .. Len(<<a>>) + Len(<<b>>) : (<<a>> \o <<b>>)[i] =
                     IF i <= Len(<<a>>) THEN <<a>>[i] ELSE <<b>>[i - Len(<<a>>)]
    BY <1>1, ConcatProperties
  <1>3. PICK w : w = <<a>> \o <<b>>
    OBVIOUS
  <1>4. w \in Seq({a, b}) /\ Len(w) = 2 /\ w[1] = a /\ w[2] = b
    BY <1>2, <1>3
  <1>5. w = <<a, b>>
    BY <1>4
  <1>6. QED
    BY <1>3, <1>5

\* What a field or a method of a value of type t is declared as, d, and is, u.
MemberIs(t, d, u) ==
    \/ t = <<"S">> /\ u = d /\ GoodType(d)
    \/ t = <<"Box", "string">> /\ d = <<"T">> /\ u = Str
    \/ t = <<"Box", "string">> /\ d = <<"Array", "T">> /\ u = <<"Array", "string">>

\* A struct type is S or Box<string>.
LEMMA StructTypes ==
    ASSUME NEW t, GoodType(t), Head(t) \in Structs
    PROVE  (Head(t) = "S" /\ t = <<"S">>) \/ (Head(t) = "Box" /\ t = <<"Box", "string">>)
  <1>1. Head(t) = "S" \/ Head(t) = "Box"
    BY DEF Structs
  <1>2. CASE Head(t) = "S"
    <2>1. t = <<"S">>
      BY <1>2, Simple
    <2>2. QED
      BY <1>2, <2>1
  <1>3. CASE Head(t) = "Box"
    <2>1. t = <<"Box", "string">>
      BY <1>3, BoxOfString
    <2>2. QED
      BY <1>3, <2>1
  <1>4. QED
    BY <1>1, <1>2, <1>3

\* The type of a value mentions no type parameter.
LEMMA NotGeneric ==
    ASSUME NEW t, GoodType(t)
    PROVE  ~ Generic(t) /\ Head(t) # "T" /\ \A x : With(t, x) = t
  <1>1. t # None /\ Len(t) \in 1 .. Len(t)
    BY DEF GoodType, None
  <1>2. t[Len(t)] # "T"
    BY <1>1 DEF GoodType
  <1>3. Head(t) # "T"
    BY GoodHead DEF TypeNames
  <1>4. QED
    BY <1>2, <1>3 DEF Generic, With

\* T and Array<T> with T bound to string.
LEMMA WithBox ==
    /\ Generic(<<"T">>) /\ Generic(<<"Array", "T">>)
    /\ With(<<"T">>, Str) = Str /\ With(<<"Array", "T">>, Str) = <<"Array", "string">>
  <1>1. /\ Len(<<"T">>) = 1 /\ <<"T">>[1] = "T" /\ <<"T">> # <<>>
        /\ Len(<<"Array", "T">>) = 2 /\ <<"Array", "T">>[2] = "T" /\ <<"Array", "T">> # <<>>
    OBVIOUS
  <1>2. Generic(<<"T">>) /\ Generic(<<"Array", "T">>)
    BY <1>1 DEF Generic, None
  <1>3. SubSeq(<<"T">>, 1, 0) = <<>>
    BY SubSeqEmpty
  <1>4. SubSeq(<<"Array", "T">>, 1, 1) = <<"Array">>
    <2>1. <<"Array", "T">> \in Seq({"Array", "T"}) /\ 1 \in 1 .. Len(<<"Array", "T">>) + 1
      OBVIOUS
    <2>2. PICK w : w = SubSeq(<<"Array", "T">>, 1, 1)
      OBVIOUS
    <2>3. w \in Seq({"Array", "T"}) /\ Len(w) = 1 /\ w[1] = "Array"
      BY <2>1, <2>2, SubSeqProperties
    <2>4. QED
      BY <2>2, <2>3, Single
  <1>5. <<>> \o Str = Str
    BY DEF Str
  <1>6. With(<<"T">>, Str) = Str
    <2>1. <<"T">> # None /\ <<"T">>[Len(<<"T">>)] = "T" /\ Len(<<"T">>) - 1 = 0
      BY <1>1 DEF None
    <2>2. With(<<"T">>, Str) = SubSeq(<<"T">>, 1, Len(<<"T">>) - 1) \o Str
      BY <2>1 DEF With
    <2>3. QED
      BY <1>3, <1>5, <2>1, <2>2
  <1>7. With(<<"Array", "T">>, Str) = <<"Array">> \o <<"string">>
    BY <1>1, <1>4 DEF With, None, Str
  <1>8. QED
    BY <1>2, <1>6, <1>7, Pair

\* The fields of S and of Box<string>: declared type and type.
LEMMA FieldsOf ==
    ASSUME NEW t, GoodType(t), Head(t) \in Structs, NEW f \in DOMAIN Fields[Head(t)]
    PROVE  MemberIs(t, Fields[Head(t)][f], With(Fields[Head(t)][f], Params(t)))
  <1>1. CASE Head(t) = "S"
    <2>1. t = <<"S">>
      BY <1>1, StructTypes
    <2>2. Fields["S"] = [s |-> Str, list |-> Arr(Str), box |-> <<"Box", "string">>]
      BY DEF Fields
    <2>3. Fields["S"][f] \in {Str, Arr(Str), <<"Box", "string">>}
      BY <1>1, <2>2
    <2>4. GoodType(Fields["S"][f])
      BY <2>3, TypesGood DEF Types
    <2>5. QED
      BY <1>1, <2>1, <2>4, NotGeneric DEF MemberIs
  <1>2. CASE Head(t) = "Box"
    <2>1. t = <<"Box", "string">> /\ Params(t) = Str
      <3>1. t = <<"Box", "string">>
        BY <1>2, StructTypes
      <3>2. QED
        BY <3>1, Tuples DEF Params, None, Str
    <2>2. Fields["Box"] = [value |-> <<"T">>, items |-> Arr(<<"T">>)]
      BY DEF Fields
    <2>3. Fields["Box"][f] \in {<<"T">>, Arr(<<"T">>)}
      BY <1>2, <2>2
    <2>4. Arr(<<"T">>) = <<"Array", "T">>
      BY Pair DEF Arr
    <2>5. QED
      BY <1>2, <2>1, <2>3, <2>4, WithBox DEF MemberIs
  <1>3. QED
    BY <1>1, <1>2 DEF Structs

\* The same for what their methods return.
LEMMA MethodsOf ==
    ASSUME NEW t, GoodType(t), Head(t) \in Structs, NEW m \in DOMAIN Methods[Head(t)]
    PROVE  MemberIs(t, Methods[Head(t)][m], With(Methods[Head(t)][m], Params(t)))
  <1>1. CASE Head(t) = "S"
    <2>1. t = <<"S">>
      BY <1>1, StructTypes
    <2>2. Methods["S"] = [text |-> Str, names |-> Arr(Str), twin |-> <<"S">>,
                          boxed |-> <<"Box", "string">>, find |-> <<"Option", "string">>]
      BY DEF Methods
    <2>3. Methods["S"][m] \in {Str, Arr(Str), <<"S">>, <<"Box", "string">>, <<"Option", "string">>}
      BY <1>1, <2>2
    <2>4. GoodType(Methods["S"][m])
      BY <2>3, TypesGood DEF Types
    <2>5. QED
      BY <1>1, <2>1, <2>4, NotGeneric DEF MemberIs
  <1>2. CASE Head(t) = "Box"
    <2>1. t = <<"Box", "string">> /\ Params(t) = Str
      <3>1. t = <<"Box", "string">>
        BY <1>2, StructTypes
      <3>2. QED
        BY <3>1, Tuples DEF Params, None, Str
    <2>2. Methods["Box"] = [get |-> <<"T">>, all |-> Arr(<<"T">>)]
      BY DEF Methods
    <2>3. Methods["Box"][m] \in {<<"T">>, Arr(<<"T">>)}
      BY <1>2, <2>2
    <2>4. Arr(<<"T">>) = <<"Array", "T">>
      BY Pair DEF Arr
    <2>5. QED
      BY <1>2, <2>1, <2>3, <2>4, WithBox DEF MemberIs
  <1>3. QED
    BY <1>1, <1>2 DEF Structs

-----------------------------------------------------------------------------
\* Operands.

\* An annotation that names a struct names the struct of the value.
LEMMA StructAnn ==
    ASSUME NEW ann, NEW ty, GoodType(ty), AnnIs(ann, ty), StructForType(ann) # "none"
    PROVE  /\ ann # None /\ Head(ann) = Head(ty) /\ Head(ty) \in Structs
           /\ ann = ty \/ ann = <<Head(ty)>>
  <1>1. ann # None /\ Head(ann) \in Structs
    BY DEF StructForType
  <1>2. \A x : Head(<<x>>) = x
    BY Tuples
  <1>3. Head(<<"Array", "T">>) = "Array"
    BY Tuples
  <1>4. ann = ty \/ ann = <<Head(ty)>>
    BY <1>1, <1>2, <1>3 DEF AnnIs, Structs
  <1>5. QED
    BY <1>1, <1>2, <1>4

\* An annotation that is not about another declaration is read as it is.
LEMMA AnnNames ==
    ASSUME ctx \in Contexts, NEW ann, NEW ty, GoodType(ty), AnnIs(ann, ty)
    PROVE  /\ Named(Sub(ann), "string") => ty = Str \/ (ctx = "Box" /\ Named(ann, "T"))
           /\ Named(Sub(ann), "Array") => Named(ty, "Array") \/ (ctx = "Box" /\ Named(ann, "T"))
           /\ ann = ty => Sub(ann) = ty
           /\ ty # None
  <1>1. ty # None /\ Head(ty) # "T" /\ Head(ty) \in TypeNames
    BY GoodHead, NotGeneric DEF None
  <1>2. \A x : Head(<<x>>) = x
    BY Tuples
  <1>3. Head(<<"Array", "T">>) = "Array"
    BY Tuples
  <1>4. CASE ctx = "Box" /\ Named(ann, "T")
    <2>1. ann # ty
      BY <1>1, <1>4 DEF Named
    <2>2. QED
      BY <1>1, <1>4, <2>1
  <1>5. CASE ~ (ctx = "Box" /\ Named(ann, "T"))
    <2>1. Sub(ann) = ann
      BY <1>5 DEF Sub
    <2>2. Named(ann, "string") => Head(ty) = "string"
      BY <1>2, <1>3 DEF AnnIs, Named, None
    <2>3. Named(ann, "Array") => Head(ty) = "Array"
      BY <1>2, <1>3 DEF AnnIs, Named, None
    <2>4. Head(ty) = "string" => ty = Str
      BY Simple DEF Str
    <2>5. QED
      BY <1>1, <2>1, <2>2, <2>3, <2>4 DEF Named
  <1>6. QED
    BY <1>4, <1>5

\* A declared variable: its annotation is the declaration.
LEMMA NewVariable ==
    ASSUME ctx \in Contexts, NEW ty, NEW ann, GoodType(ty), AnnIs(ann, ty), ann # None,
           NEW v, v = Declared(ty, ann)
    PROVE  OpdOK(v) /\ Used(v)
  <1>1. /\ v.form = "var" /\ v.ty = ty /\ v.ann = ann /\ v.cg = ann
        /\ v.str = Named(Sub(ann), "string") /\ v.arr = Named(Sub(ann), "Array")
    BY DEF Declared, Opd
  <1>2. FormIs(v)
    BY <1>1 DEF FormIs, Receivers, Others, VariableIs
  <1>3. Unmistaken(v)
    BY <1>1, AnnNames DEF Unmistaken
  <1>4. Used(v)
    <2>1. v.ann = v.ty => Sub(ann) = ty
      BY <1>1, AnnNames
    <2>2. Str # None /\ Head(Str) = "string"
      BY Tuples DEF Str, None
    <2>3. QED
      BY <1>1, <2>1, <2>2 DEF Used, Named
  <1>5. QED
    BY <1>1, <1>2, <1>3, <1>4 DEF OpdOK

\* The substitution of T leaves a type alone.
LEMMA SubOfGood ==
    ASSUME NEW t, GoodType(t)
    PROVE  Sub(t) = t
  BY NotGeneric DEF Sub, Named

\* Derived types are never mistaken.
LEMMA DerivedNames ==
    ASSUME NEW cg, NEW ty, GoodType(ty), DerivedIs(cg, ty)
    PROVE  /\ Named(cg, "string") => ty = Str
           /\ Named(cg, "Array") => Named(ty, "Array")
           /\ StructForType(Sub(cg)) # "none" => cg = ty /\ Sub(cg) = ty
  <1>1. ty # None /\ Sub(ty) = ty
    BY GoodHead, SubOfGood DEF None
  <1>2. Head(<<"T">>) = "T" /\ Head(<<"Array", "T">>) = "Array" /\ Head(<<"Array", "string">>) = "Array"
    BY Tuples
  <1>3. Named(ty, "string") => ty = Str
    BY Simple DEF Named, Str
  <1>4. CASE cg = None
    BY <1>4 DEF Named, StructForType, Sub
  <1>5. CASE cg = ty
    BY <1>1, <1>3, <1>5
  <1>6. CASE cg = <<"T">> /\ ctx # "Box"
    BY <1>2, <1>6 DEF Named, StructForType, Sub, Structs
  <1>7. CASE cg = <<"Array", "T">> /\ ty = <<"Array", "string">>
    BY <1>1, <1>2, <1>7 DEF Named, StructForType, Sub, Structs
  <1>8. QED
    BY <1>4, <1>5, <1>6, <1>7 DEF DerivedIs

\* A member's declared type, with T substituted, is its type or says less.
LEMMA SubMember ==
    ASSUME ctx \in Contexts, NEW t, NEW d, NEW u, MemberIs(t, d, u)
    PROVE  GoodType(u) /\ DerivedIs(Sub(d), u) /\ (Sub(d) = d => DerivedIs(d, u))
  <1>1. CASE t = <<"S">> /\ u = d /\ GoodType(d)
    BY <1>1, SubOfGood DEF DerivedIs
  <1>2. CASE t = <<"Box", "string">> /\ d = <<"T">> /\ u = Str
    <2>1. Named(d, "T")
      BY <1>2, Tuples DEF Named, None
    <2>2. Sub(d) = IF ctx = "Box" THEN Str ELSE d
      BY <2>1 DEF Sub
    <2>3. QED
      BY <1>2, <2>2, TypesGood DEF DerivedIs
  <1>3. CASE t = <<"Box", "string">> /\ d = <<"Array", "T">> /\ u = <<"Array", "string">>
    <2>1. ~ Named(d, "T")
      BY <1>3, Tuples DEF Named, None
    <2>2. Sub(d) = d
      BY <2>1 DEF Sub
    <2>3. u = Arr(Str)
      BY <1>3, Pair DEF Arr, Str
    <2>4. QED
      BY <1>3, <2>2, <2>3, TypesGood DEF DerivedIs, Types
  <1>4. QED
    BY <1>1, <1>2, <1>3 DEF MemberIs

\* The argument of a struct's annotation is that of its type.
LEMMA ParamsAnn ==
    ASSUME NEW ann, NEW ty, GoodType(ty), AnnIs(ann, ty), Head(ty) \in Structs, Params(ann) # None
    PROVE  ann = ty
  <1>1. \A x : Params(<<x>>) = None
    BY Tuples DEF Params, None
  <1>2. Params(None) = None
    BY DEF Params
  <1>3. Head(ty) # "Array"
    BY DEF Structs
  <1>4. QED
    BY <1>1, <1>2, <1>3 DEF AnnIs

\* The substitution does not turn an annotation into a struct's.
LEMMA SubAnn ==
    ASSUME ctx \in Contexts, NEW ann, NEW ty, GoodType(ty), AnnIs(ann, ty),
           StructForType(Sub(ann)) # "none"
    PROVE  Sub(ann) = ann /\ StructForType(ann) = Head(ty)
  <1>1. StructForType(Str) = "none"
    BY Tuples DEF StructForType, Str, None, Structs
  <1>2. Sub(ann) = ann
    BY <1>1 DEF Sub
  <1>3. QED
    BY <1>2, StructAnn DEF StructForType

\* receiverStructDef finds the struct or nothing.
LEMMA ReceiverIs ==
    ASSUME ctx \in Contexts, NEW o, OpdOK(o)
    PROVE  ReceiverStructDef(o) \in {"none", Head(o.ty)}
  <1>1. GoodType(o.ty) /\ AnnIs(o.ann, o.ty) /\ FormIs(o)
    BY DEF OpdOK
  <1>2. CASE o.form = "self"
    BY <1>1, <1>2 DEF ReceiverStructDef, FormIs, SelfIs
  <1>3. CASE o.form = "var" \/ (o.form = "field" /\ o.cg = None) \/ o.form \notin {"self", "var", "field"}
    <2>1. ReceiverStructDef(o) = StructForType(Sub(o.ann))
      BY <1>1, <1>3 DEF ReceiverStructDef, FormIs, VariableIs
    <2>2. QED
      BY <1>1, <2>1, SubAnn
  <1>4. CASE o.form = "field" /\ o.cg # None
    <2>1. ReceiverStructDef(o) = StructForType(Sub(o.cg)) /\ DerivedIs(o.cg, o.ty)
      BY <1>1, <1>4 DEF ReceiverStructDef, FormIs, FieldIs
    <2>2. StructForType(Sub(o.cg)) # "none" => Sub(o.cg) = o.ty
      BY <1>1, <2>1, DerivedNames
    <2>3. QED
      BY <2>1, <2>2 DEF StructForType
  <1>5. QED
    BY <1>2, <1>3, <1>4

\* A field that is read: what Sema annotates and what getFieldType derives.
LEMMA NewField ==
    ASSUME ctx \in Contexts, NEW o, OpdOK(o), Head(o.ty) \in Structs,
           NEW f \in DOMAIN Fields[Head(o.ty)],
           NEW ann, ann = FieldAnnotation(o.ann, f), NEW cg, cg = GetFieldType(o, f, ann),
           NEW v, v = Opd("field", With(Fields[Head(o.ty)][f], Params(o.ty)), ann, cg,
                          Named(cg, "string"), Named(cg, "Array"))
    PROVE  OpdOK(v) /\ Used(v)
  <1>1. GoodType(o.ty) /\ AnnIs(o.ann, o.ty) /\ FormIs(o)
    BY DEF OpdOK
  <1>2. PICK d, u : d = Fields[Head(o.ty)][f] /\ u = With(d, Params(o.ty))
    OBVIOUS
  <1>3. MemberIs(o.ty, d, u)
    BY <1>1, <1>2, FieldsOf
  <1>4. /\ v.form = "field" /\ v.ty = u /\ v.ann = ann /\ v.cg = cg
        /\ v.str = Named(cg, "string") /\ v.arr = Named(cg, "Array")
    BY <1>2 DEF Opd
  <1>5. ann = None \/ (ann = d /\ ~ Generic(d))
    <2>1. StructForType(o.ann) # "none" => StructForType(o.ann) = Head(o.ty)
      BY <1>1, StructAnn DEF StructForType
    <2>2. QED
      BY <1>2, <2>1 DEF FieldAnnotation
  <1>6. GoodType(u) /\ DerivedIs(Sub(d), u) /\ (Sub(d) = d => DerivedIs(d, u))
    BY <1>3, SubMember
  <1>7. ann = None \/ ann = u
    BY <1>3, <1>5, WithBox DEF MemberIs
  <1>8. DerivedIs(cg, u)
    <2>1. CASE ann # None
      BY <1>7, <2>1 DEF GetFieldType, DerivedIs
    <2>2. CASE ann = None /\ o.form = "self"
      <3>1. o.ty = SelfType
        BY <1>1, <2>2 DEF FormIs, SelfIs
      <3>2. cg = Sub(d)
        BY <1>2, <2>2, <3>1 DEF GetFieldType
      <3>3. QED
        BY <1>6, <3>2
    <2>3. CASE ann = None /\ o.form = "var" /\ StructForType(o.cg) # "none"
      <3>1. o.cg = o.ann
        BY <1>1, <2>3 DEF FormIs, VariableIs
      <3>2. Head(o.cg) = Head(o.ty)
        BY <1>1, <2>3, <3>1, StructAnn
      <3>3. cg = IF Sub(d) # d THEN Sub(d)
                 ELSE IF Params(o.cg) # None THEN With(d, Params(o.cg)) ELSE d
        BY <1>2, <2>3, <3>2 DEF GetFieldType
      <3>4. Params(o.cg) # None => With(d, Params(o.cg)) = u
        BY <1>1, <1>2, <3>1, ParamsAnn
      <3>5. QED
        BY <1>6, <3>3, <3>4 DEF DerivedIs
    <2>4. CASE ann = None /\ o.form = "field" /\ StructForType(Sub(o.cg)) # "none"
      <3>1. DerivedIs(o.cg, o.ty)
        BY <1>1, <2>4 DEF FormIs, FieldIs
      <3>2. Sub(o.cg) = o.ty
        BY <1>1, <2>4, <3>1, DerivedNames
      <3>3. cg = Sub(d)
        BY <1>2, <2>4, <3>2 DEF GetFieldType
      <3>4. QED
        BY <1>6, <3>3
    <2>5. CASE /\ ann = None /\ o.form # "self"
               /\ ~ (o.form = "var" /\ StructForType(o.cg) # "none")
               /\ ~ (o.form = "field" /\ StructForType(Sub(o.cg)) # "none")
      BY <2>5 DEF GetFieldType, DerivedIs
    <2>6. QED
      BY <2>1, <2>2, <2>3, <2>4, <2>5
  <1>9. ann # None => cg = ann
    BY DEF GetFieldType
  <1>10. FormIs(v)
    BY <1>4, <1>7, <1>8, <1>9 DEF FormIs, Receivers, Others, FieldIs
  <1>11. Unmistaken(v)
    BY <1>4, <1>6, <1>8, DerivedNames DEF Unmistaken
  <1>12. Used(v)
    <2>1. v.ann = v.ty => v.cg = v.ty
      BY <1>4, <1>6, <1>9, GoodHead DEF None
    <2>2. Str # None /\ Head(Str) = "string"
      BY Tuples DEF Str, None
    <2>3. QED
      BY <1>4, <2>1, <2>2 DEF Used, Named
  <1>13. QED
    BY <1>4, <1>6, <1>7, <1>10, <1>11, <1>12 DEF OpdOK, AnnIs

\* A method that is called: what Sema annotates and what methodReturnTypeName derives.
LEMMA NewMethod ==
    ASSUME ctx \in Contexts, NEW o, OpdOK(o), Head(o.ty) \in Structs,
           NEW m \in DOMAIN Methods[Head(o.ty)],
           NEW ann, ann = MethodAnnotation(o.ann, m), NEW res, res = MethodReturnType(o, m),
           NEW v, v = Opd("method", With(Methods[Head(o.ty)][m], Params(o.ty)), ann, None,
                          Named(Sub(ann), "string") \/ Named(res, "string"),
                          Named(Sub(ann), "Array") \/ Named(res, "Array"))
    PROVE  OpdOK(v) /\ Used(v)
  <1>1. GoodType(o.ty) /\ AnnIs(o.ann, o.ty) /\ FormIs(o)
    BY DEF OpdOK
  <1>2. PICK d, u : d = Methods[Head(o.ty)][m] /\ u = With(d, Params(o.ty))
    OBVIOUS
  <1>3. MemberIs(o.ty, d, u)
    BY <1>1, <1>2, MethodsOf
  <1>4. /\ v.form = "method" /\ v.ty = u /\ v.ann = ann
        /\ v.str = (Named(Sub(ann), "string") \/ Named(res, "string"))
        /\ v.arr = (Named(Sub(ann), "Array") \/ Named(res, "Array"))
    BY <1>2 DEF Opd
  <1>5. GoodType(u) /\ DerivedIs(Sub(d), u)
    BY <1>3, SubMember
  <1>6. d = <<"T">> => Params(o.ty) = u
    <2>1. SUFFICES ASSUME d = <<"T">> PROVE Params(o.ty) = u
      OBVIOUS
    <2>2. ~ GoodType(d)
      BY <2>1, NotGeneric, WithBox
    <2>3. o.ty = <<"Box", "string">> /\ u = Str
      BY <1>3, <2>1, <2>2, Tuples DEF MemberIs
    <2>4. QED
      BY <2>3, Tuples DEF Params, None, Str
  <1>7. ann = None \/ ann = u \/ (ann = <<"Array", "T">> /\ u = <<"Array", "string">>)
    <2>1. StructForType(o.ann) # "none" => StructForType(o.ann) = Head(o.ty)
      BY <1>1, StructAnn DEF StructForType
    <2>2. ann = None \/ (d = <<"T">> /\ ann = Params(o.ann)) \/ (d # <<"T">> /\ ann = d)
      BY <1>2, <2>1 DEF MethodAnnotation
    <2>3. Params(o.ann) # None => Params(o.ann) = Params(o.ty)
      BY <1>1, ParamsAnn
    <2>4. CASE d = <<"T">>
      BY <1>6, <2>2, <2>3, <2>4
    <2>5. CASE d # <<"T">>
      BY <1>3, <2>2, <2>5 DEF MemberIs
    <2>6. QED
      BY <2>4, <2>5
  <1>8. AnnIs(ann, u)
    BY <1>7, Tuples DEF AnnIs
  <1>9. ~ Named(ann, "T")
    BY <1>5, <1>7, NotGeneric, Tuples DEF Named
  <1>10. DerivedIs(res, u)
    <2>1. PICK ot : ot = IF o.form \in {"var", "self"} THEN o.cg ELSE o.ann
      OBVIOUS
    <2>2. Params(ot) # None => Params(ot) = Params(o.ty)
      <3>1. CASE o.form = "self"
        <4>1. ot = <<"self">>
          BY <1>1, <2>1, <3>1 DEF FormIs, SelfIs
        <4>2. QED
          BY <4>1, Tuples DEF Params, None
      <3>2. CASE o.form # "self"
        <4>1. ot = o.ann
          BY <1>1, <2>1, <3>2 DEF FormIs, VariableIs
        <4>2. QED
          BY <1>1, <4>1, ParamsAnn
      <3>3. QED
        BY <3>1, <3>2
    <2>3. ReceiverStructDef(o) = "none" \/ ReceiverStructDef(o) = Head(o.ty)
      BY ReceiverIs
    <2>4. res = None \/ (d = <<"T">> /\ Params(ot) # None /\ res = Params(ot)) \/ res = Sub(d)
      BY <1>2, <2>1, <2>3 DEF MethodReturnType
    <2>5. QED
      BY <1>5, <1>6, <2>2, <2>4 DEF DerivedIs
  <1>11. Unmistaken(v)
    <2>1. /\ Named(Sub(ann), "string") => u = Str
          /\ Named(Sub(ann), "Array") => Named(u, "Array")
      BY <1>5, <1>8, <1>9, AnnNames
    <2>2. /\ Named(res, "string") => u = Str
          /\ Named(res, "Array") => Named(u, "Array")
      BY <1>5, <1>10, DerivedNames
    <2>3. QED
      BY <1>4, <2>1, <2>2 DEF Unmistaken
  <1>12. Used(v)
    <2>1. v.ann = v.ty => Sub(ann) = u
      BY <1>4, <1>5, SubOfGood
    <2>2. Str # None /\ Head(Str) = "string"
      BY Tuples DEF Str, None
    <2>3. QED
      BY <1>4, <2>1, <2>2 DEF Used, Named
  <1>13. FormIs(v)
    BY <1>4 DEF FormIs, Receivers, Others
  <1>14. QED
    BY <1>4, <1>5, <1>8, <1>11, <1>12, <1>13 DEF OpdOK

\* What becomes of a call whose receiver Sema has resolved.
LEMMA ReceiverKept ==
    ASSUME ctx \in Contexts, NEW o, OpdOK(o), StructForType(o.ann) # "none"
    PROVE  Receiver(o) = "dropped" <=> o.form \in {"method", "index", "struct", "match"}
  <1>1. GoodType(o.ty) /\ AnnIs(o.ann, o.ty) /\ FormIs(o)
    BY DEF OpdOK
  <1>2. /\ o.ann # None /\ Head(o.ann) = Head(o.ty) /\ Head(o.ty) \in Structs
        /\ o.ann = o.ty \/ o.ann = <<Head(o.ty)>>
    BY <1>1, StructAnn
  <1>3. Sub(o.ann) = o.ann
    BY <1>2 DEF Sub, Named, Structs
  <1>4. o.form \notin Others
    BY <1>1 DEF FormIs
  <1>5. CASE o.form = "self"
    <2>1. StructForType(<<"self">>) = "none"
      BY Tuples DEF StructForType, Structs, None
    <2>2. QED
      BY <1>1, <1>5, <2>1 DEF FormIs, SelfIs
  <1>6. CASE o.form = "var"
    <2>1. o.cg = o.ann
      BY <1>1, <1>6 DEF FormIs, VariableIs
    <2>2. o.ann = <<Head(o.ty)>> \/ o.ann = <<"Box", "string">>
      BY <1>1, <1>2, StructTypes
    <2>3. ~ (Len(o.ann) > 1 /\ o.ann # <<"Box", "string">>)
      <3>1. PICK h : h = Head(o.ty)
        OBVIOUS
      <3>2. Len(<<h>>) = 1
        OBVIOUS
      <3>3. o.ann = <<h>> \/ o.ann = <<"Box", "string">>
        BY <2>2, <3>1
      <3>4. QED
        BY <3>2, <3>3
    <2>4. StructForType(o.ann) # "none"
      OBVIOUS
    <2>5. QED
      BY <1>3, <1>6, <2>1, <2>3 DEF Receiver
  <1>7. CASE o.form = "field"
    <2>1. o.cg = o.ann
      BY <1>1, <1>2, <1>7 DEF FormIs, FieldIs
    <2>2. ReceiverStructDef(o) # "none"
      BY <1>2, <1>3, <1>7, <2>1 DEF ReceiverStructDef
    <2>3. QED
      BY <1>3, <1>7, <2>1, <2>2 DEF Receiver
  <1>8. CASE o.form = "call"
    <2>1. o.cg = o.ann
      BY <1>1, <1>8 DEF FormIs
    <2>2. StructForType(<<Head(o.cg)>>) # "none"
      <3>1. PICK h \in Structs : h = Head(o.cg)
        BY <1>2, <2>1
      <3>2. <<h>> # None /\ Head(<<h>>) = h /\ h # "none"
        BY Tuples DEF None, Structs
      <3>3. QED
        BY <3>1, <3>2 DEF StructForType
    <2>3. QED
      BY <1>2, <1>8, <2>1, <2>2 DEF Receiver
  <1>9. CASE o.form \in {"method", "index", "struct", "match"}
    BY <1>9 DEF Receiver
  <1>10. QED
    BY <1>1, <1>4, <1>5, <1>6, <1>7, <1>8, <1>9 DEF FormIs, Receivers

\* The parameter of an annotated array or option.
LEMMA AnnParams ==
    ASSUME NEW ann, NEW ty, GoodType(ty), AnnIs(ann, ty), Named(ann, Head(ty)),
           Head(ty) \in {"Array", "Option"}
    PROVE  Params(ann) = None \/ Params(ann) = Params(ty)
           \/ (ann = <<"Array", "T">> /\ Params(ann) = <<"T">>)
  <1>1. Params(<<"Array", "T">>) = <<"T">>
    BY Tuples DEF Params, None
  <1>2. \A x : Params(<<x>>) = None
    BY Tuples DEF Params, None
  <1>3. QED
    BY <1>1, <1>2 DEF AnnIs, Params

\* An element of an array, with the type of the array's declaration.
LEMMA NewIndex ==
    ASSUME ctx \in Contexts, NEW o, OpdOK(o), Named(o.ty, "Array"),
           NEW ann, ann = IF Named(o.ann, "Array") THEN Params(o.ann) ELSE None,
           NEW el, el = IF o.form \in {"var", "field"} THEN Sub(Params(o.cg)) ELSE None,
           NEW v, v = Opd("index", Params(o.ty), ann, None,
                          o.arr /\ Named(el, "string"), Named(el, "Array"))
    PROVE  OpdOK(v) /\ Used(v)
  <1>1. GoodType(o.ty) /\ AnnIs(o.ann, o.ty) /\ FormIs(o) /\ Head(o.ty) = "Array"
    BY DEF OpdOK, Named
  <1>2. PICK u : u = Params(o.ty)
    OBVIOUS
  <1>3. GoodType(u)
    BY <1>1, <1>2, Inside
  <1>4. /\ v.form = "index" /\ v.ty = u /\ v.ann = ann
        /\ v.str = (o.arr /\ Named(el, "string")) /\ v.arr = Named(el, "Array")
    BY <1>2 DEF Opd
  <1>5. ann = None \/ ann = u \/ (o.ann = <<"Array", "T">> /\ ann = <<"T">>)
    BY <1>1, <1>2, AnnParams
  <1>6. AnnIs(ann, u)
    BY <1>5 DEF AnnIs
  <1>7. \/ el = None \/ el = u
        \/ el = <<"T">> \/ (ctx = "Box" /\ el = Str /\ (ann = <<"T">> \/ u = Str))
    <2>1. Sub(<<"T">>) = IF ctx = "Box" THEN Str ELSE <<"T">>
      BY Tuples DEF Sub, Named, None
    <2>2. Params(<<"Array", "T">>) = <<"T">> /\ Params(<<"Array", "string">>) = Str
      BY Tuples DEF Params, None, Str
    <2>3. Sub(None) = None /\ Sub(u) = u
      BY <1>3, SubOfGood DEF Sub, Named
    <2>4. CASE o.form = "var"
      <3>1. o.cg = o.ann /\ el = Sub(Params(o.ann))
        BY <1>1, <2>4 DEF FormIs, VariableIs
      <3>2. \A x : Params(<<x>>) = None
        BY Tuples DEF Params, None
      <3>3. Params(o.ann) = None \/ o.ann = o.ty \/ o.ann = <<"Array", "T">>
        BY <1>1, <3>2 DEF AnnIs, Params
      <3>4. CASE Params(o.ann) = None
        BY <2>3, <3>1, <3>4
      <3>5. CASE o.ann = o.ty
        BY <1>2, <2>3, <3>1, <3>5
      <3>6. CASE o.ann = <<"Array", "T">>
        <4>1. Named(o.ann, "Array")
          BY <3>6, Tuples DEF Named, None
        <4>2. ann = <<"T">>
          BY <2>2, <3>6, <4>1
        <4>3. QED
          BY <2>1, <2>2, <3>1, <3>6, <4>2
      <3>7. QED
        BY <3>3, <3>4, <3>5, <3>6
    <2>5. CASE o.form = "field"
      <3>1. DerivedIs(o.cg, o.ty) /\ el = Sub(Params(o.cg))
        BY <1>1, <2>5 DEF FormIs, FieldIs
      <3>2. CASE o.cg = None \/ o.cg = <<"T">>
        <4>1. Params(o.cg) = None
          BY <3>2, Tuples DEF Params, None
        <4>2. QED
          BY <2>3, <3>1, <4>1
      <3>3. CASE o.cg = o.ty
        BY <1>2, <2>3, <3>1, <3>3
      <3>4. CASE o.cg = <<"Array", "T">> /\ o.ty = <<"Array", "string">>
        BY <1>2, <2>1, <2>2, <3>1, <3>4
      <3>5. QED
        BY <3>1, <3>2, <3>3, <3>4 DEF DerivedIs
    <2>6. CASE o.form \notin {"var", "field"}
      BY <2>6
    <2>7. QED
      BY <2>4, <2>5, <2>6
  <1>8. Unmistaken(v)
    <2>1. Named(u, "string") => u = Str
      BY <1>3, Simple DEF Named, Str
    <2>2. ~ Named(<<"T">>, "string") /\ ~ Named(<<"T">>, "Array") /\ Named(<<"T">>, "T")
      BY Tuples DEF Named, None
    <2>3. ~ Named(None, "string") /\ ~ Named(None, "Array")
      BY DEF Named
    <2>4. ~ Named(Str, "Array")
      BY Tuples DEF Named, Str
    <2>5. QED
      BY <1>4, <1>7, <2>1, <2>2, <2>3, <2>4 DEF Unmistaken
  <1>9. FormIs(v) /\ Used(v)
    BY <1>4 DEF FormIs, Receivers, Others, Used
  <1>10. QED
    BY <1>3, <1>4, <1>6, <1>8, <1>9 DEF OpdOK

\* The value of a match goes by its unified annotation.
LEMMA NewMatch ==
    ASSUME ctx \in Contexts, NEW ty, NEW ann, GoodType(ty), AnnIs(ann, ty),
           NEW v, v = Opd("match", ty, ann, None,
                          Named(Sub(ann), "string"), Named(Sub(ann), "Array"))
    PROVE  OpdOK(v) /\ Used(v)
  <1>1. /\ v.form = "match" /\ v.ty = ty /\ v.ann = ann
        /\ v.str = Named(Sub(ann), "string") /\ v.arr = Named(Sub(ann), "Array")
    BY DEF Opd
  <1>2. FormIs(v)
    BY <1>1 DEF FormIs, Receivers, Others
  <1>3. Unmistaken(v)
    BY <1>1, AnnNames DEF Unmistaken
  <1>4. Used(v)
    <2>1. v.ann = v.ty => Sub(ann) = ty
      BY <1>1, AnnNames
    <2>2. Str # None /\ Head(Str) = "string"
      BY Tuples DEF Str, None
    <2>3. QED
      BY <1>1, <2>1, <2>2 DEF Used, Named
  <1>5. QED
    BY <1>1, <1>2, <1>3, <1>4 DEF OpdOK

\* A call, direct or of a generic function.
LEMMA NewCall ==
    ASSUME NEW ty, NEW ann, GoodType(ty), ann = ty \/ ann = <<"T">>,
           NEW v, v.form = "call" /\ v.ty = ty /\ v.ann = ann /\ v.cg = ann
                  /\ v.str = Named(ty, "string") /\ v.arr = Named(ty, "Array")
    PROVE  OpdOK(v) /\ Used(v)
  <1>1. Named(ty, "string") => ty = Str
    BY Simple DEF Named, Str
  <1>2. ann # None
    BY GoodHead, Tuples DEF None
  <1>3. FormIs(v)
    BY <1>2 DEF FormIs, Receivers, Others
  <1>4. Unmistaken(v)
    BY <1>1 DEF Unmistaken
  <1>5. Used(v)
    <2>1. Str # None /\ Head(Str) = "string"
      BY Tuples DEF Str, None
    <2>2. QED
      BY <2>1 DEF Used, Named
  <1>6. QED
    BY <1>3, <1>4, <1>5 DEF OpdOK, AnnIs

\* The forms whose annotation is not that of a struct.
LEMMA NewOther ==
    ASSUME NEW v, v.form \in Others \cup {"struct"}, GoodType(v.ty), AnnIs(v.ann, v.ty),
           v.form = "struct" \/ StructForType(v.ann) = "none",
           v.str => v.ty = Str, v.arr => Named(v.ty, "Array")
    PROVE  OpdOK(v)
  BY DEF OpdOK, FormIs, Receivers, Others, Unmistaken

-----------------------------------------------------------------------------
\* Steps.

\* Taking operands away leaves operands.
LEMMA Popped ==
    ASSUME NEW S, NEW s \in Seq(S), NEW n \in 0 .. 2, Len(s) >= n
    PROVE  SubSeq(s, 1, Len(s) - n) \in Seq(S)
  <1>1. PICK l \in Nat : l = Len(s)
    OBVIOUS
  <1>2. n \in Nat /\ l >= n
    BY <1>1
  <1>3. PICK k \in Nat : k = l - n
    BY <1>2
  <1>4. k <= l
    BY <1>2, <1>3
  <1>5. \A i \in 1 .. k : s[i] \in S
    BY <1>1, <1>4
  <1>6. SubSeq(s, 1, k) \in Seq(S)
    BY <1>5, SubSeqProperties
  <1>7. QED
    BY <1>1, <1>3, <1>6

\* One operand more.
LEMMA Pushed ==
    ASSUME NEW S, NEW s \in Seq(S), NEW v
    PROVE  Append(s, v) \in Seq(S \cup {v})
  <1>1. s \in Seq(S \cup {v})
    OBVIOUS
  <1>2. QED
    BY <1>1

\* What one operand is does not depend on the others.
LEMMA Carried ==
    ASSUME ctx' = ctx, NEW v, OpdOK(v)
    PROVE  OpdOK(v)'
  BY DEF OpdOK, FormIs, SelfIs, VariableIs, FieldIs, DerivedIs, Unmistaken, Sub, SelfType,
         AnnIs, GoodType, StructForType, Named

\* An expression whose new operand is in order is in order.
LEMMA PutKeeps ==
    ASSUME Operands, Sound, NEW n \in 0 .. 2, Has(n), NEW v, OpdOK(v), Sound' => Used(v),
           opd' = Append(SubSeq(opd, 1, Len(opd) - n), v), ctx' = ctx
    PROVE  Operands'
  <1>1. PICK S : opd \in Seq(S) /\ (\A w \in S : OpdOK(w)) /\ (\A w \in S : Used(w))
    BY DEF Operands
  <1>2. PICK T : T = S \cup {v}
    OBVIOUS
  <1>3. PICK s : s = SubSeq(opd, 1, Len(opd) - n)
    OBVIOUS
  <1>4. s \in Seq(S)
    BY <1>1, <1>3, Popped DEF Has
  <1>5. opd' \in Seq(T)
    BY <1>2, <1>3, <1>4, Pushed
  <1>6. \A w \in T : OpdOK(w)'
    BY <1>1, <1>2, Carried
  <1>7. Sound' => \A w \in T : Used(w)
    BY <1>1, <1>2
  <1>8. QED
    BY <1>5, <1>6, <1>7 DEF Operands, Used, Named

\* And one that has lost its last operand.
LEMMA PopKeeps ==
    ASSUME Operands, Sound, Has(1), opd' = SubSeq(opd, 1, Len(opd) - 1), ctx' = ctx
    PROVE  Operands'
  <1>1. PICK S : opd \in Seq(S) /\ (\A w \in S : OpdOK(w)) /\ (\A w \in S : Used(w))
    BY DEF Operands
  <1>2. opd' \in Seq(S)
    BY <1>1, Popped DEF Has
  <1>3. \A w \in S : OpdOK(w)'
    BY <1>1, Carried
  <1>4. QED
    BY <1>1, <1>2, <1>3 DEF Operands, Used, Named

\* The operands a node is built over are in order.
LEMMA TopOK ==
    ASSUME Operands
    PROVE  (Has(1) => OpdOK(Top)) /\ (Has(2) => OpdOK(Under) /\ OpdOK(Top))
  <1>1. PICK S : opd \in Seq(S) /\ (\A w \in S : OpdOK(w))
    BY DEF Operands
  <1>2. ASSUME Has(1) PROVE Top \in S
    BY <1>1, <1>2 DEF Has, Top
  <1>3. ASSUME Has(2) PROVE Has(1) /\ Under \in S
    BY <1>1, <1>3 DEF Has, Under
  <1>4. QED
    BY <1>1, <1>2, <1>3

\* A node that emits nothing of interest keeps the invariant if its operand is in order.
LEMMA QuietStep ==
    ASSUME TypesInv, Sound, NEW n \in 0 .. 2, Has(n), NEW v, OpdOK(v), Used(v), Put(n, v), Quiet
    PROVE  TypesInv'
  <1>1. ctx' = ctx /\ did'.op = "none" /\ did'.res = "none"
    BY DEF Quiet, Nothing
  <1>2. opd' = Append(SubSeq(opd, 1, Len(opd) - n), v)
    BY DEF Put
  <1>3. Operands'
    BY <1>1, <1>2, PutKeeps DEF TypesInv
  <1>4. MethodCallsKept' /\ NoFalseRejection'
    BY <1>1 DEF MethodCallsKept, NoFalseRejection
  <1>5. QED
    BY <1>1, <1>3, <1>4 DEF TypesInv

\* The same for a node that emits an operation other than a method call.
LEMMA DoneStep ==
    ASSUME TypesInv, Sound, NEW n \in 0 .. 2, Has(n), NEW v, OpdOK(v), Put(n, v),
           NEW op, NEW on, NEW res, Done(op, on, res), op # "method", res # "rejected",
           res \in {"none", "emitted", "accepted"} => Used(v)
    PROVE  TypesInv'
  <1>1. ctx' = ctx /\ did'.op = op /\ did'.res = res
    BY DEF Done
  <1>2. opd' = Append(SubSeq(opd, 1, Len(opd) - n), v)
    BY DEF Put
  <1>3. Sound' => Used(v)
    BY <1>1 DEF Sound
  <1>4. Operands'
    BY <1>1, <1>2, <1>3, PutKeeps DEF TypesInv
  <1>5. MethodCallsKept' /\ NoFalseRejection'
    BY <1>1 DEF MethodCallsKept, NoFalseRejection
  <1>6. QED
    BY <1>1, <1>4, <1>5 DEF TypesInv

\* There are always zero operands.
LEMMA HasNone == ASSUME TypesInv PROVE Has(0)
  <1>1. PICK S : opd \in Seq(S)
    BY DEF TypesInv, Operands
  <1>2. QED
    BY <1>1 DEF Has

\* The type string is a string and no array.
LEMMA StrIs == Str # None /\ Head(Str) = "string" /\ Named(Str, "string") /\ ~ Named(Str, "Array")
  BY Tuples DEF Str, None, Named

\* An operand without annotation, and one whose type is neither a string nor an array.
LEMMA NoAnnUsed ==
    ASSUME NEW v, GoodType(v.ty), v.ann = None
    PROVE  Used(v)
  BY GoodHead DEF Used, None

\* Only strings and arrays have code paths of their own.
LEMMA OtherUsed ==
    ASSUME NEW v, GoodType(v.ty), Head(v.ty) \notin {"string", "Array"}
    PROVE  Used(v)
  BY StrIs DEF Used, Named

\* A name that is no struct's annotates no struct.
LEMMA NoStruct ==
    ASSUME NEW h, h \notin Structs
    PROVE  StructForType(<<h>>) = "none" /\ StructForType(None) = "none"
  BY Tuples DEF StructForType, None

\* The forms Sema leaves without annotation.
LEMMA Untyped ==
    ASSUME NEW form \in {"pipeline", "await", "builtin", "try"}, NEW ty, GoodType(ty),
           NEW str, str => ty = Str, NEW v, v = Opd(form, ty, None, None, str, FALSE)
    PROVE  OpdOK(v) /\ Used(v)
  <1>1. v.form = form /\ v.ty = ty /\ v.ann = None /\ v.str = str /\ v.arr = FALSE
    BY DEF Opd
  <1>2. StructForType(v.ann) = "none"
    BY <1>1 DEF StructForType
  <1>3. AnnIs(v.ann, v.ty)
    BY <1>1 DEF AnnIs
  <1>4. OpdOK(v)
    BY <1>1, <1>2, <1>3, NewOther DEF Others
  <1>5. QED
    BY <1>1, <1>4, NoAnnUsed

-----------------------------------------------------------------------------
\* Leaves.

\* An integer literal keeps the invariant.
LEMMA ConstIntegerStep == ASSUME TypesInv, Sound, ConstInteger PROVE TypesInv'
  <1>1. PICK v : v = Plain("literal", <<"int">>, <<"int">>)
    OBVIOUS
  <1>2. /\ v.form = "literal" /\ v.ty = <<"int">> /\ v.ann = <<"int">>
        /\ v.str = FALSE /\ v.arr = FALSE
    BY <1>1 DEF Plain, Opd
  <1>3. GoodType(v.ty) /\ Head(v.ty) = "int"
    BY <1>2, TypesGood, Tuples
  <1>4. OpdOK(v)
    <2>1. StructForType(v.ann) = "none"
      BY <1>2, NoStruct DEF Structs
    <2>2. AnnIs(v.ann, v.ty)
      BY <1>2 DEF AnnIs
    <2>3. QED
      BY <1>2, <1>3, <2>1, <2>2, NewOther DEF Others
  <1>5. Used(v)
    BY <1>3, OtherUsed
  <1>6. Put(0, v) /\ Quiet
    BY <1>1 DEF ConstInteger
  <1>7. QED
    BY <1>4, <1>5, <1>6, HasNone, QuietStep

\* A string literal keeps the invariant.
LEMMA ConstStringStep == ASSUME TypesInv, Sound, ConstString PROVE TypesInv'
  <1>1. PICK v : v = Opd("literal", Str, Str, None, TRUE, FALSE)
    OBVIOUS
  <1>2. v.form = "literal" /\ v.ty = Str /\ v.ann = Str /\ v.str = TRUE /\ v.arr = FALSE
    BY <1>1 DEF Opd
  <1>3. OpdOK(v)
    <2>1. StructForType(v.ann) = "none"
      BY <1>2, StrIs DEF Structs, StructForType
    <2>2. AnnIs(v.ann, v.ty)
      BY <1>2 DEF AnnIs
    <2>3. QED
      BY <1>2, <2>1, <2>2, NewOther, TypesGood DEF Others
  <1>4. Used(v)
    BY <1>2, StrIs DEF Used
  <1>5. Put(0, v) /\ Quiet
    BY <1>1 DEF ConstString
  <1>6. QED
    BY <1>3, <1>4, <1>5, HasNone, QuietStep

\* A variable, in a method of Box one of type T or Array<T> too keeps the invariant.
LEMMA VariableStep ==
    ASSUME TypesInv, Sound, NEW t \in Types \cup {<<"T">>, Arr(<<"T">>)}, Variable(t)
    PROVE  TypesInv'
  <1>1. PICK ty : ty = Real(t)
    OBVIOUS
  <1>2. GoodType(ty) /\ AnnIs(t, ty) /\ t # None
    <2>1. CASE t \in Types
      <3>1. GoodType(t)
        BY <2>1, TypesGood
      <3>2. ty = t
        BY <1>1, <3>1, NotGeneric DEF Real
      <3>3. QED
        BY <3>1, <3>2, GoodHead DEF AnnIs, None
    <2>2. CASE t = <<"T">>
      <3>1. ctx = "Box"
        BY <2>2, WithBox DEF Variable
      <3>2. ty = Str
        BY <1>1, <2>2, <3>1, WithBox DEF Real
      <3>3. QED
        BY <2>2, <3>2, TypesGood, Tuples DEF AnnIs, None
    <2>3. CASE t = Arr(<<"T">>)
      <3>1. t = <<"Array", "T">>
        BY <2>3, Pair DEF Arr
      <3>2. ctx = "Box"
        BY <3>1, WithBox DEF Variable
      <3>3. ty = <<"Array", "string">>
        BY <1>1, <3>1, <3>2, WithBox DEF Real
      <3>4. ty = Arr(Str)
        BY <3>3, Pair DEF Arr, Str
      <3>5. GoodType(ty) /\ Head(ty) = "Array"
        BY <3>3, <3>4, TypesGood, Tuples DEF Types
      <3>6. QED
        BY <3>1, <3>5, Tuples DEF AnnIs, None
    <2>4. QED
      BY <2>1, <2>2, <2>3
  <1>3. PICK v : v = Declared(ty, t)
    OBVIOUS
  <1>4. OpdOK(v) /\ Used(v)
    BY <1>2, <1>3, NewVariable DEF TypesInv
  <1>5. Put(0, v) /\ Quiet
    BY <1>1, <1>3 DEF Variable
  <1>6. QED
    BY <1>4, <1>5, HasNone, QuietStep

\* self, in a method keeps the invariant.
LEMMA SelfStep == ASSUME TypesInv, Sound, Self PROVE TypesInv'
  <1>1. PICK v : v = Opd("self", SelfType, <<"self">>, <<"self">>, FALSE, FALSE)
    OBVIOUS
  <1>2. /\ v.form = "self" /\ v.ty = SelfType /\ v.ann = <<"self">> /\ v.cg = <<"self">>
        /\ v.str = FALSE /\ v.arr = FALSE
    BY <1>1 DEF Opd
  <1>3. ctx \in {"S", "Box"}
    BY DEF TypesInv, Contexts, Self
  <1>4. v.ty = <<"S">> \/ v.ty = <<"Box", "string">>
    BY <1>2, <1>3 DEF SelfType
  <1>5. GoodType(v.ty) /\ Head(v.ty) \in Structs
    BY <1>4, TypesGood, Tuples DEF Structs
  <1>6. AnnIs(v.ann, v.ty)
    BY <1>2, <1>5 DEF AnnIs
  <1>7. FormIs(v) /\ Unmistaken(v)
    BY <1>2, <1>3 DEF FormIs, SelfIs, Unmistaken, Receivers, Others
  <1>8. OpdOK(v)
    BY <1>5, <1>6, <1>7 DEF OpdOK
  <1>9. Used(v)
    BY <1>5, OtherUsed DEF Structs
  <1>10. Put(0, v) /\ Quiet
    BY <1>1 DEF Self
  <1>11. QED
    BY <1>8, <1>9, <1>10, HasNone, QuietStep

\* A call keeps the invariant.
LEMMA CallExpressionStep ==
    ASSUME TypesInv, Sound, NEW t \in Types, CallExpression(t)
    PROVE  TypesInv'
  <1>1. PICK v : v = Opd("call", t, t, t, Named(t, "string"), Named(t, "Array"))
    OBVIOUS
  <1>2. /\ v.form = "call" /\ v.ty = t /\ v.ann = t /\ v.cg = t
        /\ v.str = Named(t, "string") /\ v.arr = Named(t, "Array")
    BY <1>1 DEF Opd
  <1>3. OpdOK(v) /\ Used(v)
    BY <1>2, NewCall, TypesGood
  <1>4. Put(0, v) /\ Quiet
    BY <1>1 DEF CallExpression
  <1>5. QED
    BY <1>3, <1>4, HasNone, QuietStep

\* A call of a function value keeps the invariant.
LEMMA IndirectCallExpressionStep == ASSUME TypesInv, Sound, IndirectCallExpression PROVE TypesInv'
  <1>1. PICK v : v = Plain("indirect", Str, Str)
    OBVIOUS
  <1>2. v.form = "indirect" /\ v.ty = Str /\ v.ann = Str /\ v.str = FALSE /\ v.arr = FALSE
    BY <1>1 DEF Plain, Opd
  <1>3. OpdOK(v)
    <2>1. StructForType(v.ann) = "none"
      BY <1>2, StrIs DEF Structs, StructForType
    <2>2. AnnIs(v.ann, v.ty)
      BY <1>2 DEF AnnIs
    <2>3. QED
      BY <1>2, <2>1, <2>2, NewOther, TypesGood DEF Others
  <1>4. Used(v)
    BY <1>2, StrIs DEF Used
  <1>5. Put(0, v) /\ Quiet
    BY <1>1 DEF IndirectCallExpression
  <1>6. QED
    BY <1>3, <1>4, <1>5, HasNone, QuietStep

\* An await keeps the invariant.
LEMMA AwaitExpressionStep ==
    ASSUME TypesInv, Sound, NEW t \in {Str, Arr(Str), <<"S">>}, AwaitExpression(t)
    PROVE  TypesInv'
  <1>1. PICK v : v = Opd("await", t, None, None, FALSE, FALSE)
    OBVIOUS
  <1>2. OpdOK(v) /\ Used(v)
    BY <1>1, Untyped, TypesGood DEF Types
  <1>3. Put(0, v) /\ Quiet
    BY <1>1 DEF AwaitExpression, Plain
  <1>4. QED
    BY <1>2, <1>3, HasNone, QuietStep

\* A struct made on the spot, annotated with its bare name keeps the invariant.
LEMMA StructValueStep ==
    ASSUME TypesInv, Sound, NEW t \in {<<"S">>, <<"Box", "string">>}, StructValue(t)
    PROVE  TypesInv'
  <1>1. PICK v : v = Plain("struct", t, <<Head(t)>>)
    OBVIOUS
  <1>2. /\ v.form = "struct" /\ v.ty = t /\ v.ann = <<Head(t)>>
        /\ v.str = FALSE /\ v.arr = FALSE
    BY <1>1 DEF Plain, Opd
  <1>3. GoodType(t) /\ Head(t) \in Structs
    BY TypesGood, Tuples DEF Structs
  <1>4. AnnIs(v.ann, v.ty)
    BY <1>2 DEF AnnIs
  <1>5. OpdOK(v)
    BY <1>2, <1>3, <1>4, NewOther
  <1>6. Used(v)
    BY <1>2, <1>3, OtherUsed DEF Structs
  <1>7. Put(0, v) /\ Quiet
    BY <1>1 DEF StructValue
  <1>8. QED
    BY <1>5, <1>6, <1>7, HasNone, QuietStep

\* A query keeps the invariant.
LEMMA QueryExpressionStep ==
    ASSUME TypesInv, Sound, NEW n \in {"Array", "Option"}, QueryExpression(n)
    PROVE  TypesInv'
  <1>1. PICK v : v = Plain("query", <<n, "S">>, <<n, "S">>)
    OBVIOUS
  <1>2. /\ v.form = "query" /\ v.ty = <<n, "S">> /\ v.ann = <<n, "S">>
        /\ v.str = FALSE /\ v.arr = FALSE
    BY <1>1 DEF Plain, Opd
  <1>3. GoodType(v.ty) /\ Head(v.ty) = n /\ v.ty # None
    BY <1>2, TypesGood, Tuples DEF None
  <1>4. StructForType(v.ann) = "none"
    BY <1>2, <1>3 DEF StructForType, Structs
  <1>5. AnnIs(v.ann, v.ty)
    BY <1>2 DEF AnnIs
  <1>6. OpdOK(v)
    BY <1>2, <1>3, <1>4, <1>5, NewOther DEF Others
  <1>7. Used(v)
    BY <1>2, <1>3, StrIs DEF Used
  <1>8. Put(0, v) /\ Quiet
    BY <1>1 DEF QueryExpression
  <1>9. QED
    BY <1>6, <1>7, <1>8, HasNone, QuietStep

-----------------------------------------------------------------------------
\* Nodes over one operand.

\* What is known of the last operand.
LEMMA TopGood ==
    ASSUME TypesInv, Has(1)
    PROVE  OpdOK(Top) /\ GoodType(Top.ty) /\ AnnIs(Top.ann, Top.ty)
  BY TopOK DEF TypesInv, OpdOK

\* A var declaration, `var` where the initialiser has no annotation keeps the invariant.
LEMMA VarDeclarationStep == ASSUME TypesInv, Sound, VarDeclaration PROVE TypesInv'
  <1>1. Has(1)
    BY DEF VarDeclaration
  <1>2. PICK ty, ann : ty = Top.ty /\ ann = IF Top.ann = None THEN <<"var">> ELSE Top.ann
    OBVIOUS
  <1>3. GoodType(ty) /\ AnnIs(ann, ty) /\ ann # None
    <2>1. <<"var">> # None
      BY Tuples DEF None
    <2>2. AnnIs(<<"var">>, ty)
      BY DEF AnnIs
    <2>3. QED
      BY <1>1, <1>2, <2>1, <2>2, TopGood
  <1>4. PICK v : v = Declared(ty, ann)
    OBVIOUS
  <1>5. OpdOK(v) /\ Used(v)
    BY <1>3, <1>4, NewVariable DEF TypesInv
  <1>6. Put(1, v) /\ Quiet
    BY <1>2, <1>4 DEF VarDeclaration
  <1>7. QED
    BY <1>1, <1>5, <1>6, QuietStep

\* Two annotations of one type are compatible.
LEMMA Compatible ==
    ASSUME NEW ty, GoodType(ty), NEW a, AnnIs(a, ty), NEW b, AnnIs(b, ty)
    PROVE  TypesCompatible(a, b)
  <1>1. PICK h \in TypeNames : h = Head(ty)
    BY GoodHead
  <1>2. ty = <<"int">> => h = "int"
    BY <1>1, Tuples
  <1>3. ASSUME NEW c, AnnIs(c, ty), c # None
        PROVE  \/ Head(c) \in {h, "T", "var"}
               \/ Head(c) = "self" /\ h \in Structs
               \/ Head(c) = "bool" /\ h = "int"
    <2>1. \A x : Head(<<x>>) = x
      BY Tuples
    <2>2. Head(<<"Array", "T">>) = "Array"
      BY Tuples
    <2>3. QED
      BY <1>1, <1>2, <1>3, <2>1, <2>2 DEF AnnIs
  <1>4. CASE a = None \/ b = None
    BY <1>4 DEF TypesCompatible
  <1>5. CASE a # None /\ b # None
    <2>1. PICK x, y : x = Head(a) /\ y = Head(b)
      OBVIOUS
    <2>2. /\ x \in {h, "T", "var"} \/ (x = "self" /\ h \in Structs) \/ (x = "bool" /\ h = "int")
          /\ y \in {h, "T", "var"} \/ (y = "self" /\ h \in Structs) \/ (y = "bool" /\ h = "int")
      BY <1>3, <1>5, <2>1
    <2>3. CASE x = y \/ x = "T" \/ y = "T"
      BY <2>1, <2>3 DEF TypesCompatible
    <2>4. CASE x # y /\ x # "T" /\ y # "T"
      <3>1. ~ ({x, y} \subseteq {"Array", "Option"})
        BY <2>2, <2>4 DEF Structs, TypeNames
      <3>2. x \in {"var", "self"} \/ y \in {"var", "self"} \/ {x, y} \subseteq {"int", "bool"}
        BY <2>2, <2>4 DEF Structs
      <3>3. /\ x \in {"var", "self"} => ~ IsCheckableType(a)
            /\ y \in {"var", "self"} => ~ IsCheckableType(b)
        BY <2>1 DEF IsCheckableType, Structs
      <3>4. QED
        BY <2>1, <3>1, <3>2, <3>3 DEF TypesCompatible
    <2>5. QED
      BY <2>3, <2>4
  <1>6. QED
    BY <1>4, <1>5

\* A value where its type is expected is accepted: this keeps the invariant.
LEMMA CheckAgainstTypeStep == ASSUME TypesInv, Sound, CheckAgainstType PROVE TypesInv'
  <1>1. Has(1) /\ opd' = SubSeq(opd, 1, Len(opd) - 1) /\ ctx' = ctx
    BY DEF CheckAgainstType, Done
  <1>2. TypesCompatible(Top.ann, Top.ty)
    <2>1. AnnIs(Top.ty, Top.ty)
      BY DEF AnnIs
    <2>2. QED
      BY <1>1, <2>1, TopGood, Compatible
  <1>3. did'.op = "check" /\ did'.res = "accepted"
    BY <1>2 DEF CheckAgainstType, Done
  <1>4. Operands'
    BY <1>1, PopKeeps DEF TypesInv
  <1>5. MethodCallsKept' /\ NoFalseRejection'
    BY <1>3 DEF MethodCallsKept, NoFalseRejection
  <1>6. QED
    BY <1>1, <1>4, <1>5 DEF TypesInv

\* A call of a generic function, annotated T keeps the invariant.
LEMMA GenericCallStep ==
    ASSUME TypesInv, Sound, NEW explicit \in BOOLEAN, GenericCall(explicit)
    PROVE  TypesInv'
  <1>1. Has(1)
    BY DEF GenericCall
  <1>2. PICK ty : ty = Top.ty
    OBVIOUS
  <1>3. PICK v : v = [Opd("call", ty, <<"T">>, <<"T">>, Named(ty, "string"),
                          Named(ty, "Array")) EXCEPT !.late = ~explicit]
    OBVIOUS
  <1>4. /\ v.form = "call" /\ v.ty = ty /\ v.ann = <<"T">> /\ v.cg = <<"T">>
        /\ v.str = Named(ty, "string") /\ v.arr = Named(ty, "Array")
    BY <1>3 DEF Opd
  <1>5. OpdOK(v) /\ Used(v)
    BY <1>1, <1>2, <1>4, TopGood, NewCall
  <1>6. Put(1, v) /\ Quiet
    BY <1>2, <1>3 DEF GenericCall
  <1>7. QED
    BY <1>1, <1>5, <1>6, QuietStep

\* A pipeline keeps the invariant.
LEMMA PipelineExpressionStep ==
    ASSUME TypesInv, Sound, NEW t \in {Str, Arr(Str)}, PipelineExpression(t)
    PROVE  TypesInv'
  <1>1. PICK v : v = Opd("pipeline", t, None, None, FALSE, FALSE)
    OBVIOUS
  <1>2. OpdOK(v) /\ Used(v)
    BY <1>1, Untyped, TypesGood DEF Types
  <1>3. Has(1) /\ Put(1, v) /\ Quiet
    BY <1>1 DEF PipelineExpression, Plain
  <1>4. QED
    BY <1>2, <1>3, QuietStep

\* A field keeps the invariant.
LEMMA FieldAccessStep == ASSUME TypesInv, Sound, NEW f, FieldAccess(f) PROVE TypesInv'
  <1>1. Has(1) /\ Head(Top.ty) \in Structs /\ f \in DOMAIN Fields[Head(Top.ty)]
    BY DEF FieldAccess
  <1>2. PICK o : o = Top
    OBVIOUS
  <1>3. PICK ann : ann = FieldAnnotation(o.ann, f)
    OBVIOUS
  <1>4. PICK cg : cg = GetFieldType(o, f, ann)
    OBVIOUS
  <1>5. PICK v : v = Opd("field", With(Fields[Head(o.ty)][f], Params(o.ty)), ann, cg,
                         Named(cg, "string"), Named(cg, "Array"))
    OBVIOUS
  <1>6. OpdOK(v) /\ Used(v)
    BY <1>1, <1>2, <1>3, <1>4, <1>5, TopGood, NewField DEF TypesInv
  <1>7. Put(1, v) /\ Quiet
    BY <1>2, <1>3, <1>4, <1>5 DEF FieldAccess
  <1>8. QED
    BY <1>1, <1>6, <1>7, QuietStep

\* A method call, dropped or not as its receiver says, keeps the invariant.
LEMMA MethodCallStep == ASSUME TypesInv, Sound, NEW m, MethodCall(m) PROVE TypesInv'
  <1>1. Has(1) /\ Head(Top.ty) \in Structs /\ m \in DOMAIN Methods[Head(Top.ty)]
    BY DEF MethodCall
  <1>2. PICK o : o = Top
    OBVIOUS
  <1>3. PICK ann, res : ann = MethodAnnotation(o.ann, m) /\ res = MethodReturnType(o, m)
    OBVIOUS
  <1>4. PICK v : v = Opd("method", With(Methods[Head(o.ty)][m], Params(o.ty)), ann, None,
                         Named(Sub(ann), "string") \/ Named(res, "string"),
                         Named(Sub(ann), "Array") \/ Named(res, "Array"))
    OBVIOUS
  <1>5. OpdOK(o) /\ OpdOK(v) /\ Used(v)
    BY <1>1, <1>2, <1>3, <1>4, TopGood, NewMethod DEF TypesInv
  <1>6. Put(1, v)
    BY <1>2, <1>3, <1>4 DEF MethodCall
  <1>7. ctx' = ctx /\ did' = [op |-> "method", on |-> <<o>>, res |-> Receiver(o)]
    BY <1>2 DEF MethodCall, Done
  <1>8. opd' = Append(SubSeq(opd, 1, Len(opd) - 1), v)
    BY <1>6 DEF Put
  <1>9. Operands'
    BY <1>1, <1>5, <1>7, <1>8, PutKeeps DEF TypesInv
  <1>10. MethodCallsKept'
    <2>1. did'.on[1] = o /\ did'.res = Receiver(o)
      BY <1>7
    <2>2. StructForType(o.ann) # "none" =>
            (Receiver(o) = "dropped" <=> o.form \in {"method", "index", "struct", "match"})
      BY <1>5, ReceiverKept DEF TypesInv
    <2>3. QED
      BY <2>1, <2>2 DEF MethodCallsKept, StructForType
  <1>11. NoFalseRejection'
    <2>1. Receiver(o) # "rejected"
      BY DEF Receiver
    <2>2. QED
      BY <1>7, <2>1 DEF NoFalseRejection
  <1>12. QED
    BY <1>7, <1>9, <1>10, <1>11 DEF TypesInv

\* A built-in method of a string keeps the invariant.
LEMMA StringMethodStep == ASSUME TypesInv, Sound, StringMethod PROVE TypesInv'
  <1>1. Has(1) /\ Top.ty = Str
    BY DEF StringMethod
  <1>2. PICK o : o = Top
    OBVIOUS
  <1>3. PICK v : v = Opd("builtin", Str, None, None, KnownString(o), FALSE)
    OBVIOUS
  <1>4. OpdOK(v) /\ Used(v)
    BY <1>3, Untyped, TypesGood
  <1>5. PICK res \in {"emitted", "dropped"} : res = IF KnownString(o) THEN "emitted" ELSE "dropped"
    OBVIOUS
  <1>6. Put(1, v) /\ Done("builtin", <<o>>, res)
    BY <1>2, <1>3, <1>5 DEF StringMethod
  <1>7. QED
    BY <1>1, <1>4, <1>6, DoneStep

\* An array's pop keeps the invariant.
LEMMA ArrayPopStep == ASSUME TypesInv, Sound, ArrayPop PROVE TypesInv'
  <1>1. Has(1) /\ Named(Top.ty, "Array")
    BY DEF ArrayPop
  <1>2. PICK o : o = Top
    OBVIOUS
  <1>3. PICK ty : ty = Params(o.ty)
    OBVIOUS
  <1>4. GoodType(ty)
    BY <1>1, <1>2, <1>3, TopGood, Inside DEF Named
  <1>5. PICK v : v = Opd("builtin", ty, None, None, FALSE, FALSE)
    OBVIOUS
  <1>6. OpdOK(v) /\ Used(v)
    BY <1>4, <1>5, Untyped
  <1>7. PICK res \in {"emitted", "dropped"} : res = IF KnownArray(o) THEN "emitted" ELSE "dropped"
    OBVIOUS
  <1>8. Put(1, v) /\ Done("builtin", <<o>>, res)
    BY <1>2, <1>3, <1>5, <1>7 DEF ArrayPop, Plain
  <1>9. QED
    BY <1>1, <1>6, <1>8, DoneStep

\* An element keeps the invariant.
LEMMA IndexExpressionStep == ASSUME TypesInv, Sound, IndexExpression PROVE TypesInv'
  <1>1. Has(1) /\ Named(Top.ty, "Array")
    BY DEF IndexExpression
  <1>2. PICK o : o = Top
    OBVIOUS
  <1>3. PICK ann : ann = IF Named(o.ann, "Array") THEN Params(o.ann) ELSE None
    OBVIOUS
  <1>4. PICK el : el = IF o.form \in {"var", "field"} THEN Sub(Params(o.cg)) ELSE None
    OBVIOUS
  <1>5. PICK v : v = Opd("index", Params(o.ty), ann, None,
                         o.arr /\ Named(el, "string"), Named(el, "Array"))
    OBVIOUS
  <1>6. OpdOK(v) /\ Used(v)
    BY <1>1, <1>2, <1>3, <1>4, <1>5, TopGood, NewIndex DEF TypesInv
  <1>7. Put(1, v) /\ Quiet
    BY <1>2, <1>3, <1>4, <1>5 DEF IndexExpression
  <1>8. QED
    BY <1>1, <1>6, <1>7, QuietStep

\* An array literal keeps the invariant.
LEMMA ArrayLiteralStep == ASSUME TypesInv, Sound, ArrayLiteral PROVE TypesInv'
  <1>1. Has(1)
    BY DEF ArrayLiteral
  <1>2. PICK ty : ty = Arr(Top.ty)
    OBVIOUS
  <1>3. GoodType(ty) /\ Head(ty) = "Array" /\ ty # None
    BY <1>1, <1>2, TopGood, Wrapped, GoodHead DEF Arr, None
  <1>4. PICK v : v = Opd("array", ty, <<"Array">>, None, FALSE, TRUE)
    OBVIOUS
  <1>5. v.form = "array" /\ v.ty = ty /\ v.ann = <<"Array">> /\ v.str = FALSE /\ v.arr = TRUE
    BY <1>4 DEF Opd
  <1>6. OpdOK(v)
    <2>1. StructForType(v.ann) = "none"
      BY <1>5, NoStruct DEF Structs
    <2>2. AnnIs(v.ann, v.ty)
      BY <1>3, <1>5 DEF AnnIs
    <2>3. QED
      BY <1>3, <1>5, <2>1, <2>2, NewOther DEF Others, Named
  <1>7. Used(v)
    BY <1>3, <1>5, StrIs DEF Used
  <1>8. Put(1, v) /\ Quiet
    BY <1>2, <1>4 DEF ArrayLiteral
  <1>9. QED
    BY <1>1, <1>6, <1>7, <1>8, QuietStep

\* An enum value keeps the invariant.
LEMMA EnumConstructStep == ASSUME TypesInv, Sound, EnumConstruct PROVE TypesInv'
  <1>1. Has(1)
    BY DEF EnumConstruct
  <1>2. PICK ty : ty = <<"Option">> \o Top.ty
    OBVIOUS
  <1>3. GoodType(ty) /\ Head(ty) = "Option"
    BY <1>1, <1>2, TopGood, Wrapped
  <1>4. PICK v : v = Plain("enum", ty, <<"Option">>)
    OBVIOUS
  <1>5. v.form = "enum" /\ v.ty = ty /\ v.ann = <<"Option">> /\ v.str = FALSE /\ v.arr = FALSE
    BY <1>4 DEF Plain, Opd
  <1>6. OpdOK(v)
    <2>1. StructForType(v.ann) = "none"
      BY <1>5, NoStruct DEF Structs
    <2>2. AnnIs(v.ann, v.ty)
      BY <1>3, <1>5 DEF AnnIs
    <2>3. QED
      BY <1>3, <1>5, <2>1, <2>2, NewOther DEF Others
  <1>7. Used(v)
    BY <1>3, <1>5, OtherUsed
  <1>8. Put(1, v) /\ Quiet
    BY <1>2, <1>4 DEF EnumConstruct
  <1>9. QED
    BY <1>1, <1>6, <1>7, <1>8, QuietStep

\* A ? keeps the invariant.
LEMMA TryExpressionStep == ASSUME TypesInv, Sound, TryExpression PROVE TypesInv'
  <1>1. Has(1) /\ Named(Top.ty, "Option")
    BY DEF TryExpression
  <1>2. PICK o : o = Top
    OBVIOUS
  <1>3. PICK ty : ty = Params(o.ty)
    OBVIOUS
  <1>4. GoodType(ty)
    BY <1>1, <1>2, <1>3, TopGood, Inside DEF Named
  <1>5. PICK v : v = Opd("try", ty, None, None, FALSE, FALSE)
    OBVIOUS
  <1>6. OpdOK(v) /\ Used(v)
    BY <1>4, <1>5, Untyped
  <1>7. PICK res \in {"emitted", "dropped"} :
            res = IF o.form \in {"call", "var"} /\ EnumForType(o.cg) # "none"
                  THEN "emitted" ELSE "dropped"
    OBVIOUS
  <1>8. Put(1, v) /\ Done("try", <<o>>, res)
    BY <1>2, <1>3, <1>5, <1>7 DEF TryExpression, Plain
  <1>9. QED
    BY <1>1, <1>6, <1>8, DoneStep

\* The binding of a match arm keeps the invariant.
LEMMA MatchBindingStep == ASSUME TypesInv, Sound, MatchBinding PROVE TypesInv'
  <1>1. Has(1) /\ Named(Top.ty, "Option")
    BY DEF MatchBinding
  <1>2. PICK o : o = Top
    OBVIOUS
  <1>3. PICK ty, ann : ty = Params(o.ty) /\ ann = BindingType(o.ann)
    OBVIOUS
  <1>4. GoodType(o.ty) /\ AnnIs(o.ann, o.ty) /\ Head(o.ty) = "Option"
    BY <1>1, <1>2, TopGood DEF Named
  <1>5. GoodType(ty)
    BY <1>3, <1>4, Inside
  <1>6. AnnIs(ann, ty) /\ ann # None
    <2>1. <<"var">> # None /\ <<"T">> # None /\ Head(<<"Array", "T">>) = "Array"
      BY Tuples DEF None
    <2>2. CASE EnumForType(o.ann) = "none"
      BY <1>3, <2>1, <2>2 DEF BindingType, AnnIs
    <2>3. CASE EnumForType(o.ann) # "none"
      <3>1. Named(o.ann, "Option")
        BY <2>3 DEF EnumForType
      <3>2. Params(o.ann) = None \/ Params(o.ann) = ty
        BY <1>3, <1>4, <2>1, <3>1, AnnParams DEF Named
      <3>3. ann = <<"T">> \/ (ann = ty /\ ann # None)
        BY <1>3, <2>3, <3>2 DEF BindingType
      <3>4. QED
        BY <2>1, <3>3 DEF AnnIs
    <2>4. QED
      BY <2>2, <2>3
  <1>7. PICK v : v = Declared(ty, ann)
    OBVIOUS
  <1>8. OpdOK(v) /\ Used(v)
    BY <1>5, <1>6, <1>7, NewVariable DEF TypesInv
  <1>9. Put(1, v) /\ Quiet
    BY <1>2, <1>3, <1>7 DEF MatchBinding
  <1>10. QED
    BY <1>1, <1>8, <1>9, QuietStep

-----------------------------------------------------------------------------
\* Nodes over two operands.

\* What is known of the last two operands.
LEMMA BothGood ==
    ASSUME TypesInv, Has(2)
    PROVE  /\ OpdOK(Top) /\ GoodType(Top.ty) /\ AnnIs(Top.ann, Top.ty)
           /\ OpdOK(Under) /\ AnnIs(Under.ann, Under.ty) /\ Unmistaken(Under)
  BY TopOK DEF TypesInv, OpdOK

\* Sema rejects a + only where one operand is a variable of unknown type.
LEMMA RejectedPlus ==
    ASSUME NEW ty, GoodType(ty), Head(ty) \in {"string", "Array"},
           NEW l, AnnIs(l, ty), NEW r, AnnIs(r, ty), RejectsPlus(l, r)
    PROVE  l = <<"var">> \/ r = <<"var">>
  <1>1. PICK h \in {"string", "Array"} : h = Head(ty)
    OBVIOUS
  <1>2. ty # <<"int">> /\ h \notin Structs /\ ty # None
    BY <1>1, Tuples, GoodHead DEF Structs, None
  <1>3. ASSUME NEW c, AnnIs(c, ty), c # None, Head(c) # "T", c # <<"var">>
        PROVE  Head(c) = h
    <2>1. \A x : Head(<<x>>) = x
      BY Tuples
    <2>2. Head(<<"Array", "T">>) = "Array"
      BY Tuples
    <2>3. QED
      BY <1>1, <1>2, <1>3, <2>1, <2>2 DEF AnnIs
  <1>4. l # None /\ r # None /\ Head(l) # "T" /\ Head(r) # "T"
    BY DEF RejectsPlus
  <1>5. QED
    BY <1>3, <1>4 DEF RejectsPlus, Named

\* A +, rejected or not, keeps the invariant.
LEMMA ConcatStep == ASSUME TypesInv, Sound, Concat PROVE TypesInv'
  <1>1. Has(2) /\ Top.ty = Under.ty /\ Head(Top.ty) \in {"string", "Array"}
    BY DEF Concat
  <1>2. PICK o, p : o = Top /\ p = Under
    OBVIOUS
  <1>3. /\ GoodType(o.ty) /\ AnnIs(o.ann, o.ty) /\ AnnIs(p.ann, o.ty) /\ p.ty = o.ty
        /\ Unmistaken(p) /\ Head(o.ty) \in {"string", "Array"}
    BY <1>1, <1>2, BothGood
  <1>4. PICK v : v = Opd("operation", o.ty, p.ann, None, p.str, FALSE)
    OBVIOUS
  <1>5. /\ v.form = "operation" /\ v.ty = o.ty /\ v.ann = p.ann
        /\ v.str = p.str /\ v.arr = FALSE
    BY <1>4 DEF Opd
  <1>6. OpdOK(v)
    <2>1. StructForType(p.ann) = "none"
      BY <1>3, StructAnn DEF Structs
    <2>2. FormIs(v)
      BY <1>5, <2>1 DEF FormIs, Receivers, Others
    <2>3. Unmistaken(v)
      BY <1>3, <1>5 DEF Unmistaken
    <2>4. QED
      BY <1>3, <1>5, <2>2, <2>3 DEF OpdOK
  <1>7. PICK res : res = IF RejectsPlus(p.ann, o.ann) THEN "rejected"
                         ELSE IF (o.str /\ p.str) \/ (o.arr /\ p.arr) THEN "emitted"
                         ELSE "pointers"
    OBVIOUS
  <1>8. Put(2, v) /\ Done("concat", <<p, o>>, res)
    BY <1>2, <1>4, <1>7 DEF Concat
  <1>9. res \in {"none", "emitted", "accepted"} => Used(v)
    <2>1. SUFFICES ASSUME p.str \/ p.arr, v.ann = v.ty, v.ty = Str PROVE v.str
      BY <1>5, <1>7, StrIs DEF Used
    <2>2. ~ Named(p.ann, "T") /\ ~ Named(p.ty, "Array")
      BY <1>3, <1>5, <2>1, StrIs DEF Named
    <2>3. QED
      BY <1>3, <1>5, <2>1, <2>2 DEF Unmistaken
  <1>10. CASE res # "rejected"
    BY <1>1, <1>6, <1>8, <1>9, <1>10, DoneStep
  <1>11. CASE res = "rejected"
    <2>1. ctx' = ctx /\ did' = [op |-> "concat", on |-> <<p, o>>, res |-> res]
      BY <1>8 DEF Done
    <2>2. opd' = Append(SubSeq(opd, 1, Len(opd) - 2), v) /\ (Sound' => Used(v))
      BY <1>8, <1>11, <2>1 DEF Put, Sound
    <2>3. Operands'
      BY <1>1, <1>6, <2>1, <2>2, PutKeeps DEF TypesInv
    <2>4. RejectsPlus(p.ann, o.ann)
      BY <1>7, <1>11
    <2>5. p.ann = <<"var">> \/ o.ann = <<"var">>
      BY <1>3, <2>4, RejectedPlus
    <2>6. NoFalseRejection'
      <3>1. DOMAIN did'.on = 1 .. 2 /\ did'.on[1] = p /\ did'.on[2] = o /\ did'.op = "concat"
        BY <2>1
      <3>2. \E i \in DOMAIN did'.on : did'.on[i].ann = <<"var">>
        BY <2>5, <3>1
      <3>3. QED
        BY <3>1, <3>2 DEF NoFalseRejection
    <2>7. MethodCallsKept'
      BY <2>1 DEF MethodCallsKept
    <2>8. QED
      BY <2>1, <2>3, <2>6, <2>7 DEF TypesInv
  <1>12. QED
    BY <1>10, <1>11

\* A comparison keeps the invariant.
LEMMA CompareStep == ASSUME TypesInv, Sound, Compare PROVE TypesInv'
  <1>1. Has(2)
    BY DEF Compare
  <1>2. PICK o, p : o = Top /\ p = Under
    OBVIOUS
  <1>3. PICK v : v = Plain("operation", <<"int">>, <<"bool">>)
    OBVIOUS
  <1>4. /\ v.form = "operation" /\ v.ty = <<"int">> /\ v.ann = <<"bool">>
        /\ v.str = FALSE /\ v.arr = FALSE
    BY <1>3 DEF Plain, Opd
  <1>5. GoodType(v.ty) /\ Head(v.ty) = "int"
    BY <1>4, TypesGood, Tuples
  <1>6. OpdOK(v)
    <2>1. StructForType(v.ann) = "none"
      BY <1>4, NoStruct DEF Structs
    <2>2. AnnIs(v.ann, v.ty)
      BY <1>4 DEF AnnIs
    <2>3. QED
      BY <1>4, <1>5, <2>1, <2>2, NewOther DEF Others
  <1>7. Used(v)
    BY <1>5, OtherUsed
  <1>8. PICK res \in {"emitted", "pointers"} :
            res = IF o.str /\ p.str THEN "emitted" ELSE "pointers"
    OBVIOUS
  <1>9. Put(2, v) /\ Done("compare", <<p, o>>, res)
    BY <1>2, <1>3, <1>8 DEF Compare
  <1>10. QED
    BY <1>1, <1>6, <1>7, <1>9, DoneStep

\* A match, whose arms have compatible types, keeps the invariant.
LEMMA MatchExpressionStep == ASSUME TypesInv, Sound, MatchExpression PROVE TypesInv'
  <1>1. Has(2) /\ Top.ty = Under.ty
    BY DEF MatchExpression
  <1>2. PICK o, p : o = Top /\ p = Under
    OBVIOUS
  <1>3. PICK ann : ann = IF p.ann # None THEN p.ann ELSE o.ann
    OBVIOUS
  <1>4. GoodType(o.ty) /\ AnnIs(o.ann, o.ty) /\ AnnIs(ann, o.ty)
    BY <1>1, <1>2, <1>3, BothGood
  <1>5. PICK v : v = Opd("match", o.ty, ann, None,
                         Named(Sub(ann), "string"), Named(Sub(ann), "Array"))
    OBVIOUS
  <1>6. OpdOK(v) /\ Used(v)
    BY <1>4, <1>5, NewMatch DEF TypesInv
  <1>7. TypesCompatible(o.ann, ann)
    BY <1>4, Compatible
  <1>8. Put(2, v) /\ Done("match", <<p, o>>, "accepted")
    BY <1>2, <1>3, <1>5, <1>7 DEF MatchExpression
  <1>9. QED
    BY <1>1, <1>6, <1>8, DoneStep

-----------------------------------------------------------------------------
\* An empty expression is in order.
LEMMA TypesInvInit == ASSUME TypesInit PROVE TypesInv
  <1>1. ctx \in Contexts /\ opd \in Seq({}) /\ did.op = "none" /\ did.res = "none"
    BY DEF TypesInit, Contexts, Nothing
  <1>2. Operands
    BY <1>1 DEF Operands
  <1>3. QED
    BY <1>1, <1>2 DEF TypesInv, MethodCallsKept, NoFalseRejection

\* Leaves keep the invariant.
LEMMA LeafStep == ASSUME TypesInv, Sound, Leaf PROVE TypesInv'
  BY ConstIntegerStep, ConstStringStep, VariableStep, SelfStep, CallExpressionStep,
     IndirectCallExpressionStep, AwaitExpressionStep, StructValueStep, QueryExpressionStep
     DEF Leaf

\* Inner nodes keep the invariant.
LEMMA NodeStep == ASSUME TypesInv, Sound, Node PROVE TypesInv'
  BY VarDeclarationStep, CheckAgainstTypeStep, GenericCallStep, PipelineExpressionStep,
     FieldAccessStep, MethodCallStep, StringMethodStep, ArrayPopStep, IndexExpressionStep,
     ConcatStep, CompareStep, ArrayLiteralStep, EnumConstructStep, TryExpressionStep,
     MatchBindingStep, MatchExpressionStep
     DEF Node

\* So does every step.
LEMMA TypesInvNext == ASSUME TypesInv, [TypesNext]_typesVars PROVE TypesInv'
  <1>1. CASE TypesNext
    BY <1>1, LeafStep, NodeStep DEF TypesNext
  <1>2. CASE UNCHANGED typesVars
    <2>1. ctx' = ctx /\ opd' = opd /\ did' = did
      BY <1>2 DEF typesVars
    <2>2. PICK S : /\ opd \in Seq(S) /\ \A w \in S : OpdOK(w)
                   /\ Sound => \A w \in S : Used(w)
      BY DEF TypesInv, Operands
    <2>3. \A w \in S : OpdOK(w)'
      BY <2>1, <2>2, Carried
    <2>4. Sound' => \A w \in S : Used(w)
      BY <2>1, <2>2 DEF Sound
    <2>5. Operands'
      BY <2>1, <2>2, <2>3, <2>4 DEF Operands, Used, Named
    <2>6. MethodCallsKept' /\ NoFalseRejection'
      BY <2>1 DEF TypesInv, MethodCallsKept, NoFalseRejection, StructForType
    <2>7. QED
      BY <2>1, <2>5, <2>6 DEF TypesInv
  <1>3. QED
    BY <1>1, <1>2

\* The invariant holds in every state.
LEMMA TypesInvariance == TypesSpec => []TypesInv
  BY TypesInvInit, TypesInvNext, PTL DEF TypesSpec

\* Every operand is in order.
LEMMA OperandsAre ==
    ASSUME TypesInv, NEW i \in DOMAIN opd
    PROVE  OpdOK(opd[i]) /\ (Sound => Used(opd[i]))
  <1>1. PICK S : /\ opd \in Seq(S) /\ \A w \in S : OpdOK(w)
                 /\ Sound => \A w \in S : Used(w)
    BY DEF TypesInv, Operands
  <1>2. opd[i] \in S
    BY <1>1
  <1>3. QED
    BY <1>1, <1>2

\* An annotation of one of the listed shapes says nothing false.
LEMMA AnnSays ==
    ASSUME NEW ann, NEW ty, GoodType(ty), AnnIs(ann, ty)
    PROVE  Says(ann, ty) \/ ann = <<"bool">>
  <1>1. ty \in Seq(TypeNames) /\ Len(ty) \in Nat /\ Len(ty) >= 1 /\ ty[1] = Head(ty)
    BY GoodHead DEF GoodType
  <1>2. DOMAIN ty = 1 .. Len(ty) /\ 1 \in DOMAIN ty
    BY <1>1
  <1>3. CASE ann = None
    BY <1>3 DEF Says, None
  <1>4. CASE ann = ty
    BY <1>4 DEF Says
  <1>5. ASSUME NEW h, ann = <<h>>, h = Head(ty) \/ h \in {"T", "var", "self"}
        PROVE  Says(ann, ty)
    <2>1. DOMAIN <<h>> = {1} /\ <<h>>[1] = h /\ Len(<<h>>) = 1
      OBVIOUS
    <2>2. QED
      BY <1>1, <1>2, <1>5, <2>1 DEF Says
  <1>6. CASE ann = <<"Array", "T">> /\ Head(ty) = "Array"
    <2>1. /\ DOMAIN <<"Array", "T">> = {1, 2} /\ Len(<<"Array", "T">>) = 2
          /\ <<"Array", "T">>[1] = "Array" /\ <<"Array", "T">>[2] = "T"
      OBVIOUS
    <2>2. QED
      BY <1>1, <1>2, <1>6, <2>1 DEF Says
  <1>7. QED
    <2>1. PICK h : h = Head(ty)
      OBVIOUS
    <2>2. \/ ann = None \/ ann = ty \/ ann = <<h>>
          \/ ann = <<"Array", "T">> /\ Head(ty) = "Array"
          \/ ann = <<"T">> \/ ann = <<"var">> \/ ann = <<"self">> \/ ann = <<"bool">>
      BY <2>1 DEF AnnIs
    <2>3. QED
      BY <1>3, <1>4, <1>5, <1>6, <2>1, <2>2

\* However long the types and the expressions: what Sema annotates on a node is
\* the type of its value as far as it goes, and ends at worst in T, var or self.
THEOREM AnnotationsAlwaysSound == TypesSpec => []AnnotationsSound
  <1>1. TypesInv => AnnotationsSound
    <2>1. SUFFICES ASSUME TypesInv, NEW i \in DOMAIN opd
                   PROVE  Says(opd[i].ann, opd[i].ty) \/ opd[i].ann = <<"bool">>
      BY DEF AnnotationsSound
    <2>2. QED
      BY <2>1, OperandsAre, AnnSays DEF OpdOK
  <1>2. QED
    BY <1>1, TypesInvariance, PTL

\* However long the types and the expressions: isStringType and isArrayType take
\* nothing for a string or an array that is not one, except for the T of another
\* declaration inside a method of Box.
THEOREM GeneratorNeverMistaken == TypesSpec => []NeverMistaken
  <1>1. TypesInv => NeverMistaken
    BY OperandsAre DEF NeverMistaken, OpdOK, Unmistaken
  <1>2. QED
    BY <1>1, TypesInvariance, PTL

\* However long the types and the expressions: an operand that Sema has annotated
\* with its whole type, string or array, is recognised by the generator, except in
\* the forms KnownIsUsed names, as long as nothing was rejected or miscompiled.
THEOREM AnnotationsAreUsed == TypesSpec => []KnownIsUsed
  <1>1. TypesInv => KnownIsUsed
    BY OperandsAre DEF KnownIsUsed, Used
  <1>2. QED
    BY <1>1, TypesInvariance, PTL

\* However long the types and the expressions: genMethodCall drops a call that
\* Sema has resolved exactly when its receiver is of one of the four forms named.
THEOREM ResolvedCallsKept == TypesSpec => []MethodCallsKept
  <1>1. TypesInv => MethodCallsKept
    BY DEF TypesInv
  <1>2. QED
    BY <1>1, TypesInvariance, PTL

\* However long the types and the expressions: typesCompatible accepts every value where
\* its own type is expected, and + is rejected only over a `var` of unknown type.
THEOREM WellTypedAccepted == TypesSpec => []NoFalseRejection
  <1>1. TypesInv => NoFalseRejection
    BY DEF TypesInv
  <1>2. QED
    BY <1>1, TypesInvariance, PTL
=============================================================================
