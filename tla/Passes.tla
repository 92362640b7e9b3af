------------------------------- MODULE Passes -------------------------------
(***************************************************************************)
(* The tree walks of the compiler.  The semantic pass (Sema.cpp), the code *)
(* generator (CodeGen.cpp), its capture analysis (collectReferencedVars),  *)
(* the spawn rule of the semantic pass (collectSpawnRefs), the language    *)
(* server's AstLocator and the LocationDumper each descend the same tree   *)
(* with a dynamic_cast chain of their own.  A step here goes from a node   *)
(* to one of its children; every walk that has a branch for that child     *)
(* follows.  A behaviour is one path from a function body, a contract, a   *)
(* test block or an imported generic body to an occurrence of a local      *)
(* variable, through any nesting of blocks, lambdas, spawns and handlers.  *)
(***************************************************************************)
EXTENDS Naturals, FiniteSets

CONSTANTS
    MaxNested   \* bound: nested lambdas, spawns and handlers on a path

ASSUME PassesAssumption == MaxNested \in Nat

VARIABLES
    root,     \* where the path starts
    node,     \* the kind of the node reached, or a sort still to be chosen
    walks,    \* the walks that have reached it
    nested,   \* how many function bodies have been entered
    spawned,  \* inside a spawn body, outside which the variable is declared
    lambda,   \* inside a lambda, outside which the variable is declared
    lost      \* history: <<walk, kind, slot>> at which a walk stopped

vars == <<root, node, walks, nested, spawned, lambda, lost>>

Walks == {"sema", "gen", "capture", "spawnref", "locate", "dump"}

---------------------------------------------------------------------------
\* The tree: kind of node, child, and the sort of the child.

\* Statements
StatementSlots ==
    {<<"Return", "value", "expr">>,
     <<"If", "cond", "expr">>, <<"If", "then", "stmt">>, <<"If", "else", "stmt">>,
     <<"While", "cond", "expr">>, <<"While", "body", "stmt">>,
     <<"ForIn", "iterable", "expr">>, <<"ForIn", "body", "Block">>}
DeclarationSlots == {<<"Declaration", "init", "expr">>, <<"Block", "statement", "stmt">>}
TaskSlots ==
    {<<"Spawn", "body", "Block">>, <<"Wait", "task", "expr">>, <<"Assert", "cond", "expr">>,
     <<"Event", "source", "expr">>, <<"Event", "body", "Block">>}

\* Expressions.  A variable may be named by the node itself: the target of an
\* assignment and the function of an indirect call.
CallSlots ==
    {<<"Call", "arg", "expr">>, <<"Assignment", "value", "expr">>, <<"Assignment", "target", "leaf">>,
     <<"FieldAssignment", "object", "expr">>, <<"FieldAssignment", "value", "expr">>,
     <<"IndexAssignment", "object", "expr">>, <<"IndexAssignment", "index", "expr">>,
     <<"IndexAssignment", "value", "expr">>,
     <<"Operation", "left", "expr">>, <<"Operation", "right", "expr">>,
     <<"Unary", "operand", "expr">>}
AccessSlots ==
    {<<"FieldAccess", "object", "expr">>, <<"StructLiteral", "field", "expr">>,
     <<"ArrayLiteral", "element", "expr">>,
     <<"Index", "object", "expr">>, <<"Index", "index", "expr">>,
     <<"MethodCall", "object", "expr">>, <<"MethodCall", "arg", "expr">>,
     <<"Range", "start", "expr">>, <<"Range", "end", "expr">>,
     <<"Interpolation", "part", "Variable">>, <<"Construct", "arg", "expr">>}
ValueSlots ==
    {<<"EnumConstruct", "arg", "expr">>, <<"Match", "subject", "expr">>,
     <<"Match", "body", "Block">>, <<"Match", "value", "expr">>,
     <<"Try", "operand", "expr">>, <<"Await", "operand", "expr">>, <<"Lambda", "body", "Block">>,
     <<"IndirectCall", "arg", "expr">>, <<"IndirectCall", "function", "leaf">>,
     <<"Pipeline", "input", "expr">>, <<"Pipeline", "transform", "Call">>}
TableSlots ==
    {<<"Query", "step", "expr">>, <<"Insert", "value", "expr">>,
     <<"Update", "step", "expr">>, <<"Delete", "step", "expr">>}

Slots == StatementSlots \cup DeclarationSlots \cup TaskSlots \cup CallSlots
            \cup AccessSlots \cup ValueSlots \cup TableSlots
Of(kinds) == {s \in Slots : s[1] \in kinds}

\* An expression is a statement; a spawn is both.
Expressions ==
    {s[1] : s \in CallSlots \cup AccessSlots \cup ValueSlots \cup TableSlots}
        \cup {"Spawn", "Variable"}
Statements == {s[1] : s \in StatementSlots \cup DeclarationSlots \cup TaskSlots} \cup Expressions

\* What stands where a sort is expected: the two range forms of the parser
\* apart, any expression is one.
Kinds(sort) ==
    CASE sort = "expr" -> Expressions [] sort = "stmt" -> Statements [] OTHER -> {sort}

---------------------------------------------------------------------------
\* Each walk: the children it has a branch for.

\* Sema::visitStmt and Sema::visitExpr.  A query's steps are searched for
\* column names only (collectQueryFieldExprs), an insert's values not at all;
\* what a node names itself is not an occurrence of its own.
Leaves == {s \in Slots : s[3] = "leaf"}
SemaStatements == StatementSlots \cup DeclarationSlots \cup Of({"Wait", "Assert", "Event"})
SemaCalls == Of({"Call", "IndirectCall", "Interpolation"}) \ Leaves
\* Mutant: no branch for the assignment to an element.
SemaNoIndexAssignment ==
    Of({"FieldAccess", "MethodCall", "Index", "Operation", "Unary", "Assignment",
        "FieldAssignment"}) \ Leaves
SemaOperators ==
    Of({"FieldAccess", "MethodCall", "Index", "Operation", "Unary", "Assignment",
        "FieldAssignment", "IndexAssignment"}) \ Leaves
SemaLiterals == Of({"ArrayLiteral", "Range", "StructLiteral", "Construct", "EnumConstruct"})
SemaValues == Of({"Try", "Await", "Pipeline", "Match", "Lambda", "Spawn"})
Sema == SemaStatements \cup SemaCalls \cup SemaOperators
            \cup SemaLiterals \cup SemaValues

\* genStatement and genExpression.  A range is generated by the for-in
\* statement only; elsewhere it is an internal compiler error.
GenStatements == StatementSlots \cup DeclarationSlots \cup TaskSlots
GenExpressions == (CallSlots \cup AccessSlots \cup ValueSlots \cup TableSlots) \ Of({"Range"})
Gen == GenStatements \cup GenExpressions

\* Mutant: the capture analysis has no branch for an array literal.
CaptureNoArrayLiteral ==
    StatementSlots \cup DeclarationSlots \cup CallSlots
    \cup Of({"IndirectCall", "FieldAccess", "MethodCall", "Index", "StructLiteral",
             "EnumConstruct", "Interpolation"})

\* CodeGen::collectReferencedVars: assignments to calls, then match to lambda.
\* Of a match it visits the subject and the block of each arm.
CaptureOperands ==
    StatementSlots \cup DeclarationSlots \cup CallSlots
    \cup Of({"IndirectCall", "FieldAccess", "MethodCall", "Index", "StructLiteral",
             "ArrayLiteral", "EnumConstruct", "Interpolation"})
CaptureValues ==
    {<<"Match", "subject", "expr">>, <<"Match", "body", "Block">>}
    \cup TaskSlots \cup Of({"Try", "Await", "Pipeline", "Range", "Lambda"})
Capture == CaptureOperands \cup CaptureValues

\* Mutant: the spawn rule has no branch for an element access.
SpawnRefNoIndex ==
    StatementSlots \cup DeclarationSlots
    \cup Of({"Assignment", "IndirectCall", "Call", "MethodCall", "FieldAccess", "FieldAssignment",
             "IndexAssignment", "Operation", "Unary", "ArrayLiteral", "Interpolation",
             "Construct", "Assert"})

\* Sema::collectSpawnRefs
SpawnRef ==
    StatementSlots \cup DeclarationSlots
    \cup Of({"Assignment", "IndirectCall", "Call", "MethodCall", "FieldAccess", "FieldAssignment",
             "Index", "IndexAssignment", "Operation", "Unary", "ArrayLiteral", "Interpolation",
             "Construct", "Assert"})

\* AstLocator::visitStatement, the language server's way from a position to a
\* node, and LocationDumper::visitStatement, its test double.
LocateExpressions ==
    (CallSlots \cup AccessSlots \cup ValueSlots) \ ({<<"Match", "value", "expr">>} \cup Leaves)
LocateStatements == StatementSlots \cup DeclarationSlots \cup TaskSlots
Locate == LocateExpressions \cup LocateStatements

DumpExpressions ==
    Of({s[1] : s \in CallSlots \cup AccessSlots \cup ValueSlots})
        \ ({<<"Match", "value", "expr">>} \cup Leaves)
DumpStatements == StatementSlots \cup DeclarationSlots \cup TaskSlots
Dump == DumpExpressions \cup DumpStatements

Follows(w, s) ==
    CASE w = "sema" -> s \in Sema
      [] w = "gen" -> s \in Gen
      [] w = "capture" -> s \in Capture
      [] w = "spawnref" -> s \in SpawnRef
      [] w = "locate" -> s \in Locate
      [] w = "dump" -> s \in Dump

---------------------------------------------------------------------------
\* What is walked.  Sema::analyze skips the modules that come from interface
\* files, whose generic bodies the generator instantiates all the same, and it
\* has no branch for test blocks; nor is an interface file's module ever given to
\* the locator or the dumper.
Roots == {"function", "contract", "test", "imported"}
Reach(r) ==
    CASE r \in {"function", "contract"} -> {"sema", "gen", "locate", "dump"}
      [] r = "test" -> {"gen", "locate", "dump"}
      [] r = "imported" -> {"gen"}

\* A contract is an expression, the others are blocks.
Entry(r) == IF r = "contract" THEN Expressions \ {"Range"} ELSE {"Block"}

Init ==
    /\ \E r \in Roots : root = r /\ node \in Entry(r) /\ walks = Reach(r)
    /\ nested = 0 /\ spawned = FALSE /\ lambda = FALSE
    /\ lost = {}

\* A walk that does not follow is lost for the rest of the path, unless it is one
\* of those that start afresh here.
Descend(s, fresh) ==
    LET on == {w \in walks : Follows(w, s)} \cup fresh
    IN /\ walks' = on
       /\ lost' = {l \in lost : l[1] \notin fresh} \cup {<<w, s[1], s[2]>> : w \in walks \ on}

\* A child that is not the body of a nested function.  The for-in statement
\* evaluates a range itself.
Child(s, k) ==
    /\ s[1] = node /\ k \in Kinds(s[3])
    /\ s[1] \in {"Lambda", "Spawn"} => FALSE
    /\ s[1] = "Event" => s[2] = "source"
    /\ k = "Range" => s[1] = "ForIn"
    /\ Descend(s, {})
    /\ node' = k
    /\ UNCHANGED <<root, nested, spawned, lambda>>

\* genLambdaExpression captures what collectReferencedVars finds in the body;
\* an enclosing lambda must have found it too.
EnterLambda ==
    /\ node = "Lambda" /\ nested < MaxNested
    /\ Descend(<<"Lambda", "body", "Block">>, IF lambda THEN {} ELSE {"capture"})
    /\ node' = "Block" /\ nested' = nested + 1 /\ lambda' = TRUE
    /\ UNCHANGED <<root, spawned>>

\* genSpawnStatement captures every variable there is; that the plain ones are
\* values is for collectSpawnRefs to check, which Sema calls anew for every spawn
\* it visits.
EnterSpawn ==
    /\ node = "Spawn" /\ nested < MaxNested
    /\ Descend(<<"Spawn", "body", "Block">>, IF "sema" \in walks THEN {"spawnref"} ELSE {})
    /\ node' = "Block" /\ nested' = nested + 1 /\ spawned' = TRUE
    /\ UNCHANGED <<root, lambda>>

\* genEventHandler captures every variable there is.
EnterHandler ==
    /\ node = "Event" /\ nested < MaxNested
    /\ Descend(<<"Event", "body", "Block">>, {})
    /\ node' = "Block" /\ nested' = nested + 1
    /\ UNCHANGED <<root, spawned, lambda>>

\* The path has come to an occurrence; the next one starts anywhere.
Found ==
    /\ node \in {"Variable", "leaf"}
    /\ \E r \in Roots : root' = r /\ node' \in Entry(r) /\ walks' = Reach(r)
    /\ nested' = 0 /\ spawned' = FALSE /\ lambda' = FALSE /\ lost' = {}

Next ==
    \/ \E s \in Slots : \E k \in Kinds(s[3]) : Child(s, k)
    \/ EnterLambda \/ EnterSpawn \/ EnterHandler \/ Found

Spec == Init /\ [][Next]_vars

---------------------------------------------------------------------------
AtVariable == node \in {"Variable", "leaf"}
LostAt(w) == {<<l[2], l[3]>> : l \in {x \in lost : x[1] = w}}
Tables == {<<"Query", "step">>, <<"Insert", "value">>, <<"Update", "step">>, <<"Delete", "step">>}

\* genVariableExpression finds no slot for a variable the enclosing lambda has
\* not captured: it prints a line, sets no error and drops the expression.
\* That happens exactly below a constructor argument, the value of an
\* expression arm, or a table expression.
CaptureComplete ==
    AtVariable /\ lambda /\ "gen" \in walks =>
        ("capture" \notin walks
            <=> LostAt("capture") \cap
                  ({<<"Construct", "arg">>, <<"Match", "value">>} \cup Tables) # {})

\* What Sema never visits, or lost in a table expression.
Unseen == "sema" \notin Reach(root) \/ LostAt("sema") \cap Tables # {}

\* A plain string, Array, Buffer or struct must not cross a spawn: the rule
\* misses an occurrence exactly where Sema does not come, and below the forms
\* at which the collectSpawnRefs of the innermost spawn stops.
SpawnRuleSeesAll ==
    AtVariable /\ spawned /\ "gen" \in walks =>
        ("spawnref" \notin walks <=> Unseen \/ LostAt("spawnref") \cap
            ({<<"Match", x>> : x \in {"subject", "body", "value"}}
             \cup {<<"Lambda", "body">>, <<"StructLiteral", "field">>, <<"EnumConstruct", "arg">>,
                   <<"Try", "operand">>, <<"Await", "operand">>, <<"Pipeline", "input">>,
                   <<"Pipeline", "transform">>, <<"Range", "start">>, <<"Range", "end">>,
                   <<"Event", "source">>, <<"Event", "body">>, <<"Wait", "task">>}) # {})

\* What is generated has been analysed, and can be found from its position in
\* the editor, EXCEPT test blocks (not analysed), imported generic bodies (neither),
\* table expressions, what a node names itself and (for the editor) the value of
\* an expression arm; and the dump of all locations, by which the locations are
\* tested, reaches what the editor reaches.
GeneratedIsAnalysed ==
    AtVariable /\ "gen" \in walks =>
        /\ "sema" \notin walks <=> root \in {"test", "imported"} \/ node = "leaf"
                                     \/ LostAt("sema") \cap Tables # {}
        /\ "locate" \notin walks <=> root = "imported" \/ node = "leaf"
              \/ LostAt("locate") \cap (Tables \cup {<<"Match", "value">>}) # {}
        /\ "locate" \in walks <=> "dump" \in walks
=============================================================================
