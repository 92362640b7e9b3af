-------------------------------- MODULE Types --------------------------------
(***************************************************************************)
(* Static types in the compiler.  Three views of the type of an expression *)
(* have to agree: what it really is, what Sema annotates on the node (or   *)
(* nothing: many nodes stay without), and what the code generator derives  *)
(* again, form by form, when it must choose between the string, the array, *)
(* the struct and the plain code path (isStringType, isArrayType,          *)
(* getFieldType, receiverStructDef, methodReturnTypeName).  Expressions    *)
(* are built bottom up, one action per node, over a program with a struct  *)
(* S and a generic struct Box<T>.  Only well-typed programs are built.     *)
(***************************************************************************)
EXTENDS Naturals, Sequences, FiniteSets

CONSTANT MaxTy   \* bound: length of a type

ASSUME TypesAssumption == MaxTy \in Nat \ {0}

VARIABLES
    ctx,   \* the body being compiled: of a function, a method of S, of Box<string>
    opd,   \* the operands of the expression being built
    did    \* what became of the last call, operator or check

typesVars == <<ctx, opd, did>>

\* A type is the sequence of its names: Array<Box<string>> is three long.
None == <<>>
Str == <<"string">>
Arr(t) == <<"Array">> \o t
Named(t, n) == t # None /\ Head(t) = n
Params(t) == IF t = None THEN None ELSE Tail(t)

Structs == {"S", "Box"}
Fields == [S |-> [s |-> Str, list |-> Arr(Str), box |-> <<"Box", "string">>],
           Box |-> [value |-> <<"T">>, items |-> Arr(<<"T">>)]]
Methods == [S |-> [text |-> Str, names |-> Arr(Str), twin |-> <<"S">>,
                   boxed |-> <<"Box", "string">>, find |-> <<"Option", "string">>],
            Box |-> [get |-> <<"T">>, all |-> Arr(<<"T">>)]]
Types == {<<"int">>, Str, <<"S">>, <<"Box", "string">>, Arr(Str), Arr(<<"S">>), Arr(Arr(Str)),
          <<"Option", "string">>, <<"Option", "S">>, <<"fn", "string">>}

\* The type parameter of Box, bound to arg.
With(t, arg) == IF t # None /\ t[Len(t)] = "T" THEN SubSeq(t, 1, Len(t) - 1) \o arg ELSE t
Generic(t) == t # None /\ t[Len(t)] = "T"

\* mTypeSubstitution: T is string while Box<string>'s methods are generated.
\* The map is consulted for the name of a type, not for its parameters.
SubParams(t) == IF ctx = "Box" /\ t # None THEN Str ELSE t   \* mutant: always substituted
Sub(t) == IF ctx = "Box" /\ Named(t, "T") THEN Str ELSE t
Real(t) == IF ctx = "Box" THEN With(t, Str) ELSE t
SelfType == IF ctx = "Box" THEN <<"Box", "string">> ELSE <<ctx>>

\* An operand: its node, type, annotation, what the generator derives (cg, str,
\* arr), and whether it can derive it only once the node has been generated.
Opd(form, ty, ann, cg, str, arr) ==
    [form |-> form, ty |-> ty, ann |-> ann, cg |-> cg, str |-> str, arr |-> arr, late |-> FALSE]
Plain(form, ty, ann) == Opd(form, ty, ann, None, FALSE, FALSE)

Top == opd[Len(opd)]
Under == opd[Len(opd) - 1]
Put(n, v) == /\ Len(v.ty) <= MaxTy
             /\ opd' = Append(SubSeq(opd, 1, Len(opd) - n), v)
Has(n) == Len(opd) >= n
Nothing == [op |-> "none", on |-> <<>>, res |-> "none"]
Done(op, on, res) == did' = [op |-> op, on |-> on, res |-> res] /\ UNCHANGED ctx
Quiet == did' = Nothing /\ UNCHANGED ctx

---------------------------------------------------------------------------
\* Sema.

StructForType(t) == IF t # None /\ Head(t) \in Structs THEN Head(t) ELSE "none"
EnumForType(t) == IF Named(t, "Option") THEN "Option" ELSE "none"

IsCheckableType(t) == Head(t) \in {"int", "bool", "string"} \cup Structs
\* Mutant: a type parameter is compatible with nothing but itself.
CompatibleStrict(from, to) ==
    \/ from = None \/ to = None
    \/ Head(from) = Head(to)
    \/ /\ ~({Head(from), Head(to)} \subseteq {"Array", "Option"})
       /\ {Head(from), Head(to)} \subseteq {"int", "bool"}
TypesCompatible(from, to) ==
    \/ from = None \/ to = None
    \/ Head(from) = Head(to)
    \/ "T" \in {Head(from), Head(to)}
    \/ /\ ~({Head(from), Head(to)} \subseteq {"Array", "Option"})
       /\ \/ ~IsCheckableType(from) \/ ~IsCheckableType(to)
          \/ {Head(from), Head(to)} \subseteq {"int", "bool"}

\* resolveFieldAccess: a field type that mentions a type parameter is left out.
FieldAnnotation(base, f) ==
    LET sd == StructForType(base)
    IN IF sd = "none" THEN None
       ELSE IF Generic(Fields[sd][f]) THEN None ELSE Fields[sd][f]

\* Mutant: the type parameter is taken from the method's type, not the receiver's.
MethodAnnotationUnbound(base, m) ==
    LET sd == StructForType(base)
    IN IF sd = "none" THEN None
       ELSE IF Methods[sd][m] = <<"T">> THEN base ELSE Methods[sd][m]

\* resolveMethodCall: a returned T is replaced, a returned Array<T> is not.
MethodAnnotation(base, m) ==
    LET sd == StructForType(base)
    IN IF sd = "none" THEN None
       ELSE IF Methods[sd][m] = <<"T">> THEN Params(base) ELSE Methods[sd][m]

\* The binding of a match arm, declared `var` by the parser.
BindingType(subject) ==
    IF EnumForType(subject) = "none" THEN <<"var">>
    ELSE IF Params(subject) # None THEN Params(subject) ELSE <<"T">>

\* A + on one string is rejected, where both operands have an annotation.
RejectsPlus(l, r) ==
    /\ l # None /\ r # None /\ "T" \notin {Head(l), Head(r)}
    /\ Named(l, "string") # Named(r, "string")

---------------------------------------------------------------------------
\* The code generator.

IsUserStructType(n) == n \in Structs

\* Mutant: the annotation is not looked at.
FieldTypeUnannotated(obj, f, ann) ==
    IF obj.form = "self" THEN Sub(Fields[Head(SelfType)][f]) ELSE None

\* getFieldType: the annotation, or the struct of a variable or of a field.
GetFieldType(obj, f, ann) ==
    LET at(sd) == Fields[sd][f]
    IN CASE ann # None -> ann
         [] ann = None /\ obj.form = "self" -> Sub(at(Head(SelfType)))
         [] ann = None /\ obj.form = "var" /\ StructForType(obj.cg) # "none" ->
              LET t == at(Head(obj.cg)) IN
              IF Sub(t) # t THEN Sub(t)
              ELSE IF Params(obj.cg) # None THEN With(t, Params(obj.cg)) ELSE t
         [] ann = None /\ obj.form = "field" /\ StructForType(Sub(obj.cg)) # "none" ->
              Sub(at(Head(Sub(obj.cg))))
         [] OTHER -> None

\* receiverStructDef
ReceiverStructDef(obj) ==
    IF obj.form = "self" THEN Head(SelfType)
    ELSE LET t == IF obj.form \in {"var", "field"} /\ obj.cg # None THEN obj.cg ELSE obj.ann
         IN StructForType(Sub(t))

\* methodReturnTypeName
MethodReturnType(obj, m) ==
    LET sd == ReceiverStructDef(obj)
        objType == IF obj.form \in {"var", "self"} THEN obj.cg ELSE obj.ann
    IN IF sd = "none" THEN None
       ELSE IF Methods[sd][m] = <<"T">> /\ Params(objType) # None THEN Params(objType)
       ELSE Sub(Methods[sd][m])

\* Mutant: only variables and self are receivers.
ReceiverVariable(obj) == IF obj.form \in {"var", "self"} THEN "emitted" ELSE "dropped"

\* genMethodCall finds the struct of a variable, self, a field or a call.  An
\* instance of Box whose arguments are unknown has no symbol to call.
Receiver(obj) ==
    LET t == Sub(obj.cg)
        sym(u) == IF StructForType(u) = "none" THEN "dropped"
                  ELSE IF u \in {<<"S">>, <<"Box", "string">>} THEN "emitted" ELSE "reported"
    IN CASE obj.form = "self" -> "emitted"
         [] obj.form = "var" ->
              IF Len(t) > 1 /\ t # <<"Box", "string">> THEN "dropped" ELSE sym(t)
         [] obj.form = "field" ->
              IF ReceiverStructDef(obj) = "none" THEN "dropped" ELSE sym(t)
         [] obj.form = "call" -> IF obj.cg = None THEN "dropped" ELSE sym(<<Head(obj.cg)>>)
         [] OTHER -> "dropped"

\* isStringType and isArrayType, as they are before the operand is generated: the
\* T of a call whose type arguments are still to be inferred is taken for Box's.
KnownString(v) == IF v.late THEN Named(Sub(v.cg), "string") ELSE v.str
KnownArray(v) == IF v.late THEN Named(Sub(v.cg), "Array") ELSE v.arr

---------------------------------------------------------------------------
\* Leaves.
ConstInteger == Put(0, Plain("literal", <<"int">>, <<"int">>)) /\ Quiet
ConstString == Put(0, Opd("literal", Str, Str, None, TRUE, FALSE)) /\ Quiet

\* A variable is what its declaration says; T through the substitution.
Declared(ty, decl) ==
    Opd("var", ty, decl, decl, Named(Sub(decl), "string"), Named(Sub(decl), "Array"))
Variable(t) ==
    /\ ctx = "Box" \/ ~Generic(t)
    /\ Put(0, Declared(Real(t), t)) /\ Quiet
Self ==
    /\ ctx # "fn"
    /\ Put(0, Opd("self", SelfType, <<"self">>, <<"self">>, FALSE, FALSE))
    /\ Quiet

\* var x = e; and then x.  Without an annotation x stays `var`.
VarDeclaration ==
    /\ Has(1) /\ Top.ty # <<"int">>
    /\ Put(1, Declared(Top.ty, IF Top.ann = None THEN <<"var">> ELSE Top.ann))
    /\ Quiet

\* T x = e; return e; f(e): e where its own type is expected.
CheckAgainstType ==
    /\ Has(1)
    /\ Done("check", <<Top>>,
                   IF TypesCompatible(Top.ann, Top.ty) THEN "accepted" ELSE "rejected")
    /\ opd' = SubSeq(opd, 1, Len(opd) - 1)

\* genCallExpression.  A generic function's T is bound by explicit arguments,
\* or inferred when the call is generated.
CallExpression(t) ==
    /\ Put(0, Opd("call", t, t, t, Named(t, "string"), Named(t, "Array")))
    /\ Quiet
GenericCall(explicit) ==
    /\ Has(1) /\ (explicit \/ Top.ann # None)
    /\ Put(1, [Opd("call", Top.ty, <<"T">>, <<"T">>, Named(Top.ty, "string"),
                   Named(Top.ty, "Array")) EXCEPT !.late = ~explicit])
    /\ Quiet
IndirectCallExpression ==
    /\ Put(0, Plain("indirect", Str, Str)) /\ Quiet
PipelineExpression(t) ==
    /\ Has(1)
    /\ Put(1, Plain("pipeline", t, None)) /\ Quiet
AwaitExpression(t) == Put(0, Plain("await", t, None)) /\ Quiet

---------------------------------------------------------------------------
\* Members.
FieldAccess(f) ==
    /\ Has(1) /\ Head(Top.ty) \in Structs /\ f \in DOMAIN Fields[Head(Top.ty)]
    /\ LET ann == FieldAnnotation(Top.ann, f)
           cg == GetFieldType(Top, f, ann)
       IN Put(1, Opd("field", With(Fields[Head(Top.ty)][f], Params(Top.ty)), ann, cg,
                     Named(cg, "string"), Named(cg, "Array")))
    /\ Quiet

MethodCall(m) ==
    /\ Has(1) /\ Head(Top.ty) \in Structs /\ m \in DOMAIN Methods[Head(Top.ty)]
    /\ LET ann == MethodAnnotation(Top.ann, m)
           r == MethodReturnType(Top, m)
       IN Put(1, Opd("method", With(Methods[Head(Top.ty)][m], Params(Top.ty)), ann, None,
                     Named(Sub(ann), "string") \/ Named(r, "string"),
                     Named(Sub(ann), "Array") \/ Named(r, "Array")))
    /\ Done("method", <<Top>>, Receiver(Top))

\* Built-in methods: a string's to_upper, an array's pop; Sema knows none.
StringMethod ==
    /\ Has(1) /\ Top.ty = Str
    /\ Put(1, Opd("builtin", Str, None, None, KnownString(Top), FALSE))
    /\ Done("builtin", <<Top>>, IF KnownString(Top) THEN "emitted" ELSE "dropped")
ArrayPop ==
    /\ Has(1) /\ Named(Top.ty, "Array")
    /\ Put(1, Plain("builtin", Params(Top.ty), None))
    /\ Done("builtin", <<Top>>, IF KnownArray(Top) THEN "emitted" ELSE "dropped")

\* An element is recognised where the array is a variable or a field.
IndexExpression ==
    /\ Has(1) /\ Named(Top.ty, "Array")
    /\ LET ann == IF Named(Top.ann, "Array") THEN Params(Top.ann) ELSE None
           el == IF Top.form \in {"var", "field"} THEN Sub(Params(Top.cg)) ELSE None
       IN Put(1, Opd("index", Params(Top.ty), ann, None,
                     Top.arr /\ Named(el, "string"), Named(el, "Array")))
    /\ Quiet

---------------------------------------------------------------------------
\* Operators and literals.
Concat ==
    /\ Has(2) /\ Top.ty = Under.ty /\ Head(Top.ty) \in {"string", "Array"}
    /\ Put(2, Opd("operation", Top.ty, Under.ann, None, Under.str, FALSE))
    /\ Done("concat", <<Under, Top>>,
                   IF RejectsPlus(Under.ann, Top.ann) THEN "rejected"
                   ELSE IF (Top.str /\ Under.str) \/ (Top.arr /\ Under.arr) THEN "emitted"
                   ELSE "pointers")
Compare ==
    /\ Has(2) /\ Top.ty = Str /\ Under.ty = Str
    /\ Put(2, Plain("operation", <<"int">>, <<"bool">>))
    /\ Done("compare", <<Under, Top>>,
                   IF Top.str /\ Under.str THEN "emitted" ELSE "pointers")

ArrayLiteral ==
    /\ Has(1)
    /\ Put(1, Opd("array", Arr(Top.ty), <<"Array">>, None, FALSE, TRUE))
    /\ Quiet
\* S { ... }, S(...), Box<string> { ... }: the annotation is the bare name.
StructValue(t) == Put(0, Plain("struct", t, <<Head(t)>>)) /\ Quiet
EnumConstruct ==
    /\ Has(1)
    /\ Put(1, Plain("enum", <<"Option">> \o Top.ty, <<"Option">>))
    /\ Quiet
QueryExpression(n) == Put(0, Plain("query", <<n, "S">>, <<n, "S">>)) /\ Quiet

\* e?: the enum is found for a call or a variable; otherwise e is passed on.
TryExpression ==
    /\ Has(1) /\ Named(Top.ty, "Option")
    /\ Put(1, Plain("try", Params(Top.ty), None))
    /\ Done("try", <<Top>>,
                   IF Top.form \in {"call", "var"} /\ EnumForType(Top.cg) # "none"
                   THEN "emitted" ELSE "dropped")

\* match e { some(x) -> x }, and the value of a match with two arms.
MatchBinding ==
    /\ Has(1) /\ Named(Top.ty, "Option")
    /\ Put(1, Declared(Params(Top.ty), BindingType(Top.ann)))
    /\ Quiet
MatchExpression ==
    /\ Has(2) /\ Top.ty = Under.ty
    /\ LET unified == IF Under.ann # None THEN Under.ann ELSE Top.ann
       IN /\ Put(2, Opd("match", Top.ty, unified, None,
                        Named(Sub(unified), "string"), Named(Sub(unified), "Array")))
          /\ Done("match", <<Under, Top>>,
                         IF TypesCompatible(Top.ann, unified) THEN "accepted" ELSE "rejected")

---------------------------------------------------------------------------
TypesInit == ctx \in {"fn", "S", "Box"} /\ opd = <<>> /\ did = Nothing

Leaf ==
    \/ ConstInteger \/ ConstString
    \/ \E t \in Types \cup {<<"T">>, Arr(<<"T">>)} : Variable(t)
    \/ Self
    \/ \E t \in Types : CallExpression(t)
    \/ IndirectCallExpression
    \/ \E t \in {Str, Arr(Str), <<"S">>} : AwaitExpression(t)
    \/ \E t \in {<<"S">>, <<"Box", "string">>} : StructValue(t)
    \/ \E n \in {"Array", "Option"} : QueryExpression(n)

Node ==
    \/ VarDeclaration \/ CheckAgainstType
    \/ \E explicit \in BOOLEAN : GenericCall(explicit)
    \/ \E t \in {Str, Arr(Str)} : PipelineExpression(t)
    \/ \E f \in {"s", "list", "box", "value", "items"} : FieldAccess(f)
    \/ \E m \in {"text", "names", "twin", "boxed", "find", "get", "all"} : MethodCall(m)
    \/ StringMethod \/ ArrayPop \/ IndexExpression
    \/ Concat \/ Compare \/ ArrayLiteral \/ EnumConstruct
    \/ TryExpression \/ MatchBinding \/ MatchExpression

\* A program is followed until something in it is rejected or miscompiled.
Sound == did.res \in {"none", "emitted", "accepted"}
TypesNext ==
    /\ Sound
    /\ \/ Len(opd) < 2 /\ Leaf
       \/ Node

TypesSpec == TypesInit /\ [][TypesNext]_typesVars

---------------------------------------------------------------------------
\* An annotation names the type of its node.  It may stop short (a literal has
\* no parameters) and may end in a name that says nothing: T, var or self.
Says(ann, ty) ==
    \A i \in DOMAIN ann : \/ i \in DOMAIN ty /\ ann[i] = ty[i]
                          \/ i = Len(ann) /\ ann[i] \in {"T", "var", "self"}
AnnotationsSound == \A i \in DOMAIN opd : Says(opd[i].ann, opd[i].ty) \/ opd[i].ann = <<"bool">>

\* The generator takes nothing for a string or an array that is not one.
\* Only the T of another declaration, inside a method of Box, is taken for Box's.
NeverMistaken ==
    \A i \in DOMAIN opd :
        \/ (opd[i].str => opd[i].ty = Str) /\ (opd[i].arr => Named(opd[i].ty, "Array"))
        \/ ctx = "Box" /\ Named(opd[i].ann, "T")

\* What Sema knows the generator knows too: an operand annotated with its whole
\* type is recognised, unless it is the call of a function value, an element of
\* an array that is neither a variable nor a field, a query, or a sum of arrays.
KnownIsUsed ==
    Sound => \A i \in DOMAIN opd : opd[i].ann = opd[i].ty =>
        /\ opd[i].ty = Str => opd[i].str \/ opd[i].form \in {"indirect", "index"}
        /\ Named(opd[i].ty, "Array") =>
              opd[i].arr \/ opd[i].form \in {"query", "index", "operation"}

\* A method that Sema has resolved is called or reported.  It is dropped without
\* a word exactly when the receiver is itself a method call, an element, a
\* struct made on the spot or the value of a match.
MethodCallsKept ==
    did.op = "method" /\ StructForType(did.on[1].ann) # "none" =>
        (did.res = "dropped" <=> did.on[1].form \in {"method", "index", "struct", "match"})

\* No well-typed program is rejected, except for + on a `var` variable that was
\* initialised by an expression without annotation (e?, await, a pipeline...).
NoFalseRejection ==
    did.res = "rejected" =>
        did.op = "concat" /\ \E i \in DOMAIN did.on : did.on[i].ann = <<"var">>
=============================================================================
