--------------------------------- MODULE Arc ---------------------------------
(***************************************************************************)
(* The ownership discipline of the code generator (CGStatements, CGStruct, *)
(* CGEnum, CGExpressions, CGLambda and the block and temporary handling of *)
(* CodeGen.cpp).  blang values are reference counted, and the retains and  *)
(* releases are placed by the code generator, one gen function per AST     *)
(* node.  Each gen function is an action here: it pops the operands its    *)
(* sub-expressions left, does to the counts what the code it emits does    *)
(* when it runs, and pushes its result.  A behaviour is the execution of   *)
(* one straight-line function body of any shape.                           *)
(*                                                                         *)
(* A value remembers which kind of expression it came from, because that   *)
(* is what the code generator looks at to decide who owns the reference.   *)
(* A container has at most one counted child; an enum value is the payload *)
(* it carries and a function value is its context (Null: none).            *)
(***************************************************************************)
EXTENDS Naturals, Sequences, FiniteSets, SequencesExt

CONSTANTS
    N,          \* number of heap objects
    Kinds,      \* the kinds of value the modelled program uses
    MaxScopes, MaxSlots, MaxOpd    \* bounds: nested blocks, locals of a block, operands

ASSUME ArcAssumption ==
    /\ N \in Nat \ {0}
    /\ Kinds \subseteq {"string", "Array", "struct", "fn", "enum", "Buffer", "arc"}
    /\ {MaxScopes, MaxSlots, MaxOpd} \subseteq Nat \ {0}

Objs == 1 .. N
Null == 0     \* no object

VARIABLES
    heap,    \* object -> its kind, its reference count and its child
    scopes,  \* the scope stacks m*ScopeStack: the slots a block exit releases
    temps,   \* mTempStrings, mTempArrays, mTempStructs: object -> entries
    ctxs,    \* mTempLambdaCtxs
    opd,     \* the operands of the expression being generated
    marks,   \* sizes of the temp lists saved at a match arm or at && and ||
    broken   \* history: a form outside the discipline has been executed

vars == <<heap, scopes, temps, ctxs, opd, marks, broken>>

Sources == {"var", "field", "index", "temp", "rvalue", "alias"}
Free == [k |-> "free", rc |-> 0, kid |-> Null]
NoSlot == <<0, 0>>

---------------------------------------------------------------------------
\* The heap.  The runtime's retain and release functions ignore null.
Retain(h, o) == IF o = Null THEN h ELSE [h EXCEPT ![o].rc = @ + 1]

RetainIf(h, o, c) == IF c THEN Retain(h, o) ELSE h

\* One release; at zero the destructor set at allocation releases the child,
\* and so on down the chain.  The box of a shared or sync value has none.
ReleaseStep(p) ==
    IF p.o = Null THEN p
    ELSE LET c == p.h[p.o] IN
         IF c.rc = 1
         THEN [h |-> [p.h EXCEPT ![p.o] = Free],
               o |-> IF c.k = "arc" THEN Null ELSE c.kid]
         ELSE [h |-> [p.h EXCEPT ![p.o].rc = IF @ = 0 THEN 0 ELSE @ - 1],
               o |-> Null]

Release(h, o) ==
    LET run[n \in 0 .. N] ==
            IF n = 0 THEN [h |-> h, o |-> o] ELSE ReleaseStep(run[n - 1])
    IN run[N].h

ReleaseAll(h, s) == FoldLeft(LAMBDA g, o : Release(g, o), h, s)

Live(h) == {o \in Objs : h[o].rc > 0}

\* A fresh object.  References to dead objects are errors, so reuse is safe.
Dead(h) == Objs \ Live(h)
NewObj == CHOOSE o \in Dead(heap) : \A p \in Dead(heap) : o <= p
Alloc(h, o, k, kid) == [h EXCEPT ![o] = [k |-> k, rc |-> 1, kid |-> kid]]
CanAlloc == Dead(heap) # {}

\* Types are not recursive in the modelled programs: no value holds itself.
Reaches(h, a, b) ==
    LET at[n \in 0 .. N] ==
            IF n = 0 THEN {a}
            ELSE at[n - 1] \cup ({h[o].kid : o \in at[n - 1] \ {Null}} \ {Null})
    IN a # Null /\ b \in at[N]

---------------------------------------------------------------------------
\* The temporary lists.
Track(t, o) == IF o = Null THEN t ELSE [t EXCEPT ![o] = @ + 1]

\* trackTempX of the kinds that have a list; the others stay untracked.
TrackKind(t, k, o) == IF k \in {"string", "Array", "struct"} THEN Track(t, o) ELSE t

\* A string field read retains and tracks, so its value is an entry too.
Tracked(v) == v.src = "temp" \/ (v.src = "field" /\ v.k = "string")
Untrack(t, v) ==
    IF v.o # Null /\ Tracked(v) /\ v.k \in {"string", "Array", "struct"} /\ t[v.o] > 0
    THEN [t EXCEPT ![v.o] = @ - 1] ELSE t

\* Entries of a bag as a sequence, for the releases of a whole list.
Entries(t) ==
    LET add[n \in 0 .. N] ==
            IF n = 0 THEN <<>>
            ELSE add[n - 1] \o [i \in 1 .. t[n] |-> n]
    IN add[N]

NoTemps == [o \in Objs |-> 0]
Since(t, m) == [o \in Objs |-> IF t[o] > m[o] THEN t[o] - m[o] ELSE 0]
OfKinds(h, t, ks) == [o \in Objs |-> IF h[o].k \in ks THEN t[o] ELSE 0]
Minus(t, u) == [o \in Objs |-> t[o] - u[o]]

---------------------------------------------------------------------------
\* Operands.
Val(k, o, src, var) == [k |-> k, o |-> o, src |-> src, var |-> var]
Temp(k, o) == Val(k, o, IF k \in {"string", "Array", "struct"} THEN "temp" ELSE "rvalue", NoSlot)
Top == opd[Len(opd)]
Pop == SubSeq(opd, 1, Len(opd) - 1)
Push(s, v) == Append(s, v)
Base == IF marks = <<>> THEN 0 ELSE marks[1].base
Has(n) == Len(opd) >= Base + n     \* of the expression being generated
Room == Len(opd) < MaxOpd
Borrowed(v) == v.src \in {"var", "field", "index"}
VarOrField(v) == v.src \in {"var", "field"}

SlotAt(r) == scopes[r[1]][r[2]]
IsOwn(v) == v.var # NoSlot /\ SlotAt(v.var).own
Readable(v) == v.var # NoSlot => SlotAt(v.var).use
SetSlot(sc, r, f, x) == [sc EXCEPT ![r[1]][r[2]][f] = x]
AddSlot(sc, k, own, o) ==
    [sc EXCEPT ![Len(sc)] = Append(@, [k |-> k, own |-> own, o |-> o,
                                    moved |-> FALSE, use |-> TRUE])]

\* An own variable given away: the code generator's mMovedVariables and the
\* analyser's mMoved, which rejects later reads.
Consume(sc, v, moved) ==
    IF v.src = "var" /\ IsOwn(v)
    THEN [sc EXCEPT ![v.var[1]][v.var[2]].moved = @ \/ moved,
                    ![v.var[1]][v.var[2]].use = FALSE]
    ELSE sc
SlotRoom == Len(scopes[Len(scopes)]) < MaxSlots
Slots == {r \in (1 .. Len(scopes)) \X (1 .. MaxSlots) : r[2] <= Len(scopes[r[1]])}

\* Only string, Array, Buffer and fn entries of the stacks skip a moved variable.
SkipsMoved(k) == k \in {"string", "Array", "Buffer", "fn"}
\* What the release of a slot reaches: its object, of an enum the object in its
\* payload, which emitEnumPayloadRelease finds by the tag (null for none).
Held(s) == IF s.moved /\ SkipsMoved(s.k) THEN <<>> ELSE <<s.o>>

---------------------------------------------------------------------------
\* Who owns what.  An operand owns its object only when it is an untracked
\* rvalue; every other operand borrows.
Count(S) == Cardinality(S)
Owners(o) ==
    temps[o]
    + Count({i \in DOMAIN ctxs : ctxs[i] = o})
    + Count({r \in Slots : Held(SlotAt(r)) = <<o>>})
    + Count({p \in Objs : heap[p].kid = o})
    + Count({i \in DOMAIN opd : opd[i].o = o /\ opd[i].src = "rvalue"})

Refs == {opd[i].o : i \in DOMAIN opd} \ {Null}

\* Every object has exactly as many references counted as it has owners, and
\* nothing refers to a freed one.
Counted ==
    /\ \A o \in Objs : heap[o].rc = Owners(o)
    /\ Refs \subseteq Live(heap)
    /\ \A r \in Slots : SlotAt(r).moved /\ SkipsMoved(SlotAt(r).k) => ~SlotAt(r).use

---------------------------------------------------------------------------
(* The forms outside the discipline.  Form f applied to value v leaves an  *)
(* object with more owners than references (it will be freed while in use, *)
(* or twice) or with fewer (it is never freed).                            *)

Counts(k) == k \in {"string", "Array", "struct", "Buffer", "fn"}

\* A consumer that only reads its operand drops the reference of an rvalue.
Drops(v) == v.o # Null /\ v.src = "rvalue"

\* An alias of a variable that looks like a fresh value.
Sneaks(v) == v.o # Null /\ v.src = "alias"

Keeps(v) == v.o # Null /\ Borrowed(v)

OutsideDecl(k, own, v) ==
    CASE k = "string" -> Sneaks(v)
      [] k = "struct" -> Sneaks(v)
      [] k = "Array" -> Sneaks(v) \/ (Keeps(v) /\ own /\ IsOwn(v))
      [] k = "Buffer" -> Keeps(v) /\ ~(own /\ IsOwn(v))
      [] k = "fn" -> \/ Keeps(v) /\ ~(own /\ IsOwn(v) /\ ctxs = <<>>)
                     \/ v.src = "rvalue" /\ ctxs # <<>>
                     \/ v.o # Null /\ v.src = "temp" /\ ctxs[Len(ctxs)] # v.o
                     \/ v.o = Null /\ ctxs # <<>>
      [] OTHER -> Keeps(v)

---------------------------------------------------------------------------
\* Expressions.

\* genConstString: a static string, tracked.  A printed literal, the pieces of
\* an interpolation and the result of a string method are made the same way.
GenConstString ==
    /\ "string" \in Kinds /\ CanAlloc /\ Room
    /\ heap' = Alloc(heap, NewObj, "string", Null)
    /\ temps' = Track(temps, NewObj)
    /\ opd' = Push(opd, Temp("string", NewObj))
    /\ UNCHANGED <<scopes, ctxs, marks, broken>>

\* genVariableExpression: a load; nothing is counted.
GenVariableExpression(r) ==
    /\ Room /\ SlotAt(r).use /\ SlotAt(r).k # "arc"
    /\ opd' = Push(opd, Val(SlotAt(r).k, SlotAt(r).o, "var", r))
    /\ UNCHANGED <<heap, scopes, temps, ctxs, marks, broken>>

\* genFieldAccess: a string is retained and tracked, a function's context
\* retained only; the rest is borrowed from the struct.
GenFieldAccess ==
    /\ Has(1) /\ Top.k = "struct" /\ heap[Top.o].kid # Null
    /\ LET f == heap[Top.o].kid
           k == heap[f].k
       IN /\ heap' = RetainIf(heap, f, k \in {"string", "fn"})
          /\ temps' = IF k = "string" THEN Track(temps, f) ELSE temps
          /\ opd' = Push(Pop, Val(k, f, IF k = "fn" THEN "rvalue" ELSE "field", NoSlot))
    /\ broken' = Drops(Top)
    /\ UNCHANGED <<scopes, ctxs, marks>>

\* genIndexExpression: __blang_array_get does not retain.
GenIndexExpression ==
    /\ Has(1) /\ Top.k = "Array" /\ heap[Top.o].kid # Null
    /\ LET e == heap[Top.o].kid
       IN opd' = Push(Pop, Val(heap[e].k, e, "index", NoSlot))
    /\ broken' = Drops(Top)
    /\ UNCHANGED <<heap, scopes, temps, ctxs, marks>>

\* What genStructLiteral does for a field: a string is always retained (the
\* temporary's release balances it), a function's context too; an Array, a
\* Buffer or a struct is retained from a variable or a field and otherwise
\* taken over, so that the temporary is forgotten.
LiteralRetains(v) ==
    \/ v.k \in {"string", "fn"}
    \/ v.k \in {"Array", "Buffer", "struct"} /\ VarOrField(v)
LiteralForgets(v) == v.k \in {"Array", "struct"} /\ ~VarOrField(v)
OutsideLiteral(v) ==
    CASE v.k \in {"string", "fn"} -> Drops(v)
      [] OTHER -> v.o # Null /\ v.src \in {"index", "alias"}

\* genStructLiteral
GenStructLiteral ==
    /\ Has(1) /\ "struct" \in Kinds /\ Counts(Top.k) /\ CanAlloc
    /\ LET v == Top
           h == RetainIf(heap, v.o, LiteralRetains(v))
           t == IF LiteralForgets(v) THEN Untrack(temps, v) ELSE temps
       IN /\ heap' = Alloc(h, NewObj, "struct", v.o)
          /\ temps' = Track(t, NewObj)
          /\ broken' = OutsideLiteral(v)
    /\ opd' = Push(Pop, Temp("struct", NewObj))
    /\ UNCHANGED <<scopes, ctxs, marks>>

\* genConstructExpression: allocate and call X_init, whose body stores the
\* parameter into the field: a field assignment from a variable.  The
\* argument stays the caller's.
FieldRetains(v) ==
    \/ v.k = "string"
    \/ v.k = "struct" /\ VarOrField(v)
    \/ v.k = "Array" /\ Borrowed(v)
GenConstructExpression ==
    /\ Has(1) /\ "struct" \in Kinds /\ Counts(Top.k) /\ CanAlloc
    /\ LET arg == Val(Top.k, Top.o, "var", NoSlot)
       IN /\ heap' = Alloc(RetainIf(heap, Top.o, FieldRetains(arg)), NewObj, "struct", Top.o)
          /\ broken' = (Top.o # Null /\ (Top.src = "rvalue") = FieldRetains(arg))
    /\ temps' = Track(temps, NewObj)
    /\ opd' = Push(Pop, Temp("struct", NewObj))
    /\ UNCHANGED <<scopes, ctxs, marks>>

\* genArrayLiteral: elements are retained only where the declaration gave an
\* element type hint; the array itself is never tracked.
GenArrayLiteral(hint) ==
    /\ Has(1) /\ "Array" \in Kinds /\ Top.k \in {"string", "Array", "struct", "Buffer"}
    /\ CanAlloc /\ (hint \/ Top.src # "rvalue")
    /\ heap' = Alloc(RetainIf(heap, Top.o, hint), NewObj, "Array", Top.o)
    /\ broken' = (Top.o # Null /\ (hint = (Top.src = "rvalue")))
    /\ opd' = Push(Pop, Val("Array", NewObj, "rvalue", NoSlot))
    /\ UNCHANGED <<scopes, temps, ctxs, marks>>

\* The empty literal [].
GenEmptyArray ==
    /\ "Array" \in Kinds /\ CanAlloc /\ Room
    /\ heap' = Alloc(heap, NewObj, "Array", Null)
    /\ opd' = Push(opd, Val("Array", NewObj, "rvalue", NoSlot))
    /\ UNCHANGED <<scopes, temps, ctxs, marks, broken>>

\* genOperationsExpression on strings: + makes a tracked string, a comparison
\* a scalar.
GenStringOperation(concat) ==
    /\ Has(2) /\ Top.k = "string" /\ opd[Len(opd) - 1].k = "string"
    /\ broken' = (Drops(Top) \/ Drops(opd[Len(opd) - 1]))
    /\ IF concat
       THEN /\ CanAlloc
            /\ heap' = Alloc(heap, NewObj, "string", Null)
            /\ temps' = Track(temps, NewObj)
            /\ opd' = Push(SubSeq(opd, 1, Len(opd) - 2), Temp("string", NewObj))
       ELSE opd' = SubSeq(opd, 1, Len(opd) - 2) /\ UNCHANGED <<heap, temps>>
    /\ UNCHANGED <<scopes, ctxs, marks>>

\* Array + Array: __blang_array_concat copies the elements without retaining
\* them, and the result is not tracked.
GenArrayOperation ==
    /\ Has(2) /\ Top.k = "Array" /\ opd[Len(opd) - 1].k = "Array" /\ CanAlloc
    /\ LET l == opd[Len(opd) - 1]
           e == IF heap[l.o].kid # Null THEN heap[l.o].kid ELSE heap[Top.o].kid
       IN /\ heap' = Alloc(heap, NewObj, "Array", e)
          /\ broken' = (e # Null \/ Drops(Top) \/ Drops(l))
    /\ opd' = Push(SubSeq(opd, 1, Len(opd) - 2), Val("Array", NewObj, "rvalue", NoSlot))
    /\ UNCHANGED <<scopes, temps, ctxs, marks>>

\* genStringInterpolation: a part is a variable or a field.  A lone part is
\* handed on as it is; otherwise the pieces are joined into a tracked string.
GenStringInterpolation(lone) ==
    /\ Has(1) /\ VarOrField(Top)
    /\ \/ /\ lone /\ Top.k = "string"
          /\ opd' = Push(Pop, Val("string", Top.o,
                                  IF Tracked(Top) THEN "temp" ELSE "alias", NoSlot))
          /\ UNCHANGED <<heap, temps>>
       \/ /\ ~lone /\ Top.k \in {"string", "struct"} /\ CanAlloc
          /\ heap' = Alloc(heap, NewObj, "string", Null)
          /\ temps' = Track(temps, NewObj)
          /\ opd' = Push(Pop, Temp("string", NewObj))
    /\ UNCHANGED <<scopes, ctxs, marks, broken>>

\* genPrintCall: an argument is borrowed (a struct goes through to_string,
\* whose result is tracked) and the joined text is a tracked string.
GenPrintCall ==
    /\ Has(1) /\ Top.k \in {"string", "struct"} /\ CanAlloc
    /\ heap' = Alloc(heap, NewObj, "string", Null)
    /\ temps' = Track(temps, NewObj)
    /\ opd' = Pop
    /\ broken' = Drops(Top)
    /\ UNCHANGED <<scopes, ctxs, marks>>

\* genStringMethodCall: to_upper, trim, concat, substring, replace...
GenStringMethodCall ==
    /\ Has(1) /\ Top.k = "string" /\ CanAlloc
    /\ heap' = Alloc(heap, NewObj, "string", Null)
    /\ temps' = Track(temps, NewObj)
    /\ opd' = Push(Pop, Temp("string", NewObj))
    /\ broken' = Drops(Top)
    /\ UNCHANGED <<scopes, ctxs, marks>>

\* genBufferMethodCall: slice, to_string and to_string_range results carry a
\* reference and are not tracked.
GenBufferMethodCall(k) ==
    /\ Has(1) /\ Top.k = "Buffer" /\ k \in {"string", "Buffer"} /\ CanAlloc
    /\ heap' = Alloc(heap, NewObj, k, Null)
    /\ opd' = Push(Pop, Val(k, NewObj, "rvalue", NoSlot))
    /\ broken' = Drops(Top)
    /\ UNCHANGED <<scopes, temps, ctxs, marks>>

\* arr.push(v): __blang_array_push does not retain, so the element is retained.
GenArrayPush ==
    /\ Len(opd) = 2 /\ marks = <<>> /\ opd[1].k = "Array" /\ Top.o # Null
    /\ Top.k \in {"string", "Array", "struct", "Buffer"}
    /\ LET a == opd[Len(opd) - 1] IN
       /\ heap[a.o].kid = Null /\ ~Reaches(heap, Top.o, a.o)
       /\ heap' = [Retain(heap, Top.o) EXCEPT ![a.o].kid = Top.o]
       /\ broken' = (Drops(Top) \/ Drops(a))
    /\ opd' = SubSeq(opd, 1, Len(opd) - 2)
    /\ UNCHANGED <<scopes, temps, ctxs, marks>>

\* arr.pop(): the array's reference goes to a tracked temporary.
GenArrayPop ==
    /\ Has(1) /\ Top.k = "Array" /\ heap[Top.o].kid # Null
    /\ LET e == heap[Top.o].kid
           k == heap[e].k
       IN /\ heap' = [heap EXCEPT ![Top.o].kid = Null]
          /\ temps' = TrackKind(temps, k, e)
          /\ opd' = Push(Pop, Temp(k, e))
    /\ broken' = Drops(Top)
    /\ UNCHANGED <<scopes, ctxs, marks>>

\* Operands still to be used whose object the step has freed.
Dangles(s, h) == \E i \in DOMAIN s : s[i].o # Null /\ s[i].o \notin Live(h)

\* arr.clear(): the element destructor runs.
GenArrayClear ==
    /\ Has(1) /\ Top.k = "Array"
    /\ heap' = Release([heap EXCEPT ![Top.o].kid = Null], heap[Top.o].kid)
    /\ opd' = Pop
    /\ broken' = (Drops(Top) \/ Dangles(opd', heap'))
    /\ UNCHANGED <<scopes, temps, ctxs, marks>>

---------------------------------------------------------------------------
\* Calls.  The callee hands over one reference with its result: a fresh
\* object, or its argument, which genReturnStatement retained.

\* trackEnumArgTemp: an rvalue enum argument is given to the block's scope.
TrackEnumArg(v) ==
    IF v.k = "enum" /\ v.src = "rvalue" /\ v.o # Null
    THEN SlotRoom /\ scopes' = AddSlot(scopes, "enum", FALSE, v.o)
    ELSE UNCHANGED scopes

LosesArg(v) == Drops(v) /\ v.k # "enum"

Results(k, v) ==
    (IF CanAlloc THEN {NewObj} ELSE {})
    \cup (IF v.k = k /\ k \in {"string", "Array", "struct"} THEN {v.o} \ {Null} ELSE {})
HandOver(h, k, o) == IF h[o].rc = 0 THEN Alloc(h, o, k, Null) ELSE Retain(h, o)

\* genCallExpression tracks a string, struct or Array result.
GenCallExpression(k) ==
    /\ Has(1) /\ k \in Kinds \ {"arc"}
    /\ TrackEnumArg(Top)
    /\ \E o \in Results(k, Top) :
          /\ heap' = HandOver(heap, k, o)
          /\ temps' = TrackKind(temps, k, o)
          /\ opd' = Push(Pop, Temp(k, o))
    /\ broken' = LosesArg(Top)
    /\ UNCHANGED <<ctxs, marks>>

\* genMethodCall: the same with a receiver below the argument.
GenMethodCall(k) ==
    /\ Has(2) /\ k \in Kinds \ {"arc"} /\ opd[Len(opd) - 1].k = "struct"
    /\ TrackEnumArg(Top)
    /\ \E o \in Results(k, Top) :
          /\ heap' = HandOver(heap, k, o)
          /\ temps' = TrackKind(temps, k, o)
          /\ opd' = Push(SubSeq(opd, 1, Len(opd) - 2), Temp(k, o))
    /\ broken' = (LosesArg(Top) \/ Drops(opd[Len(opd) - 1]))
    /\ UNCHANGED <<ctxs, marks>>

\* Calls whose result is not tracked: through a variable or a field that
\* holds a function (genMethodCall falls back to one), and in a pipeline.
GenFnFieldCall(k) ==
    /\ Has(2) /\ k \in Kinds \ {"arc"}
    /\ LET x == opd[Len(opd) - 1]
           f == heap[x.o].kid
       IN /\ x.k = "struct" /\ f # Null /\ heap[f].k = "fn"
          /\ \E o \in Results(k, Top) :
                /\ heap' = HandOver(heap, k, o)
                /\ opd' = Push(SubSeq(opd, 1, Len(opd) - 2), Val(k, o, "rvalue", NoSlot))
          /\ broken' = (Drops(x) \/ Drops(Top))
    /\ UNCHANGED <<scopes, temps, ctxs, marks>>

GenIndirectCallExpression(k) ==
    /\ Has(1) /\ k \in Kinds \ {"arc"}
    /\ \E r \in Slots : SlotAt(r).k = "fn" /\ SlotAt(r).use
    /\ \E o \in Results(k, Top) :
          /\ heap' = HandOver(heap, k, o)
          /\ opd' = Push(Pop, Val(k, o, "rvalue", NoSlot))
    /\ broken' = Drops(Top)
    /\ UNCHANGED <<scopes, temps, ctxs, marks>>

GenPipelineExpression(k) ==
    /\ Has(1) /\ k \in Kinds \ {"arc"}
    /\ \E o \in Results(k, Top) :
          /\ heap' = HandOver(heap, k, o)
          /\ opd' = Push(Pop, Val(k, o, "rvalue", NoSlot))
    /\ broken' = Drops(Top)
    /\ UNCHANGED <<scopes, temps, ctxs, marks>>

\* A call with an own parameter: an own variable is marked moved; the callee
\* releases the parameter at an explicit return only, and only a string, an
\* Array or a Buffer.
GenOwnCall(returns) ==
    /\ Has(1) /\ Counts(Top.k) /\ Top.o # Null
    /\ LET v == Top
           frees == returns /\ SkipsMoved(v.k) /\ v.k # "fn"
           gives == v.src = "var" /\ IsOwn(v) /\ SkipsMoved(v.k) /\ ~SlotAt(v.var).moved
       IN /\ heap' = IF frees THEN Release(heap, v.o) ELSE heap
          /\ scopes' = Consume(scopes, v, TRUE)
          /\ opd' = Pop
          /\ broken' = \/ frees # (gives \/ v.src = "rvalue")
                       \/ Dangles(opd', heap')
    /\ UNCHANGED <<temps, ctxs, marks>>

---------------------------------------------------------------------------
\* Enums.

\* genEnumConstruct: a string, Array or struct payload is retained from a
\* variable or field and otherwise taken over; a Buffer or a function is just
\* stored.  An enum payload is boxed: the box gets its own references when it
\* is copied from an owner.
Payloads == {"string", "Array", "struct", "Buffer"}
GenEnumConstruct ==
    /\ Has(1) /\ "enum" \in Kinds /\ Top.k \in Payloads /\ Top.o # Null
    /\ LET v == Top
           c == v.k \in {"string", "Array", "struct"}
       IN /\ heap' = RetainIf(heap, v.o, c /\ VarOrField(v))
          /\ temps' = IF c /\ ~VarOrField(v) THEN Untrack(temps, v) ELSE temps
          /\ opd' = Push(Pop, Val("enum", v.o, "rvalue", NoSlot))
          /\ broken' = (v.src \in {"index", "alias"} \/ (~c /\ v.src # "rvalue"))
    /\ UNCHANGED <<scopes, ctxs, marks>>

GenEmptyVariant ==
    /\ Room /\ "enum" \in Kinds
    /\ opd' = Push(opd, Val("enum", Null, "rvalue", NoSlot))
    /\ UNCHANGED <<heap, scopes, temps, ctxs, marks, broken>>

GenBoxedConstruct ==
    /\ Has(1) /\ Top.k = "enum" /\ CanAlloc
    /\ heap' = Alloc(RetainIf(heap, Top.o, Borrowed(Top)), NewObj, "box", Top.o)
    /\ opd' = Push(Pop, Val("enum", NewObj, "rvalue", NoSlot))
    /\ broken' = Sneaks(Top)
    /\ UNCHANGED <<scopes, temps, ctxs, marks>>

\* genMatchExpression: the sizes of the temp lists are noted before the
\* subject is generated ...
Mark(w) == [what |-> w, t |-> temps, c |-> Len(ctxs), base |-> Len(opd)]
InMark(w) == marks # <<>> /\ marks[1].what = w

BeginMatch ==
    /\ marks = <<>> /\ "enum" \in Kinds
    /\ marks' = <<Mark("subject")>>
    /\ UNCHANGED <<heap, scopes, temps, ctxs, opd, broken>>

\* ... an rvalue subject is given to the block's scope, the strings made for
\* the subject are released, and the arm's binding is a plain copy of the
\* payload (of what the box holds, for a boxed one).
BeginArm(bind) ==
    /\ InMark("subject") /\ Len(opd) = marks[1].base + 1 /\ Top.k = "enum"
    /\ LET v == Top
           old == OfKinds(heap, Since(temps, marks[1].t), {"string"})
           box == v.o # Null /\ heap[v.o].k = "box"
           p == IF box THEN heap[v.o].kid ELSE v.o
           b == IF box THEN "enum" ELSE IF p = Null THEN "enum" ELSE heap[p].k
       IN /\ IF VarOrField(v) THEN UNCHANGED scopes
             ELSE SlotRoom /\ scopes' = AddSlot(scopes, "enum", FALSE, v.o)
          /\ heap' = ReleaseAll(heap, Entries(old))
          /\ temps' = Minus(temps, old)
          /\ opd' = IF bind /\ v.o # Null THEN Push(Pop, Val(b, p, "var", NoSlot)) ELSE Pop
          /\ broken' = (Sneaks(v) \/ Dangles(opd', heap'))
          /\ marks' = <<[what |-> "arm", t |-> temps', c |-> Len(ctxs), base |-> Len(opd) - 1]>>
    /\ UNCHANGED ctxs

\* An expression arm hands the result slot a reference of its own, then drops
\* what it made; the result is a tracked temporary of the statement.
EndArm ==
    /\ InMark("arm") /\ Len(opd) = marks[1].base + 1
    /\ Top.k \in {"string", "Array", "struct"}
    /\ LET v == Top
           t == IF Borrowed(v) THEN temps ELSE Untrack(temps, v)
           new == Since(t, marks[1].t)
       IN /\ heap' = ReleaseAll(RetainIf(heap, v.o, Borrowed(v)), Entries(new))
          /\ temps' = Track(Minus(t, new), v.o)
          /\ opd' = Push(Pop, Temp(v.k, v.o))
          /\ broken' = (Sneaks(v) \/ Dangles(opd', heap'))
    /\ marks' = <<>>
    /\ UNCHANGED <<scopes, ctxs>>

\* && and ||: what the right operand made is released inside its own block.
BeginRhs ==
    /\ marks = <<>>
    /\ marks' = <<Mark("rhs")>>
    /\ UNCHANGED <<heap, scopes, temps, ctxs, opd, broken>>

EndRhs ==
    /\ InMark("rhs") /\ Len(opd) = marks[1].base
    /\ LET new == Since(temps, marks[1].t)
       IN /\ heap' = ReleaseAll(heap, Entries(new)
                        \o SubSeq(ctxs, marks[1].c + 1, Len(ctxs)))
          /\ temps' = Minus(temps, new)
          /\ ctxs' = SubSeq(ctxs, 1, marks[1].c)
          /\ broken' = Dangles(opd, heap')
    /\ marks' = <<>>
    /\ UNCHANGED <<scopes, opd>>

---------------------------------------------------------------------------
\* Functions as values.

\* genLambdaDestructor releases every capture that was retained; a struct is
\* captured without either.
Captured(r) == IF SlotAt(r).k = "struct" THEN Null ELSE SlotAt(r).o

\* genLambdaExpression.  An own string, Array, Buffer or function cannot be
\* captured.
GenLambdaExpression(r) ==
    /\ "fn" \in Kinds /\ CanAlloc /\ Room
    /\ SlotAt(r).use /\ ~SlotAt(r).own /\ SlotAt(r).k # "enum"
    /\ heap' = Alloc(Retain(heap, Captured(r)), NewObj, "fn", Captured(r))
    /\ ctxs' = Append(ctxs, NewObj)
    /\ opd' = Push(opd, Val("fn", NewObj, "temp", NoSlot))
    /\ UNCHANGED <<scopes, temps, marks, broken>>

\* genFunctionRefExpression: a thunk with no context.
GenFunctionRefExpression ==
    /\ "fn" \in Kinds /\ Room
    /\ opd' = Push(opd, Val("fn", Null, "rvalue", NoSlot))
    /\ UNCHANGED <<heap, scopes, temps, ctxs, marks, broken>>

---------------------------------------------------------------------------
\* genBlock releases the four temp lists after each statement.
Flush(h, t, c) == ReleaseAll(h, Entries(t) \o c)
StatementStart == opd = <<>> /\ marks = <<>>
EndStatement(h, t, c) ==
    /\ heap' = Flush(h, t, c)
    /\ temps' = NoTemps /\ ctxs' = <<>> /\ opd' = <<>>
    /\ UNCHANGED marks

\* Assignments, which are statements of their own.

\* genAssignmentExpression: the old string, struct, Array or enum payload is
\* released, the new value's temporary forgotten, the value stored; nothing is
\* retained.  own = own marks the source moved.
Replaces(k) == k \in {"string", "struct", "Array", "enum"}
OutsideAssign(r, v) ==
    LET s == SlotAt(r)
        move == s.own /\ v.src = "var" /\ IsOwn(v)
    IN \/ (move \/ s.moved) /\ SkipsMoved(s.k)
       \/ Replaces(s.k) /\ (Sneaks(v) \/ (Keeps(v) /\ ~Tracked(v)))
       \/ ~Replaces(s.k) /\ (s.o # v.o \/ v.src = "rvalue")
             /\ (s.o # Null \/ (v.o # Null /\ v.src # "rvalue"))
GenAssignmentExpression(r) ==
    /\ Len(opd) = 1 /\ marks = <<>> /\ Top.k = SlotAt(r).k /\ Readable(Top)
    /\ LET v == Top
           s == SlotAt(r)
           stored == [scopes EXCEPT ![r[1]][r[2]] = [@ EXCEPT !.o = v.o, !.use = TRUE]]
       IN /\ EndStatement(IF Replaces(s.k) THEN Release(heap, s.o) ELSE heap,
                          IF Replaces(s.k) THEN Untrack(temps, v) ELSE temps, ctxs)
          /\ scopes' = IF s.own /\ v.src = "var" /\ IsOwn(v)
                       THEN SetSlot(stored, v.var, "moved", TRUE) ELSE stored
          /\ broken' = OutsideAssign(r, v)

\* genFieldAssignment: the new value is retained or its temporary forgotten,
\* then the old one is released; a Buffer or function field is overwritten.
GenFieldAssignment ==
    /\ Len(opd) = 2 /\ marks = <<>> /\ opd[1].k = "struct" /\ Top.o # Null
    /\ LET x == opd[1]
           v == Top
           old == heap[x.o].kid
           c == v.k \in {"string", "struct", "Array"}
           stored == [RetainIf(heap, v.o, FieldRetains(v)) EXCEPT ![x.o].kid = v.o]
       IN /\ old # Null /\ heap[old].k = v.k /\ ~Reaches(heap, v.o, x.o)
          /\ EndStatement(IF c THEN Release(stored, old) ELSE stored,
                          IF c /\ ~FieldRetains(v) THEN Untrack(temps, v) ELSE temps, ctxs)
          /\ broken' = \/ Drops(x)
                       \/ IF c THEN \/ v.k = "string" /\ Drops(v)
                                    \/ v.k = "struct" /\ v.src \in {"index", "alias"}
                                    \/ v.k = "Array" /\ Sneaks(v)
                          ELSE old # v.o \/ v.src = "rvalue"
    /\ UNCHANGED scopes

\* genIndexAssignment: __blang_array_set releases the old element when it is
\* another one, and only then is the new element retained.
GenIndexAssignment ==
    /\ Len(opd) = 2 /\ marks = <<>> /\ opd[1].k = "Array" /\ Top.o # Null
    /\ LET a == opd[1]
           v == Top
           old == heap[a.o].kid
           set == [heap EXCEPT ![a.o].kid = v.o]
           freed == IF old = v.o THEN set ELSE Release(set, old)
       IN /\ old # Null /\ heap[old].k = v.k /\ ~Reaches(heap, v.o, a.o)
          /\ EndStatement(Retain(freed, v.o), temps, ctxs)
          /\ broken' = (Drops(a) \/ Drops(v) \/ old = v.o
                        \/ v.o \notin Live(freed))
    /\ UNCHANGED scopes

---------------------------------------------------------------------------
\* Statements.

\* Mutant: a string element bound to a variable is not retained.
DeclForgetsIndex(k, own, v) ==
    CASE k \in {"struct", "Array"} -> Borrowed(v)
      [] k = "string" -> v.src = "var" /\ ~(own /\ v.src = "var" /\ IsOwn(v))
      [] OTHER -> FALSE

\* genVariableDeclaration
DeclRetains(k, own, v) ==
    CASE k \in {"struct", "Array"} -> Borrowed(v)
      [] k = "string" -> v.src \in {"var", "index"} /\ ~(own /\ v.src = "var" /\ IsOwn(v))
      [] OTHER -> FALSE
GenVariableDeclaration(own) ==
    /\ Len(opd) = 1 /\ marks = <<>> /\ SlotRoom /\ Readable(Top)
    /\ LET v == Top
           h == RetainIf(heap, v.o, DeclRetains(v.k, own, v))
           c == IF v.k = "fn" /\ ctxs # <<>> THEN SubSeq(ctxs, 1, Len(ctxs) - 1) ELSE ctxs
       IN /\ EndStatement(h, Untrack(temps, v), c)
          /\ scopes' = AddSlot(Consume(scopes, v, own), v.k, own, v.o)
          /\ broken' = OutsideDecl(v.k, own, v)

\* shared and sync variables: a struct is taken over.  Anything else is put
\* into a counted box that has no destructor: a borrowed value is one more
\* holder that was not counted, the reference of an rvalue is lost.
GenSharedDeclaration ==
    /\ "arc" \in Kinds /\ marks = <<>> /\ SlotRoom /\ Len(opd) <= 1
    /\ LET v == IF Has(1) THEN Top ELSE Val("arc", Null, "rvalue", NoSlot)
           str == v.k = "struct"
           h == IF str THEN heap
                ELSE Alloc(heap, NewObj, "arc", IF v.src = "rvalue" THEN Null ELSE v.o)
           t == IF str THEN Untrack(temps, v) ELSE temps
       IN /\ str \/ CanAlloc
          /\ EndStatement(h, t, ctxs)
          /\ scopes' = AddSlot(scopes, IF str THEN "struct" ELSE "arc", FALSE,
                               IF str THEN v.o ELSE NewObj)
          /\ broken' = (v.o # Null /\ (str => Keeps(v) \/ Sneaks(v)))

\* An expression statement: its value, if any, is not used.
GenExpressionStatement ==
    /\ Len(opd) <= 1 /\ marks = <<>>
    /\ opd # <<>> \/ temps # NoTemps \/ ctxs # <<>>
    /\ EndStatement(heap, temps, ctxs)
    /\ broken' = (Has(1) /\ Drops(Top))
    /\ UNCHANGED scopes

\* genBlock: entry, and the releases of its scope at the end.
GenBlockEnter ==
    /\ StatementStart /\ temps = NoTemps /\ ctxs = <<>> /\ Len(scopes) < MaxScopes
    /\ scopes' = Append(scopes, <<>>)
    /\ UNCHANGED <<heap, temps, ctxs, opd, marks, broken>>

ScopeObjs(sc) == FoldLeft(LAMBDA acc, s : acc \o Held(s), <<>>, sc)
GenBlockExit ==
    /\ StatementStart /\ temps = NoTemps /\ ctxs = <<>>
    /\ heap' = ReleaseAll(heap, ScopeObjs(scopes[Len(scopes)]))
    /\ scopes' = IF Len(scopes) = 1 THEN <<<<>>>> ELSE SubSeq(scopes, 1, Len(scopes) - 1)
    /\ UNCHANGED <<temps, ctxs, opd, marks, broken>>

\* emitScopeStackReleases: the slots of every open scope.
EmitScopeStackReleases(h) ==
    FoldLeft(LAMBDA g, sc : ReleaseAll(g, ScopeObjs(sc)), h, scopes)

\* genReturnStatement, and the caller's genCallExpression, which tracks the
\* result.  The lambda contexts of the statement are not released.
ReturnRetains(v) == v.k \in {"string", "fn"} \/ (v.k # "Buffer" /\ Borrowed(v))
GenReturnStatement ==
    /\ Len(opd) = 1 /\ marks = <<>> /\ Top.k # "arc"
    /\ LET v == Top
           h == RetainIf(heap, v.o, ReturnRetains(v))
           t == IF v.k \in {"struct", "Array"} THEN Untrack(temps, v) ELSE temps
       IN /\ heap' = EmitScopeStackReleases(ReleaseAll(h, Entries(t)))
          /\ temps' = TrackKind(NoTemps, v.k, v.o)
          /\ opd' = <<Temp(v.k, v.o)>>
          /\ broken' = \/ ctxs # <<>>
                       \/ v.k \in {"string", "fn"} /\ Drops(v)
                       \/ v.k = "Buffer" /\ Keeps(v)
                       \/ v.k \notin {"string", "fn"} /\ Sneaks(v)
    /\ ctxs' = <<>> /\ scopes' = <<<<>>>>
    /\ UNCHANGED marks

---------------------------------------------------------------------------
Init ==
    /\ heap = [o \in Objs |-> Free]
    /\ scopes = <<<<>>>>
    /\ temps = NoTemps /\ ctxs = <<>> /\ opd = <<>> /\ marks = <<>>
    /\ broken = FALSE

GenExpression ==
    \/ GenConstString
    \/ \E r \in Slots : GenVariableExpression(r)
    \/ GenFieldAccess \/ GenIndexExpression
    \/ GenStructLiteral \/ GenConstructExpression
    \/ \E hint \in BOOLEAN : GenArrayLiteral(hint)
    \/ GenEmptyArray
    \/ \E concat \in BOOLEAN : GenStringOperation(concat)
    \/ GenArrayOperation
    \/ \E lone \in BOOLEAN : GenStringInterpolation(lone)
    \/ GenPrintCall \/ GenStringMethodCall
    \/ \E k \in Kinds : GenBufferMethodCall(k)
    \/ GenArrayPush \/ GenArrayPop \/ GenArrayClear
    \/ \E k \in Kinds : GenCallExpression(k)
    \/ \E k \in Kinds : GenMethodCall(k)
    \/ \E k \in Kinds : GenFnFieldCall(k) \/ GenIndirectCallExpression(k)
    \/ \E k \in Kinds : GenPipelineExpression(k)
    \/ \E returns \in BOOLEAN : GenOwnCall(returns)
    \/ GenEnumConstruct \/ GenEmptyVariant \/ GenBoxedConstruct
    \/ BeginMatch
    \/ \E bind \in BOOLEAN : BeginArm(bind)
    \/ EndArm \/ BeginRhs \/ EndRhs
    \/ \E r \in Slots : GenLambdaExpression(r)
    \/ GenFunctionRefExpression
    \/ \E r \in Slots : GenAssignmentExpression(r)
    \/ GenFieldAssignment \/ GenIndexAssignment

GenStatement ==
    \/ \E own \in BOOLEAN : GenVariableDeclaration(own)
    \/ GenSharedDeclaration \/ GenExpressionStatement
    \/ GenBlockEnter \/ GenBlockExit \/ GenReturnStatement

\* A program is followed until it leaves the discipline.
Next == ~broken /\ (GenExpression \/ GenStatement)

Spec == Init /\ [][Next]_vars

\* The discipline: the counts are exact on every path of every program that
\* stays inside the forms above, and wrong after the first form outside them.
CountsExact == Counted <=> ~broken
=============================================================================
