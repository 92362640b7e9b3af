------------------------------ MODULE Interface ------------------------------
(***************************************************************************)
(* The module boundary.  A library is parsed, checked (the export rules of *)
(* Sema.cpp), written to a .bmod interface (BmodEmitter.cpp) and read back *)
(* by the parser of every consumer (qcc.cpp, QModule.cpp, QStructDefini-   *)
(* tion.cpp and their kin).  The three walk the declarations in different  *)
(* orders and each has its own idea of what crosses the boundary.  A       *)
(* behaviour writes a library one declaration at a time, in source order;  *)
(* what its interface looks like and how a consumer reads it are functions *)
(* of the library.                                                         *)
(*                                                                         *)
(* A declaration mentions one name that matters, ref, at one place: the    *)
(* field or payload, a parameter, the return type or the body.  The names  *)
(* Fs and Fe are a struct and an enum imported from another module.        *)
(***************************************************************************)
EXTENDS Naturals, Sequences

CONSTANT MaxDecls   \* bound: declarations of the library

ASSUME InterfaceAssumption == MaxDecls \in Nat

VARIABLE lib   \* the declarations of the library, in source order

Structs == {"A", "B"}
Foreign == {"Fs", "Fe"}
Builtin == {"int", "Array"}

\* A type reference is a name, a generic type with an argument or a function
\* type with a parameter.
Plain(n) == <<n>>
Nothing == Plain("int")
Names(t) == {t[i] : i \in DOMAIN t}

Decl(kind, name, pub, form, at, ref) ==
    [kind |-> kind, name |-> name, pub |-> pub, form |-> form, at |-> at, ref |-> ref]

\* A declaration is known by its number in the source.  Of those that are not
\* members no two have the same name; a member has the name of its struct.
Decls == {lib[k] : k \in DOMAIN lib}
IsMember(d) == d.kind \in {"method", "conform"}
Declares(kind) == {d.name : d \in {x \in Decls : x.kind = kind}}
NumberOf(n) == CHOOSE k \in DOMAIN lib : lib[k].name = n /\ ~IsMember(lib[k])
DeclOf(n) == lib[NumberOf(n)]
Members(s) == {k \in DOMAIN lib : IsMember(lib[k]) /\ lib[k].name = s.name}

---------------------------------------------------------------------------
\* Module::Parse on the library: a name is known once its declaration is.
Known == Builtin \cup Foreign \cup Declares("struct") \cup Declares("enum")
Refs(names) ==
    {Plain(n) : n \in names \ {"Array"}}
    \cup {<<"Array", n>> : n \in names \cap {"A", "E"}} \cup {<<"fn", "int">>}
Write(d) == lib' = Append(lib, d)

\* StructDefinition::Parse: the type is registered after its fields.
ParseStruct(n, pub, form, ref) ==
    /\ n \notin Known /\ (n = "B" => "A" \in Known)
    /\ ref \in Refs(Known)
    /\ Write(Decl("struct", n, pub, form, "field", ref))

\* EnumDefinition::Parse: the type is registered before its variants.
ParseEnum(pub, ref) ==
    /\ "E" \notin Known /\ ref \in Refs(Known \cup {"E"})
    /\ Write(Decl("enum", "E", pub, "plain", "payload", ref))

ParseProtocol(pub, at, ref) ==
    /\ "P" \notin Declares("protocol") /\ ref \in Refs(Known)
    /\ Write(Decl("protocol", "P", pub, "plain", at, ref))

\* ParseImplBlock: methods, a constructor, or the methods a protocol requires,
\* with the protocol's types.  Bodies are parsed where they stand.
ParseMethod(s, pub, form, at, ref) ==
    /\ s \in Declares("struct")
    /\ ref \in (IF at = "body" THEN {Plain(n) : n \in Known \cup Declares("fn")} ELSE Refs(Known))
    /\ form = "init" => at # "ret" /\ ~\E d \in Decls : d.name = s /\ d.form = "init"
    /\ ~\E d \in Decls : d.kind = "method" /\ d.name = s /\ d.form = form
    /\ Write(Decl("method", s, pub, form, at, ref))
ParseConformance(s, pub) ==
    /\ s \in Declares("struct") /\ "P" \in Declares("protocol")
    /\ ~\E d \in Decls : d.kind = "conform" /\ d.name = s
    /\ Write(Decl("conform", s, pub, "plain", DeclOf("P").at, DeclOf("P").ref))

\* FunctionDefinition::Parse: bodies are deferred to the end of the file.
ParseFunction(f, pub, form, at, ref) ==
    /\ f \notin Declares("fn") /\ (f = "g" => "f" \in Declares("fn"))
    /\ ref \in (CASE at = "body" -> {Plain(n) : n \in Known \cup {"f", "g"}}
                  [] at = "constraint" -> {Plain(n) : n \in Declares("protocol")}
                  [] OTHER -> Refs(Known)
                                \cup (IF form = "extern" THEN {Plain("cstring")} ELSE {}))
    /\ at \in {"body", "constraint"} => form = "generic"
    /\ Write(Decl("fn", f, pub, form, at, ref))

---------------------------------------------------------------------------
\* Sema's export rules.

\* checkExportedTypeRef: a name and its type arguments.  What is not declared
\* here is a builtin, a type parameter or imported, and passes; the types
\* inside a function type are not looked at.
Exported(n) ==
    \A d \in Decls : d.name = n /\ d.kind \in {"struct", "enum"} => d.pub
CheckExportedTypeRef(t) == t[1] = "fn" \/ \A n \in Names(t) : Exported(n)
CheckExportedSignature(d) == d.at \in {"par", "ret"} => CheckExportedTypeRef(d.ref)

IsExportedDataContract(s) == s.form \in {"table", "json"}

CheckFields(s) ==
    /\ s.form = "table" => s.ref = Nothing
    /\ s.pub /\ IsExportedDataContract(s) => CheckExportedTypeRef(s.ref)

\* A conformance of an exported struct: the protocol is exported and, unless
\* the struct is generic, so are the methods.
CheckConformances(s) ==
    s.pub => \A k \in Members(s) : lib[k].kind = "conform" =>
                DeclOf("P").pub /\ (s.form = "generic" \/ lib[k].pub)
CheckMethods(s) ==
    s.pub => \A k \in Members(s) : lib[k].pub => CheckExportedSignature(lib[k])
VisitStruct(s) == CheckFields(s) /\ CheckConformances(s) /\ CheckMethods(s)

Accepted ==
    /\ \A d \in Decls :
          /\ d.kind = "struct" => VisitStruct(d)
          /\ d.kind = "enum" /\ d.pub => CheckExportedTypeRef(d.ref)
          /\ d.kind = "fn" /\ d.pub /\ d.form # "extern" => CheckExportedSignature(d)
    \* the unfinished library has a body for each function it calls
    /\ \A d \in Decls : d.kind = "fn" /\ d.at = "body" => Names(d.ref) \subseteq
            Known \cup Declares("fn")

---------------------------------------------------------------------------
\* BmodEmitter.

\* Mutant: enums before structs, protocols last.
SectionUnordered(kind) ==
    CASE kind = "enum" -> 1 [] kind \in {"struct", "method", "conform"} -> 2
      [] kind = "protocol" -> 3 [] OTHER -> 4

\* emit: protocols, structs with their members, enums, functions, each in the
\* order of the source.
Section(kind) ==
    CASE kind = "protocol" -> 1 [] kind \in {"struct", "method", "conform"} -> 2
      [] kind = "enum" -> 3 [] OTHER -> 4

\* An item of the file: its place there (the section, the number of the
\* declaration or of its struct, the part of the struct, the number), what it
\* declares, the reference printed in it, whether it is a verbatim slice of the
\* source, and the qualifiers that are printed: 'own' of a parameter, 'static'
\* and 'async' only come along in a slice.
Body == 0
Signature == 1
Record == 2
Item(kind, k, part, at, sliced) ==
    LET d == lib[k]
    IN [place |-> <<Section(d.kind), NumberOf(d.name), part, k>>,
        kind |-> kind, name |-> d.name, form |-> d.form, at |-> at, sliced |-> sliced,
        ref |-> IF at = "none" THEN Nothing ELSE d.ref,
        quals |-> IF d.form = "qualified" /\ ~sliced THEN "none" ELSE d.form]
Sig(d) == IF d.at = "body" THEN "none" ELSE d.at

EmitProtocol(k) == IF lib[k].pub THEN {Item("protocol", k, Body, lib[k].at, FALSE)} ELSE {}
EmitEnum(k) == IF lib[k].pub THEN {Item("enum", k, Body, "payload", FALSE)} ELSE {}
EmitFunction(k) ==
    IF lib[k].pub
    THEN {Item("fn", k, Body, IF lib[k].form = "generic" THEN lib[k].at ELSE Sig(lib[k]),
               lib[k].form = "generic")}
    ELSE {}

IsDataContractStruct(s) == s.form \in {"table", "json"}

\* Mutant: the fields of every struct, as before format 4.
EmitFieldsAlways(k) == {Item("struct", k, Body, "field", FALSE)}

\* emitStruct's body: the fields of a generic or a data-contract struct.
EmitFields(k) ==
    {Item("struct", k, Body,
          IF lib[k].form = "generic" \/ IsDataContractStruct(lib[k]) THEN "field" ELSE "none",
          FALSE)}

\* Mutant: a generic struct's members are signatures as well.
EmitSignaturesOnly(k) ==
    {Item("member", m, Signature, Sig(lib[m]), FALSE) :
        m \in {x \in Members(lib[k]) : lib[x].form # "generic" /\ (lib[x].pub
          \/ lib[x].form = "init")}}

\* The members: all of a generic struct's, sliced; of another struct the
\* signatures of public methods and of the constructor, public or not.
EmitStructInterface(k) ==
    IF lib[k].form = "generic"
    THEN {Item("member", m, Signature, lib[m].at, TRUE) : m \in Members(lib[k])}
    ELSE {Item("member", m, Signature, Sig(lib[m]), FALSE) :
            m \in {x \in Members(lib[k]) :
                     lib[x].form # "generic" /\ (lib[x].pub \/ lib[x].form = "init")}}
EmitConformances(k) ==
    {Item("record", m, Record, "none", FALSE) :
        m \in {x \in Members(lib[k]) : lib[x].kind = "conform" /\ DeclOf("P").pub}}
EmitStruct(k) ==
    IF lib[k].pub THEN EmitFields(k) \cup EmitStructInterface(k) \cup EmitConformances(k) ELSE {}

\* collectTypeNames and the foreign-type lines: the foreign structs named by
\* the signatures of public functions and of public methods.
CollectTypeNames(d) ==
    IF d.at \in {"par", "ret"} /\ d.ref[1] # "fn" THEN Names(d.ref) ELSE {}
ForeignTypes ==
    {n \in {"Fs"} : \E d \in Decls :
        /\ d.pub /\ n \in CollectTypeNames(d)
        /\ d.kind = "fn" \/ (IsMember(d) /\ DeclOf(d.name).pub)}

\* The interface: a set of items, which their places put into order.
EmitDecl(k) ==
    CASE lib[k].kind = "protocol" -> EmitProtocol(k)
      [] lib[k].kind = "struct" -> EmitStruct(k)
      [] lib[k].kind = "enum" -> EmitEnum(k)
      [] lib[k].kind = "fn" -> EmitFunction(k)
      [] OTHER -> {}
Emit == UNION {EmitDecl(k) : k \in DOMAIN lib}
Precedes(x, y) ==
    \E i \in 1 .. 4 : /\ x.place[i] < y.place[i]
                      /\ \A j \in 1 .. i - 1 : x.place[j] = y.place[j]

---------------------------------------------------------------------------
\* The consumer reads the file.

\* Type::Parse with the names known so far.  A lone unknown name gives no type
\* and no error; an unknown argument and a function type, which is printed
\* without its parameters, are errors.  cstring is for extern functions.
ParseType(t, known, sliced) ==
    CASE t[1] = "fn" -> IF sliced THEN "ok" ELSE "error"
      [] t[1] = "cstring" -> "error"
      [] Len(t) = 1 /\ t[1] # "cstring" -> IF t[1] \in known THEN "ok" ELSE "unknown"
      [] OTHER -> IF Names(t) \subseteq known THEN "ok" ELSE "error"

\* What becomes of an item.  Without its type a parameter list ends in an
\* error (ParseFuncParam), in the constructor's a null is added to the scope
\* (ParseInit); a function without its return type returns void.
ReadItem(it, known) ==
    LET p == ParseType(it.ref, known, it.sliced)
    IN CASE it.at = "none" -> "ok"
         [] it.at \in {"field", "payload", "body", "constraint"} ->
              IF p = "unknown" THEN "error" ELSE p
         [] it.at = "par" ->
              IF p = "unknown" THEN IF it.form = "init" THEN "crash" ELSE "error" ELSE p
         [] it.at = "ret" -> IF p = "unknown" THEN "void" ELSE p

Defines(it) ==
    IF it.kind \in {"struct", "enum", "fn", "protocol"} THEN {it.name} ELSE {}

\* Names known at an item of a file: those above it, an enum's own, and for the
\* deferred body of a generic function everything in the file.
KnownAt(file, it) ==
    Builtin \cup ForeignTypes
    \cup UNION {Defines(x) : x \in {y \in file :
            \/ Precedes(y, it)
            \/ y = it /\ it.kind = "enum"
            \/ it.kind = "fn" /\ it.at = "body"}}
Outcome(file, it) == IF it.ref = Nothing THEN "ok" ELSE ReadItem(it, KnownAt(file, it))

\* ParseImplBlock checks a conformance record against the methods read so far:
\* the types must have the same names, void included.
ReadRecord(file, it) ==
    LET proto == {x \in file : x.kind = "protocol" /\ Precedes(x, it)}
        meth == {x \in file : /\ x.kind = "member" /\ x.name = it.name /\ x.form = "plain"
                              /\ Precedes(x, it)}
    IN /\ proto # {} /\ meth # {}
       /\ \A x \in meth, y \in proto : Outcome(file, x) = Outcome(file, y)

Reads(file) ==
    \A it \in file : /\ Outcome(file, it) \notin {"error", "crash"}
                     /\ it.kind = "record" => ReadRecord(file, it)

---------------------------------------------------------------------------
InterfaceInit == lib = <<>>

\* The author takes a mention back: a parameter, a field or a body changes.
Edit(i) ==
    /\ lib[i].ref # Nothing /\ lib[i].kind \notin {"protocol", "conform"}
         /\ lib[i].at # "constraint"
    /\ lib' = [lib EXCEPT ![i].ref = Nothing]

InterfaceNext ==
    \/ \E i \in DOMAIN lib : Edit(i)
    \/ Len(lib) < MaxDecls /\ \E pub \in BOOLEAN :
          \/ \E n \in Structs, form \in {"plain", "table", "json", "generic"}, ref \in Refs(Known) :
                ParseStruct(n, pub, form, ref)
          \/ \E ref \in Refs(Known \cup {"E"}) : ParseEnum(pub, ref)
          \/ \E at \in {"par", "ret"}, ref \in Refs(Known) : ParseProtocol(pub, at, ref)
          \/ \E s \in Structs, form \in {"fn", "init", "qualified", "generic"} :
                \E at \in {"par", "ret", "body"}, ref \in Refs(Known \cup Declares("fn")) :
                   ParseMethod(s, pub, form, at, ref)
          \/ \E s \in Structs : ParseConformance(s, pub)
          \/ \E f \in {"f", "g"}, form \in {"plain", "generic", "extern", "qualified"} :
                \E at \in {"par", "ret", "body", "constraint"},
                   ref \in Refs(Known \cup {"f", "g", "P", "cstring"}) :
                   ParseFunction(f, pub, form, at, ref)

InterfaceSpec == InterfaceInit /\ [][InterfaceNext]_lib

---------------------------------------------------------------------------
\* What the properties compare the code with, in terms of the library alone.

Verbatim(d) ==
    IF IsMember(d) THEN DeclOf(d.name).form = "generic" ELSE d.kind = "fn" /\ d.form = "generic"
Ships(d) == d.pub \/ (IsMember(d) /\ (d.form = "init" \/ DeclOf(d.name).form = "generic"))
\* The place of ref in d is one a consumer has to see.
Crosses(d) ==
    /\ Ships(d) /\ (IsMember(d) => DeclOf(d.name).pub)
    /\ d.kind = "struct" => d.form # "plain"
    /\ d.at = "body" => Verbatim(d)
    /\ d.form = "generic" => Verbatim(d) \/ d.kind = "struct"

\* A name that stands further down in the file, or in none of its lines.
Rank(d) == CASE d.kind = "protocol" -> 1 [] d.kind = "struct" \/ IsMember(d) -> 2
             [] d.kind = "enum" -> 3 [] OTHER -> 4
Above(e, d) ==
    LET j == NumberOf(e.name)
        k == NumberOf(d.name)
    IN \/ Rank(e) < Rank(d)
       \/ Rank(e) = Rank(d) /\ (j < k \/ (j = k /\ (IsMember(d) \/ d.kind = "enum")))
       \/ d.kind = "fn" /\ d.at = "body"
Listed(n) == \E d \in Decls : /\ d.pub /\ (d.kind = "fn" \/ (IsMember(d) /\ DeclOf(d.name).pub))
                              /\ d.at \in {"par", "ret"} /\ n \in Names(d.ref)
Resolves(n, d) ==
    \/ n \in Builtin
    \/ n = "Fs" /\ Listed(n)
    \/ n \in UNION {Declares(k) : k \in {"struct", "enum", "protocol", "fn"}}
         /\ DeclOf(n).pub /\ Above(DeclOf(n), d)
LosesReturn(d) == d.at = "ret" /\ Len(d.ref) = 1 /\ ~Resolves(d.ref[1], d) /\ d.ref[1] # "cstring"

\* The forms whose interface a consumer cannot read.
FunctionType(d) == d.ref[1] = "fn" /\ ~Verbatim(d)
CString(d) == d.ref[1] = "cstring"
Dangles(d) ==
    /\ d.ref[1] \notin {"fn", "cstring"} /\ ~LosesReturn(d)
    /\ \E n \in Names(d.ref) : ~Resolves(n, d)
RecordDiffers(d) ==
    d.kind = "conform" /\ LosesReturn(DeclOf("P")) /\ ~LosesReturn(d)
Unreadable(d) == Crosses(d) /\ (FunctionType(d) \/ CString(d) \/ Dangles(d) \/ RecordDiffers(d))

\* Every consumer can read the interface of a library the compiler accepts:
\* no crash, no dangling name, no record that does not match (BmodEmitter.cpp
\* puts protocols before structs and records after members for it) - except
\* when something that crosses has a function type, a cstring, a name that is
\* private, foreign without a header line or further down in the file, or a
\* conformance whose protocol lost a return type that its method kept.
InterfaceReads == Accepted => (Reads(Emit) <=> ~\E d \in Decls : Unreadable(d))

\* A consumer sees the signature the library was compiled with.  A file that
\* reads loses the return type of exactly the members that name a struct or an
\* enum further down (silently void), and 'own' and 'static' of what is not
\* shipped verbatim.
SeenAs(file, d) ==
    {x \in file : /\ x.name = d.name /\ x.form = d.form
                  /\ x.kind = IF IsMember(d) THEN "member" ELSE d.kind}
SignaturesKept ==
    LET file == Emit
    IN Accepted /\ Reads(file) => \A d \in Decls : d.kind # "struct" /\ Crosses(d) =>
          \A x \in SeenAs(file, d) :
             Outcome(file, x) = "ok" /\ x.quals = d.form
               <=> ~LosesReturn(d) /\ (d.form = "qualified" => Verbatim(d))

\* An edit changes the interface, and so the consumers' cache keys, exactly
\* when it is at a place that crosses: the fields of a plain struct, a private
\* member and the body of a function that is not generic stay inside
\* (BmodEmitter.cpp:247-262), the body of a generic one does not.
EditsStayInside ==
    [][\A i \in DOMAIN lib : Len(lib') = Len(lib) /\ lib'[i] # lib[i] =>
          /\ (Emit' = Emit) <=> ~Crosses(lib[i])
          /\ ~Crosses(lib[i]) /\ lib[i].form # "generic" => ForeignTypes' = ForeignTypes]_lib
=============================================================================
