------------------------------- MODULE Parser -------------------------------
(***************************************************************************)
(* The token cursor under the recursive-descent parser (FileLexer.cpp,     *)
(* QModule.cpp, QBlock.cpp, QStatement.cpp).  The lexer keeps every token  *)
(* it has scanned in a list, so that a parse can be taken back and so that *)
(* the bodies of functions can be skipped and parsed after the last        *)
(* declaration.  A nested generic type rewrites the list: its closing ">>" *)
(* becomes two tokens and every later position moves by one.  Errors are   *)
(* exceptions; a block catches those of its statements, the module those   *)
(* of its declarations, and each skips ahead to where it may go on.        *)
(*                                                                         *)
(* Of the grammar there are function definitions, impl blocks, blocks,     *)
(* matches, lambdas and declarations with a nested generic type; "x" is    *)
(* any token that continues a correct statement, "!" one that fits nowhere. *)
(* Tokens are numbered: at is the number in the source, of both halves of  *)
(* a split ">>" too.                                                       *)
(***************************************************************************)
EXTENDS Integers, Sequences, SequencesExt, FiniteSets

CONSTANTS
    Pieces,     \* the declarations a source is put together from
    MaxPieces   \* bound: pieces of a source

Symbols == {"fn", "impl", "match", "{", "}", ";", "x", "!", ">>", ">"}

ASSUME ParserAssumption == Pieces \subseteq Seq(Symbols) /\ MaxPieces \in Nat

VARIABLES
    file,     \* the tokens of the source
    list,     \* mSymbolList: records of a symbol and its number
    pos,      \* mCurrentPos: tokens consumed
    stack,    \* the parse functions that are running, innermost last
    mode,     \* parsing, or skipping after an error (resyncStatement, resyncTopLevel)
    depth,    \* braces opened while skipping
    phase,    \* declarations, then deferred bodies
    bodies,   \* deferredFuncs: where each body starts, with the number of its brace
    found,    \* mFunctionList: the numbers of the fn tokens
    closed    \* deferred bodies parsed to a closing brace: numbers of both braces

vars == <<file, list, pos, stack, mode, depth, phase, bodies, found, closed>>

---------------------------------------------------------------------------
\* The lexer.

Numbered(s) == [i \in DOMAIN s |-> [sym |-> s[i], at |-> i]]
Token(l, p) == IF p < Len(l) THEN l[p + 1] ELSE [sym |-> "eof", at |-> 0]
Peek == Token(list, pos).sym
Get == pos' = pos + 1 /\ UNCHANGED list

\* splitShiftIntoCloseAngles
Split(l, p) ==
    LET half == [sym |-> ">", at |-> l[p + 1].at]
    IN SubSeq(l, 1, p) \o <<half, half>> \o SubSeq(l, p + 2, Len(l))

---------------------------------------------------------------------------
\* Parse functions.  back is the position Statement::Parse restores when an
\* exception passes through it: a set of one, empty where it restores none.
Frame(k, at, back) == [k |-> k, at |-> at, back |-> back]
Top == IF stack = <<>> THEN "none" ELSE Last(stack).k
Push(f) == stack' = Append(stack, f)
Pop == stack' = Front(stack)

\* An exception leaves every function up to the one that catches it: the
\* innermost block (its own missing brace is thrown past it), else the module,
\* or the loop over the deferred bodies, which does not skip.
Throw(s, p) ==
    LET blocks == {i \in DOMAIN s : s[i].k = "block"}
        catcher == IF blocks = {} THEN 0 ELSE CHOOSE i \in blocks : \A j \in blocks : j <= i
        backs == UNION {s[i].back : i \in catcher + 1 .. Len(s)}
    IN /\ stack' = SubSeq(s, 1, catcher)
       /\ pos' = IF backs = {} THEN p ELSE CHOOSE b \in backs : \A c \in backs : b <= c
       /\ mode' = IF catcher > 0 THEN "statement" ELSE IF phase = "decls" THEN "top" ELSE "parse"
       /\ depth' = 0
Fails == Throw(stack, pos)
FailsPast == Throw(stack, pos + 1)

Going == mode = "parse" /\ UNCHANGED <<mode, depth>>
Keep == UNCHANGED <<file, phase, bodies, found, closed>>

\* FunctionDefinition::Parse up to the parameter list, at the top level and in
\* an impl block; a lambda is in Statement.
BeginFunction ==
    /\ Going /\ phase = "decls" /\ Top \in {"none", "impl"} /\ Peek = "fn"
    /\ Get /\ Push(Frame("signature", Token(list, pos).at, {})) /\ Keep

\* Type::Parse of a parameter with a nested generic type.
SignatureType ==
    /\ Going /\ Top = "signature" /\ Peek = ">>"
    /\ list' = Split(list, pos) /\ pos' = pos + 2 /\ UNCHANGED stack /\ Keep
SignatureError ==
    /\ mode = "parse" /\ Top = "signature" /\ Peek \notin {">>", "{", ";"}
    /\ FailsPast /\ UNCHANGED list /\ Keep

\* A declaration without a body is accepted, of any function.
Bodyless ==
    /\ Going /\ Top = "signature" /\ Peek = ";"
    /\ Get /\ Pop
    /\ found' = IF Len(stack) = 1 THEN found \cup {Last(stack).at} ELSE found
    /\ UNCHANGED <<file, phase, bodies, closed>>

\* The body of a top-level function is skipped and its position kept.
Count(l, p, q, sym) == Cardinality({i \in p + 1 .. q : l[i].sym = sym})
Skipped(l, p) ==
    LET ends == {q \in p + 1 .. Len(l) :
                    l[q].sym = "}" /\ Count(l, p, q, "{") = Count(l, p, q, "}")}
    IN IF ends = {} THEN 0 ELSE CHOOSE q \in ends : \A r \in ends : q <= r
DeferBody ==
    /\ Top = "signature" /\ Len(stack) = 1 /\ Peek = "{" /\ mode = "parse"
    /\ IF Skipped(list, pos) = 0
       THEN Throw(stack, Len(list)) /\ UNCHANGED <<bodies, found>>
       ELSE /\ pos' = Skipped(list, pos) /\ Pop /\ UNCHANGED <<mode, depth>>
            /\ bodies' = Append(bodies, [pos |-> pos, at |-> Token(list, pos).at])
            /\ found' = found \cup {Last(stack).at}
    /\ UNCHANGED <<file, list, phase, closed>>

\* The body of a method is parsed where it stands.
MethodBody ==
    /\ Going /\ Top = "signature" /\ Len(stack) > 1 /\ Peek = "{"
    /\ Get /\ stack' = Append(Front(stack), Frame("block", Token(list, pos).at, {})) /\ Keep

\* ParseImplBlock
BeginImpl ==
    /\ mode = "parse" /\ phase = "decls" /\ stack = <<>> /\ Peek = "impl"
    /\ IF Token(list, pos + 1).sym = "{"
       THEN pos' = pos + 2 /\ Push(Frame("impl", 0, {})) /\ UNCHANGED <<mode, depth>>
       ELSE Throw(stack, pos + 2)
    /\ UNCHANGED list /\ Keep
EndImpl == Going /\ Top = "impl" /\ Peek = "}" /\ Get /\ Pop /\ Keep
NotADeclaration ==
    /\ mode = "parse" /\ phase = "decls"
    /\ \/ Top = "none" /\ Peek \notin {"fn", "impl", "eof"}
       \/ Top = "impl" /\ Peek \notin {"fn", "}"}
    /\ Fails /\ UNCHANGED list /\ Keep

---------------------------------------------------------------------------
\* Block::Parse and Statement::Parse.

Statement ==
    /\ Top = "block" /\ UNCHANGED <<file, phase, bodies, found, closed>>
    /\ \/ Going /\ Peek \in {";", "x"} /\ Get /\ UNCHANGED stack
       \/ Going /\ Peek = "{" /\ Get /\ Push(Frame("block", Token(list, pos).at, {}))
       \* a match, or a lambda as an expression; the latter is tried, and
       \* taken back, by the default case
       \/ /\ Going /\ Peek \in {"match", "fn"} /\ Token(list, pos + 1).sym = "{"
          /\ pos' = pos + 2 /\ UNCHANGED list
          /\ Push(IF Peek = "match" THEN Frame("match", 0, {})
                  ELSE Frame("block", Token(list, pos + 1).at, {pos}))
       \* VariableDeclaration::Parse splits before it can fail
       \/ /\ Going /\ Peek = ">>" /\ Token(list, pos + 1).sym # "!"
          /\ list' = Split(list, pos) /\ pos' = pos + 2 /\ UNCHANGED stack
       \/ mode = "parse" /\ Peek = ">>" /\ Token(list, pos + 1).sym = "!"
            /\ list' = Split(list, pos) /\ Fails
       \/ mode = "parse" /\ Peek \in {"!", ">", "impl"} /\ Fails /\ UNCHANGED list
       \/ mode = "parse" /\ Peek = "fn" /\ Token(list, pos + 1).sym # "{" /\ Fails /\ UNCHANGED list
       \/ mode = "parse" /\ Peek = "match" /\ Token(list, pos + 1).sym # "{"
            /\ Throw(stack, pos + 2) /\ UNCHANGED list

\* The closing brace; that of a deferred body ends ParseDeferredBody.
EndBlock ==
    /\ Going /\ Top = "block" /\ Peek = "}" /\ Get /\ Pop
    /\ closed' = IF phase = "bodies" /\ Len(stack) = 1
                 THEN closed \cup {<<Last(stack).at, Token(list, pos).at>>} ELSE closed
    /\ UNCHANGED <<file, phase, bodies, found>>
\* Mutant: the loop over the statements does not look for the end of the file.
UnclosedSpins ==
    /\ mode = "parse" /\ Top = "block" /\ Peek = "eof" /\ Fails /\ UNCHANGED list /\ Keep

UnclosedBlock ==
    /\ mode = "parse" /\ Top = "block" /\ Peek = "eof"
    /\ Throw(Append(Front(stack), [Last(stack) EXCEPT !.k = "unclosed"]), pos)
    /\ UNCHANGED list /\ Keep

\* MatchExpression::Parse: arms are a pattern and a block.
Arm ==
    /\ Top = "match" /\ UNCHANGED list /\ Keep
    /\ \/ /\ Going /\ Peek = "x" /\ Token(list, pos + 1).sym = "{" /\ pos' = pos + 2
          /\ Push(Frame("block", Token(list, pos + 1).at, {}))
       \/ mode = "parse" /\ Peek = "x" /\ Token(list, pos + 1).sym # "{" /\ Throw(stack, pos + 2)
       \/ mode = "parse" /\ Peek \notin {"x", "}"} /\ Fails
EndMatch == Going /\ Top = "match" /\ Peek = "}" /\ Get /\ Pop /\ Keep

---------------------------------------------------------------------------
\* Skipping after an error.

\* Mutant: braces are not counted.
ResyncFlat ==
    /\ mode = "statement" /\ UNCHANGED <<list, stack, depth>> /\ Keep
    /\ IF Peek \in {"eof", "}"} THEN mode' = "parse" /\ UNCHANGED pos
       ELSE pos' = pos + 1 /\ mode' = IF Peek = ";" THEN "parse" ELSE "statement"

\* resyncStatement: past the next ";", or up to the brace that closes.
ResyncStatement ==
    /\ mode = "statement" /\ UNCHANGED <<list, stack>> /\ Keep
    /\ IF Peek = "eof" \/ (Peek = "}" /\ depth = 0)
       THEN mode' = "parse" /\ UNCHANGED <<pos, depth>>
       ELSE /\ pos' = pos + 1
            /\ depth' = IF Peek = "{" THEN depth + 1 ELSE IF Peek = "}" THEN depth - 1 ELSE depth
            /\ mode' = IF Peek = ";" /\ depth = 0 THEN "parse" ELSE "statement"

\* resyncTopLevel: over one token at least, to what starts a declaration.
Starter(sym) == sym \in {"fn", "impl"}

\* Mutant: the next starter, at whatever depth.
ResyncAnyStarter ==
    /\ mode \in {"top", "further"} /\ UNCHANGED <<list, stack, depth>> /\ Keep
    /\ IF Peek = "eof" \/ (mode = "further" /\ Starter(Peek))
       THEN mode' = "parse" /\ UNCHANGED pos ELSE pos' = pos + 1 /\ mode' = "further"

ResyncTopLevel ==
    /\ mode \in {"top", "further"} /\ UNCHANGED <<list, stack>> /\ Keep
    /\ IF Peek = "eof" \/ (mode = "further" /\ depth = 0 /\ Starter(Peek))
       THEN mode' = "parse" /\ UNCHANGED <<pos, depth>>
       ELSE /\ pos' = pos + 1 /\ mode' = "further"
            /\ depth' = IF Peek = "{" THEN depth + 1
                        ELSE IF Peek = "}" /\ depth > 0 THEN depth - 1 ELSE depth

---------------------------------------------------------------------------
\* Module::Parse: the second pass, from the last function to the first.
EndDeclarations ==
    /\ mode = "parse" /\ phase = "decls" /\ stack = <<>> /\ Peek = "eof" /\ phase' = "bodies"
    /\ UNCHANGED <<file, list, pos, stack, mode, depth, bodies, found, closed>>

\* Mutant: from the first to the last.
ParseFirstBody ==
    /\ mode = "parse" /\ phase = "bodies" /\ stack = <<>> /\ bodies # <<>>
    /\ pos' = bodies[1].pos + 1 /\ bodies' = Tail(bodies)
    /\ Push(Frame("block", bodies[1].at, {}))
    /\ UNCHANGED <<file, list, mode, depth, phase, found, closed>>

ParseDeferredBody ==
    /\ mode = "parse" /\ phase = "bodies" /\ stack = <<>> /\ bodies # <<>>
    /\ pos' = Last(bodies).pos + 1 /\ bodies' = Front(bodies)
    /\ Push(Frame("block", Last(bodies).at, {}))
    /\ UNCHANGED <<file, list, mode, depth, phase, found, closed>>

Done == phase = "bodies" /\ stack = <<>> /\ bodies = <<>> /\ mode = "parse"

Init ==
    /\ \E p \in UNION {[1 .. n -> Pieces] : n \in 0 .. MaxPieces} :
          file = FlattenSeq(p)
    /\ list = Numbered(file) /\ pos = 0 /\ stack = <<>> /\ mode = "parse" /\ depth = 0
    /\ phase = "decls" /\ bodies = <<>> /\ found = {} /\ closed = {}

Next ==
    \/ BeginFunction \/ SignatureType \/ SignatureError \/ Bodyless \/ DeferBody \/ MethodBody
    \/ BeginImpl \/ EndImpl \/ NotADeclaration
    \/ Statement \/ EndBlock \/ UnclosedBlock \/ Arm \/ EndMatch
    \/ ResyncStatement \/ ResyncTopLevel \/ EndDeclarations \/ ParseDeferredBody

\* The parser is one thread that runs until it is done.
Spec == Init /\ [][Next]_vars /\ WF_vars(Next)

---------------------------------------------------------------------------
\* The position kept for a body that is still to be parsed is that of its own
\* brace, whatever has been split since (QModule.cpp:475-480: "the remaining
\* recorded body positions stay valid").
BodiesInPlace ==
    \A i \in DOMAIN bodies : Token(list, bodies[i].pos) = [sym |-> "{", at |-> bodies[i].at]

\* Every source is parsed to its end: no error recovery spins, at the end of
\* the file in particular (QModule.cpp:88, QBlock.cpp:83).
ParseEnds == <>Done

\* What the source says.
Opens(i) == {j \in 1 .. i - 1 : file[j] = "{"}
Closes(i) == {j \in 1 .. i - 1 : file[j] = "}"}
Level(i) == Cardinality(Opens(i)) - Cardinality(Closes(i))
Balanced == /\ \A i \in 1 .. Len(file) + 1 : Cardinality(Closes(i)) <= Cardinality(Opens(i))
            /\ Cardinality(Closes(Len(file) + 1)) = Cardinality(Opens(Len(file) + 1))
Ends(i) == Skipped(Numbered(file), i - 1)
SignatureOf(i) == CHOOSE k \in i + 1 .. Len(file) + 1 :
                    /\ k > Len(file) \/ file[k] # ">>"
                    /\ \A j \in i + 1 .. k - 1 : file[j] = ">>"
Function(i) == file[i] = "fn" /\ SignatureOf(i) <= Len(file) /\ file[SignatureOf(i)] \in {"{", ";"}
Bad(i) == file[i] = "fn" /\ ~Function(i)

\* A declaration that begins right after the token another one failed on.
Fault(i) == CASE Bad(i) -> SignatureOf(i)
              [] file[i] = "impl" /\ i < Len(file) /\ file[i + 1] # "{" -> i + 1
              [] OTHER -> 0
Swallowed(i) ==
    LET sw[k \in 1 .. Len(file)] == \E j \in 1 .. k - 1 : Fault(j) = k - 1 /\ Level(j) < 2 /\ ~sw[j]
    IN sw[i]
\* A member of an impl block after something that is not one.
Escaped(i) ==
    /\ Level(i) = 1
    /\ \E k \in 1 .. i - 1 : /\ file[k] = "impl" /\ file[k + 1] = "{" /\ Level(k) = 0
                             /\ ~Swallowed(k) /\ i < Ends(k + 1)
                             /\ \E j \in k + 2 .. i - 1 : /\ Level(j) = 1
                                                          /\ Bad(j) \/ file[j] \in {"x", "!", ";", "match"}

\* The functions of a module are the ones the source has at its top level, with
\* an error elsewhere or not (QModule.cpp:140: "one bad declaration is reported
\* and skipped") - except one that follows the offending token at once, which
\* the skip begins by consuming, and, counting braces from the place of the
\* error, the members of an impl block after a wrong one.
DeclarationsFound ==
    Done /\ Balanced =>
        found = {i \in DOMAIN file : /\ Function(i) /\ ~Swallowed(i)
                                     /\ Level(i) = 0 \/ Escaped(i)}

\* A deferred body is parsed to its own closing brace, so that the rest of it
\* reports its errors too (QBlock.cpp:20-22) - except when an arm of a match is
\* wrong: the skip takes the match's brace for the block's.
WrongArm(b) ==
    \E i \in b .. Ends(b) : /\ file[i] = "match" /\ file[i + 1] = "{"
                            /\ \E j \in i + 2 .. Ends(i + 1) - 1 :
                                  /\ Level(j) = Level(i) + 1 /\ file[j] # "{"
                                  /\ file[j] # "x" \/ file[j + 1] # "{"
BodiesWhole ==
    \A b \in closed : b[2] = Ends(b[1]) \/ WrongArm(b[1])
=============================================================================
