-------------------------------- MODULE Flow --------------------------------
(***************************************************************************)
(* Control flow and cleanup in the code generator (CGStatements.cpp, the   *)
(* block handling of CodeGen.cpp, genTryExpression, genMatchExpression and *)
(* the nested functions of CGLambda.cpp).  The generator walks a function  *)
(* body once and keeps STATIC state: the scope stacks, the temporary       *)
(* lists, mMovedVariables, mInsideLoop and whether the insertion block has *)
(* a terminator.  The emitted code then runs along ONE path.  Both are     *)
(* followed here together: live says whether the path runs through the     *)
(* point being generated, and slots and temporaries remember what they     *)
(* hold on it.  Whatever a program does to a counted reference on its path *)
(* is compared with what the static state made the generator emit.         *)
(***************************************************************************)
EXTENDS Naturals, Sequences, SequencesExt

CONSTANTS MaxDepth, MaxSlots, MaxTemps   \* bounds: open constructs, locals, temporaries

ASSUME FlowAssumption == {MaxDepth, MaxSlots, MaxTemps} \subseteq Nat \ {0}

VARIABLES
    fr,      \* the open functions, blocks, branches and loops, with their slots
    temps,   \* mTempStrings, mTempLambdaCtxs, mTempStructs, mTempArrays
    moved,   \* mMovedVariables of the generator
    sema,    \* mMoved of the analyser, which rejects a second use
    stmt,    \* "none", "decl", "expr" or "done": how far the statement is
    term,    \* the insertion block has its terminator
    live,    \* the path runs through the insertion point
    jump,    \* the loop a break or continue of the path is going to
    inLoop,  \* mInsideLoop
    faults,  \* history: what went wrong on the path
    outside  \* history: a form outside the discipline was generated

vars == <<fr, temps, moved, sema, stmt, term, live, jump, inLoop, faults, outside>>

SlotKinds == {"str", "obj", "enum"}      \* honours moves; does not; zeroed first
TempKinds == {"str", "ctx", "struct", "arr"}
Branches == {"then", "else", "arm", "lastarm"}
Loops == {"while", "ever", "forin"}
NoJump == [to |-> 0, how |-> "none"]

Top == fr[Len(fr)]
Pop == SubSeq(fr, 1, Len(fr) - 1)
Slots(lo) == {r \in (lo .. Len(fr)) \X (1 .. MaxSlots) : r[2] <= Len(fr[r[1]].slots)}
SlotAt(r) == fr[r[1]].slots[r[2]]

\* The frame of the function being generated: nothing below it is visible.
Functions == {"fn", "lambda", "spawn"}
BaseOf(n) == CHOOSE i \in 1 .. n : /\ fr[i].c \in Functions
                                   /\ \A j \in i + 1 .. n : fr[j].c \notin Functions
Base == BaseOf(Len(fr))

\* A new frame, and the static state the end of the construct brings back.
Frame(c, alt) ==
    [c |-> c, slots |-> <<>>, alt |-> alt,
     moved |-> IF c = "then" THEN moved ELSE {},
     temps |-> IF c \in Loops \cup {"lambda", "spawn"} THEN temps ELSE <<>>,
     live |-> c \in {"lambda", "spawn"} /\ live,
     jump |-> IF c \in {"lambda", "spawn"} THEN jump ELSE NoJump,
     stmt |-> IF c \in {"lambda", "spawn"} THEN stmt ELSE "none"]

\* Variables go with their frame: forget the moves of closed ones.
Prune(m) == {r \in m : r[1] < Len(fr)}

---------------------------------------------------------------------------
\* Mutant: the releases do not look at mMovedVariables.
SkipsNothing(r) == FALSE

\* genBlock and emitScopeStackReleases: every slot is released, except that
\* the string, Array, Buffer and fn stacks skip what is moved.
Skips(r) == r \in moved /\ SlotAt(r).k = "str"

ReleaseFault(r) ==
    IF Skips(r) THEN IF SlotAt(r).st = "held" THEN {"leak"} ELSE {}
    ELSE CASE SlotAt(r).st = "gone" -> {"twice"}
           [] SlotAt(r).st = "raw" -> {"raw"}
           [] OTHER -> {}

ScopeFaults(lo) == IF live THEN UNION {ReleaseFault(r) : r \in Slots(lo)} ELSE {}

\* releaseTempX: the calls go to the insertion block, or nowhere if it is
\* terminated; the list is empty afterwards whatever the path does.
TempFault(t) ==
    IF term \/ ~live THEN IF t.on THEN {"leak"} ELSE {}
    ELSE IF t.on /\ t.fn = Base THEN {} ELSE {"undominated"}

FlushFaults(ks) == UNION {TempFault(temps[i]) : i \in {j \in DOMAIN temps : temps[j].k \in ks}}
Without(ts, ks) ==
    LET kept[i \in 0 .. Len(ts)] ==
            IF i = 0 THEN <<>>
            ELSE IF ts[i].k \in ks THEN kept[i - 1] ELSE Append(kept[i - 1], ts[i])
    IN kept[Len(ts)]
Pending(ks) == \E i \in DOMAIN temps : temps[i].k \in ks

---------------------------------------------------------------------------
\* Statements.

\* Mutant: the slot of an enum is registered without being zeroed.
DeclareUnzeroed(k, own) ==
    /\ stmt = "none" /\ ~term /\ Top.c # "fn" /\ Len(Top.slots) < MaxSlots
    /\ own => k = "str"
    /\ fr' = [fr EXCEPT ![Len(fr)].slots = Append(@, [k |-> k, own |-> own, st |-> "raw"])]
    /\ stmt' = "decl"
    /\ UNCHANGED <<temps, moved, sema, term, live, jump, inLoop, faults, outside>>

\* genVariableDeclaration registers the slot first (an enum's is zeroed) ...
BeginDeclaration(k, own) ==
    /\ stmt = "none" /\ ~term /\ Top.c # "fn" /\ Len(Top.slots) < MaxSlots
    /\ own => k = "str"      \* elsewhere own changes nothing
    /\ fr' = [fr EXCEPT ![Len(fr)].slots =
                Append(@, [k |-> k, own |-> own,
                           st |-> IF k = "enum" /\ live THEN "zero" ELSE "raw"])]
    /\ stmt' = "decl"
    /\ UNCHANGED <<temps, moved, sema, term, live, jump, inLoop, faults, outside>>

\* ... and stores the initial value when its expression has been generated.
EndDeclaration ==
    /\ stmt = "decl"
    /\ fr' = IF live THEN [fr EXCEPT ![Len(fr)].slots[Len(Top.slots)].st = "held"] ELSE fr
    /\ stmt' = "expr"
    /\ UNCHANGED <<temps, moved, sema, term, live, jump, inLoop, faults, outside>>

\* An expression leaves a temporary in one of the lists.
TrackTemp(k) ==
    /\ stmt \in {"none", "expr", "decl"} /\ ~term /\ Top.c # "fn" /\ Len(temps) < MaxTemps
    /\ temps' = Append(temps, [k |-> k, on |-> live, fn |-> Base])
    /\ stmt' = IF stmt = "none" THEN "expr" ELSE stmt
    /\ UNCHANGED <<fr, moved, sema, term, live, jump, inLoop, faults, outside>>

\* An own variable is given to an own parameter or an own variable: rejected
\* in a loop by the generator, and after a move by the analyser.
MoveVariable(r) ==
    /\ stmt \in {"none", "expr", "decl"} /\ ~term /\ Top.c # "fn"
    /\ SlotAt(r).k = "str" /\ SlotAt(r).own /\ r \notin sema /\ ~inLoop
    /\ ~(stmt = "decl" /\ r = <<Len(fr), Len(Top.slots)>>)
    /\ moved' = moved \cup {r}
    /\ sema' = sema \cup {r}
    /\ fr' = IF live THEN [fr EXCEPT ![r[1]].slots[r[2]].st = "gone"] ELSE fr
    /\ stmt' = IF stmt = "none" THEN "expr" ELSE stmt
    \* the other branch keeps the variable, and nothing releases it there
    /\ outside' = \E i \in r[1] + 1 .. Len(fr) : fr[i].c \in Branches
    /\ UNCHANGED <<temps, term, live, jump, inLoop, faults>>

\* genBlock after each statement: the four lists are released.
EndStatement ==
    /\ stmt \in {"expr", "done"}
    /\ faults' = faults \cup FlushFaults(TempKinds)
    /\ temps' = <<>>
    /\ stmt' = "none"
    /\ UNCHANGED <<fr, moved, sema, term, live, jump, inLoop, outside>>

\* genBlock: the end of a block releases its frame unless it is terminated.
BlockFaults == IF term THEN {} ELSE ScopeFaults(Len(fr))

OpenBlock ==
    /\ stmt = "none" /\ ~term /\ Top.c # "fn" /\ Len(fr) < MaxDepth
    /\ fr' = Append(fr, Frame("block", FALSE))
    /\ UNCHANGED <<temps, moved, sema, stmt, term, live, jump, inLoop, faults, outside>>

CloseBlock ==
    /\ Top.c = "block" /\ stmt = "none" /\ Len(fr) > 2
    /\ faults' = faults \cup BlockFaults
    /\ fr' = Pop /\ moved' = Prune(moved) /\ sema' = Prune(sema)
    /\ stmt' = "done"
    /\ UNCHANGED <<temps, term, live, jump, inLoop, outside>>

---------------------------------------------------------------------------
\* Branches.  What is pending when they begin is still in the lists when the
\* first branch ends its first statement: released there, lost on the others.
OpenBranch(c, taken, frames, ts) ==
    /\ stmt \in {"none", "expr"} /\ ~term /\ Top.c # "fn" /\ Len(fr) < MaxDepth
    /\ fr' = Append(frames, Frame(c, live /\ ~taken))
    /\ temps' = ts
    /\ live' = (live /\ taken)
    /\ stmt' = "none"
    /\ outside' = (ts # <<>>)
    /\ UNCHANGED <<moved, sema, term, jump, inLoop>>

\* The slot of a value that an expression has just made, in the enclosing block.
WithSlot(k) ==
    [fr EXCEPT ![Len(fr)].slots =
        Append(@, [k |-> k, own |-> FALSE, st |-> IF live THEN "held" ELSE "raw"])]

\* genIfStatement releases the strings of the condition first, and only them.
GenIfStatement(taken) ==
    /\ faults' = faults \cup FlushFaults({"str"})
    /\ OpenBranch("then", taken, fr, Without(temps, {"str"}))

\* A match whose arms are blocks.  It is a statement, so all that is pending was
\* made by its subject.  If that is a string or an integer nothing is released ...
GenMatchValue(taken) == OpenBranch("arm", taken, fr, temps) /\ UNCHANGED faults

\* ... if it is an enum the strings are; and an enum that no variable or field
\* holds is given a slot of the ENCLOSING block.
GenMatchEnum(taken, temporary) ==
    /\ temporary => Len(Top.slots) < MaxSlots
    /\ faults' = faults \cup FlushFaults({"str"})
    /\ OpenBranch("arm", taken, IF temporary THEN WithSlot("enum") ELSE fr, Without(temps, {"str"}))

\* The second branch starts from the moves before the first (genIfStatement)
\* or goes on from those of the first (genMatchExpression has no such care).
NextBranch ==
    /\ Top.c \in {"then", "arm"} /\ stmt = "none"
    /\ faults' = faults \cup BlockFaults
    /\ moved' = IF Top.c = "then" THEN Prune(Top.moved) ELSE Prune(moved)
    /\ sema' = Prune(sema)
    /\ fr' = Append(Pop, [Frame(IF Top.c = "then" THEN "else" ELSE "lastarm", live)
                            EXCEPT !.moved = Prune(moved)])
    /\ live' = Top.alt
    /\ term' = FALSE
    /\ UNCHANGED <<temps, stmt, jump, inLoop, outside>>

\* The merge: the union of the moves of both.
EndBranch ==
    /\ Top.c \in {"else", "lastarm"} /\ stmt = "none"
    /\ faults' = faults \cup BlockFaults
    /\ moved' = Prune(moved \cup Top.moved) /\ sema' = Prune(sema)
    /\ fr' = Pop
    /\ live' = (live \/ Top.alt)
    /\ term' = FALSE /\ stmt' = "done"
    /\ UNCHANGED <<temps, jump, inLoop, outside>>

---------------------------------------------------------------------------
\* Loops.
OpenLoop(c, enters, frames, ts) ==
    /\ stmt \in {"none", "expr"} /\ ~term /\ Top.c # "fn" /\ Len(fr) < MaxDepth
    /\ fr' = Append(frames, [Frame(c, live /\ ~enters) EXCEPT !.temps = ts])
    /\ temps' = ts
    /\ live' = (live /\ enters)
    /\ inLoop' = TRUE
    /\ stmt' = "none"
    /\ outside' = (ts # <<>>)
    /\ UNCHANGED <<moved, sema, term, jump>>

\* genWhileStatement: the strings of the condition are released before the
\* branch.  The condition is generated once and runs before each iteration.
GenWhileStatement(enters) ==
    /\ faults' = faults \cup FlushFaults({"str"})
    /\ OpenLoop("while", enters, fr, Without(temps, {"str"}))

\* for { ... }
GenForInfinite == OpenLoop("ever", TRUE, fr, temps) /\ UNCHANGED faults

\* for x in a .. b: an integer counter
GenForInRange(enters) == OpenLoop("forin", enters, fr, temps) /\ UNCHANGED faults

\* for x in f(): the array the call made becomes a slot of the ENCLOSING block.
GenForInArray(enters) ==
    /\ Len(Top.slots) < MaxSlots
    /\ OpenLoop("forin", enters, WithSlot("obj"), temps)
    /\ UNCHANGED faults

\* The end of the body.  The path comes here by falling through or by
\* continue, and may go round again; a break goes on after the loop.
EndLoop(again) ==
    /\ Top.c \in Loops /\ stmt = "none"
    /\ LET at == jump.to = Len(fr)
           back == live \/ (at /\ jump.how = "continue")
           held == Top.temps # <<>>
       IN /\ faults' = faults \cup BlockFaults
                \cup (IF back /\ held /\ Top.c = "while" THEN {"leak"} ELSE {})
                \cup (IF back /\ held /\ Top.c # "while" /\ again /\ temps = <<>>
                      THEN {"twice"} ELSE {})
          /\ live' = (Top.alt \/ (back /\ Top.c # "ever") \/ (at /\ jump.how = "break"))
          /\ jump' = IF at THEN NoJump ELSE jump
    /\ moved' = Prune(moved) /\ sema' = Prune(sema)
    /\ fr' = Pop
    /\ inLoop' = \E i \in 1 .. Len(fr) - 1 : fr[i].c \in Loops
    /\ term' = FALSE /\ stmt' = "done"
    /\ UNCHANGED <<temps, outside>>

\* genBreakStatement, genContinueStatement: a branch and nothing else.
GenBreakStatement(how) ==
    /\ stmt = "none" /\ ~term
    /\ \E i \in Base + 1 .. Len(fr) :
          /\ fr[i].c \in Loops /\ \A j \in i + 1 .. Len(fr) : fr[j].c \notin Loops
          /\ faults' = IF live /\ \E r \in Slots(i) : SlotAt(r).st = "held"
                       THEN faults \cup {"leak"} ELSE faults
          /\ jump' = IF live THEN [to |-> i, how |-> how] ELSE jump
          /\ outside' = \E r \in Slots(i) : ~Skips(r)
    /\ live' = FALSE /\ term' = TRUE /\ stmt' = "done"
    /\ UNCHANGED <<fr, temps, moved, sema, inLoop>>

\* Mutant: a return forgets the arrays its value made.
ReturnKeepsArrays ==
    /\ stmt \in {"none", "expr"} /\ ~term /\ Top.c # "fn"
    /\ faults' = faults \cup FlushFaults({"str", "struct"}) \cup ScopeFaults(Base)
    /\ temps' = Without(temps, {"str", "struct"})
    /\ outside' = Pending({"ctx"})
    /\ live' = FALSE /\ term' = TRUE /\ stmt' = "done"
    /\ UNCHANGED <<fr, moved, sema, jump, inLoop>>

\* genReturnStatement: three of the four temp lists, then every open scope of
\* the function.
GenReturnStatement ==
    /\ stmt \in {"none", "expr"} /\ ~term /\ Top.c # "fn"
    /\ faults' = faults \cup FlushFaults(TempKinds \ {"ctx"}) \cup ScopeFaults(Base)
    /\ temps' = Without(temps, TempKinds \ {"ctx"})
    /\ outside' = Pending({"ctx"})
    /\ live' = FALSE /\ term' = TRUE /\ stmt' = "done"
    /\ UNCHANGED <<fr, moved, sema, jump, inLoop>>

\* genTryExpression: the error block releases the string and array lists and
\* every open scope, and returns; the lists stay empty for the other path.
GenTryExpression(fails) ==
    /\ stmt \in {"none", "expr", "decl"} /\ ~term /\ Top.c # "fn"
    /\ faults' = faults \cup
          (IF live /\ fails THEN FlushFaults({"str", "arr"}) \cup ScopeFaults(Base)
           ELSE IF \E i \in DOMAIN temps : temps[i].k \in {"str", "arr"} /\ temps[i].on
           THEN {"leak"} ELSE {})
    /\ temps' = Without(temps, {"str", "arr"})
    /\ live' = (live /\ ~fails)
    /\ stmt' = IF stmt = "none" THEN "expr" ELSE stmt
    /\ outside' = \/ temps # <<>>
                  \/ stmt = "decl" /\ Top.slots[Len(Top.slots)].k # "enum"
    /\ UNCHANGED <<fr, moved, sema, term, jump, inLoop>>

---------------------------------------------------------------------------
\* Nested functions.  genLambdaExpression, genSpawnStatement and
\* genEventHandler put the loop stack, the scope stacks and the string and
\* context lists aside and bring them back; the struct and array lists are
\* left in place, and mMovedVariables is emptied and not brought back.
OpenNested(c) ==
    /\ stmt \in {"none", "expr", "decl"} /\ ~term /\ Top.c # "fn" /\ Len(fr) < MaxDepth
    /\ Len(temps) < MaxTemps
    /\ fr' = Append(fr, Frame(c, FALSE))
    /\ temps' = Without(temps, {"str", "ctx"})
    /\ moved' = {}
    /\ live' = TRUE /\ jump' = NoJump /\ stmt' = "none"
    /\ outside' = \/ Pending({"struct", "arr"})
                  \/ \E r \in moved : Skips(r)
    /\ UNCHANGED <<sema, term, inLoop, faults>>

GenLambdaExpression == OpenNested("lambda")
GenSpawnStatement == OpenNested("spawn")

\* Back in the outer function; a lambda leaves its context as a temporary.
CloseNested ==
    /\ Top.c \in {"lambda", "spawn"} /\ stmt = "none"
    /\ faults' = faults \cup BlockFaults
    /\ fr' = Pop
    /\ temps' = Without(Top.temps, {"struct", "arr"}) \o Without(temps, {"str", "ctx"})
                  \o (IF Top.c = "lambda"
                      THEN <<[k |-> "ctx", on |-> Top.live, fn |-> BaseOf(Len(fr) - 1)]>> ELSE <<>>)
    /\ moved' = Prune(moved) /\ sema' = Prune(sema)
    /\ live' = Top.live /\ jump' = Top.jump /\ term' = FALSE
    /\ stmt' = IF Top.stmt = "none" THEN "expr" ELSE Top.stmt
    /\ UNCHANGED <<inLoop, outside>>

---------------------------------------------------------------------------
\* genFunction: the parameters have a frame of their own below the body; an
\* own parameter is registered in it.
FunctionFrames(ownParam) ==
    LET frame(c) == [c |-> c, slots |-> <<>>, alt |-> FALSE, moved |-> {}, temps |-> <<>>,
                     live |-> FALSE, jump |-> NoJump, stmt |-> "none"]
    IN <<[frame("fn") EXCEPT !.slots =
            IF ownParam THEN <<[k |-> "str", own |-> TRUE, st |-> "held"]>> ELSE <<>>],
         frame("block")>>

Init ==
    /\ \E ownParam \in BOOLEAN : fr = FunctionFrames(ownParam)
    /\ temps = <<>> /\ moved = {} /\ sema = {} /\ stmt = "none"
    /\ term = FALSE /\ live = TRUE /\ jump = NoJump /\ inLoop = FALSE
    /\ faults = {} /\ outside = FALSE

\* The end of the body: its block is closed, an implicit return is added where
\* there is no terminator, and the parameter frame is dropped without releases.
GenFunction(ownParam) ==
    /\ Len(fr) = 2 /\ stmt = "none"
    /\ faults' = faults \cup BlockFaults
          \cup (IF live /\ \E r \in Slots(1) : r[1] = 1 /\ SlotAt(r).st = "held"
                THEN {"leak"} ELSE {})
    /\ outside' = (~term /\ \E r \in Slots(1) : r[1] = 1 /\ ~Skips(r))
    /\ fr' = FunctionFrames(ownParam)
    /\ temps' = <<>> /\ moved' = {} /\ sema' = {}
    /\ term' = FALSE /\ live' = TRUE /\ jump' = NoJump
    /\ UNCHANGED <<stmt, inLoop>>

Statement ==
    \/ \E k \in SlotKinds, own \in BOOLEAN : BeginDeclaration(k, own)
    \/ EndDeclaration
    \/ \E k \in TempKinds : TrackTemp(k)
    \/ \E r \in Slots(Base) : MoveVariable(r)
    \/ EndStatement
    \/ OpenBlock \/ CloseBlock

Control ==
    \/ \E taken \in BOOLEAN : GenIfStatement(taken) \/ GenMatchValue(taken)
    \/ \E taken, temporary \in BOOLEAN : GenMatchEnum(taken, temporary)
    \/ NextBranch \/ EndBranch
    \/ \E enters \in BOOLEAN :
          GenWhileStatement(enters) \/ GenForInRange(enters) \/ GenForInArray(enters)
    \/ GenForInfinite
    \/ \E again \in BOOLEAN : EndLoop(again)
    \/ \E how \in {"break", "continue"} : GenBreakStatement(how)
    \/ GenReturnStatement
    \/ \E fails \in BOOLEAN : GenTryExpression(fails)
    \/ GenLambdaExpression \/ GenSpawnStatement \/ CloseNested
    \/ \E ownParam \in BOOLEAN : GenFunction(ownParam)

\* A program is followed until it leaves the discipline.
Next == ~outside /\ (Statement \/ Control)

Spec == Init /\ [][Next]_vars

---------------------------------------------------------------------------
\* No reference is lost on any path of a program that keeps to the discipline:
\* the forms that lose one are those that set outside, a match on a string that
\* its subject has just made among them (the first arm alone releases it).
NothingLost == "leak" \in faults => outside

\* No reference is released twice, whatever the branch, loop exit or nested
\* function the path goes through; what is pending when a loop or the first arm of
\* a match begins, which a loop inside could release each time round, sets outside.
ReleasedOnce == "twice" \in faults => outside

\* A release is only reached by a path that has stored what it releases.
Dominated == faults \cap {"raw", "undominated"} # {} => outside
=============================================================================
