----------------------------- MODULE FlowProofs -----------------------------
(***************************************************************************)
(* Proofs about Flow.tla, for functions of any depth with any number of    *)
(* locals and temporaries:                                                 *)
(*   Kept      no path loses a reference,                                  *)
(*   Single    none releases one twice,                                    *)
(*   Stored    none releases what it has not stored,                       *)
(* as long as the program keeps to the discipline.                         *)
(***************************************************************************)
EXTENDS Flow, SequenceTheorems, WellFoundedInduction, TLAPS

Nested == {"lambda", "spawn"}
Stages == {"none", "decl", "expr", "done"}
SlotRec == [k : SlotKinds, own : BOOLEAN, st : {"raw", "zero", "held", "gone"}]
TempRec == [k : TempKinds, on : BOOLEAN, fn : Nat]
JumpRec == [to : Nat, how : {"none", "break", "continue"}]
FrameRec == [c : Functions \cup Branches \cup Loops \cup {"block"},
             slots : Seq(SlotRec), alt : BOOLEAN, moved : SUBSET (Nat \X Nat),
             temps : Seq(TempRec), live : BOOLEAN, jump : JumpRec, stmt : Stages]

\* The state the operators below are about: frames f, moves m, temporaries t,
\* statement st, terminator tm, path lv, jump jp, loop il.

\* b is the frame of the function that frame n belongs to.
IsBase(f, n, b) ==
    /\ b \in 1 .. n /\ f[b].c \in Functions
    /\ \A h \in b + 1 .. n : f[h].c \notin Functions

\* Frame j and those up to i are of one function.
Together(f, j, i) == \A h \in j + 1 .. i : f[h].c \notin Functions

\* The path waits to go on at the end of frame i: it took another branch, did not
\* enter the loop, is in another function or jumps there.
Awaited(f, jp, i) ==
    \/ f[i].alt \/ f[i].live \/ jp.to = i
    \/ \E h \in 1 .. Len(f) : f[h].jump.to = i

\* The path is in frame j or comes back to it.
Lit(f, lv, jp, j) ==
    \/ lv /\ Together(f, j, Len(f))
    \/ \E i \in j + 1 .. Len(f) : Together(f, j, i - 1) /\ Awaited(f, jp, i)

\* The last slot of frame i is being declared.
Declares(f, st, i) == IF i = Len(f) THEN st = "decl" ELSE f[i + 1].stmt = "decl"

\* What the path has left in a slot is what a release takes it for.
Right(s, gone) == IF gone /\ s.k = "str" THEN s.st # "held" ELSE s.st \in {"held", "zero"}

-----------------------------------------------------------------------------
\* The inductive invariant.

\* The frames and what they keep for the end of their construct.
FrameOK(f, m, il, i) ==
    /\ f[i].c \notin Nested => ~ f[i].live /\ f[i].stmt = "none" /\ f[i].jump.to = 0
    /\ f[i].c \in Nested \cup {"block", "fn"} => ~ f[i].alt
    /\ f[i].c \in Loops => f[i].temps = << >> /\ il
    /\ f[i].jump.to < i
    /\ f[i].jump.to # 0 => f[f[i].jump.to].c \in Loops
    /\ f[i].c \in {"then", "else", "lastarm"} => f[i].moved = {r \in m : r[1] < i}
    /\ f[i].c \in Nested => \A j \in 1 .. Len(f[i].temps) :
          f[i].temps[j].on = f[i].live /\ IsBase(f, i - 1, f[i].temps[j].fn)

Skeleton(f, m, jp, il) ==
    /\ f \in Seq(FrameRec) /\ Len(f) >= 2 /\ f[1].c = "fn" /\ f[2].c = "block"
    /\ \A i \in 1 .. Len(f) : FrameOK(f, m, il, i)
    /\ jp \in JumpRec /\ jp.to <= Len(f)
    /\ jp.to # 0 => f[jp.to].c \in Loops

\* Only strings are marked as moved, and a mark goes with its slot.
Marks(f, m) ==
    /\ m \in SUBSET (Nat \X Nat)
    /\ \A r \in m : /\ r[1] \in 1 .. Len(f) /\ r[2] \in 1 .. Len(f[r[1]].slots)
                    /\ f[r[1]].slots[r[2]].k = "str"

\* The temporaries were made where the path is, or on no path, in this function.
Temporaries(f, t, st, tm, lv) ==
    /\ t \in Seq(TempRec)
    /\ \A i \in 1 .. Len(t) : t[i].on = lv /\ IsBase(f, Len(f), t[i].fn)
    /\ st = "none" \/ tm => t = << >>

\* Where the path is or comes back to, every slot is what its release expects.
SlotsOK(f, m, st, lv, jp) ==
    \A i \in 1 .. Len(f) :
      /\ Declares(f, st, i) => f[i].slots # << >> /\ <<i, Len(f[i].slots)>> \notin m
      /\ Lit(f, lv, jp, i) => \A b \in 1 .. Len(f[i].slots) :
            IF Declares(f, st, i) /\ b = Len(f[i].slots)
            THEN f[i].slots[b].k = "enum" => f[i].slots[b].st = "zero"
            ELSE Right(f[i].slots[b], <<i, b>> \in m)

Solid(f, m, st, lv, jp, il) ==
    Skeleton(f, m, jp, il) /\ Marks(f, m) /\ SlotsOK(f, m, st, lv, jp)

Good ==
    /\ stmt \in Stages /\ term \in BOOLEAN /\ live \in BOOLEAN /\ inLoop \in BOOLEAN
    /\ live => ~ term
    /\ Solid(fr, moved, stmt, live, jump, inLoop)
    /\ Temporaries(fr, temps, stmt, term, live)

Inv == outside \in BOOLEAN /\ (outside \/ (faults = {} /\ Good))

-----------------------------------------------------------------------------
\* A set of natural numbers that is not empty has a least element.
LEMMA LeastNat ==
    ASSUME NEW T \in SUBSET Nat, T # {}
    PROVE  \E x \in T : \A y \in T : x <= y
  <1> DEFINE R == {ss \in Nat \X Nat : ss[1] < ss[2]}
  <1>1. IsWellFoundedOn(R, Nat)
    BY NatLessThanWellFounded, Zenon DEF OpToRel
  <1> HIDE DEF R
  <1>2. PICK x \in T : \A y \in T : ~ (<<y, x>> \in R)
    BY <1>1, WFMin
  <1>3. ASSUME NEW y \in T PROVE x <= y
    <2>1. x \in Nat /\ y \in Nat
      OBVIOUS
    <2>2. <<y, x>> \in R <=> y < x
      BY <2>1 DEF R
    <2>3. QED
      BY <1>2, <2>1, <2>2
  <1>4. QED
    BY <1>3

\* What Without(ts, ks) is defined to be, up to its n-th element.
KeptOn(ts, ks, n, f) ==
    f = [i \in 0 .. n |-> IF i = 0 THEN << >>
                          ELSE IF ts[i].k \in ks THEN f[i - 1] ELSE Append(f[i - 1], ts[i])]

\* There is such a function for every length.
LEMMA KeptExists ==
    ASSUME NEW ts, NEW ks, NEW n \in Nat
    PROVE  \E f : KeptOn(ts, ks, n, f)
  <1> DEFINE Bad == {m \in Nat : ~ \E f : KeptOn(ts, ks, m, f)}
  <1>1. SUFFICES ASSUME Bad # {} PROVE FALSE
    OBVIOUS
  <1>2. PICK m \in Bad : \A y \in Bad : m <= y
    BY <1>1, LeastNat
  <1>3. m # 0
    <2> DEFINE g == [i \in 0 .. 0 |-> << >>]
    <2>1. \A i \in 0 .. 0 : i = 0
      OBVIOUS
    <2>2. g = [i \in 0 .. 0 |-> IF i = 0 THEN << >>
                 ELSE IF ts[i].k \in ks THEN g[i - 1] ELSE Append(g[i - 1], ts[i])]
      BY <2>1
    <2> HIDE DEF g
    <2>3. KeptOn(ts, ks, 0, g)
      BY <2>2 DEF KeptOn
    <2>4. QED
      BY <2>3
  <1>4. m - 1 \in Nat /\ m - 1 \notin Bad
    BY <1>2, <1>3
  <1>5. PICK f : KeptOn(ts, ks, m - 1, f)
    BY <1>4
  <1> DEFINE g == [i \in 0 .. m |-> IF i = 0 THEN << >>
                     ELSE IF ts[i].k \in ks THEN f[i - 1] ELSE Append(f[i - 1], ts[i])]
  <1>6. ASSUME NEW i \in 0 .. m - 1 PROVE g[i] = f[i]
    <2>1. f[i] = IF i = 0 THEN << >>
                 ELSE IF ts[i].k \in ks THEN f[i - 1] ELSE Append(f[i - 1], ts[i])
      BY <1>5 DEF KeptOn
    <2>2. i \in 0 .. m
      BY <1>4
    <2>3. QED
      BY <2>1, <2>2
  <1>7. g = [i \in 0 .. m |-> IF i = 0 THEN << >>
               ELSE IF ts[i].k \in ks THEN g[i - 1] ELSE Append(g[i - 1], ts[i])]
    <2>1. ASSUME NEW i \in 0 .. m
          PROVE  g[i] = IF i = 0 THEN << >>
                        ELSE IF ts[i].k \in ks THEN g[i - 1] ELSE Append(g[i - 1], ts[i])
      <3>1. i # 0 => i - 1 \in 0 .. m - 1
        BY <1>4
      <3>2. QED
        BY <1>6, <3>1
    <2> HIDE DEF g
    <2>2. DOMAIN g = 0 .. m /\ g = [i \in DOMAIN g |-> g[i]]
      BY DEF g
    <2>3. QED
      BY <2>1, <2>2
  <1> HIDE DEF g
  <1>8. KeptOn(ts, ks, m, g)
    BY <1>7 DEF KeptOn
  <1>9. QED
    BY <1>8

\* Without(ts, ks) has only elements of ts, none of a kind in ks.
LEMMA WithoutIs ==
    ASSUME NEW S, NEW ts \in Seq(S), NEW ks
    PROVE  /\ Without(ts, ks) \in Seq(S)
           /\ \A i \in 1 .. Len(Without(ts, ks)) : \E j \in 1 .. Len(ts) :
                 Without(ts, ks)[i] = ts[j] /\ ts[j].k \notin ks
  <1> DEFINE n == Len(ts)
             h == CHOOSE f : KeptOn(ts, ks, n, f)
             Fine(s) == /\ s \in Seq(S)
                        /\ \A i \in 1 .. Len(s) : \E j \in 1 .. n : s[i] = ts[j] /\ ts[j].k \notin ks
             Bad == {m \in 0 .. n : ~ Fine(h[m])}
  <1>1. n \in Nat
    OBVIOUS
  <1>2. KeptOn(ts, ks, n, h)
    BY <1>1, KeptExists
  <1>3. Without(ts, ks) = h[n]
    BY DEF Without, KeptOn
  <1> HIDE DEF h
  <1>4. SUFFICES ASSUME Bad # {} PROVE FALSE
    BY <1>1, <1>3
  <1>5. PICK m \in Bad : \A y \in Bad : m <= y
    <2>1. Bad \in SUBSET Nat
      BY <1>1
    <2> HIDE DEF Bad
    <2>2. QED
      BY <1>4, <2>1, LeastNat
  <1>6. m \in 0 .. n /\ ~ Fine(h[m])
    OBVIOUS
  <1>7. h[m] = IF m = 0 THEN << >> ELSE IF ts[m].k \in ks THEN h[m - 1] ELSE Append(h[m - 1], ts[m])
    BY <1>2, <1>6 DEF KeptOn
  <1>8. m # 0
    <2>1. Fine(<< >>)
      OBVIOUS
    <2> HIDE DEF Fine, Bad
    <2>2. QED
      BY <1>6, <1>7, <2>1
  <1>9. m - 1 \in 0 .. n /\ m \in 1 .. n
    BY <1>1, <1>6, <1>8
  <1>10. Fine(h[m - 1])
    <2>1. m - 1 \notin Bad
      BY <1>5, <1>6, <1>9
    <2> HIDE DEF Fine
    <2>2. QED
      BY <1>9, <2>1
  <1>11. PICK s : s = h[m - 1]
    OBVIOUS
  <1>12. ts[m].k \notin ks => Fine(Append(s, ts[m]))
    <2> SUFFICES ASSUME ts[m].k \notin ks PROVE Fine(Append(s, ts[m]))
      OBVIOUS
    <2>1. s \in Seq(S) /\ ts[m] \in S
      BY <1>9, <1>10, <1>11
    <2>2. Append(s, ts[m]) \in Seq(S) /\ Len(Append(s, ts[m])) = Len(s) + 1 /\ Len(s) \in Nat
      BY <2>1
    <2>3. /\ \A i \in 1 .. Len(s) : Append(s, ts[m])[i] = s[i]
          /\ Append(s, ts[m])[Len(s) + 1] = ts[m]
      BY <2>1
    <2>4. ASSUME NEW i \in 1 .. Len(s) + 1
          PROVE  \E j \in 1 .. n : Append(s, ts[m])[i] = ts[j] /\ ts[j].k \notin ks
      <3>1. CASE i \in 1 .. Len(s)
        BY <1>10, <1>11, <2>3, <3>1
      <3>2. CASE i = Len(s) + 1
        BY <1>9, <2>3, <3>2
      <3>3. QED
        BY <2>2, <3>1, <3>2
    <2>5. QED
      BY <2>2, <2>4
  <1> HIDE DEF Fine, Bad
  <1>13. QED
    BY <1>6, <1>7, <1>8, <1>10, <1>11, <1>12

-----------------------------------------------------------------------------
\* Frames.

\* Every frame belongs to one function, the one BaseOf finds.
LEMMA BaseIs ==
    ASSUME fr \in Seq(FrameRec), fr[1].c = "fn", NEW n \in 1 .. Len(fr)
    PROVE  IsBase(fr, n, BaseOf(n)) /\ \A b : IsBase(fr, n, b) => b = BaseOf(n)
  <1> DEFINE T == {x \in Nat : n - x \in 1 .. n /\ fr[n - x].c \in Functions}
  <1>1. n \in Nat /\ n >= 1
    OBVIOUS
  <1>2. n - 1 \in T
    BY <1>1 DEF Functions
  <1>3. PICK x \in T : \A y \in T : x <= y
    <2>1. T \in SUBSET Nat /\ T # {}
      BY <1>2
    <2> HIDE DEF T
    <2>2. QED
      BY <2>1, LeastNat
  <1>4. \A h \in (n - x) + 1 .. n : fr[h].c \notin Functions
    <2> SUFFICES ASSUME NEW h \in (n - x) + 1 .. n, fr[h].c \in Functions PROVE FALSE
      OBVIOUS
    <2>1. n - h \in Nat /\ n - h < x /\ n - (n - h) = h /\ h \in 1 .. n
      BY <1>1, <1>3
    <2>2. n - h \in T /\ x \in Nat
      BY <1>3, <2>1
    <2> HIDE DEF T
    <2>3. x <= n - h
      BY <1>3, <2>2
    <2>4. QED
      BY <2>1, <2>2, <2>3
  <1>5. IsBase(fr, n, n - x)
    BY <1>3, <1>4 DEF IsBase
  <1>6. \A b, d : IsBase(fr, n, b) /\ IsBase(fr, n, d) => b = d
    <2> SUFFICES ASSUME NEW b, NEW d, IsBase(fr, n, b), IsBase(fr, n, d) PROVE b = d
      OBVIOUS
    <2>1. b \in 1 .. n /\ d \in 1 .. n
      BY DEF IsBase
    <2>2. ~ (d \in b + 1 .. n) /\ ~ (b \in d + 1 .. n)
      BY DEF IsBase
    <2>3. QED
      BY <1>1, <2>1, <2>2
  <1>7. IsBase(fr, n, BaseOf(n))
    <2>1. \E i \in 1 .. n : /\ fr[i].c \in Functions
                            /\ \A j \in i + 1 .. n : fr[j].c \notin Functions
      BY <1>5 DEF IsBase
    <2> HIDE DEF T
    <2>2. QED
      BY <2>1 DEF IsBase, BaseOf
  <1>8. QED
    BY <1>6, <1>7

\* Nothing else about a frame than its slots matters for what follows.
Alike(x, y) ==
    /\ x.c = y.c /\ x.alt = y.alt /\ x.moved = y.moved /\ x.temps = y.temps
    /\ x.live = y.live /\ x.jump = y.jump /\ x.stmt = y.stmt

\* A frame keeps its good shape while those below it are alike.
LEMMA FrameKept ==
    ASSUME NEW f \in Seq(FrameRec), NEW g \in Seq(FrameRec), NEW m, NEW m2, NEW il, NEW il2,
           NEW i \in 1 .. Len(f), i <= Len(g), FrameOK(f, m, il, i),
           \A h \in 1 .. i : Alike(f[h], g[h]),
           f[i].c \in {"then", "else", "lastarm"} => {r \in m2 : r[1] < i} = {r \in m : r[1] < i},
           f[i].c \in Loops /\ il => il2
    PROVE  FrameOK(g, m2, il2, i)
  <1>1. i \in Nat /\ i >= 1 /\ i \in 1 .. i
    OBVIOUS
  <1>2. /\ g[i].c = f[i].c /\ g[i].alt = f[i].alt /\ g[i].moved = f[i].moved
        /\ g[i].temps = f[i].temps /\ g[i].live = f[i].live /\ g[i].jump = f[i].jump
        /\ g[i].stmt = f[i].stmt
    BY <1>1 DEF Alike
  <1>3. f[i] \in FrameRec
    OBVIOUS
  <1>4. f[i].jump.to \in Nat
    BY <1>3 DEF FrameRec, JumpRec
  <1>5. f[i].jump.to # 0 => g[f[i].jump.to].c = f[f[i].jump.to].c
    <2>1. f[i].jump.to < i
      BY DEF FrameOK
    <2>2. f[i].jump.to # 0 => f[i].jump.to \in 1 .. i
      BY <1>1, <1>4, <2>1
    <2>3. QED
      BY <2>2 DEF Alike
  <1>6. ASSUME NEW b, IsBase(f, i - 1, b) PROVE IsBase(g, i - 1, b)
    <2>1. b \in 1 .. i - 1 /\ f[b].c \in Functions /\ \A h \in b + 1 .. i - 1 : f[h].c \notin Functions
      BY <1>6 DEF IsBase
    <2>2. \A h \in 1 .. i - 1 : g[h].c = f[h].c
      BY DEF Alike
    <2>3. \A h \in b + 1 .. i - 1 : h \in 1 .. i - 1
      BY <1>1, <2>1
    <2>4. QED
      BY <2>1, <2>2, <2>3 DEF IsBase
  <1>7. f[i].c \in Nested => \A j \in 1 .. Len(f[i].temps) :
          f[i].temps[j].on = f[i].live /\ IsBase(g, i - 1, f[i].temps[j].fn)
    BY <1>6 DEF FrameOK
  <1>8. QED
    BY <1>2, <1>5, <1>7 DEF FrameOK

-----------------------------------------------------------------------------
\* Where the path comes back to.

\* A number up to n + 1 is n + 1 or a number up to n.
LEMMA LastOrBelow ==
    ASSUME NEW n \in Nat, NEW h \in 1 .. n + 1
    PROVE  h \in 1 .. n \/ h = n + 1
  OBVIOUS

\* A jump goes to a frame below, or to an open one.
LEMMA JumpsBelow ==
    ASSUME NEW f, NEW m, NEW jp, NEW il, Skeleton(f, m, jp, il)
    PROVE  /\ jp.to \in Nat /\ jp.to <= Len(f)
           /\ \A h \in 1 .. Len(f) : f[h].jump.to \in Nat /\ f[h].jump.to < h
  <1>1. f \in Seq(FrameRec) /\ jp \in JumpRec /\ jp.to <= Len(f)
    BY DEF Skeleton
  <1>2. ASSUME NEW h \in 1 .. Len(f) PROVE f[h].jump.to \in Nat /\ f[h].jump.to < h
    <2>1. f[h] \in FrameRec
      BY <1>1
    <2>2. f[h].jump \in JumpRec
      BY <2>1 DEF FrameRec
    <2>3. f[h].jump.to < h
      BY DEF Skeleton, FrameOK
    <2>4. QED
      BY <2>2, <2>3 DEF JumpRec
  <1>3. QED
    BY <1>1, <1>2 DEF JumpRec

\* The frames below x are awaited as before when x is opened.
LEMMA LitPush ==
    ASSUME NEW f \in Seq(FrameRec), NEW x \in FrameRec, NEW lv, NEW lv2, NEW jp, NEW jp2,
           NEW m, NEW il, Skeleton(f, m, jp, il),
           x.c \in Functions \/ (lv2 => lv), x.alt \/ x.live => lv,
           \/ jp2.to = jp.to /\ x.jump.to = 0
           \/ jp2.to = 0 /\ x.jump.to = jp.to,
           NEW j \in 1 .. Len(f), Lit(Append(f, x), lv2, jp2, j)
    PROVE  Lit(f, lv, jp, j)
  <1> DEFINE g == Append(f, x)
  <1>1. PICK n \in Nat : n = Len(f) /\ Len(g) = n + 1 /\ g[n + 1] = x /\ \A h \in 1 .. n : g[h] = f[h]
    OBVIOUS
  <1> HIDE DEF g
  <1>2. j \in 1 .. n /\ Lit(g, lv2, jp2, j)
    BY <1>1 DEF g
  <1>3. /\ jp.to \in Nat /\ jp.to <= n
        /\ \A h \in 1 .. n : f[h].jump.to \in Nat /\ f[h].jump.to < h
    BY <1>1, JumpsBelow
  <1>4. \A i \in j .. n : Together(g, j, i) => Together(f, j, i)
    BY <1>1, <1>2 DEF Together
  <1>5. CASE lv2 /\ Together(g, j, n + 1)
    <2>1. Together(g, j, n) /\ x.c \notin Functions
      BY <1>1, <1>2, <1>5 DEF Together
    <2>2. QED
      BY <1>1, <1>2, <1>4, <1>5, <2>1 DEF Lit
  <1>6. CASE \E i \in j + 1 .. n + 1 : Together(g, j, i - 1) /\ Awaited(g, jp2, i)
    <2>1. PICK i \in j + 1 .. n + 1 : Together(g, j, i - 1) /\ Awaited(g, jp2, i)
      BY <1>6
    <2>2. i - 1 \in j .. n /\ Together(f, j, i - 1)
      BY <1>2, <1>4, <2>1
    <2>3. g[i].alt \/ g[i].live \/ jp2.to = i \/ \E h \in 1 .. n + 1 : g[h].jump.to = i
      BY <1>1, <2>1 DEF Awaited
    <2>4. CASE i = n + 1
      <3>1. jp2.to # i /\ \A h \in 1 .. n + 1 : g[h].jump.to # i
        BY <1>1, <1>3, <2>4
      <3>2. lv
        BY <1>1, <2>3, <2>4, <3>1
      <3>3. QED
        BY <1>1, <2>2, <2>4, <3>2 DEF Lit
    <2>5. CASE i # n + 1
      <3>1. i \in j + 1 .. n /\ i \in 1 .. n /\ i # 0
        BY <1>2, <2>1, <2>5
      <3>2. f[i].alt \/ f[i].live \/ jp.to = i \/ \E h \in 1 .. n : f[h].jump.to = i
        <4>1. (\E h \in 1 .. n + 1 : g[h].jump.to = i) =>
                 x.jump.to = i \/ \E h \in 1 .. n : f[h].jump.to = i
          <5> SUFFICES ASSUME NEW h \in 1 .. n + 1, g[h].jump.to = i
                       PROVE  x.jump.to = i \/ \E d \in 1 .. n : f[d].jump.to = i
            OBVIOUS
          <5>1. h \in 1 .. n \/ h = n + 1
            BY LastOrBelow
          <5>2. QED
            BY <1>1, <5>1
        <4>2. jp2.to = i \/ x.jump.to = i => jp.to = i
          BY <3>1
        <4>3. QED
          BY <1>1, <2>3, <3>1, <4>1, <4>2
      <3>3. Awaited(f, jp, i)
        BY <1>1, <3>2 DEF Awaited
      <3>4. QED
        BY <1>1, <2>2, <3>1, <3>3 DEF Lit
    <2>6. QED
      BY <2>4, <2>5
  <1>7. QED
    BY <1>1, <1>2, <1>5, <1>6 DEF Lit

\* Nor does the path come back to more frames when the last one is closed.
LEMMA LitPop ==
    ASSUME NEW f \in Seq(FrameRec), Len(f) >= 2, NEW lv, NEW lv2, NEW jp, NEW jp2,
           lv2 => (lv /\ f[Len(f)].c \notin Functions) \/ f[Len(f)].alt \/ f[Len(f)].live
                    \/ jp.to = Len(f),
           jp2.to # 0 => jp2.to = jp.to \/ jp2.to = f[Len(f)].jump.to,
           NEW j \in 1 .. Len(f) - 1, Lit(SubSeq(f, 1, Len(f) - 1), lv2, jp2, j)
    PROVE  Lit(f, lv, jp, j)
  <1> DEFINE g == SubSeq(f, 1, Len(f) - 1)
  <1>1. PICK n \in Nat : n = Len(f) /\ n >= 2 /\ Len(g) = n - 1 /\ \A h \in 1 .. n - 1 : g[h] = f[h]
    OBVIOUS
  <1> HIDE DEF g
  <1>2. j \in 1 .. n - 1 /\ Lit(g, lv2, jp2, j)
    BY <1>1 DEF g
  <1>3. \A i \in j .. n - 1 : Together(g, j, i) => Together(f, j, i)
    BY <1>1, <1>2 DEF Together
  <1>4. CASE lv2 /\ Together(g, j, n - 1)
    <2>1. Together(f, j, n - 1)
      BY <1>1, <1>2, <1>3, <1>4
    <2>2. CASE lv /\ f[n].c \notin Functions
      <3>1. Together(f, j, n)
        BY <1>1, <1>2, <2>1, <2>2 DEF Together
      <3>2. QED
        BY <1>1, <2>2, <3>1 DEF Lit
    <2>3. CASE f[n].alt \/ f[n].live \/ jp.to = n
      <3>1. Awaited(f, jp, n)
        BY <2>3 DEF Awaited
      <3>2. n \in j + 1 .. Len(f)
        BY <1>1, <1>2
      <3>3. QED
        BY <2>1, <3>1, <3>2 DEF Lit
    <2>4. QED
      BY <1>1, <1>4, <2>2, <2>3
  <1>5. CASE \E i \in j + 1 .. n - 1 : Together(g, j, i - 1) /\ Awaited(g, jp2, i)
    <2>1. PICK i \in j + 1 .. n - 1 : Together(g, j, i - 1) /\ Awaited(g, jp2, i)
      BY <1>5
    <2>2. i - 1 \in j .. n - 1 /\ Together(f, j, i - 1)
      BY <1>2, <1>3, <2>1
    <2>3. i \in 1 .. n - 1 /\ i # 0 /\ i \in j + 1 .. n
      BY <1>1, <1>2, <2>1
    <2>4. g[i].alt \/ g[i].live \/ jp2.to = i \/ \E h \in 1 .. n - 1 : g[h].jump.to = i
      BY <1>1, <2>1 DEF Awaited
    <2>5. jp2.to = i => jp.to = i \/ f[n].jump.to = i
      BY <1>1, <2>3
    <2>6. f[i].alt \/ f[i].live \/ jp.to = i \/ \E h \in 1 .. n : f[h].jump.to = i
      BY <1>1, <2>3, <2>4, <2>5
    <2>7. Awaited(f, jp, i)
      BY <1>1, <2>6 DEF Awaited
    <2>8. QED
      BY <1>1, <2>2, <2>3, <2>7 DEF Lit
  <1>6. QED
    BY <1>1, <1>2, <1>4, <1>5 DEF Lit

\* The slots do not matter for it.
LEMMA LitAlike ==
    ASSUME NEW f \in Seq(FrameRec), NEW g \in Seq(FrameRec), Len(g) = Len(f),
           \A h \in 1 .. Len(f) : Alike(f[h], g[h]), NEW lv, NEW jp,
           NEW j \in 1 .. Len(f), Lit(g, lv, jp, j)
    PROVE  Lit(f, lv, jp, j)
  <1>1. \A h \in 1 .. Len(f) : /\ g[h].c = f[h].c /\ g[h].alt = f[h].alt /\ g[h].live = f[h].live
                               /\ g[h].jump = f[h].jump
    BY DEF Alike
  <1>2. \A i \in j .. Len(f) : Together(g, j, i) => Together(f, j, i)
    BY <1>1 DEF Together
  <1>3. \A i \in 1 .. Len(f) : Awaited(g, jp, i) => Awaited(f, jp, i)
    BY <1>1 DEF Awaited
  <1>4. CASE lv /\ Together(g, j, Len(f))
    BY <1>2, <1>4 DEF Lit
  <1>5. CASE \E i \in j + 1 .. Len(f) : Together(g, j, i - 1) /\ Awaited(g, jp, i)
    <2>1. PICK i \in j + 1 .. Len(f) : Together(g, j, i - 1) /\ Awaited(g, jp, i)
      BY <1>5
    <2>2. i - 1 \in j .. Len(f) /\ i \in 1 .. Len(f)
      BY <2>1
    <2>3. QED
      BY <1>2, <1>3, <2>1, <2>2 DEF Lit
  <1>6. QED
    BY <1>4, <1>5 DEF Lit

\* The path is in the last frame, or it does not come back to it.
LEMMA LitTop ==
    ASSUME NEW f \in Seq(FrameRec), Len(f) >= 1, NEW lv \in BOOLEAN, NEW jp
    PROVE  Lit(f, lv, jp, Len(f)) <=> lv
  <1>1. Len(f) \in Nat /\ Len(f) + 1 .. Len(f) = {}
    OBVIOUS
  <1>2. Together(f, Len(f), Len(f))
    BY <1>1 DEF Together
  <1>3. QED
    BY <1>1, <1>2 DEF Lit

-----------------------------------------------------------------------------
\* Opening and closing constructs.

\* Slots that are as they were, in frames the path comes back to no more than before.
LEMMA SlotsKept ==
    ASSUME NEW f, NEW g, NEW m, NEW m2, NEW st, NEW st2, NEW lv, NEW lv2, NEW jp, NEW jp2,
           SlotsOK(f, m, st, lv, jp),
           \A i \in 1 .. Len(g) :
              \/ g[i].slots = << >> /\ ~ Declares(g, st2, i)
              \/ /\ i \in 1 .. Len(f) /\ g[i].slots = f[i].slots
                 /\ Declares(g, st2, i) <=> Declares(f, st, i)
                 /\ Lit(g, lv2, jp2, i) => Lit(f, lv, jp, i)
                 /\ \A b : <<i, b>> \in m2 <=> <<i, b>> \in m
    PROVE  SlotsOK(g, m2, st2, lv2, jp2)
  <1> SUFFICES ASSUME NEW i \in 1 .. Len(g)
               PROVE  /\ Declares(g, st2, i) => g[i].slots # << >> /\ <<i, Len(g[i].slots)>> \notin m2
                      /\ Lit(g, lv2, jp2, i) => \A b \in 1 .. Len(g[i].slots) :
                           IF Declares(g, st2, i) /\ b = Len(g[i].slots)
                           THEN g[i].slots[b].k = "enum" => g[i].slots[b].st = "zero"
                           ELSE Right(g[i].slots[b], <<i, b>> \in m2)
    BY DEF SlotsOK
  <1>1. CASE g[i].slots = << >> /\ ~ Declares(g, st2, i)
    BY <1>1
  <1>2. CASE ~ (g[i].slots = << >> /\ ~ Declares(g, st2, i))
    <2>1. /\ i \in 1 .. Len(f) /\ g[i].slots = f[i].slots
          /\ Declares(g, st2, i) <=> Declares(f, st, i)
          /\ Lit(g, lv2, jp2, i) => Lit(f, lv, jp, i)
          /\ \A b : <<i, b>> \in m2 <=> <<i, b>> \in m
      BY <1>2
    <2>2. /\ Declares(f, st, i) => f[i].slots # << >> /\ <<i, Len(f[i].slots)>> \notin m
          /\ Lit(f, lv, jp, i) => \A b \in 1 .. Len(f[i].slots) :
               IF Declares(f, st, i) /\ b = Len(f[i].slots)
               THEN f[i].slots[b].k = "enum" => f[i].slots[b].st = "zero"
               ELSE Right(f[i].slots[b], <<i, b>> \in m)
      BY <2>1 DEF SlotsOK
    <2>3. Declares(g, st2, i) => g[i].slots # << >> /\ <<i, Len(g[i].slots)>> \notin m2
      BY <2>1, <2>2
    <2>4. ASSUME Lit(g, lv2, jp2, i), NEW b \in 1 .. Len(g[i].slots)
          PROVE  IF Declares(g, st2, i) /\ b = Len(g[i].slots)
                 THEN g[i].slots[b].k = "enum" => g[i].slots[b].st = "zero"
                 ELSE Right(g[i].slots[b], <<i, b>> \in m2)
      BY <2>1, <2>2, <2>4 DEF Right
    <2>5. QED
      BY <2>3, <2>4
  <1>3. QED
    BY <1>1, <1>2

\* What a new frame x has to be like, over frames f.
Opens(f, m, x, st, lv, jp, lv2, jp2, il2) ==
    /\ x \in FrameRec /\ x.slots = << >> /\ x.c # "fn"
    /\ x.c \in Loops => x.temps = << >> /\ il2
    /\ x.c \in {"then", "else", "lastarm"} => x.moved = m
    /\ x.c \in Nested \cup {"block"} => ~ x.alt
    /\ x.alt \/ x.live => lv
    /\ x.c \notin Nested => /\ ~ x.live /\ x.stmt = "none" /\ x.jump.to = 0
                            /\ st # "decl" /\ (lv2 => lv) /\ jp2 = jp
    /\ x.c \in Nested => /\ x.stmt = st /\ x.jump = jp /\ jp2 = NoJump
                         /\ \A j \in 1 .. Len(x.temps) :
                               x.temps[j].on = x.live /\ IsBase(f, Len(f), x.temps[j].fn)

\* Opening a construct.
LEMMA Push ==
    ASSUME NEW f, NEW m, NEW x, NEW st, NEW lv, NEW lv2, NEW jp, NEW jp2,
           NEW il \in BOOLEAN, NEW il2 \in BOOLEAN, il => il2,
           Solid(f, m, st, lv, jp, il), Opens(f, m, x, st, lv, jp, lv2, jp2, il2)
    PROVE  Solid(Append(f, x), m, "none", lv2, jp2, il2)
  <1> DEFINE g == Append(f, x)
  <1>1. Skeleton(f, m, jp, il) /\ Marks(f, m) /\ SlotsOK(f, m, st, lv, jp)
    BY DEF Solid
  <1>2. f \in Seq(FrameRec) /\ x \in FrameRec /\ Len(f) >= 2
    BY <1>1 DEF Skeleton, Opens
  <1>3. PICK n \in Nat : /\ n = Len(f) /\ n >= 2 /\ Len(g) = n + 1 /\ g[n + 1] = x
                         /\ g \in Seq(FrameRec) /\ \A h \in 1 .. n : g[h] = f[h]
    BY <1>2
  <1> HIDE DEF g
  <1>4. \A i \in 1 .. n : FrameOK(g, m, il2, i)
    <2> SUFFICES ASSUME NEW i \in 1 .. n PROVE FrameOK(g, m, il2, i)
      OBVIOUS
    <2>1. i \in 1 .. Len(f) /\ i <= Len(g) /\ FrameOK(f, m, il, i)
      BY <1>1, <1>3 DEF Skeleton
    <2>2. \A h \in 1 .. i : Alike(f[h], g[h])
      BY <1>3 DEF Alike
    <2>3. QED
      BY <1>2, <1>3, <2>1, <2>2, FrameKept
  <1>5. jp.to \in Nat /\ jp.to <= n
    BY <1>1, <1>3, JumpsBelow
  <1>6. jp.to # 0 => g[jp.to].c \in Loops
    BY <1>1, <1>3, <1>5 DEF Skeleton
  <1>7. m \in SUBSET (Nat \X Nat) /\ {r \in m : r[1] < n + 1} = m
    BY <1>1, <1>3 DEF Marks
  <1>8. ASSUME NEW b, IsBase(f, n, b) PROVE IsBase(g, n, b)
    BY <1>3, <1>8 DEF IsBase
  <1>9. FrameOK(g, m, il2, n + 1)
    <2>1. n + 1 - 1 = n
      BY <1>3
    <2>2. x.c \in Nested => \A j \in 1 .. Len(x.temps) :
             x.temps[j].on = x.live /\ IsBase(g, n, x.temps[j].fn)
      BY <1>3, <1>8 DEF Opens
    <2>3. x.jump.to < n + 1 /\ (x.jump.to # 0 => g[x.jump.to].c \in Loops)
      BY <1>3, <1>5, <1>6 DEF Opens
    <2>4. x.c \in Nested \cup {"block", "fn"} => ~ x.alt
      BY DEF Opens
    <2>5. x.c \notin Nested => ~ x.live /\ x.stmt = "none" /\ x.jump.to = 0
      BY DEF Opens
    <2>6. x.c \in Loops => x.temps = << >> /\ il2
      BY DEF Opens
    <2>7. x.c \in {"then", "else", "lastarm"} => x.moved = {r \in m : r[1] < n + 1}
      BY <1>7 DEF Opens
    <2>8. QED
      BY <1>3, <2>1, <2>2, <2>3, <2>4, <2>5, <2>6, <2>7 DEF FrameOK
  <1>10. Skeleton(g, m, jp2, il2)
    <2>1. \A i \in 1 .. n + 1 : FrameOK(g, m, il2, i)
      <3> SUFFICES ASSUME NEW i \in 1 .. n + 1 PROVE FrameOK(g, m, il2, i)
        OBVIOUS
      <3>1. i \in 1 .. n \/ i = n + 1
        BY <1>3
      <3>2. QED
        BY <1>4, <1>9, <3>1
    <2>2. g[1].c = "fn" /\ g[2].c = "block"
      BY <1>1, <1>3 DEF Skeleton
    <2>3. jp2 = jp \/ jp2 = NoJump
      BY DEF Opens
    <2>4. jp2 \in JumpRec /\ jp2.to <= n + 1 /\ (jp2.to # 0 => g[jp2.to].c \in Loops)
      BY <1>1, <1>3, <1>5, <1>6, <2>3 DEF NoJump, JumpRec, Skeleton
    <2>5. QED
      BY <1>3, <2>1, <2>2, <2>4 DEF Skeleton
  <1>11. Marks(g, m)
    BY <1>1, <1>3 DEF Marks
  <1>12. ASSUME NEW i \in 1 .. n, Lit(g, lv2, jp2, i) PROVE Lit(f, lv, jp, i)
    <2>1. x.c \in Functions \/ (lv2 => lv)
      BY DEF Opens, Functions, Nested
    <2>2. x.alt \/ x.live => lv
      BY DEF Opens
    <2>3. (jp2.to = jp.to /\ x.jump.to = 0) \/ (jp2.to = 0 /\ x.jump.to = jp.to)
      BY DEF Opens, NoJump
    <2>4. i \in 1 .. Len(f) /\ Lit(Append(f, x), lv2, jp2, i)
      BY <1>3, <1>12 DEF g
    <2>5. QED
      BY <1>1, <1>2, <2>1, <2>2, <2>3, <2>4, LitPush
  <1>13. ASSUME NEW i \in 1 .. n PROVE Declares(g, "none", i) <=> Declares(f, st, i)
    <2>1. CASE i = n
      <3>1. Declares(g, "none", i) <=> x.stmt = "decl"
        BY <1>3, <2>1 DEF Declares
      <3>2. Declares(f, st, i) <=> st = "decl"
        BY <1>3, <2>1 DEF Declares
      <3>3. QED
        BY <3>1, <3>2 DEF Opens
    <2>2. CASE i # n
      BY <1>3, <2>2 DEF Declares
    <2>3. QED
      BY <2>1, <2>2
  <1>14. SlotsOK(g, m, "none", lv2, jp2)
    <2>1. ASSUME NEW i \in 1 .. n + 1
          PROVE  \/ g[i].slots = << >> /\ ~ Declares(g, "none", i)
                 \/ /\ i \in 1 .. n /\ g[i].slots = f[i].slots
                    /\ Declares(g, "none", i) <=> Declares(f, st, i)
                    /\ Lit(g, lv2, jp2, i) => Lit(f, lv, jp, i)
      <3>1. CASE i \in 1 .. n
        BY <1>3, <1>12, <1>13, <3>1
      <3>2. CASE i = n + 1
        BY <1>3, <3>2 DEF Opens, Declares
      <3>3. QED
        BY <1>3, <3>1, <3>2
    <2>2. QED
      BY <1>1, <1>3, <2>1, SlotsKept
  <1>15. QED
    BY <1>10, <1>11, <1>14 DEF Solid, g

\* What the end of the last construct of f goes on with.
Closes(f, lv, jp, st2, lv2, jp2, il2) ==
    /\ Len(f) > 2
    /\ lv2 => (lv /\ f[Len(f)].c \notin Functions) \/ f[Len(f)].alt \/ f[Len(f)].live
                \/ jp.to = Len(f)
    /\ jp2 \in JumpRec /\ jp2.to < Len(f)
    /\ jp2.to # 0 => jp2.to = jp.to \/ jp2.to = f[Len(f)].jump.to
    /\ st2 = "decl" <=> f[Len(f)].stmt = "decl"
    /\ \A i \in 1 .. Len(f) - 1 : f[i].c \in Loops => il2

\* Closing a construct: its moves are forgotten.
LEMMA PopKeeps ==
    ASSUME NEW f, NEW m, NEW st, NEW st2, NEW lv, NEW lv2, NEW jp, NEW jp2, NEW il, NEW il2,
           Solid(f, m, st, lv, jp, il), Closes(f, lv, jp, st2, lv2, jp2, il2)
    PROVE  Solid(SubSeq(f, 1, Len(f) - 1), {r \in m : r[1] < Len(f)}, st2, lv2, jp2, il2)
  <1> DEFINE g == SubSeq(f, 1, Len(f) - 1)
             m2 == {r \in m : r[1] < Len(f)}
  <1>1. Skeleton(f, m, jp, il) /\ Marks(f, m) /\ SlotsOK(f, m, st, lv, jp)
    BY DEF Solid
  <1>2. f \in Seq(FrameRec) /\ Len(f) > 2
    BY <1>1 DEF Skeleton, Closes
  <1>3. PICK n \in Nat : /\ n = Len(f) /\ n > 2 /\ Len(g) = n - 1
                         /\ g \in Seq(FrameRec) /\ \A h \in 1 .. n - 1 : g[h] = f[h]
    BY <1>2
  <1>4. m \in SUBSET (Nat \X Nat) /\ m2 = {r \in m : r[1] < n}
    BY <1>1, <1>3 DEF Marks
  <1> HIDE DEF g, m2
  <1>5. \A i \in 1 .. n - 1 : FrameOK(g, m2, il2, i)
    <2> SUFFICES ASSUME NEW i \in 1 .. n - 1 PROVE FrameOK(g, m2, il2, i)
      OBVIOUS
    <2>1. i \in 1 .. Len(f) /\ i <= Len(g) /\ FrameOK(f, m, il, i)
      BY <1>1, <1>3 DEF Skeleton
    <2>2. \A h \in 1 .. i : Alike(f[h], g[h])
      BY <1>3 DEF Alike
    <2>3. {r \in m2 : r[1] < i} = {r \in m : r[1] < i}
      BY <1>3, <1>4
    <2>4. f[i].c \in Loops => il2
      BY <1>3 DEF Closes
    <2>5. QED
      BY <1>2, <1>3, <2>1, <2>2, <2>3, <2>4, FrameKept
  <1>6. jp2.to \in Nat /\ jp2.to <= n - 1 /\ jp2 \in JumpRec
    BY <1>3 DEF Closes, JumpRec
  <1>7. jp2.to # 0 => f[jp2.to].c \in Loops
    <2>1. FrameOK(f, m, il, n)
      BY <1>1, <1>3 DEF Skeleton
    <2>2. jp2.to = jp.to \/ jp2.to = f[n].jump.to \/ jp2.to = 0
      BY <1>3 DEF Closes
    <2>3. QED
      BY <1>1, <2>1, <2>2 DEF Skeleton, FrameOK
  <1>8. Skeleton(g, m2, jp2, il2)
    <2>1. g[1].c = "fn" /\ g[2].c = "block"
      BY <1>1, <1>3 DEF Skeleton
    <2>2. jp2.to # 0 => g[jp2.to].c \in Loops
      BY <1>3, <1>6, <1>7
    <2>3. QED
      BY <1>3, <1>5, <1>6, <2>1, <2>2 DEF Skeleton
  <1>9. Marks(g, m2)
    <2>1. m2 \in SUBSET (Nat \X Nat)
      BY <1>4
    <2>2. ASSUME NEW r \in m2
          PROVE  /\ r[1] \in 1 .. n - 1 /\ r[2] \in 1 .. Len(f[r[1]].slots)
                 /\ f[r[1]].slots[r[2]].k = "str"
      BY <1>1, <1>3, <1>4 DEF Marks
    <2>3. QED
      BY <1>3, <2>1, <2>2 DEF Marks
  <1>10. ASSUME NEW i \in 1 .. n - 1, Lit(g, lv2, jp2, i) PROVE Lit(f, lv, jp, i)
    <2>1. i \in 1 .. Len(f) - 1 /\ Lit(SubSeq(f, 1, Len(f) - 1), lv2, jp2, i) /\ Len(f) >= 2
      BY <1>3, <1>10 DEF g
    <2>2. /\ lv2 => (lv /\ f[Len(f)].c \notin Functions) \/ f[Len(f)].alt \/ f[Len(f)].live
                      \/ jp.to = Len(f)
          /\ jp2.to # 0 => jp2.to = jp.to \/ jp2.to = f[Len(f)].jump.to
      BY DEF Closes
    <2>3. QED
      BY <1>2, <2>1, <2>2, LitPop
  <1>11. ASSUME NEW i \in 1 .. n - 1 PROVE Declares(g, st2, i) <=> Declares(f, st, i)
    <2>1. CASE i = n - 1
      <3>1. Declares(g, st2, i) <=> st2 = "decl"
        BY <1>3, <2>1 DEF Declares
      <3>2. Declares(f, st, i) <=> f[n].stmt = "decl"
        BY <1>3, <2>1 DEF Declares
      <3>3. QED
        BY <1>3, <3>1, <3>2 DEF Closes
    <2>2. CASE i # n - 1
      BY <1>3, <2>2 DEF Declares
    <2>3. QED
      BY <2>1, <2>2
  <1>12. \A i \in 1 .. n - 1 : \A b : <<i, b>> \in m2 <=> <<i, b>> \in m
    BY <1>3, <1>4
  <1>13. SlotsOK(g, m2, st2, lv2, jp2)
    <2>1. ASSUME NEW i \in 1 .. n - 1
          PROVE  /\ i \in 1 .. n /\ g[i].slots = f[i].slots
                 /\ Declares(g, st2, i) <=> Declares(f, st, i)
                 /\ Lit(g, lv2, jp2, i) => Lit(f, lv, jp, i)
                 /\ \A b : <<i, b>> \in m2 <=> <<i, b>> \in m
      BY <1>3, <1>10, <1>11, <1>12
    <2>2. QED
      BY <1>1, <1>3, <2>1, SlotsKept
  <1>14. QED
    BY <1>8, <1>9, <1>13 DEF Solid, g, m2

\* Nothing is opened or closed, and the path comes back to no more frames.
LEMMA StaysSolid ==
    ASSUME NEW f, NEW m, NEW st, NEW st2, NEW lv, NEW lv2, NEW jp, NEW jp2, NEW il,
           Solid(f, m, st, lv, jp, il), st2 = "decl" <=> st = "decl",
           jp2 \in JumpRec, jp2.to <= Len(f), jp2.to # 0 => f[jp2.to].c \in Loops,
           \A i \in 1 .. Len(f) : Lit(f, lv2, jp2, i) => Lit(f, lv, jp, i)
    PROVE  Solid(f, m, st2, lv2, jp2, il)
  <1>1. Skeleton(f, m, jp, il) /\ Marks(f, m) /\ SlotsOK(f, m, st, lv, jp)
    BY DEF Solid
  <1>2. Skeleton(f, m, jp2, il)
    BY <1>1 DEF Skeleton
  <1>3. \A i \in 1 .. Len(f) : Declares(f, st2, i) <=> Declares(f, st, i)
    BY DEF Declares
  <1>4. SlotsOK(f, m, st2, lv2, jp2)
    BY <1>1, <1>3, SlotsKept
  <1>5. QED
    BY <1>1, <1>2, <1>4 DEF Solid

\* The path ends here.
LEMMA PathEnds ==
    ASSUME NEW f, NEW m, NEW st, NEW st2, NEW lv, NEW lv2, NEW jp, NEW il,
           Solid(f, m, st, lv, jp, il), st2 = "decl" <=> st = "decl", lv2 => lv
    PROVE  Solid(f, m, st2, lv2, jp, il)
  <1>1. \A i \in 1 .. Len(f) : Lit(f, lv2, jp, i) => Lit(f, lv, jp, i)
    BY DEF Lit
  <1>2. jp \in JumpRec /\ jp.to <= Len(f) /\ (jp.to # 0 => f[jp.to].c \in Loops)
    BY DEF Solid, Skeleton
  <1>3. QED
    BY <1>1, <1>2, StaysSolid

-----------------------------------------------------------------------------
\* Slots.

\* Frame a gets the slots s.
Slotted(f, a, s) == [f EXCEPT ![a].slots = s]

\* The other frames, and the rest of this one, stay as they are.
LEMMA SlottedIs ==
    ASSUME NEW f \in Seq(FrameRec), NEW a \in 1 .. Len(f), NEW s \in Seq(SlotRec)
    PROVE  /\ Slotted(f, a, s) \in Seq(FrameRec) /\ Len(Slotted(f, a, s)) = Len(f)
           /\ \A h \in 1 .. Len(f) : Alike(f[h], Slotted(f, a, s)[h])
           /\ Slotted(f, a, s)[a].slots = s
           /\ \A h \in 1 .. Len(f) : h # a => Slotted(f, a, s)[h] = f[h]
  <1>1. f[a] \in FrameRec
    OBVIOUS
  <1>2. PICK x : x = [f[a] EXCEPT !.slots = s]
    OBVIOUS
  <1>3. x \in FrameRec /\ x.slots = s /\ Alike(f[a], x)
    BY <1>1, <1>2 DEF FrameRec, Alike
  <1>4. Slotted(f, a, s) = [f EXCEPT ![a] = x]
    BY <1>2 DEF Slotted
  <1>5. \A h \in 1 .. Len(f) : Alike(f[h], f[h])
    BY DEF Alike
  <1>6. [f EXCEPT ![a] = x] \in Seq(FrameRec) /\ Len([f EXCEPT ![a] = x]) = Len(f)
    BY <1>3
  <1>7. /\ [f EXCEPT ![a] = x][a] = x
        /\ \A h \in 1 .. Len(f) : h # a => [f EXCEPT ![a] = x][h] = f[h]
    OBVIOUS
  <1>8. QED
    BY <1>3, <1>4, <1>5, <1>6, <1>7

\* Slot b of frame a gets the content v: s are the slots of the frame then.
Stores(f, a, b, v, s) ==
    /\ [f EXCEPT ![a].slots[b].st = v] = Slotted(f, a, s)
    /\ Len(s) = Len(f[a].slots) /\ s[b].st = v
    /\ \A d \in 1 .. Len(s) : s[d].k = f[a].slots[d].k /\ (d # b => s[d] = f[a].slots[d])

\* There are such slots.
LEMMA StoredIs ==
    ASSUME NEW f \in Seq(FrameRec), NEW a \in 1 .. Len(f), NEW b \in 1 .. Len(f[a].slots),
           NEW v \in {"raw", "zero", "held", "gone"}
    PROVE  \E s \in Seq(SlotRec) : Stores(f, a, b, v, s)
  <1>1. f[a] \in FrameRec
    OBVIOUS
  <1>2. PICK q : q = f[a].slots
    OBVIOUS
  <1>3. q \in Seq(SlotRec) /\ b \in 1 .. Len(q)
    BY <1>1, <1>2 DEF FrameRec
  <1>4. q[b] \in SlotRec
    BY <1>3
  <1>5. PICK y : y = [q[b] EXCEPT !.st = v]
    OBVIOUS
  <1>6. y \in SlotRec /\ y.st = v /\ y.k = q[b].k /\ y.own = q[b].own
    BY <1>4, <1>5 DEF SlotRec
  <1>7. PICK s : s = [q EXCEPT ![b] = y]
    OBVIOUS
  <1>8. /\ s \in Seq(SlotRec) /\ Len(s) = Len(q) /\ s[b] = y
        /\ \A d \in 1 .. Len(s) : d # b => s[d] = q[d]
    BY <1>3, <1>6, <1>7
  <1>9. [f EXCEPT ![a].slots[b].st = v] = Slotted(f, a, s)
    BY <1>2, <1>5, <1>7 DEF Slotted
  <1>10. Stores(f, a, b, v, s)
    BY <1>2, <1>6, <1>8, <1>9 DEF Stores
  <1>11. QED
    BY <1>8, <1>10

\* The slots of one frame change, with the moves of that frame.
LEMMA Reslot ==
    ASSUME NEW f, NEW m, NEW m2, NEW st, NEW st2, NEW lv, NEW jp, NEW il,
           Solid(f, m, st, lv, jp, il), NEW a \in 1 .. Len(f), NEW s \in Seq(SlotRec),
           a # Len(f) => (st2 = "decl" <=> st = "decl"),
           m2 \in SUBSET (Nat \X Nat),
           \A i, b : i # a => (<<i, b>> \in m2 <=> <<i, b>> \in m),
           \A b : <<a, b>> \in m2 => b \in 1 .. Len(s) /\ s[b].k = "str",
           \A i \in a + 1 .. Len(f) : f[i].c \in {"then", "else", "lastarm"} => m2 = m,
           Declares(f, st2, a) => s # << >> /\ <<a, Len(s)>> \notin m2,
           Lit(f, lv, jp, a) => \A b \in 1 .. Len(s) :
              IF Declares(f, st2, a) /\ b = Len(s)
              THEN s[b].k = "enum" => s[b].st = "zero"
              ELSE Right(s[b], <<a, b>> \in m2)
    PROVE  Solid(Slotted(f, a, s), m2, st2, lv, jp, il)
  <1> DEFINE g == Slotted(f, a, s)
  <1>1. Skeleton(f, m, jp, il) /\ Marks(f, m) /\ SlotsOK(f, m, st, lv, jp)
    BY DEF Solid
  <1>2. f \in Seq(FrameRec) /\ Len(f) \in Nat
    BY <1>1 DEF Skeleton
  <1>3. /\ g \in Seq(FrameRec) /\ Len(g) = Len(f) /\ \A h \in 1 .. Len(f) : Alike(f[h], g[h])
        /\ g[a].slots = s /\ \A h \in 1 .. Len(f) : h # a => g[h] = f[h]
    BY <1>2, SlottedIs
  <1> HIDE DEF g
  <1>4. m \in SUBSET (Nat \X Nat)
    BY <1>1 DEF Marks
  <1>5. \A i \in 1 .. Len(f) : FrameOK(g, m2, il, i)
    <2> SUFFICES ASSUME NEW i \in 1 .. Len(f) PROVE FrameOK(g, m2, il, i)
      OBVIOUS
    <2>1. FrameOK(f, m, il, i) /\ i <= Len(g)
      BY <1>1, <1>3 DEF Skeleton
    <2>2. \A h \in 1 .. i : Alike(f[h], g[h])
      BY <1>2, <1>3
    <2>3. f[i].c \in {"then", "else", "lastarm"} => {r \in m2 : r[1] < i} = {r \in m : r[1] < i}
      <3>1. CASE i \in a + 1 .. Len(f)
        BY <3>1
      <3>2. CASE i <= a
        <4>1. ASSUME NEW r \in Nat \X Nat, r[1] < i PROVE r \in m2 <=> r \in m
          <5>1. r = <<r[1], r[2]>> /\ r[1] # a
            BY <1>2, <3>2, <4>1
          <5>2. QED
            BY <5>1
        <4>2. QED
          BY <1>4, <4>1
      <3>3. QED
        BY <1>2, <3>1, <3>2
    <2>4. QED
      BY <1>2, <1>3, <2>1, <2>2, <2>3, FrameKept
  <1>6. Skeleton(g, m2, jp, il)
    <2>1. /\ Len(f) >= 2 /\ f[1].c = "fn" /\ f[2].c = "block" /\ jp \in JumpRec /\ jp.to <= Len(f)
          /\ jp.to # 0 => f[jp.to].c \in Loops
      BY <1>1 DEF Skeleton
    <2>2. \A h \in 1 .. Len(f) : g[h].c = f[h].c
      BY <1>3 DEF Alike
    <2>3. jp.to \in Nat
      BY <2>1 DEF JumpRec
    <2>4. QED
      BY <1>2, <1>3, <1>5, <2>1, <2>2, <2>3 DEF Skeleton
  <1>7. Marks(g, m2)
    <2> SUFFICES ASSUME NEW r \in m2
                 PROVE  /\ r[1] \in 1 .. Len(g) /\ r[2] \in 1 .. Len(g[r[1]].slots)
                        /\ g[r[1]].slots[r[2]].k = "str"
      BY DEF Marks
    <2>1. r = <<r[1], r[2]>>
      OBVIOUS
    <2>2. CASE r[1] = a
      BY <1>3, <2>1, <2>2
    <2>3. CASE r[1] # a
      <3>1. r \in m
        BY <2>1, <2>3
      <3>2. QED
        BY <1>1, <1>3, <2>3, <3>1 DEF Marks
    <2>4. QED
      BY <2>2, <2>3
  <1>8. ASSUME NEW i \in 1 .. Len(f), Lit(g, lv, jp, i) PROVE Lit(f, lv, jp, i)
    BY <1>2, <1>3, <1>8, LitAlike
  <1>9. ASSUME NEW i \in 1 .. Len(f), NEW z PROVE Declares(g, z, i) <=> Declares(f, z, i)
    <2>1. \A h \in 1 .. Len(f) : g[h].stmt = f[h].stmt
      BY <1>3 DEF Alike
    <2>2. i # Len(f) => i + 1 \in 1 .. Len(f)
      BY <1>2
    <2>3. QED
      BY <1>3, <2>1, <2>2 DEF Declares
  <1>10. SlotsOK(g, m2, st2, lv, jp)
    <2> SUFFICES ASSUME NEW i \in 1 .. Len(f)
                 PROVE  /\ Declares(g, st2, i) => g[i].slots # << >> /\ <<i, Len(g[i].slots)>> \notin m2
                        /\ Lit(g, lv, jp, i) => \A b \in 1 .. Len(g[i].slots) :
                             IF Declares(g, st2, i) /\ b = Len(g[i].slots)
                             THEN g[i].slots[b].k = "enum" => g[i].slots[b].st = "zero"
                             ELSE Right(g[i].slots[b], <<i, b>> \in m2)
      BY <1>3 DEF SlotsOK
    <2>1. Declares(g, st2, i) <=> Declares(f, st2, i)
      BY <1>9
    <2>2. CASE i = a
      <3>1. g[i].slots = s
        BY <1>3, <2>2
      <3>2. Lit(g, lv, jp, i) => Lit(f, lv, jp, a)
        BY <1>8, <2>2
      <3>3. QED
        BY <2>1, <2>2, <3>1, <3>2
    <2>3. CASE i # a
      <3>1. g[i].slots = f[i].slots
        BY <1>3, <2>3
      <3>2. Declares(f, st2, i) <=> Declares(f, st, i)
        BY <2>3 DEF Declares
      <3>3. \A b : <<i, b>> \in m2 <=> <<i, b>> \in m
        BY <2>3
      <3>4. /\ Declares(f, st, i) => f[i].slots # << >> /\ <<i, Len(f[i].slots)>> \notin m
            /\ Lit(f, lv, jp, i) => \A b \in 1 .. Len(f[i].slots) :
                 IF Declares(f, st, i) /\ b = Len(f[i].slots)
                 THEN f[i].slots[b].k = "enum" => f[i].slots[b].st = "zero"
                 ELSE Right(f[i].slots[b], <<i, b>> \in m)
        BY <1>1 DEF SlotsOK
      <3>5. QED
        BY <1>8, <2>1, <3>1, <3>2, <3>3, <3>4 DEF Right
    <2>4. QED
      BY <2>2, <2>3
  <1>11. QED
    BY <1>6, <1>7, <1>10 DEF Solid, g

-----------------------------------------------------------------------------
\* No fault where the invariant holds.

\* The frames of a function are the ones above its base.
LEMMA Owned ==
    ASSUME Good
    PROVE  /\ fr \in Seq(FrameRec) /\ Len(fr) \in Nat /\ Len(fr) >= 2
           /\ Base \in 1 .. Len(fr) /\ IsBase(fr, Len(fr), Base)
           /\ \A b : IsBase(fr, Len(fr), b) => b = Base
           /\ \A h \in Base + 1 .. Len(fr) :
                 /\ fr[h].c \notin Functions /\ ~ fr[h].live /\ fr[h].stmt = "none"
                 /\ fr[h].jump.to = 0
  <1>1. Skeleton(fr, moved, jump, inLoop)
    BY DEF Good, Solid
  <1>2. fr \in Seq(FrameRec) /\ Len(fr) \in Nat /\ Len(fr) >= 2 /\ fr[1].c = "fn"
    BY <1>1 DEF Skeleton
  <1>3. IsBase(fr, Len(fr), Base) /\ \A b : IsBase(fr, Len(fr), b) => b = Base
    <2>1. Len(fr) \in 1 .. Len(fr)
      BY <1>2
    <2>2. QED
      BY <1>2, <2>1, BaseIs DEF Base
  <1>4. Base \in 1 .. Len(fr) /\ \A h \in Base + 1 .. Len(fr) : fr[h].c \notin Functions
    BY <1>3 DEF IsBase
  <1>5. ASSUME NEW h \in Base + 1 .. Len(fr)
        PROVE  ~ fr[h].live /\ fr[h].stmt = "none" /\ fr[h].jump.to = 0
    <2>1. h \in 1 .. Len(fr) /\ FrameOK(fr, moved, inLoop, h)
      BY <1>1, <1>2, <1>4 DEF Skeleton
    <2>2. fr[h].c \notin Nested
      BY <1>4 DEF Nested, Functions
    <2>3. QED
      BY <2>1, <2>2 DEF FrameOK
  <1>6. QED
    BY <1>2, <1>3, <1>4, <1>5

\* A release of temporaries finds them on the path, in the function that made them.
LEMMA NoFlushFault ==
    ASSUME Good, NEW ks
    PROVE  FlushFaults(ks) = {}
  <1>1. Temporaries(fr, temps, stmt, term, live) /\ live \in BOOLEAN
    BY DEF Good
  <1>2. temps \in Seq(TempRec) /\ DOMAIN temps = 1 .. Len(temps)
    BY <1>1 DEF Temporaries
  <1>3. ASSUME NEW i \in DOMAIN temps PROVE TempFault(temps[i]) = {}
    <2>1. temps[i].on = live /\ IsBase(fr, Len(fr), temps[i].fn)
      BY <1>1, <1>2 DEF Temporaries
    <2>2. temps[i].fn = Base
      BY <2>1, Owned
    <2>3. ~ term
      BY <1>1, <1>2 DEF Temporaries
    <2>4. QED
      BY <1>1, <2>1, <2>2, <2>3 DEF TempFault
  <1>4. QED
    BY <1>3 DEF FlushFaults

\* A release of scopes of the current function finds every slot as it expects it.
LEMMA NoScopeFault ==
    ASSUME Good, NEW lo \in Base .. Len(fr),
           stmt # "decl" \/ fr[Len(fr)].slots[Len(fr[Len(fr)].slots)].k = "enum"
    PROVE  ScopeFaults(lo) = {}
  <1> SUFFICES ASSUME live, NEW r \in Slots(lo) PROVE ReleaseFault(r) = {}
    BY DEF ScopeFaults
  <1>1. PICK i, b : r = <<i, b>> /\ i \in lo .. Len(fr) /\ b \in 1 .. MaxSlots /\ b <= Len(fr[i].slots)
    BY DEF Slots
  <1>2. PICK n \in Nat : n = Len(fr)
    BY Owned
  <1>3. Base \in Nat /\ i \in 1 .. n /\ i >= Base /\ lo \in Nat
    BY <1>1, <1>2, Owned
  <1>4. Together(fr, i, n)
    BY <1>2, <1>3, Owned DEF Together
  <1>5. Lit(fr, live, jump, i)
    BY <1>2, <1>4 DEF Lit
  <1>6. fr[i] \in FrameRec
    BY <1>2, <1>3, Owned
  <1>7. fr[i].slots \in Seq(SlotRec)
    BY <1>6 DEF FrameRec
  <1>8. b \in 1 .. Len(fr[i].slots)
    BY <1>1, <1>7, FlowAssumption
  <1>9. fr[i].slots[b] \in SlotRec
    BY <1>7, <1>8
  <1>10. SlotsOK(fr, moved, stmt, live, jump)
    BY DEF Good, Solid
  <1>11. IF Declares(fr, stmt, i) /\ b = Len(fr[i].slots)
         THEN fr[i].slots[b].k = "enum" => fr[i].slots[b].st = "zero"
         ELSE Right(fr[i].slots[b], <<i, b>> \in moved)
    BY <1>2, <1>3, <1>5, <1>8, <1>10 DEF SlotsOK
  <1>12. Declares(fr, stmt, i) => i = n /\ stmt = "decl"
    <2>1. CASE i = n
      BY <1>2, <2>1 DEF Declares
    <2>2. CASE i # n
      <3>1. i + 1 \in Base + 1 .. Len(fr)
        BY <1>2, <1>3, <2>2
      <3>2. QED
        BY <1>2, <2>2, <3>1, Owned DEF Declares
    <2>3. QED
      BY <2>1, <2>2
  <1>13. \/ fr[i].slots[b].k = "enum" /\ fr[i].slots[b].st = "zero"
         \/ Right(fr[i].slots[b], <<i, b>> \in moved)
    BY <1>2, <1>11, <1>12
  <1>14. SlotAt(r) = fr[i].slots[b]
    BY <1>1 DEF SlotAt
  <1>15. QED
    BY <1>1, <1>9, <1>13, <1>14 DEF ReleaseFault, Skips, Right, SlotRec

\* The end of a block, in particular.
LEMMA NoBlockFault ==
    ASSUME Good, stmt = "none"
    PROVE  BlockFaults = {}
  <1>1. Len(fr) \in Base .. Len(fr)
    BY Owned
  <1>2. QED
    BY <1>1, NoScopeFault DEF BlockFaults

\* A list without the kinds ks is empty if no other kind is pending.
LEMMA NothingPending ==
    ASSUME temps \in Seq(TempRec), NEW ks, NEW ls, TempKinds \subseteq ks \cup ls, ~ Pending(ls)
    PROVE  Without(temps, ks) = << >>
  <1>1. PICK w : w = Without(temps, ks)
    OBVIOUS
  <1>2. w \in Seq(TempRec) /\ \A i \in 1 .. Len(w) : \E j \in 1 .. Len(temps) :
            w[i] = temps[j] /\ temps[j].k \notin ks
    BY <1>1, WithoutIs
  <1>3. \A j \in 1 .. Len(temps) : temps[j].k \in ks
    <2> SUFFICES ASSUME NEW j \in 1 .. Len(temps) PROVE temps[j].k \in ks
      OBVIOUS
    <2>1. temps[j] \in TempRec
      OBVIOUS
    <2>2. temps[j].k \in TempKinds
      BY <2>1 DEF TempRec
    <2>3. QED
      BY <2>2 DEF Pending
  <1>4. ~ (1 \in 1 .. Len(w))
    BY <1>2, <1>3
  <1>5. Len(w) = 0
    BY <1>2, <1>4
  <1>6. QED
    BY <1>1, <1>2, <1>5

-----------------------------------------------------------------------------
\* Steps.

\* What the parts of the invariant say of the variables.
LEMMA Parts ==
    ASSUME Good
    PROVE  /\ stmt \in Stages /\ term \in BOOLEAN /\ live \in BOOLEAN /\ inLoop \in BOOLEAN
           /\ jump \in JumpRec /\ jump.to \in Nat /\ jump.to <= Len(fr)
           /\ jump.to # 0 => fr[jump.to].c \in Loops
           /\ moved \in SUBSET (Nat \X Nat) /\ temps \in Seq(TempRec)
           /\ stmt = "none" \/ term => temps = << >>
           /\ live => ~ term
           /\ Solid(fr, moved, stmt, live, jump, inLoop)
           /\ \A i \in 1 .. Len(fr) : FrameOK(fr, moved, inLoop, i)
           /\ fr[2].c = "block" /\ fr[1].c = "fn"
  <1>1. /\ stmt \in Stages /\ term \in BOOLEAN /\ live \in BOOLEAN /\ inLoop \in BOOLEAN
        /\ live => ~ term
        /\ Solid(fr, moved, stmt, live, jump, inLoop) /\ Temporaries(fr, temps, stmt, term, live)
    BY DEF Good
  <1>2. Skeleton(fr, moved, jump, inLoop) /\ Marks(fr, moved)
    BY <1>1 DEF Solid
  <1>3. jump \in JumpRec /\ jump.to \in Nat
    BY <1>2 DEF Skeleton, JumpRec
  <1>4. QED
    BY <1>1, <1>2, <1>3 DEF Skeleton, Marks, Temporaries

\* An empty list is always right.
LEMMA NoTemporaries ==
    ASSUME NEW f, NEW st, NEW tm, NEW lv
    PROVE  Temporaries(f, << >>, st, tm, lv)
  BY DEF Temporaries

\* The fields of a new frame.
LEMMA FrameIs ==
    ASSUME Good, NEW c \in Nested \cup Branches \cup Loops \cup {"block"}, NEW alt \in BOOLEAN
    PROVE  /\ Frame(c, alt) \in FrameRec
           /\ Frame(c, alt).c = c /\ Frame(c, alt).slots = << >> /\ Frame(c, alt).alt = alt
           /\ c = "then" => Frame(c, alt).moved = moved
           /\ c \in Nested => /\ Frame(c, alt).temps = temps /\ Frame(c, alt).live = live
                              /\ Frame(c, alt).jump = jump /\ Frame(c, alt).stmt = stmt
           /\ c \notin Nested => /\ ~ Frame(c, alt).live /\ Frame(c, alt).jump.to = 0
                                 /\ Frame(c, alt).stmt = "none"
  <1>1. /\ moved \in SUBSET (Nat \X Nat) /\ temps \in Seq(TempRec) /\ jump \in JumpRec
        /\ stmt \in Stages /\ live \in BOOLEAN
    BY Parts
  <1>2. /\ (IF c = "then" THEN moved ELSE {}) \in SUBSET (Nat \X Nat)
        /\ (IF c \in Loops \cup {"lambda", "spawn"} THEN temps ELSE << >>) \in Seq(TempRec)
        /\ (c \in {"lambda", "spawn"} /\ live) \in BOOLEAN
        /\ (IF c \in {"lambda", "spawn"} THEN jump ELSE NoJump) \in JumpRec
        /\ (IF c \in {"lambda", "spawn"} THEN stmt ELSE "none") \in Stages
        /\ << >> \in Seq(SlotRec)
        /\ c \in Functions \cup Branches \cup Loops \cup {"block"}
    BY <1>1 DEF NoJump, JumpRec, Stages, Functions, Nested
  <1>3. Frame(c, alt) \in FrameRec
    BY <1>2 DEF Frame, FrameRec
  <1>4. QED
    BY <1>1, <1>3 DEF Frame, Nested, NoJump

\* Opening a block.
LEMMA StepOpenBlock ==
    ASSUME Good, faults = {}, outside = FALSE, OpenBlock
    PROVE  Inv'
  <1> DEFINE x == Frame("block", FALSE)
  <1>1. /\ x \in FrameRec /\ x.c = "block" /\ x.slots = << >> /\ x.alt = FALSE
        /\ ~ x.live /\ x.jump.to = 0 /\ x.stmt = "none"
    BY FrameIs DEF Nested
  <1>2. /\ stmt = "none" /\ fr' = Append(fr, x) /\ temps' = temps /\ moved' = moved /\ stmt' = stmt
        /\ term' = term /\ live' = live /\ jump' = jump /\ inLoop' = inLoop /\ faults' = faults
        /\ outside' = outside
    BY DEF OpenBlock
  <1> HIDE DEF x
  <1>3. Opens(fr, moved, x, stmt, live, jump, live, jump, inLoop)
    BY <1>1, <1>2 DEF Opens, Loops, Nested
  <1>4. Solid(Append(fr, x), moved, "none", live, jump, inLoop)
    BY <1>3, Parts, Push
  <1>5. temps = << >>
    BY <1>2, Parts
  <1>6. Good'
    BY <1>2, <1>4, <1>5, Parts, NoTemporaries DEF Good
  <1>7. QED
    BY <1>2, <1>6 DEF Inv

\* Its end.
LEMMA StepCloseBlock ==
    ASSUME Good, faults = {}, outside = FALSE, CloseBlock
    PROVE  Inv'
  <1>1. /\ fr[Len(fr)].c = "block" /\ stmt = "none" /\ Len(fr) > 2
        /\ fr' = SubSeq(fr, 1, Len(fr) - 1) /\ temps' = temps
        /\ moved' = {r \in moved : r[1] < Len(fr)} /\ stmt' = "done"
        /\ term' = term /\ live' = live /\ jump' = jump /\ inLoop' = inLoop
        /\ faults' = faults \cup BlockFaults /\ outside' = outside
    BY DEF CloseBlock, Top, Pop, Prune
  <1>2. FrameOK(fr, moved, inLoop, Len(fr)) /\ Len(fr) \in Nat
    BY <1>1, Parts, Owned
  <1>3. fr[Len(fr)].stmt = "none"
    BY <1>1, <1>2 DEF FrameOK, Nested
  <1>4. jump.to # Len(fr)
    BY <1>1, Parts DEF Loops
  <1>5. \A i \in 1 .. Len(fr) - 1 : fr[i].c \in Loops => inLoop
    BY <1>2, Parts DEF FrameOK
  <1>6. Closes(fr, live, jump, "done", live, jump, inLoop)
    BY <1>1, <1>2, <1>3, <1>4, <1>5, Parts DEF Closes, Functions
  <1>7. Solid(fr', moved', "done", live, jump, inLoop)
    BY <1>1, <1>6, Parts, PopKeeps
  <1>8. temps = << >>
    BY <1>1, Parts
  <1>9. Good'
    BY <1>1, <1>7, <1>8, Parts, NoTemporaries DEF Good, Stages
  <1>10. QED
    BY <1>1, <1>9, NoBlockFault DEF Inv

\* A first branch is opened over frames that are solid.
LEMMA StepOpenBranch ==
    ASSUME Good, faults = {}, outside = FALSE, NEW c \in {"then", "arm"}, NEW taken \in BOOLEAN,
           NEW frames, NEW ts, OpenBranch(c, taken, frames, ts), faults' = {},
           Solid(frames, moved, stmt, live, jump, inLoop)
    PROVE  Inv'
  <1> DEFINE x == Frame(c, live /\ ~taken)
  <1>1. (live /\ ~taken) \in BOOLEAN /\ c \in Nested \cup Branches \cup Loops \cup {"block"}
    BY Parts DEF Branches
  <1>2. /\ x \in FrameRec /\ x.c = c /\ x.slots = << >> /\ x.alt = (live /\ ~taken)
        /\ c = "then" => x.moved = moved
        /\ ~ x.live /\ x.jump.to = 0 /\ x.stmt = "none"
    BY <1>1, FrameIs DEF Nested
  <1>3. /\ stmt \in {"none", "expr"} /\ ~term /\ fr' = Append(frames, x)
        /\ temps' = ts /\ moved' = moved /\ stmt' = "none"
        /\ term' = term /\ live' = (live /\ taken) /\ jump' = jump /\ inLoop' = inLoop
        /\ outside' = (ts # << >>)
    BY DEF OpenBranch
  <1> HIDE DEF x
  <1>4. Opens(frames, moved, x, stmt, live, jump, live', jump, inLoop)
    BY <1>2, <1>3 DEF Opens, Loops, Nested
  <1>5. Solid(fr', moved, "none", live', jump, inLoop)
    BY <1>3, <1>4, Parts, Push
  <1>6. ASSUME ~ outside' PROVE Good'
    <2>1. Temporaries(fr', temps', stmt', term', live')
      BY <1>3, <1>6, NoTemporaries
    <2>2. live' \in BOOLEAN /\ stmt' \in Stages /\ (live' => ~ term')
      BY <1>3, Parts DEF Stages
    <2>3. QED
      BY <1>3, <1>5, <2>1, <2>2, Parts DEF Good
  <1>7. QED
    BY <1>3, <1>6 DEF Inv

\* The second branch takes the place of the first.
LEMMA StepNextBranch ==
    ASSUME Good, faults = {}, outside = FALSE, NextBranch
    PROVE  Inv'
  <1> DEFINE n == Len(fr)
             p == SubSeq(fr, 1, n - 1)
             m == {r \in moved : r[1] < n}
             c == IF fr[n].c = "then" THEN "else" ELSE "lastarm"
             y == Frame(c, live)
             x == [y EXCEPT !.moved = m]
             mid == live \/ fr[n].alt
  <1>1. /\ fr[n].c \in {"then", "arm"} /\ stmt = "none"
        /\ fr' = Append(p, x) /\ temps' = temps
        /\ moved' = (IF fr[n].c = "then" THEN {r \in fr[n].moved : r[1] < n} ELSE m)
        /\ stmt' = stmt /\ term' = FALSE /\ live' = fr[n].alt /\ jump' = jump /\ inLoop' = inLoop
        /\ faults' = faults \cup BlockFaults /\ outside' = outside
    BY DEF NextBranch, Top, Pop, Prune
  <1>2. n \in Nat /\ n >= 2 /\ fr \in Seq(FrameRec) /\ fr[n] \in FrameRec
    BY Owned
  <1>3. n > 2 /\ FrameOK(fr, moved, inLoop, n)
    BY <1>1, <1>2, Parts
  <1>4. moved \in SUBSET (Nat \X Nat) /\ m \in SUBSET (Nat \X Nat)
    BY Parts
  <1>5. moved' = m
    <2>1. fr[n].c = "then" => fr[n].moved = m
      BY <1>3 DEF FrameOK
    <2>2. {r \in m : r[1] < n} = m
      OBVIOUS
    <2>3. QED
      BY <1>1, <2>1, <2>2
  <1>6. c \in {"else", "lastarm"} /\ c \in Nested \cup Branches \cup Loops \cup {"block"}
    BY DEF Branches
  <1>7. /\ y \in FrameRec /\ y.c = c /\ y.slots = << >> /\ y.alt = live
        /\ ~ y.live /\ y.jump.to = 0 /\ y.stmt = "none"
    BY <1>6, Parts, FrameIs DEF Nested
  <1>8. fr[n].alt \in BOOLEAN /\ live \in BOOLEAN
    BY <1>2, Parts DEF FrameRec
  <1> HIDE DEF c, y, m
  <1>9. /\ x \in FrameRec /\ x.c = c /\ x.slots = << >> /\ x.alt = live /\ x.moved = m
        /\ ~ x.live /\ x.jump.to = 0 /\ x.stmt = "none"
    BY <1>4, <1>7 DEF FrameRec
  <1>10. jump.to # n
    BY <1>1, <1>2, Parts DEF Loops
  <1>11. fr[n].stmt = "none"
    BY <1>1, <1>3 DEF FrameOK, Nested
  <1>12. \A i \in 1 .. n - 1 : fr[i].c \in Loops => inLoop
    BY <1>2, Parts DEF FrameOK
  <1>13. Closes(fr, live, jump, "none", mid, jump, inLoop)
    BY <1>1, <1>2, <1>3, <1>10, <1>11, <1>12, Parts DEF Closes, Functions
  <1>14. Solid(p, m, "none", mid, jump, inLoop)
    BY <1>13, Parts, PopKeeps DEF m
  <1> HIDE DEF x, p, mid
  <1>15. Opens(p, m, x, "none", mid, jump, live', jump, inLoop)
    BY <1>1, <1>6, <1>9 DEF Opens, Loops, Nested, mid
  <1>16. Solid(fr', m, "none", live', jump, inLoop)
    BY <1>1, <1>14, <1>15, Parts, Push
  <1>17. temps = << >>
    BY <1>1, Parts
  <1>18. Temporaries(fr', temps', stmt', term', live')
    BY <1>1, <1>17, NoTemporaries
  <1>19. Good'
    BY <1>1, <1>5, <1>8, <1>16, <1>18, Parts DEF Good
  <1>20. QED
    BY <1>1, <1>19, NoBlockFault DEF Inv

\* The merge after it.
LEMMA StepEndBranch ==
    ASSUME Good, faults = {}, outside = FALSE, EndBranch
    PROVE  Inv'
  <1> DEFINE n == Len(fr)
             m == {r \in moved : r[1] < n}
  <1>1. /\ fr[n].c \in {"else", "lastarm"} /\ stmt = "none"
        /\ fr' = SubSeq(fr, 1, n - 1) /\ temps' = temps
        /\ moved' = {r \in moved \cup fr[n].moved : r[1] < n}
        /\ stmt' = "done" /\ term' = FALSE /\ live' = (live \/ fr[n].alt) /\ jump' = jump
        /\ inLoop' = inLoop /\ faults' = faults \cup BlockFaults /\ outside' = outside
    BY DEF EndBranch, Top, Pop, Prune
  <1>2. n \in Nat /\ n >= 2 /\ fr[n] \in FrameRec
    BY Owned
  <1>3. n > 2 /\ FrameOK(fr, moved, inLoop, n)
    BY <1>1, <1>2, Parts
  <1>4. moved' = m
    <2>1. fr[n].moved = m
      BY <1>1, <1>3 DEF FrameOK
    <2>2. QED
      BY <1>1, <2>1
  <1>5. fr[n].alt \in BOOLEAN /\ live \in BOOLEAN
    BY <1>2, Parts DEF FrameRec
  <1>6. jump.to # n
    BY <1>1, <1>2, Parts DEF Loops
  <1>7. fr[n].stmt = "none"
    BY <1>1, <1>3 DEF FrameOK, Nested
  <1>8. \A i \in 1 .. n - 1 : fr[i].c \in Loops => inLoop
    BY <1>2, Parts DEF FrameOK
  <1>9. Closes(fr, live, jump, "done", live', jump, inLoop)
    BY <1>1, <1>2, <1>3, <1>6, <1>7, <1>8, Parts DEF Closes, Functions
  <1>10. Solid(fr', m, "done", live', jump, inLoop)
    BY <1>1, <1>9, Parts, PopKeeps
  <1>11. Temporaries(fr', temps', stmt', term', live')
    BY <1>1, Parts, NoTemporaries
  <1>12. Good'
    BY <1>1, <1>4, <1>5, <1>10, <1>11, Parts DEF Good, Stages
  <1>13. QED
    BY <1>1, <1>12, NoBlockFault DEF Inv

\* A loop is opened over frames that are solid and have the same length.
LEMMA StepOpenLoop ==
    ASSUME Good, faults = {}, outside = FALSE, NEW c \in Loops, NEW enters \in BOOLEAN,
           NEW frames, NEW ts, OpenLoop(c, enters, frames, ts), faults' = {},
           Solid(frames, moved, stmt, live, jump, inLoop)
    PROVE  Inv'
  <1> DEFINE y == Frame(c, live /\ ~enters)
             x == [y EXCEPT !.temps = ts]
  <1>1. /\ stmt \in {"none", "expr"} /\ ~term /\ fr' = Append(frames, x) /\ temps' = ts
        /\ moved' = moved /\ stmt' = "none" /\ term' = term /\ live' = (live /\ enters)
        /\ jump' = jump /\ inLoop' = TRUE /\ outside' = (ts # << >>)
    BY DEF OpenLoop
  <1>2. (live /\ ~enters) \in BOOLEAN /\ c \in Nested \cup Branches \cup Loops \cup {"block"}
    BY Parts
  <1>3. /\ y \in FrameRec /\ y.c = c /\ y.slots = << >> /\ y.alt = (live /\ ~enters)
        /\ ~ y.live /\ y.jump.to = 0 /\ y.stmt = "none"
    BY <1>2, FrameIs DEF Nested, Loops
  <1> HIDE DEF y
  <1>4. ASSUME ts = << >> PROVE Good'
    <2>1. << >> \in Seq(TempRec)
      OBVIOUS
    <2>2. /\ x \in FrameRec /\ x.c = c /\ x.slots = << >> /\ x.alt = (live /\ ~enters)
          /\ ~ x.live /\ x.jump.to = 0 /\ x.stmt = "none" /\ x.temps = << >>
      BY <1>3, <1>4, <2>1 DEF FrameRec
    <2> HIDE DEF x
    <2>3. Opens(frames, moved, x, stmt, live, jump, live', jump, inLoop')
      BY <1>1, <2>2 DEF Opens, Loops, Nested
    <2>4. Solid(fr', moved, "none", live', jump, inLoop')
      <3>1. inLoop \in BOOLEAN /\ inLoop' \in BOOLEAN /\ (inLoop => inLoop')
        BY <1>1, Parts
      <3>2. Solid(Append(frames, x), moved, "none", live', jump, inLoop')
        BY <2>3, <3>1, Push
      <3>3. QED
        BY <1>1, <3>2
    <2>5. Temporaries(fr', temps', stmt', term', live')
      BY <1>1, <1>4, NoTemporaries
    <2>6. live' \in BOOLEAN /\ stmt' \in Stages /\ (live' => ~ term')
      BY <1>1, Parts DEF Stages
    <2>7. QED
      BY <1>1, <2>4, <2>5, <2>6, Parts DEF Good
  <1>5. QED
    BY <1>1, <1>4 DEF Inv

\* The loops, but for the one over an array that a call made.
LEMMA StepLoops ==
    ASSUME Good, faults = {}, outside = FALSE,
           \/ \E enters \in BOOLEAN : GenWhileStatement(enters) \/ GenForInRange(enters)
           \/ GenForInfinite
    PROVE  Inv'
  <1>1. /\ Solid(fr, moved, stmt, live, jump, inLoop)
        /\ "while" \in Loops /\ "ever" \in Loops /\ "forin" \in Loops /\ TRUE \in BOOLEAN
    BY Parts DEF Loops
  <1>2. ASSUME NEW enters \in BOOLEAN, GenWhileStatement(enters) PROVE Inv'
    <2>1. faults' = {} /\ OpenLoop("while", enters, fr, Without(temps, {"str"}))
      BY <1>2, NoFlushFault DEF GenWhileStatement
    <2>2. QED
      BY <1>1, <2>1, StepOpenLoop
  <1>3. ASSUME NEW enters \in BOOLEAN, GenForInRange(enters) PROVE Inv'
    <2>1. faults' = {} /\ OpenLoop("forin", enters, fr, temps)
      BY <1>3 DEF GenForInRange
    <2>2. QED
      BY <1>1, <2>1, StepOpenLoop
  <1>4. ASSUME GenForInfinite PROVE Inv'
    <2>1. faults' = {} /\ OpenLoop("ever", TRUE, fr, temps)
      BY <1>4 DEF GenForInfinite
    <2>2. QED
      BY <1>1, <2>1, StepOpenLoop
  <1>5. QED
    BY <1>2, <1>3, <1>4

\* A slot is added to the last frame.
LEMMA Added ==
    ASSUME Good, stmt # "decl", NEW s \in SlotRec, NEW st2,
           live => IF st2 = "decl" THEN s.k = "enum" => s.st = "zero" ELSE s.st = "held"
    PROVE  Solid([fr EXCEPT ![Len(fr)].slots = Append(@, s)], moved, st2, live, jump, inLoop)
  <1> DEFINE a == Len(fr)
             q == fr[a].slots
             t == Append(q, s)
  <1>1. a \in 1 .. Len(fr) /\ fr[a] \in FrameRec /\ fr \in Seq(FrameRec) /\ a \in Nat /\ a >= 1
    BY Owned
  <1>2. q \in Seq(SlotRec)
    BY <1>1 DEF FrameRec
  <1>3. PICK l \in Nat : /\ l = Len(q) /\ Len(t) = l + 1 /\ t[l + 1] = s /\ t \in Seq(SlotRec)
                         /\ \A b \in 1 .. l : t[b] = q[b]
    BY <1>2
  <1>4. [fr EXCEPT ![Len(fr)].slots = Append(@, s)] = Slotted(fr, a, t)
    BY DEF Slotted
  <1>5. Marks(fr, moved) /\ SlotsOK(fr, moved, stmt, live, jump)
    BY Parts DEF Solid
  <1>6. \A b : <<a, b>> \in moved => b \in 1 .. l /\ q[b].k = "str"
    BY <1>3, <1>5 DEF Marks
  <1>7. (Declares(fr, st2, a) <=> st2 = "decl") /\ ~ Declares(fr, stmt, a)
    BY DEF Declares
  <1>8. Lit(fr, live, jump, a) <=> live
    BY <1>1, Parts, LitTop
  <1> HIDE DEF t
  <1>9. t # << >> /\ <<a, Len(t)>> \notin moved
    BY <1>3, <1>6
  <1>10. ASSUME live, NEW b \in 1 .. Len(t)
         PROVE  IF Declares(fr, st2, a) /\ b = Len(t)
                THEN t[b].k = "enum" => t[b].st = "zero"
                ELSE Right(t[b], <<a, b>> \in moved)
    <2>1. CASE b = l + 1
      BY <1>3, <1>7, <1>9, <1>10, <2>1 DEF Right
    <2>2. CASE b # l + 1
      <3>1. b \in 1 .. l
        BY <1>3, <2>2
      <3>2. Right(q[b], <<a, b>> \in moved)
        BY <1>1, <1>3, <1>5, <1>7, <1>8, <1>10, <3>1 DEF SlotsOK
      <3>3. QED
        BY <1>3, <2>2, <3>1, <3>2
    <2>3. QED
      BY <2>1, <2>2
  <1>11. \A b : <<a, b>> \in moved => b \in 1 .. Len(t) /\ t[b].k = "str"
    BY <1>3, <1>6
  <1>12. a + 1 .. Len(fr) = {}
    BY <1>1
  <1> HIDE DEF a
  <1>13. Solid(Slotted(fr, a, t), moved, st2, live, jump, inLoop)
    <2>1. moved \in SUBSET (Nat \X Nat) /\ Solid(fr, moved, stmt, live, jump, inLoop)
      BY Parts
    <2>2. a # Len(fr) => (st2 = "decl" <=> stmt = "decl")
      BY DEF a
    <2>3. Lit(fr, live, jump, a) => \A b \in 1 .. Len(t) :
              IF Declares(fr, st2, a) /\ b = Len(t)
              THEN t[b].k = "enum" => t[b].st = "zero"
              ELSE Right(t[b], <<a, b>> \in moved)
      BY <1>8, <1>10
    <2>4. \A i \in a + 1 .. Len(fr) : fr[i].c \in {"then", "else", "lastarm"} => moved = moved
      OBVIOUS
    <2>5. t \in Seq(SlotRec) /\ a \in 1 .. Len(fr)
      BY <1>1, <1>3
    <2>6. QED
      BY <1>9, <1>11, <2>1, <2>2, <2>3, <2>4, <2>5, Reslot
  <1>14. QED
    BY <1>4, <1>13

\* What an expression made is held by the enclosing block from then on.
LEMMA SlotAdded ==
    ASSUME Good, stmt # "decl", NEW k \in SlotKinds
    PROVE  Solid(WithSlot(k), moved, stmt, live, jump, inLoop)
  <1> DEFINE s == [k |-> k, own |-> FALSE, st |-> IF live THEN "held" ELSE "raw"]
  <1>1. s \in SlotRec /\ (live => s.st = "held")
    BY DEF SlotRec
  <1>2. WithSlot(k) = [fr EXCEPT ![Len(fr)].slots = Append(@, s)]
    BY DEF WithSlot
  <1> HIDE DEF s
  <1>3. QED
    BY <1>1, <1>2, Added

\* The array of the call belongs to the enclosing block.
LEMMA StepForInArray ==
    ASSUME Good, faults = {}, outside = FALSE, NEW enters \in BOOLEAN, GenForInArray(enters)
    PROVE  Inv'
  <1>1. OpenLoop("forin", enters, WithSlot("obj"), temps) /\ faults' = {}
    BY DEF GenForInArray
  <1>2. stmt # "decl"
    BY <1>1 DEF OpenLoop
  <1>3. Solid(WithSlot("obj"), moved, stmt, live, jump, inLoop)
    BY <1>2, SlotAdded DEF SlotKinds
  <1>4. QED
    BY <1>1, <1>3, StepOpenLoop DEF Loops

\* Conditions and matched values: the strings of an if and of a match on an enum are
\* released first, and the enum itself may belong to the enclosing block.
LEMMA StepBranches ==
    ASSUME Good, faults = {}, outside = FALSE, NEW taken \in BOOLEAN,
           \/ GenIfStatement(taken) \/ GenMatchValue(taken)
           \/ \E temporary \in BOOLEAN : GenMatchEnum(taken, temporary)
    PROVE  Inv'
  <1>1. Solid(fr, moved, stmt, live, jump, inLoop)
    BY Parts
  <1>2. CASE GenIfStatement(taken)
    <2>1. faults' = {} /\ OpenBranch("then", taken, fr, Without(temps, {"str"}))
      BY <1>2, NoFlushFault DEF GenIfStatement
    <2>2. QED
      BY <1>1, <2>1, StepOpenBranch
  <1>3. CASE GenMatchValue(taken)
    <2>1. faults' = {} /\ OpenBranch("arm", taken, fr, temps)
      BY <1>3 DEF GenMatchValue
    <2>2. QED
      BY <1>1, <2>1, StepOpenBranch
  <1>4. ASSUME NEW temporary \in BOOLEAN, GenMatchEnum(taken, temporary) PROVE Inv'
    <2> DEFINE frames == IF temporary THEN WithSlot("enum") ELSE fr
    <2>1. faults' = {} /\ OpenBranch("arm", taken, frames, Without(temps, {"str"}))
      BY <1>4, NoFlushFault DEF GenMatchEnum
    <2>2. stmt # "decl"
      BY <2>1 DEF OpenBranch
    <2>3. Solid(WithSlot("enum"), moved, stmt, live, jump, inLoop)
      BY <2>2, SlotAdded DEF SlotKinds
    <2>4. Solid(frames, moved, stmt, live, jump, inLoop)
      BY <1>1, <2>3
    <2> HIDE DEF frames
    <2>5. QED
      BY <2>1, <2>4, StepOpenBranch
  <1>5. QED
    BY <1>2, <1>3, <1>4

\* A slot is registered before its value is generated.
LEMMA StepBeginDeclaration ==
    ASSUME Good, faults = {}, outside = FALSE, NEW k \in SlotKinds, NEW own \in BOOLEAN,
           BeginDeclaration(k, own)
    PROVE  Inv'
  <1> DEFINE s == [k |-> k, own |-> own, st |-> IF k = "enum" /\ live THEN "zero" ELSE "raw"]
  <1>1. s \in SlotRec /\ (live /\ s.k = "enum" => s.st = "zero")
    BY DEF SlotRec
  <1>2. /\ stmt = "none" /\ fr' = [fr EXCEPT ![Len(fr)].slots = Append(@, s)] /\ stmt' = "decl"
        /\ temps' = temps /\ moved' = moved /\ term' = term /\ live' = live /\ jump' = jump
        /\ inLoop' = inLoop /\ faults' = faults /\ outside' = outside
    BY DEF BeginDeclaration
  <1> HIDE DEF s
  <1>3. Solid(fr', moved, "decl", live, jump, inLoop)
    BY <1>1, <1>2, Added
  <1>4. Temporaries(fr', temps', stmt', term', live')
    BY <1>2, Parts, NoTemporaries
  <1>5. Good'
    BY <1>2, <1>3, <1>4, Parts DEF Good, Stages
  <1>6. QED
    BY <1>2, <1>5 DEF Inv

\* Temporaries stay right while slots change.
LEMMA TemporariesKept ==
    ASSUME NEW f, NEW g, NEW t, NEW st, NEW st2, NEW tm, NEW lv, Temporaries(f, t, st, tm, lv),
           Len(g) = Len(f), \A h \in 1 .. Len(f) : g[h].c = f[h].c, Len(f) \in Nat,
           st2 = "none" => st = "none"
    PROVE  Temporaries(g, t, st2, tm, lv)
  <1>1. ASSUME NEW b, IsBase(f, Len(f), b) PROVE IsBase(g, Len(g), b)
    <2>1. b \in 1 .. Len(f) /\ f[b].c \in Functions /\ \A h \in b + 1 .. Len(f) : f[h].c \notin Functions
      BY <1>1 DEF IsBase
    <2>2. \A h \in b + 1 .. Len(f) : h \in 1 .. Len(f)
      BY <2>1
    <2>3. QED
      BY <2>1, <2>2 DEF IsBase
  <1>2. QED
    BY <1>1 DEF Temporaries

\* Its value is stored.
LEMMA StepEndDeclaration ==
    ASSUME Good, faults = {}, outside = FALSE, EndDeclaration
    PROVE  Inv'
  <1> DEFINE a == Len(fr)
             q == fr[a].slots
  <1>1. /\ stmt = "decl" /\ stmt' = "expr"
        /\ fr' = (IF live THEN [fr EXCEPT ![a].slots[Len(q)].st = "held"] ELSE fr)
        /\ temps' = temps /\ moved' = moved /\ term' = term /\ live' = live /\ jump' = jump
        /\ inLoop' = inLoop /\ faults' = faults /\ outside' = outside
    BY DEF EndDeclaration, Top
  <1>2. a \in 1 .. Len(fr) /\ fr[a] \in FrameRec /\ fr \in Seq(FrameRec) /\ a \in Nat /\ a >= 1
    BY Owned
  <1>3. q \in Seq(SlotRec)
    BY <1>2 DEF FrameRec
  <1>4. /\ Solid(fr, moved, stmt, live, jump, inLoop) /\ Marks(fr, moved)
        /\ SlotsOK(fr, moved, stmt, live, jump) /\ moved \in SUBSET (Nat \X Nat)
    BY Parts DEF Solid
  <1>5. \A b : <<a, b>> \in moved => b \in 1 .. Len(q) /\ q[b].k = "str"
    BY <1>4 DEF Marks
  <1>6. Declares(fr, "decl", a) /\ ~ Declares(fr, "expr", a)
    BY DEF Declares
  <1>7. q # << >> /\ <<a, Len(q)>> \notin moved
    BY <1>1, <1>2, <1>4, <1>6 DEF SlotsOK
  <1>8. Lit(fr, live, jump, a) <=> live
    BY <1>2, Parts, LitTop
  <1>9. Len(q) \in 1 .. Len(q)
    BY <1>3, <1>7
  <1>10. PICK s \in Seq(SlotRec) :
            /\ fr' = Slotted(fr, a, s) /\ Len(s) = Len(q)
            /\ \A d \in 1 .. Len(s) : s[d].k = q[d].k
            /\ \A d \in 1 .. Len(s) : d # Len(q) => s[d] = q[d]
            /\ live => s[Len(q)].st = "held"
    <2>1. CASE live
      <3>1. PICK s \in Seq(SlotRec) : Stores(fr, a, Len(q), "held", s)
        BY <1>2, <1>9, StoredIs
      <3>2. fr' = Slotted(fr, a, s)
        BY <1>1, <2>1, <3>1 DEF Stores
      <3>3. QED
        BY <2>1, <3>1, <3>2 DEF Stores
    <2>2. CASE ~ live
      <3>1. fr = Slotted(fr, a, q)
        BY <1>2 DEF Slotted, FrameRec
      <3>2. QED
        BY <1>1, <1>3, <2>2, <3>1
    <2>3. QED
      BY <2>1, <2>2
  <1>11. /\ \A b : <<a, b>> \in moved => b \in 1 .. Len(s) /\ s[b].k = "str"
         /\ a + 1 .. Len(fr) = {}
    BY <1>2, <1>5, <1>10
  <1>12. ASSUME live, NEW b \in 1 .. Len(s) PROVE Right(s[b], <<a, b>> \in moved)
    <2>1. CASE b = Len(q)
      BY <1>7, <1>10, <1>12, <2>1 DEF Right
    <2>2. CASE b # Len(q)
      <3>1. s[b] = q[b] /\ b \in 1 .. Len(q)
        BY <1>10, <2>2
      <3>2. Right(q[b], <<a, b>> \in moved)
        BY <1>1, <1>2, <1>4, <1>8, <1>12, <2>2, <3>1 DEF SlotsOK
      <3>3. QED
        BY <3>1, <3>2
    <2>3. QED
      BY <2>1, <2>2
  <1>13. Solid(Slotted(fr, a, s), moved, "expr", live, jump, inLoop)
    <2> HIDE DEF q
    <2>1. Lit(fr, live, jump, a) => \A b \in 1 .. Len(s) :
              IF Declares(fr, "expr", a) /\ b = Len(s)
              THEN s[b].k = "enum" => s[b].st = "zero"
              ELSE Right(s[b], <<a, b>> \in moved)
      BY <1>6, <1>8, <1>12
    <2>2. /\ \A i \in a + 1 .. Len(fr) : fr[i].c \in {"then", "else", "lastarm"} => moved = moved
          /\ a # Len(fr) => ("expr" = "decl" <=> stmt = "decl")
          /\ Declares(fr, "expr", a) => s # << >> /\ <<a, Len(s)>> \notin moved
      BY <1>6
    <2> HIDE DEF a
    <2>3. QED
      BY <1>2, <1>4, <1>10, <1>11, <2>1, <2>2, Reslot
  <1>14. Temporaries(fr', temps, "expr", term, live)
    <2>1. Len(fr') = Len(fr) /\ \A h \in 1 .. Len(fr) : Alike(fr[h], fr'[h])
      BY <1>2, <1>10, SlottedIs
    <2>2. \A h \in 1 .. Len(fr) : fr'[h].c = fr[h].c
      BY <2>1 DEF Alike
    <2>3. Temporaries(fr, temps, stmt, term, live) /\ Len(fr) \in Nat
      BY <1>2 DEF Good
    <2>4. PICK g : g = fr'
      OBVIOUS
    <2>5. QED
      BY <2>1, <2>2, <2>3, <2>4, TemporariesKept
  <1>15. Good'
    BY <1>1, <1>10, <1>13, <1>14, Parts DEF Good, Stages
  <1>16. QED
    BY <1>1, <1>15 DEF Inv

\* An expression leaves a temporary of this function.
LEMMA StepTrackTemp ==
    ASSUME Good, faults = {}, outside = FALSE, NEW k \in TempKinds, TrackTemp(k)
    PROVE  Inv'
  <1> DEFINE x == [k |-> k, on |-> live, fn |-> Base]
  <1>1. /\ stmt \in {"none", "expr", "decl"} /\ ~term /\ temps' = Append(temps, x)
        /\ stmt' = (IF stmt = "none" THEN "expr" ELSE stmt) /\ fr' = fr /\ moved' = moved
        /\ term' = term /\ live' = live /\ jump' = jump /\ inLoop' = inLoop
        /\ faults' = faults /\ outside' = outside
    BY DEF TrackTemp
  <1>2. Base \in Nat /\ IsBase(fr, Len(fr), Base)
    BY Owned
  <1>3. x \in TempRec /\ x.on = live /\ IsBase(fr, Len(fr), x.fn)
    BY <1>2, Parts DEF TempRec
  <1> HIDE DEF x
  <1>4. stmt' # "none" /\ stmt' \in Stages /\ (stmt' = "decl" <=> stmt = "decl")
    BY <1>1, Parts DEF Stages
  <1>5. Temporaries(fr, Append(temps, x), stmt', term, live)
    <2>1. temps \in Seq(TempRec) /\ \A i \in 1 .. Len(temps) : temps[i].on = live /\ IsBase(fr, Len(fr), temps[i].fn)
      BY DEF Good, Temporaries
    <2>2. PICK t \in Seq(TempRec) : t = Append(temps, x)
      <3>1. ASSUME NEW S, NEW u \in Seq(S), NEW y \in S PROVE Append(u, y) \in Seq(S)
        OBVIOUS
      <3>2. QED
        BY <1>3, <2>1, <3>1
    <2>3. \A i \in 1 .. Len(t) : t[i] = x \/ \E j \in 1 .. Len(temps) : t[i] = temps[j]
      BY <1>3, <2>1, <2>2
    <2>4. \A i \in 1 .. Len(t) : t[i].on = live /\ IsBase(fr, Len(fr), t[i].fn)
      BY <1>3, <2>1, <2>3
    <2>5. QED
      BY <1>1, <1>4, <2>2, <2>4 DEF Temporaries
  <1>6. Solid(fr, moved, stmt', live, jump, inLoop)
    BY <1>4, Parts, PathEnds
  <1>7. Good'
    BY <1>1, <1>4, <1>5, <1>6, Parts DEF Good
  <1>8. QED
    BY <1>1, <1>7 DEF Inv

\* The end of a statement.
LEMMA StepEndStatement ==
    ASSUME Good, faults = {}, outside = FALSE, EndStatement
    PROVE  Inv'
  <1>1. /\ stmt \in {"expr", "done"} /\ temps' = << >> /\ stmt' = "none" /\ fr' = fr /\ moved' = moved
        /\ term' = term /\ live' = live /\ jump' = jump /\ inLoop' = inLoop
        /\ faults' = faults \cup FlushFaults(TempKinds) /\ outside' = outside
    BY DEF EndStatement
  <1>2. Solid(fr, moved, stmt', live, jump, inLoop)
    <2>1. stmt' = "decl" <=> stmt = "decl"
      BY <1>1
    <2>2. QED
      BY <2>1, Parts, PathEnds
  <1>3. Temporaries(fr', temps', stmt', term', live')
    BY <1>1, NoTemporaries
  <1>4. Good'
    BY <1>1, <1>2, <1>3, Parts DEF Good, Stages
  <1>5. QED
    BY <1>1, <1>4, NoFlushFault DEF Inv

\* Outside branches and loops a function comes back to where the path is, only.
LEMMA StraightAbove ==
    ASSUME Good, ~ inLoop, NEW i \in Base .. Len(fr),
           \A h \in i + 1 .. Len(fr) : fr[h].c \notin Branches
    PROVE  /\ \A h \in i + 1 .. Len(fr) : fr[h].c = "block"
           /\ Lit(fr, live, jump, i) => live
  <1>1. PICK n \in Nat : n = Len(fr)
    BY Owned
  <1>2. Base \in 1 .. n /\ i \in 1 .. n /\ \A h \in i + 1 .. n : h \in Base + 1 .. n /\ h \in 1 .. n
    BY <1>1, Owned
  <1>3. \A h \in 1 .. n : fr[h] \in FrameRec /\ FrameOK(fr, moved, inLoop, h)
    BY <1>1, Owned, Parts
  <1>4. \A h \in 1 .. n : fr[h].c \notin Loops
    BY <1>3 DEF FrameOK
  <1>5. \A h \in i + 1 .. n : fr[h].c = "block"
    <2> SUFFICES ASSUME NEW h \in i + 1 .. n PROVE fr[h].c = "block"
      OBVIOUS
    <2>1. fr[h].c \in Functions \cup Branches \cup Loops \cup {"block"}
      BY <1>2, <1>3 DEF FrameRec
    <2>2. fr[h].c \notin Functions /\ fr[h].c \notin Branches /\ fr[h].c \notin Loops
      BY <1>1, <1>2, <1>4, Owned
    <2>3. QED
      BY <2>1, <2>2
  <1>6. jump.to = 0
    BY <1>1, <1>4, Parts
  <1>7. \A h \in 1 .. n : fr[h].jump.to = 0
    <2> SUFFICES ASSUME NEW h \in 1 .. n PROVE fr[h].jump.to = 0
      OBVIOUS
    <2>1. Skeleton(fr, moved, jump, inLoop)
      BY Parts DEF Solid
    <2>2. fr[h].jump.to \in Nat /\ fr[h].jump.to < h
      BY <1>1, <2>1, JumpsBelow
    <2>3. fr[h].jump.to # 0 => fr[fr[h].jump.to].c \in Loops
      BY <1>3 DEF FrameOK
    <2>4. QED
      BY <1>4, <2>2, <2>3
  <1>8. \A h \in i + 1 .. n : ~ Awaited(fr, jump, h)
    <2> SUFFICES ASSUME NEW h \in i + 1 .. n PROVE ~ Awaited(fr, jump, h)
      OBVIOUS
    <2>1. h # 0 /\ FrameOK(fr, moved, inLoop, h)
      BY <1>2, <1>3
    <2>2. ~ fr[h].alt /\ ~ fr[h].live
      BY <1>5, <2>1 DEF FrameOK, Nested
    <2>3. QED
      BY <1>1, <1>6, <1>7, <2>1, <2>2 DEF Awaited
  <1>9. QED
    BY <1>1, <1>5, <1>8 DEF Lit

\* A variable is given away.
LEMMA StepMoveVariable ==
    ASSUME Good, faults = {}, outside = FALSE, NEW r \in Slots(Base), MoveVariable(r)
    PROVE  Inv'
  <1>1. PICK i, b : r = <<i, b>> /\ i \in Base .. Len(fr) /\ b \in 1 .. MaxSlots /\ b <= Len(fr[i].slots)
    BY DEF Slots
  <1> DEFINE q == fr[i].slots
  <1>2. /\ stmt \in {"none", "expr", "decl"} /\ q[b].k = "str" /\ ~ inLoop
        /\ ~ (stmt = "decl" /\ r = <<Len(fr), Len(fr[Len(fr)].slots)>>)
        /\ moved' = moved \cup {r}
        /\ fr' = (IF live THEN [fr EXCEPT ![i].slots[b].st = "gone"] ELSE fr)
        /\ stmt' = (IF stmt = "none" THEN "expr" ELSE stmt)
        /\ outside' = (\E h \in i + 1 .. Len(fr) : fr[h].c \in Branches)
        /\ temps' = temps /\ term' = term /\ live' = live /\ jump' = jump
        /\ inLoop' = inLoop /\ faults' = faults
    BY <1>1 DEF MoveVariable, SlotAt, Top
  <1>3. PICK n \in Nat : n = Len(fr) /\ n >= 2 /\ fr \in Seq(FrameRec) /\ Base \in 1 .. n
    BY Owned
  <1>4. i \in 1 .. n /\ fr[i] \in FrameRec
    BY <1>1, <1>3
  <1>5. q \in Seq(SlotRec)
    BY <1>4 DEF FrameRec
  <1>6. b \in 1 .. Len(q) /\ r \in Nat \X Nat
    BY <1>1, <1>4, <1>5, FlowAssumption
  <1>7. SUFFICES ASSUME \A h \in i + 1 .. Len(fr) : fr[h].c \notin Branches PROVE Good'
    BY <1>2 DEF Inv
  <1>8. (\A h \in i + 1 .. Len(fr) : fr[h].c = "block") /\ (Lit(fr, live, jump, i) => live)
    BY <1>1, <1>2, <1>7, StraightAbove
  <1>9. /\ Solid(fr, moved, stmt, live, jump, inLoop) /\ Marks(fr, moved)
        /\ SlotsOK(fr, moved, stmt, live, jump) /\ moved \in SUBSET (Nat \X Nat)
    BY Parts DEF Solid
  <1>10. stmt' # "none" /\ stmt' \in Stages /\ (stmt' = "decl" <=> stmt = "decl")
    BY <1>2 DEF Stages
  <1>11. Declares(fr, stmt, i) => b # Len(q)
    <2>1. CASE i = n
      BY <1>1, <1>2, <1>3, <2>1 DEF Declares
    <2>2. CASE i # n
      <3>1. i + 1 \in Base + 1 .. Len(fr)
        BY <1>1, <1>3, <1>4, <2>2
      <3>2. fr[i + 1].stmt = "none"
        BY <3>1, Owned
      <3>3. QED
        BY <1>3, <2>2, <3>2 DEF Declares
    <2>3. QED
      BY <2>1, <2>2
  <1>12. Declares(fr, stmt', i) <=> Declares(fr, stmt, i)
    BY <1>10 DEF Declares
  <1>13. PICK s \in Seq(SlotRec) :
            /\ fr' = Slotted(fr, i, s) /\ Len(s) = Len(q)
            /\ \A d \in 1 .. Len(s) : s[d].k = q[d].k
            /\ \A d \in 1 .. Len(s) : d # b => s[d] = q[d]
            /\ live => s[b].st = "gone"
    <2>1. CASE live
      <3>1. i \in 1 .. Len(fr) /\ b \in 1 .. Len(fr[i].slots) /\ fr \in Seq(FrameRec)
        BY <1>3, <1>4, <1>6
      <3>2. PICK s \in Seq(SlotRec) : Stores(fr, i, b, "gone", s)
        BY <3>1, StoredIs
      <3>3. fr' = Slotted(fr, i, s)
        BY <1>2, <2>1, <3>2 DEF Stores
      <3>4. QED
        BY <2>1, <3>2, <3>3 DEF Stores
    <2>2. CASE ~ live
      <3>1. fr = Slotted(fr, i, q)
        BY <1>3, <1>4 DEF Slotted, FrameRec
      <3>2. QED
        BY <1>2, <1>5, <2>2, <3>1
    <2>3. QED
      BY <2>1, <2>2
  <1>14. PICK m2 : m2 = moved \cup {r}
    OBVIOUS
  <1>15. m2 \in SUBSET (Nat \X Nat) /\ \A h, d : h # i => (<<h, d>> \in m2 <=> <<h, d>> \in moved)
    BY <1>1, <1>6, <1>9, <1>14
  <1>16. \A d : <<i, d>> \in m2 => d \in 1 .. Len(s) /\ s[d].k = "str"
    <2> SUFFICES ASSUME NEW d, <<i, d>> \in m2 PROVE d \in 1 .. Len(q) /\ q[d].k = "str"
      BY <1>13
    <2>1. CASE <<i, d>> \in moved
      BY <1>9, <2>1 DEF Marks
    <2>2. CASE <<i, d>> = r
      BY <1>1, <1>2, <1>6, <2>2
    <2>3. QED
      BY <1>14, <2>1, <2>2
  <1>17. Declares(fr, stmt', i) => s # << >> /\ <<i, Len(s)>> \notin m2
    <2> SUFFICES ASSUME Declares(fr, stmt', i) PROVE s # << >> /\ <<i, Len(s)>> \notin m2
      OBVIOUS
    <2>1. q # << >> /\ <<i, Len(q)>> \notin moved /\ b # Len(q)
      BY <1>3, <1>4, <1>9, <1>11, <1>12 DEF SlotsOK
    <2>2. QED
      BY <1>1, <1>5, <1>6, <1>13, <1>14, <2>1
  <1>18. ASSUME Lit(fr, live, jump, i), NEW d \in 1 .. Len(s)
         PROVE  IF Declares(fr, stmt', i) /\ d = Len(s)
                THEN s[d].k = "enum" => s[d].st = "zero"
                ELSE Right(s[d], <<i, d>> \in m2)
    <2>1. live
      BY <1>8, <1>18
    <2>2. CASE d = b
      <3>1. <<i, d>> \in m2 /\ s[d].k = "str" /\ s[d].st = "gone"
        BY <1>1, <1>2, <1>13, <1>14, <2>1, <2>2
      <3>2. QED
        BY <3>1 DEF Right
    <2>3. CASE d # b
      <3>1. s[d] = q[d] /\ d \in 1 .. Len(q) /\ (<<i, d>> \in m2 <=> <<i, d>> \in moved)
        BY <1>1, <1>13, <1>14, <2>3
      <3>2. IF Declares(fr, stmt, i) /\ d = Len(q)
            THEN q[d].k = "enum" => q[d].st = "zero"
            ELSE Right(q[d], <<i, d>> \in moved)
        BY <1>3, <1>4, <1>9, <1>18, <3>1 DEF SlotsOK
      <3>3. QED
        BY <1>12, <1>13, <3>1, <3>2 DEF Right
    <2>4. QED
      BY <2>2, <2>3
  <1>19. Solid(Slotted(fr, i, s), m2, stmt', live, jump, inLoop)
    <2> HIDE DEF q
    <2>1. \A h \in i + 1 .. Len(fr) : fr[h].c \in {"then", "else", "lastarm"} => m2 = moved
      BY <1>8
    <2>2. i \in 1 .. Len(fr) /\ (i # Len(fr) => (stmt' = "decl" <=> stmt = "decl"))
      BY <1>3, <1>4, <1>10
    <2>3. QED
      BY <1>9, <1>13, <1>15, <1>16, <1>17, <1>18, <2>1, <2>2, Reslot
  <1>20. Temporaries(fr', temps, stmt', term, live)
    <2>1. Len(fr') = Len(fr) /\ \A h \in 1 .. Len(fr) : Alike(fr[h], fr'[h])
      BY <1>3, <1>4, <1>13, SlottedIs
    <2>2. \A h \in 1 .. Len(fr) : fr'[h].c = fr[h].c
      BY <2>1 DEF Alike
    <2>3. Temporaries(fr, temps, stmt, term, live) /\ Len(fr) \in Nat
      BY <1>3 DEF Good
    <2>4. PICK g : g = fr'
      OBVIOUS
    <2>5. QED
      BY <1>10, <2>1, <2>2, <2>3, <2>4, TemporariesKept
  <1>21. QED
    BY <1>2, <1>10, <1>13, <1>14, <1>19, <1>20, Parts DEF Good

\* The end of a loop.
LEMMA StepEndLoop ==
    ASSUME Good, faults = {}, outside = FALSE, NEW again \in BOOLEAN, EndLoop(again)
    PROVE  Inv'
  <1> DEFINE n == Len(fr)
             at == jump.to = n
             back == live \/ (at /\ jump.how = "continue")
  <1>1. n \in Nat /\ n >= 2 /\ fr[n] \in FrameRec
    BY Owned
  <1>2. fr[n].c \in Loops /\ stmt = "none"
    BY DEF EndLoop, Top
  <1>3. n > 2 /\ FrameOK(fr, moved, inLoop, n)
    BY <1>1, <1>2, Parts DEF Loops
  <1>4. fr[n].temps = << >> /\ fr[n].stmt = "none" /\ fr[n].alt \in BOOLEAN
    BY <1>1, <1>2, <1>3 DEF FrameOK, Loops, Nested, FrameRec
  <1>5. /\ fr' = SubSeq(fr, 1, n - 1) /\ temps' = temps
        /\ moved' = {r \in moved : r[1] < n}
        /\ stmt' = "done" /\ term' = FALSE
        /\ live' = (fr[n].alt \/ (back /\ fr[n].c # "ever") \/ (at /\ jump.how = "break"))
        /\ jump' = (IF at THEN NoJump ELSE jump)
        /\ inLoop' = (\E i \in 1 .. n - 1 : fr[i].c \in Loops)
        /\ faults' = faults \cup BlockFaults /\ outside' = outside
    <2>1. faults' = faults \cup BlockFaults
      BY <1>4 DEF EndLoop, Top
    <2>2. QED
      BY <2>1 DEF EndLoop, Top, Pop, Prune
  <1>6. live' \in BOOLEAN /\ inLoop' \in BOOLEAN /\ (live' => live \/ fr[n].alt \/ at)
    BY <1>4, <1>5, Parts
  <1>7. jump' \in JumpRec /\ jump'.to < n /\ (jump'.to # 0 => jump'.to = jump.to)
    BY <1>1, <1>5, Parts DEF NoJump, JumpRec
  <1>8. fr[n].c \notin Functions
    BY <1>2 DEF Loops, Functions
  <1>9. Closes(fr, live, jump, "done", live', jump', inLoop')
    BY <1>3, <1>4, <1>5, <1>6, <1>7, <1>8 DEF Closes
  <1>10. Solid(fr', moved', "done", live', jump', inLoop')
    BY <1>5, <1>9, Parts, PopKeeps
  <1>11. Temporaries(fr', temps', stmt', term', live')
    BY <1>2, <1>5, Parts, NoTemporaries
  <1>12. Good'
    BY <1>5, <1>6, <1>10, <1>11, Parts DEF Good, Stages
  <1>13. QED
    BY <1>2, <1>5, <1>12, NoBlockFault DEF Inv

\* break and continue where nothing is left to release.
LEMMA StepBreak ==
    ASSUME Good, faults = {}, outside = FALSE, NEW how \in {"break", "continue"},
           GenBreakStatement(how)
    PROVE  Inv'
  <1>1. /\ stmt = "none" /\ live' = FALSE /\ term' = TRUE /\ stmt' = "done"
        /\ fr' = fr /\ temps' = temps /\ moved' = moved /\ inLoop' = inLoop
    BY DEF GenBreakStatement
  <1>2. PICK i \in Base + 1 .. Len(fr) :
          /\ fr[i].c \in Loops
          /\ faults' = IF live /\ \E r \in Slots(i) : SlotAt(r).st = "held"
                       THEN faults \cup {"leak"} ELSE faults
          /\ jump' = IF live THEN [to |-> i, how |-> how] ELSE jump
          /\ outside' = (\E r \in Slots(i) : ~Skips(r))
    BY DEF GenBreakStatement
  <1>3. PICK n \in Nat : n = Len(fr) /\ n >= 2 /\ fr \in Seq(FrameRec) /\ Base \in 1 .. n
    BY Owned
  <1>4. i \in 1 .. n /\ i > Base /\ i \in Base .. Len(fr)
    BY <1>2, <1>3
  <1>5. outside' \in BOOLEAN
    BY <1>2
  <1>6. ASSUME ~ outside', live, NEW r \in Slots(i) PROVE SlotAt(r).st # "held"
    <2>1. ReleaseFault(r) = {}
      <3>1. ScopeFaults(i) = {}
        BY <1>1, <1>4, NoScopeFault
      <3>2. QED
        BY <1>6, <3>1 DEF ScopeFaults
    <2>2. Skips(r)
      BY <1>2, <1>6
    <2>3. QED
      BY <2>1, <2>2 DEF ReleaseFault
  <1>7. ASSUME ~ outside' PROVE faults' = {}
    BY <1>2, <1>6, <1>7
  <1>8. jump' \in JumpRec /\ jump'.to <= n /\ (jump'.to # 0 => fr[jump'.to].c \in Loops)
    BY <1>2, <1>3, <1>4, Parts DEF JumpRec
  <1>9. jump'.to = jump.to \/ (live /\ jump'.to = i)
    BY <1>2
  <1>10. ASSUME NEW j \in 1 .. n, Lit(fr, live', jump', j) PROVE Lit(fr, live, jump, j)
    <2>1. PICK h \in j + 1 .. n : Together(fr, j, h - 1) /\ Awaited(fr, jump', h)
      BY <1>1, <1>3, <1>10 DEF Lit
    <2>2. CASE Awaited(fr, jump, h)
      BY <1>3, <2>1, <2>2 DEF Lit
    <2>3. CASE ~ Awaited(fr, jump, h)
      <3>1. live /\ h = i
        BY <1>9, <2>1, <2>3 DEF Awaited
      <3>2. \A d \in i .. n : fr[d].c \notin Functions
        BY <1>3, <1>4, Owned
      <3>3. Together(fr, j, n)
        <4> SUFFICES ASSUME NEW d \in j + 1 .. n PROVE fr[d].c \notin Functions
          BY DEF Together
        <4>1. d \in j + 1 .. h - 1 \/ d \in i .. n
          BY <1>3, <1>4, <2>1, <3>1
        <4>2. QED
          BY <2>1, <3>2, <4>1 DEF Together
      <3>4. QED
        BY <1>3, <3>1, <3>3 DEF Lit
    <2>4. QED
      BY <2>2, <2>3
  <1>11. Solid(fr, moved, "done", live', jump', inLoop)
    <2>1. "done" = "decl" <=> stmt = "decl"
      BY <1>1
    <2>2. QED
      BY <1>3, <1>8, <1>10, <2>1, Parts, StaysSolid
  <1>12. Temporaries(fr', temps', stmt', term', live')
    BY <1>1, Parts, NoTemporaries
  <1>13. Good'
    BY <1>1, <1>11, <1>12, Parts DEF Good, Stages
  <1>14. QED
    BY <1>5, <1>7, <1>13 DEF Inv

\* return.
LEMMA StepReturn ==
    ASSUME Good, faults = {}, outside = FALSE, GenReturnStatement
    PROVE  Inv'
  <1>1. /\ stmt \in {"none", "expr"}
        /\ faults' = faults \cup FlushFaults(TempKinds \ {"ctx"}) \cup ScopeFaults(Base)
        /\ temps' = Without(temps, TempKinds \ {"ctx"}) /\ outside' = Pending({"ctx"})
        /\ live' = FALSE /\ term' = TRUE /\ stmt' = "done"
        /\ fr' = fr /\ moved' = moved /\ jump' = jump /\ inLoop' = inLoop
    BY DEF GenReturnStatement
  <1>2. outside' \in BOOLEAN
    BY <1>1 DEF Pending
  <1>3. faults' = {}
    <2>1. Base \in Base .. Len(fr)
      BY Owned
    <2>2. ScopeFaults(Base) = {}
      BY <1>1, <2>1, NoScopeFault
    <2>3. QED
      BY <1>1, <2>2, NoFlushFault
  <1>4. ASSUME ~ outside' PROVE Good'
    <2>1. temps' = << >>
      <3>1. TempKinds \subseteq (TempKinds \ {"ctx"}) \cup {"ctx"}
        OBVIOUS
      <3>2. QED
        BY <1>1, <1>4, <3>1, Parts, NothingPending
    <2>2. Temporaries(fr', temps', stmt', term', live')
      BY <2>1, NoTemporaries
    <2>3. Solid(fr, moved, "done", live', jump, inLoop)
      <3>1. ("done" = "decl" <=> stmt = "decl") /\ (live' => live)
        BY <1>1
      <3>2. QED
        BY <3>1, Parts, PathEnds
    <2>4. QED
      BY <1>1, <2>2, <2>3, Parts DEF Good, Stages
  <1>5. QED
    BY <1>2, <1>3, <1>4 DEF Inv

\* The error path of `?`.
LEMMA StepTry ==
    ASSUME Good, faults = {}, outside = FALSE, NEW fails \in BOOLEAN, GenTryExpression(fails)
    PROVE  Inv'
  <1>1. /\ stmt \in {"none", "expr", "decl"} /\ ~term
        /\ faults' = faults \cup
             (IF live /\ fails THEN FlushFaults({"str", "arr"}) \cup ScopeFaults(Base)
              ELSE IF \E i \in DOMAIN temps : temps[i].k \in {"str", "arr"} /\ temps[i].on
              THEN {"leak"} ELSE {})
        /\ temps' = Without(temps, {"str", "arr"}) /\ live' = (live /\ ~fails)
        /\ stmt' = (IF stmt = "none" THEN "expr" ELSE stmt)
        /\ outside' = \/ temps # << >>
                      \/ stmt = "decl" /\ fr[Len(fr)].slots[Len(fr[Len(fr)].slots)].k # "enum"
        /\ fr' = fr /\ moved' = moved /\ term' = term /\ jump' = jump /\ inLoop' = inLoop
    BY DEF GenTryExpression, Top
  <1>2. outside' \in BOOLEAN
    BY <1>1
  <1>3. SUFFICES ASSUME ~ outside' PROVE faults' = {} /\ Good'
    BY <1>2 DEF Inv
  <1>4. /\ temps = << >>
        /\ stmt # "decl" \/ fr[Len(fr)].slots[Len(fr[Len(fr)].slots)].k = "enum"
    BY <1>1, <1>3
  <1>5. faults' = {}
    <2>1. Base \in Base .. Len(fr)
      BY Owned
    <2>2. ScopeFaults(Base) = {}
      BY <1>4, <2>1, NoScopeFault
    <2>3. DOMAIN temps = {}
      BY <1>4
    <2>4. QED
      BY <1>1, <2>2, <2>3, NoFlushFault
  <1>6. temps' = << >>
    <2>1. TempKinds \subseteq {"str", "arr"} \cup TempKinds /\ ~ Pending(TempKinds)
      BY <1>4 DEF Pending
    <2>2. QED
      BY <1>1, <2>1, Parts, NothingPending
  <1>7. Temporaries(fr', temps', stmt', term', live')
    BY <1>6, NoTemporaries
  <1>8. stmt' \in Stages /\ (stmt' = "decl" <=> stmt = "decl") /\ live' \in BOOLEAN /\ (live' => live)
    BY <1>1, Parts DEF Stages
  <1>9. Solid(fr, moved, stmt', live', jump, inLoop)
    BY <1>8, Parts, PathEnds
  <1>10. QED
    BY <1>1, <1>5, <1>7, <1>8, <1>9, Parts DEF Good

\* A nested function is opened: the temporaries and the path wait in its frame.
LEMMA StepOpenNested ==
    ASSUME Good, faults = {}, outside = FALSE, NEW c \in Nested, OpenNested(c)
    PROVE  Inv'
  <1> DEFINE x == Frame(c, FALSE)
  <1>1. FALSE \in BOOLEAN /\ c \in Nested \cup Branches \cup Loops \cup {"block"}
    OBVIOUS
  <1>2. /\ x \in FrameRec /\ x.c = c /\ x.slots = << >> /\ x.alt = FALSE /\ x.temps = temps
        /\ x.live = live /\ x.jump = jump /\ x.stmt = stmt
    BY <1>1, FrameIs
  <1>3. /\ stmt \in {"none", "expr", "decl"} /\ ~term /\ fr' = Append(fr, x)
        /\ temps' = Without(temps, {"str", "ctx"}) /\ moved' = {} /\ live' = TRUE /\ jump' = NoJump
        /\ stmt' = "none" /\ term' = term /\ inLoop' = inLoop /\ faults' = faults
        /\ outside' = (Pending({"struct", "arr"}) \/ \E r \in moved : Skips(r))
    BY DEF OpenNested
  <1>4. outside' \in BOOLEAN
    BY <1>3 DEF Pending
  <1> HIDE DEF x
  <1>5. SUFFICES ASSUME ~ outside' PROVE Good'
    BY <1>3, <1>4 DEF Inv
  <1>6. moved = {}
    <2>1. Marks(fr, moved)
      BY Parts DEF Solid
    <2>2. \A r \in moved : Skips(r)
      BY <2>1 DEF Marks, Skips, SlotAt
    <2>3. QED
      BY <1>3, <1>5, <2>2
  <1>7. temps' = << >>
    <2>1. TempKinds \subseteq {"str", "ctx"} \cup {"struct", "arr"} /\ ~ Pending({"struct", "arr"})
      BY <1>3, <1>5 DEF TempKinds
    <2>2. QED
      BY <1>3, <2>1, Parts, NothingPending
  <1>8. Opens(fr, moved, x, stmt, live, jump, live', jump', inLoop)
    <2>1. \A j \in 1 .. Len(temps) : temps[j].on = live /\ IsBase(fr, Len(fr), temps[j].fn)
      BY DEF Good, Temporaries
    <2>2. QED
      BY <1>2, <1>3, <2>1 DEF Opens, Nested, Loops
  <1>9. Solid(fr', moved, "none", live', jump', inLoop)
    <2>1. Solid(Append(fr, x), moved, "none", live', jump', inLoop)
      BY <1>8, Parts, Push
    <2>2. QED
      BY <1>3, <2>1
  <1>10. Temporaries(fr', temps', stmt', term', live')
    BY <1>7, NoTemporaries
  <1>11. QED
    BY <1>3, <1>6, <1>9, <1>10, Parts DEF Good, Stages

\* Elements of a list put together from two.
LEMMA Joined ==
    ASSUME NEW S, NEW s \in Seq(S), NEW t \in Seq(S)
    PROVE  /\ s \o t \in Seq(S)
           /\ \A i \in 1 .. Len(s \o t) : \/ \E j \in 1 .. Len(s) : (s \o t)[i] = s[j]
                                          \/ \E j \in 1 .. Len(t) : (s \o t)[i] = t[j]
  <1>1. s \o t \in Seq(S) /\ Len(s \o t) = Len(s) + Len(t) /\ Len(s) \in Nat /\ Len(t) \in Nat
    OBVIOUS
  <1>2. ASSUME NEW i \in 1 .. Len(s \o t)
        PROVE  \/ \E j \in 1 .. Len(s) : (s \o t)[i] = s[j]
               \/ \E j \in 1 .. Len(t) : (s \o t)[i] = t[j]
    <2>1. CASE i <= Len(s)
      <3>1. i \in 1 .. Len(s) /\ (s \o t)[i] = s[i]
        BY <1>1, <2>1
      <3>2. QED
        BY <3>1
    <2>2. CASE i > Len(s)
      <3>1. i - Len(s) \in 1 .. Len(t) /\ (s \o t)[i] = t[i - Len(s)]
        BY <1>1, <2>2
      <3>2. QED
        BY <3>1
    <2>3. QED
      BY <1>1, <2>1, <2>2
  <1>3. QED
    BY <1>1, <1>2

\* Back in the outer function.
LEMMA StepCloseNested ==
    ASSUME Good, faults = {}, outside = FALSE, CloseNested
    PROVE  Inv'
  <1> DEFINE n == Len(fr)
             c == fr[n].c
             x == [k |-> "ctx", on |-> fr[n].live, fn |-> BaseOf(n - 1)]
             s == Without(fr[n].temps, {"struct", "arr"})
             t == Without(temps, {"str", "ctx"})
             u == IF c = "lambda" THEN <<x>> ELSE << >>
             g == SubSeq(fr, 1, n - 1)
  <1>1. /\ c \in Nested /\ stmt = "none" /\ fr' = g /\ temps' = s \o t \o u
        /\ moved' = {r \in moved : r[1] < n} /\ live' = fr[n].live /\ jump' = fr[n].jump
        /\ term' = FALSE /\ stmt' = (IF fr[n].stmt = "none" THEN "expr" ELSE fr[n].stmt)
        /\ inLoop' = inLoop /\ faults' = faults \cup BlockFaults /\ outside' = outside
    BY DEF CloseNested, Top, Pop, Prune, Nested
  <1>2. n \in Nat /\ n >= 2 /\ fr \in Seq(FrameRec) /\ fr[n] \in FrameRec
    BY Owned
  <1>3. n > 2 /\ FrameOK(fr, moved, inLoop, n)
    BY <1>1, <1>2, Parts DEF Nested
  <1>4. /\ fr[n].temps \in Seq(TempRec) /\ fr[n].live \in BOOLEAN /\ fr[n].jump \in JumpRec
        /\ fr[n].stmt \in Stages
    BY <1>2 DEF FrameRec
  <1>5. /\ fr[n].jump.to < n
        /\ \A j \in 1 .. Len(fr[n].temps) :
              fr[n].temps[j].on = fr[n].live /\ IsBase(fr, n - 1, fr[n].temps[j].fn)
    BY <1>1, <1>3 DEF FrameOK
  <1>6. stmt' \in Stages /\ stmt' # "none" /\ (stmt' = "decl" <=> fr[n].stmt = "decl")
    BY <1>1, <1>4 DEF Stages
  <1>7. \A i \in 1 .. n - 1 : fr[i].c \in Loops => inLoop
    BY <1>2, Parts DEF FrameOK
  <1>8. Closes(fr, live, jump, stmt', live', jump', inLoop)
    BY <1>1, <1>3, <1>4, <1>5, <1>6, <1>7 DEF Closes
  <1>9. Solid(fr', moved', stmt', live', jump', inLoop)
    BY <1>1, <1>8, Parts, PopKeeps
  <1>10. Len(g) = n - 1 /\ \A h \in 1 .. n - 1 : g[h] = fr[h]
    BY <1>2
  <1>11. ASSUME NEW b, IsBase(fr, n - 1, b) PROVE IsBase(g, Len(g), b)
    <2>1. b \in 1 .. n - 1 /\ \A h \in b + 1 .. n - 1 : h \in 1 .. n - 1
      BY <1>2, <1>11 DEF IsBase
    <2> HIDE DEF g
    <2>2. QED
      BY <1>10, <1>11, <2>1 DEF IsBase
  <1>12. IsBase(fr, n - 1, BaseOf(n - 1)) /\ BaseOf(n - 1) \in Nat
    <2>1. n - 1 \in 1 .. Len(fr) /\ fr[1].c = "fn"
      BY <1>2, <1>3, Parts
    <2>2. IsBase(fr, n - 1, BaseOf(n - 1))
      BY <1>2, <2>1, BaseIs
    <2>3. QED
      BY <2>2 DEF IsBase
  <1>13. x \in TempRec /\ x.on = fr[n].live /\ IsBase(fr, n - 1, x.fn)
    BY <1>4, <1>12 DEF TempRec, TempKinds
  <1> HIDE DEF x
  <1>14. PICK e \in TempRec : e = x
    BY <1>13
  <1>15. u \in Seq(TempRec) /\ \A i \in 1 .. Len(u) : u[i] = e
    BY <1>14
  <1>16. s \in Seq(TempRec) /\ \A i \in 1 .. Len(s) : \E j \in 1 .. Len(fr[n].temps) : s[i] = fr[n].temps[j]
    BY <1>4, WithoutIs
  <1>17. t \in Seq(TempRec) /\ \A i \in 1 .. Len(t) : FALSE
    <2>1. temps \in Seq(TempRec)
      BY Parts
    <2>2. t \in Seq(TempRec) /\ \A i \in 1 .. Len(t) : \E j \in 1 .. Len(temps) : t[i] = temps[j]
      BY <2>1, WithoutIs
    <2>3. 1 .. Len(temps) = {}
      BY <1>1, Parts
    <2>4. QED
      BY <2>2, <2>3
  <1> HIDE DEF s, t, u
  <1>18. PICK w : w = s \o t
    OBVIOUS
  <1>19. w \in Seq(TempRec) /\ \A i \in 1 .. Len(w) : \E j \in 1 .. Len(s) : w[i] = s[j]
    <2>1. /\ w \in Seq(TempRec)
          /\ \A i \in 1 .. Len(w) : \/ \E j \in 1 .. Len(s) : w[i] = s[j]
                                    \/ \E j \in 1 .. Len(t) : w[i] = t[j]
      <3>1. s \in Seq(TempRec) /\ t \in Seq(TempRec)
        BY <1>16, <1>17
      <3>2. PICK S : S = TempRec
        OBVIOUS
      <3>3. PICK s1, t1 : s1 = s /\ t1 = t
        OBVIOUS
      <3>4. s1 \in Seq(S) /\ t1 \in Seq(S) /\ w = s1 \o t1
        BY <1>18, <3>1, <3>2, <3>3
      <3>5. /\ s1 \o t1 \in Seq(S)
            /\ \A i \in 1 .. Len(s1 \o t1) : \/ \E j \in 1 .. Len(s1) : (s1 \o t1)[i] = s1[j]
                                             \/ \E j \in 1 .. Len(t1) : (s1 \o t1)[i] = t1[j]
        BY <3>4, Joined
      <3>6. QED
        BY <3>2, <3>3, <3>4, <3>5
    <2>2. QED
      BY <1>17, <2>1
  <1>20. PICK z : z = w \o u
    OBVIOUS
  <1>21. /\ z \in Seq(TempRec)
         /\ \A i \in 1 .. Len(z) : \/ \E j \in 1 .. Len(w) : z[i] = w[j]
                                   \/ \E j \in 1 .. Len(u) : z[i] = u[j]
    BY <1>15, <1>19, <1>20, Joined
  <1>22. ASSUME NEW i \in 1 .. Len(z) PROVE z[i].on = fr[n].live /\ IsBase(fr, n - 1, z[i].fn)
    <2>1. CASE \E j \in 1 .. Len(w) : z[i] = w[j]
      <3>1. \E j \in 1 .. Len(fr[n].temps) : z[i] = fr[n].temps[j]
        BY <1>16, <1>19, <2>1
      <3>2. QED
        BY <1>5, <3>1
    <2>2. CASE \E j \in 1 .. Len(u) : z[i] = u[j]
      BY <1>13, <1>14, <1>15, <2>2
    <2>3. QED
      BY <1>21, <2>1, <2>2
  <1> HIDE DEF g, n
  <1>23. Temporaries(g, z, stmt', FALSE, fr[n].live)
    BY <1>6, <1>11, <1>21, <1>22 DEF Temporaries
  <1>24. Temporaries(fr', temps', stmt', term', live')
    BY <1>1, <1>18, <1>20, <1>23
  <1>25. Good'
    BY <1>1, <1>4, <1>6, <1>9, <1>24, Parts DEF Good
  <1>26. QED
    BY <1>1, <1>25, NoBlockFault DEF Inv

\* The frames of a new function, the path in them.
LEMMA FunctionStarts ==
    ASSUME NEW ownParam \in BOOLEAN, NEW il \in BOOLEAN, NEW f, f = FunctionFrames(ownParam)
    PROVE  Solid(f, {}, "none", TRUE, NoJump, il)
  <1> DEFINE q == IF ownParam THEN <<[k |-> "str", own |-> TRUE, st |-> "held"]>> ELSE << >>
             frame(c) == [c |-> c, slots |-> << >>, alt |-> FALSE, moved |-> {}, temps |-> << >>,
                          live |-> FALSE, jump |-> NoJump, stmt |-> "none"]
             z == frame("fn")
             x == [z EXCEPT !.slots = q]
             y == frame("block")
  <1>1. f = <<x, y>>
    BY Zenon DEF FunctionFrames
  <1>2. NoJump \in JumpRec /\ NoJump.to = 0
    BY DEF NoJump, JumpRec
  <1>3. q \in Seq(SlotRec) /\ \A b \in 1 .. Len(q) : q[b].st = "held" /\ q[b].k = "str"
    <2>1. [k |-> "str", own |-> TRUE, st |-> "held"] \in SlotRec
      BY DEF SlotRec, SlotKinds
    <2>2. PICK e \in SlotRec : e = [k |-> "str", own |-> TRUE, st |-> "held"]
      BY <2>1
    <2>3. e.st = "held" /\ e.k = "str" /\ q = (IF ownParam THEN <<e>> ELSE << >>)
      BY <2>2
    <2> HIDE DEF q
    <2>4. CASE ownParam
      <3>1. q = <<e>>
        BY <2>3, <2>4
      <3>2. q \in Seq(SlotRec) /\ \A b \in 1 .. Len(q) : q[b] = e
        BY <3>1
      <3>3. QED
        BY <2>3, <3>2
    <2>5. CASE ~ ownParam
      <3>1. q = << >>
        BY <2>3, <2>5
      <3>2. QED
        BY <3>1
    <2>6. QED
      BY <2>4, <2>5
  <1> HIDE DEF q
  <1>4. /\ z \in FrameRec /\ z.c = "fn" /\ ~ z.alt /\ ~ z.live /\ z.jump.to = 0 /\ z.stmt = "none"
        /\ y \in FrameRec /\ y.c = "block" /\ y.slots = << >> /\ ~ y.alt /\ ~ y.live
        /\ y.jump.to = 0 /\ y.stmt = "none"
    BY <1>2 DEF FrameRec, Functions, Stages
  <1> HIDE DEF z, y
  <1>5. /\ x \in FrameRec /\ x.c = "fn" /\ x.slots = q /\ ~ x.alt /\ ~ x.live
        /\ x.jump.to = 0 /\ x.stmt = "none"
    BY <1>3, <1>4 DEF FrameRec
  <1> HIDE DEF x
  <1>6. f \in Seq(FrameRec) /\ Len(f) = 2 /\ f[1] = x /\ f[2] = y /\ 1 .. Len(f) = {1, 2}
    BY <1>1, <1>4, <1>5
  <1>7. FrameOK(f, {}, il, 1) /\ FrameOK(f, {}, il, 2)
    BY <1>4, <1>5, <1>6 DEF FrameOK, Nested, Loops
  <1>8. Skeleton(f, {}, NoJump, il)
    BY <1>2, <1>4, <1>5, <1>6, <1>7 DEF Skeleton
  <1>9. Marks(f, {})
    BY DEF Marks
  <1>10. ~ Declares(f, "none", 1) /\ ~ Declares(f, "none", 2)
    BY <1>4, <1>6 DEF Declares
  <1>11. SlotsOK(f, {}, "none", TRUE, NoJump)
    <2> SUFFICES ASSUME NEW i \in {1, 2}, NEW b \in 1 .. Len(f[i].slots)
                 PROVE  Right(f[i].slots[b], <<i, b>> \in {})
      BY <1>6, <1>10 DEF SlotsOK
    <2>1. CASE i = 1
      BY <1>3, <1>5, <1>6, <2>1 DEF Right
    <2>2. CASE i = 2
      BY <1>4, <1>6, <2>2
    <2>3. QED
      BY <2>1, <2>2
  <1>12. QED
    BY <1>8, <1>9, <1>11 DEF Solid

\* The first function.
LEMMA InvInit == Init => Inv
  <1> SUFFICES ASSUME Init PROVE Inv
    OBVIOUS
  <1>1. PICK ownParam \in BOOLEAN : fr = FunctionFrames(ownParam)
    BY DEF Init
  <1>2. /\ temps = << >> /\ moved = {} /\ stmt = "none" /\ term = FALSE /\ live = TRUE
        /\ jump = NoJump /\ inLoop = FALSE /\ faults = {} /\ outside = FALSE
    BY DEF Init
  <1>3. Solid(fr, {}, "none", TRUE, NoJump, inLoop)
    BY <1>1, <1>2, FunctionStarts
  <1>4. Good
    BY <1>2, <1>3, NoTemporaries DEF Good, Stages
  <1>5. QED
    BY <1>2, <1>4 DEF Inv

\* The end of a function and the next one.
LEMMA StepFunction ==
    ASSUME Good, faults = {}, outside = FALSE, NEW ownParam \in BOOLEAN, GenFunction(ownParam)
    PROVE  Inv'
  <1>1. /\ Len(fr) = 2 /\ stmt = "none"
        /\ faults' = faults \cup BlockFaults
             \cup (IF live /\ \E r \in Slots(1) : r[1] = 1 /\ SlotAt(r).st = "held"
                   THEN {"leak"} ELSE {})
        /\ outside' = (~term /\ \E r \in Slots(1) : r[1] = 1 /\ ~Skips(r))
        /\ fr' = FunctionFrames(ownParam) /\ temps' = << >> /\ moved' = {} /\ term' = FALSE
        /\ live' = TRUE /\ jump' = NoJump /\ stmt' = stmt /\ inLoop' = inLoop
    BY DEF GenFunction
  <1>2. outside' \in BOOLEAN
    BY <1>1, Parts
  <1>3. SUFFICES ASSUME ~ outside' PROVE faults' = {} /\ Good'
    BY <1>2 DEF Inv
  <1>4. 1 \in Base .. Len(fr)
    <2>1. Base \in 1 .. Len(fr) /\ fr[Base].c \in Functions
      BY Owned DEF IsBase
    <2>2. Base # 2
      BY <2>1, Parts DEF Functions
    <2>3. QED
      BY <1>1, <2>1, <2>2
  <1>5. ASSUME live, NEW r \in Slots(1), r[1] = 1 PROVE SlotAt(r).st # "held"
    <2>1. ScopeFaults(1) = {}
      BY <1>1, <1>4, NoScopeFault
    <2>2. ReleaseFault(r) = {}
      BY <1>5, <2>1 DEF ScopeFaults
    <2>3. Skips(r)
      BY <1>1, <1>3, <1>5, Parts
    <2>4. QED
      BY <2>2, <2>3 DEF ReleaseFault
  <1>6. faults' = {}
    BY <1>1, <1>5, NoBlockFault
  <1>7. Solid(fr', {}, "none", TRUE, NoJump, inLoop)
    <2>1. PICK f : f = FunctionFrames(ownParam)
      OBVIOUS
    <2>2. Solid(f, {}, "none", TRUE, NoJump, inLoop)
      BY <2>1, Parts, FunctionStarts
    <2>3. QED
      BY <1>1, <2>1, <2>2
  <1>8. Temporaries(fr', temps', stmt', term', live')
    BY <1>1, NoTemporaries
  <1>9. QED
    BY <1>1, <1>6, <1>7, <1>8, Parts DEF Good

-----------------------------------------------------------------------------
\* Every step keeps the invariant.
LEMMA InvNext ==
    ASSUME Inv, [Next]_vars
    PROVE  Inv'
  <1>1. CASE UNCHANGED vars
    BY <1>1 DEF vars, Inv, Good
  <1>2. CASE Next
    <2>1. outside = FALSE /\ faults = {} /\ Good
      BY <1>2 DEF Inv, Next
    <2>2. CASE Statement
      BY <2>1, <2>2, StepBeginDeclaration, StepEndDeclaration, StepTrackTemp, StepMoveVariable,
         StepEndStatement, StepOpenBlock, StepCloseBlock DEF Statement
    <2>3. CASE Control
      <3>1. ASSUME NEW taken \in BOOLEAN,
                   \/ GenIfStatement(taken) \/ GenMatchValue(taken)
                   \/ \E temporary \in BOOLEAN : GenMatchEnum(taken, temporary)
            PROVE  Inv'
        BY <2>1, <3>1, StepBranches
      <3>2. ASSUME GenLambdaExpression \/ GenSpawnStatement PROVE Inv'
        BY <2>1, <3>2, StepOpenNested DEF GenLambdaExpression, GenSpawnStatement, Nested
      <3>3. ASSUME NEW enters \in BOOLEAN,
                   GenWhileStatement(enters) \/ GenForInRange(enters) \/ GenForInArray(enters)
            PROVE  Inv'
        BY <2>1, <3>3, StepLoops, StepForInArray
      <3>4. CASE GenForInfinite
        BY <2>1, <3>4, StepLoops
      <3>5. QED
        BY <2>1, <2>3, <3>1, <3>2, <3>3, <3>4, StepNextBranch, StepEndBranch, StepEndLoop,
           StepBreak, StepReturn, StepTry, StepCloseNested, StepFunction DEF Control
    <2>4. QED
      BY <1>2, <2>2, <2>3 DEF Next
  <1>3. QED
    BY <1>1, <1>2

\* The invariant holds throughout.
LEMMA Invariance == Spec => []Inv
  BY InvInit, InvNext, PTL DEF Spec

\* However deep constructs nest and however many locals and temporaries they have:
\* on every path through a function every counted reference is released (genBlock,
\* emitScopeStackReleases, releaseTemp...), unless the function has a form that the
\* generator gets wrong: a move in a branch, temporaries pending at a for loop, a `?`
\* or a nested function, at a match on a string or an integer, and other than strings
\* at an if, a while or a match on an enum, a context pending at a return, a break
\* past slots, an own parameter at an implicit return, a `?` in an initialiser, a
\* nested function after a move.
THEOREM Kept == Spec => []NothingLost
  <1>1. Inv => NothingLost
    BY DEF Inv, NothingLost
  <1>2. QED
    BY <1>1, Invariance, PTL

\* On every such path, so with none of those forms, no reference is released twice:
\* what moves and what exits release (genReturnStatement, genTryExpression) agrees with what the ends
\* of the blocks do.
THEOREM Single == Spec => []ReleasedOnce
  <1>1. Inv => ReleasedOnce
    BY DEF Inv, ReleasedOnce
  <1>2. QED
    BY <1>1, Invariance, PTL

\* On every such path a release comes after the store of what it releases, in the
\* same function, though lists and scopes are static and nested functions are
\* generated in the middle of a statement.
THEOREM Stored == Spec => []Dominated
  <1>1. Inv => Dominated
    BY DEF Inv, Dominated
  <1>2. QED
    BY <1>1, Invariance, PTL
=============================================================================
