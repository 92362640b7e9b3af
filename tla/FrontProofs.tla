---------------------------- MODULE FrontProofs -----------------------------
(***************************************************************************)
(* Proofs about the two readers of source text.                            *)
(*                                                                         *)
(* Parser.tla, for every source put together from whatever pieces:         *)
(*   Placed     the position kept for a deferred body stays that of its    *)
(*              brace, whatever splits of ">>" and parses taken back.      *)
(*                                                                         *)
(* Interface.tla, for every library over its names, in any order:          *)
(*   InterfaceAlwaysReads   which interfaces a consumer can read;          *)
(*   SignaturesAlwaysKept   what it sees of those it can;                  *)
(*   EditsAlwaysStayInside  which edits change an interface.               *)
(***************************************************************************)
EXTENDS Parser, Interface, SequenceTheorems, WellFoundedInduction, TLAPS

-----------------------------------------------------------------------------
\* The parser.

Tokens == [sym : Symbols, at : Nat]
Frames == [k : {"signature", "impl", "block", "match", "unclosed"},
           at : Nat, back : SUBSET Nat]
Bodies == [pos : Nat, at : Nat]

\* Every body of B starts before position p.
Before(B, p) == \A i \in 1 .. Len(B) : B[i].pos < p

\* No function of s takes the parse back to a body of B or before it.
Guarded(B, s) == \A j \in 1 .. Len(s) : \A b \in s[j].back : Before(B, b)

\* The bodies of B are recorded in the order of the source, each at its brace.
Sorted(B) == \A i, j \in 1 .. Len(B) : i < j => B[i].pos < B[j].pos
Placing(B, l) == \A i \in 1 .. Len(B) : /\ B[i].pos < Len(l)
                                        /\ l[B[i].pos + 1] = [sym |-> "{", at |-> B[i].at]

Shape == /\ list \in Seq(Tokens) /\ pos \in Nat
         /\ stack \in Seq(Frames) /\ bodies \in Seq(Bodies)

\* A split moves the positions after the cursor; so every body that is still to
\* be parsed must be before it, and before whatever place a parse may be taken
\* back to.  Recording a body at the cursor, and parsing the last one first,
\* keep it so because the bodies are sorted.
Inv == /\ Shape
       /\ Before(bodies, pos) /\ Guarded(bodies, stack)
       /\ Sorted(bodies) /\ Placing(bodies, list)

-----------------------------------------------------------------------------
\* A set of natural numbers that is not empty has a least element.
LEMMA LeastNat ==
    ASSUME NEW T \in SUBSET Nat, T # {}
    PROVE  \E x \in T : \A y \in T : x <= y
  <1> DEFINE R == {ss \in Nat \X Nat : ss[1] < ss[2]}
  <1>1. IsWellFoundedOn(R, Nat)
    BY NatLessThanWellFounded, Zenon DEF OpToRel
  <1> HIDE DEF R
  <1>2. PICK x \in T : \A y \in T : ~ (<<y, x>> \in R)
    BY <1>1, WFMin
  <1>3. ASSUME NEW y \in T PROVE x <= y
    <2>1. x \in Nat /\ y \in Nat
      OBVIOUS
    <2>2. <<y, x>> \in R <=> y < x
      BY <2>1 DEF R
    <2>3. QED
      BY <1>2, <2>1, <2>2
  <1>4. QED
    BY <1>3

\* What FlattenSeq(p) is defined to be, up to its n-th element.
FlattenOn(p, n, f) == f = [i \in 1 .. n |-> IF i = 1 THEN p[i] ELSE f[i - 1] \o p[i]]

\* There is such a function for every length.
LEMMA FlattenExists ==
    ASSUME NEW p, NEW n \in Nat
    PROVE  \E f : FlattenOn(p, n, f)
  <1> DEFINE Failing == {m \in Nat : ~ \E f : FlattenOn(p, m, f)}
  <1>1. SUFFICES Failing = {}
    OBVIOUS
  <1>2. SUFFICES ASSUME Failing # {} PROVE FALSE
    OBVIOUS
  <1>3. PICK m \in Failing : \A y \in Failing : m <= y
    BY <1>2, LeastNat
  <1>4. m # 0
    <2>1. FlattenOn(p, 0, [i \in 1 .. 0 |-> p])
      BY DEF FlattenOn
    <2>2. QED
      BY <2>1
  <1>5. m - 1 \in Nat /\ m - 1 \notin Failing
    BY <1>3, <1>4
  <1>6. PICK f : FlattenOn(p, m - 1, f)
    BY <1>5
  <1> DEFINE g == [i \in 1 .. m |-> IF i = 1 THEN p[i] ELSE f[i - 1] \o p[i]]
  <1>7. ASSUME NEW i \in 1 .. m - 1 PROVE g[i] = f[i]
    <2>1. f[i] = IF i = 1 THEN p[i] ELSE f[i - 1] \o p[i]
      BY <1>6 DEF FlattenOn
    <2>2. i \in 1 .. m
      BY <1>5
    <2>3. QED
      BY <2>1, <2>2
  <1>8. g = [i \in 1 .. m |-> IF i = 1 THEN p[i] ELSE g[i - 1] \o p[i]]
    <2>1. ASSUME NEW i \in 1 .. m
          PROVE  g[i] = IF i = 1 THEN p[i] ELSE g[i - 1] \o p[i]
      <3>1. i # 1 => i - 1 \in 1 .. m - 1
        BY <1>5
      <3>2. QED
        BY <1>7, <3>1
    <2> HIDE DEF g
    <2>2. DOMAIN g = 1 .. m /\ g = [i \in DOMAIN g |-> g[i]]
      BY DEF g
    <2>3. QED
      BY <2>1, <2>2
  <1>9. FlattenOn(p, m, g)
    BY <1>8 DEF FlattenOn
  <1>10. QED
    BY <1>9

\* Pieces of symbols make a source of symbols.
LEMMA FlattenIs ==
    ASSUME NEW n \in Nat, NEW S, NEW p \in [1 .. n -> Seq(S)]
    PROVE  FlattenSeq(p) \in Seq(S)
  <1>1. p \in Seq(Seq(S)) /\ Len(p) = n
    BY IsASeq
  <1> DEFINE h == CHOOSE f : FlattenOn(p, n, f)
  <1>2. FlattenOn(p, n, h)
    BY FlattenExists
  <1>3. FlattenSeq(p) = IF n = 0 THEN p ELSE h[n]
    BY <1>1 DEF FlattenSeq, FlattenOn
  <1>4. CASE n = 0
    BY <1>1, <1>3, <1>4
  <1>5. CASE n # 0
    <2> HIDE DEF h
    <2> DEFINE Failing == {m \in 1 .. n : h[m] \notin Seq(S)}
    <2>1. SUFFICES Failing = {}
      BY <1>3, <1>5
    <2>2. SUFFICES ASSUME Failing # {} PROVE FALSE
      OBVIOUS
    <2>3. PICK m \in Failing : \A y \in Failing : m <= y
      <3>1. Failing \in SUBSET Nat
        OBVIOUS
      <3>2. QED
        BY <2>2, <3>1, LeastNat
    <2>4. h[m] = IF m = 1 THEN p[m] ELSE h[m - 1] \o p[m]
      BY <1>2, m \in 1 .. n DEF FlattenOn
    <2>5. m # 1 => m - 1 \in 1 .. n /\ h[m - 1] \in Seq(S)
      BY <2>3
    <2>6. p[m] \in Seq(S)
      OBVIOUS
    <2>7. h[m] \in Seq(S)
      BY <2>4, <2>5, <2>6, ConcatProperties
    <2>8. QED
      BY <2>7
  <1>6. QED
    BY <1>4, <1>5

-----------------------------------------------------------------------------
\* The operations, with the state they work on as parameters.

\* Front drops the last element.
LEMMA FrontIs ==
    ASSUME NEW S, NEW s \in Seq(S), s # << >>
    PROVE  /\ Front(s) \in Seq(S) /\ Len(s) \in Nat /\ Len(s) >= 1 /\ Len(Front(s)) = Len(s) - 1
           /\ \A i \in 1 .. Len(s) - 1 : Front(s)[i] = s[i]
           /\ Last(s) = s[Len(s)] /\ Last(s) \in S
  <1> DEFINE m == Len(s) - 1
  <1>1. Len(s) \in Nat /\ Len(s) >= 1 /\ m \in Nat /\ \A i \in 1 .. m : s[i] \in S
    OBVIOUS
  <1>2. /\ SubSeq(s, 1, m) \in Seq(S) /\ Len(SubSeq(s, 1, m)) = IF 1 <= m THEN m - 1 + 1 ELSE 0
        /\ \A i \in 1 .. m - 1 + 1 : SubSeq(s, 1, m)[i] = s[1 + i - 1]
    BY <1>1, SubSeqProperties
  <1>3. Last(s) = s[Len(s)] /\ Last(s) \in S
    BY <1>1 DEF Last
  <1> HIDE DEF m
  <1>4. \A i \in 1 .. m : SubSeq(s, 1, m)[i] = s[i]
    BY <1>1, <1>2
  <1>5. Len(SubSeq(s, 1, m)) = m
    BY <1>1, <1>2
  <1>6. QED
    BY <1>1, <1>2, <1>3, <1>4, <1>5 DEF Front, m

\* Nothing is left of a sequence of one element.
LEMMA FrontOfOne ==
    ASSUME NEW S, NEW s \in Seq(S), Len(s) = 1
    PROVE  Front(s) = << >>
  <1>1. s # << >>
    OBVIOUS
  <1>2. Front(s) \in Seq(S) /\ Len(Front(s)) = Len(s) - 1
    BY <1>1, FrontIs
  <1>3. QED
    BY <1>2

\* A concatenation begins with its first part.
LEMMA ConcatIs ==
    ASSUME NEW S, NEW x \in Seq(S), NEW y \in Seq(S)
    PROVE  /\ x \o y \in Seq(S) /\ Len(x \o y) = Len(x) + Len(y)
           /\ \A i \in 1 .. Len(x) : (x \o y)[i] = x[i]
  OBVIOUS

\* splitShiftIntoCloseAngles changes nothing before the cursor.
LEMMA SplitIs ==
    ASSUME NEW l \in Seq(Tokens), NEW p \in Nat, p < Len(l)
    PROVE  /\ Split(l, p) \in Seq(Tokens) /\ Len(Split(l, p)) = Len(l) + 1
           /\ \A i \in 1 .. p : Split(l, p)[i] = l[i]
  <1> DEFINE half == [sym |-> ">", at |-> l[p + 1].at]
             a == SubSeq(l, 1, p)
             b == << half, half >>
             c == SubSeq(l, p + 2, Len(l))
             n == Len(l)
  <1>1. n \in Nat /\ \A i \in 1 .. n : l[i] \in Tokens
    OBVIOUS
  <1>2. half \in Tokens
    <2>1. l[p + 1] \in Tokens
      BY <1>1
    <2>2. QED
      BY <2>1 DEF Tokens, Symbols
  <1> HIDE DEF half
  <1>3. b \in Seq(Tokens) /\ Len(b) = 2
    BY <1>2
  <1>4. a \in Seq(Tokens) /\ Len(a) = p /\ \A i \in 1 .. p : a[i] = l[i]
    <2>1. \A i \in 1 .. p : l[i] \in Tokens
      BY <1>1
    <2>2. /\ SubSeq(l, 1, p) \in Seq(Tokens) /\ Len(SubSeq(l, 1, p)) = IF 1 <= p THEN p - 1 + 1 ELSE 0
          /\ \A i \in 1 .. p - 1 + 1 : SubSeq(l, 1, p)[i] = l[1 + i - 1]
      BY <2>1, SubSeqProperties
    <2> HIDE DEF a
    <2>3. QED
      BY <2>2 DEF a
  <1>5. c \in Seq(Tokens) /\ Len(c) = n - p - 1
    <2>1. \A i \in p + 2 .. n : l[i] \in Tokens
      BY <1>1
    <2>2. /\ SubSeq(l, p + 2, n) \in Seq(Tokens)
          /\ Len(SubSeq(l, p + 2, n)) = IF p + 2 <= n THEN n - (p + 2) + 1 ELSE 0
      BY <1>1, <2>1, SubSeqProperties
    <2> HIDE DEF c
    <2>3. QED
      BY <1>1, <2>2 DEF c
  <1> HIDE DEF a, b, c, n
  <1>6. a \o b \in Seq(Tokens) /\ Len(a \o b) = p + 2 /\ \A i \in 1 .. p : (a \o b)[i] = l[i]
    <2>1. a \o b \in Seq(Tokens) /\ Len(a \o b) = Len(a) + Len(b) /\ \A i \in 1 .. Len(a) : (a \o b)[i] = a[i]
      BY <1>3, <1>4, ConcatIs
    <2>2. QED
      BY <1>3, <1>4, <2>1
  <1>7. PICK d : d = a \o b
    OBVIOUS
  <1>8. d \o c \in Seq(Tokens) /\ Len(d \o c) = p + 2 + (n - p - 1) /\ \A i \in 1 .. p : (d \o c)[i] = l[i]
    <2>1. d \o c \in Seq(Tokens) /\ Len(d \o c) = Len(d) + Len(c) /\ \A i \in 1 .. Len(d) : (d \o c)[i] = d[i]
      BY <1>5, <1>6, <1>7, ConcatIs
    <2>2. \A i \in 1 .. p : i \in 1 .. p + 2
      OBVIOUS
    <2>3. QED
      BY <1>5, <1>6, <1>7, <2>1, <2>2
  <1>9. Split(l, p) = d \o c
    BY <1>7 DEF Split, a, b, c, half, n
  <1>10. p + 2 + (n - p - 1) = n + 1
    BY <1>1
  <1>11. n = Len(l)
    BY DEF n
  <1>12. QED
    BY <1>8, <1>9, <1>10, <1>11

\* The bodies stay where they are in a list split after them.
LEMMA PlacedAfterSplit ==
    ASSUME NEW l \in Seq(Tokens), NEW p \in Nat, p < Len(l),
           NEW B \in Seq(Bodies), Before(B, p), Placing(B, l)
    PROVE  Placing(B, Split(l, p))
  <1> PICK m : m = Split(l, p)
    OBVIOUS
  <1>1. Len(m) = Len(l) + 1 /\ \A i \in 1 .. p : m[i] = l[i]
    BY SplitIs
  <1>2. ASSUME NEW i \in 1 .. Len(B)
        PROVE  B[i].pos < Len(m) /\ m[B[i].pos + 1] = [sym |-> "{", at |-> B[i].at]
    <2>1. B[i].pos \in Nat /\ B[i].pos < p
      <3>1. B[i] \in Bodies
        OBVIOUS
      <3>2. QED
        BY <3>1 DEF Before, Bodies
    <2>2. B[i].pos + 1 \in 1 .. p
      BY <2>1
    <2>3. B[i].pos < Len(l) /\ l[B[i].pos + 1] = [sym |-> "{", at |-> B[i].at]
      BY DEF Placing
    <2>4. m[B[i].pos + 1] = l[B[i].pos + 1]
      BY <1>1, <2>2
    <2>5. B[i].pos < Len(m)
      <3>1. Len(l) \in Nat
        OBVIOUS
      <3>2. PICK x \in Nat : x = B[i].pos
        BY <2>1
      <3>3. PICK n \in Nat : n = Len(l)
        BY <3>1
      <3>4. x < n /\ Len(m) = n + 1
        BY <1>1, <2>3, <3>2, <3>3
      <3>5. x < n + 1
        BY <3>4
      <3>6. QED
        BY <3>2, <3>4, <3>5
    <2>6. QED
      BY <2>3, <2>4, <2>5
  <1>3. QED
    BY <1>2 DEF Placing

\* A function is called, with no place to go back to before the bodies.
LEMMA Pushed ==
    ASSUME NEW B, NEW s \in Seq(Frames), Guarded(B, s), NEW f \in Frames,
           \A b \in f.back : Before(B, b)
    PROVE  Append(s, f) \in Seq(Frames) /\ Guarded(B, Append(s, f))
  <1>1. Append(s, f) \in Seq(Frames) /\ Len(Append(s, f)) = Len(s) + 1 /\ Len(s) \in Nat
    OBVIOUS
  <1>2. \A j \in 1 .. Len(s) : Append(s, f)[j] = s[j]
    OBVIOUS
  <1>3. Append(s, f)[Len(s) + 1] = f
    OBVIOUS
  <1>4. \A j \in 1 .. Len(s) + 1 : j \in 1 .. Len(s) \/ j = Len(s) + 1
    BY <1>1
  <1>5. QED
    BY <1>1, <1>2, <1>3, <1>4 DEF Guarded

\* A function returns.
LEMMA Popped ==
    ASSUME NEW B, NEW s \in Seq(Frames), Guarded(B, s), s # << >>
    PROVE  /\ Front(s) \in Seq(Frames) /\ Guarded(B, Front(s)) /\ Last(s) \in Frames
           /\ \A b \in Last(s).back : Before(B, b)
  <1>1. /\ Front(s) \in Seq(Frames) /\ Len(s) \in Nat /\ Len(s) >= 1 /\ Len(Front(s)) = Len(s) - 1
        /\ \A i \in 1 .. Len(s) - 1 : Front(s)[i] = s[i]
        /\ Last(s) = s[Len(s)] /\ Last(s) \in Frames
    BY FrontIs
  <1>2. \A i \in 1 .. Len(s) - 1 : i \in 1 .. Len(s)
    BY <1>1
  <1>3. Len(s) \in 1 .. Len(s)
    BY <1>1
  <1>4. QED
    BY <1>1, <1>2, <1>3 DEF Guarded

\* The only call on an empty stack, the one of a deferred body, goes back nowhere.
LEMMA PushedFirst ==
    ASSUME NEW B, NEW f \in Frames, f.back = {}
    PROVE  Append(<< >>, f) \in Seq(Frames) /\ Guarded(B, Append(<< >>, f))
  <1>1. << >> \in Seq(Frames) /\ Guarded(B, << >>)
    BY DEF Guarded
  <1>2. QED
    BY <1>1, Pushed

\* An exception goes on at the cursor or where one of the functions it leaves
\* takes the parse back to.
LEMMA Thrown ==
    ASSUME NEW B \in Seq(Bodies), NEW s \in Seq(Frames), Guarded(B, s),
           NEW p \in Nat, Before(B, p), Throw(s, p)
    PROVE  pos' \in Nat /\ Before(B, pos') /\ stack' \in Seq(Frames) /\ Guarded(B, stack')
  <1> DEFINE blocks == {i \in DOMAIN s : s[i].k = "block"}
             catcher == IF blocks = {} THEN 0 ELSE CHOOSE i \in blocks : \A j \in blocks : j <= i
             backs == UNION {s[i].back : i \in catcher + 1 .. Len(s)}
  <1>1. /\ stack' = SubSeq(s, 1, catcher)
        /\ pos' = IF backs = {} THEN p ELSE CHOOSE b \in backs : \A c \in backs : b <= c
    BY Zenon DEF Throw
  <1>2. Len(s) \in Nat /\ DOMAIN s = 1 .. Len(s) /\ \A i \in 1 .. Len(s) : s[i] \in Frames
    OBVIOUS
  <1>3. catcher \in 0 .. Len(s)
    <2>1. ASSUME blocks # {}
          PROVE  \E i \in blocks : \A j \in blocks : j <= i
      <3> DEFINE T == {n \in Nat : \E i \in blocks : n = Len(s) - i}
      <3>1. T \in SUBSET Nat
        OBVIOUS
      <3>2. PICK i \in blocks : TRUE
        BY <2>1
      <3>3. Len(s) - i \in T
        BY <1>2
      <3>4. PICK n \in T : \A y \in T : n <= y
        BY <3>1, <3>3, LeastNat
      <3>5. PICK k \in blocks : n = Len(s) - k
        BY <3>4
      <3>6. ASSUME NEW j \in blocks PROVE j <= k
        <4>1. j \in 1 .. Len(s) /\ k \in 1 .. Len(s)
          BY <1>2
        <4>2. Len(s) - j \in T
          BY <1>2, <4>1
        <4>3. n <= Len(s) - j
          BY <3>4, <4>2
        <4>4. QED
          BY <1>2, <3>5, <4>1, <4>3
      <3>7. QED
        BY <3>6
    <2>2. blocks \subseteq 1 .. Len(s)
      BY <1>2
    <2> HIDE DEF blocks
    <2>3. CASE blocks = {}
      BY <1>2, <2>3
    <2>4. CASE blocks # {}
      <3>1. catcher \in blocks
        BY <2>1, <2>4
      <3> HIDE DEF catcher
      <3>2. QED
        BY <1>2, <2>2, <3>1
    <2>5. QED
      BY <2>3, <2>4
  <1> HIDE DEF catcher, blocks
  <1>4. stack' \in Seq(Frames) /\ Guarded(B, stack')
    <2>1. \A i \in 1 .. catcher : i \in 1 .. Len(s) /\ s[i] \in Frames
      BY <1>2, <1>3
    <2>2. /\ SubSeq(s, 1, catcher) \in Seq(Frames)
          /\ Len(SubSeq(s, 1, catcher)) = IF 1 <= catcher THEN catcher - 1 + 1 ELSE 0
          /\ \A i \in 1 .. catcher - 1 + 1 : SubSeq(s, 1, catcher)[i] = s[1 + i - 1]
      BY <1>3, <2>1, SubSeqProperties
    <2>3. PICK t : t = SubSeq(s, 1, catcher)
      OBVIOUS
    <2>4. t \in Seq(Frames) /\ Len(t) = catcher /\ \A i \in 1 .. catcher : t[i] = s[i]
      BY <1>3, <2>2, <2>3
    <2>5. Guarded(B, t)
      BY <2>1, <2>4 DEF Guarded
    <2>6. QED
      BY <1>1, <2>3, <2>4, <2>5
  <1>5. ASSUME NEW b \in backs PROVE b \in Nat /\ Before(B, b)
    <2>1. PICK i \in catcher + 1 .. Len(s) : b \in s[i].back
      OBVIOUS
    <2>2. i \in 1 .. Len(s)
      BY <1>2, <1>3
    <2>3. s[i] \in Frames
      BY <1>2, <2>2
    <2>4. QED
      BY <2>1, <2>2, <2>3 DEF Guarded, Frames
  <1> HIDE DEF backs
  <1>6. CASE backs = {}
    BY <1>1, <1>4, <1>6
  <1>7. CASE backs # {}
    <2>1. \E b \in backs : \A c \in backs : b <= c
      <3>1. backs \in SUBSET Nat
        BY <1>5
      <3>2. QED
        BY <1>7, <3>1, LeastNat
    <2>2. pos' \in backs
      BY <1>1, <1>7, <2>1
    <2>3. QED
      BY <1>4, <1>5, <2>2
  <1>8. QED
    BY <1>6, <1>7

\* The token at the cursor is one of the list.
LEMMA PeekIs ==
    ASSUME NEW l \in Seq(Tokens), NEW p \in Nat, Token(l, p).sym # "eof"
    PROVE  p < Len(l) /\ Token(l, p) = l[p + 1] /\ l[p + 1] \in Tokens
  <1>1. Len(l) \in Nat
    OBVIOUS
  <1>2. p < Len(l)
    BY DEF Token
  <1>3. p + 1 \in 1 .. Len(l)
    BY <1>1, <1>2
  <1>4. QED
    BY <1>2, <1>3 DEF Token

\* The number of any token is one.
LEMMA NumberIs ==
    ASSUME NEW l \in Seq(Tokens), NEW p \in Nat
    PROVE  Token(l, p).at \in Nat
  <1>1. CASE p < Len(l)
    <2>1. p + 1 \in 1 .. Len(l)
      BY <1>1
    <2>2. l[p + 1] \in Tokens
      BY <2>1
    <2>3. QED
      BY <1>1, <2>2 DEF Token, Tokens
  <1>2. CASE ~ (p < Len(l))
    BY <1>2 DEF Token
  <1>3. QED
    BY <1>1, <1>2

\* A later position is after the same bodies.
LEMMA Onward ==
    ASSUME NEW B \in Seq(Bodies), NEW p \in Nat, Before(B, p), NEW q \in Nat, p <= q
    PROVE  Before(B, q)
  <1>1. \A i \in 1 .. Len(B) : B[i].pos \in Nat
    <2>1. \A i \in 1 .. Len(B) : B[i] \in Bodies
      OBVIOUS
    <2>2. QED
      BY <2>1 DEF Bodies
  <1>2. QED
    BY <1>1 DEF Before

\* So is the end of the list.
LEMMA ToTheEnd ==
    ASSUME NEW B \in Seq(Bodies), NEW p \in Nat, Before(B, p), NEW l \in Seq(Tokens), p < Len(l)
    PROVE  Len(l) \in Nat /\ Before(B, Len(l))
  <1>1. PICK m \in Nat : m = Len(l)
    OBVIOUS
  <1>2. p <= m
    BY <1>1
  <1>3. QED
    BY <1>1, <1>2, Onward

\* A skipped body ends after the cursor.
LEMMA SkippedIs ==
    ASSUME NEW l \in Seq(Tokens), NEW p \in Nat, Skipped(l, p) # 0
    PROVE  Skipped(l, p) \in Nat /\ p < Skipped(l, p)
  <1> DEFINE ends == {q \in p + 1 .. Len(l) :
                    l[q].sym = "}" /\ Count(l, p, q, "{") = Count(l, p, q, "}")}
  <1>1. Skipped(l, p) = IF ends = {} THEN 0 ELSE CHOOSE q \in ends : \A r \in ends : q <= r
    BY Zenon DEF Skipped
  <1>2. Len(l) \in Nat
    OBVIOUS
  <1>3. ASSUME NEW q \in ends PROVE q \in Nat /\ p < q
    <2>1. q \in p + 1 .. Len(l)
      OBVIOUS
    <2> HIDE DEF ends
    <2>2. QED
      BY <1>2, <2>1
  <1> HIDE DEF ends
  <1>4. ends # {}
    BY <1>1
  <1>5. \E q \in ends : \A r \in ends : q <= r
    <2>1. ends \in SUBSET Nat
      BY <1>3
    <2>2. QED
      BY <1>4, <2>1, LeastNat
  <1>6. Skipped(l, p) \in ends
    BY <1>1, <1>4, <1>5
  <1>7. QED
    BY <1>3, <1>6

-----------------------------------------------------------------------------
\* The steps.

\* What the list may become: a type is closed by half of a ">>".
ListSteps == UNCHANGED list \/ (Peek = ">>" /\ list' = Split(list, pos))

\* A step that records no body and moves the cursor to a place after them.
LEMMA Kept ==
    ASSUME Inv, UNCHANGED bodies, ListSteps, pos' \in Nat, Before(bodies, pos'),
           stack' \in Seq(Frames), Guarded(bodies, stack')
    PROVE  Inv'
  <1>1. list' \in Seq(Tokens) /\ Placing(bodies, list')
    <2>1. CASE UNCHANGED list
      BY <2>1 DEF Inv, Shape
    <2>2. CASE Peek = ">>" /\ list' = Split(list, pos)
      <3>1. list \in Seq(Tokens) /\ pos \in Nat /\ bodies \in Seq(Bodies)
        BY DEF Inv, Shape
      <3>2. pos < Len(list)
        BY <2>2, <3>1, PeekIs DEF Peek
      <3>3. QED
        BY <2>2, <3>1, <3>2, SplitIs, PlacedAfterSplit DEF Inv
    <2>3. QED
      BY <2>1, <2>2 DEF ListSteps
  <1>2. QED
    BY <1>1 DEF Inv, Shape

\* A step that consumes tokens and calls or returns from a function.
LEMMA Moved ==
    ASSUME Inv, UNCHANGED bodies, ListSteps, pos' \in {pos, pos + 1, pos + 2},
           \/ UNCHANGED stack
           \/ \E f \in Frames : f.back \subseteq {pos} /\ stack' = Append(stack, f)
           \/ stack # << >> /\ stack' = Front(stack)
           \/ stack # << >> /\ \E f \in Frames : f.back = {} /\ stack' = Append(Front(stack), f)
    PROVE  Inv'
  <1>1. /\ pos \in Nat /\ bodies \in Seq(Bodies) /\ Before(bodies, pos)
        /\ stack \in Seq(Frames) /\ Guarded(bodies, stack)
    BY DEF Inv, Shape
  <1>2. PICK q \in Nat : q = pos' /\ pos <= q
    BY <1>1
  <1>3. pos' \in Nat /\ Before(bodies, pos')
    BY <1>1, <1>2, Onward
  <1>4. stack' \in Seq(Frames) /\ Guarded(bodies, stack')
    <2>1. CASE UNCHANGED stack
      BY <1>1, <2>1
    <2>2. CASE \E f \in Frames : f.back \subseteq {pos} /\ stack' = Append(stack, f)
      <3>1. PICK f \in Frames : f.back \subseteq {pos} /\ stack' = Append(stack, f)
        BY <2>2
      <3>2. \A b \in f.back : Before(bodies, b)
        BY <1>1, <3>1
      <3>3. QED
        BY <1>1, <3>1, <3>2, Pushed
    <2>3. CASE stack # << >> /\ stack' = Front(stack)
      BY <1>1, <2>3, Popped
    <2>4. CASE stack # << >> /\ \E f \in Frames : f.back = {} /\ stack' = Append(Front(stack), f)
      <3>1. PICK f \in Frames : f.back = {} /\ stack' = Append(Front(stack), f)
        BY <2>4
      <3>2. Front(stack) \in Seq(Frames) /\ Guarded(bodies, Front(stack))
        BY <1>1, <2>4, Popped
      <3>3. QED
        BY <3>1, <3>2, Pushed
    <2>5. QED
      BY <2>1, <2>2, <2>3, <2>4
  <1>5. QED
    BY <1>3, <1>4, Kept

\* A step that throws.
LEMMA Failed ==
    ASSUME Inv, UNCHANGED bodies, ListSteps, NEW p, p \in {pos, pos + 1, pos + 2}, Throw(stack, p)
    PROVE  Inv'
  <1>1. /\ pos \in Nat /\ bodies \in Seq(Bodies) /\ Before(bodies, pos)
        /\ stack \in Seq(Frames) /\ Guarded(bodies, stack)
    BY DEF Inv, Shape
  <1>2. p \in Nat /\ pos <= p
    BY <1>1
  <1>3. Before(bodies, p)
    BY <1>1, <1>2, Onward
  <1>4. pos' \in Nat /\ Before(bodies, pos') /\ stack' \in Seq(Frames) /\ Guarded(bodies, stack')
    BY <1>1, <1>2, <1>3, Thrown
  <1>5. QED
    BY <1>4, Kept

\* FunctionDefinition::Parse, before the body.
LEMMA StepSignature ==
    ASSUME Inv, BeginFunction \/ SignatureType \/ SignatureError \/ Bodyless \/ MethodBody
    PROVE  Inv'
  <1>1. list \in Seq(Tokens) /\ pos \in Nat /\ Token(list, pos).at \in Nat
    BY NumberIs DEF Inv, Shape
  <1>2. CASE BeginFunction
    <2>1. /\ UNCHANGED <<bodies, list>> /\ pos' = pos + 1
          /\ stack' = Append(stack, Frame("signature", Token(list, pos).at, {}))
      BY <1>2 DEF BeginFunction, Get, Push, Keep
    <2>2. /\ Frame("signature", Token(list, pos).at, {}) \in Frames
          /\ Frame("signature", Token(list, pos).at, {}).back = {}
      BY <1>1 DEF Frame, Frames
    <2>3. QED
      BY <2>1, <2>2, Moved DEF ListSteps
  <1>3. CASE SignatureType
    BY <1>3, Moved DEF SignatureType, Keep, ListSteps
  <1>4. CASE SignatureError
    BY <1>4, Failed DEF SignatureError, FailsPast, Keep, ListSteps
  <1>5. CASE MethodBody
    <2>1. /\ UNCHANGED <<bodies, list>> /\ pos' = pos + 1 /\ stack # << >>
          /\ stack' = Append(Front(stack), Frame("block", Token(list, pos).at, {}))
      BY <1>5 DEF MethodBody, Get, Keep, Top
    <2>2. /\ Frame("block", Token(list, pos).at, {}) \in Frames
          /\ Frame("block", Token(list, pos).at, {}).back = {}
      BY <1>1 DEF Frame, Frames
    <2>3. QED
      BY <2>1, <2>2, Moved DEF ListSteps
  <1>6. CASE Bodyless
    BY <1>6, Moved DEF Bodyless, Get, Pop, ListSteps, Top
  <1>7. QED
    BY <1>2, <1>3, <1>4, <1>5, <1>6

\* ParseImplBlock.
LEMMA StepImpl ==
    ASSUME Inv, BeginImpl \/ EndImpl \/ NotADeclaration
    PROVE  Inv'
  <1>1. CASE BeginImpl
    <2>1. CASE Token(list, pos + 1).sym = "{"
      <3>1. /\ UNCHANGED <<bodies, list>> /\ pos' = pos + 2
            /\ stack' = Append(stack, Frame("impl", 0, {}))
        BY <1>1, <2>1 DEF BeginImpl, Push, Keep
      <3>2. Frame("impl", 0, {}) \in Frames /\ Frame("impl", 0, {}).back = {}
        BY DEF Frame, Frames
      <3>3. QED
        BY <3>1, <3>2, Moved DEF ListSteps
    <2>2. CASE Token(list, pos + 1).sym # "{"
      BY <1>1, <2>2, Failed DEF BeginImpl, Keep, ListSteps
    <2>3. QED
      BY <2>1, <2>2
  <1>2. CASE EndImpl
    BY <1>2, Moved DEF EndImpl, Get, Pop, Keep, ListSteps, Top
  <1>3. CASE NotADeclaration
    BY <1>3, Failed DEF NotADeclaration, Fails, Keep, ListSteps
  <1>4. QED
    BY <1>1, <1>2, <1>3

\* Statement::Parse.
LEMMA StepStatement ==
    ASSUME Inv, Statement
    PROVE  Inv'
  <1>1. /\ list \in Seq(Tokens) /\ pos \in Nat
        /\ Token(list, pos).at \in Nat /\ Token(list, pos + 1).at \in Nat
    BY NumberIs DEF Inv, Shape
  <1>2. UNCHANGED bodies
    BY DEF Statement
  <1>3. CASE Going /\ Peek \in {";", "x"} /\ Get /\ UNCHANGED stack
    BY <1>2, <1>3, Moved DEF Get, ListSteps
  <1>4. CASE Going /\ Peek = "{" /\ Get /\ Push(Frame("block", Token(list, pos).at, {}))
    <2>1. /\ Frame("block", Token(list, pos).at, {}) \in Frames
          /\ Frame("block", Token(list, pos).at, {}).back = {}
      BY <1>1 DEF Frame, Frames
    <2>2. QED
      BY <1>2, <1>4, <2>1, Moved DEF Get, Push, ListSteps
  <1>5. CASE /\ Going /\ Peek \in {"match", "fn"} /\ Token(list, pos + 1).sym = "{"
             /\ pos' = pos + 2 /\ UNCHANGED list
             /\ Push(IF Peek = "match" THEN Frame("match", 0, {})
                     ELSE Frame("block", Token(list, pos + 1).at, {pos}))
    <2>1. Frame("match", 0, {}) \in Frames /\ Frame("match", 0, {}).back = {}
      BY DEF Frame, Frames
    <2>2. /\ Frame("block", Token(list, pos + 1).at, {pos}) \in Frames
          /\ Frame("block", Token(list, pos + 1).at, {pos}).back = {pos}
      BY <1>1 DEF Frame, Frames
    <2>3. \E f \in Frames : f.back \subseteq {pos} /\ stack' = Append(stack, f)
      <3>1. CASE Peek = "match"
        BY <1>5, <2>1, <3>1 DEF Push
      <3>2. CASE Peek # "match"
        BY <1>5, <2>2, <3>2 DEF Push
      <3>3. QED
        BY <3>1, <3>2
    <2>4. QED
      BY <1>2, <1>5, <2>3, Moved DEF ListSteps
  <1>6. CASE /\ Going /\ Peek = ">>" /\ Token(list, pos + 1).sym # "!"
             /\ list' = Split(list, pos) /\ pos' = pos + 2 /\ UNCHANGED stack
    BY <1>2, <1>6, Moved DEF ListSteps
  <1>7. CASE /\ mode = "parse" /\ Peek = ">>" /\ Token(list, pos + 1).sym = "!"
             /\ list' = Split(list, pos) /\ Fails
    BY <1>2, <1>7, Failed DEF Fails, ListSteps
  <1>8. CASE mode = "parse" /\ Peek \in {"!", ">", "impl"} /\ Fails /\ UNCHANGED list
    BY <1>2, <1>8, Failed DEF Fails, ListSteps
  <1>9. CASE mode = "parse" /\ Peek = "fn" /\ Token(list, pos + 1).sym # "{" /\ Fails /\ UNCHANGED list
    BY <1>2, <1>9, Failed DEF Fails, ListSteps
  <1>10. CASE /\ mode = "parse" /\ Peek = "match" /\ Token(list, pos + 1).sym # "{"
              /\ Throw(stack, pos + 2) /\ UNCHANGED list
    BY <1>2, <1>10, Failed DEF ListSteps
  <1>11. QED
    BY <1>3, <1>4, <1>5, <1>6, <1>7, <1>8, <1>9, <1>10 DEF Statement

\* Block::Parse: the closing brace, or the lack of it.
LEMMA StepEndBlock ==
    ASSUME Inv, EndBlock \/ UnclosedBlock
    PROVE  Inv'
  <1>1. CASE EndBlock
    BY <1>1, Moved DEF EndBlock, Get, Pop, ListSteps, Top
  <1>2. CASE UnclosedBlock
    <2>1. /\ Throw(Append(Front(stack), [Last(stack) EXCEPT !.k = "unclosed"]), pos)
          /\ UNCHANGED <<bodies, list>> /\ stack # << >>
      BY <1>2 DEF UnclosedBlock, Keep, Top
    <2>2. /\ pos \in Nat /\ bodies \in Seq(Bodies) /\ Before(bodies, pos)
          /\ stack \in Seq(Frames) /\ Guarded(bodies, stack)
      BY DEF Inv, Shape
    <2>3. /\ Front(stack) \in Seq(Frames) /\ Guarded(bodies, Front(stack))
          /\ Last(stack) \in Frames /\ \A b \in Last(stack).back : Before(bodies, b)
      BY <2>1, <2>2, Popped
    <2>4. PICK f : f = [Last(stack) EXCEPT !.k = "unclosed"]
      OBVIOUS
    <2>5. f \in Frames /\ f.back = Last(stack).back
      BY <2>3, <2>4 DEF Frames
    <2>6. PICK s : s = Append(Front(stack), f)
      OBVIOUS
    <2>7. s \in Seq(Frames) /\ Guarded(bodies, s)
      BY <2>3, <2>5, <2>6, Pushed
    <2>8. Throw(s, pos)
      BY <2>1, <2>4, <2>6
    <2>9. pos' \in Nat /\ Before(bodies, pos') /\ stack' \in Seq(Frames) /\ Guarded(bodies, stack')
      BY <2>2, <2>7, <2>8, Thrown
    <2>10. QED
      BY <2>1, <2>9, Kept DEF ListSteps
  <1>3. QED
    BY <1>1, <1>2

\* MatchExpression::Parse.
LEMMA StepMatch ==
    ASSUME Inv, Arm \/ EndMatch
    PROVE  Inv'
  <1>1. CASE Arm
    <2>1. UNCHANGED <<bodies, list>>
      BY <1>1 DEF Arm, Keep
    <2>2. CASE /\ Going /\ Peek = "x" /\ Token(list, pos + 1).sym = "{" /\ pos' = pos + 2
               /\ Push(Frame("block", Token(list, pos + 1).at, {}))
      <3>1. Token(list, pos + 1).at \in Nat
        BY NumberIs DEF Inv, Shape
      <3>2. /\ Frame("block", Token(list, pos + 1).at, {}) \in Frames
            /\ Frame("block", Token(list, pos + 1).at, {}).back = {}
        BY <3>1 DEF Frame, Frames
      <3>3. QED
        BY <2>1, <2>2, <3>2, Moved DEF Push, ListSteps
    <2>3. CASE mode = "parse" /\ Peek = "x" /\ Token(list, pos + 1).sym # "{" /\ Throw(stack, pos + 2)
      BY <2>1, <2>3, Failed DEF ListSteps
    <2>4. CASE mode = "parse" /\ Peek \notin {"x", "}"} /\ Fails
      BY <2>1, <2>4, Failed DEF Fails, ListSteps
    <2>5. QED
      BY <1>1, <2>2, <2>3, <2>4 DEF Arm
  <1>2. CASE EndMatch
    BY <1>2, Moved DEF EndMatch, Get, Pop, Keep, ListSteps, Top
  <1>3. QED
    BY <1>1, <1>2

\* resyncStatement and resyncTopLevel.
LEMMA StepResync ==
    ASSUME Inv, ResyncStatement \/ ResyncTopLevel
    PROVE  Inv'
  <1>1. UNCHANGED <<bodies, list, stack>> /\ pos' \in {pos, pos + 1}
    BY DEF ResyncStatement, ResyncTopLevel, Keep
  <1>2. QED
    BY <1>1, Moved DEF ListSteps

\* The body of a top-level function is recorded, or has no end.
LEMMA StepDeferBody ==
    ASSUME Inv, DeferBody
    PROVE  Inv'
  <1>1. /\ list \in Seq(Tokens) /\ pos \in Nat /\ stack \in Seq(Frames) /\ bodies \in Seq(Bodies)
        /\ Before(bodies, pos) /\ Guarded(bodies, stack) /\ Sorted(bodies) /\ Placing(bodies, list)
    BY DEF Inv, Shape
  <1>2. Peek = "{" /\ Len(stack) = 1 /\ UNCHANGED list
    BY DEF DeferBody
  <1>3. /\ pos < Len(list) /\ Token(list, pos) = list[pos + 1] /\ list[pos + 1] \in Tokens
        /\ list[pos + 1].sym = "{"
    BY <1>1, <1>2, PeekIs DEF Peek
  <1>4. CASE Skipped(list, pos) = 0
    <2>1. Throw(stack, Len(list)) /\ UNCHANGED bodies
      BY <1>4 DEF DeferBody
    <2>2. Len(list) \in Nat /\ Before(bodies, Len(list))
      BY <1>1, <1>3, ToTheEnd
    <2>3. pos' \in Nat /\ Before(bodies, pos') /\ stack' \in Seq(Frames) /\ Guarded(bodies, stack')
      BY <1>1, <2>1, <2>2, Thrown
    <2>4. QED
      BY <1>2, <2>1, <2>3, Kept DEF ListSteps
  <1>5. CASE Skipped(list, pos) # 0
    <2>1. /\ pos' = Skipped(list, pos) /\ stack' = Front(stack)
          /\ bodies' = Append(bodies, [pos |-> pos, at |-> Token(list, pos).at])
      BY <1>5 DEF DeferBody, Pop
    <2>2. pos' \in Nat /\ pos < pos'
      BY <1>1, <1>5, <2>1, SkippedIs
    <2>3. PICK n \in Nat : n = Len(bodies)
      BY <1>1
    <2>4. PICK b : b = [pos |-> pos, at |-> Token(list, pos).at]
      OBVIOUS
    <2>5. b \in Bodies /\ b.pos = pos /\ b.at = list[pos + 1].at
      BY <1>1, <1>3, <2>4 DEF Bodies, Tokens
    <2>6. bodies' = Append(bodies, b)
      BY <2>1, <2>4
    <2>7. /\ bodies' \in Seq(Bodies) /\ Len(bodies') = n + 1 /\ bodies'[n + 1] = b
          /\ \A i \in 1 .. n : bodies'[i] = bodies[i]
      BY <1>1, <2>3, <2>5, <2>6
    <2>8. \A i \in 1 .. n + 1 : i \in 1 .. n \/ i = n + 1
      OBVIOUS
    <2>9. \A i \in 1 .. n : bodies[i].pos \in Nat /\ bodies[i].pos < pos
      <3>1. \A i \in 1 .. n : bodies[i] \in Bodies
        BY <1>1, <2>3
      <3>2. QED
        BY <1>1, <2>3, <3>1 DEF Before, Bodies
    <2>10. stack' = << >>
      BY <1>1, <1>2, <2>1, FrontOfOne
    <2>11. Before(bodies', pos')
      <3>1. ASSUME NEW i \in 1 .. n + 1 PROVE bodies'[i].pos < pos'
        <4>1. CASE i \in 1 .. n
          <5>1. bodies'[i] = bodies[i] /\ bodies[i].pos \in Nat /\ bodies[i].pos < pos
            BY <2>7, <2>9, <4>1
          <5>2. QED
            BY <1>1, <2>2, <5>1
        <4>2. CASE i = n + 1
          BY <2>2, <2>5, <2>7, <4>2
        <4>3. QED
          BY <2>8, <4>1, <4>2
      <3>2. QED
        BY <2>7, <3>1 DEF Before
    <2>12. Sorted(bodies')
      <3>1. ASSUME NEW i \in 1 .. n + 1, NEW j \in 1 .. n + 1, i < j
            PROVE  bodies'[i].pos < bodies'[j].pos
        <4>1. i \in 1 .. n
          BY <3>1
        <4>2. CASE j \in 1 .. n
          BY <1>1, <2>3, <2>7, <3>1, <4>1, <4>2 DEF Sorted
        <4>3. CASE j = n + 1
          BY <2>5, <2>7, <2>9, <4>1, <4>3
        <4>4. QED
          BY <2>8, <4>2, <4>3
      <3>2. QED
        BY <2>7, <3>1 DEF Sorted
    <2>13. Placing(bodies', list')
      <3>1. list[pos + 1] = [sym |-> "{", at |-> b.at]
        BY <1>3, <2>5 DEF Tokens
      <3>2. ASSUME NEW i \in 1 .. n + 1
            PROVE  /\ bodies'[i].pos < Len(list)
                   /\ list[bodies'[i].pos + 1] = [sym |-> "{", at |-> bodies'[i].at]
        <4>1. CASE i \in 1 .. n
          BY <1>1, <2>3, <2>7, <4>1 DEF Placing
        <4>2. CASE i = n + 1
          BY <1>3, <2>5, <2>7, <3>1, <4>2
        <4>3. QED
          BY <2>8, <4>1, <4>2
      <3>3. QED
        BY <1>2, <2>7, <3>2 DEF Placing
    <2>14. stack' \in Seq(Frames) /\ Guarded(bodies', stack')
      <3>1. Len(<< >>) = 0 /\ 1 .. 0 = {} /\ << >> \in Seq(Frames)
        OBVIOUS
      <3>2. QED
        BY <2>10, <3>1 DEF Guarded
    <2>15. QED
      BY <1>1, <1>2, <2>2, <2>7, <2>11, <2>12, <2>13, <2>14 DEF Inv, Shape
  <1>6. QED
    BY <1>4, <1>5

\* Module::Parse takes the last body that is left.
LEMMA StepDeferredBody ==
    ASSUME Inv, ParseDeferredBody
    PROVE  Inv'
  <1>1. /\ list \in Seq(Tokens) /\ pos \in Nat /\ bodies \in Seq(Bodies)
        /\ Sorted(bodies) /\ Placing(bodies, list)
    BY DEF Inv, Shape
  <1>2. /\ stack = << >> /\ bodies # << >> /\ UNCHANGED list
        /\ pos' = Last(bodies).pos + 1 /\ bodies' = Front(bodies)
        /\ stack' = Append(stack, Frame("block", Last(bodies).at, {}))
    BY DEF ParseDeferredBody, Push
  <1>3. PICK n \in Nat : n = Len(bodies)
    BY <1>1
  <1>4. /\ bodies' \in Seq(Bodies) /\ n >= 1 /\ Len(bodies') = n - 1
        /\ \A i \in 1 .. n - 1 : bodies'[i] = bodies[i]
        /\ Last(bodies) = bodies[n] /\ Last(bodies) \in Bodies
    BY <1>1, <1>2, <1>3, FrontIs
  <1>5. bodies[n].pos \in Nat /\ bodies[n].at \in Nat /\ pos' = bodies[n].pos + 1
    BY <1>2, <1>4 DEF Bodies
  <1>6. \A i \in 1 .. n - 1 : i \in 1 .. n /\ i < n /\ bodies'[i] = bodies[i]
    BY <1>4
  <1>7. \A i \in 1 .. n : bodies[i].pos \in Nat
    <2>1. \A i \in 1 .. n : bodies[i] \in Bodies
      BY <1>1, <1>3
    <2>2. QED
      BY <2>1 DEF Bodies
  <1>8. Before(bodies', pos')
    <2>1. \A i \in 1 .. n - 1 : bodies[i].pos < bodies[n].pos
      BY <1>1, <1>3, <1>4, <1>6 DEF Sorted
    <2>2. \A i \in 1 .. n - 1 : bodies[i].pos < bodies[n].pos + 1
      BY <1>5, <1>6, <1>7, <2>1
    <2>3. QED
      BY <1>4, <1>5, <1>6, <2>2 DEF Before
  <1>9. Sorted(bodies')
    BY <1>1, <1>3, <1>4, <1>6 DEF Sorted
  <1>10. Placing(bodies', list')
    BY <1>1, <1>2, <1>3, <1>4, <1>6 DEF Placing
  <1>11. stack' \in Seq(Frames) /\ Guarded(bodies', stack')
    <2>1. /\ Frame("block", bodies[n].at, {}) \in Frames
          /\ Frame("block", bodies[n].at, {}).back = {}
      BY <1>5 DEF Frame, Frames
    <2>2. PICK f \in Frames : f.back = {} /\ stack' = Append(<< >>, f)
      BY <1>2, <1>4, <2>1
    <2>3. QED
      BY <2>2, PushedFirst
  <1>12. QED
    BY <1>1, <1>2, <1>4, <1>5, <1>8, <1>9, <1>10, <1>11 DEF Inv, Shape

\* The invariant holds at the start.
LEMMA InvInit ==
    ASSUME Init
    PROVE  Inv
  <1>1. PICK p \in UNION {[1 .. n -> Pieces] : n \in 0 .. MaxPieces} : file = FlattenSeq(p)
    BY DEF Init
  <1>2. PICK n \in Nat : p \in [1 .. n -> Seq(Symbols)]
    BY <1>1, ParserAssumption
  <1>3. file \in Seq(Symbols)
    BY <1>1, <1>2, FlattenIs
  <1>4. list = [i \in 1 .. Len(file) |-> [sym |-> file[i], at |-> i]]
    BY <1>3 DEF Init, Numbered
  <1>5. \A i \in 1 .. Len(file) : [sym |-> file[i], at |-> i] \in Tokens
    <2>1. Len(file) \in Nat /\ \A i \in 1 .. Len(file) : file[i] \in Symbols /\ i \in Nat
      BY <1>3
    <2>2. QED
      BY <2>1 DEF Tokens
  <1>6. list \in Seq(Tokens)
    BY <1>3, <1>4, <1>5, IsASeq
  <1>7. /\ pos = 0 /\ stack = << >> /\ bodies = << >> /\ Len(<< >>) = 0 /\ 1 .. 0 = {}
        /\ << >> \in Seq(Frames) /\ << >> \in Seq(Bodies)
    BY DEF Init
  <1>8. QED
    BY <1>6, <1>7 DEF Inv, Shape, Before, Guarded, Sorted, Placing

\* Every step keeps the invariant.
LEMMA InvNext ==
    ASSUME Inv, [Next]_vars
    PROVE  Inv'
  <1>1. CASE UNCHANGED vars
    BY <1>1, Moved DEF vars, ListSteps
  <1>2. CASE EndDeclarations
    BY <1>2, Moved DEF EndDeclarations, ListSteps
  <1>3. QED
    BY <1>1, <1>2, StepSignature, StepImpl, StepDeferBody, StepStatement, StepEndBlock,
       StepMatch, StepResync, StepDeferredBody DEF Next

\* Whatever the source: the position kept for the body of a function is that of
\* its brace when the body is parsed, though nested generic types in signatures,
\* in bodies and in parses taken back have made the list longer since
\* (QModule.cpp:475-480).
THEOREM Placed == Spec => []BodiesInPlace
  <1>1. Inv => BodiesInPlace
    <2> SUFFICES ASSUME Inv, NEW i \in DOMAIN bodies
                 PROVE  Token(list, bodies[i].pos) = [sym |-> "{", at |-> bodies[i].at]
      BY DEF BodiesInPlace
    <2>1. i \in 1 .. Len(bodies)
      BY DEF Inv, Shape
    <2>2. bodies[i].pos < Len(list) /\ list[bodies[i].pos + 1] = [sym |-> "{", at |-> bodies[i].at]
      BY <2>1 DEF Inv, Placing
    <2>3. QED
      BY <2>2 DEF Token
  <1>2. QED
    BY <1>1, InvInit, InvNext, PTL DEF Spec

-----------------------------------------------------------------------------
\* The interface.

\* The names a library may mention, and the references to them.
AllNames == {"int", "Array", "A", "B", "E", "Fs", "Fe", "f", "g", "P", "cstring"}
AllRefs == {<<n>> : n \in AllNames} \cup {<<"Array", "A">>, <<"Array", "E">>, <<"fn", "int">>}

AllKinds == {"struct", "enum", "protocol", "method", "conform", "fn"}
AllForms == {"plain", "table", "json", "generic", "fn", "init", "qualified", "extern"}
AllPlaces == {"field", "payload", "par", "ret", "body", "constraint"}
Declarations ==
    [kind : AllKinds, name : AllNames, pub : BOOLEAN, form : AllForms, at : AllPlaces, ref : AllRefs]

\* What the parser lets a declaration of each kind be.
DeclOK(d) ==
    /\ d.kind = "struct" => /\ d.name \in {"A", "B"} /\ d.at = "field"
                            /\ d.form \in {"plain", "table", "json", "generic"}
    /\ d.kind = "enum" => d.name = "E" /\ d.form = "plain" /\ d.at = "payload"
    /\ d.kind = "protocol" => d.name = "P" /\ d.form = "plain" /\ d.at \in {"par", "ret"}
    /\ d.kind = "method" => /\ d.name \in {"A", "B"} /\ d.at \in {"par", "ret", "body"}
                            /\ d.form \in {"fn", "init", "qualified", "generic"}
    /\ d.kind = "conform" => d.name \in {"A", "B"} /\ d.form = "plain" /\ d.at \in {"par", "ret"}
    /\ d.kind = "fn" => /\ d.name \in {"f", "g"}
                        /\ d.form \in {"plain", "generic", "extern", "qualified"}
                        /\ d.at \in {"par", "ret"} \/ (d.at \in {"body", "constraint"} /\ d.form = "generic")

\* No name is declared twice, no member of a struct twice.
Unique ==
    \A j, k \in DOMAIN lib :
        /\ lib[j].name = lib[k].name /\ (IsMember(lib[j]) <=> IsMember(lib[k]))
        /\ IsMember(lib[j]) => lib[j].form = lib[k].form
        => j = k

\* A member has a struct; a conformance has the types of the protocol.
HasStruct == \A k \in DOMAIN lib : IsMember(lib[k]) =>
                 \E j \in DOMAIN lib : lib[j].kind = "struct" /\ lib[j].name = lib[k].name
HasProtocol == \A k \in DOMAIN lib : lib[k].kind = "conform" =>
                   \E j \in DOMAIN lib : /\ lib[j].kind = "protocol"
                                         /\ lib[j].at = lib[k].at /\ lib[j].ref = lib[k].ref

LibInv == /\ lib \in Seq(Declarations) /\ \A k \in DOMAIN lib : DeclOK(lib[k])
          /\ Unique /\ HasStruct /\ HasProtocol

\* What the emitter writes about declaration k: its item, and the record of a
\* conformance.
Owner(k) == NumberOf(lib[k].name)
Shown(k) ==
    IF IsMember(lib[k])
    THEN /\ lib[Owner(k)].pub
         /\ \/ lib[Owner(k)].form = "generic"
            \/ lib[k].form # "generic" /\ (lib[k].pub \/ lib[k].form = "init")
    ELSE lib[k].pub
ItemKind(k) == IF IsMember(lib[k]) THEN "member" ELSE lib[k].kind
ItemPart(k) == IF IsMember(lib[k]) THEN Signature ELSE Body
Main(k) ==
    Item(ItemKind(k), k, ItemPart(k), IF Crosses(lib[k]) THEN lib[k].at ELSE "none", Verbatim(lib[k]))
Recorded(k) == lib[k].kind = "conform" /\ DeclOf("P").pub /\ lib[Owner(k)].pub
Rec(k) == Item("record", k, Record, "none", FALSE)

-----------------------------------------------------------------------------
\* The library.

\* A declaration that is not a member is found by its name.
LEMMA DeclNumber ==
    ASSUME LibInv, NEW k \in DOMAIN lib, ~ IsMember(lib[k])
    PROVE  NumberOf(lib[k].name) = k
  <1>1. PICK n : n = lib[k].name
    OBVIOUS
  <1>2. \E j \in DOMAIN lib : lib[j].name = n /\ ~ IsMember(lib[j])
    BY <1>1
  <1>3. NumberOf(n) \in DOMAIN lib /\ lib[NumberOf(n)].name = n /\ ~ IsMember(lib[NumberOf(n)])
    BY <1>2, Zenon DEF NumberOf
  <1>4. QED
    BY <1>1, <1>3 DEF LibInv, Unique

\* The owner of a member is its struct; any other declaration is its own.
LEMMA OwnerIs ==
    ASSUME LibInv, NEW k \in DOMAIN lib
    PROVE  LET o == NumberOf(lib[k].name)
           IN /\ o \in DOMAIN lib /\ lib[o].name = lib[k].name /\ ~ IsMember(lib[o])
              /\ IsMember(lib[k]) => lib[o].kind = "struct"
              /\ ~ IsMember(lib[k]) => o = k
  <1>1. CASE ~ IsMember(lib[k])
    BY <1>1, DeclNumber
  <1>2. CASE IsMember(lib[k])
    <2>1. PICK j \in DOMAIN lib : lib[j].kind = "struct" /\ lib[j].name = lib[k].name
      BY <1>2 DEF LibInv, HasStruct
    <2>2. ~ IsMember(lib[j])
      BY <2>1 DEF IsMember
    <2>3. NumberOf(lib[k].name) = j
      BY <2>1, <2>2, DeclNumber
    <2>4. QED
      BY <1>2, <2>1, <2>2, <2>3
  <1>3. QED
    BY <1>1, <1>2

\* The empty library is well-formed.
LEMMA LibInit == ASSUME InterfaceInit PROVE LibInv
  BY DEF InterfaceInit, LibInv, Unique, HasStruct, HasProtocol

\* What a longer library consists of.
LEMMA Appended ==
    ASSUME LibInv, NEW d \in Declarations, lib' = Append(lib, d)
    PROVE  /\ lib' \in Seq(Declarations) /\ Len(lib') = Len(lib) + 1 /\ Len(lib) \in Nat
           /\ DOMAIN lib' = DOMAIN lib \cup {Len(lib) + 1} /\ Len(lib) + 1 \notin DOMAIN lib
           /\ lib'[Len(lib) + 1] = d /\ \A k \in DOMAIN lib : lib'[k] = lib[k]
  <1>1. lib \in Seq(Declarations)
    BY DEF LibInv
  <1>2. QED
    BY <1>1

\* A declaration that fits is added.
LEMMA Added ==
    ASSUME LibInv, NEW d \in Declarations, DeclOK(d), lib' = Append(lib, d),
           ~ IsMember(d) => \A k \in DOMAIN lib : ~ IsMember(lib[k]) => lib[k].name # d.name,
           IsMember(d) => /\ \A k \in DOMAIN lib : IsMember(lib[k]) /\ lib[k].name = d.name =>
                                lib[k].form # d.form
                          /\ \E j \in DOMAIN lib : lib[j].kind = "struct" /\ lib[j].name = d.name,
           d.kind = "conform" => \E j \in DOMAIN lib : /\ lib[j].kind = "protocol"
                                                       /\ lib[j].at = d.at /\ lib[j].ref = d.ref
    PROVE  LibInv'
  <1>1. /\ lib' \in Seq(Declarations)
        /\ DOMAIN lib' = DOMAIN lib \cup {Len(lib) + 1} /\ Len(lib) + 1 \notin DOMAIN lib
        /\ lib'[Len(lib) + 1] = d /\ \A k \in DOMAIN lib : lib'[k] = lib[k]
    BY Appended
  <1>2. PICK n : n = Len(lib) + 1
    OBVIOUS
  <1>3. /\ DOMAIN lib' = DOMAIN lib \cup {n} /\ n \notin DOMAIN lib
        /\ lib'[n] = d /\ \A k \in DOMAIN lib : lib'[k] = lib[k]
    BY <1>1, <1>2
  <1>4. \A k \in DOMAIN lib' : DeclOK(lib'[k])
    BY <1>3 DEF LibInv
  <1>5. Unique'
    BY <1>3 DEF LibInv, Unique, IsMember
  <1>6. HasStruct'
    BY <1>3 DEF LibInv, HasStruct, IsMember
  <1>7. HasProtocol'
    BY <1>3 DEF LibInv, HasProtocol
  <1>8. QED
    BY <1>1, <1>4, <1>5, <1>6, <1>7 DEF LibInv, DeclOK

\* The fields of a declaration have their ranges.
LEMMA FieldsIn ==
    ASSUME NEW d \in Declarations
    PROVE  /\ d.kind \in AllKinds /\ d.name \in AllNames /\ d.pub \in BOOLEAN /\ d.form \in AllForms
           /\ d.at \in AllPlaces /\ d.ref \in AllRefs
  BY DEF Declarations

\* So have those of every declaration of the library.
LEMMA LibIs ==
    ASSUME LibInv, NEW k \in DOMAIN lib
    PROVE  /\ lib[k] \in Declarations /\ DeclOK(lib[k])
           /\ lib[k].kind \in AllKinds /\ lib[k].name \in AllNames /\ lib[k].pub \in BOOLEAN
           /\ lib[k].form \in AllForms /\ lib[k].at \in AllPlaces /\ lib[k].ref \in AllRefs
  <1>1. lib[k] \in Declarations /\ DeclOK(lib[k])
    BY DEF LibInv
  <1>2. QED
    BY <1>1, FieldsIn

\* References are to names that exist.
LEMMA RefsIn ==
    ASSUME NEW S \in SUBSET AllNames
    PROVE  Refs(S) \subseteq AllRefs
  BY DEF Refs, AllRefs, Plain, AllNames

\* Only names that exist are declared or known.
LEMMA DeclaresIn ==
    ASSUME LibInv
    PROVE  /\ \A kind : Declares(kind) \subseteq AllNames
           /\ Known \subseteq AllNames
  <1>1. \A k \in DOMAIN lib : lib[k] \in Declarations
    BY DEF LibInv
  <1>2. \A kind : Declares(kind) \subseteq AllNames
    BY <1>1 DEF Declares, Decls, Declarations
  <1>3. QED
    BY <1>2 DEF Known, Builtin, Foreign, AllNames

\* A name that no declaration of a kind has.
LEMMA NotDeclared ==
    ASSUME LibInv, NEW n, NEW kind, n \notin Declares(kind), NEW k \in DOMAIN lib
    PROVE  lib[k].kind = kind => lib[k].name # n
  BY DEF Declares, Decls

\* A name that some declaration of a kind has.
LEMMA IsDeclared ==
    ASSUME NEW n, NEW kind, n \in Declares(kind)
    PROVE  \E k \in DOMAIN lib : lib[k].kind = kind /\ lib[k].name = n
  BY DEF Declares, Decls

\* A lone name is a reference.
LEMMA AllRefsPlain == ASSUME NEW n \in AllNames PROVE Plain(n) \in AllRefs
  BY DEF AllRefs, Plain

\* What Decl puts together.
LEMMA DeclIn ==
    ASSUME NEW kind \in AllKinds, NEW name \in AllNames, NEW pub \in BOOLEAN, NEW form \in AllForms,
           NEW at \in AllPlaces, NEW ref \in AllRefs, NEW d, d = Decl(kind, name, pub, form, at, ref)
    PROVE  /\ d \in Declarations
           /\ d.kind = kind /\ d.name = name /\ d.pub = pub /\ d.form = form /\ d.at = at /\ d.ref = ref
  BY DEF Declarations, Decl

\* Each operation of the parser keeps the invariant of the library.
LEMMA StructAdded ==
    ASSUME LibInv, NEW n \in Structs, NEW pub \in BOOLEAN,
           NEW form \in {"plain", "table", "json", "generic"}, NEW ref, ParseStruct(n, pub, form, ref)
    PROVE  LibInv'
  <1>1. PICK d : d = Decl("struct", n, pub, form, "field", ref)
    OBVIOUS
  <1>2. ref \in AllRefs
    BY RefsIn, DeclaresIn DEF ParseStruct
  <1>3. d \in Declarations /\ DeclOK(d) /\ ~ IsMember(d) /\ d.kind = "struct" /\ d.name = n
    <2>1. /\ "struct" \in AllKinds /\ n \in AllNames /\ pub \in BOOLEAN /\ form \in AllForms
          /\ "field" \in AllPlaces /\ ref \in AllRefs
      BY <1>2 DEF AllKinds, AllNames, AllForms, AllPlaces, Structs
    <2>2. /\ d \in Declarations /\ d.kind = "struct" /\ d.name = n /\ d.pub = pub
          /\ d.form = form /\ d.at = "field" /\ d.ref = ref
      BY <2>1, <1>1, DeclIn
    <2>3. QED
      BY <2>2, <2>1, <1>2 DEF DeclOK, IsMember, Structs
  <1>4. n \notin Declares("struct") /\ lib' = Append(lib, d)
    BY <1>1 DEF ParseStruct, Known, Write
  <1>5. \A k \in DOMAIN lib : ~ IsMember(lib[k]) => lib[k].name # n
    <2> SUFFICES ASSUME NEW k \in DOMAIN lib, ~ IsMember(lib[k]), lib[k].name = n PROVE FALSE
      OBVIOUS
    <2>1. DeclOK(lib[k]) /\ lib[k].kind \in AllKinds
      BY LibIs
    <2>2. lib[k].kind = "struct"
      BY <2>1 DEF DeclOK, IsMember, AllKinds, Structs
    <2>3. QED
      BY <2>2, <1>4, NotDeclared
  <1>6. QED
    BY <1>3, <1>4, <1>5, Added

\* EnumDefinition::Parse keeps it.
LEMMA EnumAdded ==
    ASSUME LibInv, NEW pub \in BOOLEAN, NEW ref, ParseEnum(pub, ref)
    PROVE  LibInv'
  <1>1. PICK d : d = Decl("enum", "E", pub, "plain", "payload", ref)
    OBVIOUS
  <1>2. Known \cup {"E"} \subseteq AllNames /\ ref \in Refs(Known \cup {"E"})
    BY DeclaresIn DEF ParseEnum, AllNames
  <1>3. ref \in AllRefs
    BY <1>2, RefsIn
  <1>4. d \in Declarations /\ DeclOK(d) /\ ~ IsMember(d) /\ d.kind = "enum" /\ d.name = "E"
    <2>1. /\ "enum" \in AllKinds /\ "E" \in AllNames /\ pub \in BOOLEAN /\ "plain" \in AllForms
          /\ "payload" \in AllPlaces /\ ref \in AllRefs
      BY <1>3 DEF AllKinds, AllNames, AllForms, AllPlaces, Structs
    <2>2. /\ d \in Declarations /\ d.kind = "enum" /\ d.name = "E" /\ d.pub = pub
          /\ d.form = "plain" /\ d.at = "payload" /\ d.ref = ref
      BY <2>1, <1>1, DeclIn
    <2>3. QED
      BY <2>2, <2>1, <1>3 DEF DeclOK, IsMember, Structs
  <1>5. "E" \notin Declares("enum") /\ lib' = Append(lib, d)
    BY <1>1 DEF ParseEnum, Known, Write
  <1>6. \A k \in DOMAIN lib : ~ IsMember(lib[k]) => lib[k].name # "E"
    <2> SUFFICES ASSUME NEW k \in DOMAIN lib, ~ IsMember(lib[k]), lib[k].name = "E" PROVE FALSE
      OBVIOUS
    <2>1. DeclOK(lib[k]) /\ lib[k].kind \in AllKinds
      BY LibIs
    <2>2. lib[k].kind = "enum"
      BY <2>1 DEF DeclOK, IsMember, AllKinds
    <2>3. QED
      BY <2>2, <1>5, NotDeclared
  <1>7. QED
    BY <1>4, <1>5, <1>6, Added

\* The parse of a protocol keeps it.
LEMMA ProtocolAdded ==
    ASSUME LibInv, NEW pub \in BOOLEAN, NEW at \in {"par", "ret"}, NEW ref, ParseProtocol(pub, at, ref)
    PROVE  LibInv'
  <1>1. PICK d : d = Decl("protocol", "P", pub, "plain", at, ref)
    OBVIOUS
  <1>2. ref \in AllRefs
    BY RefsIn, DeclaresIn DEF ParseProtocol
  <1>3. d \in Declarations /\ DeclOK(d) /\ ~ IsMember(d) /\ d.kind = "protocol" /\ d.name = "P"
    <2>1. /\ "protocol" \in AllKinds /\ "P" \in AllNames /\ pub \in BOOLEAN
          /\ "plain" \in AllForms /\ at \in AllPlaces /\ ref \in AllRefs
      BY <1>2 DEF AllKinds, AllNames, AllForms, AllPlaces, Structs
    <2>2. /\ d \in Declarations /\ d.kind = "protocol" /\ d.name = "P" /\ d.pub = pub
          /\ d.form = "plain" /\ d.at = at /\ d.ref = ref
      BY <2>1, <1>1, DeclIn
    <2>3. QED
      BY <2>2, <2>1, <1>2 DEF DeclOK, IsMember, Structs
  <1>4. "P" \notin Declares("protocol") /\ lib' = Append(lib, d)
    BY <1>1 DEF ParseProtocol, Write
  <1>5. \A k \in DOMAIN lib : ~ IsMember(lib[k]) => lib[k].name # "P"
    <2> SUFFICES ASSUME NEW k \in DOMAIN lib, ~ IsMember(lib[k]), lib[k].name = "P" PROVE FALSE
      OBVIOUS
    <2>1. DeclOK(lib[k]) /\ lib[k].kind \in AllKinds
      BY LibIs
    <2>2. lib[k].kind = "protocol"
      BY <2>1 DEF DeclOK, IsMember, AllKinds
    <2>3. QED
      BY <2>2, <1>4, NotDeclared
  <1>6. QED
    BY <1>3, <1>4, <1>5, Added

\* ParseImplBlock keeps it when it adds a method.
LEMMA MethodAdded ==
    ASSUME LibInv, NEW s \in Structs, NEW pub \in BOOLEAN,
           NEW form \in {"fn", "init", "qualified", "generic"}, NEW at \in {"par", "ret", "body"},
           NEW ref, ParseMethod(s, pub, form, at, ref)
    PROVE  LibInv'
  <1>1. PICK d : d = Decl("method", s, pub, form, at, ref)
    OBVIOUS
  <1>2. ref \in AllRefs
    <2>1. CASE at = "body"
      <3>1. PICK n \in Known \cup Declares("fn") : ref = Plain(n)
        BY <2>1 DEF ParseMethod
      <3>2. QED
        BY <3>1, DeclaresIn, AllRefsPlain
    <2>2. CASE at # "body"
      BY <2>2, RefsIn, DeclaresIn DEF ParseMethod
    <2>3. QED
      BY <2>1, <2>2
  <1>3. /\ d \in Declarations /\ DeclOK(d) /\ IsMember(d) /\ d.kind = "method" /\ d.name = s
        /\ d.form = form
    <2>1. /\ "method" \in AllKinds /\ s \in AllNames /\ pub \in BOOLEAN /\ form \in AllForms
          /\ at \in AllPlaces /\ ref \in AllRefs
      BY <1>2 DEF AllKinds, AllNames, AllForms, AllPlaces, Structs
    <2>2. /\ d \in Declarations /\ d.kind = "method" /\ d.name = s /\ d.pub = pub
          /\ d.form = form /\ d.at = at /\ d.ref = ref
      BY <2>1, <1>1, DeclIn
    <2>3. QED
      BY <2>2, <2>1, <1>2 DEF DeclOK, IsMember, Structs
  <1>4. lib' = Append(lib, d) /\ s \in Declares("struct")
    BY <1>1 DEF ParseMethod, Write
  <1>5. \A k \in DOMAIN lib : IsMember(lib[k]) /\ lib[k].name = s => lib[k].form # form
    <2> SUFFICES ASSUME NEW k \in DOMAIN lib, IsMember(lib[k]), lib[k].name = s, lib[k].form = form
                 PROVE FALSE
      OBVIOUS
    <2>1. DeclOK(lib[k])
      BY DEF LibInv
    <2>2. lib[k].kind = "method"
      BY <2>1 DEF DeclOK, IsMember
    <2>3. lib[k] \in Decls
      BY DEF Decls
    <2>4. QED
      BY <2>2, <2>3 DEF ParseMethod
  <1>6. \E j \in DOMAIN lib : lib[j].kind = "struct" /\ lib[j].name = s
    BY <1>4, IsDeclared
  <1>7. QED
    BY <1>3, <1>4, <1>5, <1>6, Added

\* There is one protocol at most.
LEMMA ProtocolIs ==
    ASSUME LibInv, "P" \in Declares("protocol")
    PROVE  /\ NumberOf("P") \in DOMAIN lib /\ DeclOf("P") = lib[NumberOf("P")]
           /\ DeclOf("P").kind = "protocol" /\ DeclOf("P").name = "P"
           /\ \A k \in DOMAIN lib : lib[k].kind = "protocol" => k = NumberOf("P")
  <1>1. PICK j \in DOMAIN lib : lib[j].kind = "protocol" /\ lib[j].name = "P"
    BY IsDeclared
  <1>2. NumberOf("P") = j
    BY <1>1, DeclNumber DEF IsMember
  <1>3. ASSUME NEW k \in DOMAIN lib, lib[k].kind = "protocol" PROVE k = NumberOf("P")
    <2>1. lib[k].name = "P" /\ ~ IsMember(lib[k])
      BY <1>3 DEF LibInv, DeclOK, IsMember
    <2>2. QED
      BY <2>1, DeclNumber
  <1>4. QED
    BY <1>1, <1>2, <1>3 DEF DeclOf

\* ParseImplBlock keeps it when it adds a conformance, which takes the types of
\* the protocol.
LEMMA ConformanceAdded ==
    ASSUME LibInv, NEW s \in Structs, NEW pub \in BOOLEAN, ParseConformance(s, pub)
    PROVE  LibInv'
  <1>1. PICK at, ref, p : p = NumberOf("P") /\ at = DeclOf("P").at /\ ref = DeclOf("P").ref
    OBVIOUS
  <1>2. "P" \in Declares("protocol") /\ s \in Declares("struct")
    BY DEF ParseConformance
  <1>3. /\ p \in DOMAIN lib /\ lib[p].kind = "protocol" /\ lib[p].at = at /\ lib[p].ref = ref
    BY <1>1, <1>2, ProtocolIs
  <1>4. at \in {"par", "ret"} /\ ref \in AllRefs
    BY <1>3, LibIs DEF DeclOK
  <1>5. PICK d : d = Decl("conform", s, pub, "plain", at, ref)
    OBVIOUS
  <1>6. /\ d \in Declarations /\ DeclOK(d) /\ IsMember(d) /\ d.kind = "conform" /\ d.name = s
        /\ d.form = "plain" /\ d.at = at /\ d.ref = ref
    <2>1. /\ "conform" \in AllKinds /\ s \in AllNames /\ pub \in BOOLEAN /\ "plain" \in AllForms
          /\ at \in AllPlaces /\ ref \in AllRefs
      BY <1>4 DEF AllKinds, AllNames, AllForms, AllPlaces, Structs
    <2>2. /\ d \in Declarations /\ d.kind = "conform" /\ d.name = s /\ d.pub = pub
          /\ d.form = "plain" /\ d.at = at /\ d.ref = ref
      BY <2>1, <1>5, DeclIn
    <2>3. QED
      BY <2>2, <2>1, <1>4 DEF DeclOK, IsMember, Structs
  <1>7. lib' = Append(lib, d)
    BY <1>1, <1>5 DEF ParseConformance, Write
  <1>8. \A k \in DOMAIN lib : IsMember(lib[k]) /\ lib[k].name = s => lib[k].form # "plain"
    <2> SUFFICES ASSUME NEW k \in DOMAIN lib, IsMember(lib[k]), lib[k].name = s, lib[k].form = "plain"
                 PROVE FALSE
      OBVIOUS
    <2>1. DeclOK(lib[k])
      BY DEF LibInv
    <2>2. lib[k].kind = "conform"
      BY <2>1 DEF DeclOK, IsMember
    <2>3. lib[k] \in Decls
      BY DEF Decls
    <2>4. QED
      BY <2>2, <2>3 DEF ParseConformance
  <1>9. \E j \in DOMAIN lib : lib[j].kind = "struct" /\ lib[j].name = s
    BY <1>2, IsDeclared
  <1>10. QED
    BY <1>3, <1>6, <1>7, <1>8, <1>9, Added

\* FunctionDefinition::Parse keeps it.
LEMMA FunctionAdded ==
    ASSUME LibInv, NEW f \in {"f", "g"}, NEW pub \in BOOLEAN,
           NEW form \in {"plain", "generic", "extern", "qualified"},
           NEW at \in {"par", "ret", "body", "constraint"},
           NEW ref \in Refs(Known \cup {"f", "g", "P", "cstring"}), ParseFunction(f, pub, form, at, ref)
    PROVE  LibInv'
  <1>1. PICK d : d = Decl("fn", f, pub, form, at, ref)
    OBVIOUS
  <1>2. Known \cup {"f", "g", "P", "cstring"} \subseteq AllNames
    BY DeclaresIn DEF AllNames
  <1>3. ref \in AllRefs
    BY <1>2, RefsIn
  <1>4. /\ f \notin Declares("fn") /\ lib' = Append(lib, d)
        /\ at \in {"body", "constraint"} => form = "generic"
    BY <1>1 DEF ParseFunction, Write
  <1>5. d \in Declarations /\ DeclOK(d) /\ ~ IsMember(d) /\ d.kind = "fn" /\ d.name = f
    <2>1. /\ "fn" \in AllKinds /\ f \in AllNames /\ pub \in BOOLEAN /\ form \in AllForms
          /\ at \in AllPlaces /\ ref \in AllRefs
      BY <1>3, <1>4 DEF AllKinds, AllNames, AllForms, AllPlaces, Structs
    <2>2. /\ d \in Declarations /\ d.kind = "fn" /\ d.name = f /\ d.pub = pub /\ d.form = form
          /\ d.at = at /\ d.ref = ref
      BY <2>1, <1>1, DeclIn
    <2>3. QED
      BY <2>2, <2>1, <1>3, <1>4 DEF DeclOK, IsMember, Structs
  <1>6. \A k \in DOMAIN lib : ~ IsMember(lib[k]) => lib[k].name # f
    <2> SUFFICES ASSUME NEW k \in DOMAIN lib, ~ IsMember(lib[k]), lib[k].name = f PROVE FALSE
      OBVIOUS
    <2>1. DeclOK(lib[k]) /\ lib[k].kind \in AllKinds
      BY LibIs
    <2>2. lib[k].kind = "fn"
      BY <2>1 DEF DeclOK, IsMember, AllKinds
    <2>3. QED
      BY <2>2, <1>4, NotDeclared
  <1>7. QED
    BY <1>4, <1>5, <1>6, Added

\* An edit changes a reference and nothing else.
LEMMA Edited ==
    ASSUME LibInv, NEW i \in DOMAIN lib, Edit(i)
    PROVE  /\ lib' \in Seq(Declarations) /\ DOMAIN lib' = DOMAIN lib
           /\ lib'[i].ref = Nothing
           /\ \A k \in DOMAIN lib : /\ k # i => lib'[k] = lib[k]
                                    /\ lib'[k].kind = lib[k].kind /\ lib'[k].name = lib[k].name
                                    /\ lib'[k].pub = lib[k].pub /\ lib'[k].form = lib[k].form
                                    /\ lib'[k].at = lib[k].at
  <1>1. lib \in Seq(Declarations) /\ lib[i] \in Declarations
    BY DEF LibInv
  <1>2. Nothing \in AllRefs
    BY AllRefsPlain DEF Nothing, AllNames
  <1>3. lib' = [lib EXCEPT ![i].ref = Nothing]
    BY DEF Edit
  <1>4. PICK e : e = [lib[i] EXCEPT !.ref = Nothing]
    OBVIOUS
  <1>5. e \in Declarations
    BY <1>1, <1>2, <1>4 DEF Declarations
  <1>6. lib' = [lib EXCEPT ![i] = e]
    BY <1>3, <1>4
  <1>7. lib' \in Seq(Declarations) /\ DOMAIN lib' = DOMAIN lib
    BY <1>1, <1>5, <1>6
  <1>8. lib'[i] = e /\ \A k \in DOMAIN lib : k # i => lib'[k] = lib[k]
    BY <1>1, <1>6
  <1>9. /\ e.ref = Nothing /\ e.kind = lib[i].kind /\ e.name = lib[i].name /\ e.pub = lib[i].pub
        /\ e.form = lib[i].form /\ e.at = lib[i].at
    BY <1>1, <1>4 DEF Declarations
  <1>10. QED
    BY <1>7, <1>8, <1>9

\* An edit keeps it: protocols and conformances are not edited.
LEMMA EditKeeps ==
    ASSUME LibInv, NEW i \in DOMAIN lib, Edit(i)
    PROVE  LibInv'
  <1>1. /\ lib' \in Seq(Declarations) /\ DOMAIN lib' = DOMAIN lib
        /\ \A k \in DOMAIN lib : /\ k # i => lib'[k] = lib[k]
                                 /\ lib'[k].kind = lib[k].kind /\ lib'[k].name = lib[k].name
                                 /\ lib'[k].pub = lib[k].pub /\ lib'[k].form = lib[k].form
                                 /\ lib'[k].at = lib[k].at
    BY Edited
  <1>2. \A k \in DOMAIN lib' : DeclOK(lib'[k])
    BY <1>1 DEF LibInv, DeclOK
  <1>3. Unique'
    BY <1>1 DEF LibInv, Unique, IsMember
  <1>4. HasStruct'
    BY <1>1 DEF LibInv, HasStruct, IsMember
  <1>5. HasProtocol'
    <2> SUFFICES ASSUME NEW k \in DOMAIN lib, lib[k].kind = "conform"
                 PROVE  \E j \in DOMAIN lib : /\ lib'[j].kind = "protocol"
                                              /\ lib'[j].at = lib'[k].at /\ lib'[j].ref = lib'[k].ref
      BY <1>1 DEF HasProtocol
    <2>1. PICK j \in DOMAIN lib : /\ lib[j].kind = "protocol"
                                  /\ lib[j].at = lib[k].at /\ lib[j].ref = lib[k].ref
      BY DEF LibInv, HasProtocol
    <2>2. i # j /\ i # k
      BY <2>1 DEF Edit
    <2>3. QED
      BY <1>1, <2>1, <2>2
  <1>6. QED
    BY <1>1, <1>2, <1>3, <1>4, <1>5 DEF LibInv, DeclOK

\* Every step keeps it.
LEMMA LibNext == ASSUME LibInv, [InterfaceNext]_lib PROVE LibInv'
  <1>1. CASE UNCHANGED lib
    BY <1>1 DEF LibInv, Unique, HasStruct, HasProtocol, DeclOK, IsMember
  <1>2. CASE \E i \in DOMAIN lib : Edit(i)
    BY <1>2, EditKeeps
  <1>3. ASSUME NEW pub \in BOOLEAN,
               \/ \E n \in Structs, form \in {"plain", "table", "json", "generic"}, ref \in Refs(Known) :
                     ParseStruct(n, pub, form, ref)
               \/ \E ref \in Refs(Known \cup {"E"}) : ParseEnum(pub, ref)
               \/ \E at \in {"par", "ret"}, ref \in Refs(Known) : ParseProtocol(pub, at, ref)
               \/ \E s \in Structs : ParseConformance(s, pub)
        PROVE  LibInv'
    BY <1>3, StructAdded, EnumAdded, ProtocolAdded, ConformanceAdded
  <1>4. ASSUME NEW pub \in BOOLEAN, NEW s \in Structs, NEW form \in {"fn", "init", "qualified", "generic"},
               NEW at \in {"par", "ret", "body"}, NEW ref, ParseMethod(s, pub, form, at, ref)
        PROVE  LibInv'
    BY <1>4, MethodAdded
  <1>5. ASSUME NEW pub \in BOOLEAN, NEW f \in {"f", "g"},
               NEW form \in {"plain", "generic", "extern", "qualified"},
               NEW at \in {"par", "ret", "body", "constraint"},
               NEW ref \in Refs(Known \cup {"f", "g", "P", "cstring"}),
               ParseFunction(f, pub, form, at, ref)
        PROVE  LibInv'
    BY <1>5, FunctionAdded
  <1>6. CASE InterfaceNext
    <2>1. CASE ~ \E i \in DOMAIN lib : Edit(i)
      <3>1. PICK pub \in BOOLEAN :
          \/ \E n \in Structs, form \in {"plain", "table", "json", "generic"}, ref \in Refs(Known) :
                ParseStruct(n, pub, form, ref)
          \/ \E ref \in Refs(Known \cup {"E"}) : ParseEnum(pub, ref)
          \/ \E at \in {"par", "ret"}, ref \in Refs(Known) : ParseProtocol(pub, at, ref)
          \/ \E s \in Structs, form \in {"fn", "init", "qualified", "generic"} :
                \E at \in {"par", "ret", "body"}, ref \in Refs(Known \cup Declares("fn")) :
                   ParseMethod(s, pub, form, at, ref)
          \/ \E s \in Structs : ParseConformance(s, pub)
          \/ \E f \in {"f", "g"}, form \in {"plain", "generic", "extern", "qualified"} :
                \E at \in {"par", "ret", "body", "constraint"},
                   ref \in Refs(Known \cup {"f", "g", "P", "cstring"}) :
                   ParseFunction(f, pub, form, at, ref)
        BY <1>6, <2>1, Zenon DEF InterfaceNext
      <3>2. CASE \E s \in Structs, form \in {"fn", "init", "qualified", "generic"} :
                   \E at \in {"par", "ret", "body"}, ref \in Refs(Known \cup Declares("fn")) :
                      ParseMethod(s, pub, form, at, ref)
        BY <3>2, <1>4
      <3>3. CASE \E f \in {"f", "g"}, form \in {"plain", "generic", "extern", "qualified"} :
                   \E at \in {"par", "ret", "body", "constraint"},
                      ref \in Refs(Known \cup {"f", "g", "P", "cstring"}) :
                      ParseFunction(f, pub, form, at, ref)
        <4>1. PICK f \in {"f", "g"}, form \in {"plain", "generic", "extern", "qualified"},
                   at \in {"par", "ret", "body", "constraint"},
                   ref \in Refs(Known \cup {"f", "g", "P", "cstring"}) :
                   ParseFunction(f, pub, form, at, ref)
          BY <3>3
        <4>2. QED
          BY <4>1, FunctionAdded
      <3>4. QED
        BY <3>1, <3>2, <3>3, <1>3, Zenon
    <2>2. QED
      BY <1>2, <2>1
  <1>7. QED
    BY <1>1, <1>6

\* The library is well-formed in every reachable state.
LEMMA LibAlways == InterfaceSpec => []LibInv
  BY LibInit, LibNext, PTL DEF InterfaceSpec

-----------------------------------------------------------------------------
\* The file.

\* What crosses the boundary, by kind.
LEMMA CrossesIs ==
    ASSUME LibInv, NEW k \in DOMAIN lib
    PROVE  /\ ~ IsMember(lib[k]) =>
                /\ Verbatim(lib[k]) <=> lib[k].kind = "fn" /\ lib[k].form = "generic"
                /\ Crosses(lib[k]) <=> lib[k].pub /\ (lib[k].kind = "struct" => lib[k].form # "plain")
           /\ IsMember(lib[k]) =>
                /\ Verbatim(lib[k]) <=> lib[Owner(k)].form = "generic"
                /\ Crosses(lib[k]) <=>
                     /\ lib[Owner(k)].pub
                     /\ \/ lib[Owner(k)].form = "generic"
                        \/ /\ lib[k].pub \/ lib[k].form = "init"
                           /\ lib[k].at # "body" /\ lib[k].form # "generic"
           /\ Verbatim(lib[k]) \in BOOLEAN
  <1>1. DeclOK(lib[k]) /\ lib[k].kind \in AllKinds
    BY LibIs
  <1>2. DeclOf(lib[k].name) = lib[Owner(k)]
    BY DEF DeclOf, Owner
  <1>3. CASE ~ IsMember(lib[k])
    <2>1. Verbatim(lib[k]) <=> lib[k].kind = "fn" /\ lib[k].form = "generic"
      BY <1>3 DEF Verbatim
    <2>2. Ships(lib[k]) <=> lib[k].pub
      BY <1>3 DEF Ships
    <2>3. QED
      BY <1>1, <1>3, <2>1, <2>2 DEF Crosses, DeclOK, AllKinds, IsMember, Verbatim
  <1>4. CASE IsMember(lib[k])
    <2>1. Verbatim(lib[k]) <=> lib[Owner(k)].form = "generic"
      BY <1>2, <1>4 DEF Verbatim
    <2>2. Ships(lib[k]) <=> lib[k].pub \/ lib[k].form = "init" \/ lib[Owner(k)].form = "generic"
      BY <1>2, <1>4 DEF Ships
    <2>3. lib[k].kind # "struct"
      BY <1>4 DEF IsMember
    <2>4. QED
      BY <1>2, <1>4, <2>1, <2>2, <2>3 DEF Crosses, Verbatim
  <1>5. QED
    BY <1>3, <1>4

\* What crosses the boundary has an item in the file.
LEMMA CrossesShown ==
    ASSUME LibInv, NEW k \in DOMAIN lib, Crosses(lib[k])
    PROVE  Shown(k)
  BY CrossesIs DEF Shown

\* The members of a struct are the declarations it owns.
LEMMA MembersAre ==
    ASSUME LibInv, NEW j \in DOMAIN lib, lib[j].kind = "struct", NEW k
    PROVE  k \in Members(lib[j]) <=> k \in DOMAIN lib /\ IsMember(lib[k]) /\ Owner(k) = j
  <1>1. ~ IsMember(lib[j])
    BY DEF IsMember
  <1>2. NumberOf(lib[j].name) = j
    BY <1>1, DeclNumber
  <1>3. ASSUME k \in DOMAIN lib, IsMember(lib[k]), Owner(k) = j
        PROVE  lib[k].name = lib[j].name
    BY <1>3, OwnerIs DEF Owner
  <1>4. QED
    BY <1>2, <1>3 DEF Members, Owner

\* The item of a declaration that is not a member.
LEMMA EmitOther ==
    ASSUME LibInv, NEW k \in DOMAIN lib, ~ IsMember(lib[k]), lib[k].kind # "struct"
    PROVE  EmitDecl(k) = IF Shown(k) THEN {Main(k)} ELSE {}
  <1>1. DeclOK(lib[k]) /\ lib[k].kind \in AllKinds /\ lib[k].pub \in BOOLEAN
    BY LibIs
  <1>2. /\ Verbatim(lib[k]) <=> lib[k].kind = "fn" /\ lib[k].form = "generic"
        /\ Crosses(lib[k]) <=> lib[k].pub
        /\ Verbatim(lib[k]) \in BOOLEAN
    BY CrossesIs
  <1>3. Shown(k) <=> lib[k].pub
    BY DEF Shown
  <1>4. ItemKind(k) = lib[k].kind /\ ItemPart(k) = Body
    BY DEF ItemKind, ItemPart
  <1>5. CASE lib[k].kind = "protocol"
    <2>1. EmitDecl(k) = EmitProtocol(k) /\ Verbatim(lib[k]) = FALSE
      BY <1>2, <1>5 DEF EmitDecl
    <2>2. lib[k].pub => Main(k) = Item("protocol", k, Body, lib[k].at, FALSE)
      BY <1>2, <1>4, <1>5, <2>1 DEF Main
    <2>3. QED
      BY <2>1, <2>2, <1>3 DEF EmitProtocol
  <1>6. CASE lib[k].kind = "enum"
    <2>1. EmitDecl(k) = EmitEnum(k) /\ Verbatim(lib[k]) = FALSE /\ lib[k].at = "payload"
      BY <1>1, <1>2, <1>6 DEF EmitDecl, DeclOK
    <2>2. lib[k].pub => Main(k) = Item("enum", k, Body, "payload", FALSE)
      BY <1>2, <1>4, <1>6, <2>1 DEF Main
    <2>3. QED
      BY <2>1, <2>2, <1>3 DEF EmitEnum
  <1>7. CASE lib[k].kind = "fn"
    <2>1. EmitDecl(k) = EmitFunction(k) /\ Verbatim(lib[k]) = (lib[k].form = "generic")
      BY <1>2, <1>7 DEF EmitDecl
    <2>2. (IF lib[k].form = "generic" THEN lib[k].at ELSE Sig(lib[k])) = lib[k].at
      BY <1>1, <1>7 DEF DeclOK, Sig
    <2>3. lib[k].pub => Main(k) = Item("fn", k, Body, lib[k].at, lib[k].form = "generic")
      BY <1>2, <1>4, <1>7, <2>1 DEF Main
    <2>4. QED
      BY <2>1, <2>2, <2>3, <1>3 DEF EmitFunction
  <1>8. QED
    BY <1>1, <1>5, <1>6, <1>7 DEF AllKinds, IsMember

\* The items of a struct: its own, its members' and the records.
LEMMA EmitStructs ==
    ASSUME LibInv, NEW j \in DOMAIN lib, lib[j].kind = "struct", NEW x
    PROVE  x \in EmitDecl(j) <=>
             /\ lib[j].pub
             /\ \/ x = Main(j)
                \/ \E k \in DOMAIN lib : IsMember(lib[k]) /\ Owner(k) = j /\ Shown(k) /\ x = Main(k)
                \/ \E k \in DOMAIN lib : Owner(k) = j /\ Recorded(k) /\ x = Rec(k)
  <1>1. DeclOK(lib[j]) /\ ~ IsMember(lib[j])
    BY LibIs DEF IsMember
  <1>2. EmitDecl(j) = EmitStruct(j)
    BY DEF EmitDecl
  <1>3. lib[j].pub => EmitFields(j) = {Main(j)}
    <2>1. Verbatim(lib[j]) = FALSE
      BY <1>1, CrossesIs
    <2>2. lib[j].pub => (Crosses(lib[j]) <=> lib[j].form # "plain")
      BY <1>1, CrossesIs
    <2>3. ItemKind(j) = "struct" /\ ItemPart(j) = Body /\ lib[j].at = "field"
      BY <1>1 DEF ItemKind, ItemPart, DeclOK
    <2>4. lib[j].form = "generic" \/ IsDataContractStruct(lib[j]) <=> lib[j].form # "plain"
      BY <1>1 DEF IsDataContractStruct, DeclOK
    <2>5. QED
      BY <2>1, <2>2, <2>3, <2>4 DEF EmitFields, Main
  <1>4. \A k : k \in Members(lib[j]) <=> k \in DOMAIN lib /\ IsMember(lib[k]) /\ Owner(k) = j
    BY MembersAre
  <1>5. ASSUME NEW k \in Members(lib[j]), lib[j].pub
        PROVE  /\ lib[j].form = "generic" => Shown(k) /\ Main(k) = Item("member", k, Signature, lib[k].at, TRUE)
               /\ lib[j].form # "generic" =>
                    /\ Shown(k) <=> lib[k].form # "generic" /\ (lib[k].pub \/ lib[k].form = "init")
                    /\ Shown(k) => Main(k) = Item("member", k, Signature, Sig(lib[k]), FALSE)
    <2>1. k \in DOMAIN lib /\ IsMember(lib[k]) /\ Owner(k) = j
      BY <1>4, <1>5
    <2>2. /\ Verbatim(lib[k]) = (lib[j].form = "generic")
          /\ Crosses(lib[k]) <=> \/ lib[j].form = "generic"
                                 \/ /\ lib[k].pub \/ lib[k].form = "init"
                                    /\ lib[k].at # "body" /\ lib[k].form # "generic"
      BY <2>1, <1>5, CrossesIs
    <2>3. Shown(k) <=> \/ lib[j].form = "generic"
                       \/ lib[k].form # "generic" /\ (lib[k].pub \/ lib[k].form = "init")
      BY <2>1, <1>5 DEF Shown
    <2>4. ItemKind(k) = "member" /\ ItemPart(k) = Signature
      BY <2>1 DEF ItemKind, ItemPart
    <2>5. CASE lib[j].form = "generic"
      BY <2>2, <2>3, <2>4, <2>5 DEF Main
    <2>6. CASE lib[j].form # "generic"
      <3>1. Shown(k) => (IF Crosses(lib[k]) THEN lib[k].at ELSE "none") = Sig(lib[k])
        BY <2>2, <2>3, <2>6 DEF Sig
      <3>2. QED
        BY <2>2, <2>3, <2>4, <2>6, <3>1 DEF Main
    <2>7. QED
      BY <2>5, <2>6
  <1>6. lib[j].pub => (x \in EmitStructInterface(j) <=>
                          \E k \in Members(lib[j]) : Shown(k) /\ x = Main(k))
    BY <1>5 DEF EmitStructInterface
  <1>7. lib[j].pub => (x \in EmitConformances(j) <=>
                          \E k \in Members(lib[j]) : Recorded(k) /\ x = Rec(k))
    BY <1>4 DEF EmitConformances, Recorded, Rec
  <1>8. \A k \in DOMAIN lib : Recorded(k) => IsMember(lib[k])
    BY DEF Recorded, IsMember
  <1>9. QED
    BY <1>2, <1>3, <1>4, <1>6, <1>7, <1>8 DEF EmitStruct

\* The file holds the items of the declarations it shows and the records.
LEMMA EmitIs ==
    ASSUME LibInv, NEW x
    PROVE  x \in Emit <=> \/ \E k \in DOMAIN lib : Shown(k) /\ x = Main(k)
                          \/ \E k \in DOMAIN lib : Recorded(k) /\ x = Rec(k)
  <1>1. \A j \in DOMAIN lib : ~ IsMember(lib[j]) /\ lib[j].kind # "struct" =>
            EmitDecl(j) = IF Shown(j) THEN {Main(j)} ELSE {}
    BY EmitOther
  <1>2. \A j \in DOMAIN lib : lib[j].kind = "struct" =>
            (x \in EmitDecl(j) <=>
             /\ lib[j].pub
             /\ \/ x = Main(j)
                \/ \E k \in DOMAIN lib : IsMember(lib[k]) /\ Owner(k) = j /\ Shown(k) /\ x = Main(k)
                \/ \E k \in DOMAIN lib : Owner(k) = j /\ Recorded(k) /\ x = Rec(k))
    BY EmitStructs
  <1>3. \A j \in DOMAIN lib : IsMember(lib[j]) => EmitDecl(j) = {}
    BY DEF EmitDecl, IsMember
  <1>4. \A k \in DOMAIN lib : IsMember(lib[k]) => Owner(k) \in DOMAIN lib /\ lib[Owner(k)].kind = "struct"
    BY OwnerIs DEF Owner
  <1>5. \A k \in DOMAIN lib : /\ Recorded(k) => IsMember(lib[k]) /\ lib[Owner(k)].pub
                              /\ Shown(k) /\ IsMember(lib[k]) => lib[Owner(k)].pub
                              /\ ~ IsMember(lib[k]) => (Shown(k) <=> lib[k].pub)
                              /\ lib[k].kind = "struct" => ~ IsMember(lib[k])
    BY DEF Recorded, Shown, IsMember
  <1>6. x \in Emit <=> \E j \in DOMAIN lib : x \in EmitDecl(j)
    BY DEF Emit
  <1>7. ASSUME NEW j \in DOMAIN lib, x \in EmitDecl(j)
        PROVE  \/ \E k \in DOMAIN lib : Shown(k) /\ x = Main(k)
               \/ \E k \in DOMAIN lib : Recorded(k) /\ x = Rec(k)
    BY <1>1, <1>2, <1>3, <1>5, <1>7
  <1>8. ASSUME NEW k \in DOMAIN lib, Shown(k), x = Main(k)
        PROVE  \E j \in DOMAIN lib : x \in EmitDecl(j)
    BY <1>1, <1>2, <1>4, <1>5, <1>8
  <1>9. ASSUME NEW k \in DOMAIN lib, Recorded(k), x = Rec(k)
        PROVE  \E j \in DOMAIN lib : x \in EmitDecl(j)
    BY <1>2, <1>4, <1>5, <1>9
  <1>10. QED
    BY <1>6, <1>7, <1>8, <1>9

\* The fields of the items.
LEMMA MainIs ==
    ASSUME NEW k \in DOMAIN lib
    PROVE  /\ Main(k).place = <<Section(lib[k].kind), Owner(k), ItemPart(k), k>>
           /\ Main(k).kind = ItemKind(k) /\ Main(k).name = lib[k].name /\ Main(k).form = lib[k].form
           /\ Main(k).sliced = Verbatim(lib[k])
           /\ Crosses(lib[k]) /\ lib[k].at # "none" => Main(k).at = lib[k].at /\ Main(k).ref = lib[k].ref
           /\ ~ Crosses(lib[k]) => Main(k).at = "none" /\ Main(k).ref = Nothing
           /\ Main(k).quals = IF lib[k].form = "qualified" /\ ~ Verbatim(lib[k]) THEN "none" ELSE lib[k].form
  BY DEF Main, Item, Owner

\* The fields of the records.
LEMMA RecIs ==
    ASSUME NEW k \in DOMAIN lib
    PROVE  /\ Rec(k).place = <<Section(lib[k].kind), Owner(k), Record, k>>
           /\ Rec(k).kind = "record" /\ Rec(k).name = lib[k].name /\ Rec(k).at = "none"
           /\ Rec(k).ref = Nothing
  BY DEF Rec, Item, Owner

\* The sections of the file are the ranks the properties speak of.
LEMMA RankIs ==
    ASSUME LibInv, NEW k \in DOMAIN lib
    PROVE  Section(lib[k].kind) = Rank(lib[k]) /\ Rank(lib[k]) \in 1 .. 4
  <1>1. lib[k].kind \in AllKinds
    BY LibIs
  <1>2. QED
    BY <1>1 DEF Section, Rank, IsMember, AllKinds

\* Precedes compares places from the left.
LEMMA Lexicographic ==
    ASSUME NEW a \in Nat, NEW b \in Nat, NEW c \in Nat, NEW d \in Nat,
           NEW p \in Nat, NEW q \in Nat, NEW r \in Nat, NEW s \in Nat,
           NEW x, NEW y, x.place = <<a, b, c, d>>, y.place = <<p, q, r, s>>
    PROVE  Precedes(x, y) <=>
             \/ a < p
             \/ a = p /\ b < q
             \/ a = p /\ b = q /\ c < r
             \/ a = p /\ b = q /\ c = r /\ d < s
  <1>1. /\ x.place[1] = a /\ x.place[2] = b /\ x.place[3] = c /\ x.place[4] = d
        /\ y.place[1] = p /\ y.place[2] = q /\ y.place[3] = r /\ y.place[4] = s
    OBVIOUS
  <1>2. \A i \in 1 .. 4 : i = 1 \/ i = 2 \/ i = 3 \/ i = 4
    OBVIOUS
  <1>3. /\ \A j : j \in 1 .. 1 - 1 <=> FALSE
        /\ \A j : j \in 1 .. 2 - 1 <=> j = 1
        /\ \A j : j \in 1 .. 3 - 1 <=> j = 1 \/ j = 2
        /\ \A j : j \in 1 .. 4 - 1 <=> j = 1 \/ j = 2 \/ j = 3
        /\ 1 \in 1 .. 4 /\ 2 \in 1 .. 4 /\ 3 \in 1 .. 4 /\ 4 \in 1 .. 4
    OBVIOUS
  <1>4. Precedes(x, y) <=>
          \/ x.place[1] < y.place[1] /\ \A j \in 1 .. 1 - 1 : x.place[j] = y.place[j]
          \/ x.place[2] < y.place[2] /\ \A j \in 1 .. 2 - 1 : x.place[j] = y.place[j]
          \/ x.place[3] < y.place[3] /\ \A j \in 1 .. 3 - 1 : x.place[j] = y.place[j]
          \/ x.place[4] < y.place[4] /\ \A j \in 1 .. 4 - 1 : x.place[j] = y.place[j]
    BY <1>2, <1>3 DEF Precedes
  <1>5. QED
    BY <1>1, <1>3, <1>4

\* A type stands above an item in the file when it does in the library.
LEMMA PrecedesIs ==
    ASSUME LibInv, NEW j \in DOMAIN lib, ~ IsMember(lib[j]), NEW k \in DOMAIN lib
    PROVE  Precedes(Main(j), Main(k)) <=>
             \/ Rank(lib[j]) < Rank(lib[k])
             \/ Rank(lib[j]) = Rank(lib[k]) /\ (j < Owner(k) \/ (j = Owner(k) /\ IsMember(lib[k])))
  <1>1. lib \in Seq(Declarations)
    BY DEF LibInv
  <1>2. j \in Nat /\ k \in Nat
    BY <1>1
  <1>3. Owner(j) = j /\ Owner(k) \in DOMAIN lib /\ (~ IsMember(lib[k]) => Owner(k) = k)
    BY OwnerIs DEF Owner
  <1>4. Owner(k) \in Nat
    BY <1>1, <1>3
  <1>5. Rank(lib[j]) \in Nat /\ Rank(lib[k]) \in Nat
    BY RankIs
  <1>6. Main(j).place = <<Rank(lib[j]), j, 0, j>>
    BY <1>3, MainIs, RankIs DEF ItemPart, Body
  <1>7. Main(k).place = <<Rank(lib[k]), Owner(k), ItemPart(k), k>>
    BY MainIs, RankIs
  <1>8. ItemPart(k) = (IF IsMember(lib[k]) THEN 1 ELSE 0) /\ ItemPart(k) \in Nat
    BY DEF ItemPart, Body, Signature
  <1>9. Precedes(Main(j), Main(k)) <=>
             \/ Rank(lib[j]) < Rank(lib[k])
             \/ Rank(lib[j]) = Rank(lib[k]) /\ j < Owner(k)
             \/ Rank(lib[j]) = Rank(lib[k]) /\ j = Owner(k) /\ 0 < ItemPart(k)
             \/ Rank(lib[j]) = Rank(lib[k]) /\ j = Owner(k) /\ 0 = ItemPart(k) /\ j < k
    <2>1. PICK x, y, a, p, o, t : /\ x = Main(j) /\ y = Main(k) /\ a = Rank(lib[j]) /\ p = Rank(lib[k])
                                  /\ o = Owner(k) /\ t = ItemPart(k)
      OBVIOUS
    <2>2. /\ a \in Nat /\ p \in Nat /\ o \in Nat /\ t \in Nat /\ 0 \in Nat
          /\ x.place = <<a, j, 0, j>> /\ y.place = <<p, o, t, k>>
      BY <2>1, <1>4, <1>5, <1>6, <1>7, <1>8
    <2>3. Precedes(x, y) <=> \/ a < p
                             \/ a = p /\ j < o
                             \/ a = p /\ j = o /\ 0 < t
                             \/ a = p /\ j = o /\ 0 = t /\ j < k
      BY <1>2, <2>2, Lexicographic
    <2>4. QED
      BY <2>1, <2>3
  <1>10. QED
    BY <1>2, <1>3, <1>8, <1>9

-----------------------------------------------------------------------------
\* What a consumer knows and reads.

\* A reference is a lone name, an Array or a function type.
LEMMA RefShape ==
    ASSUME NEW t \in AllRefs
    PROVE  \/ t[1] \in AllNames /\ Len(t) = 1 /\ Names(t) = {t[1]} /\ t = <<t[1]>>
           \/ t[1] = "Array" /\ Len(t) = 2 /\ Names(t) = {"Array", t[2]} /\ t[2] \in {"A", "E"}
           \/ t[1] = "fn" /\ Len(t) = 2 /\ Names(t) = {"fn", "int"}
  <1>1. CASE \E n \in AllNames : t = <<n>>
    BY <1>1 DEF Names
  <1>2. ASSUME NEW n, NEW m, t = <<n, m>> PROVE t[1] = n /\ t[2] = m /\ Len(t) = 2 /\ Names(t) = {n, m}
    BY <1>2 DEF Names
  <1>3. QED
    BY <1>1, <1>2 DEF AllRefs

\* The header lists the foreign structs that cross in a signature.
LEMMA ForeignIs ==
    ASSUME LibInv, NEW n
    PROVE  n \in ForeignTypes <=> n = "Fs" /\ Listed(n)
  <1>1. \A d \in Decls : d.ref \in AllRefs
    BY LibIs DEF Decls
  <1>2. \A d \in Decls : "Fs" \in Names(d.ref) => d.ref[1] # "fn"
    BY <1>1, RefShape
  <1>3. \A d \in Decls : "Fs" \in CollectTypeNames(d) <=> d.at \in {"par", "ret"} /\ "Fs" \in Names(d.ref)
    BY <1>2 DEF CollectTypeNames
  <1>4. QED
    BY <1>3 DEF ForeignTypes, Listed

\* A name that some declaration other than a member has.
LEMMA DeclaredIs ==
    ASSUME LibInv, NEW n
    PROVE  n \in UNION {Declares(k) : k \in {"struct", "enum", "protocol", "fn"}} <=>
             \E j \in DOMAIN lib : ~ IsMember(lib[j]) /\ lib[j].name = n
  <1>1. \A j \in DOMAIN lib : ~ IsMember(lib[j]) <=> lib[j].kind \in {"struct", "enum", "protocol", "fn"}
    BY LibIs DEF AllKinds, IsMember
  <1>2. \A k : n \in Declares(k) <=> \E j \in DOMAIN lib : lib[j].kind = k /\ lib[j].name = n
    BY DEF Declares, Decls
  <1>3. QED
    BY <1>1, <1>2

\* An item other than a member's makes its name known.
LEMMA DefinesIs ==
    ASSUME LibInv, NEW k \in DOMAIN lib
    PROVE  /\ Defines(Main(k)) = IF IsMember(lib[k]) THEN {} ELSE {lib[k].name}
           /\ Defines(Rec(k)) = {}
  <1>1. ~ IsMember(lib[k]) => lib[k].kind \in {"struct", "enum", "protocol", "fn"}
    BY LibIs DEF AllKinds, IsMember
  <1>2. QED
    BY <1>1, MainIs, RecIs DEF Defines, ItemKind

\* What item x declares is known at item y.
Sight(x, y) == \/ Precedes(x, y)
               \/ x = y /\ y.kind = "enum"
               \/ y.kind = "fn" /\ y.at = "body"

\* A type is visible at an item that crosses when it is above it.
LEMMA SightIs ==
    ASSUME LibInv, NEW j \in DOMAIN lib, ~ IsMember(lib[j]), NEW k \in DOMAIN lib, Crosses(lib[k])
    PROVE  Sight(Main(j), Main(k)) <=> Above(lib[j], lib[k])
  <1>1. Owner(j) = j /\ (~ IsMember(lib[k]) => Owner(k) = k)
    BY OwnerIs DEF Owner
  <1>2. Main(k).kind = ItemKind(k) /\ Main(k).at = lib[k].at
    BY MainIs, LibIs DEF AllPlaces
  <1>3. Main(j) = Main(k) <=> j = k
    <2>1. Main(j).place[4] = j /\ Main(k).place[4] = k
      BY MainIs
    <2>2. QED
      BY <2>1
  <1>4. ItemKind(k) = "enum" <=> lib[k].kind = "enum"
    BY DEF ItemKind, IsMember
  <1>5. ItemKind(k) = "fn" <=> lib[k].kind = "fn"
    BY DEF ItemKind, IsMember
  <1>6. lib[k].kind = "enum" => Owner(k) = k
    BY <1>1 DEF IsMember
  <1>7. lib[k].kind = "enum" /\ j = k => Rank(lib[j]) = Rank(lib[k])
    OBVIOUS
  <1>8. ASSUME lib[k].kind = "enum", j = Owner(k) PROVE j = k
    BY <1>6, <1>8
  <1>9. Above(lib[j], lib[k]) <=>
          \/ Rank(lib[j]) < Rank(lib[k])
          \/ Rank(lib[j]) = Rank(lib[k]) /\ (j < Owner(k) \/ (j = Owner(k) /\ (IsMember(lib[k]) \/ lib[k].kind = "enum")))
          \/ lib[k].kind = "fn" /\ lib[k].at = "body"
    BY <1>1 DEF Above, Owner
  <1>10. QED
    BY <1>2, <1>3, <1>4, <1>5, <1>6, <1>8, <1>9, PrecedesIs DEF Sight

\* The names known at an item that crosses are those that resolve.
LEMMA KnownIs ==
    ASSUME LibInv, NEW k \in DOMAIN lib, Crosses(lib[k]), NEW n
    PROVE  n \in KnownAt(Emit, Main(k)) <=> Resolves(n, lib[k])
  <1>1. n \in KnownAt(Emit, Main(k)) <=>
          \/ n \in Builtin \/ n \in ForeignTypes
          \/ \E x \in Emit : Sight(x, Main(k)) /\ n \in Defines(x)
    BY DEF KnownAt, Sight
  <1>2. ASSUME NEW x \in Emit, Sight(x, Main(k)), n \in Defines(x)
        PROVE  \E j \in DOMAIN lib : /\ ~ IsMember(lib[j]) /\ lib[j].name = n /\ lib[j].pub
                                     /\ Above(lib[j], lib[k])
    <2>1. CASE \E j \in DOMAIN lib : Shown(j) /\ x = Main(j)
      <3>1. PICK j \in DOMAIN lib : Shown(j) /\ x = Main(j)
        BY <2>1
      <3>2. ~ IsMember(lib[j]) /\ lib[j].name = n
        BY <1>2, <3>1, DefinesIs
      <3>3. lib[j].pub
        BY <3>1, <3>2 DEF Shown
      <3>4. Above(lib[j], lib[k])
        BY <1>2, <3>1, <3>2, SightIs
      <3>5. QED
        BY <3>2, <3>3, <3>4
    <2>2. CASE \E j \in DOMAIN lib : Recorded(j) /\ x = Rec(j)
      BY <1>2, <2>2, DefinesIs
    <2>3. QED
      BY <2>1, <2>2, EmitIs
  <1>3. ASSUME NEW j \in DOMAIN lib, ~ IsMember(lib[j]), lib[j].name = n, lib[j].pub, Above(lib[j], lib[k])
        PROVE  \E x \in Emit : Sight(x, Main(k)) /\ n \in Defines(x)
    <2>1. Shown(j)
      BY <1>3 DEF Shown
    <2>2. Main(j) \in Emit
      BY <2>1, EmitIs
    <2>3. Sight(Main(j), Main(k)) /\ n \in Defines(Main(j))
      BY <1>3, SightIs, DefinesIs
    <2>4. QED
      BY <2>2, <2>3
  <1>4. n \in UNION {Declares(kind) : kind \in {"struct", "enum", "protocol", "fn"}}
            /\ DeclOf(n).pub /\ Above(DeclOf(n), lib[k]) <=>
          \E j \in DOMAIN lib : /\ ~ IsMember(lib[j]) /\ lib[j].name = n /\ lib[j].pub
                                /\ Above(lib[j], lib[k])
    <2>1. ASSUME NEW j \in DOMAIN lib, ~ IsMember(lib[j]), lib[j].name = n PROVE DeclOf(n) = lib[j]
      BY <2>1, DeclNumber DEF DeclOf
    <2>2. QED
      BY <2>1, DeclaredIs
  <1>5. n \in ForeignTypes <=> n = "Fs" /\ Listed(n)
    BY ForeignIs
  <1>6. QED
    BY <1>1, <1>2, <1>3, <1>4, <1>5 DEF Resolves

\* The outcome of an item that crosses, in terms of the library.
LEMMA OutcomeIs ==
    ASSUME LibInv, NEW k \in DOMAIN lib, Crosses(lib[k])
    PROVE  /\ Outcome(Emit, Main(k)) \in {"ok", "void", "error", "crash"}
           /\ Outcome(Emit, Main(k)) = "void" <=> LosesReturn(lib[k])
           /\ Outcome(Emit, Main(k)) \in {"error", "crash"} <=>
                FunctionType(lib[k]) \/ CString(lib[k]) \/ Dangles(lib[k])
  <1>1. PICK d, t, it, known : d = lib[k] /\ t = d.ref /\ it = Main(k) /\ known = KnownAt(Emit, Main(k))
    OBVIOUS
  <1>2. d.at \in AllPlaces /\ t \in AllRefs /\ DeclOK(d)
    BY <1>1, LibIs
  <1>3. it.at = d.at /\ it.ref = t /\ it.form = d.form /\ it.sliced = Verbatim(d)
    BY <1>1, <1>2, MainIs DEF AllPlaces
  <1>4. \A n : n \in known <=> Resolves(n, d)
    BY <1>1, KnownIs
  <1>5. Resolves("int", d) /\ Resolves("Array", d)
    BY DEF Resolves, Builtin
  <1>6. PICK p : p = ParseType(t, known, Verbatim(d))
    OBVIOUS
  <1>7. Outcome(Emit, Main(k)) = IF t = Nothing THEN "ok" ELSE ReadItem(it, known)
    BY <1>1, <1>3 DEF Outcome
  <1>8. ReadItem(it, known) =
          CASE d.at \in {"field", "payload", "body", "constraint"} -> IF p = "unknown" THEN "error" ELSE p
            [] d.at = "par" -> IF p = "unknown" THEN IF d.form = "init" THEN "crash" ELSE "error" ELSE p
            [] d.at = "ret" -> IF p = "unknown" THEN "void" ELSE p
    BY <1>2, <1>3, <1>6 DEF ReadItem, AllPlaces
  <1>9. /\ p \in {"ok", "error", "unknown"}
        /\ p = "unknown" <=> Len(t) = 1 /\ ~ Resolves(t[1], d) /\ t[1] # "cstring"
        /\ p = "error" <=> \/ t[1] = "fn" /\ ~ Verbatim(d)
                           \/ t[1] = "cstring"
                           \/ Len(t) # 1 /\ t[1] # "fn" /\ \E n \in Names(t) : ~ Resolves(n, d)
    <2>1. CASE t[1] = "fn"
      <3>1. Len(t) # 1
        BY <2>1, <1>2, RefShape DEF AllNames
      <3>2. QED
        BY <2>1, <3>1, <1>6 DEF ParseType
    <2>2. CASE t[1] = "cstring"
      <3>1. p = "error"
        BY <2>2, <1>6 DEF ParseType
      <3>2. QED
        BY <2>2, <3>1
    <2>3. CASE t[1] \notin {"fn", "cstring"} /\ Len(t) = 1
      BY <2>3, <1>4, <1>6 DEF ParseType
    <2>4. CASE t[1] \notin {"fn", "cstring"} /\ Len(t) # 1
      BY <2>4, <1>4, <1>6 DEF ParseType
    <2>5. QED
      BY <2>1, <2>2, <2>3, <2>4
  <1>10. Len(t) = 1 => Names(t) = {t[1]} /\ t[1] # "fn"
    BY <1>2, RefShape DEF AllNames
  <1>11. t = Nothing => Len(t) = 1 /\ t[1] = "int"
    BY DEF Nothing, Plain
  <1>12. LosesReturn(d) <=> d.at = "ret" /\ Len(t) = 1 /\ ~ Resolves(t[1], d) /\ t[1] # "cstring"
    BY <1>1 DEF LosesReturn
  <1>13. FunctionType(d) \/ CString(d) \/ Dangles(d) <=>
           \/ t[1] = "fn" /\ ~ Verbatim(d)
           \/ t[1] = "cstring"
           \/ t[1] # "fn" /\ t[1] # "cstring" /\ ~ LosesReturn(d) /\ \E n \in Names(t) : ~ Resolves(n, d)
    BY <1>1 DEF FunctionType, CString, Dangles
  <1>14. CASE t = Nothing
    BY <1>1, <1>5, <1>7, <1>10, <1>11, <1>12, <1>13, <1>14
  <1>15. CASE t # Nothing
    <2>1. Outcome(Emit, Main(k)) = ReadItem(it, known)
      BY <1>7, <1>15
    <2>2. CASE d.at \in {"field", "payload", "body", "constraint"}
      <3>1. Outcome(Emit, Main(k)) = IF p = "unknown" THEN "error" ELSE p
        BY <1>8, <2>1, <2>2
      <3>2. ~ LosesReturn(d)
        BY <1>12, <2>2
      <3>3. QED
        BY <1>1, <1>9, <1>10, <1>13, <3>1, <3>2
    <2>3. CASE d.at = "par"
      <3>1. Outcome(Emit, Main(k)) = IF p = "unknown" THEN IF d.form = "init" THEN "crash" ELSE "error" ELSE p
        BY <1>8, <2>1, <2>3
      <3>2. ~ LosesReturn(d)
        BY <1>12, <2>3
      <3>3. QED
        BY <1>1, <1>9, <1>10, <1>13, <3>1, <3>2
    <2>4. CASE d.at = "ret"
      <3>1. Outcome(Emit, Main(k)) = IF p = "unknown" THEN "void" ELSE p
        BY <1>8, <2>1, <2>4
      <3>2. LosesReturn(d) <=> p = "unknown"
        BY <1>9, <1>12, <2>4
      <3>3. QED
        BY <1>1, <1>9, <1>10, <1>13, <3>1, <3>2
    <2>5. QED
      BY <1>2, <2>2, <2>3, <2>4 DEF AllPlaces
  <1>16. QED
    BY <1>14, <1>15

\* An item without a reference reads.
LEMMA OutcomeNone ==
    ASSUME NEW k \in DOMAIN lib
    PROVE  /\ ~ Crosses(lib[k]) => Outcome(Emit, Main(k)) = "ok"
           /\ Outcome(Emit, Rec(k)) = "ok"
  BY MainIs, RecIs DEF Outcome

\* The protocol of a conformance, and the one item that is checked against it.
LEMMA ConformIs ==
    ASSUME LibInv, NEW k \in DOMAIN lib, lib[k].kind = "conform"
    PROVE  LET p == NumberOf("P")
           IN /\ p \in DOMAIN lib /\ DeclOf("P") = lib[p] /\ lib[p].kind = "protocol"
              /\ \A j \in DOMAIN lib : lib[j].kind = "protocol" => j = p
              /\ lib[p].at = lib[k].at /\ lib[p].ref = lib[k].ref
  <1>1. PICK j \in DOMAIN lib : lib[j].kind = "protocol" /\ lib[j].at = lib[k].at /\ lib[j].ref = lib[k].ref
    BY DEF LibInv, HasProtocol
  <1>2. lib[j].name = "P"
    BY <1>1, LibIs DEF DeclOK
  <1>3. "P" \in Declares("protocol")
    BY <1>1, <1>2 DEF Declares, Decls
  <1>4. QED
    BY <1>1, <1>3, ProtocolIs

\* What resolves for the protocol, the first item of the file, resolves below.
LEMMA ProtocolFirst ==
    ASSUME LibInv, NEW k \in DOMAIN lib, lib[k].kind = "conform", LosesReturn(lib[k])
    PROVE  LosesReturn(DeclOf("P"))
  <1>1. PICK p, n : p = NumberOf("P") /\ n = lib[k].ref[1]
    OBVIOUS
  <1>2. /\ p \in DOMAIN lib /\ DeclOf("P") = lib[p] /\ lib[p].kind = "protocol"
        /\ lib[p].at = lib[k].at /\ lib[p].ref = lib[k].ref
    BY <1>1, ConformIs
  <1>3. ~ Resolves(n, lib[k]) /\ lib[k].at = "ret" /\ Len(lib[k].ref) = 1 /\ n # "cstring"
    BY <1>1 DEF LosesReturn
  <1>4. ASSUME Resolves(n, lib[p]) PROVE FALSE
    <2>1. /\ n \in UNION {Declares(kind) : kind \in {"struct", "enum", "protocol", "fn"}}
          /\ Above(DeclOf(n), lib[p])
      BY <1>3, <1>4 DEF Resolves
    <2>2. PICK j \in DOMAIN lib : ~ IsMember(lib[j]) /\ lib[j].name = n
      BY <2>1, DeclaredIs
    <2>3. DeclOf(n) = lib[j] /\ NumberOf(lib[j].name) = j
      BY <2>2, DeclNumber DEF DeclOf
    <2>4. NumberOf(lib[p].name) = p /\ ~ IsMember(lib[p])
      BY <1>2, DeclNumber DEF IsMember
    <2>5. Rank(lib[p]) = 1 /\ Rank(lib[j]) \in 1 .. 4
      <3>1. Rank(lib[j]) \in 1 .. 4
        BY RankIs
      <3>2. Rank(lib[p]) = 1
        BY <1>2 DEF Rank, IsMember
      <3>3. QED
        BY <3>1, <3>2
    <2>6. Rank(lib[j]) = 1 => lib[j].kind = "protocol"
      BY DEF Rank
    <2>7. lib[j].kind = "protocol" => j = p
      BY ConformIs, <1>1
    <2>8. p \in Nat
      BY <1>2 DEF LibInv
    <2>9. QED
      BY <1>2, <2>1, <2>3, <2>4, <2>5, <2>6, <2>7, <2>8 DEF Above
  <1>5. QED
    BY <1>2, <1>3, <1>4, <1>1 DEF LosesReturn

\* A conformance record finds its protocol and its method.
LEMMA RecordIs ==
    ASSUME LibInv, NEW k \in DOMAIN lib, Recorded(k)
    PROVE  LET p == NumberOf("P")
           IN ReadRecord(Emit, Rec(k)) <=>
                Shown(k) /\ Outcome(Emit, Main(k)) = Outcome(Emit, Main(p))
  <1>1. PICK p : p = NumberOf("P")
    OBVIOUS
  <1>2. lib[k].kind = "conform" /\ DeclOf("P").pub /\ IsMember(lib[k])
    BY DEF Recorded, IsMember
  <1>3. /\ p \in DOMAIN lib /\ DeclOf("P") = lib[p] /\ lib[p].kind = "protocol"
        /\ \A j \in DOMAIN lib : lib[j].kind = "protocol" => j = p
    BY <1>1, <1>2, ConformIs
  <1>4. ~ IsMember(lib[p]) /\ Shown(p)
    BY <1>2, <1>3 DEF IsMember, Shown
  <1>5. Main(p) \in Emit
    BY <1>3, <1>4, EmitIs
  <1>6. ASSUME NEW x \in Emit, x.kind = "protocol" PROVE x = Main(p)
    <2>1. ~ \E j \in DOMAIN lib : x = Rec(j)
      BY <1>6, RecIs
    <2>2. PICK j \in DOMAIN lib : x = Main(j)
      BY <2>1, EmitIs
    <2>3. lib[j].kind = "protocol"
      BY <1>6, <2>2, MainIs DEF ItemKind
    <2>4. QED
      BY <1>3, <2>2, <2>3
  <1>7. ASSUME NEW x \in Emit, x.kind = "member", x.name = lib[k].name, x.form = "plain"
        PROVE  x = Main(k) /\ Shown(k)
    <2>1. ~ \E j \in DOMAIN lib : x = Rec(j)
      BY <1>7, RecIs
    <2>2. PICK j \in DOMAIN lib : x = Main(j) /\ Shown(j)
      BY <2>1, EmitIs
    <2>3. IsMember(lib[j]) /\ lib[j].name = lib[k].name /\ lib[j].form = "plain"
      BY <1>7, <2>2, MainIs, LibIs DEF ItemKind, AllKinds
    <2>4. lib[k].form = "plain"
      BY <1>2, LibIs DEF DeclOK
    <2>5. j = k
      BY <1>2, <2>3, <2>4 DEF LibInv, Unique
    <2>6. QED
      BY <2>2, <2>5
  <1>8. Precedes(Main(p), Rec(k)) /\ Precedes(Main(k), Rec(k))
    <2>1. lib \in Seq(Declarations)
      BY DEF LibInv
    <2>2. Owner(k) \in DOMAIN lib /\ Owner(p) \in DOMAIN lib
      BY <1>3, OwnerIs DEF Owner
    <2>3. p \in Nat /\ k \in Nat /\ Owner(k) \in Nat /\ Owner(p) \in Nat
      BY <1>3, <2>1, <2>2
    <2>4. Section(lib[k].kind) = 2 /\ Section(lib[p].kind) = 1
      BY <1>2, <1>3 DEF Section
    <2>5. /\ Main(p).place = <<1, Owner(p), 0, p>> /\ Main(k).place = <<2, Owner(k), 1, k>>
          /\ Rec(k).place = <<2, Owner(k), 2, k>>
      BY <1>2, <1>3, <1>4, <2>4, MainIs, RecIs DEF ItemPart, Body, Signature, Record
    <2>6. PICK x, y, z, o, q : /\ x = Main(p) /\ y = Main(k) /\ z = Rec(k)
                               /\ o = Owner(k) /\ q = Owner(p)
      OBVIOUS
    <2>7. /\ o \in Nat /\ q \in Nat /\ 0 \in Nat /\ 1 \in Nat /\ 2 \in Nat
          /\ x.place = <<1, q, 0, p>> /\ y.place = <<2, o, 1, k>> /\ z.place = <<2, o, 2, k>>
      BY <2>3, <2>5, <2>6
    <2>8. Precedes(x, z)
      <3>1. x.place[1] < z.place[1]
        BY <2>7
      <3>2. 1 \in 1 .. 4 /\ \A j \in 1 .. 1 - 1 : x.place[j] = z.place[j]
        OBVIOUS
      <3>3. QED
        BY <3>1, <3>2 DEF Precedes
    <2>9. Precedes(y, z)
      <3>1. y.place[3] < z.place[3] /\ y.place[1] = z.place[1] /\ y.place[2] = z.place[2]
        BY <2>7
      <3>2. 3 \in 1 .. 4 /\ \A j \in 1 .. 3 - 1 : j = 1 \/ j = 2
        OBVIOUS
      <3>3. QED
        BY <3>1, <3>2 DEF Precedes
    <2>10. QED
      BY <2>6, <2>8, <2>9
  <1>9. /\ Main(k).kind = "member" /\ Main(k).name = lib[k].name /\ Main(k).form = "plain"
        /\ Main(p).kind = "protocol" /\ Rec(k).name = lib[k].name
    BY <1>2, <1>3, <1>4, MainIs, RecIs, LibIs DEF ItemKind, DeclOK
  <1>10. Shown(k) => Main(k) \in Emit
    BY EmitIs
  <1>11. {x \in Emit : x.kind = "protocol" /\ Precedes(x, Rec(k))} = {Main(p)}
    BY <1>5, <1>6, <1>8, <1>9
  <1>12. {x \in Emit : /\ x.kind = "member" /\ x.name = Rec(k).name /\ x.form = "plain"
                       /\ Precedes(x, Rec(k))} = IF Shown(k) THEN {Main(k)} ELSE {}
    BY <1>7, <1>8, <1>9, <1>10
  <1>13. QED
    BY <1>1, <1>11, <1>12 DEF ReadRecord

-----------------------------------------------------------------------------
\* The theorems.

\* The file reads when every item does and every record finds its method.
LEMMA ReadsIs ==
    ASSUME LibInv
    PROVE  Reads(Emit) <=>
             /\ \A k \in DOMAIN lib : Crosses(lib[k]) =>
                   ~ (FunctionType(lib[k]) \/ CString(lib[k]) \/ Dangles(lib[k]))
             /\ \A k \in DOMAIN lib : Recorded(k) =>
                   Shown(k) /\ Outcome(Emit, Main(k)) = Outcome(Emit, Main(NumberOf("P")))
  <1>1. \A x : x \in Emit <=> \/ \E k \in DOMAIN lib : Shown(k) /\ x = Main(k)
                              \/ \E k \in DOMAIN lib : Recorded(k) /\ x = Rec(k)
    BY EmitIs
  <1>2. \A k \in DOMAIN lib : Main(k).kind # "record" /\ Rec(k).kind = "record"
    BY MainIs, RecIs, LibIs DEF ItemKind, AllKinds
  <1>3. \A k \in DOMAIN lib : /\ ~ Crosses(lib[k]) => Outcome(Emit, Main(k)) = "ok"
                              /\ Outcome(Emit, Rec(k)) = "ok"
                              /\ Crosses(lib[k]) => Shown(k)
    BY OutcomeNone, CrossesShown
  <1>4. \A k \in DOMAIN lib : Crosses(lib[k]) =>
            (Outcome(Emit, Main(k)) \in {"error", "crash"} <=>
                FunctionType(lib[k]) \/ CString(lib[k]) \/ Dangles(lib[k]))
    BY OutcomeIs
  <1>5. \A k \in DOMAIN lib : Recorded(k) =>
            (ReadRecord(Emit, Rec(k)) <=>
                Shown(k) /\ Outcome(Emit, Main(k)) = Outcome(Emit, Main(NumberOf("P"))))
    BY RecordIs
  <1>6. Reads(Emit) <=>
          /\ \A k \in DOMAIN lib : Shown(k) => Outcome(Emit, Main(k)) \notin {"error", "crash"}
          /\ \A k \in DOMAIN lib : Recorded(k) => ReadRecord(Emit, Rec(k))
    <2>1. ASSUME Reads(Emit), NEW k \in DOMAIN lib
          PROVE  /\ Shown(k) => Outcome(Emit, Main(k)) \notin {"error", "crash"}
                 /\ Recorded(k) => ReadRecord(Emit, Rec(k))
      <3>1. Shown(k) => Main(k) \in Emit
        BY <1>1
      <3>2. Recorded(k) => Rec(k) \in Emit
        BY <1>1
      <3>3. QED
        BY <1>2, <2>1, <3>1, <3>2 DEF Reads
    <2>2. ASSUME \A k \in DOMAIN lib : Shown(k) => Outcome(Emit, Main(k)) \notin {"error", "crash"},
                 \A k \in DOMAIN lib : Recorded(k) => ReadRecord(Emit, Rec(k)), NEW x \in Emit
          PROVE  Outcome(Emit, x) \notin {"error", "crash"} /\ (x.kind = "record" => ReadRecord(Emit, x))
      <3>1. CASE \E k \in DOMAIN lib : Shown(k) /\ x = Main(k)
        BY <1>2, <2>2, <3>1
      <3>2. CASE \E k \in DOMAIN lib : Recorded(k) /\ x = Rec(k)
        BY <1>3, <2>2, <3>2
      <3>3. QED
        BY <1>1, <3>1, <3>2
    <2>3. QED
      BY <2>1, <2>2 DEF Reads
  <1>7. QED
    BY <1>3, <1>4, <1>5, <1>6

\* An accepted conformance of an exported struct crosses, with its protocol.
LEMMA AcceptedConforms ==
    ASSUME LibInv, Accepted, NEW k \in DOMAIN lib, lib[k].kind = "conform", lib[Owner(k)].pub
    PROVE  DeclOf("P").pub /\ Crosses(lib[k])
  <1>1. /\ Owner(k) \in DOMAIN lib /\ lib[Owner(k)].kind = "struct" /\ IsMember(lib[k])
        /\ lib[Owner(k)].name = lib[k].name
    BY OwnerIs DEF Owner, IsMember
  <1>2. lib[Owner(k)] \in Decls
    BY <1>1 DEF Decls
  <1>3. CheckConformances(lib[Owner(k)])
    BY <1>1, <1>2 DEF Accepted, VisitStruct
  <1>4. k \in Members(lib[Owner(k)])
    BY <1>1 DEF Members
  <1>5. DeclOf("P").pub /\ (lib[Owner(k)].form = "generic" \/ lib[k].pub)
    BY <1>3, <1>4 DEF CheckConformances
  <1>6. lib[k].at # "body" /\ lib[k].form # "generic"
    BY LibIs DEF DeclOK
  <1>7. QED
    BY <1>1, <1>5, <1>6, CrossesIs

\* Unreadable declarations, by number.
LEMMA UnreadableIs ==
    ASSUME LibInv
    PROVE  (\E d \in Decls : Unreadable(d)) <=>
             \E k \in DOMAIN lib : /\ Crosses(lib[k])
                                   /\ \/ FunctionType(lib[k]) \/ CString(lib[k]) \/ Dangles(lib[k])
                                      \/ RecordDiffers(lib[k])
  BY DEF Decls, Unreadable

\* InterfaceReads follows from the invariant.
LEMMA ReadsHolds == ASSUME LibInv PROVE InterfaceReads
  <1> SUFFICES ASSUME Accepted PROVE Reads(Emit) <=> ~ \E d \in Decls : Unreadable(d)
    BY DEF InterfaceReads
  <1>1. ASSUME NEW k \in DOMAIN lib, lib[k].kind = "conform"
        PROVE  LET p == NumberOf("P")
               IN p \in DOMAIN lib /\ DeclOf("P") = lib[p] /\ (DeclOf("P").pub => Crosses(lib[p]))
    <2>1. /\ NumberOf("P") \in DOMAIN lib /\ DeclOf("P") = lib[NumberOf("P")]
          /\ DeclOf("P").kind = "protocol"
      BY <1>1, ConformIs
    <2>2. QED
      BY <2>1, CrossesIs DEF IsMember
  <1>2. ASSUME NEW k \in DOMAIN lib, lib[k].kind = "conform", Crosses(lib[k])
        PROVE  Recorded(k) /\ Crosses(lib[NumberOf("P")])
    <2>1. lib[Owner(k)].pub
      BY <1>2, CrossesIs DEF IsMember
    <2>2. DeclOf("P").pub
      BY <1>2, <2>1, AcceptedConforms
    <2>3. QED
      BY <1>1, <1>2, <2>1, <2>2 DEF Recorded
  <1>3. ASSUME Reads(Emit), \E d \in Decls : Unreadable(d) PROVE FALSE
    <2>1. PICK k \in DOMAIN lib : /\ Crosses(lib[k])
                                  /\ \/ FunctionType(lib[k]) \/ CString(lib[k]) \/ Dangles(lib[k])
                                     \/ RecordDiffers(lib[k])
      BY <1>3, UnreadableIs
    <2>2. RecordDiffers(lib[k])
      BY <1>3, <2>1, ReadsIs
    <2>3. lib[k].kind = "conform" /\ LosesReturn(DeclOf("P")) /\ ~ LosesReturn(lib[k])
      BY <2>2 DEF RecordDiffers
    <2>4. /\ Recorded(k) /\ Crosses(lib[NumberOf("P")]) /\ NumberOf("P") \in DOMAIN lib
          /\ DeclOf("P") = lib[NumberOf("P")]
      BY <1>1, <1>2, <2>1, <2>3
    <2>5. Outcome(Emit, Main(k)) # "void"
      BY <2>1, <2>3, OutcomeIs
    <2>6. Outcome(Emit, Main(NumberOf("P"))) = "void"
      BY <2>3, <2>4, OutcomeIs
    <2>7. QED
      BY <1>3, <2>4, <2>5, <2>6, ReadsIs
  <1>4. ASSUME ~ \E d \in Decls : Unreadable(d) PROVE Reads(Emit)
    <2>1. \A k \in DOMAIN lib : Crosses(lib[k]) =>
             ~ (FunctionType(lib[k]) \/ CString(lib[k]) \/ Dangles(lib[k]) \/ RecordDiffers(lib[k]))
      BY <1>4, UnreadableIs
    <2>2. ASSUME NEW k \in DOMAIN lib, Recorded(k)
          PROVE  Shown(k) /\ Outcome(Emit, Main(k)) = Outcome(Emit, Main(NumberOf("P")))
      <3>1. lib[k].kind = "conform" /\ DeclOf("P").pub /\ lib[Owner(k)].pub
        BY <2>2 DEF Recorded
      <3>2. Crosses(lib[k])
        BY <3>1, AcceptedConforms
      <3>3. PICK p : p = NumberOf("P")
        OBVIOUS
      <3>4. p \in DOMAIN lib /\ DeclOf("P") = lib[p] /\ Crosses(lib[p])
        BY <1>1, <3>1, <3>3
      <3>5. LosesReturn(lib[p]) => LosesReturn(lib[k])
        BY <2>1, <3>1, <3>2, <3>4 DEF RecordDiffers
      <3>6. LosesReturn(lib[k]) => LosesReturn(lib[p])
        BY <3>1, <3>4, ProtocolFirst
      <3>7. /\ Outcome(Emit, Main(k)) \in {"ok", "void"}
            /\ Outcome(Emit, Main(k)) = "void" <=> LosesReturn(lib[k])
        BY <2>1, <3>2, OutcomeIs
      <3>8. /\ Outcome(Emit, Main(p)) \in {"ok", "void"}
            /\ Outcome(Emit, Main(p)) = "void" <=> LosesReturn(lib[p])
        BY <2>1, <3>4, OutcomeIs
      <3>9. Shown(k)
        BY <3>2, CrossesShown
      <3>10. QED
        BY <3>3, <3>5, <3>6, <3>7, <3>8, <3>9
    <2>3. QED
      BY <2>1, <2>2, ReadsIs
  <1>5. QED
    BY <1>3, <1>4

\* SignaturesKept follows from the invariant.
LEMMA KeptHolds == ASSUME LibInv PROVE SignaturesKept
  <1> SUFFICES ASSUME Reads(Emit), NEW d \in Decls, d.kind # "struct", Crosses(d),
                      NEW x \in SeenAs(Emit, d)
               PROVE  Outcome(Emit, x) = "ok" /\ x.quals = d.form
                        <=> ~ LosesReturn(d) /\ (d.form = "qualified" => Verbatim(d))
    BY DEF SignaturesKept
  <1>1. PICK k \in DOMAIN lib : lib[k] = d
    BY DEF Decls
  <1>2. x \in Emit /\ x.name = d.name /\ x.form = d.form /\ x.kind = ItemKind(k)
    BY <1>1 DEF SeenAs, ItemKind
  <1>3. ~ \E j \in DOMAIN lib : x = Rec(j)
    <2>1. ItemKind(k) # "record"
      BY LibIs DEF ItemKind, AllKinds
    <2>2. QED
      BY <1>2, <2>1, RecIs
  <1>4. PICK j \in DOMAIN lib : x = Main(j)
    BY <1>2, <1>3, EmitIs
  <1>5. ItemKind(j) = ItemKind(k) /\ lib[j].name = lib[k].name /\ lib[j].form = lib[k].form
    BY <1>1, <1>2, <1>4, MainIs
  <1>6. IsMember(lib[j]) <=> IsMember(lib[k])
    BY <1>5, LibIs DEF ItemKind, AllKinds
  <1>7. j = k
    BY <1>5, <1>6 DEF LibInv, Unique
  <1>8. Outcome(Emit, x) = "ok" <=> ~ LosesReturn(d)
    <2>1. /\ Outcome(Emit, Main(k)) \in {"ok", "void", "error", "crash"}
          /\ Outcome(Emit, Main(k)) = "void" <=> LosesReturn(lib[k])
      BY <1>1, OutcomeIs
    <2>2. Outcome(Emit, x) \notin {"error", "crash"}
      BY <1>2 DEF Reads
    <2>3. QED
      BY <1>1, <1>4, <1>7, <2>1, <2>2
  <1>9. x.quals = IF d.form = "qualified" /\ ~ Verbatim(d) THEN "none" ELSE d.form
    BY <1>1, <1>4, <1>7, MainIs
  <1>10. QED
    BY <1>8, <1>9

\* Closed forms, which hold after a step as well.
OwnersAre ==
    \A k \in DOMAIN lib :
        Owner(k) \in DOMAIN lib /\ lib[Owner(k)].name = lib[k].name /\ ~ IsMember(lib[Owner(k)])
CrossesAt(k) == Crosses(lib[k])
VerbatimAt(k) == Verbatim(lib[k])
CrossingsAre ==
    \A k \in DOMAIN lib :
        /\ VerbatimAt(k) = IF IsMember(lib[k]) THEN lib[Owner(k)].form = "generic"
                           ELSE lib[k].kind = "fn" /\ lib[k].form = "generic"
        /\ CrossesAt(k) <=>
             IF IsMember(lib[k])
             THEN /\ lib[Owner(k)].pub
                  /\ \/ lib[Owner(k)].form = "generic"
                     \/ /\ lib[k].pub \/ lib[k].form = "init"
                        /\ lib[k].at # "body" /\ lib[k].form # "generic"
             ELSE lib[k].pub /\ (lib[k].kind = "struct" => lib[k].form # "plain")
ItemOf(d, o, part, k, kind, at, sliced) ==
    [place |-> <<Section(d.kind), o, part, k>>, kind |-> kind, name |-> d.name, form |-> d.form,
     at |-> at, sliced |-> sliced, ref |-> IF at = "none" THEN Nothing ELSE d.ref,
     quals |-> IF d.form = "qualified" /\ ~ sliced THEN "none" ELSE d.form]
ItemsAre ==
    \A k \in DOMAIN lib :
        /\ Main(k) = ItemOf(lib[k], Owner(k), ItemPart(k), k, ItemKind(k),
                            IF CrossesAt(k) THEN lib[k].at ELSE "none", VerbatimAt(k))
        /\ Rec(k) = ItemOf(lib[k], Owner(k), Record, k, "record", "none", FALSE)
FileIs ==
    \A x : x \in Emit <=> \/ \E k \in DOMAIN lib : Shown(k) /\ x = Main(k)
                          \/ \E k \in DOMAIN lib : Recorded(k) /\ x = Rec(k)
ProtocolsAre ==
    \A k \in DOMAIN lib : lib[k].kind = "conform" =>
        \E p \in DOMAIN lib : lib[p].kind = "protocol" /\ DeclOf("P") = lib[p]
HeaderIs ==
    \A n : n \in ForeignTypes <=>
        n = "Fs" /\ \E k \in DOMAIN lib :
            /\ lib[k].pub /\ (lib[k].kind = "fn" \/ (IsMember(lib[k]) /\ lib[Owner(k)].pub))
            /\ lib[k].at \in {"par", "ret"} /\ n \in Names(lib[k].ref)
View == OwnersAre /\ CrossingsAre /\ ItemsAre /\ FileIs /\ ProtocolsAre /\ HeaderIs

\* All of it holds of a well-formed library ...
LEMMA ViewIs == LibInv => View
  <1> SUFFICES ASSUME LibInv PROVE View
    OBVIOUS
  <1>1. OwnersAre
    BY OwnerIs DEF OwnersAre, Owner
  <1>2. CrossingsAre
    BY CrossesIs DEF CrossingsAre, CrossesAt, VerbatimAt
  <1>3. ItemsAre
    BY DEF ItemsAre, Main, Rec, Item, ItemOf, Owner, CrossesAt, VerbatimAt
  <1>4. FileIs
    BY EmitIs DEF FileIs
  <1>5. ProtocolsAre
    BY ConformIs DEF ProtocolsAre
  <1>6. HeaderIs
    <2>1. \A n : n \in ForeignTypes <=> n = "Fs" /\ Listed(n)
      BY ForeignIs
    <2>2. QED
      BY <2>1 DEF HeaderIs, Listed, Decls, DeclOf, Owner
  <1>7. QED
    BY <1>1, <1>2, <1>3, <1>4, <1>5, <1>6 DEF View

\* ... and after a step that keeps the library well-formed.
LEMMA ViewAfter == LibInv' => View'
  BY ViewIs, PTL

\* An edit leaves what is shown, and where, as it was.
LEMMA EditShape ==
    ASSUME LibInv, NEW i \in DOMAIN lib, Edit(i), NEW k \in DOMAIN lib
    PROVE  /\ IsMember(lib[k])' <=> IsMember(lib[k])
           /\ Owner(k)' = Owner(k) /\ Owner(k) \in DOMAIN lib
           /\ CrossesAt(k)' <=> CrossesAt(k)
           /\ VerbatimAt(k)' = VerbatimAt(k)
           /\ Shown(k)' <=> Shown(k)
           /\ Recorded(k)' <=> Recorded(k)
           /\ ItemKind(k)' = ItemKind(k) /\ ItemPart(k)' = ItemPart(k)
  <1>1. /\ DOMAIN lib' = DOMAIN lib
        /\ \A j \in DOMAIN lib : /\ lib'[j].kind = lib[j].kind /\ lib'[j].name = lib[j].name
                                 /\ lib'[j].pub = lib[j].pub /\ lib'[j].form = lib[j].form
                                 /\ lib'[j].at = lib[j].at
    BY Edited
  <1>2. View /\ View'
    BY ViewIs, ViewAfter, EditKeeps
  <1>3. \A j \in DOMAIN lib : IsMember(lib[j])' <=> IsMember(lib[j])
    BY <1>1 DEF IsMember
  <1>4. Owner(k)' = Owner(k) /\ Owner(k) \in DOMAIN lib
    <2>1. PICK q : q = Owner(k)'
      OBVIOUS
    <2>2. q \in DOMAIN lib /\ lib'[q].name = lib'[k].name /\ ~ IsMember(lib[q])'
      BY <1>1, <1>2, <2>1 DEF View, OwnersAre
    <2>3. lib[q].name = lib[k].name /\ ~ IsMember(lib[q])
      BY <1>1, <1>3, <2>2
    <2>4. NumberOf(lib[q].name) = q
      BY <2>2, <2>3, DeclNumber
    <2>5. QED
      BY <2>1, <2>2, <2>3, <2>4 DEF Owner
  <1>5. CrossesAt(k)' <=> CrossesAt(k)
    BY <1>1, <1>2, <1>3, <1>4 DEF View, CrossingsAre
  <1>6. VerbatimAt(k)' = VerbatimAt(k)
    BY <1>1, <1>2, <1>3, <1>4 DEF View, CrossingsAre
  <1>7. Shown(k)' <=> Shown(k)
    BY <1>1, <1>3, <1>4 DEF Shown
  <1>8. Recorded(k)' <=> Recorded(k)
    <2>1. CASE lib[k].kind = "conform"
      <3>1. PICK p \in DOMAIN lib : lib[p].kind = "protocol" /\ DeclOf("P") = lib[p]
        BY <1>2, <2>1 DEF View, ProtocolsAre
      <3>2. PICK q \in DOMAIN lib : lib'[q].kind = "protocol" /\ DeclOf("P")' = lib'[q]
        BY <1>1, <1>2, <2>1 DEF View, ProtocolsAre
      <3>3. q = p
        <4>1. lib[q].kind = "protocol"
          BY <1>1, <3>2
        <4>2. lib[p].name = "P" /\ lib[q].name = "P" /\ ~ IsMember(lib[p]) /\ ~ IsMember(lib[q])
          BY <3>1, <4>1, LibIs DEF DeclOK, IsMember
        <4>3. QED
          BY <4>2 DEF LibInv, Unique
      <3>4. DeclOf("P")'.pub = DeclOf("P").pub
        BY <1>1, <3>1, <3>2, <3>3
      <3>5. QED
        BY <1>1, <1>4, <3>4 DEF Recorded
    <2>2. CASE lib[k].kind # "conform"
      BY <1>1, <2>2 DEF Recorded
    <2>3. QED
      BY <2>1, <2>2
  <1>9. ItemKind(k)' = ItemKind(k) /\ ItemPart(k)' = ItemPart(k)
    BY <1>1, <1>3 DEF ItemKind, ItemPart
  <1>10. QED
    BY <1>3, <1>4, <1>5, <1>6, <1>7, <1>8, <1>9

\* The reference matters only where it is printed.
LEMMA SameItem ==
    ASSUME NEW d, NEW e, NEW o, NEW part, NEW k, NEW kind, NEW sliced,
           e.kind = d.kind, e.name = d.name, e.form = d.form
    PROVE  ItemOf(e, o, part, k, kind, "none", sliced) = ItemOf(d, o, part, k, kind, "none", sliced)
  BY Zenon DEF ItemOf

\* Of the items only that of the declaration changes, and only if it crosses.
LEMMA EditItems ==
    ASSUME LibInv, NEW i \in DOMAIN lib, Edit(i), NEW k \in DOMAIN lib
    PROVE  /\ Rec(k)' = Rec(k)
           /\ k # i \/ ~ CrossesAt(k) => Main(k)' = Main(k)
           /\ CrossesAt(i) => Main(i).ref = lib[i].ref /\ Main(i)'.ref = Nothing
  <1>1. /\ DOMAIN lib' = DOMAIN lib
        /\ \A j \in DOMAIN lib : /\ j # i => lib'[j] = lib[j]
                                 /\ lib'[j].kind = lib[j].kind /\ lib'[j].name = lib[j].name
                                 /\ lib'[j].pub = lib[j].pub /\ lib'[j].form = lib[j].form
                                 /\ lib'[j].at = lib[j].at
        /\ lib'[i].ref = Nothing
    BY Edited
  <1>2. ItemsAre /\ ItemsAre'
    BY ViewIs, ViewAfter, EditKeeps DEF View
  <1>3. /\ Owner(k)' = Owner(k) /\ (CrossesAt(k)' <=> CrossesAt(k)) /\ VerbatimAt(k)' = VerbatimAt(k)
        /\ ItemKind(k)' = ItemKind(k) /\ ItemPart(k)' = ItemPart(k)
    BY EditShape
  <1>4. /\ Main(k)' = ItemOf(lib'[k], Owner(k), ItemPart(k), k, ItemKind(k),
                             IF CrossesAt(k) THEN lib[k].at ELSE "none", VerbatimAt(k))
        /\ Rec(k)' = ItemOf(lib'[k], Owner(k), Record, k, "record", "none", FALSE)
    BY <1>1, <1>2, <1>3 DEF ItemsAre
  <1>5. /\ Main(k) = ItemOf(lib[k], Owner(k), ItemPart(k), k, ItemKind(k),
                            IF CrossesAt(k) THEN lib[k].at ELSE "none", VerbatimAt(k))
        /\ Rec(k) = ItemOf(lib[k], Owner(k), Record, k, "record", "none", FALSE)
    BY <1>2 DEF ItemsAre
  <1>6. PICK d, e, o, t, u, v : /\ d = lib[k] /\ e = lib'[k] /\ o = Owner(k) /\ t = ItemPart(k)
                                /\ u = ItemKind(k) /\ v = VerbatimAt(k)
    OBVIOUS
  <1>7. e.kind = d.kind /\ e.name = d.name /\ e.form = d.form
    BY <1>1, <1>6
  <1>8. Rec(k)' = Rec(k)
    <2>1. ItemOf(e, o, Record, k, "record", "none", FALSE) = ItemOf(d, o, Record, k, "record", "none", FALSE)
      BY <1>7, Zenon DEF ItemOf
    <2>2. QED
      BY <1>4, <1>5, <1>6, <2>1
  <1>9. ASSUME ~ CrossesAt(k) PROVE Main(k)' = Main(k)
    <2>1. ItemOf(e, o, t, k, u, "none", v) = ItemOf(d, o, t, k, u, "none", v)
      BY <1>7, SameItem
    <2>2. QED
      BY <1>4, <1>5, <1>6, <1>9, <2>1
  <1>10. ASSUME k # i PROVE Main(k)' = Main(k)
    <2>1. lib'[k] = lib[k]
      BY <1>1, <1>10
    <2>2. QED
      BY <1>4, <1>5, <2>1
  <1>11. ASSUME CrossesAt(i)
         PROVE  Main(i).ref = lib[i].ref /\ Main(i)'.ref = Nothing
    <2>1. lib[i].at # "none" /\ CrossesAt(i)' /\ lib'[i].at # "none" /\ i \in DOMAIN lib'
      BY <1>1, <1>11, LibIs, EditShape DEF AllPlaces
    <2>2. Main(i).ref = lib[i].ref
      BY <1>2, <1>11, <2>1 DEF ItemsAre, ItemOf
    <2>3. Main(i)'.ref = Nothing
      BY <1>1, <1>2, <2>1 DEF ItemsAre, ItemOf
    <2>4. QED
      BY <2>2, <2>3
  <1>12. QED
    BY <1>8, <1>9, <1>10, <1>11

\* Items of different declarations differ.
LEMMA ItemNumber ==
    ASSUME LibInv, NEW j \in DOMAIN lib, NEW k \in DOMAIN lib
    PROVE  /\ Main(j) = Main(k) => j = k
           /\ Main(j) # Rec(k)
  <1>1. Main(j).place[4] = j /\ Main(k).place[4] = k
    BY MainIs
  <1>2. Main(j).kind # "record" /\ Rec(k).kind = "record"
    BY MainIs, RecIs, LibIs DEF ItemKind, AllKinds
  <1>3. QED
    BY <1>1, <1>2

\* The file changes exactly when the edit is at a place that crosses.
LEMMA EditFile ==
    ASSUME LibInv, NEW i \in DOMAIN lib, Edit(i)
    PROVE  Emit' = Emit <=> ~ Crosses(lib[i])
  <1>1. View /\ View' /\ DOMAIN lib' = DOMAIN lib
    BY ViewIs, ViewAfter, EditKeeps, Edited
  <1>2. \A k \in DOMAIN lib : /\ Shown(k)' <=> Shown(k)
                              /\ Recorded(k)' <=> Recorded(k)
                              /\ Rec(k)' = Rec(k)
                              /\ k # i \/ ~ CrossesAt(k) => Main(k)' = Main(k)
    BY EditShape, EditItems
  <1>3. \A x : x \in Emit <=> \/ \E k \in DOMAIN lib : Shown(k) /\ x = Main(k)
                              \/ \E k \in DOMAIN lib : Recorded(k) /\ x = Rec(k)
    BY <1>1 DEF View, FileIs
  <1>4. \A x : x \in Emit' <=> \/ \E k \in DOMAIN lib : Shown(k) /\ x = Main(k)'
                               \/ \E k \in DOMAIN lib : Recorded(k) /\ x = Rec(k)
    BY <1>1, <1>2 DEF View, FileIs
  <1>5. CASE ~ CrossesAt(i)
    <2>1. \A k \in DOMAIN lib : Main(k)' = Main(k)
      BY <1>2, <1>5
    <2>2. \A x : x \in Emit' <=> x \in Emit
      BY <1>3, <1>4, <2>1
    <2>3. Emit' = Emit
      BY <2>2
    <2>4. QED
      BY <1>5, <2>3 DEF CrossesAt
  <1>6. CASE CrossesAt(i)
    <2>1. Main(i) \in Emit
      BY <1>3, <1>6, CrossesShown DEF CrossesAt
    <2>2. ASSUME Main(i) \in Emit' PROVE FALSE
      <3>1. CASE \E k \in DOMAIN lib : Recorded(k) /\ Main(i) = Rec(k)
        BY <3>1, ItemNumber
      <3>2. ASSUME NEW k \in DOMAIN lib, Main(i) = Main(k)' PROVE FALSE
        <4>1. CASE k # i
          BY <1>2, <3>2, <4>1, ItemNumber
        <4>2. CASE k = i
          <5>1. Main(i).ref = lib[i].ref /\ Main(i)'.ref = Nothing
            BY <1>6, EditItems
          <5>2. lib[i].ref # Nothing
            BY DEF Edit
          <5>3. QED
            BY <3>2, <4>2, <5>1, <5>2
        <4>3. QED
          BY <4>1, <4>2
      <3>3. QED
        BY <1>4, <2>2, <3>1, <3>2
    <2>3. QED
      BY <1>6, <2>1, <2>2 DEF CrossesAt
  <1>7. QED
    BY <1>5, <1>6

\* The foreign-type lines stay unless the declaration was listed there.
LEMMA EditHeader ==
    ASSUME LibInv, NEW i \in DOMAIN lib, Edit(i), ~ Crosses(lib[i]), lib[i].form # "generic"
    PROVE  ForeignTypes' = ForeignTypes
  <1>1. View /\ View'
    BY ViewIs, ViewAfter, EditKeeps
  <1>2. /\ DOMAIN lib' = DOMAIN lib
        /\ \A j \in DOMAIN lib : /\ j # i => lib'[j] = lib[j]
                                 /\ lib'[j].kind = lib[j].kind /\ lib'[j].pub = lib[j].pub
                                 /\ lib'[j].at = lib[j].at
    BY Edited
  <1>3. \A k \in DOMAIN lib : (IsMember(lib[k])' <=> IsMember(lib[k])) /\ Owner(k)' = Owner(k) /\ Owner(k) \in DOMAIN lib
    BY EditShape
  <1>4. ~ (/\ lib[i].pub /\ (lib[i].kind = "fn" \/ (IsMember(lib[i]) /\ lib[Owner(i)].pub))
           /\ lib[i].at \in {"par", "ret"})
    BY CrossesIs DEF IsMember
  <1>5. \A k \in DOMAIN lib : lib'[Owner(k)].pub = lib[Owner(k)].pub
    BY <1>2, <1>3
  <1>6. \A n : n \in ForeignTypes <=>
        n = "Fs" /\ \E k \in DOMAIN lib :
            /\ lib[k].pub /\ (lib[k].kind = "fn" \/ (IsMember(lib[k]) /\ lib[Owner(k)].pub))
            /\ lib[k].at \in {"par", "ret"} /\ n \in Names(lib[k].ref)
    BY <1>1 DEF View, HeaderIs
  <1>7. \A n : n \in ForeignTypes' <=>
        n = "Fs" /\ \E k \in DOMAIN lib :
            /\ lib[k].pub /\ (lib[k].kind = "fn" \/ (IsMember(lib[k]) /\ lib[Owner(k)].pub))
            /\ lib[k].at \in {"par", "ret"} /\ n \in Names(lib'[k].ref)
    BY <1>1, <1>2, <1>3, <1>5 DEF View, HeaderIs
  <1>8. \A n : n \in ForeignTypes' <=> n \in ForeignTypes
    BY <1>2, <1>4, <1>6, <1>7
  <1>9. QED
    BY <1>8

\* Every step but an edit makes the library longer.
LEMMA Grows ==
    ASSUME LibInv, InterfaceNext, ~ \E i \in DOMAIN lib : Edit(i)
    PROVE  Len(lib') # Len(lib)
  <1>1. \E d : lib' = Append(lib, d)
    BY DEF InterfaceNext, ParseStruct, ParseEnum, ParseProtocol, ParseMethod, ParseConformance,
           ParseFunction, Write
  <1>2. lib \in Seq(Declarations)
    BY DEF LibInv
  <1>3. QED
    BY <1>1, <1>2

\* The property of a step that changes a declaration.
LEMMA EditStep ==
    ASSUME LibInv, InterfaceNext, NEW i \in DOMAIN lib, Len(lib') = Len(lib), lib'[i] # lib[i]
    PROVE  /\ (Emit' = Emit) <=> ~Crosses(lib[i])
           /\ ~Crosses(lib[i]) /\ lib[i].form # "generic" => ForeignTypes' = ForeignTypes
  <1>1. PICK j \in DOMAIN lib : Edit(j)
    BY Grows
  <1>2. j = i
    BY <1>1, Edited
  <1>3. QED
    BY <1>1, <1>2, EditFile, EditHeader

\* In every reachable state a consumer can read the interface of a library the
\* compiler accepts exactly when nothing that crosses has one of the listed
\* forms: the order BmodEmitter writes its sections in, and the records after
\* the members, leave no other way to fail.
THEOREM InterfaceAlwaysReads == InterfaceSpec => []InterfaceReads
  BY LibAlways, ReadsHolds, PTL

\* In every reachable state a consumer of a file that reads sees each exported
\* signature as the library has it, except the return types and qualifiers the
\* property names.
THEOREM SignaturesAlwaysKept == InterfaceSpec => []SignaturesKept
  BY LibAlways, KeptHolds, PTL

\* No step changes a declaration inside without leaving the file alone, or one
\* that crosses without changing it: consumers are rebuilt exactly when the
\* interface they compiled against changed.
THEOREM EditsAlwaysStayInside == InterfaceSpec => EditsStayInside
  <1>1. LibInv /\ [InterfaceNext]_lib =>
          [\A i \in DOMAIN lib : Len(lib') = Len(lib) /\ lib'[i] # lib[i] =>
             /\ (Emit' = Emit) <=> ~Crosses(lib[i])
             /\ ~Crosses(lib[i]) /\ lib[i].form # "generic" => ForeignTypes' = ForeignTypes]_lib
    BY EditStep
  <1>2. QED
    BY <1>1, LibAlways, PTL DEF InterfaceSpec, EditsStayInside
=============================================================================
