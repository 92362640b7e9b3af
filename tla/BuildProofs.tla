---------------------------- MODULE BuildProofs ----------------------------
(***************************************************************************)
(* Proofs about Build.tla, for every dependency graph, every number of     *)
(* projects, edits, kills and cleans:                                      *)
(*   Fetched    a git dependency is built only from a finished clone,      *)
(*   Closures   closures name a project once, after its dependencies,      *)
(*   Served     an entry the cache serves is whole and of its key,         *)
(*   Links      a successful build hands on whole archives of the sources  *)
(*              as they are.                                               *)
(* The operators of the first part are those of Build with the state they  *)
(* read (the graph, the sources) as parameters.                            *)
(***************************************************************************)
EXTENDS Build, SequenceTheorems, WellFoundedInduction, TLAPS

DepsOf(g, p) == {g[p][i] : i \in DOMAIN g[p]}

ReachIn(g, p) ==
  {q \in Projects :
     \A S \in SUBSET Projects :
       (/\ \A i \in DOMAIN g[p] : g[p][i] \in S
        /\ \A r \in S : \A i \in DOMAIN g[r] : g[r][i] \in S) => q \in S}

\* What p is compiled from when the sources are s.
FreshIn(g, s, p) == {<<q, s[q]>> : q \in {p} \cup ReachIn(g, p)}

Origins(c) == {c[i].origin : i \in 1 .. Len(c)}

Ordered(g, c) ==
  /\ \A i, j \in 1 .. Len(c) : c[i].origin = c[j].origin => i = j
  /\ \A j \in 1 .. Len(c) : \A d \in DepsOf(g, c[j].origin) :
       \E i \in 1 .. (j - 1) : c[i].origin = d

\* A set of keys that agrees with the graph and the sources s, and holds the keys
\* of the dependencies of its members.
Agree(g, s, K) ==
  \A k \in K :
    /\ k[1] \in Projects /\ k[2] = s[k[1]] /\ DOMAIN k[3] = DOMAIN g[k[1]]
    /\ \A i \in DOMAIN k[3] : k[3][i] \in K /\ k[3][i][1] = g[k[1]][i]

\* k is the key of its project when the sources are s.
KeyOf(g, s, k) == \E K : k \in K /\ Agree(g, s, K)

IsSeq(s) == \E S : s \in Seq(S)

-----------------------------------------------------------------------------
\* The inductive invariant.

\* The closure of a frame for project p: current, as the cache copied it, in order.
GoodClosure(g, s, c, p) ==
  /\ c \in Seq(Artifacts)
  /\ Ordered(g, c)
  /\ \A j \in 1 .. Len(c) : /\ c[j].origin \in ReachIn(g, p)
                            /\ c[j].a \in Copied(FreshIn(g, s, c[j].origin))
                            /\ c[j].bmod.from = FreshIn(g, s, c[j].origin)

\* The keys of the first dependencies of p.
GoodHashes(g, s, h, p) ==
  /\ IsSeq(h)
  /\ Len(h) <= Len(g[p])
  /\ \E K : Agree(g, s, K) /\ \A i \in 1 .. Len(h) : h[i] \in K /\ h[i][1] = g[p][i]

Storing == {"store", "storeA", "storeB"}
Fetching == {"clone", "rename"}

GoodFrame(g, s, f) ==
  /\ f = [proj |-> f.proj, pc |-> f.pc, hashes |-> f.hashes, closure |-> f.closure, obj |-> f.obj]
  /\ f.proj \in Projects /\ f.pc \in {"deps"} \cup Fetching \cup Storing
  /\ GoodHashes(g, s, f.hashes, f.proj)
  /\ GoodClosure(g, s, f.closure, f.proj)
  /\ \A i \in 1 .. Len(f.hashes) : g[f.proj][i] \in Origins(f.closure)
  /\ f.pc \in Storing => /\ f.proj \in Libraries /\ Len(f.hashes) = Len(g[f.proj])
                         /\ f.obj = FreshIn(g, s, f.proj)
  /\ f.pc \in Fetching => /\ Len(f.hashes) < Len(g[f.proj])
                          /\ g[f.proj][Len(f.hashes) + 1] \in GitProjects

\* f waits for the call that builds project p.
Awaits(g, f, p) == /\ f.pc = "deps" /\ Len(f.hashes) < Len(g[f.proj])
                   /\ p = g[f.proj][Len(f.hashes) + 1]

StackInv ==
  /\ (outcome = "running") <=> (stack # <<>>)
  /\ IsSeq(stack)
  /\ \A n \in 1 .. Len(stack) : GoodFrame(graph, src, stack[n])
  /\ \A n \in 1 .. (Len(stack) - 1) : Awaits(graph, stack[n], stack[n + 1].proj)

\* No project is built inside itself, and so none is in its own closure.
BuildingInv ==
  /\ \A n \in 1 .. Len(stack) : stack[n].proj \in building
  /\ \A m, n \in 1 .. Len(stack) : stack[m].proj = stack[n].proj => m = n
  /\ \A n \in 1 .. Len(stack) : \A m \in 1 .. n : stack[m].proj \notin Origins(stack[n].closure)

\* A frame that stores replaces no entry that lookup would serve, and opens the
\* interface behind an archive that was copied.
TopInv ==
  /\ outcome = "running" /\ Top.pc \in {"store", "storeA"} => Entry(TopKey).bmod.state = "absent"
  /\ outcome = "running" /\ Top.pc = "storeB" => Entry(TopKey).a \in Copied(Top.obj)
  /\ outcome = "running" /\ Top.pc = "rename" => checkout[NextDep(Top)].part = "whole"

CheckoutInv ==
  /\ checkout \in [GitProjects -> [dir : {"absent", "whole"}, part : {"absent", "partial", "whole"}]]
  /\ \A n \in 1 .. Len(stack) : stack[n].proj \in GitProjects => checkout[stack[n].proj].dir = "whole"

\* An entry with an interface was stored by a build that found its key.
GoodEntry(g, k, e) ==
  /\ e \in [a : Files, bmod : Files]
  /\ e.bmod.state # "absent" =>
       \E s \in [Projects -> Versions] :
          /\ KeyOf(g, s, k)
          /\ e.a \in Copied(FreshIn(g, s, k[1])) /\ e.bmod.from = FreshIn(g, s, k[1])

CacheInv == \A k \in DOMAIN cache : GoodEntry(graph, k, cache[k])

ProductInv ==
  /\ product \in Seq(Artifacts) /\ Ordered(graph, product)
  /\ outcome = "ok" =>
       \E c \in Seq(Artifacts), d \in Artifacts :
          /\ product = Append(c, d) /\ GoodClosure(graph, src, c, d.origin)
          /\ DepsOf(graph, d.origin) \subseteq Origins(c)
          /\ d.a \in Copied(FreshIn(graph, src, d.origin))

Inv ==
  /\ graph \in Graphs /\ src \in [Projects -> Versions]
  /\ StackInv /\ BuildingInv /\ TopInv /\ CheckoutInv /\ CacheInv /\ ProductInv

-----------------------------------------------------------------------------
\* A set of natural numbers that is not empty has a least element.
LEMMA LeastNat ==
    ASSUME NEW T \in SUBSET Nat, T # {}
    PROVE  \E x \in T : \A y \in T : x <= y
  <1> DEFINE R == {ss \in Nat \X Nat : ss[1] < ss[2]}
  <1>1. IsWellFoundedOn(R, Nat)
    BY NatLessThanWellFounded, Zenon DEF OpToRel
  <1> HIDE DEF R
  <1>2. PICK x \in T : \A y \in T : ~ (<<y, x>> \in R)
    BY <1>1, WFMin
  <1>3. ASSUME NEW y \in T PROVE x <= y
    <2>1. x \in Nat /\ y \in Nat
      OBVIOUS
    <2>2. <<y, x>> \in R <=> y < x
      BY <2>1 DEF R
    <2>3. QED
      BY <1>2, <2>1, <2>2
  <1>4. QED
    BY <1>3

\* What FoldLeft(MergeDep, into, s) is defined to be.
FoldOn(into, s, m, g) ==
    g = [T \in SUBSET (1 .. m) |-> IF T = {} THEN into
                                   ELSE MergeDep(g[T \ {Max(T)}], s[Max(T)])]

\* The fold over a sequence is that recursion at the indices of the sequence.
LEMMA FoldUnfolds ==
    ASSUME NEW into, NEW S, NEW s \in Seq(S)
    PROVE  FoldLeft(MergeDep, into, s) =
             (CHOOSE g : FoldOn(into, s, Len(s), g))[1 .. Len(s)]
  <1>1. DOMAIN s = 1 .. Len(s)
    OBVIOUS
  <1>2. QED
    BY <1>1 DEF FoldLeft, MapThenFoldSet, FoldOn

\* The greatest element of a set of numbers up to m that holds m.
LEMMA MaxIs ==
    ASSUME NEW m \in Nat, NEW T \in SUBSET (1 .. m), m \in T
    PROVE  Max(T) = m
  <1>1. \A y \in T : y \in Int /\ y <= m
    OBVIOUS
  <1>2. \A x \in T : (\A y \in T : x >= y) => x = m
    BY <1>1
  <1>3. \A y \in T : m >= y
    BY <1>1
  <1>4. QED
    BY <1>2, <1>3 DEF Max

\* The recursion that defines the fold has a solution.
LEMMA FoldExists ==
    ASSUME NEW into, NEW s, NEW n \in Nat
    PROVE  \E g : FoldOn(into, s, n, g)
  <1> DEFINE Bad == {m \in Nat : ~\E g : FoldOn(into, s, m, g)}
  <1> SUFFICES ASSUME Bad # {} PROVE FALSE
    OBVIOUS
  <1>1. PICK m \in Bad : \A y \in Bad : m <= y
    <2>1. Bad \in SUBSET Nat
      OBVIOUS
    <2> HIDE DEF Bad
    <2>2. QED
      BY <2>1, LeastNat
  <1>2. m \in Nat /\ \A g : ~FoldOn(into, s, m, g)
    OBVIOUS
  <1>3. CASE m = 0
    <2> DEFINE h == [T \in SUBSET (1 .. 0) |-> into]
    <2>1. \A T \in SUBSET (1 .. 0) : T = {}
      OBVIOUS
    <2>2. FoldOn(into, s, 0, h)
      BY <2>1 DEF FoldOn
    <2>3. QED
      BY <1>2, <1>3, <2>2
  <1>4. CASE m # 0
    <2>1. m - 1 \in Nat /\ m - 1 \notin Bad
      BY <1>1, <1>2, <1>4
    <2>2. PICK g : FoldOn(into, s, m - 1, g)
      BY <2>1
    <2> DEFINE h == [T \in SUBSET (1 .. m) |-> IF m \in T THEN MergeDep(g[T \ {m}], s[m]) ELSE g[T]]
    <2>3. \A T \in SUBSET (1 .. m) : m \notin T => T \in SUBSET (1 .. (m - 1))
      BY <1>2
    <2>4. \A T \in SUBSET (1 .. (m - 1)) : m \notin T /\ T \in SUBSET (1 .. m)
      BY <1>2
    <2>5. \A T \in SUBSET (1 .. (m - 1)) :
             g[T] = IF T = {} THEN into ELSE MergeDep(g[T \ {Max(T)}], s[Max(T)])
      BY <2>2, Zenon DEF FoldOn
    <2>6. ASSUME NEW T \in SUBSET (1 .. m)
          PROVE  h[T] = IF T = {} THEN into ELSE MergeDep(h[T \ {Max(T)}], s[Max(T)])
      <3>1. CASE m \in T
        <4>1. Max(T) = m
          BY <1>2, <3>1, MaxIs
        <4>2. T \ {m} \in SUBSET (1 .. m) /\ m \notin T \ {m}
          OBVIOUS
        <4>3. h[T] = MergeDep(g[T \ {m}], s[m]) /\ h[T \ {m}] = g[T \ {m}]
          BY <3>1, <4>2
        <4>4. QED
          BY <3>1, <4>1, <4>3
      <3>2. CASE m \notin T
        <4>1. T \in SUBSET (1 .. (m - 1))
          BY <2>3, <3>2
        <4>2. T \ {Max(T)} \in SUBSET (1 .. m) /\ m \notin T \ {Max(T)}
          BY <3>2
        <4>3. h[T] = g[T] /\ h[T \ {Max(T)}] = g[T \ {Max(T)}]
          BY <3>2, <4>2
        <4>4. QED
          BY <2>5, <4>1, <4>3
      <3>3. QED
        BY <3>1, <3>2
    <2>7. FoldOn(into, s, m, h)
      BY <2>6, Zenon DEF FoldOn
    <2>8. QED
      BY <1>2, <2>7
  <1>5. QED
    BY <1>3, <1>4

\* The fold, element by element: merged[i] is what the first i elements give.
LEMMA FoldSteps ==
    ASSUME NEW into, NEW S, NEW s \in Seq(S)
    PROVE  \E merged : /\ merged[0] = into
                       /\ \A i \in 1 .. Len(s) : merged[i] = MergeDep(merged[i - 1], s[i])
                       /\ merged[Len(s)] = FoldLeft(MergeDep, into, s)
  <1> DEFINE n == Len(s)
             g == CHOOSE f : FoldOn(into, s, n, f)
             merged == [i \in 0 .. n |-> g[1 .. i]]
  <1>1. n \in Nat
    OBVIOUS
  <1>2. FoldOn(into, s, n, g)
    BY <1>1, FoldExists
  <1>3. FoldLeft(MergeDep, into, s) = g[1 .. n]
    BY FoldUnfolds
  <1> HIDE DEF g, n
  <1>4. \A T \in SUBSET (1 .. n) :
           g[T] = IF T = {} THEN into ELSE MergeDep(g[T \ {Max(T)}], s[Max(T)])
    BY <1>2, Zenon DEF FoldOn
  <1>5. merged[0] = into
    <2>1. 1 .. 0 = {} /\ {} \in SUBSET (1 .. n) /\ 0 \in 0 .. n
      BY <1>1
    <2>2. QED
      BY <1>4, <2>1
  <1>6. ASSUME NEW i \in 1 .. n PROVE merged[i] = MergeDep(merged[i - 1], s[i])
    <2>1. /\ i \in 0 .. n /\ i - 1 \in 0 .. n /\ i \in Nat
          /\ 1 .. i \in SUBSET (1 .. n) /\ i \in 1 .. i
          /\ (1 .. i) \ {i} = 1 .. (i - 1)
      BY <1>1
    <2>2. Max(1 .. i) = i
      BY <2>1, MaxIs
    <2>3. g[1 .. i] = MergeDep(g[1 .. (i - 1)], s[i])
      BY <1>4, <2>1, <2>2
    <2>4. QED
      BY <2>1, <2>3
  <1>7. merged[n] = FoldLeft(MergeDep, into, s)
    BY <1>1, <1>3
  <1>8. QED
    BY <1>5, <1>6, <1>7 DEF n

-----------------------------------------------------------------------------
\* Sequences whose elements are of no named set.

\* A call is pushed, a key or an artefact appended.
LEMMA SeqAppend ==
    ASSUME NEW s, IsSeq(s), NEW x
    PROVE  /\ IsSeq(Append(s, x)) /\ Append(s, x) # <<>> /\ Len(s) \in Nat
           /\ Len(Append(s, x)) = Len(s) + 1 /\ Append(s, x)[Len(s) + 1] = x
           /\ \A i \in 1 .. Len(s) : Append(s, x)[i] = s[i]
  <1>1. PICK S : s \in Seq(S)
    BY DEF IsSeq
  <1>2. s \in Seq(S \cup {x}) /\ x \in S \cup {x}
    BY <1>1
  <1>3. Append(s, x) \in Seq(S \cup {x}) /\ Len(Append(s, x)) = Len(s) + 1 /\ Len(s) \in Nat
    BY <1>2
  <1>4. /\ Append(s, x) # <<>> /\ Append(s, x)[Len(s) + 1] = x
        /\ \A i \in 1 .. Len(s) : Append(s, x)[i] = s[i]
    BY <1>2, <1>3
  <1>5. QED
    BY <1>3, <1>4 DEF IsSeq

\* A sequence that is not empty has a last element.
LEMMA SeqLast ==
    ASSUME NEW s, IsSeq(s), s # <<>>
    PROVE  Len(s) \in Nat \ {0} /\ Len(s) \in 1 .. Len(s) /\ DOMAIN s = 1 .. Len(s)
  <1>1. PICK S : s \in Seq(S)
    BY DEF IsSeq
  <1>2. QED
    BY <1>1

\* The last element is replaced.
LEMMA SeqSetLast ==
    ASSUME NEW s, IsSeq(s), s # <<>>, NEW x
    PROVE  \E t : /\ t = [s EXCEPT ![Len(s)] = x]
                  /\ IsSeq(t) /\ t # <<>> /\ Len(t) = Len(s)
                  /\ \A i \in 1 .. Len(s) : t[i] = IF i = Len(s) THEN x ELSE s[i]
  <1> PICK t : t = [s EXCEPT ![Len(s)] = x]
    OBVIOUS
  <1>1. PICK S : s \in Seq(S)
    BY DEF IsSeq
  <1>2. s \in Seq(S \cup {x}) /\ x \in S \cup {x} /\ Len(s) \in 1 .. Len(s)
    BY <1>1, SeqLast
  <1>3. t \in Seq(S \cup {x}) /\ Len(t) = Len(s)
    BY <1>2
  <1>4. \A i \in 1 .. Len(s) : t[i] = IF i = Len(s) THEN x ELSE s[i]
    BY <1>2
  <1>5. IsSeq(t) /\ t # <<>>
    BY <1>2, <1>3 DEF IsSeq
  <1>6. QED
    BY <1>3, <1>4, <1>5

\* The last element is dropped.
LEMMA SeqFront ==
    ASSUME NEW s, IsSeq(s), s # <<>>
    PROVE  /\ IsSeq(SubSeq(s, 1, Len(s) - 1)) /\ Len(SubSeq(s, 1, Len(s) - 1)) = Len(s) - 1
           /\ \A i \in 1 .. (Len(s) - 1) : SubSeq(s, 1, Len(s) - 1)[i] = s[i]
  <1>1. PICK S : s \in Seq(S)
    BY DEF IsSeq
  <1>2. Len(s) \in Nat /\ Len(s) >= 1
    BY SeqLast
  <1> DEFINE m == Len(s) - 1
  <1>3. m \in Nat /\ \A i \in 1 .. m : s[i] \in S
    BY <1>1, <1>2
  <1>4. /\ SubSeq(s, 1, m) \in Seq(S) /\ Len(SubSeq(s, 1, m)) = IF 1 <= m THEN m - 1 + 1 ELSE 0
        /\ \A i \in 1 .. m - 1 + 1 : SubSeq(s, 1, m)[i] = s[1 + i - 1]
    BY <1>3, SubSeqProperties
  <1> HIDE DEF m
  <1>5. \A i \in 1 .. m : SubSeq(s, 1, m)[i] = s[i]
    BY <1>3, <1>4
  <1>6. Len(SubSeq(s, 1, m)) = m
    BY <1>3, <1>4
  <1>7. QED
    BY <1>4, <1>5, <1>6 DEF IsSeq, m

-----------------------------------------------------------------------------
\* The dependency graph.

\* Dependency lists are sequences of libraries.
LEMMA GraphIs ==
    ASSUME NEW g \in Graphs, NEW p \in Projects
    PROVE  /\ g[p] \in Seq(Libraries) /\ Len(g[p]) \in Nat /\ DOMAIN g[p] = 1 .. Len(g[p])
           /\ \A i \in 1 .. Len(g[p]) : g[p][i] \in Libraries /\ g[p][i] \in Projects
  BY BuildAssumption

\* Dependencies are reached.
LEMMA ReachDeps ==
    ASSUME NEW g \in Graphs, NEW p \in Projects
    PROVE  DepsOf(g, p) \subseteq ReachIn(g, p) /\ ReachIn(g, p) \subseteq Projects
  BY GraphIs DEF DepsOf, ReachIn

\* So is what they reach.
LEMMA ReachTrans ==
    ASSUME NEW g, NEW p, NEW q \in ReachIn(g, p)
    PROVE  ReachIn(g, q) \subseteq ReachIn(g, p)
  BY DEF ReachIn

\* And nothing else.
LEMMA ReachLeast ==
    ASSUME NEW g, NEW p, NEW S \in SUBSET Projects,
           DepsOf(g, p) \subseteq S, \A r \in S : DepsOf(g, r) \subseteq S
    PROVE  ReachIn(g, p) \subseteq S
  BY DEF ReachIn, DepsOf

\* A key determines the versions of everything its project is compiled from.
LEMMA KeyDetermines ==
    ASSUME NEW g \in Graphs, NEW s, NEW t, NEW k, KeyOf(g, s, k), KeyOf(g, t, k)
    PROVE  FreshIn(g, s, k[1]) = FreshIn(g, t, k[1])
  <1>1. PICK K : k \in K /\ Agree(g, s, K)
    BY DEF KeyOf
  <1>2. PICK L : k \in L /\ Agree(g, t, L)
    BY DEF KeyOf
  <1> DEFINE Q == {x[1] : x \in K \cap L}
  <1>3. \A q \in Q : q \in Projects /\ s[q] = t[q]
    BY <1>1, <1>2 DEF Agree
  <1>4. \A q \in Q : DepsOf(g, q) \subseteq Q
    <2> SUFFICES ASSUME NEW x \in K \cap L, NEW i \in DOMAIN g[x[1]] PROVE g[x[1]][i] \in Q
      BY DEF DepsOf
    <2>1. x[3][i] \in K \cap L /\ x[3][i][1] = g[x[1]][i]
      BY <1>1, <1>2 DEF Agree
    <2>2. QED
      BY <2>1
  <1>5. k[1] \in Q /\ Q \in SUBSET Projects
    BY <1>1, <1>2, <1>3
  <1> HIDE DEF Q
  <1>6. ReachIn(g, k[1]) \subseteq Q
    BY <1>4, <1>5, ReachLeast
  <1>7. \A q \in {k[1]} \cup ReachIn(g, k[1]) : s[q] = t[q]
    BY <1>3, <1>5, <1>6
  <1>8. QED
    BY <1>7 DEF FreshIn

\* The key of a project whose dependencies' keys are known.
LEMMA KeyMade ==
    ASSUME NEW g \in Graphs, NEW s, NEW p \in Projects, NEW h,
           GoodHashes(g, s, h, p), Len(h) = Len(g[p])
    PROVE  KeyOf(g, s, <<p, s[p], h>>)
  <1>1. PICK K : Agree(g, s, K) /\ \A i \in 1 .. Len(h) : h[i] \in K /\ h[i][1] = g[p][i]
    BY DEF GoodHashes
  <1> DEFINE k == <<p, s[p], h>>
             L == K \cup {k}
  <1>2. DOMAIN h = DOMAIN g[p] /\ DOMAIN h = 1 .. Len(h)
    <2>1. PICK S : h \in Seq(S)
      BY DEF GoodHashes, IsSeq
    <2>2. QED
      BY <2>1, GraphIs
  <1>3. k[1] = p /\ k[2] = s[p] /\ k[3] = h
    OBVIOUS
  <1>4. Agree(g, s, L)
    BY <1>1, <1>2, <1>3 DEF Agree
  <1>5. QED
    BY <1>4 DEF KeyOf

-----------------------------------------------------------------------------
\* Merging closures.

\* One more artefact, kept out when its origin is there already.
LEMMA MergeOne ==
    ASSUME NEW g, NEW c \in Seq(Artifacts), NEW d \in Artifacts
    PROVE  /\ MergeDep(c, d) \in Seq(Artifacts)
           /\ Origins(MergeDep(c, d)) = Origins(c) \cup {d.origin}
           /\ \A j \in 1 .. Len(MergeDep(c, d)) :
                 MergeDep(c, d)[j] = d \/ \E i \in 1 .. Len(c) : MergeDep(c, d)[j] = c[i]
           /\ Ordered(g, c) /\ DepsOf(g, d.origin) \subseteq Origins(c) => Ordered(g, MergeDep(c, d))
  <1>1. DOMAIN c = 1 .. Len(c) /\ Len(c) \in Nat
    OBVIOUS
  <1>2. CASE \E i \in DOMAIN c : c[i].origin = d.origin
    <2>1. MergeDep(c, d) = c
      BY <1>2 DEF MergeDep
    <2>2. d.origin \in Origins(c)
      BY <1>1, <1>2 DEF Origins
    <2>3. QED
      BY <2>1, <2>2
  <1>3. CASE ~\E i \in DOMAIN c : c[i].origin = d.origin
    <2> DEFINE e == Append(c, d)
    <2>1. MergeDep(c, d) = e
      BY <1>3 DEF MergeDep
    <2>2. e \in Seq(Artifacts) /\ Len(e) = Len(c) + 1
      OBVIOUS
    <2>3. \A i \in 1 .. Len(c) : e[i] = c[i]
      BY <1>1
    <2>4. e[Len(c) + 1] = d
      BY <1>1
    <2> HIDE DEF e
    <2>5. \A j \in 1 .. Len(e) : j \in 1 .. Len(c) \/ j = Len(c) + 1
      BY <1>1, <2>2
    <2>6. Origins(e) = Origins(c) \cup {d.origin}
      <3>1. \A j \in 1 .. Len(e) : e[j].origin \in Origins(c) \cup {d.origin}
        BY <2>3, <2>4, <2>5 DEF Origins
      <3>2. \A j \in 1 .. Len(c) : j \in 1 .. Len(e) /\ c[j].origin = e[j].origin
        BY <1>1, <2>2, <2>3
      <3>3. Len(c) + 1 \in 1 .. Len(e) /\ e[Len(c) + 1].origin = d.origin
        BY <1>1, <2>2, <2>4
      <3>4. QED
        BY <3>1, <3>2, <3>3 DEF Origins
    <2>7. \A j \in 1 .. Len(e) : e[j] = d \/ \E i \in 1 .. Len(c) : e[j] = c[i]
      BY <2>3, <2>4, <2>5
    <2>8. ASSUME Ordered(g, c), DepsOf(g, d.origin) \subseteq Origins(c) PROVE Ordered(g, e)
      <3>1. \A i, j \in 1 .. Len(e) : e[i].origin = e[j].origin => i = j
        BY <1>1, <1>3, <2>3, <2>4, <2>5, <2>8 DEF Ordered
      <3>2. ASSUME NEW j \in 1 .. Len(e), NEW x \in DepsOf(g, e[j].origin)
            PROVE  \E i \in 1 .. (j - 1) : e[i].origin = x
        <4>1. CASE j \in 1 .. Len(c)
          <5>1. PICK i \in 1 .. (j - 1) : c[i].origin = x
            BY <2>3, <2>8, <3>2, <4>1 DEF Ordered
          <5>2. i \in 1 .. Len(c)
            BY <1>1, <4>1
          <5>3. QED
            BY <2>3, <5>1, <5>2
        <4>2. CASE j = Len(c) + 1
          <5>1. PICK i \in 1 .. Len(c) : c[i].origin = x
            BY <2>4, <2>8, <3>2, <4>2 DEF Origins
          <5>2. i \in 1 .. (j - 1)
            BY <1>1, <4>2
          <5>3. QED
            BY <2>3, <5>1, <5>2
        <4>3. QED
          BY <2>5, <4>1, <4>2
      <3>3. QED
        BY <3>1, <3>2 DEF Ordered
    <2>9. QED
      BY <2>1, <2>2, <2>6, <2>7, <2>8
  <1>4. QED
    BY <1>2, <1>3

\* A whole closure merged into another.
LEMMA MergeMany ==
    ASSUME NEW g, NEW into \in Seq(Artifacts), NEW s \in Seq(Artifacts),
           Ordered(g, into), Ordered(g, s)
    PROVE  /\ FoldLeft(MergeDep, into, s) \in Seq(Artifacts)
           /\ Origins(FoldLeft(MergeDep, into, s)) = Origins(into) \cup Origins(s)
           /\ \A j \in 1 .. Len(FoldLeft(MergeDep, into, s)) :
                 \/ \E i \in 1 .. Len(into) : FoldLeft(MergeDep, into, s)[j] = into[i]
                 \/ \E i \in 1 .. Len(s) : FoldLeft(MergeDep, into, s)[j] = s[i]
           /\ Ordered(g, FoldLeft(MergeDep, into, s))
  <1>1. PICK merged : /\ merged[0] = into
                      /\ \A i \in 1 .. Len(s) : merged[i] = MergeDep(merged[i - 1], s[i])
                      /\ merged[Len(s)] = FoldLeft(MergeDep, into, s)
    BY FoldSteps
  <1>2. Len(s) \in Nat /\ \A i \in 1 .. Len(s) : s[i] \in Artifacts
    OBVIOUS
  <1> DEFINE Good(m) ==
               /\ merged[m] \in Seq(Artifacts)
               /\ Origins(merged[m]) = Origins(into) \cup {s[i].origin : i \in 1 .. m}
               /\ \A j \in 1 .. Len(merged[m]) : \/ \E i \in 1 .. Len(into) : merged[m][j] = into[i]
                                                 \/ \E i \in 1 .. Len(s) : merged[m][j] = s[i]
               /\ Ordered(g, merged[m])
             Bad == {m \in 0 .. Len(s) : ~Good(m)}
  <1>3. Good(0)
    <2>1. {s[i].origin : i \in 1 .. 0} = {}
      OBVIOUS
    <2>2. QED
      BY <1>1, <2>1
  <1>4. ASSUME NEW m \in 1 .. Len(s), Good(m - 1) PROVE Good(m)
    <2> DEFINE c == merged[m - 1]
               e == merged[m]
    <2>1. /\ c \in Seq(Artifacts) /\ Ordered(g, c)
          /\ Origins(c) = Origins(into) \cup {s[i].origin : i \in 1 .. (m - 1)}
          /\ \A j \in 1 .. Len(c) : \/ \E i \in 1 .. Len(into) : c[j] = into[i]
                                    \/ \E i \in 1 .. Len(s) : c[j] = s[i]
      BY <1>4
    <2>2. e = MergeDep(c, s[m]) /\ s[m] \in Artifacts
      BY <1>1
    <2> HIDE DEF c, e
    <2>3. DepsOf(g, s[m].origin) \subseteq Origins(c)
      <3> SUFFICES ASSUME NEW x \in DepsOf(g, s[m].origin) PROVE x \in Origins(c)
        OBVIOUS
      <3>1. PICK i \in 1 .. (m - 1) : s[i].origin = x
        BY DEF Ordered
      <3>2. QED
        BY <2>1, <3>1
    <2>4. /\ e \in Seq(Artifacts)
          /\ Origins(e) = Origins(c) \cup {s[m].origin}
          /\ \A j \in 1 .. Len(e) : e[j] = s[m] \/ \E i \in 1 .. Len(c) : e[j] = c[i]
          /\ Ordered(g, e)
      BY <2>1, <2>2, <2>3, MergeOne
    <2>5. Origins(e) = Origins(into) \cup {s[i].origin : i \in 1 .. m}
      <3>1. \A i : i \in 1 .. m <=> (i \in 1 .. (m - 1) \/ i = m)
        BY <1>2
      <3>2. {s[i].origin : i \in 1 .. m} = {s[i].origin : i \in 1 .. (m - 1)} \cup {s[m].origin}
        BY <3>1
      <3>3. QED
        BY <2>1, <2>4, <3>2
    <2>6. \A j \in 1 .. Len(e) : \/ \E i \in 1 .. Len(into) : e[j] = into[i]
                                 \/ \E i \in 1 .. Len(s) : e[j] = s[i]
      BY <2>1, <2>4
    <2>7. QED
      BY <2>4, <2>5, <2>6 DEF e
  <1>5. Good(Len(s))
    <2> HIDE DEF Good
    <2> SUFFICES ASSUME Bad # {} PROVE FALSE
      BY <1>2
    <2>1. Bad \in SUBSET Nat
      BY <1>2
    <2>2. PICK m \in Bad : \A y \in Bad : m <= y
      BY <2>1, LeastNat
    <2>3. m \in 0 .. Len(s) /\ ~Good(m)
      OBVIOUS
    <2>4. m \in 1 .. Len(s) /\ m - 1 \in 0 .. Len(s) /\ m - 1 \notin Bad
      BY <1>2, <1>3, <2>2, <2>3
    <2>5. QED
      BY <1>4, <2>3, <2>4
  <1>6. Origins(s) = {s[i].origin : i \in 1 .. Len(s)}
    BY DEF Origins
  <1>7. QED
    BY <1>1, <1>5, <1>6, Zenon

\* What a caller's closure becomes when the call for p returns.
LEMMA MergedClosure ==
    ASSUME NEW g \in Graphs, NEW s, NEW q \in Projects, NEW p \in ReachIn(g, q), NEW d \in Artifacts,
           NEW into, GoodClosure(g, s, into, q), NEW c, GoodClosure(g, s, c, p),
           d.origin = p, DepsOf(g, p) \subseteq Origins(c),
           d.a \in Copied(FreshIn(g, s, p)), d.bmod.from = FreshIn(g, s, p)
    PROVE  /\ GoodClosure(g, s, MergeClosure(into, c, d), q)
           /\ Origins(MergeClosure(into, c, d)) = Origins(into) \cup Origins(c) \cup {p}
  <1> DEFINE m == FoldLeft(MergeDep, into, c)
             e == MergeClosure(into, c, d)
  <1>1. into \in Seq(Artifacts) /\ c \in Seq(Artifacts) /\ Ordered(g, into) /\ Ordered(g, c)
    BY DEF GoodClosure
  <1>2. /\ m \in Seq(Artifacts) /\ Origins(m) = Origins(into) \cup Origins(c) /\ Ordered(g, m)
        /\ \A j \in 1 .. Len(m) : \/ \E i \in 1 .. Len(into) : m[j] = into[i]
                                  \/ \E i \in 1 .. Len(c) : m[j] = c[i]
    BY <1>1, MergeMany
  <1>3. e = MergeDep(m, d)
    BY DEF MergeClosure
  <1> HIDE DEF m, e
  <1>4. /\ e \in Seq(Artifacts) /\ Origins(e) = Origins(m) \cup {p} /\ Ordered(g, e)
        /\ \A j \in 1 .. Len(e) : e[j] = d \/ \E i \in 1 .. Len(m) : e[j] = m[i]
    BY <1>2, <1>3, MergeOne
  <1>5. ReachIn(g, p) \subseteq ReachIn(g, q)
    BY ReachTrans
  <1>6. ASSUME NEW j \in 1 .. Len(e)
        PROVE  /\ e[j].origin \in ReachIn(g, q)
               /\ e[j].a \in Copied(FreshIn(g, s, e[j].origin))
               /\ e[j].bmod.from = FreshIn(g, s, e[j].origin)
    <2>1. CASE e[j] = d
      BY <2>1
    <2>2. CASE \E i \in 1 .. Len(into) : e[j] = into[i]
      BY <2>2 DEF GoodClosure
    <2>3. CASE \E i \in 1 .. Len(c) : e[j] = c[i]
      BY <1>5, <2>3 DEF GoodClosure
    <2>4. QED
      BY <1>2, <1>4, <2>1, <2>2, <2>3
  <1>7. QED
    BY <1>2, <1>4, <1>6 DEF GoodClosure, e

\* A closure that holds the dependencies of p holds all it reaches.
LEMMA ClosureWhole ==
    ASSUME NEW g \in Graphs, NEW s, NEW p \in Projects, NEW c, GoodClosure(g, s, c, p),
           DepsOf(g, p) \subseteq Origins(c)
    PROVE  Origins(c) = ReachIn(g, p)
  <1>1. Origins(c) \subseteq ReachIn(g, p) /\ Origins(c) \in SUBSET Projects
    BY ReachDeps DEF GoodClosure, Origins
  <1>2. ASSUME NEW r \in Origins(c) PROVE DepsOf(g, r) \subseteq Origins(c)
    <2>1. PICK j \in 1 .. Len(c) : c[j].origin = r
      BY DEF Origins
    <2>2. Len(c) \in Nat
      BY DEF GoodClosure
    <2>3. \A i \in 1 .. (j - 1) : i \in 1 .. Len(c)
      BY <2>2
    <2>4. ASSUME NEW x \in DepsOf(g, r) PROVE x \in Origins(c)
      <3>1. PICK i \in 1 .. (j - 1) : c[i].origin = x
        BY <2>1, <2>4 DEF GoodClosure, Ordered
      <3>2. QED
        BY <2>3, <3>1 DEF Origins
    <2>5. QED
      BY <2>4
  <1>3. ReachIn(g, p) \subseteq Origins(c)
    BY <1>1, <1>2, ReachLeast
  <1>4. QED
    BY <1>1, <1>3

\* Compiling against such a closure reads the current versions of all p reaches.
LEMMA CompiledFresh ==
    ASSUME NEW g \in Graphs, NEW s, NEW p \in Projects, NEW c, GoodClosure(g, s, c, p),
           DepsOf(g, p) \subseteq Origins(c)
    PROVE  {<<p, s[p]>>} \cup UNION {c[i].bmod.from : i \in DOMAIN c} = FreshIn(g, s, p)
  <1>1. Origins(c) = ReachIn(g, p)
    BY ClosureWhole
  <1>2. DOMAIN c = 1 .. Len(c)
    BY DEF GoodClosure
  <1>3. \A i \in 1 .. Len(c) : c[i].bmod.from = FreshIn(g, s, c[i].origin)
    BY DEF GoodClosure
  <1>4. UNION {c[i].bmod.from : i \in DOMAIN c} = UNION {FreshIn(g, s, q) : q \in ReachIn(g, p)}
    BY <1>1, <1>2, <1>3 DEF Origins
  <1>5. UNION {FreshIn(g, s, q) : q \in ReachIn(g, p)} = {<<q, s[q]>> : q \in ReachIn(g, p)}
    <2>1. \A q \in ReachIn(g, p) : ReachIn(g, q) \subseteq ReachIn(g, p)
      BY ReachTrans
    <2>2. QED
      BY <2>1 DEF FreshIn
  <1>6. QED
    BY <1>4, <1>5 DEF FreshIn

-----------------------------------------------------------------------------
\* Frames.

\* One more key among those a frame has collected.
LEMMA HashesGrow ==
    ASSUME NEW g \in Graphs, NEW s, NEW p \in Projects, NEW h, GoodHashes(g, s, h, p),
           Len(h) < Len(g[p]), NEW k, KeyOf(g, s, k), k[1] = g[p][Len(h) + 1]
    PROVE  GoodHashes(g, s, Append(h, k), p)
  <1>1. IsSeq(h)
    BY DEF GoodHashes
  <1>2. /\ IsSeq(Append(h, k)) /\ Len(h) \in Nat /\ Len(Append(h, k)) = Len(h) + 1
        /\ Append(h, k)[Len(h) + 1] = k /\ \A i \in 1 .. Len(h) : Append(h, k)[i] = h[i]
    BY <1>1, SeqAppend
  <1>3. PICK K : Agree(g, s, K) /\ \A i \in 1 .. Len(h) : h[i] \in K /\ h[i][1] = g[p][i]
    BY DEF GoodHashes
  <1>4. PICK L : k \in L /\ Agree(g, s, L)
    BY DEF KeyOf
  <1>5. Agree(g, s, K \cup L)
    BY <1>3, <1>4 DEF Agree
  <1>6. \A i \in 1 .. Len(h) + 1 : Append(h, k)[i] \in K \cup L /\ Append(h, k)[i][1] = g[p][i]
    <2> SUFFICES ASSUME NEW i \in 1 .. Len(h) + 1
                 PROVE  Append(h, k)[i] \in K \cup L /\ Append(h, k)[i][1] = g[p][i]
      OBVIOUS
    <2>1. CASE i \in 1 .. Len(h)
      BY <1>2, <1>3, <2>1
    <2>2. CASE i = Len(h) + 1
      BY <1>2, <1>4, <2>2
    <2>3. QED
      BY <1>2, <2>1, <2>2
  <1>7. Len(g[p]) \in Nat
    BY GraphIs
  <1>8. Len(Append(h, k)) <= Len(g[p])
    BY <1>2, <1>7
  <1>9. QED
    BY <1>2, <1>5, <1>6, <1>8 DEF GoodHashes

\* A frame that has all its keys has its dependencies in its closure.
LEMMA FrameDeps ==
    ASSUME NEW g \in Graphs, NEW s, NEW f, GoodFrame(g, s, f), Len(f.hashes) = Len(g[f.proj])
    PROVE  DepsOf(g, f.proj) \subseteq Origins(f.closure)
  <1>1. f.proj \in Projects /\ \A i \in 1 .. Len(f.hashes) : g[f.proj][i] \in Origins(f.closure)
    BY DEF GoodFrame
  <1>2. QED
    BY <1>1, GraphIs DEF DepsOf

\* A call that has just read its blang.toml.
LEMMA FrameNew ==
    ASSUME NEW g \in Graphs, NEW s, NEW p \in Projects
    PROVE  /\ GoodFrame(g, s, NewFrame(p)) /\ NewFrame(p).proj = p /\ NewFrame(p).pc = "deps"
           /\ Origins(NewFrame(p).closure) = {}
  <1> DEFINE f == NewFrame(p)
  <1>1. /\ f.proj = p /\ f.pc = "deps" /\ f.hashes = <<>> /\ f.closure = <<>> /\ f.obj = {}
        /\ f = [proj |-> f.proj, pc |-> f.pc, hashes |-> f.hashes, closure |-> f.closure, obj |-> f.obj]
    BY DEF NewFrame
  <1> HIDE DEF f
  <1>2. Len(<<>>) = 0 /\ 1 .. 0 = {} /\ <<>> \in Seq(Artifacts)
    OBVIOUS
  <1>3. Origins(<<>>) = {}
    BY <1>2 DEF Origins
  <1>4. Ordered(g, <<>>)
    BY <1>2 DEF Ordered
  <1>5. GoodClosure(g, s, <<>>, p)
    BY <1>2, <1>4 DEF GoodClosure
  <1>6. Agree(g, s, {})
    BY DEF Agree
  <1>7. GoodHashes(g, s, <<>>, p)
    <2>1. Len(g[p]) \in Nat
      BY GraphIs
    <2>2. QED
      BY <1>2, <1>6, <2>1 DEF GoodHashes, IsSeq
  <1>8. f.pc \notin Storing /\ f.pc \notin Fetching
    BY <1>1 DEF Storing, Fetching
  <1>9. GoodFrame(g, s, f)
    BY <1>1, <1>2, <1>3, <1>5, <1>7, <1>8 DEF GoodFrame
  <1>10. QED
    BY <1>1, <1>3, <1>9 DEF f

\* A frame moves on.
LEMMA FrameMoves ==
    ASSUME NEW g, NEW s, NEW f, GoodFrame(g, s, f), NEW pc \in {"deps"} \cup Fetching \cup Storing, NEW obj,
           pc \in Storing => /\ f.proj \in Libraries /\ Len(f.hashes) = Len(g[f.proj])
                             /\ obj = FreshIn(g, s, f.proj),
           pc \in Fetching => /\ Len(f.hashes) < Len(g[f.proj])
                              /\ g[f.proj][Len(f.hashes) + 1] \in GitProjects
    PROVE  GoodFrame(g, s, [proj |-> f.proj, pc |-> pc, hashes |-> f.hashes,
                            closure |-> f.closure, obj |-> obj])
  <1> DEFINE e == [proj |-> f.proj, pc |-> pc, hashes |-> f.hashes, closure |-> f.closure, obj |-> obj]
  <1>1. /\ e.proj = f.proj /\ e.pc = pc /\ e.hashes = f.hashes /\ e.closure = f.closure /\ e.obj = obj
        /\ e = [proj |-> e.proj, pc |-> e.pc, hashes |-> e.hashes, closure |-> e.closure, obj |-> e.obj]
    OBVIOUS
  <1> HIDE DEF e
  <1>2. GoodFrame(g, s, e)
    BY <1>1 DEF GoodFrame
  <1>3. QED
    BY <1>2 DEF e

\* The same when the object is left alone.
LEMMA FrameGoes ==
    ASSUME NEW g, NEW s, NEW f, GoodFrame(g, s, f), NEW pc \in {"deps"} \cup Fetching \cup Storing,
           pc \in Storing => f.pc \in Storing,
           pc \in Fetching => /\ Len(f.hashes) < Len(g[f.proj])
                              /\ g[f.proj][Len(f.hashes) + 1] \in GitProjects
    PROVE  /\ GoodFrame(g, s, [f EXCEPT !.pc = pc])
           /\ [f EXCEPT !.pc = pc] =
                [proj |-> f.proj, pc |-> pc, hashes |-> f.hashes, closure |-> f.closure, obj |-> f.obj]
  <1> DEFINE e == [proj |-> f.proj, pc |-> pc, hashes |-> f.hashes, closure |-> f.closure, obj |-> f.obj]
  <1>1. f = [proj |-> f.proj, pc |-> f.pc, hashes |-> f.hashes, closure |-> f.closure, obj |-> f.obj]
    BY DEF GoodFrame
  <1>2. [f EXCEPT !.pc = pc] = e
    BY <1>1
  <1>3. /\ e.proj = f.proj /\ e.pc = pc /\ e.hashes = f.hashes /\ e.closure = f.closure /\ e.obj = f.obj
        /\ e = [proj |-> e.proj, pc |-> e.pc, hashes |-> e.hashes, closure |-> e.closure, obj |-> e.obj]
    OBVIOUS
  <1> HIDE DEF e
  <1>4. GoodFrame(g, s, e)
    BY <1>3 DEF GoodFrame
  <1>5. QED
    BY <1>2, <1>4 DEF e

\* A caller takes what a call for p has built.
LEMMA FrameReturned ==
    ASSUME NEW g \in Graphs, NEW s, NEW f, GoodFrame(g, s, f), NEW p, Awaits(g, f, p),
           NEW c, GoodClosure(g, s, c, p), DepsOf(g, p) \subseteq Origins(c),
           NEW k, KeyOf(g, s, k), k[1] = p, NEW d \in Artifacts, d.origin = p,
           d.a \in Copied(FreshIn(g, s, p)), d.bmod.from = FreshIn(g, s, p)
    PROVE  /\ GoodFrame(g, s, [proj |-> f.proj, pc |-> "deps", hashes |-> Append(f.hashes, k),
                               closure |-> MergeClosure(f.closure, c, d), obj |-> f.obj])
           /\ Origins(MergeClosure(f.closure, c, d)) = Origins(f.closure) \cup Origins(c) \cup {p}
  <1> DEFINE e == [proj |-> f.proj, pc |-> "deps", hashes |-> Append(f.hashes, k),
                   closure |-> MergeClosure(f.closure, c, d), obj |-> f.obj]
  <1>1. /\ f.proj \in Projects /\ GoodHashes(g, s, f.hashes, f.proj)
        /\ GoodClosure(g, s, f.closure, f.proj)
        /\ \A i \in 1 .. Len(f.hashes) : g[f.proj][i] \in Origins(f.closure)
    BY DEF GoodFrame
  <1>2. Len(f.hashes) < Len(g[f.proj]) /\ p = g[f.proj][Len(f.hashes) + 1]
    BY DEF Awaits
  <1>3. IsSeq(f.hashes) /\ Len(f.hashes) \in Nat /\ Len(Append(f.hashes, k)) = Len(f.hashes) + 1
    BY <1>1, SeqAppend DEF GoodHashes
  <1>4. p \in DepsOf(g, f.proj) /\ p \in ReachIn(g, f.proj)
    <2>1. Len(f.hashes) + 1 \in DOMAIN g[f.proj]
      BY <1>1, <1>2, <1>3, GraphIs
    <2>2. QED
      BY <1>1, <1>2, <2>1, ReachDeps DEF DepsOf
  <1>5. GoodHashes(g, s, Append(f.hashes, k), f.proj)
    BY <1>1, <1>2, HashesGrow
  <1>6. /\ GoodClosure(g, s, MergeClosure(f.closure, c, d), f.proj)
        /\ Origins(MergeClosure(f.closure, c, d)) = Origins(f.closure) \cup Origins(c) \cup {p}
    <2> HIDE DEF e
    <2>1. PICK q \in Projects : q = f.proj
      BY <1>1
    <2> PICK into : into = f.closure
      OBVIOUS
    <2>2. GoodClosure(g, s, into, q) /\ p \in ReachIn(g, q)
      BY <1>1, <1>4, <2>1
    <2>3. /\ GoodClosure(g, s, MergeClosure(into, c, d), q)
          /\ Origins(MergeClosure(into, c, d)) = Origins(into) \cup Origins(c) \cup {p}
      BY <2>2, MergedClosure, SMTT(60)
    <2>4. QED
      BY <2>1, <2>3
  <1>7. /\ e.proj = f.proj /\ e.pc = "deps" /\ e.hashes = Append(f.hashes, k)
        /\ e.closure = MergeClosure(f.closure, c, d)
        /\ e = [proj |-> e.proj, pc |-> e.pc, hashes |-> e.hashes, closure |-> e.closure, obj |-> e.obj]
    OBVIOUS
  <1> HIDE DEF e
  <1>8. \A i \in 1 .. Len(e.hashes) : g[e.proj][i] \in Origins(e.closure)
    <2> SUFFICES ASSUME NEW i \in 1 .. Len(e.hashes) PROVE g[e.proj][i] \in Origins(e.closure)
      OBVIOUS
    <2>1. i \in 1 .. Len(f.hashes) \/ i = Len(f.hashes) + 1
      BY <1>3, <1>7
    <2>2. QED
      BY <1>1, <1>2, <1>6, <1>7, <2>1
  <1>9. e.pc \notin Storing /\ e.pc \notin Fetching
    BY <1>7 DEF Storing, Fetching
  <1>10. GoodFrame(g, s, e)
    BY <1>1, <1>5, <1>6, <1>7, <1>8, <1>9 DEF GoodFrame
  <1>11. QED
    BY <1>6, <1>10 DEF e

-----------------------------------------------------------------------------
\* Steps of the stack.

\* The running call.
LEMMA TopIs ==
    ASSUME Inv, outcome = "running"
    PROVE  /\ stack # <<>> /\ IsSeq(stack) /\ Len(stack) \in Nat \ {0} /\ Len(stack) \in 1 .. Len(stack)
           /\ Top = stack[Len(stack)] /\ GoodFrame(graph, src, Top) /\ Top.proj \in Projects
           /\ Len(graph[Top.proj]) \in Nat /\ Len(Top.hashes) \in Nat
  <1>1. stack # <<>> /\ IsSeq(stack)
    BY DEF Inv, StackInv
  <1>2. Len(stack) \in Nat \ {0} /\ Len(stack) \in 1 .. Len(stack)
    BY <1>1, SeqLast
  <1>3. GoodFrame(graph, src, Top)
    BY <1>2 DEF Inv, StackInv, Top
  <1>4. Top.proj \in Projects /\ GoodHashes(graph, src, Top.hashes, Top.proj)
    BY <1>3 DEF GoodFrame
  <1>5. Len(graph[Top.proj]) \in Nat
    BY <1>4, GraphIs DEF Inv
  <1>6. Len(Top.hashes) \in Nat
    BY <1>4, SeqAppend DEF GoodHashes
  <1>7. QED
    BY <1>1, <1>2, <1>3, <1>4, <1>5, <1>6 DEF Top

\* Clones that are in place stay in place.
KeepsClones ==
    /\ checkout' \in [GitProjects -> [dir : {"absent", "whole"}, part : {"absent", "partial", "whole"}]]
    /\ \A p \in GitProjects : checkout[p].dir = "whole" => checkout'[p].dir = "whole"

\* The running call moves on.
LEMMA TopReplaced ==
    ASSUME Inv, outcome = "running", UNCHANGED <<graph, src, outcome, building, product>>, KeepsClones,
           NEW f, GoodFrame(graph, src, f), f.proj = Top.proj, f.closure = Top.closure,
           stack' = [stack EXCEPT ![Len(stack)] = f]
    PROVE  StackInv' /\ BuildingInv' /\ CheckoutInv' /\ ProductInv' /\ Top' = f
  <1> DEFINE n == Len(stack)
  <1>1. /\ stack # <<>> /\ IsSeq(stack) /\ n \in Nat \ {0} /\ n \in 1 .. n /\ Top = stack[n]
    BY TopIs
  <1>2. /\ IsSeq(stack') /\ stack' # <<>> /\ Len(stack') = n
        /\ \A i \in 1 .. n : stack'[i] = IF i = n THEN f ELSE stack[i]
    <2>1. PICK t : /\ t = [stack EXCEPT ![Len(stack)] = f]
                   /\ IsSeq(t) /\ t # <<>> /\ Len(t) = Len(stack)
                   /\ \A i \in 1 .. Len(stack) : t[i] = IF i = Len(stack) THEN f ELSE stack[i]
      BY <1>1, SeqSetLast, Zenon
    <2>2. stack' = t
      BY <2>1
    <2>3. QED
      BY <2>1, <2>2
  <1> HIDE DEF n
  <1>3. \A i \in 1 .. n : stack'[i].proj = stack[i].proj /\ stack'[i].closure = stack[i].closure
    BY <1>1, <1>2
  <1>4. StackInv'
    <2>1. \A i \in 1 .. n : GoodFrame(graph, src, stack'[i])
      BY <1>2 DEF Inv, StackInv, n
    <2>2. ASSUME NEW i \in 1 .. (n - 1) PROVE Awaits(graph, stack'[i], stack'[i + 1].proj)
      <3>1. i \in 1 .. n /\ i # n /\ i + 1 \in 1 .. n
        BY <1>1
      <3>2. Awaits(graph, stack[i], stack[i + 1].proj)
        BY DEF Inv, StackInv, n
      <3>3. QED
        BY <1>2, <1>3, <3>1, <3>2
    <2>3. QED
      BY <1>1, <1>2, <2>1, <2>2 DEF StackInv, n
  <1>5. BuildingInv'
    <2>1. \A i \in 1 .. n : \A m \in 1 .. i : m \in 1 .. n
      BY <1>1
    <2>2. /\ \A i \in 1 .. n : stack[i].proj \in building
          /\ \A m, i \in 1 .. n : stack[m].proj = stack[i].proj => m = i
          /\ \A i \in 1 .. n : \A m \in 1 .. i : stack[m].proj \notin Origins(stack[i].closure)
      BY DEF Inv, BuildingInv, n
    <2>3. \A i \in 1 .. n : stack'[i].proj \in building'
      BY <1>3, <2>2
    <2>4. \A m, i \in 1 .. n : stack'[m].proj = stack'[i].proj => m = i
      BY <1>3, <2>2
    <2>5. \A i \in 1 .. n : \A m \in 1 .. i : stack'[m].proj \notin Origins(stack'[i].closure)
      BY <1>3, <2>1, <2>2
    <2>6. QED
      BY <1>2, <2>3, <2>4, <2>5 DEF BuildingInv
  <1>6. CheckoutInv'
    <2>1. \A i \in 1 .. n : stack[i].proj \in GitProjects => checkout[stack[i].proj].dir = "whole"
      BY DEF Inv, CheckoutInv, n
    <2>2. \A i \in 1 .. n : stack'[i].proj \in GitProjects => checkout'[stack'[i].proj].dir = "whole"
      BY <1>3, <2>1 DEF KeepsClones
    <2>3. QED
      BY <1>2, <2>2 DEF CheckoutInv, KeepsClones
  <1>7. ProductInv'
    BY DEF Inv, ProductInv
  <1>8. Top' = f
    BY <1>1, <1>2 DEF Top
  <1>9. QED
    BY <1>4, <1>5, <1>6, <1>7, <1>8

\* The build ends and hands nothing on.
LEMMA Finished ==
    ASSUME Inv, NEW how \in {"failed", "circular", "killed"}, Finish(how), KeepsClones,
           UNCHANGED <<graph, src>>, product' = product \/ product' = <<>>
    PROVE  StackInv' /\ BuildingInv' /\ TopInv' /\ CheckoutInv' /\ ProductInv'
  <1>1. outcome' = how /\ stack' = <<>> /\ outcome' # "running" /\ outcome' # "ok"
    BY DEF Finish
  <1>2. Len(<<>>) = 0 /\ 1 .. 0 = {} /\ 1 .. (0 - 1) = {} /\ <<>> \in Seq(Artifacts) /\ IsSeq(<<>>)
    BY DEF IsSeq
  <1>3. StackInv'
    BY <1>1, <1>2 DEF StackInv
  <1>4. BuildingInv'
    BY <1>1, <1>2 DEF BuildingInv
  <1>5. TopInv'
    BY <1>1 DEF TopInv
  <1>6. CheckoutInv'
    BY <1>1, <1>2 DEF CheckoutInv, KeepsClones
  <1>7. ProductInv'
    <2>1. Ordered(graph, <<>>)
      BY <1>2 DEF Ordered
    <2>2. QED
      BY <1>1, <1>2, <2>1 DEF Inv, ProductInv
  <1>8. QED
    BY <1>3, <1>4, <1>5, <1>6, <1>7

\* The running call returns what it has built or found.
LEMMA Returned ==
    ASSUME Inv, outcome = "running", Len(Top.hashes) = Len(graph[Top.proj]),
           NEW a \in Files, NEW bmod \in Files, a \in Copied(FreshIn(graph, src, Top.proj)),
           Len(stack) # 1 => bmod.from = FreshIn(graph, src, Top.proj),
           Return(TopKey, a, bmod), building \ {Top.proj} \subseteq building',
           UNCHANGED <<graph, src, checkout>>
    PROVE  StackInv' /\ BuildingInv' /\ TopInv' /\ CheckoutInv' /\ ProductInv'
  <1> DEFINE n == Len(stack)
             t == Top
             d == Artifact(t.proj, a, bmod)
  <1>1. /\ stack # <<>> /\ IsSeq(stack) /\ n \in Nat \ {0} /\ n \in 1 .. n /\ t = stack[n]
        /\ GoodFrame(graph, src, t) /\ t.proj \in Projects
    BY TopIs
  <1>2. graph \in Graphs /\ src \in [Projects -> Versions]
    BY DEF Inv
  <1>3. GoodClosure(graph, src, t.closure, t.proj) /\ GoodHashes(graph, src, t.hashes, t.proj)
    BY <1>1 DEF GoodFrame
  <1>4. DepsOf(graph, t.proj) \subseteq Origins(t.closure)
    BY <1>1, <1>2, FrameDeps
  <1>5. KeyOf(graph, src, TopKey) /\ TopKey[1] = t.proj
    BY <1>1, <1>2, <1>3, KeyMade DEF TopKey, ComputeKey
  <1>6. /\ d \in Artifacts /\ d.origin = t.proj /\ d.a = a /\ d.bmod = bmod
    BY <1>1 DEF Artifact, Artifacts
  <1> HIDE DEF t, d
  <1>7. CASE n = 1
    <2>1. outcome' = "ok" /\ stack' = <<>> /\ product' = Append(t.closure, d)
      BY <1>7 DEF Return, t, d
    <2>2. Len(<<>>) = 0 /\ 1 .. 0 = {} /\ 1 .. (0 - 1) = {} /\ IsSeq(<<>>)
      BY DEF IsSeq
    <2>3. StackInv'
      BY <2>1, <2>2 DEF StackInv
    <2>4. BuildingInv' /\ TopInv'
      BY <2>1, <2>2 DEF BuildingInv, TopInv
    <2>5. CheckoutInv'
      BY <2>1, <2>2 DEF CheckoutInv, Inv
    <2>6. ProductInv'
      <3>1. t.proj \notin Origins(t.closure)
        BY <1>1 DEF Inv, BuildingInv, n
      <3>2. t.closure \in Seq(Artifacts) /\ Ordered(graph, t.closure)
        BY <1>3 DEF GoodClosure
      <3>3. MergeDep(t.closure, d) = Append(t.closure, d)
        <4>1. DOMAIN t.closure = 1 .. Len(t.closure)
          BY <3>2
        <4>2. \A i \in DOMAIN t.closure : t.closure[i].origin # d.origin
          BY <1>6, <3>1, <4>1 DEF Origins
        <4>3. QED
          BY <4>2 DEF MergeDep
      <3>4. Append(t.closure, d) \in Seq(Artifacts) /\ Ordered(graph, Append(t.closure, d))
        BY <1>4, <1>6, <3>2, <3>3, MergeOne
      <3>5. /\ product' = Append(t.closure, d) /\ GoodClosure(graph, src, t.closure, d.origin)
            /\ DepsOf(graph, d.origin) \subseteq Origins(t.closure)
            /\ d.a \in Copied(FreshIn(graph, src, d.origin))
        BY <1>3, <1>4, <1>6, <2>1 DEF t
      <3>6. \E c \in Seq(Artifacts), e \in Artifacts :
               /\ product' = Append(c, e) /\ GoodClosure(graph, src, c, e.origin)
               /\ DepsOf(graph, e.origin) \subseteq Origins(c)
               /\ e.a \in Copied(FreshIn(graph, src, e.origin))
        BY <1>6, <3>2, <3>5
      <3>7. QED
        BY <2>1, <3>4, <3>6 DEF ProductInv
    <2>7. QED
      BY <2>3, <2>4, <2>5, <2>6
  <1>8. CASE n # 1
    <2> DEFINE m == n - 1
               q == stack[m]
               e == [proj |-> q.proj, pc |-> "deps", hashes |-> Append(q.hashes, TopKey),
                     closure |-> MergeClosure(q.closure, t.closure, d), obj |-> q.obj]
               front == SubSeq(stack, 1, n - 1)
    <2>1. m \in Nat \ {0} /\ m \in 1 .. n /\ m + 1 = n /\ m < n /\ m \in 1 .. m
      <3> HIDE DEF n
      <3>1. QED
        BY <1>1, <1>8
    <2>2. IsSeq(front) /\ Len(front) = m /\ \A i \in 1 .. m : front[i] = stack[i]
      BY <1>1, SeqFront
    <2>3. /\ stack' = [front EXCEPT ![m].pc = "deps", ![m].hashes = Append(@, TopKey),
                                    ![m].closure = MergeClosure(@, t.closure, d)]
          /\ outcome' = outcome /\ product' = product
      BY <1>8 DEF Return, t, d
    <2>4. GoodFrame(graph, src, q) /\ Awaits(graph, q, t.proj)
      <3>1. m \in 1 .. (n - 1)
        BY <2>1
      <3>2. QED
        BY <1>1, <2>1, <3>1 DEF Inv, StackInv, n
    <2> HIDE DEF n, front
    <2>5. front # <<>>
      BY <2>1, <2>2
    <2>6. stack' = [front EXCEPT ![m] = e]
      <3>1. DOMAIN front = 1 .. m
        BY <2>2, <2>5, SeqLast
      <3>2. front[m] = q
        BY <2>1, <2>2
      <3>3. q = [proj |-> q.proj, pc |-> q.pc, hashes |-> q.hashes, closure |-> q.closure, obj |-> q.obj]
        BY <2>4 DEF GoodFrame
      <3> HIDE DEF m, q
      <3>4. PICK u : u = [q EXCEPT !.pc = "deps"]
        OBVIOUS
      <3>5. u = [proj |-> q.proj, pc |-> "deps", hashes |-> q.hashes, closure |-> q.closure, obj |-> q.obj]
        BY <3>3, <3>4
      <3>6. PICK v : v = [u EXCEPT !.hashes = Append(@, TopKey)]
        OBVIOUS
      <3>7. v = [proj |-> q.proj, pc |-> "deps", hashes |-> Append(q.hashes, TopKey),
                 closure |-> q.closure, obj |-> q.obj]
        BY <3>5, <3>6
      <3>8. PICK w : w = [v EXCEPT !.closure = MergeClosure(@, t.closure, d)]
        OBVIOUS
      <3>9. w = e
        BY <3>7, <3>8
      <3>10. PICK g1 : g1 = [front EXCEPT ![m].pc = "deps"]
        OBVIOUS
      <3>11. DOMAIN g1 = 1 .. m /\ g1[m] = u /\ \A i \in 1 .. m : i # m => g1[i] = front[i]
        BY <2>1, <3>1, <3>2, <3>4, <3>10 DEF m
      <3>12. PICK g2 : g2 = [g1 EXCEPT ![m].hashes = Append(@, TopKey)]
        OBVIOUS
      <3>13. DOMAIN g2 = 1 .. m /\ g2[m] = v /\ \A i \in 1 .. m : i # m => g2[i] = front[i]
        BY <2>1, <3>6, <3>11, <3>12 DEF m
      <3>14. stack' = [g2 EXCEPT ![m].closure = MergeClosure(@, t.closure, d)]
        BY <2>3, <3>10, <3>12
      <3>15. stack' = [i \in 1 .. m |-> IF i = m THEN e ELSE front[i]]
        BY <2>1, <3>8, <3>9, <3>13, <3>14 DEF m
      <3>16. [front EXCEPT ![m] = e] = [i \in 1 .. m |-> IF i = m THEN e ELSE front[i]]
        BY <3>1
      <3>17. QED
        BY <3>15, <3>16
    <2>7. /\ IsSeq(stack') /\ stack' # <<>> /\ Len(stack') = m
          /\ \A i \in 1 .. m : stack'[i] = IF i = m THEN e ELSE stack[i]
      <3> HIDE DEF e, m
      <3>1. stack' = [front EXCEPT ![Len(front)] = e]
        BY <2>2, <2>6, Zenon
      <3>2. /\ IsSeq(stack') /\ stack' # <<>> /\ Len(stack') = Len(front)
            /\ \A i \in 1 .. Len(front) : stack'[i] = IF i = Len(front) THEN e ELSE front[i]
        <4>1. PICK u : /\ u = [front EXCEPT ![Len(front)] = e]
                       /\ IsSeq(u) /\ u # <<>> /\ Len(u) = Len(front)
                       /\ \A i \in 1 .. Len(front) : u[i] = IF i = Len(front) THEN e ELSE front[i]
          BY <2>2, <2>5, SeqSetLast, Zenon
        <4>2. stack' = u
          BY <3>1, <4>1
        <4>3. QED
          BY <4>1, <4>2
      <3>3. QED
        BY <2>2, <3>2
    <2>8. bmod.from = FreshIn(graph, src, t.proj)
      BY <1>8 DEF n, t
    <2>9. /\ GoodFrame(graph, src, e)
          /\ Origins(e.closure) = Origins(q.closure) \cup Origins(t.closure) \cup {t.proj}
      <3>1. d.a \in Copied(FreshIn(graph, src, t.proj)) /\ d.bmod.from = FreshIn(graph, src, t.proj)
        BY <1>6, <2>8 DEF t
      <3> HIDE DEF q
      <3>2. /\ GoodFrame(graph, src, [proj |-> q.proj, pc |-> "deps", hashes |-> Append(q.hashes, TopKey),
                                      closure |-> MergeClosure(q.closure, t.closure, d), obj |-> q.obj])
            /\ Origins(MergeClosure(q.closure, t.closure, d)) =
                 Origins(q.closure) \cup Origins(t.closure) \cup {t.proj}
        BY <1>2, <1>3, <1>4, <1>5, <1>6, <2>4, <3>1, FrameReturned, SMTT(60)
      <3>3. e.closure = MergeClosure(q.closure, t.closure, d)
        OBVIOUS
      <3>4. QED
        BY <3>2, <3>3
    <2>10. e.proj = q.proj /\ e.pc = "deps"
      OBVIOUS
    <2> HIDE DEF e, q, m
    <2>11. \A i \in 1 .. m : /\ i \in 1 .. n /\ i # n
                             /\ stack'[i].proj = stack[i].proj
                             /\ i # m => stack'[i].closure = stack[i].closure
      BY <1>1, <2>1, <2>7, <2>10 DEF q
    <2>12. StackInv'
      <3>1. \A i \in 1 .. m : GoodFrame(graph, src, stack'[i])
        BY <2>7, <2>9, <2>11 DEF Inv, StackInv, n
      <3>2. ASSUME NEW i \in 1 .. (m - 1) PROVE Awaits(graph, stack'[i], stack'[i + 1].proj)
        <4>1. i \in 1 .. m /\ i # m /\ i + 1 \in 1 .. m /\ i \in 1 .. (n - 1)
          BY <1>1, <2>1
        <4>2. Awaits(graph, stack[i], stack[i + 1].proj)
          BY <4>1 DEF Inv, StackInv, n
        <4>3. QED
          BY <2>7, <2>11, <4>1, <4>2
      <3>3. QED
        BY <2>3, <2>7, <3>1, <3>2 DEF StackInv
    <2>13. BuildingInv'
      <3>1. \A i \in 1 .. m : stack'[i].proj \in building'
        <4> SUFFICES ASSUME NEW i \in 1 .. m PROVE stack[i].proj \in building'
          BY <2>11
        <4>1. stack[i].proj \in building /\ stack[i].proj # stack[n].proj
          BY <1>1, <2>11 DEF Inv, BuildingInv, n
        <4>2. QED
          BY <1>1, <4>1 DEF t
      <3>2. \A i, j \in 1 .. m : stack'[i].proj = stack'[j].proj => i = j
        BY <2>11 DEF Inv, BuildingInv, n
      <3>3. ASSUME NEW i \in 1 .. m, NEW j \in 1 .. i PROVE stack'[j].proj \notin Origins(stack'[i].closure)
        <4>1. j \in 1 .. m /\ j \in 1 .. n /\ i \in 1 .. n /\ j # n
          BY <1>1, <2>1
        <4>2. stack'[j].proj = stack[j].proj /\ stack[j].proj \notin Origins(stack[i].closure)
          BY <2>11, <4>1 DEF Inv, BuildingInv, n
        <4>3. CASE i # m
          BY <2>11, <4>2, <4>3
        <4>4. CASE i = m
          <5>1. stack[j].proj \notin Origins(stack[n].closure) /\ stack[j].proj # stack[n].proj
            BY <1>1, <4>1 DEF Inv, BuildingInv, n
          <5>2. stack'[i].closure = e.closure
            BY <2>7, <4>4
          <5>3. stack[j].proj \notin Origins(q.closure)
            BY <4>2, <4>4 DEF q
          <5>4. QED
            BY <1>1, <2>9, <4>2, <5>1, <5>2, <5>3
        <4>5. QED
          BY <4>3, <4>4
      <3>4. QED
        BY <2>7, <3>1, <3>2, <3>3 DEF BuildingInv
    <2>14. TopInv'
      <3>1. Top' = e
        BY <2>1, <2>7 DEF Top
      <3>2. Top.pc' = "deps"
        BY <2>10, <3>1
      <3>3. QED
        BY <3>2 DEF TopInv
    <2>15. CheckoutInv'
      BY <2>7, <2>11 DEF Inv, CheckoutInv, n
    <2>16. ProductInv'
      BY <2>3 DEF Inv, ProductInv
    <2>17. QED
      BY <2>12, <2>13, <2>14, <2>15, <2>16
  <1>9. QED
    BY <1>7, <1>8

\* The part of the invariant that is about the calls in progress.
GoodStack(g, s, co, stk, bld) ==
  /\ IsSeq(stk)
  /\ \A n \in 1 .. Len(stk) : GoodFrame(g, s, stk[n])
  /\ \A n \in 1 .. (Len(stk) - 1) : Awaits(g, stk[n], stk[n + 1].proj)
  /\ \A n \in 1 .. Len(stk) : stk[n].proj \in bld
  /\ \A m, n \in 1 .. Len(stk) : stk[m].proj = stk[n].proj => m = n
  /\ \A n \in 1 .. Len(stk) : \A m \in 1 .. n : stk[m].proj \notin Origins(stk[n].closure)
  /\ \A n \in 1 .. Len(stk) : stk[n].proj \in GitProjects => co[stk[n].proj].dir = "whole"

\* One more call, for a project that is not being built.
LEMMA StackGrows ==
    ASSUME NEW g \in Graphs, NEW s, NEW co, NEW stk, NEW bld, GoodStack(g, s, co, stk, bld),
           NEW p \in Projects, p \notin bld, p \in GitProjects => co[p].dir = "whole",
           stk # <<>> => Awaits(g, stk[Len(stk)], p)
    PROVE  /\ GoodStack(g, s, co, Append(stk, NewFrame(p)), bld \cup {p})
           /\ Append(stk, NewFrame(p)) # <<>>
           /\ Append(stk, NewFrame(p))[Len(Append(stk, NewFrame(p)))].pc = "deps"
  <1> DEFINE f == NewFrame(p)
             u == Append(stk, f)
             n == Len(stk)
  <1>1. GoodFrame(g, s, f) /\ f.proj = p /\ f.pc = "deps" /\ Origins(f.closure) = {}
    BY FrameNew
  <1> HIDE DEF f
  <1>2. IsSeq(stk)
    BY DEF GoodStack
  <1>3. /\ IsSeq(u) /\ u # <<>> /\ n \in Nat /\ Len(u) = n + 1 /\ u[n + 1] = f
        /\ \A i \in 1 .. n : u[i] = stk[i]
    BY <1>2, SeqAppend
  <1>4. /\ \A i \in 1 .. n : GoodFrame(g, s, stk[i])
        /\ \A i \in 1 .. (n - 1) : Awaits(g, stk[i], stk[i + 1].proj)
        /\ \A i \in 1 .. n : stk[i].proj \in bld
        /\ \A m, i \in 1 .. n : stk[m].proj = stk[i].proj => m = i
        /\ \A i \in 1 .. n : \A m \in 1 .. i : stk[m].proj \notin Origins(stk[i].closure)
        /\ \A i \in 1 .. n : stk[i].proj \in GitProjects => co[stk[i].proj].dir = "whole"
    BY DEF GoodStack
  <1>5. n = 0 \/ Awaits(g, stk[n], p)
    <2>1. CASE stk = <<>>
      BY <2>1
    <2>2. QED
      BY <2>1
  <1> HIDE DEF n, u
  <1>6. \A i \in 1 .. Len(u) : i \in 1 .. n \/ i = n + 1
    BY <1>3
  <1>7. \A i \in 1 .. Len(u) : GoodFrame(g, s, u[i]) /\ u[i].proj \in bld \cup {p}
    BY <1>1, <1>3, <1>4, <1>6
  <1>8. ASSUME NEW i \in 1 .. (Len(u) - 1) PROVE Awaits(g, u[i], u[i + 1].proj)
    <2>1. i \in 1 .. n
      BY <1>3
    <2>2. CASE i = n
      <3>1. n # 0
        BY <1>3, <2>1, <2>2
      <3>2. QED
        BY <1>1, <1>3, <1>5, <2>1, <2>2, <3>1
    <2>3. CASE i # n
      <3>1. i \in 1 .. (n - 1) /\ i + 1 \in 1 .. n
        BY <1>3, <2>1, <2>3
      <3>2. QED
        BY <1>3, <1>4, <2>1, <3>1
    <2>4. QED
      BY <2>2, <2>3
  <1>9. ASSUME NEW m \in 1 .. Len(u), NEW i \in 1 .. Len(u), u[m].proj = u[i].proj PROVE m = i
    BY <1>1, <1>3, <1>4, <1>6, <1>9
  <1>10. ASSUME NEW i \in 1 .. Len(u), NEW m \in 1 .. i PROVE u[m].proj \notin Origins(u[i].closure)
    <2>1. CASE i \in 1 .. n
      <3>1. m \in 1 .. n
        BY <1>3, <2>1
      <3>2. QED
        BY <1>3, <1>4, <2>1, <3>1
    <2>2. CASE i = n + 1
      BY <1>1, <1>3, <2>2
    <2>3. QED
      BY <1>6, <2>1, <2>2
  <1>11. \A i \in 1 .. Len(u) : u[i].proj \in GitProjects => co[u[i].proj].dir = "whole"
    BY <1>1, <1>3, <1>4, <1>6
  <1>12. GoodStack(g, s, co, u, bld \cup {p})
    BY <1>3, <1>7, <1>8, <1>9, <1>10, <1>11 DEF GoodStack
  <1>13. u[Len(u)].pc = "deps"
    BY <1>1, <1>3
  <1>14. QED
    BY <1>3, <1>12, <1>13 DEF u, f

\* buildProject is called.
LEMMA Called ==
    ASSUME Inv, NEW p \in Projects, NEW stk, NEW bld, GoodStack(graph, src, checkout, stk, bld),
           stk # <<>> => Awaits(graph, stk[Len(stk)], p),
           p \in GitProjects => checkout[p].dir = "whole", Call(p, stk, bld),
           UNCHANGED <<graph, src, checkout>>, product' = product \/ product' = <<>>
    PROVE  StackInv' /\ BuildingInv' /\ TopInv' /\ CheckoutInv' /\ ProductInv'
  <1>1. KeepsClones
    BY DEF Inv, CheckoutInv, KeepsClones
  <1>2. CASE Finish("circular")
    BY <1>1, <1>2, Finished
  <1>3. CASE Finish("failed")
    BY <1>1, <1>3, Finished
  <1>4. CASE /\ p \notin bld /\ stack' = Append(stk, NewFrame(p))
             /\ building' = bld \cup {p} /\ outcome' = "running"
    <2>1. /\ GoodStack(graph, src, checkout, stack', building') /\ stack' # <<>>
          /\ stack'[Len(stack')].pc = "deps"
      <3>1. graph \in Graphs
        BY DEF Inv
      <3>2. /\ GoodStack(graph, src, checkout, Append(stk, NewFrame(p)), bld \cup {p})
            /\ Append(stk, NewFrame(p)) # <<>>
            /\ Append(stk, NewFrame(p))[Len(Append(stk, NewFrame(p)))].pc = "deps"
        BY <1>4, <3>1, StackGrows
      <3>3. QED
        BY <1>4, <3>2
    <2>2. GoodStack(graph', src', checkout', stack', building')
      BY <2>1
    <2>3. StackInv'
      BY <1>4, <2>1, <2>2 DEF StackInv, GoodStack
    <2>4. BuildingInv'
      BY <2>2 DEF BuildingInv, GoodStack
    <2>5. TopInv'
      BY <2>1 DEF TopInv, Top
    <2>6. CheckoutInv'
      BY <2>2 DEF Inv, CheckoutInv, GoodStack
    <2>7. ProductInv'
      <3>1. Ordered(graph, <<>>) /\ <<>> \in Seq(Artifacts)
        BY DEF Ordered
      <3>2. QED
        BY <1>4, <3>1 DEF Inv, ProductInv
    <2>8. QED
      BY <2>3, <2>4, <2>5, <2>6, <2>7
  <1>5. QED
    BY <1>2, <1>3, <1>4 DEF Call, Load

\* The cache is left alone.
LEMMA CacheStays ==
    ASSUME Inv, UNCHANGED <<graph, cache>>
    PROVE  CacheInv'
  BY DEF Inv, CacheInv

\* bcc build.
LEMMA StepRun ==
    ASSUME Inv, NEW p \in Roots, Run(p)
    PROVE  Inv'
  <1>1. /\ outcome # "running" /\ Call(p, <<>>, {}) /\ product' = <<>>
        /\ UNCHANGED <<graph, src, cache, checkout>>
    BY DEF Run, world, disk
  <1>2. p \in Projects /\ p \notin GitProjects
    BY BuildAssumption
  <1>3. GoodStack(graph, src, checkout, <<>>, {})
    <2>1. Len(<<>>) = 0 /\ 1 .. 0 = {} /\ 1 .. (0 - 1) = {} /\ IsSeq(<<>>)
      BY DEF IsSeq
    <2>2. QED
      BY <2>1 DEF GoodStack
  <1>4. StackInv' /\ BuildingInv' /\ TopInv' /\ CheckoutInv' /\ ProductInv'
    BY <1>1, <1>2, <1>3, Called
  <1>5. CacheInv'
    BY <1>1, CacheStays
  <1>6. QED
    BY <1>1, <1>4, <1>5 DEF Inv

\* What the dependency loop looks at.
LEMMA DepIs ==
    ASSUME Inv, outcome = "running", Len(Top.hashes) < Len(graph[Top.proj])
    PROVE  /\ NextDep(Top) = graph[Top.proj][Len(Top.hashes) + 1]
           /\ NextDep(Top) \in Libraries /\ NextDep(Top) \in Projects
  <1>1. Top.proj \in Projects /\ Len(graph[Top.proj]) \in Nat /\ Len(Top.hashes) \in Nat /\ graph \in Graphs
    BY TopIs DEF Inv
  <1>2. Len(Top.hashes) + 1 \in 1 .. Len(graph[Top.proj])
    BY <1>1
  <1>3. QED
    BY <1>1, <1>2, GraphIs DEF NextDep, Deps

\* A call that has not all its keys has one to ask for.
LEMMA NotDone ==
    ASSUME Inv, outcome = "running", ~DepsDone(Top)
    PROVE  Len(Top.hashes) < Len(graph[Top.proj])
  <1>1. /\ Top.proj \in Projects /\ Len(graph[Top.proj]) \in Nat /\ Len(Top.hashes) \in Nat
        /\ GoodFrame(graph, src, Top)
    BY TopIs
  <1>2. Len(Top.hashes) <= Len(graph[Top.proj])
    BY <1>1 DEF GoodFrame, GoodHashes
  <1>3. QED
    BY <1>1, <1>2 DEF DepsDone, Deps

\* The dependency loop recurses.
LEMMA StepEnterDep ==
    ASSUME Inv, EnterDep
    PROVE  Inv'
  <1>1. /\ outcome = "running" /\ Top.pc = "deps" /\ ~DepsDone(Top)
        /\ NextDep(Top) \in GitProjects => checkout[NextDep(Top)].dir # "absent"
        /\ Call(NextDep(Top), stack, building)
        /\ UNCHANGED <<graph, src, cache, checkout, product>>
    BY DEF EnterDep, At, world, disk
  <1>2. Len(Top.hashes) < Len(graph[Top.proj])
    BY <1>1, NotDone
  <1>3. /\ NextDep(Top) = graph[Top.proj][Len(Top.hashes) + 1] /\ NextDep(Top) \in Projects
    BY <1>1, <1>2, DepIs
  <1>4. NextDep(Top) \in GitProjects => checkout[NextDep(Top)].dir = "whole"
    BY <1>1 DEF Inv, CheckoutInv
  <1>5. GoodStack(graph, src, checkout, stack, building)
    BY DEF Inv, StackInv, BuildingInv, CheckoutInv, GoodStack
  <1>6. Awaits(graph, stack[Len(stack)], NextDep(Top))
    BY <1>1, <1>2, <1>3 DEF Awaits, Top
  <1>7. StackInv' /\ BuildingInv' /\ TopInv' /\ CheckoutInv' /\ ProductInv'
    BY <1>1, <1>3, <1>4, <1>5, <1>6, Called
  <1>8. CacheInv'
    BY <1>1, CacheStays
  <1>9. QED
    BY <1>1, <1>7, <1>8 DEF Inv

\* The running call goes on to another of its steps.
LEMMA Gone ==
    ASSUME Inv, outcome = "running", NEW pc \in {"deps"} \cup Fetching \cup Storing, Goto(pc),
           pc \in Storing => Top.pc \in Storing,
           pc \in Fetching => /\ Len(Top.hashes) < Len(graph[Top.proj])
                              /\ graph[Top.proj][Len(Top.hashes) + 1] \in GitProjects,
           UNCHANGED <<graph, src, outcome, building, product>>, KeepsClones
    PROVE  /\ StackInv' /\ BuildingInv' /\ CheckoutInv' /\ ProductInv'
           /\ Top.pc' = pc /\ Top.proj' = Top.proj /\ Top.hashes' = Top.hashes /\ Top.obj' = Top.obj
  <1> DEFINE f == [Top EXCEPT !.pc = pc]
  <1>1. GoodFrame(graph, src, Top)
    BY TopIs
  <1>2. /\ GoodFrame(graph, src, f)
        /\ f = [proj |-> Top.proj, pc |-> pc, hashes |-> Top.hashes, closure |-> Top.closure, obj |-> Top.obj]
    BY <1>1, FrameGoes
  <1>3. stack' = [stack EXCEPT ![Len(stack)] = f]
    BY DEF Goto, Top
  <1>4. f.proj = Top.proj /\ f.closure = Top.closure /\ f.pc = pc /\ f.hashes = Top.hashes /\ f.obj = Top.obj
    BY <1>2
  <1> HIDE DEF f
  <1>5. StackInv' /\ BuildingInv' /\ CheckoutInv' /\ ProductInv' /\ Top' = f
    BY <1>2, <1>3, <1>4, TopReplaced
  <1>6. QED
    BY <1>4, <1>5

\* What the loop looks at stays the same when the frame only moves on.
LEMMA SameDep ==
    ASSUME graph' = graph, Top.proj' = Top.proj, Top.hashes' = Top.hashes
    PROVE  NextDep(Top)' = NextDep(Top)
  BY DEF NextDep, Deps

\* A clone begins.
LEMMA StepFetch ==
    ASSUME Inv, Fetch
    PROVE  Inv'
  <1> DEFINE p == NextDep(Top)
  <1>1. /\ outcome = "running" /\ ~DepsDone(Top) /\ p \in GitProjects /\ checkout[p].dir = "absent"
        /\ checkout' = [checkout EXCEPT ![p].part = "partial"] /\ Goto("clone")
        /\ UNCHANGED <<graph, src, cache, building, outcome, product>>
    BY DEF Fetch, At, world
  <1>2. Len(Top.hashes) < Len(graph[Top.proj])
    BY <1>1, NotDone
  <1>3. p = graph[Top.proj][Len(Top.hashes) + 1]
    BY <1>1, <1>2, DepIs
  <1> HIDE DEF p
  <1>4. KeepsClones
    BY <1>1 DEF Inv, CheckoutInv, KeepsClones
  <1>5. "clone" \in {"deps"} \cup Fetching \cup Storing /\ "clone" \notin Storing
    BY DEF Fetching, Storing
  <1>6. StackInv' /\ BuildingInv' /\ CheckoutInv' /\ ProductInv' /\ Top.pc' = "clone"
    BY <1>1, <1>2, <1>3, <1>4, <1>5, Gone
  <1>7. TopInv'
    BY <1>6 DEF TopInv
  <1>8. CacheInv'
    BY <1>1, CacheStays
  <1>9. QED
    BY <1>1, <1>6, <1>7, <1>8 DEF Inv

\* The dependency a clone is for.
LEMMA FetchedDep ==
    ASSUME Inv, outcome = "running", Top.pc \in Fetching
    PROVE  /\ Len(Top.hashes) < Len(graph[Top.proj]) /\ NextDep(Top) \in GitProjects
           /\ NextDep(Top) = graph[Top.proj][Len(Top.hashes) + 1]
  <1>1. GoodFrame(graph, src, Top)
    BY TopIs
  <1>2. Len(Top.hashes) < Len(graph[Top.proj]) /\ graph[Top.proj][Len(Top.hashes) + 1] \in GitProjects
    BY <1>1 DEF GoodFrame
  <1>3. QED
    BY <1>2, DepIs

\* The clone is complete.
LEMMA StepCloned ==
    ASSUME Inv, Cloned
    PROVE  Inv'
  <1> DEFINE p == NextDep(Top)
  <1>1. /\ outcome = "running" /\ Top.pc = "clone"
        /\ checkout' = [checkout EXCEPT ![p].part = "whole"] /\ Goto("rename")
        /\ UNCHANGED <<graph, src, cache, building, outcome, product>>
    BY DEF Cloned, At, world
  <1>2. /\ Len(Top.hashes) < Len(graph[Top.proj]) /\ p \in GitProjects
        /\ p = graph[Top.proj][Len(Top.hashes) + 1]
    BY <1>1, FetchedDep DEF Fetching
  <1> HIDE DEF p
  <1>3. KeepsClones /\ checkout'[p].part = "whole"
    BY <1>1, <1>2 DEF Inv, CheckoutInv, KeepsClones
  <1>4. "rename" \in {"deps"} \cup Fetching \cup Storing /\ "rename" \notin Storing
    BY DEF Fetching, Storing
  <1>5. /\ StackInv' /\ BuildingInv' /\ CheckoutInv' /\ ProductInv' /\ Top.pc' = "rename"
        /\ Top.proj' = Top.proj /\ Top.hashes' = Top.hashes
    BY <1>1, <1>2, <1>3, <1>4, Gone
  <1>6. TopInv'
    <2>1. NextDep(Top)' = p
      BY <1>1, <1>5, SameDep DEF p
    <2>2. QED
      BY <1>3, <1>5, <2>1 DEF TopInv
  <1>7. CacheInv'
    BY <1>1, CacheStays
  <1>8. QED
    BY <1>1, <1>5, <1>6, <1>7 DEF Inv

\* The clone or its rename fails.
LEMMA StepCloneFails ==
    ASSUME Inv, CloneFails
    PROVE  Inv'
  <1> DEFINE p == NextDep(Top)
  <1>1. /\ outcome = "running" /\ Top.pc \in Fetching
        /\ checkout' = [checkout EXCEPT ![p].part = "absent"] /\ Finish("failed")
        /\ UNCHANGED <<graph, src, cache, product>>
    BY DEF CloneFails, At, world, Fetching
  <1>2. p \in GitProjects
    BY <1>1, FetchedDep
  <1> HIDE DEF p
  <1>3. KeepsClones
    BY <1>1, <1>2 DEF Inv, CheckoutInv, KeepsClones
  <1>4. StackInv' /\ BuildingInv' /\ TopInv' /\ CheckoutInv' /\ ProductInv'
    BY <1>1, <1>3, Finished
  <1>5. CacheInv'
    BY <1>1, CacheStays
  <1>6. QED
    BY <1>1, <1>4, <1>5 DEF Inv

\* The clone is put in place.
LEMMA StepInstall ==
    ASSUME Inv, Install
    PROVE  Inv'
  <1> DEFINE p == NextDep(Top)
  <1>1. /\ outcome = "running" /\ Top.pc = "rename"
        /\ checkout' = [checkout EXCEPT ![p] = [dir |-> checkout[p].part, part |-> "absent"]] /\ Goto("deps")
        /\ UNCHANGED <<graph, src, cache, building, outcome, product>>
    BY DEF Install, At, world
  <1>2. p \in GitProjects
    BY <1>1, FetchedDep DEF Fetching
  <1>3. checkout[p].part = "whole"
    BY <1>1 DEF Inv, TopInv
  <1> HIDE DEF p
  <1>4. KeepsClones
    BY <1>1, <1>2, <1>3 DEF Inv, CheckoutInv, KeepsClones
  <1>5. "deps" \in {"deps"} \cup Fetching \cup Storing /\ "deps" \notin Storing /\ "deps" \notin Fetching
    BY DEF Fetching, Storing
  <1>6. StackInv' /\ BuildingInv' /\ CheckoutInv' /\ ProductInv' /\ Top.pc' = "deps"
    BY <1>1, <1>4, <1>5, Gone
  <1>7. TopInv'
    BY <1>6 DEF TopInv
  <1>8. CacheInv'
    BY <1>1, CacheStays
  <1>9. QED
    BY <1>1, <1>6, <1>7, <1>8 DEF Inv

\* An archive compiled from the sources as they are is a file of the model.
LEMMA FreshFile ==
    ASSUME NEW g \in Graphs, NEW s \in [Projects -> Versions], NEW p \in Projects
    PROVE  /\ Whole(FreshIn(g, s, p)) \in Files /\ Torn(Whole(FreshIn(g, s, p))) \in Files
           /\ Torn(Whole(FreshIn(g, s, p))).state = "torn" /\ Torn(Whole(FreshIn(g, s, p))).from = FreshIn(g, s, p)
           /\ Whole(FreshIn(g, s, p)).state = "whole" /\ Whole(FreshIn(g, s, p)).from = FreshIn(g, s, p)
           /\ Whole(FreshIn(g, s, p)) \in Copied(FreshIn(g, s, p)) /\ Copied(FreshIn(g, s, p)) \subseteq Files
           /\ Absent \in Files
  <1> DEFINE v == FreshIn(g, s, p)
  <1>1. v \subseteq Projects \X Versions
    BY ReachDeps DEF FreshIn
  <1> HIDE DEF v
  <1>2. Whole(v) \in Files /\ Whole(v).state = "whole" /\ Whole(v).from = v
    BY <1>1 DEF Whole, Files
  <1>3. Torn(Whole(v)) = [state |-> "torn", from |-> v]
    BY DEF Whole, Torn
  <1>4. Torn(Whole(v)) \in Files /\ Torn(Whole(v)).state = "torn" /\ Torn(Whole(v)).from = v
    BY <1>1, <1>3 DEF Files
  <1>5. Absent \in Files
    BY DEF Absent, Files
  <1>6. Short(v) \in Files
    BY <1>1 DEF Short, Files
  <1>7. Whole(v) \in Copied(v) /\ Copied(v) \subseteq Files
    BY <1>2, <1>6 DEF Copied
  <1>8. QED
    BY <1>2, <1>4, <1>5, <1>7 DEF v

\* The key of a frame that has all its keys.
LEMMA TopKeyIs ==
    ASSUME Inv, outcome = "running", Len(Top.hashes) = Len(graph[Top.proj])
    PROVE  KeyOf(graph, src, TopKey) /\ TopKey[1] = Top.proj
  <1>1. GoodFrame(graph, src, Top) /\ Top.proj \in Projects /\ graph \in Graphs
    BY TopIs DEF Inv
  <1>2. GoodHashes(graph, src, Top.hashes, Top.proj)
    BY <1>1 DEF GoodFrame
  <1>3. QED
    BY <1>1, <1>2, KeyMade DEF TopKey, ComputeKey

\* A library is found in the cache.
LEMMA StepCacheHit ==
    ASSUME Inv, CacheHit
    PROVE  Inv'
  <1> DEFINE e == Entry(TopKey)
  <1>1. /\ outcome = "running" /\ DepsDone(Top) /\ Hit(TopKey) /\ Return(TopKey, e.a, e.bmod)
        /\ UNCHANGED <<graph, src, cache, checkout, building>>
    BY DEF CacheHit, At, world, disk, TopKey
  <1>2. Len(Top.hashes) = Len(graph[Top.proj])
    BY <1>1 DEF DepsDone, Deps
  <1>3. KeyOf(graph, src, TopKey) /\ TopKey[1] = Top.proj
    BY <1>1, <1>2, TopKeyIs
  <1>4. TopKey \in DOMAIN cache /\ e = cache[TopKey] /\ e.bmod.state # "absent"
    BY <1>1 DEF Hit, Entry, Absent
  <1> HIDE DEF e
  <1>5. GoodEntry(graph, TopKey, e)
    BY <1>4 DEF Inv, CacheInv
  <1>6. PICK s \in [Projects -> Versions] :
           /\ KeyOf(graph, s, TopKey)
           /\ e.a \in Copied(FreshIn(graph, s, TopKey[1])) /\ e.bmod.from = FreshIn(graph, s, TopKey[1])
    BY <1>4, <1>5 DEF GoodEntry
  <1>7. FreshIn(graph, s, TopKey[1]) = FreshIn(graph, src, TopKey[1])
    BY <1>3, <1>6, KeyDetermines DEF Inv
  <1>8. /\ e.a \in Copied(FreshIn(graph, src, Top.proj)) /\ e.bmod.from = FreshIn(graph, src, Top.proj)
    BY <1>3, <1>6, <1>7
  <1>9. e.a \in Files /\ e.bmod \in Files
    BY <1>5 DEF GoodEntry
  <1>10. StackInv' /\ BuildingInv' /\ TopInv' /\ CheckoutInv' /\ ProductInv'
    BY <1>1, <1>2, <1>8, <1>9, Returned
  <1>11. CacheInv'
    BY <1>1, CacheStays
  <1>12. QED
    BY <1>1, <1>10, <1>11 DEF Inv

\* What a frame compiles is current.
LEMMA Compiled ==
    ASSUME Inv, outcome = "running", Len(Top.hashes) = Len(graph[Top.proj])
    PROVE  CompiledFrom(Top) = FreshIn(graph, src, Top.proj)
  <1>1. GoodFrame(graph, src, Top) /\ Top.proj \in Projects /\ graph \in Graphs
    BY TopIs DEF Inv
  <1>2. GoodClosure(graph, src, Top.closure, Top.proj)
    BY <1>1 DEF GoodFrame
  <1>3. DepsOf(graph, Top.proj) \subseteq Origins(Top.closure)
    BY <1>1, FrameDeps
  <1>4. QED
    BY <1>1, <1>2, <1>3, CompiledFresh DEF CompiledFrom

\* A library is compiled.
LEMMA StepCompileLibrary ==
    ASSUME Inv, CompileLibrary
    PROVE  Inv'
  <1> DEFINE f == [Top EXCEPT !.pc = "store", !.obj = CompiledFrom(Top)]
  <1>1. /\ outcome = "running" /\ DepsDone(Top) /\ Top.proj \in Libraries /\ ~Hit(TopKey)
        /\ stack' = [stack EXCEPT ![Len(stack)] = f]
        /\ UNCHANGED <<graph, src, cache, checkout, building, outcome, product>>
    BY DEF CompileLibrary, SetTop, At, world, disk, TopKey
  <1>2. Len(Top.hashes) = Len(graph[Top.proj])
    BY <1>1 DEF DepsDone, Deps
  <1>3. CompiledFrom(Top) = FreshIn(graph, src, Top.proj)
    BY <1>1, <1>2, Compiled
  <1>4. GoodFrame(graph, src, Top)
    BY <1>1, TopIs
  <1>5. "store" \in {"deps"} \cup Fetching \cup Storing /\ "store" \notin Fetching
    BY DEF Fetching, Storing
  <1>6. /\ GoodFrame(graph, src, f)
        /\ f = [proj |-> Top.proj, pc |-> "store", hashes |-> Top.hashes, closure |-> Top.closure,
                obj |-> CompiledFrom(Top)]
    <2>1. PICK t, o : t = Top /\ o = CompiledFrom(Top)
      OBVIOUS
    <2>2. /\ GoodFrame(graph, src, t) /\ t.proj \in Libraries /\ Len(t.hashes) = Len(graph[t.proj])
          /\ o = FreshIn(graph, src, t.proj)
      BY <1>1, <1>2, <1>3, <1>4, <2>1
    <2> DEFINE e == [proj |-> t.proj, pc |-> "store", hashes |-> t.hashes, closure |-> t.closure, obj |-> o]
    <2>3. GoodFrame(graph, src, e)
      BY <1>5, <2>2, FrameMoves
    <2>4. t = [proj |-> t.proj, pc |-> t.pc, hashes |-> t.hashes, closure |-> t.closure, obj |-> t.obj]
      BY <2>2 DEF GoodFrame
    <2>5. PICK h : h = [t EXCEPT !.pc = "store"]
      OBVIOUS
    <2>6. h = [proj |-> t.proj, pc |-> "store", hashes |-> t.hashes, closure |-> t.closure, obj |-> t.obj]
      BY <2>4, <2>5
    <2>7. [h EXCEPT !.obj = o] = e
      BY <2>6
    <2>8. f = [h EXCEPT !.obj = o]
      BY <2>1, <2>5
    <2> HIDE DEF f
    <2>9. f = e
      BY <2>7, <2>8
    <2>10. QED
      BY <2>1, <2>3, <2>9
  <1>7. f.proj = Top.proj /\ f.closure = Top.closure /\ f.pc = "store" /\ f.hashes = Top.hashes
    BY <1>6
  <1> HIDE DEF f
  <1>8. KeepsClones
    BY <1>1 DEF Inv, CheckoutInv, KeepsClones
  <1>9. StackInv' /\ BuildingInv' /\ CheckoutInv' /\ ProductInv' /\ Top' = f
    BY <1>1, <1>6, <1>7, <1>8, TopReplaced
  <1>10. CacheInv'
    BY <1>1, CacheStays
  <1>11. TopInv'
    <2>1. Entry(TopKey).bmod.state = "absent"
      <3>1. CASE TopKey \in DOMAIN cache
        <4>1. GoodEntry(graph, TopKey, cache[TopKey])
          BY <3>1 DEF Inv, CacheInv
        <4>2. cache[TopKey].bmod.state # "absent" => cache[TopKey].a.state # "absent"
          <5>1. SUFFICES ASSUME cache[TopKey].bmod.state # "absent" PROVE cache[TopKey].a.state # "absent"
            OBVIOUS
          <5>2. PICK s \in [Projects -> Versions] : cache[TopKey].a \in Copied(FreshIn(graph, s, TopKey[1]))
            BY <4>1, <5>1 DEF GoodEntry
          <5>3. QED
            BY <5>2 DEF Copied, Whole, Short
        <4>3. QED
          BY <1>1, <3>1, <4>2 DEF Hit, Entry
      <3>2. CASE TopKey \notin DOMAIN cache
        BY <3>2 DEF Entry, Absent
      <3>3. QED
        BY <3>1, <3>2
    <2>2. TopKey' = TopKey
      BY <1>1, <1>7, <1>9 DEF TopKey, ComputeKey
    <2>3. Entry(TopKey)' = Entry(TopKey)
      BY <1>1, <2>2 DEF Entry
    <2>4. QED
      BY <1>7, <1>9, <2>1, <2>3 DEF TopInv
  <1>12. QED
    BY <1>1, <1>9, <1>10, <1>11 DEF Inv

\* A binary is linked.  Nothing depends on one, so it is the root.
LEMMA StepLinkBinary ==
    ASSUME Inv, LinkBinary
    PROVE  Inv'
  <1>1. /\ outcome = "running" /\ DepsDone(Top) /\ Top.proj \notin Libraries
        /\ Return(TopKey, Whole(CompiledFrom(Top)), Absent) /\ building' = building \ {Top.proj}
        /\ UNCHANGED <<graph, src, cache, checkout>>
    BY DEF LinkBinary, At, world, disk, TopKey
  <1>2. Len(Top.hashes) = Len(graph[Top.proj])
    BY <1>1 DEF DepsDone, Deps
  <1>3. CompiledFrom(Top) = FreshIn(graph, src, Top.proj)
    BY <1>1, <1>2, Compiled
  <1>4. /\ Whole(CompiledFrom(Top)) \in Files /\ Absent \in Files
        /\ Whole(CompiledFrom(Top)) \in Copied(FreshIn(graph, src, Top.proj))
    BY <1>1, <1>3, TopIs, FreshFile DEF Inv
  <1>5. Len(stack) = 1
    <2>1. SUFFICES ASSUME Len(stack) # 1 PROVE FALSE
      OBVIOUS
    <2> DEFINE m == Len(stack) - 1
    <2>2. Len(stack) \in Nat \ {0} /\ Top = stack[Len(stack)]
      BY <1>1, TopIs
    <2>3. m \in 1 .. m /\ m \in 1 .. Len(stack) /\ m + 1 = Len(stack)
      <3>1. PICK n \in Nat \ {0} : n = Len(stack) /\ n # 1
        BY <2>1, <2>2
      <3>2. n - 1 \in 1 .. (n - 1) /\ n - 1 \in 1 .. n /\ (n - 1) + 1 = n
        BY <3>1
      <3>3. QED
        BY <3>1, <3>2
    <2>4. Awaits(graph, stack[m], Top.proj) /\ GoodFrame(graph, src, stack[m])
      BY <2>2, <2>3 DEF Inv, StackInv
    <2> HIDE DEF m
    <2>5. /\ stack[m].proj \in Projects /\ IsSeq(stack[m].hashes)
          /\ Len(stack[m].hashes) < Len(graph[stack[m].proj])
          /\ Top.proj = graph[stack[m].proj][Len(stack[m].hashes) + 1]
      BY <2>4 DEF Awaits, GoodFrame, GoodHashes
    <2>6. Len(stack[m].hashes) \in Nat
      BY <2>5, SeqAppend
    <2>7. Top.proj \in Libraries
      BY <2>5, <2>6, GraphIs DEF Inv
    <2>8. QED
      BY <1>1, <2>7
  <1>6. StackInv' /\ BuildingInv' /\ TopInv' /\ CheckoutInv' /\ ProductInv'
    BY <1>1, <1>2, <1>3, <1>4, <1>5, Returned
  <1>7. CacheInv'
    BY <1>1, CacheStays
  <1>8. QED
    BY <1>1, <1>6, <1>7 DEF Inv

\* The build of the project itself fails.
LEMMA StepBuildFails ==
    ASSUME Inv, BuildFails
    PROVE  Inv'
  <1>1. Finish("failed") /\ UNCHANGED <<graph, src, cache, checkout, product>>
    BY DEF BuildFails, world, disk
  <1>2. KeepsClones
    BY <1>1 DEF Inv, CheckoutInv, KeepsClones
  <1>3. StackInv' /\ BuildingInv' /\ TopInv' /\ CheckoutInv' /\ ProductInv'
    BY <1>1, <1>2, Finished
  <1>4. CacheInv'
    BY <1>1, CacheStays
  <1>5. QED
    BY <1>1, <1>3, <1>4 DEF Inv

\* A file of an entry is written.
LEMMA Written ==
    ASSUME Inv, NEW k, NEW e, GoodEntry(graph, k, e), WriteEntry(k, e), graph' = graph
    PROVE  CacheInv' /\ Entry(k)' = e
  <1>1. cache' = [j \in DOMAIN cache \cup {k} |-> IF j = k THEN e ELSE cache[j]]
    BY DEF WriteEntry
  <1>2. \A j \in DOMAIN cache' : GoodEntry(graph, j, cache'[j])
    BY <1>1 DEF Inv, CacheInv
  <1>3. k \in DOMAIN cache' /\ cache'[k] = e
    BY <1>1
  <1>4. Entry(k)' = e
    BY <1>3 DEF Entry
  <1>5. QED
    BY <1>2, <1>4 DEF CacheInv

\* A frame that stores has all its keys, and its object is current.
LEMMA StoringIs ==
    ASSUME Inv, outcome = "running", Top.pc \in Storing
    PROVE  /\ Len(Top.hashes) = Len(graph[Top.proj]) /\ Top.obj = FreshIn(graph, src, Top.proj)
           /\ KeyOf(graph, src, TopKey) /\ TopKey[1] = Top.proj
           /\ Whole(Top.obj) \in Files /\ Torn(Whole(Top.obj)) \in Files
           /\ Whole(Top.obj) \in Copied(Top.obj) /\ Copied(Top.obj) \subseteq Files
           /\ Torn(Whole(Top.obj)).state = "torn" /\ Torn(Whole(Top.obj)).from = Top.obj
           /\ Whole(Top.obj).from = Top.obj
  <1>1. GoodFrame(graph, src, Top) /\ Top.proj \in Projects
    BY TopIs
  <1>2. Len(Top.hashes) = Len(graph[Top.proj]) /\ Top.obj = FreshIn(graph, src, Top.proj)
    BY <1>1 DEF GoodFrame
  <1>3. KeyOf(graph, src, TopKey) /\ TopKey[1] = Top.proj
    BY <1>2, TopKeyIs
  <1>4. graph \in Graphs /\ src \in [Projects -> Versions]
    BY DEF Inv
  <1>5. QED
    BY <1>1, <1>2, <1>3, <1>4, FreshFile

\* The key of the frame stays the same when it only moves on.
LEMMA SameKey ==
    ASSUME src' = src, Top.proj' = Top.proj, Top.hashes' = Top.hashes
    PROVE  TopKey' = TopKey
  BY DEF TopKey, ComputeKey

\* The archive of the entry is opened.
LEMMA StepStoreBegins ==
    ASSUME Inv, StoreBegins
    PROVE  Inv'
  <1> DEFINE e == [Entry(TopKey) EXCEPT !.a = Torn(Whole(Top.obj))]
  <1>1. /\ outcome = "running" /\ Top.pc = "store" /\ WriteEntry(TopKey, e) /\ Goto("storeA")
        /\ UNCHANGED <<graph, src, checkout, building, outcome, product>>
    BY DEF StoreBegins, At, world
  <1>2. Torn(Whole(Top.obj)) \in Files /\ Absent \in Files
    <2>1. Torn(Whole(Top.obj)) \in Files
      BY <1>1, StoringIs DEF Storing
    <2>2. QED
      BY <2>1 DEF Absent, Files
  <1>3. Entry(TopKey).bmod.state = "absent"
    BY <1>1 DEF Inv, TopInv
  <1>4. Entry(TopKey) \in [a : Files, bmod : Files]
    BY <1>2 DEF Inv, CacheInv, GoodEntry, Entry
  <1>5. e \in [a : Files, bmod : Files] /\ e.bmod.state = "absent"
    BY <1>2, <1>3, <1>4
  <1> HIDE DEF e
  <1>6. GoodEntry(graph, TopKey, e)
    BY <1>5 DEF GoodEntry
  <1>7. CacheInv'
    BY <1>1, <1>6, Written
  <1>8. \A k : k = TopKey => Entry(k)' = e
    BY <1>1, <1>6, Written
  <1>9. KeepsClones
    BY <1>1 DEF Inv, CheckoutInv, KeepsClones
  <1>10. /\ "storeA" \in {"deps"} \cup Fetching \cup Storing /\ "storeA" \notin Fetching
         /\ "store" \in Storing
    BY DEF Fetching, Storing
  <1>11. /\ StackInv' /\ BuildingInv' /\ CheckoutInv' /\ ProductInv' /\ Top.pc' = "storeA"
         /\ Top.proj' = Top.proj /\ Top.hashes' = Top.hashes
    BY <1>1, <1>9, <1>10, Gone
  <1>12. TopInv'
    <2>1. TopKey' = TopKey
      BY <1>1, <1>11, SameKey
    <2>2. Entry(TopKey)' = e
      BY <1>8, <2>1 DEF Entry
    <2>3. QED
      BY <1>5, <1>11, <2>2 DEF TopInv
  <1>13. QED
    BY <1>1, <1>7, <1>11, <1>12 DEF Inv

\* An entry both of whose files exist, from the object of the frame.
LEMMA EntryStored ==
    ASSUME Inv, outcome = "running", Top.pc \in Storing, NEW a \in Copied(Top.obj),
           NEW bmod \in Files, bmod.from = Top.obj
    PROVE  GoodEntry(graph, TopKey, [a |-> a, bmod |-> bmod])
  <1> DEFINE e == [a |-> a, bmod |-> bmod]
  <1>1. /\ Top.obj = FreshIn(graph, src, TopKey[1]) /\ KeyOf(graph, src, TopKey)
        /\ Copied(Top.obj) \subseteq Files
    BY StoringIs
  <1>2. e \in [a : Files, bmod : Files] /\ e.a \in Copied(Top.obj) /\ e.bmod = bmod
    BY <1>1
  <1>3. src \in [Projects -> Versions]
    BY DEF Inv
  <1> HIDE DEF e
  <1>4. GoodEntry(graph, TopKey, e)
    BY <1>1, <1>2, <1>3 DEF GoodEntry
  <1>5. QED
    BY <1>4 DEF e

\* The archive is copied, whole or short, and the interface is opened.
LEMMA ArchiveCopied ==
    ASSUME Inv, outcome = "running", Top.pc = "storeA", NEW a \in Copied(Top.obj),
           WriteEntry(TopKey, [a |-> a, bmod |-> Torn(Whole(Top.obj))]), Goto("storeB"),
           UNCHANGED <<graph, src, checkout, building, outcome, product>>
    PROVE  Inv'
  <1> DEFINE e == [a |-> a, bmod |-> Torn(Whole(Top.obj))]
  <1>1. Top.pc \in Storing
    BY DEF Storing
  <1>2. Torn(Whole(Top.obj)) \in Files /\ Torn(Whole(Top.obj)).from = Top.obj
    BY <1>1, StoringIs
  <1>3. GoodEntry(graph, TopKey, e) /\ e.a = a
    BY <1>1, <1>2, EntryStored
  <1> HIDE DEF e
  <1>4. CacheInv' /\ \A k : k = TopKey => Entry(k)' = e
    BY <1>3, Written DEF e
  <1>5. KeepsClones
    BY DEF Inv, CheckoutInv, KeepsClones
  <1>6. "storeB" \in {"deps"} \cup Fetching \cup Storing /\ "storeB" \notin Fetching
    BY DEF Fetching, Storing
  <1>7. /\ StackInv' /\ BuildingInv' /\ CheckoutInv' /\ ProductInv' /\ Top.pc' = "storeB"
        /\ Top.proj' = Top.proj /\ Top.hashes' = Top.hashes /\ Top.obj' = Top.obj
    BY <1>1, <1>5, <1>6, Gone
  <1>8. TopInv'
    <2>1. TopKey' = TopKey
      BY <1>7, SameKey
    <2>2. Entry(TopKey)' = e
      BY <1>4, <2>1 DEF Entry
    <2>3. QED
      BY <1>3, <1>7, <2>2 DEF TopInv
  <1>9. QED
    BY <1>4, <1>7, <1>8 DEF Inv

\* The archive is complete ...
LEMMA StepStoreArchive ==
    ASSUME Inv, StoreArchive
    PROVE  Inv'
  <1>1. /\ outcome = "running" /\ Top.pc = "storeA"
        /\ WriteEntry(TopKey, [a |-> Whole(Top.obj), bmod |-> Torn(Whole(Top.obj))]) /\ Goto("storeB")
        /\ UNCHANGED <<graph, src, checkout, building, outcome, product>>
    BY DEF StoreArchive, At, world
  <1>2. QED
    BY <1>1, ArchiveCopied DEF Copied

\* ... or a full disk has cut it short.
LEMMA StepStoreArchiveShort ==
    ASSUME Inv, StoreArchiveShort
    PROVE  Inv'
  <1>1. /\ outcome = "running" /\ Top.pc = "storeA"
        /\ WriteEntry(TopKey, [a |-> Short(Top.obj), bmod |-> Torn(Whole(Top.obj))]) /\ Goto("storeB")
        /\ UNCHANGED <<graph, src, checkout, building, outcome, product>>
    BY DEF StoreArchiveShort, At, world
  <1>2. QED
    BY <1>1, ArchiveCopied DEF Copied

\* A frame that stores returns what it has built.
LEMMA BuiltReturned ==
    ASSUME Inv, outcome = "running", Top.pc \in Storing, ReturnBuilt, UNCHANGED <<graph, src, checkout>>
    PROVE  StackInv' /\ BuildingInv' /\ TopInv' /\ CheckoutInv' /\ ProductInv'
  <1>1. /\ Len(Top.hashes) = Len(graph[Top.proj]) /\ Top.obj = FreshIn(graph, src, Top.proj)
        /\ Whole(Top.obj) \in Files /\ Whole(Top.obj).from = Top.obj
        /\ Whole(Top.obj) \in Copied(Top.obj)
    BY StoringIs
  <1>2. Return(TopKey, Whole(Top.obj), Whole(Top.obj)) /\ building' = building \ {Top.proj}
    BY DEF ReturnBuilt
  <1>3. QED
    BY <1>1, <1>2, Returned

\* The interface is complete.
LEMMA StepStoreInterface ==
    ASSUME Inv, StoreInterface
    PROVE  Inv'
  <1> DEFINE a == Entry(TopKey).a
             bmod == Whole(Top.obj)
  <1>1. /\ outcome = "running" /\ Top.pc = "storeB" /\ ReturnBuilt
        /\ WriteEntry(TopKey, [Entry(TopKey) EXCEPT !.bmod = bmod])
        /\ UNCHANGED <<graph, src, checkout>>
    BY DEF StoreInterface, At, world
  <1>2. Top.pc \in Storing
    BY <1>1 DEF Storing
  <1>3. bmod \in Files /\ bmod.from = Top.obj
    BY <1>1, <1>2, StoringIs
  <1>4. a \in Copied(Top.obj)
    BY <1>1 DEF Inv, TopInv
  <1>5. [Entry(TopKey) EXCEPT !.bmod = bmod] = [a |-> a, bmod |-> bmod]
    <2>1. Entry(TopKey) \in [a : Files, bmod : Files]
      <3>1. Absent \in Files
        BY DEF Absent, Files
      <3>2. QED
        BY <3>1 DEF Inv, CacheInv, GoodEntry, Entry
    <2> HIDE DEF bmod
    <2>2. QED
      BY <2>1
  <1> HIDE DEF a, bmod
  <1>6. GoodEntry(graph, TopKey, [a |-> a, bmod |-> bmod])
    BY <1>1, <1>2, <1>3, <1>4, EntryStored
  <1>7. CacheInv'
    BY <1>1, <1>5, <1>6, Written
  <1>8. StackInv' /\ BuildingInv' /\ TopInv' /\ CheckoutInv' /\ ProductInv'
    BY <1>1, <1>2, BuiltReturned
  <1>9. QED
    BY <1>1, <1>7, <1>8 DEF Inv

\* The entry cannot be written.
LEMMA StepStoreFails ==
    ASSUME Inv, StoreFails
    PROVE  Inv'
  <1>1. /\ outcome = "running" /\ Top.pc \in Storing /\ ReturnBuilt
        /\ UNCHANGED <<graph, src, cache, checkout>>
    BY DEF StoreFails, Storing, world, disk
  <1>2. StackInv' /\ BuildingInv' /\ TopInv' /\ CheckoutInv' /\ ProductInv'
    BY <1>1, BuiltReturned
  <1>3. CacheInv'
    BY <1>1, CacheStays
  <1>4. QED
    BY <1>1, <1>2, <1>3 DEF Inv

\* The build is killed.
LEMMA StepKill ==
    ASSUME Inv, Kill
    PROVE  Inv'
  <1>1. Finish("killed") /\ UNCHANGED <<graph, src, cache, checkout, product>>
    BY DEF Kill, disk
  <1>2. KeepsClones
    BY <1>1 DEF Inv, CheckoutInv, KeepsClones
  <1>3. StackInv' /\ BuildingInv' /\ TopInv' /\ CheckoutInv' /\ ProductInv'
    BY <1>1, <1>2, Finished
  <1>4. CacheInv'
    BY <1>1, CacheStays
  <1>5. QED
    BY <1>1, <1>3, <1>4 DEF Inv

\* No build runs: there are no calls.
LEMMA NoCalls ==
    ASSUME StackInv, outcome # "running", NEW g \in Graphs, NEW s, NEW co
    PROVE  stack = <<>> /\ GoodStack(g, s, co, <<>>, building)
  <1>1. Len(<<>>) = 0 /\ 1 .. 0 = {} /\ 1 .. (0 - 1) = {} /\ IsSeq(<<>>)
    BY DEF IsSeq
  <1>2. QED
    BY <1>1 DEF StackInv, GoodStack

\* A source is edited.
LEMMA StepEdit ==
    ASSUME Inv, NEW p \in Editable, Edit(p)
    PROVE  Inv'
  <1>1. /\ outcome # "running" /\ outcome' = "none" /\ product' = <<>>
        /\ UNCHANGED <<graph, cache, checkout, stack, building>>
        /\ \E v \in Versions : src' = [src EXCEPT ![p] = v]
    BY DEF Edit, disk
  <1>2. src' \in [Projects -> Versions] /\ graph \in Graphs
    BY <1>1 DEF Inv
  <1>3. stack = <<>> /\ GoodStack(graph, src', checkout, <<>>, building)
    BY <1>1, <1>2, NoCalls DEF Inv
  <1>4. GoodStack(graph', src', checkout', stack', building') /\ stack' = <<>>
    BY <1>1, <1>3
  <1>5. StackInv'
    BY <1>1, <1>4 DEF StackInv, GoodStack
  <1>6. BuildingInv'
    BY <1>4 DEF BuildingInv, GoodStack
  <1>7. TopInv'
    BY <1>1 DEF TopInv
  <1>8. CheckoutInv'
    BY <1>1, <1>4 DEF Inv, CheckoutInv, GoodStack
  <1>9. CacheInv'
    BY <1>1, CacheStays
  <1>10. ProductInv'
    <2>1. Ordered(graph, <<>>) /\ <<>> \in Seq(Artifacts)
      BY DEF Ordered
    <2>2. QED
      BY <1>1, <2>1 DEF ProductInv
  <1>11. QED
    BY <1>1, <1>2, <1>5, <1>6, <1>7, <1>8, <1>9, <1>10 DEF Inv

\* bcc clean.
LEMMA StepClean ==
    ASSUME Inv, Clean
    PROVE  Inv'
  <1>1. /\ outcome # "running" /\ cache' = <<>>
        /\ checkout' = [p \in GitProjects |-> [dir |-> "absent", part |-> "absent"]]
        /\ UNCHANGED <<graph, src, stack, building, outcome, product>>
    BY DEF Clean, world
  <1>2. stack = <<>> /\ GoodStack(graph, src, checkout', <<>>, building)
    BY <1>1, NoCalls DEF Inv
  <1>3. GoodStack(graph', src', checkout', stack', building') /\ stack' = <<>>
    BY <1>1, <1>2
  <1>4. StackInv'
    BY <1>1, <1>3 DEF StackInv, GoodStack, Inv
  <1>5. BuildingInv'
    BY <1>3 DEF BuildingInv, GoodStack
  <1>6. TopInv'
    BY <1>1 DEF TopInv
  <1>7. CheckoutInv'
    BY <1>1, <1>3 DEF CheckoutInv, GoodStack
  <1>8. CacheInv'
    BY <1>1 DEF CacheInv
  <1>9. ProductInv'
    BY <1>1 DEF Inv, ProductInv
  <1>10. QED
    BY <1>1, <1>4, <1>5, <1>6, <1>7, <1>8, <1>9 DEF Inv

\* The invariant holds at the start.
LEMMA InvInit == Init => Inv
  <1> SUFFICES ASSUME Init PROVE Inv
    OBVIOUS
  <1>1. /\ graph \in Graphs /\ src = [p \in Projects |-> 0] /\ cache = <<>>
        /\ checkout = [p \in GitProjects |-> [dir |-> "absent", part |-> "absent"]]
        /\ stack = <<>> /\ outcome = "none" /\ product = <<>>
    BY DEF Init
  <1>2. Len(<<>>) = 0 /\ 1 .. 0 = {} /\ 1 .. (0 - 1) = {} /\ IsSeq(<<>>) /\ <<>> \in Seq(Artifacts)
    BY DEF IsSeq
  <1>3. src \in [Projects -> Versions]
    BY <1>1, BuildAssumption
  <1>4. StackInv
    BY <1>1, <1>2 DEF StackInv
  <1>5. BuildingInv /\ TopInv
    BY <1>1, <1>2 DEF BuildingInv, TopInv
  <1>6. CheckoutInv
    BY <1>1, <1>2 DEF CheckoutInv
  <1>7. CacheInv
    BY <1>1 DEF CacheInv
  <1>8. ProductInv
    <2>1. Ordered(graph, <<>>)
      BY <1>2 DEF Ordered
    <2>2. QED
      BY <1>1, <1>2, <2>1 DEF ProductInv
  <1>9. QED
    BY <1>1, <1>3, <1>4, <1>5, <1>6, <1>7, <1>8 DEF Inv

\* Nothing changes.
LEMMA StepStutters ==
    ASSUME Inv, UNCHANGED vars
    PROVE  Inv'
  <1>1. UNCHANGED <<graph, src, cache, checkout, stack, building, outcome, product>>
    BY DEF vars
  <1>2. StackInv' /\ BuildingInv' /\ CheckoutInv' /\ CacheInv' /\ ProductInv'
    BY <1>1 DEF Inv, StackInv, BuildingInv, CheckoutInv, CacheInv, ProductInv
  <1>3. TopInv'
    BY <1>1 DEF Inv, TopInv, Top, TopKey, ComputeKey, Entry, NextDep, Deps
  <1>4. QED
    BY <1>1, <1>2, <1>3 DEF Inv

\* Every step keeps the invariant.
LEMMA InvNext == Inv /\ [Next]_vars => Inv'
  <1> SUFFICES ASSUME Inv, [Next]_vars PROVE Inv'
    OBVIOUS
  <1>1. CASE Step
    BY <1>1, StepEnterDep, StepFetch, StepCloned, StepCloneFails, StepInstall, StepCacheHit,
       StepCompileLibrary, StepLinkBinary, StepBuildFails, StepStoreBegins, StepStoreArchive,
       StepStoreArchiveShort, StepStoreInterface, StepStoreFails DEF Step
  <1>2. CASE \E p \in Roots : Run(p)
    BY <1>2, StepRun
  <1>3. CASE \E p \in Editable : Edit(p)
    BY <1>3, StepEdit
  <1>4. QED
    BY <1>1, <1>2, <1>3, StepKill, StepClean, StepStutters DEF Next

-----------------------------------------------------------------------------
\* The operators of Build are those of the first part at the graph and the
\* sources of the state.

\* The order of closures.
LEMMA OrderedIs ==
    ASSUME NEW c \in Seq(Artifacts), Ordered(graph, c)
    PROVE  InOrder(c)
  <1>1. DOMAIN c = 1 .. Len(c)
    OBVIOUS
  <1>2. \A p : Range(Deps(p)) = DepsOf(graph, p)
    BY DEF Range, Deps, DepsOf
  <1>3. \A i, j \in DOMAIN c : c[i].origin = c[j].origin => i = j
    BY <1>1 DEF Ordered
  <1>4. ASSUME NEW j \in DOMAIN c, NEW d \in Range(Deps(c[j].origin))
        PROVE  \E i \in 1 .. (j - 1) : c[i].origin = d
    <2>1. d \in DepsOf(graph, c[j].origin)
      BY <1>2
    <2>2. QED
      BY <1>1, <2>1 DEF Ordered
  <1>5. QED
    BY <1>3, <1>4, Zenon DEF InOrder

\* What a project depends on, and the versions that is compiled from.
LEMMA FreshIs ==
    ASSUME NEW p
    PROVE  Reach(p) = ReachIn(graph, p) /\ Fresh(p) = FreshIn(graph, src, p)
  <1>1. Reach(p) = ReachIn(graph, p)
    BY DEF Reach, ReachIn
  <1>2. QED
    BY <1>1 DEF Fresh, FreshIn

\* The invariant of every reachable state.
LEMMA Invariance == Spec => []Inv
  BY InvInit, InvNext, PTL DEF Spec

\* A git dependency is built only from a finished clone (bcc.cpp 1097-1145:
\* clone into dir.part, rename when complete), whenever the fetch is killed or
\* fails.
THEOREM Fetched == Spec => []FetchedWhole
  <1>1. Inv => FetchedWhole
    <2> SUFFICES ASSUME Inv PROVE FetchedWhole
      OBVIOUS
    <2>1. PICK S : stack \in Seq(S)
      BY DEF Inv, StackInv, IsSeq
    <2>2. DOMAIN stack = 1 .. Len(stack)
      BY <2>1
    <2>3. QED
      BY <2>2 DEF Inv, CheckoutInv, FetchedWhole
  <1>2. QED
    BY <1>1, Invariance, PTL

\* Every closure a build assembles (mergeDep, bcc.cpp 1283-1307) names each
\* project once and after all it depends on, for every dependency graph.
THEOREM Closures == Spec => []ClosureInOrder
  <1>1. Inv => ClosureInOrder
    <2> SUFFICES ASSUME Inv PROVE ClosureInOrder
      OBVIOUS
    <2>1. PICK S : stack \in Seq(S)
      BY DEF Inv, StackInv, IsSeq
    <2>2. DOMAIN stack = 1 .. Len(stack)
      BY <2>1
    <2>3. ASSUME NEW n \in DOMAIN stack PROVE InOrder(stack[n].closure)
      <3>1. GoodFrame(graph, src, stack[n])
        BY <2>2 DEF Inv, StackInv
      <3>2. stack[n].closure \in Seq(Artifacts) /\ Ordered(graph, stack[n].closure)
        BY <3>1 DEF GoodFrame, GoodClosure
      <3>3. QED
        BY <3>2, OrderedIs
    <2>4. InOrder(product)
      BY OrderedIs DEF Inv, ProductInv
    <2>5. QED
      BY <2>3, <2>4 DEF ClosureInOrder
  <1>2. QED
    BY <1>1, Invariance, PTL

\* An entry lookup would serve (BuildCache.cpp 165-206) holds an archive that was
\* copied to its end or cut short unnoticed by a full disk (copyFile), never one
\* a killed or failed store left half done, and both its files come from the
\* sources and the dependencies named by its key.
THEOREM Served == Spec => []ServedWhole
  <1>1. Inv => ServedWhole
    <2> SUFFICES ASSUME Inv, NEW k \in DOMAIN cache, Hit(k)
                 PROVE  /\ cache[k].a.state \in {"whole", "short"} /\ cache[k].a.from = cache[k].bmod.from
                        /\ <<k[1], k[2]>> \in cache[k].a.from
                        /\ \A i \in DOMAIN k[3] : <<k[3][i][1], k[3][i][2]>> \in cache[k].a.from
      BY DEF ServedWhole
    <2> DEFINE e == cache[k]
    <2>1. GoodEntry(graph, k, e) /\ e.bmod.state # "absent" /\ graph \in Graphs
      BY DEF Inv, CacheInv, Hit, Entry
    <2> HIDE DEF e
    <2>2. PICK s \in [Projects -> Versions] :
             /\ KeyOf(graph, s, k)
             /\ e.a \in Copied(FreshIn(graph, s, k[1])) /\ e.bmod.from = FreshIn(graph, s, k[1])
      BY <2>1 DEF GoodEntry
    <2>3. e.a.state \in {"whole", "short"} /\ e.a.from = FreshIn(graph, s, k[1])
      BY <2>2 DEF Copied, Whole, Short
    <2>4. PICK K : k \in K /\ Agree(graph, s, K)
      BY <2>2 DEF KeyOf
    <2>5. k[1] \in Projects /\ k[2] = s[k[1]] /\ DOMAIN k[3] = DOMAIN graph[k[1]]
      BY <2>4 DEF Agree
    <2>6. \A i \in DOMAIN k[3] : k[3][i] \in K /\ k[3][i][1] = graph[k[1]][i]
      BY <2>4 DEF Agree
    <2>7. <<k[1], k[2]>> \in FreshIn(graph, s, k[1])
      BY <2>5 DEF FreshIn
    <2>8. ASSUME NEW i \in DOMAIN k[3] PROVE <<k[3][i][1], k[3][i][2]>> \in FreshIn(graph, s, k[1])
      <3>1. k[3][i][2] = s[k[3][i][1]]
        BY <2>4, <2>6 DEF Agree
      <3>2. k[3][i][1] \in DepsOf(graph, k[1])
        BY <2>5, <2>6 DEF DepsOf
      <3>3. k[3][i][1] \in ReachIn(graph, k[1])
        BY <2>1, <2>5, <3>2, ReachDeps
      <3>4. QED
        BY <3>1, <3>3 DEF FreshIn
    <2>9. QED
      BY <2>2, <2>3, <2>7, <2>8 DEF e
  <1>2. QED
    BY <1>1, Invariance, PTL

\* A build that succeeds hands on archives of the project and of all it depends
\* on, compiled from the sources as they are: no sequence of edits, kills, failed
\* stores and cleans makes the cache (bcc.cpp 1338-1350) answer with something
\* old, nor with something incomplete but for an archive that a full disk cut
\* short without store noticing.
THEOREM Links == Spec => []LinksCurrent
  <1>1. Inv => LinksCurrent
    <2> SUFFICES ASSUME Inv, outcome = "ok"
                 PROVE  LET root == product[Len(product)].origin
                        IN  /\ {product[i].origin : i \in DOMAIN product} = {root} \cup Reach(root)
                            /\ \A i \in DOMAIN product :
                                 product[i].a \in Copied(Fresh(product[i].origin))
      BY DEF LinksCurrent
    <2>1. PICK c \in Seq(Artifacts), d \in Artifacts :
             /\ product = Append(c, d) /\ GoodClosure(graph, src, c, d.origin)
             /\ DepsOf(graph, d.origin) \subseteq Origins(c)
             /\ d.a \in Copied(FreshIn(graph, src, d.origin))
      BY DEF Inv, ProductInv
    <2> DEFINE n == Len(c)
    <2>2. /\ n \in Nat /\ Len(product) = n + 1 /\ DOMAIN product = 1 .. (n + 1) /\ product[n + 1] = d
          /\ \A i \in 1 .. n : product[i] = c[i]
      BY <2>1
    <2>3. d.origin \in Projects
      BY DEF Artifacts
    <2>4. Origins(c) = ReachIn(graph, d.origin)
      BY <2>1, <2>3, ClosureWhole DEF Inv
    <2>5. \A j \in 1 .. n : c[j].a \in Copied(FreshIn(graph, src, c[j].origin))
      BY <2>1 DEF GoodClosure
    <2>6. Origins(c) = {c[i].origin : i \in 1 .. n}
      BY DEF Origins
    <2> HIDE DEF n
    <2>7. \A i \in DOMAIN product : i \in 1 .. n \/ i = n + 1
      BY <2>2
    <2>8. {product[i].origin : i \in DOMAIN product} = {d.origin} \cup Origins(c)
      <3>1. ASSUME NEW i \in DOMAIN product PROVE product[i].origin \in {d.origin} \cup Origins(c)
        BY <2>2, <2>6, <2>7
      <3>2. ASSUME NEW i \in 1 .. n PROVE i \in DOMAIN product /\ product[i].origin = c[i].origin
        BY <2>2
      <3>3. n + 1 \in DOMAIN product /\ product[n + 1].origin = d.origin
        BY <2>2
      <3>4. QED
        BY <2>6, <3>1, <3>2, <3>3
    <2>9. \A i \in DOMAIN product : product[i].a \in Copied(Fresh(product[i].origin))
      <3> SUFFICES ASSUME NEW i \in DOMAIN product
                   PROVE  product[i].a \in Copied(FreshIn(graph, src, product[i].origin))
        BY FreshIs
      <3>1. CASE i \in 1 .. n
        BY <2>2, <2>5, <3>1
      <3>2. CASE i = n + 1
        BY <2>1, <2>2, <3>2
      <3>3. QED
        BY <2>7, <3>1, <3>2
    <2>10. product[Len(product)].origin = d.origin /\ Reach(d.origin) = ReachIn(graph, d.origin)
      BY <2>2, FreshIs
    <2>11. QED
      BY <2>4, <2>8, <2>9, <2>10
  <1>2. QED
    BY <1>1, Invariance, PTL
=============================================================================
