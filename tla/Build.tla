------------------------------- MODULE Build -------------------------------
(***************************************************************************)
(* `bcc build`: the depth-first build of a project and its dependencies    *)
(* (buildProject, bcc.cpp), the content-addressed cache it stores library  *)
(* artefacts in (BuildCache.cpp) and the pinned git checkouts it fetches   *)
(* (resolveGitDependency).                                                 *)
(*                                                                         *)
(* One process builds at a time and nobody edits a source while it runs.   *)
(* Between two builds sources are edited and the caches cleaned; at every  *)
(* step the process may be killed, and every external command may fail.    *)
(* The cache and the checkouts are on disk and survive; the stack of       *)
(* buildProject frames and the set `building` do not.                      *)
(*                                                                         *)
(* A file is abstracted to the source versions it was compiled from, and   *)
(* to whether it was written to the end: it is torn while it is written    *)
(* and wherever the writing stopped, and short where a full disk cut it    *)
(* off and the copy was taken for a good one.  SHA-256 is taken to be      *)
(* injective on what computeKey feeds it, and blang.toml, whose text names *)
(* the project, to be fixed.                                               *)
(***************************************************************************)
EXTENDS Integers, Sequences, FiniteSets, SequencesExt

CONSTANTS
  Projects,     \* canonical project directories (realpath)
  Libraries,    \* those with type = "lib"
  GitProjects,  \* those reached through a git url and a pin
  Editable,     \* those whose sources are edited between builds
  Roots,        \* the directories `bcc build` is run in
  Graphs,       \* dependency lists: functions from Projects to sequences
  Versions,     \* contents a project's sources can have
  MaxEdits,     \* bound on edits
  MaxKills,     \* bound on killed builds
  MaxDepth      \* bound on the depth of the recursion

ASSUME BuildAssumption ==
  /\ Libraries \subseteq Projects /\ GitProjects \subseteq Projects
  /\ Roots \subseteq Projects \ GitProjects /\ Editable \subseteq Projects \ GitProjects
  /\ 0 \in Versions /\ MaxEdits \in Nat /\ MaxKills \in Nat
  /\ MaxDepth > Cardinality(Projects)
  \* only a library's artefacts can be linked into a dependent
  /\ \A g \in Graphs, p \in Projects : g[p] \in Seq(Libraries)

VARIABLES
  graph,     \* the [dependencies] of every blang.toml
  src,       \* src[p]: the content of p's sources
  cache,     \* ~/.cache/blang/objects: key -> the two files of the entry
  checkout,  \* checkout[p]: the directories `dir` and `dir.part` of a git dep
  stack,     \* the active buildProject calls, innermost last
  building,  \* the set the circular-dependency check consults
  outcome,   \* how the last `bcc build` ended, or "running"
  product,   \* what the last successful build handed to its caller
  edits, kills

vars == <<graph, src, cache, checkout, stack, building, outcome, product,
          edits, kills>>

disk == <<cache, checkout>>
world == <<graph, src, edits, kills>>

-----------------------------------------------------------------------------
(* Files, cache entries, call frames. *)

Absent == [state |-> "absent", from |-> {}]
Torn(f) == [f EXCEPT !.state = "torn"]
Whole(from) == [state |-> "whole", from |-> from]
Short(from) == [state |-> "short", from |-> from]

\* What copyFile has made of an archive when store goes on.
Copied(from) == {Whole(from), Short(from)}

Deps(p) == graph[p]

\* A DepArtifact: the two files and the canonical origin of a dependency.
Artifact(p, a, bmod) == [origin |-> p, a |-> a, bmod |-> bmod]

\* A call of buildProject about to look at the dependency after the ones whose
\* hashes it has collected.
NewFrame(p) ==
  [proj |-> p, pc |-> "deps", hashes |-> <<>>, closure |-> <<>>, obj |-> {}]

Top == stack[Len(stack)]
At(pc) == outcome = "running" /\ Top.pc = pc
DepsDone(f) == Len(f.hashes) = Len(Deps(f.proj))
NextDep(f) == Deps(f.proj)[Len(f.hashes) + 1]
Goto(pc) == stack' = [stack EXCEPT ![Len(stack)].pc = pc]

SetTop(f) == stack' = [stack EXCEPT ![Len(stack)] = f]

\* Mutation: a caller ignores the failure of a dependency.
FinishOneFrame(how) ==
  /\ outcome' = how
  /\ stack' = SubSeq(stack, 1, Len(stack) - 1)
  /\ building' = {}

\* Every caller passes a failure on, so the build ends with it and its
\* in-memory state is gone.
Finish(how) ==
  /\ outcome' = how
  /\ stack' = <<>>
  /\ building' = {}

-----------------------------------------------------------------------------
(* BuildCache *)

\* Mutation: the keys of the dependencies are not hashed.
KeyOfSourcesOnly(p, hashes) == <<p, src[p], <<>>>>

\* BuildCache::computeKey over the sources, blang.toml and the keys of the
\* direct dependencies.
ComputeKey(p, hashes) == <<p, src[p], hashes>>

Entry(key) ==
  IF key \in DOMAIN cache THEN cache[key] ELSE [a |-> Absent, bmod |-> Absent]

WriteEntry(key, e) ==
  cache' = [k \in DOMAIN cache \union {key} |-> IF k = key THEN e ELSE cache[k]]

\* BuildCache::lookup asks only that both names exist in the directory.
Hit(key) ==
  /\ Entry(key).a.state # "absent"
  /\ Entry(key).bmod.state # "absent"

-----------------------------------------------------------------------------
(* Calling buildProject and returning from it. *)

\* blang.toml is read and a frame begins its dependency loop, or there is none
\* and the call fails.
Load(p, stk, bld) ==
  /\ Len(stk) < MaxDepth
  /\ \/ /\ stack' = Append(stk, NewFrame(p))
        /\ building' = bld \union {p}
        /\ outcome' = "running"
     \/ Finish("failed")

\* Mutation: no circular-dependency check.
CallUnchecked(p, stk, bld) == Load(p, stk, bld)

\* The head of buildProject: refuse a directory that is being built.
Call(p, stk, bld) ==
  IF p \in bld THEN Finish("circular") ELSE Load(p, stk, bld)

\* mergeDep: one entry for each origin, the first one kept.
MergeDep(into, d) ==
  IF \E i \in DOMAIN into : into[i].origin = d.origin THEN into ELSE Append(into, d)

\* Mutation: a dependency goes in before its own closure.
MergeDirectFirst(into, depClosure, d) ==
  FoldLeft(MergeDep, MergeDep(into, d), depClosure)

\* The dependency's own closure goes in before the dependency itself.
MergeClosure(into, depClosure, d) ==
  MergeDep(FoldLeft(MergeDep, into, depClosure), d)

\* `return 0`: the caller takes the artefacts, the key and the closure, and
\* goes on to its next dependency.
Return(key, a, bmod) ==
  LET f == Top
      d == Artifact(f.proj, a, bmod)
      n == Len(stack)
  IN  IF n = 1
        THEN /\ outcome' = "ok"
             /\ stack' = <<>>
             /\ product' = Append(f.closure, d)
        ELSE /\ stack' = [SubSeq(stack, 1, n - 1) EXCEPT
                  ![n - 1].pc = "deps",
                  ![n - 1].hashes = Append(@, key),
                  ![n - 1].closure = MergeClosure(@, f.closure, d)]
             /\ UNCHANGED <<outcome, product>>

-----------------------------------------------------------------------------
(* The steps of a build *)

\* bcc build, in directory p.
Run(p) ==
  /\ outcome # "running"
  /\ Call(p, <<>>, {})
  /\ product' = <<>>
  /\ UNCHANGED <<world, disk>>

\* The dependency loop meets a path dependency, or a git dependency whose
\* checkout has a blang.toml, and recurses.
EnterDep ==
  /\ At("deps")
  /\ ~DepsDone(Top)
  /\ NextDep(Top) \in GitProjects => checkout[NextDep(Top)].dir # "absent"
  /\ Call(NextDep(Top), stack, building)
  /\ UNCHANGED <<world, disk, product>>

\* Mutation: the clone goes straight into its final directory.
FetchInPlace ==
  LET p == NextDep(Top) IN
  /\ At("deps")
  /\ ~DepsDone(Top)
  /\ p \in GitProjects
  /\ checkout[p].dir = "absent"
  /\ checkout' = [checkout EXCEPT ![p] = [dir |-> "partial", part |-> "absent"]]
  /\ Goto("clone")
  /\ UNCHANGED <<world, cache, building, outcome, product>>

\* resolveGitDependency misses: what an earlier fetch left in dir.part is
\* removed and a clone into dir.part begins.
Fetch ==
  LET p == NextDep(Top) IN
  /\ At("deps")
  /\ ~DepsDone(Top)
  /\ p \in GitProjects
  /\ checkout[p].dir = "absent"
  /\ checkout' = [checkout EXCEPT ![p].part = "partial"]
  /\ Goto("clone")
  /\ UNCHANGED <<world, cache, building, outcome, product>>

\* git clone (and git checkout of an exact rev) succeed ...
Cloned ==
  /\ At("clone")
  /\ checkout' = [checkout EXCEPT ![NextDep(Top)].part = "whole"]
  /\ Goto("rename")
  /\ UNCHANGED <<world, cache, building, outcome, product>>

\* ... or fail, or the rename does; dir.part is removed and the build fails.
CloneFails ==
  /\ At("clone") \/ At("rename")
  /\ checkout' = [checkout EXCEPT ![NextDep(Top)].part = "absent"]
  /\ Finish("failed")
  /\ UNCHANGED <<world, cache, product>>

\* rename(2) puts the finished clone in place.
Install ==
  LET p == NextDep(Top) IN
  /\ At("rename")
  /\ checkout' = [checkout EXCEPT ![p] = [dir |-> checkout[p].part, part |-> "absent"]]
  /\ Goto("deps")
  /\ UNCHANGED <<world, cache, building, outcome, product>>

\* All dependencies are built: a library whose key is in the cache returns the
\* cached files.  This return leaves the directory in `building`.
CacheHit ==
  LET key == ComputeKey(Top.proj, Top.hashes) IN
  /\ At("deps")
  /\ DepsDone(Top)
  /\ Top.proj \in Libraries
  /\ Hit(key)
  /\ Return(key, Entry(key).a, Entry(key).bmod)
  /\ UNCHANGED <<world, disk, building>>

\* The versions a compilation of the frame's project reads: its own sources and
\* the interfaces of its whole closure.
CompiledFrom(f) ==
  {<<f.proj, src[f.proj]>>} \union
  UNION {f.closure[i].bmod.from : i \in DOMAIN f.closure}

\* A library that is not in the cache: qcc, llc and ar succeed.  An interface
\* that was cut short is a prefix of its declarations: when the compilation
\* succeeds all the same, what is missing was not needed.
CompileLibrary ==
  LET f == Top IN
  /\ At("deps")
  /\ DepsDone(f)
  /\ f.proj \in Libraries
  /\ ~Hit(ComputeKey(f.proj, f.hashes))
  /\ SetTop([f EXCEPT !.pc = "store", !.obj = CompiledFrom(f)])
  /\ UNCHANGED <<world, disk, building, outcome, product>>

\* A binary is compiled and linked every time; it is not cached.
LinkBinary ==
  LET f == Top IN
  /\ At("deps")
  /\ DepsDone(f)
  /\ f.proj \notin Libraries
  /\ Return(ComputeKey(f.proj, f.hashes), Whole(CompiledFrom(f)), Absent)
  /\ building' = building \ {f.proj}
  /\ UNCHANGED <<world, disk>>

\* There are no sources, or qcc, llc, ar or the linker fails.
BuildFails ==
  /\ At("deps")
  /\ DepsDone(Top)
  /\ Top.proj \in Libraries => ~Hit(ComputeKey(Top.proj, Top.hashes))
  /\ Finish("failed")
  /\ UNCHANGED <<world, disk, product>>

TopKey == ComputeKey(Top.proj, Top.hashes)

\* Mutation: the interface is copied first, then the archive.
StoreInterfaceFirst ==
  /\ At("store")
  /\ WriteEntry(TopKey, [a |-> Torn(Whole(Top.obj)), bmod |-> Whole(Top.obj)])
  /\ Goto("storeA")
  /\ UNCHANGED <<world, checkout, building, outcome, product>>

\* BuildCache::store creates the entry and opens the archive, which truncates
\* what an earlier store left.
StoreBegins ==
  /\ At("store")
  /\ WriteEntry(TopKey, [Entry(TopKey) EXCEPT !.a = Torn(Whole(Top.obj))])
  /\ Goto("storeA")
  /\ UNCHANGED <<world, checkout, building, outcome, product>>

\* The archive is written to the end, then the interface is opened ...
StoreArchive ==
  /\ At("storeA")
  /\ WriteEntry(TopKey, [a |-> Whole(Top.obj), bmod |-> Torn(Whole(Top.obj))])
  /\ Goto("storeB")
  /\ UNCHANGED <<world, checkout, building, outcome, product>>

\* ... or the disk fills up, and nobody notices: copyFile fails only where
\* nothing was inserted and looks at the stream before its last flush.
StoreArchiveShort ==
  /\ At("storeA")
  /\ WriteEntry(TopKey, [a |-> Short(Top.obj), bmod |-> Torn(Whole(Top.obj))])
  /\ Goto("storeB")
  /\ UNCHANGED <<world, checkout, building, outcome, product>>

\* The frame returns the files it has just built in its project directory.
ReturnBuilt ==
  /\ Return(TopKey, Whole(Top.obj), Whole(Top.obj))
  /\ building' = building \ {Top.proj}

\* ... and written to the end.
StoreInterface ==
  /\ At("storeB")
  /\ WriteEntry(TopKey, [Entry(TopKey) EXCEPT !.bmod = Whole(Top.obj)])
  /\ ReturnBuilt
  /\ UNCHANGED <<world, checkout>>

\* mkdir, an open or a copy fails, or the interface is cut short, which is the
\* same here: buildProject ignores what store returns and the build goes on
\* with the files it has.
StoreFails ==
  /\ outcome = "running"
  /\ Top.pc \in {"store", "storeA", "storeB"}
  /\ ReturnBuilt
  /\ UNCHANGED <<world, disk>>

-----------------------------------------------------------------------------
(* What happens around a build *)

\* The process is killed; the disk stays as it is.
Kill ==
  /\ outcome = "running"
  /\ kills < MaxKills
  /\ kills' = kills + 1
  /\ Finish("killed")
  /\ UNCHANGED <<graph, src, edits, disk, product>>

\* Somebody changes the sources of p, forwards or back.
Edit(p) ==
  /\ outcome # "running"
  /\ edits < MaxEdits
  /\ edits' = edits + 1
  /\ \E v \in Versions \ {src[p]} : src' = [src EXCEPT ![p] = v]
  /\ outcome' = "none"
  /\ product' = <<>>
  /\ UNCHANGED <<graph, disk, stack, building, kills>>

\* bcc clean removes both caches.
Clean ==
  /\ outcome # "running"
  /\ cache' = <<>>
  /\ checkout' = [p \in GitProjects |-> [dir |-> "absent", part |-> "absent"]]
  /\ UNCHANGED <<world, stack, building, outcome, product>>

Init ==
  /\ graph \in Graphs
  /\ src = [p \in Projects |-> 0]
  /\ cache = <<>>
  /\ checkout = [p \in GitProjects |-> [dir |-> "absent", part |-> "absent"]]
  /\ stack = <<>>
  /\ building = {}
  /\ outcome = "none"
  /\ product = <<>>
  /\ edits = 0
  /\ kills = 0

\* What a running build does by itself.
Step ==
  \/ EnterDep
  \/ Fetch
  \/ Cloned
  \/ CloneFails
  \/ Install
  \/ CacheHit
  \/ CompileLibrary
  \/ LinkBinary
  \/ BuildFails
  \/ StoreBegins
  \/ StoreArchive
  \/ StoreArchiveShort
  \/ StoreInterface
  \/ StoreFails

Next ==
  \/ \E p \in Roots : Run(p)
  \/ Step
  \/ Kill
  \/ \E p \in Editable : Edit(p)
  \/ Clean

Spec == Init /\ [][Next]_vars

\* A running build keeps running: the commands it waits for end.
FairSpec == Spec /\ WF_vars(Step)

-----------------------------------------------------------------------------
(* What a build should produce *)

\* The transitive dependencies of p: the least set that holds p's dependencies
\* and those of its members.
Reach(p) ==
  {q \in Projects :
     \A S \in SUBSET Projects :
       (/\ \A i \in DOMAIN graph[p] : graph[p][i] \in S
        /\ \A r \in S : \A i \in DOMAIN graph[r] : graph[r][i] \in S) => q \in S}

\* The versions p's artefact is compiled from when everything is built afresh.
Fresh(p) == {<<q, src[q]>> : q \in {p} \union Reach(p)}

Acyclic == \A p \in Projects : p \notin Reach(p)

-----------------------------------------------------------------------------
(* Properties *)

Files == [state : {"absent", "torn", "short", "whole"}, from : SUBSET (Projects \X Versions)]
Artifacts == [origin : Projects, a : Files, bmod : Files]

\* Type correctness.  A frame has one hash for each dependency already built, a
\* key occurs in the cache only for a library, and there are frames exactly
\* while a build runs (buildProject passes every error up to runBuild).
TypeOK ==
  /\ graph \in Graphs
  /\ src \in [Projects -> Versions]
  /\ \A k \in DOMAIN cache :
       /\ k[1] \in Libraries /\ k[2] \in Versions
       /\ Len(k[3]) = Len(Deps(k[1]))
       /\ cache[k] \in [a : Files, bmod : Files]
  /\ checkout \in [GitProjects -> [dir : {"absent", "partial", "whole"},
                                  part : {"absent", "partial", "whole"}]]
  /\ building \subseteq Projects
  /\ outcome \in {"none", "running", "ok", "circular", "failed", "killed"}
  /\ (outcome = "running") <=> (stack # <<>>)
  /\ \A i \in DOMAIN stack :
       /\ stack[i].proj \in building
       /\ stack[i].pc \in {"deps", "clone", "rename", "store", "storeA", "storeB"}
       /\ Len(stack[i].hashes) <= Len(Deps(stack[i].proj))
       /\ stack[i].closure \in Seq(Artifacts)
       /\ stack[i].obj \subseteq Projects \X Versions
  /\ product \in Seq(Artifacts)
  /\ edits \in 0..MaxEdits
  /\ kills \in 0..MaxKills

InOrder(closure) ==
  /\ \A i, j \in DOMAIN closure :
       closure[i].origin = closure[j].origin => i = j
  /\ \A j \in DOMAIN closure : \A d \in Range(Deps(closure[j].origin)) :
       \E i \in 1..(j - 1) : closure[i].origin = d

\* The closure every frame assembles (the .bmod list given to qcc and the .a
\* list given to the linker, bcc.cpp 1291-1307) names each project once and a
\* project after all its dependencies, however the paths of the graph meet.
ClosureInOrder ==
  /\ \A n \in DOMAIN stack : InOrder(stack[n].closure)
  /\ InOrder(product)

\* A build that succeeds hands on archives, of the project and of all it depends
\* on, compiled from the sources as they are now: no sequence of edits, killed
\* builds, failed stores and cleans makes the cache (bcc.cpp 1338-1350) answer
\* with something old, nor with something incomplete but for an archive that a
\* full disk cut short while store went on.
LinksCurrent ==
  outcome = "ok" =>
    LET root == product[Len(product)].origin IN
    /\ {product[i].origin : i \in DOMAIN product} = {root} \union Reach(root)
    /\ \A i \in DOMAIN product :
         product[i].a \in Copied(Fresh(product[i].origin))

\* An entry lookup would serve (BuildCache.cpp 165-206) holds an archive that is
\* whole unless a full disk cut it short, and archive and interface both come
\* from the sources and the dependency keys in its key.  lookup checks only that
\* the names exist: it is the order of the copies in store that makes a killed
\* store, or one whose failing copy is noticed, harmless to the archive.
ServedWhole ==
  \A k \in DOMAIN cache : Hit(k) =>
    /\ cache[k].a.state \in {"whole", "short"}
    /\ cache[k].a.from = cache[k].bmod.from
    /\ <<k[1], k[2]>> \in cache[k].a.from
    /\ \A i \in DOMAIN k[3] : <<k[3][i][1], k[3][i][2]>> \in cache[k].a.from

\* A git dependency is built only from a finished clone: "an interrupted fetch
\* never poisons the cache" (bcc.cpp 1097-1102).
FetchedWhole ==
  \A n \in DOMAIN stack :
    stack[n].proj \in GitProjects => checkout[stack[n].proj].dir = "whole"

\* Every build comes to an end, on circular dependencies too (bcc.cpp 1216-1221).
BuildEnds == (outcome = "running") ~> (outcome # "running")

\* "a diamond dep reached twice is not a false circular error" (bcc.cpp
\* 1277-1279): only a graph with a cycle is reported as circular.
NoFalseCircular == outcome = "circular" => ~Acyclic
=============================================================================
